-------------------------- MODULE ParallelForProofs --------------------------
(***************************************************************************)
(* Proofs about parallel_for: what the caches hold, who owns their markers *)
(* and the pending traces, how often a callback is called with an index,   *)
(* and which of several nested loops runs in parallel, for any tree of     *)
(* calls, any number of roots that run at once, and any configuration.     *)
(***************************************************************************)
EXTENDS ParallelFor, FiniteSetTheorems, TLAPS

USE CacheAssumption
USE DEF vars, shared, local

-----------------------------------------------------------------------------
(* The profile cache.                                                      *)

SomePlan == Plans \cup {NoPlan}
Bases    == [of : Nat, by : Nat]
Memos    == [plan : SomePlan, basis : Bases]

CacheEntry ==
    [cost : Costs, reliable : BOOLEAN, high : BOOLEAN, observations : Nat,
     fast_uses : Nat, nested : {"always", "recent", "none"}, plan : SomePlan,
     plan_uses : Nat, group : Nat, generation : Nat, since : Nat,
     lax : BOOLEAN, basis : Bases]

CacheFields ==
    {"entries", "order", "epoch", "generation", "frozen", "builds", "revalidations"}

\* An observation is from the current epoch.
Fresh(e, epoch) == e.lax \/ e.since = epoch

CacheOK(c) ==
    /\ c = [f \in CacheFields |-> c[f]]
    /\ c.epoch \in Nat /\ c.generation \in Nat
    /\ c.entries = [k \in Known(c) |-> c.entries[k]]
    /\ \A k \in Known(c) : /\ c.entries[k] \in CacheEntry
                           /\ Fresh(c.entries[k], c.epoch)

\* The markers of d are those of c.
SameMarkers(c, d) == d.builds = c.builds /\ d.revalidations = c.revalidations

\* What a plan depends on is the same in d, but entries may be gone.
SameProfiles(c, d) ==
    /\ d.generation = c.generation
    /\ \A k \in Known(d) : /\ k \in Known(c)
                           /\ d.entries[k].plan = c.entries[k].plan
                           /\ d.entries[k].basis = c.entries[k].basis
                           /\ d.entries[k].generation = c.entries[k].generation
                           /\ d.entries[k].group = c.entries[k].group

LEMMA TouchOK ==
    ASSUME NEW c, CacheOK(c), NEW k
    PROVE  CacheOK(touch(c, k)) /\ SameMarkers(c, touch(c, k)) /\ SameProfiles(c, touch(c, k))
<1>1. /\ touch(c, k).entries = c.entries /\ touch(c, k).generation = c.generation
      /\ CacheOK(touch(c, k)) /\ SameMarkers(c, touch(c, k))
    BY DEF touch, CacheOK, CacheFields, SameMarkers, Known
<1> QED BY <1>1 DEF SameProfiles, Known

LEMMA FindOK ==
    ASSUME NEW c, CacheOK(c), NEW k
    PROVE  /\ CacheOK(find(c, k)) /\ SameMarkers(c, find(c, k)) /\ SameProfiles(c, find(c, k))
           /\ Found(c, k) \in CacheEntry \cup {NoEntry}
           /\ Found(c, k).generation \in Nat
<1>1. CacheOK(find(c, k)) /\ SameMarkers(c, find(c, k)) /\ SameProfiles(c, find(c, k))
    BY TouchOK DEF find, SameMarkers, SameProfiles
<1>2. Found(c, k) \in CacheEntry \cup {NoEntry}
    BY DEF Found, CacheOK
<1>3. ASSUME NEW e \in CacheEntry PROVE e.generation \in Nat
    BY DEF CacheEntry
<1>4. NoEntry.generation \in Nat
    BY DEF NoEntry
<1> QED BY <1>1, <1>2, <1>3, <1>4

\* An entry is replaced.
LEMMA ReplaceOK ==
    ASSUME NEW c, CacheOK(c), NEW k \in Known(c), NEW e \in CacheEntry,
           Fresh(e, c.epoch)
    PROVE  /\ CacheOK([c EXCEPT !.entries[k] = e])
           /\ SameMarkers(c, [c EXCEPT !.entries[k] = e])
           /\ [c EXCEPT !.entries[k] = e].generation = c.generation
           /\ Known([c EXCEPT !.entries[k] = e]) = Known(c)
           /\ \A x \in Known(c) :
                [c EXCEPT !.entries[k] = e].entries[x] = IF x = k THEN e ELSE c.entries[x]
<1> DEFINE d == [c EXCEPT !.entries[k] = e]
<1>1. /\ d = [f \in CacheFields |-> d[f]] /\ d.epoch = c.epoch
      /\ d.generation = c.generation /\ SameMarkers(c, d)
      /\ d.entries = [c.entries EXCEPT ![k] = e]
    BY DEF CacheOK, CacheFields, SameMarkers
<1>2. Known(d) = Known(c) /\ d.entries = [x \in Known(c) |-> d.entries[x]]
      /\ \A x \in Known(c) : d.entries[x] = IF x = k THEN e ELSE c.entries[x]
    BY <1>1 DEF CacheOK, Known
<1> HIDE DEF d
<1>3. CacheOK(d)
    BY <1>1, <1>2 DEF CacheOK
<1> QED BY <1>1, <1>2, <1>3 DEF d

LEMMA CutNat ==
    ASSUME NEW n \in Nat, NEW b \in Nat
    PROVE  Cut(n, b) \in Nat
BY DEF Cut

LEMMA NoteFastOK ==
    ASSUME NEW c, CacheOK(c), NEW k
    PROVE  /\ CacheOK(note_sequential_fast_path_use(c, k))
           /\ SameMarkers(c, note_sequential_fast_path_use(c, k))
           /\ SameProfiles(c, note_sequential_fast_path_use(c, k))
<1>1. CASE k \in Known(c)
    <2> DEFINE e == [c.entries[k] EXCEPT !.fast_uses = Cut(@, FastPathInterval)]
               d == [c EXCEPT !.entries[k] = e]
    <2>1. c.entries[k] \in CacheEntry /\ c.entries[k].fast_uses \in Nat
        BY <1>1 DEF CacheOK, CacheEntry
    <2>2. /\ e \in CacheEntry /\ e.since = c.entries[k].since
          /\ e.lax = c.entries[k].lax /\ e.plan = c.entries[k].plan
          /\ e.basis = c.entries[k].basis
          /\ e.generation = c.entries[k].generation /\ e.group = c.entries[k].group
        BY <2>1, CutNat DEF CacheEntry
    <2>3. Fresh(e, c.epoch)
        BY <1>1, <2>2 DEF CacheOK, Fresh
    <2>4. [c EXCEPT !.entries[k].fast_uses = Cut(@, FastPathInterval)] = d
        BY <1>1 DEF CacheOK, CacheFields
    <2> HIDE DEF e
    <2>5. /\ CacheOK(d) /\ SameMarkers(c, d) /\ d.generation = c.generation
          /\ Known(d) = Known(c)
          /\ \A x \in Known(c) : d.entries[x] = IF x = k THEN e ELSE c.entries[x]
        BY <1>1, <2>2, <2>3, ReplaceOK
    <2>7. SameProfiles(c, d)
        BY <2>2, <2>5 DEF SameProfiles
    <2> HIDE DEF d
    <2>6. CacheOK(touch(d, k)) /\ SameMarkers(d, touch(d, k)) /\ SameProfiles(d, touch(d, k))
        BY <2>5, TouchOK
    <2>8. SameMarkers(c, touch(d, k)) /\ SameProfiles(c, touch(d, k))
        BY <2>5, <2>6, <2>7 DEF SameMarkers, SameProfiles
    <2> QED BY <1>1, <2>4, <2>6, <2>8 DEF note_sequential_fast_path_use
<1>2. CASE k \notin Known(c)
    BY <1>2 DEF note_sequential_fast_path_use, SameMarkers, SameProfiles
<1> QED BY <1>1, <1>2

LEMMA NoteStableOK ==
    ASSUME NEW c, CacheOK(c), NEW k
    PROVE  /\ CacheOK(note_stable_plan_use(c, k))
           /\ SameMarkers(c, note_stable_plan_use(c, k))
           /\ SameProfiles(c, note_stable_plan_use(c, k))
<1>1. CASE k \in Known(c) /\ c.entries[k].plan # NoPlan
    <2> DEFINE e == [c.entries[k] EXCEPT !.plan_uses = Cut(@, StablePlanInterval)]
               d == [c EXCEPT !.entries[k] = e]
    <2>1. c.entries[k] \in CacheEntry /\ c.entries[k].plan_uses \in Nat
        BY <1>1 DEF CacheOK, CacheEntry
    <2>2. /\ e \in CacheEntry /\ e.since = c.entries[k].since
          /\ e.lax = c.entries[k].lax /\ e.plan = c.entries[k].plan
          /\ e.basis = c.entries[k].basis
          /\ e.generation = c.entries[k].generation /\ e.group = c.entries[k].group
        BY <2>1, CutNat DEF CacheEntry
    <2>3. Fresh(e, c.epoch)
        BY <1>1, <2>2 DEF CacheOK, Fresh
    <2>4. [c EXCEPT !.entries[k].plan_uses = Cut(@, StablePlanInterval)] = d
        BY <1>1 DEF CacheOK, CacheFields
    <2> HIDE DEF e
    <2>5. /\ CacheOK(d) /\ SameMarkers(c, d) /\ d.generation = c.generation
          /\ Known(d) = Known(c)
          /\ \A x \in Known(c) : d.entries[x] = IF x = k THEN e ELSE c.entries[x]
        BY <1>1, <2>2, <2>3, ReplaceOK
    <2>7. SameProfiles(c, d)
        BY <2>2, <2>5 DEF SameProfiles
    <2> HIDE DEF d
    <2>6. CacheOK(touch(d, k)) /\ SameMarkers(d, touch(d, k)) /\ SameProfiles(d, touch(d, k))
        BY <2>5, TouchOK
    <2>8. SameMarkers(c, touch(d, k)) /\ SameProfiles(c, touch(d, k))
        BY <2>5, <2>6, <2>7 DEF SameMarkers, SameProfiles
    <2> QED BY <1>1, <2>4, <2>6, <2>8 DEF note_stable_plan_use
<1>2. CASE ~(k \in Known(c) /\ c.entries[k].plan # NoPlan)
    BY <1>2 DEF note_stable_plan_use, SameMarkers, SameProfiles
<1> QED BY <1>1, <1>2

\* In d the entry of k has got a plan with basis b.
Installed(c, d, k, b) ==
    /\ d.generation = c.generation /\ Known(d) = Known(c)
    /\ \A x \in Known(c) : /\ d.entries[x].generation = c.entries[x].generation
                           /\ d.entries[x].group = c.entries[x].group
                           /\ x # k => d.entries[x] = c.entries[x]
    /\ d.entries[k].basis = b

LEMMA StorePlanOK ==
    ASSUME NEW c, CacheOK(c), NEW k, NEW plan \in SomePlan, NEW g \in Nat,
           NEW b \in Bases
    PROVE  /\ CacheOK(store_stable_plan(c, k, plan, g, b))
           /\ SameMarkers(c, store_stable_plan(c, k, plan, g, b))
           /\ \/ SameProfiles(c, store_stable_plan(c, k, plan, g, b))
              \/ /\ k \in Known(c) /\ g # 0 /\ c.entries[k].generation = g
                 /\ Installed(c, store_stable_plan(c, k, plan, g, b), k, b)
<1>1. CASE k \in Known(c) /\ g # 0 /\ c.entries[k].generation = g
    <2> DEFINE e == [c.entries[k] EXCEPT !.plan = plan, !.plan_uses = 0, !.basis = b]
               d == [c EXCEPT !.entries[k] = e]
    <2>1. c.entries[k] \in CacheEntry
        BY <1>1 DEF CacheOK
    <2>2. /\ e \in CacheEntry /\ e.since = c.entries[k].since
          /\ e.lax = c.entries[k].lax /\ e.basis = b
          /\ e.generation = c.entries[k].generation /\ e.group = c.entries[k].group
        BY <1>1, <2>1 DEF CacheEntry
    <2>3. Fresh(e, c.epoch)
        BY <1>1, <2>2 DEF CacheOK, Fresh
    <2>4. store_stable_plan(c, k, plan, g, b) = touch(d, k)
        BY <1>1 DEF store_stable_plan
    <2> HIDE DEF e
    <2>5. /\ CacheOK(d) /\ SameMarkers(c, d) /\ d.generation = c.generation
          /\ Known(d) = Known(c)
          /\ \A x \in Known(c) : d.entries[x] = IF x = k THEN e ELSE c.entries[x]
        BY <1>1, <2>2, <2>3, ReplaceOK
    <2> HIDE DEF d
    <2>6. CacheOK(touch(d, k)) /\ SameMarkers(d, touch(d, k))
          /\ touch(d, k).entries = d.entries /\ touch(d, k).generation = d.generation
        BY <2>5, TouchOK DEF touch, CacheOK, CacheFields
    <2>7. Installed(c, touch(d, k), k, b)
        BY <1>1, <2>2, <2>5, <2>6 DEF Installed, Known
    <2> QED BY <1>1, <2>4, <2>5, <2>6, <2>7 DEF SameMarkers
<1>2. CASE ~(k \in Known(c) /\ g # 0 /\ c.entries[k].generation = g)
    BY <1>2 DEF store_stable_plan, SameMarkers, SameProfiles
<1> QED BY <1>1, <1>2

LEMMA MarkersOK ==
    ASSUME NEW c, CacheOK(c), NEW k
    PROVE  /\ CacheOK(try_acquire_profile_build(c, k))
           /\ CacheOK(try_acquire_revalidation(c, k))
           /\ CacheOK([c EXCEPT !.frozen = ~@])
           /\ SameMarkers(c, [c EXCEPT !.frozen = ~@])
           /\ try_acquire_profile_build(c, k).revalidations = c.revalidations
           /\ try_acquire_profile_build(c, k).builds =
                c.builds \cup (IF MayBuild(c, k) THEN {k} ELSE {})
           /\ try_acquire_revalidation(c, k).builds = c.builds
           /\ try_acquire_revalidation(c, k).revalidations =
                c.revalidations \cup (IF MayRevalidate(c, k) THEN {k} ELSE {})
BY DEF CacheOK, CacheFields, Known, SameMarkers, try_acquire_profile_build,
       try_acquire_revalidation

LEMMA ReleasedOK ==
    ASSUME NEW c, CacheOK(c), NEW b, NEW r
    PROVE  /\ CacheOK(Released(c, b, r))
           /\ Released(c, b, r).builds = c.builds \ b
           /\ Released(c, b, r).revalidations = c.revalidations \ r
BY DEF CacheOK, CacheFields, Known, Released

LEMMA MarkersApart ==
    ASSUME NEW c, CacheOK(c), NEW k, NEW b, NEW r
    PROVE  /\ SameProfiles(c, try_acquire_profile_build(c, k))
           /\ SameProfiles(c, try_acquire_revalidation(c, k))
           /\ SameProfiles(c, [c EXCEPT !.frozen = ~@])
           /\ SameProfiles(c, Released(c, b, r))
BY DEF CacheOK, CacheFields, Known, SameProfiles, try_acquire_profile_build,
       try_acquire_revalidation, Released

\* Nothing of before a clear is left, but the markers are.
LEMMA ClearOK ==
    ASSUME NEW c, CacheOK(c)
    PROVE  CacheOK(clear(c)) /\ SameMarkers(c, clear(c)) /\ SameProfiles(c, clear(c))
<1> DEFINE d == clear(c)
<1>1. /\ d = [f \in CacheFields |-> d[f]]
      /\ d.entries = <<>> /\ d.epoch = c.epoch + 1
      /\ d.generation = c.generation /\ SameMarkers(c, d)
    BY DEF clear, CacheOK, CacheFields, SameMarkers
<1> HIDE DEF d
<1>2. Known(d) = {}
    BY <1>1 DEF Known
<1>3. d.entries = [k \in {} |-> d.entries[k]]
    BY <1>1
<1>4. d.epoch \in Nat /\ d.generation \in Nat
    BY <1>1 DEF CacheOK
<1>5. CacheOK(d)
    BY <1>1, <1>2, <1>3, <1>4 DEF CacheOK
<1>6. SameProfiles(c, d)
    BY <1>1, <1>2 DEF SameProfiles
<1> QED BY <1>1, <1>5, <1>6 DEF d

\* What a call has observed in the epoch it names.
ObservationOK(p, epoch) ==
    /\ p.cost \in Costs /\ p.reliable \in BOOLEAN /\ p.nested \in BOOLEAN
    /\ p.group \in Nat /\ p.since \in Nat /\ p.lax \in BOOLEAN
    /\ p.lax \/ p.since = epoch

LEMMA FirstOK ==
    ASSUME NEW p, NEW epoch, ObservationOK(p, epoch), NEW g \in Nat
    PROVE  /\ FirstEntry(p, g) \in CacheEntry
           /\ FirstEntry(p, g).plan = NoPlan /\ FirstEntry(p, g).generation = g
           /\ FirstEntry(p, g).group = p.group
           /\ Fresh(FirstEntry(p, g), epoch)
BY DEF FirstEntry, CacheEntry, ObservationOK, Fresh, SomePlan, NoBasis, Bases

LEMMA BlendedOK ==
    ASSUME NEW p, NEW epoch \in Nat, ObservationOK(p, epoch), NEW g \in Nat,
           NEW e \in CacheEntry, Fresh(e, epoch)
    PROVE  /\ Blended(e, p, g) \in CacheEntry
           /\ Blended(e, p, g).plan = NoPlan /\ Blended(e, p, g).generation = g
           /\ Blended(e, p, g).group = p.group
           /\ Fresh(Blended(e, p, g), epoch)
<1> DEFINE n == IF e.group # p.group THEN Cut(e.observations, MinObservations)
                ELSE e.observations
           h == NestedEvidence(e.nested, p.nested)
           s == IF p.since < e.since THEN p.since ELSE e.since
           x == e.lax \/ p.lax
           m == n >= MinObservations
           f == [e EXCEPT !.cost = p.cost, !.observations = n, !.group = p.group,
                  !.high = m, !.fast_uses = 0,
                  !.nested = h,
                  !.plan = NoPlan, !.plan_uses = 0, !.generation = g,
                  !.since = s, !.lax = x]
<1>1. e.observations \in Nat /\ e.since \in Nat /\ e.lax \in BOOLEAN
      /\ e.nested \in {"always", "recent", "none"}
    BY DEF CacheEntry
<1>2. n \in Nat
    BY <1>1, CutNat
<1>3. h \in {"always", "recent", "none"}
    BY <1>1 DEF NestedEvidence, ObservationOK
<1>4. s \in Nat /\ x \in BOOLEAN /\ (x \/ s = epoch)
    BY <1>1 DEF ObservationOK, Fresh
<1>5. Blended(e, p, g) = f
    BY DEF Blended, CacheEntry
<1> HIDE DEF n, h, s, x
<1>6. m \in BOOLEAN /\ NoPlan \in SomePlan /\ 0 \in Nat
    BY <1>2 DEF SomePlan
<1>7. p.cost \in Costs /\ p.group \in Nat
    BY DEF ObservationOK
<1> HIDE DEF m
<1>8. f \in CacheEntry /\ f.plan = NoPlan /\ f.since = s /\ f.lax = x
      /\ f.generation = g /\ f.group = p.group
    BY <1>2, <1>3, <1>4, <1>6, <1>7 DEF CacheEntry
<1> HIDE DEF f
<1> QED BY <1>4, <1>5, <1>8 DEF Fresh

\* In d the entry of k is new: without a plan, of a new generation, observed by
\* root call r.
Published(c, d, k, r) ==
    /\ d.generation = c.generation + 1 /\ k \in Known(d)
    /\ d.entries[k].plan = NoPlan /\ d.entries[k].group = r
    /\ d.entries[k].generation = d.generation
    /\ \A x \in Known(d) \ {k} : x \in Known(c) /\ d.entries[x] = c.entries[x]

\* store publishes only what was observed in the current epoch.
LEMMA StoreOK ==
    ASSUME NEW c, CacheOK(c), NEW k, NEW p, NEW epoch, ObservationOK(p, epoch)
    PROVE  /\ CacheOK(store(c, k, p, epoch)) /\ SameMarkers(c, store(c, k, p, epoch))
           /\ StoredGeneration(c, k, epoch) \in Nat
           /\ \/ store(c, k, p, epoch) = c /\ StoredGeneration(c, k, epoch) = 0
              \/ /\ Published(c, store(c, k, p, epoch), k, p.group)
                 /\ StoredGeneration(c, k, epoch) = c.generation + 1
<1>0. StoredGeneration(c, k, epoch) \in Nat
    BY DEF StoredGeneration, CacheOK
<1>1. CASE ~Accepted(c, k, epoch)
    BY <1>0, <1>1 DEF store, SameMarkers, StoredGeneration
<1>2. CASE Accepted(c, k, epoch)
    <2> DEFINE keep == (Known(c) \ {Victim(c, k)}) \cup {k}
               e == NextEntry(c, k, p)
               E == [x \in keep |-> IF x = k THEN e ELSE c.entries[x]]
               d == [c EXCEPT !.entries = E,
                       !.order = Append(SelectSeq(@, LAMBDA x : x \notin {k, Victim(c, k)}), k),
                       !.generation = @ + 1]
    <2>1. store(c, k, p, epoch) = d
        BY <1>2 DEF store
    <2>2. epoch = c.epoch /\ epoch \in Nat /\ c.generation + 1 \in Nat
        BY <1>2 DEF Accepted, CacheOK
    <2>3. /\ e \in CacheEntry /\ Fresh(e, c.epoch)
          /\ e.plan = NoPlan /\ e.generation = c.generation + 1 /\ e.group = p.group
        <3>1. CASE k \notin Known(c) \/ Contradicts(Found(c, k), p)
            BY <2>2, <3>1, FirstOK DEF NextEntry
        <3>2. CASE ~(k \notin Known(c) \/ Contradicts(Found(c, k), p))
            <4>1. c.entries[k] \in CacheEntry /\ Fresh(c.entries[k], c.epoch)
                BY <3>2 DEF CacheOK
            <4> QED BY <2>2, <3>2, <4>1, BlendedOK DEF NextEntry
        <3> QED BY <3>1, <3>2
    <2> HIDE DEF e
    <2>4. /\ d = [f \in CacheFields |-> d[f]] /\ d.epoch = c.epoch
          /\ d.generation = c.generation + 1 /\ SameMarkers(c, d) /\ d.entries = E
        BY DEF CacheOK, CacheFields, SameMarkers
    <2> HIDE DEF d
    <2>5. \A x \in keep : x = k \/ x \in Known(c)
        OBVIOUS
    <2> HIDE DEF keep
    <2>6. Known(d) = keep /\ d.entries = [x \in keep |-> d.entries[x]]
          /\ \A x \in keep : d.entries[x] = IF x = k THEN e ELSE c.entries[x]
        BY <2>4 DEF Known
    <2>7. CacheOK(d)
        BY <2>2, <2>3, <2>4, <2>5, <2>6 DEF CacheOK
    <2>8. Published(c, d, k, p.group)
        <3>1. k \in keep
            BY DEF keep
        <3> QED BY <2>3, <2>4, <2>5, <2>6, <3>1 DEF Published
    <2>9. StoredGeneration(c, k, epoch) = c.generation + 1
        BY <1>2 DEF StoredGeneration
    <2> QED BY <1>0, <2>1, <2>4, <2>7, <2>8, <2>9
<1> QED BY <1>1, <1>2

-----------------------------------------------------------------------------
(* The calibration of backends.                                            *)

CalibrationEntry ==
    [generation : Nat, samples : [Engines -> Nat], winner : Engines \cup {"none"},
     from : SUBSET Nat]

Calibrated(e) ==
    /\ e \in CalibrationEntry
    /\ e.from \subseteq {e.generation}
    /\ e.winner # "none" => Compared(e)

CalibrationOK(cal) ==
    /\ cal = [k \in DOMAIN cal |-> cal[k]]
    /\ \A k \in DOMAIN cal : Calibrated(cal[k])

LEMMA FoundOrCreated ==
    ASSUME NEW cal, CalibrationOK(cal), NEW k, NEW g \in Nat,
           NEW c \in find_or_create(cal, k, g)
    PROVE  CalibrationOK(c) /\ k \in DOMAIN c /\ c[k].generation = g
<1> DEFINE entry == IF k \in DOMAIN cal /\ cal[k].generation = g THEN cal[k]
                    ELSE NoCalibration(g)
           With(s) == [x \in s \cup {k} |-> IF x = k THEN entry ELSE cal[x]]
<1>1. \E s : s \subseteq DOMAIN cal /\ c = With(s)
    <2>1. c \in {With(DOMAIN cal \ {v}) : v \in DOMAIN cal} \cup {With(DOMAIN cal)}
        BY DEF find_or_create
    <2> QED BY <2>1
<1>2. PICK s : s \subseteq DOMAIN cal /\ c = With(s)
    BY <1>1
<1>3. NoCalibration(g) \in CalibrationEntry /\ NoCalibration(g).generation = g
      /\ NoCalibration(g).from = {} /\ NoCalibration(g).winner = "none"
    BY DEF NoCalibration, CalibrationEntry
<1>4. Calibrated(entry) /\ entry.generation = g
    BY <1>3 DEF Calibrated, CalibrationOK
<1> HIDE DEF entry
<1>5. /\ DOMAIN c = s \cup {k} /\ c = [x \in s \cup {k} |-> c[x]]
      /\ \A x \in s \cup {k} : c[x] = IF x = k THEN entry ELSE cal[x]
    BY <1>2
<1> QED BY <1>2, <1>4, <1>5 DEF CalibrationOK

LEMMA CalibrationReplaced ==
    ASSUME NEW c, CalibrationOK(c), NEW k \in DOMAIN c, NEW e, Calibrated(e)
    PROVE  CalibrationOK([c EXCEPT ![k] = e])
BY DEF CalibrationOK

\* A backend wins only when both were measured for this profile.
LEMMA SelectOK ==
    ASSUME NEW cal, CalibrationOK(cal), NEW k, NEW g \in Nat,
           NEW requested \in Engines, NEW faster \in Engines,
           NEW r \in select(cal, k, g, requested, faster)
    PROVE  CalibrationOK(r[1]) /\ r[2] \in Engines
<1>1. PICK c \in find_or_create(cal, k, g) :
        r = LET e == c[k] IN
            CASE e.winner # "none"                   -> <<c, e.winner>>
              [] e.winner = "none" /\ e.samples[requested] < MinSamples ->
                    <<c, requested>>
              [] e.winner = "none" /\ e.samples[requested] >= MinSamples
                 /\ ~Compared(e)                      -> <<c, other_backend(requested)>>
              [] OTHER                                -> <<[c EXCEPT ![k].winner = faster],
                                                           faster>>
    BY Zenon DEF select
<1>2. CalibrationOK(c) /\ k \in DOMAIN c
    BY FoundOrCreated
<1> DEFINE e == c[k]
<1>3. Calibrated(e) /\ e \in CalibrationEntry /\ e.winner \in Engines \cup {"none"}
      /\ e.samples \in [Engines -> Nat] /\ e.samples[requested] \in Nat
    BY <1>2 DEF CalibrationOK, Calibrated, CalibrationEntry
<1>4. other_backend(requested) \in Engines
    BY DEF other_backend, Engines
<1>5. CASE e.winner # "none"
    BY <1>1, <1>2, <1>3, <1>5
<1>6. CASE e.winner = "none" /\ e.samples[requested] < MinSamples
    <2>1. ~(e.samples[requested] >= MinSamples)
        BY <1>3, <1>6
    <2>2. r = <<c, requested>>
        BY <1>1, <1>6, <2>1, Zenon
    <2> QED BY <1>2, <2>2
<1>7. CASE e.winner = "none" /\ e.samples[requested] >= MinSamples /\ ~Compared(e)
    <2>1. ~(e.samples[requested] < MinSamples)
        BY <1>3, <1>7
    <2>2. r = <<c, other_backend(requested)>>
        BY <1>1, <1>7, <2>1, Zenon
    <2> QED BY <1>2, <1>4, <2>2
<1>8. CASE e.winner = "none" /\ e.samples[requested] >= MinSamples /\ Compared(e)
    <2> DEFINE f == [e EXCEPT !.winner = faster]
    <2>1. ~(e.samples[requested] < MinSamples)
        BY <1>3, <1>8
    <2>2. r = <<[c EXCEPT ![k].winner = faster], faster>>
        BY <1>1, <1>8, <2>1, Zenon
    <2>3. [c EXCEPT ![k].winner = faster] = [c EXCEPT ![k] = f]
        OBVIOUS
    <2>4. f \in CalibrationEntry /\ f.from = e.from /\ f.generation = e.generation
          /\ f.samples = e.samples
        BY <1>3 DEF CalibrationEntry
    <2>5. Calibrated(f)
        BY <1>3, <1>8, <2>4 DEF Calibrated, Compared
    <2> HIDE DEF f
    <2>6. CalibrationOK([c EXCEPT ![k] = f])
        BY <1>2, <2>5, CalibrationReplaced
    <2> QED BY <2>2, <2>3, <2>6
<1>9. e.samples[requested] < MinSamples \/ e.samples[requested] >= MinSamples
    BY <1>3
<1> QED BY <1>5, <1>6, <1>7, <1>8, <1>9, Zenon

LEMMA RecordOK ==
    ASSUME NEW cal, CalibrationOK(cal), NEW k, NEW g \in Nat,
           NEW backend, NEW faster \in Engines,
           NEW r \in record(cal, k, g, backend, faster)
    PROVE  CalibrationOK(r)
<1>1. PICK c \in find_or_create(cal, k, g) :
        r = LET s == [c EXCEPT ![k].samples[backend] = Cut(@, MinSamples),
                               ![k].from = @ \cup {g}]
            IN  IF Compared(s[k]) THEN [s EXCEPT ![k].winner = faster] ELSE s
    BY Zenon DEF record
<1>2. CalibrationOK(c) /\ k \in DOMAIN c /\ c[k].generation = g
    BY FoundOrCreated
<1> DEFINE e == c[k]
           v == [e.samples EXCEPT ![backend] = Cut(@, MinSamples)]
           f == [e EXCEPT !.samples = v, !.from = @ \cup {g}]
           s == [c EXCEPT ![k].samples[backend] = Cut(@, MinSamples),
                          ![k].from = @ \cup {g}]
<1>3. Calibrated(e) /\ e \in CalibrationEntry /\ e.samples \in [Engines -> Nat]
      /\ e.generation = g
    BY <1>2 DEF CalibrationOK, Calibrated, CalibrationEntry
<1>4. v \in [Engines -> Nat]
      /\ \A b \in Engines : e.samples[b] >= MinSamples => v[b] >= MinSamples
    <2>1. v = [b \in Engines |-> v[b]]
          /\ \A b \in Engines : v[b] = IF b = backend THEN Cut(e.samples[b], MinSamples)
                                       ELSE e.samples[b]
        BY <1>3
    <2> HIDE DEF v
    <2>2. ASSUME NEW b \in Engines
          PROVE  v[b] \in Nat /\ (e.samples[b] >= MinSamples => v[b] >= MinSamples)
        <3>1. e.samples[b] \in Nat
            BY <1>3
        <3> HIDE DEF e
        <3>2. Cut(e.samples[b], MinSamples) \in Nat
              /\ (e.samples[b] >= MinSamples => Cut(e.samples[b], MinSamples) >= MinSamples)
            BY <3>1 DEF Cut
        <3> QED BY <2>1, <3>1, <3>2
    <2> QED BY <2>1, <2>2
<1>5. s = [c EXCEPT ![k] = f]
    BY <1>2, <1>3 DEF CalibrationEntry
<1> HIDE DEF v
<1>6. f \in CalibrationEntry /\ f.samples = v /\ f.from = e.from \cup {g}
      /\ f.winner = e.winner /\ f.generation = g
    BY <1>3, <1>4 DEF CalibrationEntry
<1>7. Calibrated(f)
    BY <1>3, <1>4, <1>6 DEF Calibrated, Compared
<1> HIDE DEF f, s
<1>8. CalibrationOK(s) /\ k \in DOMAIN s /\ s[k] = f
    BY <1>2, <1>5, <1>7, CalibrationReplaced
<1>9. CASE Compared(s[k])
    <2> DEFINE h == [f EXCEPT !.winner = faster]
    <2>1. r = [s EXCEPT ![k] = h]
        BY <1>1, <1>8, <1>9 DEF s
    <2>2. h \in CalibrationEntry /\ h.from = f.from /\ h.generation = f.generation
          /\ h.samples = f.samples
        BY <1>6 DEF CalibrationEntry
    <2>3. Calibrated(h)
        BY <1>7, <1>8, <1>9, <2>2 DEF Calibrated, Compared
    <2> HIDE DEF h
    <2> QED BY <1>8, <2>1, <2>3, CalibrationReplaced
<1>10. CASE ~Compared(s[k])
    BY <1>1, <1>8, <1>10 DEF s
<1> QED BY <1>9, <1>10

-----------------------------------------------------------------------------
(* Calls.                                                                  *)

Sites == {Site[l] : l \in Loops} \cup {NoSite}

Context ==
    [parallel : BOOLEAN, engine : Engines \cup {"Auto"}, conservative : BOOLEAN,
     sealed : BOOLEAN, ancestor : BOOLEAN, session : Loops \cup {NoLoop},
     budget : Nat, grant : Nat \ {0}, site : Sites, collects : BOOLEAN,
     nested : BOOLEAN, root : Nat]

Samples == {s \in SUBSET Nat : IsFiniteSet(s)}

Locals ==
    [path : {"none", "exact", "sealed", "inherited", "main"}, began : Nat,
     since : Nat, entry : CacheEntry \cup {NoEntry}, generation : Nat,
     revalidates : BOOLEAN, builds : BOOLEAN, stores : BOOLEAN,
     cost : Costs \cup {"none"}, plan : SomePlan, basis : Bases,
     memo : Memos, stable : BOOLEAN, calibrates : BOOLEAN, sampled : Samples]

\* Where a call has executed nothing yet, decides with some samples taken,
\* executes all that is left, and has executed everything.
Early    == {"idle", "called", "epoch", "find", "revalidate", "build", "cold",
             "chosen", "sample"}
Deciding == {"decide", "publish", "select", "prepare"}
Straight == {"direct", "learning", "fast", "execute"}
Over     == {"learned", "record", "done"}
Places   == Early \cup Deciding \cup Straight \cup {"pilot", "sampling"} \cup Over

\* The indices with which the callback has not been called.
Left(l, p, d, w) ==
    CASE p \in Early      -> Items(l)
      [] p \in Deciding   -> Items(l) \ d.sampled
      [] p \in Straight   -> w
      [] p = "pilot"      -> w \cup (Items(l) \ {0})
      [] p = "sampling"   -> w \cup (Items(l) \ d.sampled)
      [] p \in Over       -> {}

\* Place, context, locals, indices to execute, callbacks inside nested calls,
\* and the counts of a call.
Typed(l, p, c, d, w, r, n) ==
    /\ p \in Places /\ c \in Context /\ d \in Locals
    /\ w \subseteq Items(l) /\ r \subseteq Items(l) /\ n \in [Items(l) -> Nat]

Counted(l, p, d, w, n) ==
    \A i \in Items(l) : n[i] = IF i \in Left(l, p, d, w) THEN 0 ELSE 1

Flagged(l, p, d, w, r) ==
    /\ p \notin Executing => w = {} /\ r = {}
    /\ w \cap r = {}
    /\ p \in {"idle", "called"} => d = NoLocals
    /\ p \in {"epoch", "find", "revalidate"} => ~d.revalidates
    /\ p \in {"epoch", "find", "revalidate", "build"} => ~d.builds
    /\ p = "revalidate" => d.entry # NoEntry
    /\ p \in Early => d.sampled = {}
    /\ p = "sampling" => w \subseteq d.sampled
    /\ p = "pilot" => ~Nested(l) /\ w \subseteq {0}
    /\ p \in Executing \cup {"publish", "select", "prepare"} => d.plan \in Plans
    /\ d.path = "inherited" \/ d.since = d.began

\* Under u, the context of the call around it, with or without the frontier.
Lined(f, l, u, p, c, d) ==
    /\ p \in Executing /\ d.plan.parallel => c.parallel
    /\ Nested(l) =>
         /\ p \notin {"idle", "called"} /\ (u.parallel \/ u.ancestor)
              => c.parallel \/ c.ancestor
         /\ f /\ p \in Executing \cup {"publish", "select", "prepare"} /\ d.plan.parallel
              => ~(u.parallel \/ u.ancestor)
         /\ p \in Executing /\ d.plan.parallel /\ u.parallel
              => d.plan.jobs <= u.budget

CallOK(f, l, u, p, c, d, w, r, n) ==
    /\ Typed(l, p, c, d, w, r, n) /\ Counted(l, p, d, w, n)
    /\ Flagged(l, p, d, w, r) /\ Lined(f, l, u, p, c, d)

\* A nested call is made by a callback of its parent.
Inside(l) ==
    Nested(l) /\ pc[l] # "idle" =>
        pc[Parent[l]] \in Executing /\ At[l] \in running[Parent[l]]

Mapped ==
    /\ pc = [l \in Loops |-> pc[l]] /\ ctx = [l \in Loops |-> ctx[l]]
    /\ loc = [l \in Loops |-> loc[l]] /\ todo = [l \in Loops |-> todo[l]]
    /\ running = [l \in Loops |-> running[l]] /\ failed = [l \in Loops |-> failed[l]]
    /\ count = [l \in Loops |-> count[l]]

CallsInv ==
    /\ Mapped
    /\ \A l \in Loops :
         /\ CallOK(config.frontier, l, ctx[Parent[l]], pc[l], ctx[l], loc[l], todo[l],
                   running[l], count[l])
         /\ Inside(l)
    /\ \A l, m \in Loops :
         /\ Nested(l) /\ Nested(m) /\ Parent[l] = Parent[m] /\ At[l] = At[m]
         /\ pc[l] # "idle" /\ pc[m] # "idle"
         => l = m

\* A step of l that calls nobody and ends nothing.
Moves(l) ==
    /\ Mapped'
    /\ \A m \in Loops \ {l} : /\ pc'[m] = pc[m] /\ ctx'[m] = ctx[m]
                              /\ loc'[m] = loc[m] /\ todo'[m] = todo[m]
    /\ UNCHANGED <<config, running, failed, count>>

\* An idle call does not depend on the context around it.
LEMMA IdleAnywhere ==
    ASSUME NEW f, NEW l, NEW u, NEW v, NEW c, NEW d, NEW w, NEW r, NEW n,
           CallOK(f, l, u, "idle", c, d, w, r, n)
    PROVE  CallOK(f, l, v, "idle", c, d, w, r, n)
<1>1. "idle" \notin Executing
    BY DEF Executing
<1>2. Lined(f, l, v, "idle", c, d)
    BY <1>1 DEF Lined
<1> QED BY <1>2 DEF CallOK

LEMMA Constants ==
    /\ \A l \in Loops : /\ Nested(l) => Parent[l] \in Loops /\ At[l] \in Items(Parent[l])
                        /\ Total[l] \in Nat \ {0} /\ 0 \in Items(l)
    /\ \A x \in Configs : /\ \A l \in x.roots : l \in Loops /\ ~Nested(l)
                          /\ x.grants \subseteq Nat \ {0}
                          /\ x.costs \subseteq Costs /\ x.signals \subseteq BOOLEAN
                          /\ x.frontier \in BOOLEAN /\ x.online \in BOOLEAN
                          /\ x.sampling \in BOOLEAN
BY LoopAssumption DEF Nested, Items

\* Who calls from inside l holds l where it is.
LEMMA Held ==
    ASSUME CallsInv, NEW m \in Loops, Nested(m), pc[m] # "idle"
    PROVE  /\ Parent[m] \in Loops /\ pc[Parent[m]] \in Executing
           /\ running[Parent[m]] # {} /\ At[m] \in running[Parent[m]]
BY Constants DEF CallsInv, Inside

LEMMA OwnStep ==
    ASSUME CallsInv, NEW l \in Loops, Moves(l), running[l] = {},
           pc[l] # "idle" \/ ~Nested(l), pc'[l] # "idle",
           CallOK(config.frontier, l, ctx[Parent[l]], pc'[l], ctx'[l], loc'[l], todo'[l],
                  {}, count[l])
    PROVE  CallsInv'
<1>1. ASSUME NEW m \in Loops, Nested(m), pc[m] # "idle"
      PROVE  Parent[m] \in Loops \ {l} /\ ctx'[Parent[m]] = ctx[Parent[m]]
             /\ pc'[Parent[m]] = pc[Parent[m]]
    BY <1>1, Held DEF Moves
<1>2. ASSUME NEW m \in Loops
      PROVE  CallOK(config.frontier, m, ctx'[Parent[m]], pc'[m], ctx'[m], loc'[m],
                    todo'[m], running[m], count[m])
    <2>1. CASE m = l /\ Nested(l)
        BY <1>1, <2>1
    <2>2. CASE m = l /\ ~Nested(l)
        BY <2>2 DEF CallOK, Lined
    <2>3. CASE m # l /\ pc[m] = "idle"
        BY <2>3, IdleAnywhere DEF CallsInv, Moves
    <2>4. CASE m # l /\ pc[m] # "idle" /\ Nested(m)
        BY <1>1, <2>4 DEF CallsInv, Moves
    <2>5. CASE m # l /\ pc[m] # "idle" /\ ~Nested(m)
        BY <2>5 DEF CallsInv, Moves, CallOK, Lined
    <2> QED BY <2>1, <2>2, <2>3, <2>4, <2>5
<1>3. \A m \in Loops : Nested(m) /\ pc'[m] # "idle" => pc[m] # "idle"
    BY DEF Moves
<1>4. ASSUME NEW m \in Loops PROVE Inside(m)'
    <2>1. CASE Nested(m) /\ pc'[m] # "idle"
        <3>1. pc[m] # "idle"
            BY <1>3, <2>1
        <3>2. pc'[Parent[m]] \in Executing /\ At[m] \in running'[Parent[m]]
            BY <1>1, <2>1, <3>1, Held DEF Moves
        <3> QED BY <3>2 DEF Inside
    <2> QED BY <2>1 DEF Inside, Nested
<1>5. /\ \A m, k \in Loops :
           /\ Nested(m) /\ Nested(k) /\ Parent[m] = Parent[k] /\ At[m] = At[k]
           /\ pc'[m] # "idle" /\ pc'[k] # "idle"
           => m = k
      /\ Mapped' /\ config' = config /\ running' = running /\ count' = count
    BY <1>3 DEF CallsInv, Moves
<1> QED BY <1>2, <1>4, <1>5 DEF CallsInv, Nested

\* Keys stay what they are.
Keeps(l) == \A m \in Loops : pc[m] # "idle" => Key(m)' = Key(m)

LEMMA OwnKeys ==
    ASSUME CallsInv, NEW l \in Loops, Moves(l), running[l] = {},
           pc[l] # "idle" /\ ~Nested(l) => ctx'[l].grant = ctx[l].grant
    PROVE  Keeps(l)
<1> SUFFICES ASSUME NEW m \in Loops, pc[m] # "idle" PROVE Key(m)' = Key(m)
    BY DEF Keeps
<1>1. CASE Nested(m)
    <2>1. ctx'[Parent[m]] = ctx[Parent[m]]
        BY <1>1, Held DEF Moves
    <2>2. Up(m)' = Up(m)
        BY <1>1, <2>1 DEF Up, Nested
    <2> QED BY <2>2 DEF Key
<1>2. CASE ~Nested(m)
    <2>1. ctx'[m].grant = ctx[m].grant
        BY <1>2 DEF Moves
    <2>2. Up(m)' = Up(m)
        BY <1>2, <2>1 DEF Up, Nested
    <2> QED BY <2>2 DEF Key
<1> QED BY <1>1, <1>2

-----------------------------------------------------------------------------
(* The steps of a call on its own.                                         *)

SnapshotsOK ==
    \A l \in Loops : \A k \in DOMAIN snapshots[l] : snapshots[l][k] \in Memos

GlobalInv ==
    /\ config \in Configs /\ calls \in Nat
    /\ CacheOK(cache) /\ CalibrationOK(calibration)
    /\ snapshots = [l \in Loops |-> snapshots[l]] /\ SnapshotsOK

Inv == CallsInv /\ GlobalInv

Own(l) ==
    /\ Moves(l) /\ running[l] = {} /\ (pc[l] # "idle" \/ ~Nested(l)) /\ pc'[l] # "idle"
    /\ CallOK(config.frontier, l, ctx[Parent[l]], pc'[l], ctx'[l], loc'[l], todo'[l],
              {}, count[l])
    /\ pc[l] # "idle" /\ ~Nested(l) => ctx'[l].grant = ctx[l].grant

LEMMA OwnDone ==
    ASSUME CallsInv, NEW l \in Loops, Own(l)
    PROVE  CallsInv' /\ Keeps(l)
BY OwnStep, OwnKeys DEF Own

LEMMA LeftIs ==
    ASSUME NEW l, NEW p, NEW d, NEW w
    PROVE  /\ p \in Early => Left(l, p, d, w) = Items(l)
           /\ p \in Deciding => Left(l, p, d, w) = Items(l) \ d.sampled
           /\ p \in Straight => Left(l, p, d, w) = w
           /\ p = "pilot" => Left(l, p, d, w) = w \cup (Items(l) \ {0})
           /\ p = "sampling" => Left(l, p, d, w) = w \cup (Items(l) \ d.sampled)
           /\ p \in Over => Left(l, p, d, w) = {}
BY DEF Left, Early, Deciding, Straight, Over

LEMMA PlacesApart ==
    /\ Executing = Straight \cup {"pilot", "sampling"}
    /\ Early \cap Executing = {} /\ Deciding \cap Executing = {} /\ Over \cap Executing = {}
    /\ \A p \in {"publish", "select", "prepare"} : p \in Deciding
BY DEF Executing, Early, Deciding, Straight, Over

\* What is known of a call.
LEMMA CallFacts ==
    ASSUME CallsInv, NEW l \in Loops
    PROVE  /\ CallOK(config.frontier, l, ctx[Parent[l]], pc[l], ctx[l], loc[l], todo[l],
                     running[l], count[l])
           /\ ctx[l] \in Context /\ loc[l] \in Locals /\ pc[l] \in Places
           /\ count[l] \in [Items(l) -> Nat] /\ todo[l] \subseteq Items(l)
           /\ pc[l] \notin Executing => todo[l] = {} /\ running[l] = {}
BY DEF CallsInv, CallOK, Typed, Flagged

LEMMA UpFacts ==
    ASSUME CallsInv, NEW l \in Loops, pc[l] # "idle"
    PROVE  /\ Nested(l) => Parent[l] \in Loops /\ Up(l) = ctx[Parent[l]]
           /\ ~Nested(l) => Up(l) = [NoContext EXCEPT !.grant = ctx[l].grant]
           /\ Up(l) \in Context
<1>1. CASE Nested(l)
    BY <1>1, Held, CallFacts DEF Up, Nested
<1>2. CASE ~Nested(l)
    <2>1. Up(l) = [NoContext EXCEPT !.grant = ctx[l].grant]
        BY <1>2 DEF Up, Nested
    <2>2. ctx[l].grant \in Nat \ {0}
        BY CallFacts DEF Context
    <2>3. NoContext \in Context
        BY DEF NoContext, Context, Sites
    <2>4. [NoContext EXCEPT !.grant = ctx[l].grant] \in Context
        BY <2>2, <2>3 DEF Context
    <2> QED BY <1>2, <2>1, <2>4
<1> QED BY <1>1, <1>2

\* A step of l by itself: where it goes, with which context, locals and indices.
LEMMA OwnBy ==
    ASSUME CallsInv, NEW l \in Loops, NEW q \in Places \ {"idle"}, NEW c \in Context,
           NEW d \in Locals, NEW w \in SUBSET Items(l),
           pc[l] # "idle" \/ ~Nested(l), running[l] = {},
           pc' = [pc EXCEPT ![l] = q], ctx' = [ctx EXCEPT ![l] = c],
           loc' = [loc EXCEPT ![l] = d], todo' = [todo EXCEPT ![l] = w],
           UNCHANGED <<running, failed, count, config>>,
           pc[l] # "idle" /\ ~Nested(l) => c.grant = ctx[l].grant,
           Left(l, q, d, w) = Left(l, pc[l], loc[l], todo[l]),
           Flagged(l, q, d, w, {}), Lined(config.frontier, l, ctx[Parent[l]], q, c, d)
    PROVE  Own(l)
<1>1. /\ pc'[l] = q /\ loc'[l] = d /\ ctx'[l] = c /\ todo'[l] = w
      /\ \A m \in Loops \ {l} : /\ pc'[m] = pc[m] /\ loc'[m] = loc[m]
                                /\ ctx'[m] = ctx[m] /\ todo'[m] = todo[m]
    BY DEF CallsInv, Mapped
<1>2. Mapped'
    BY DEF CallsInv, Mapped
<1>3. Moves(l)
    BY <1>1, <1>2 DEF Moves
<1>4. Typed(l, q, c, d, w, {}, count[l])
    BY CallFacts DEF Typed
<1>5. Counted(l, q, d, w, count[l])
    BY CallFacts DEF CallOK, Counted
<1>6. CallOK(config.frontier, l, ctx[Parent[l]], q, c, d, w, {}, count[l])
    BY <1>4, <1>5 DEF CallOK
<1> QED BY <1>1, <1>3, <1>6 DEF Own

\* What has been executed, and what is to be, does not change.
SameCall(d, e) ==
    /\ e.sampled = d.sampled
    /\ e.path = d.path /\ (d.since = d.began => e.since = e.began)

\* Before anything is executed.
LEMMA LookupStep ==
    ASSUME CallsInv, NEW l \in Loops,
           pc[l] \in Early \ {"idle", "called"},
           NEW q \in {"find", "revalidate", "build", "cold", "chosen", "sample", "decide"},
           NEW d \in Locals, SameCall(loc[l], d), d.plan = loc[l].plan,
           q = "revalidate" => d.entry # NoEntry,
           q \in {"find", "revalidate"} => ~d.revalidates,
           q \in {"find", "revalidate", "build"} => ~d.builds,
           pc' = [pc EXCEPT ![l] = q], loc' = [loc EXCEPT ![l] = d],
           UNCHANGED <<ctx, todo, running, failed, count, config>>
    PROVE  Own(l)
<1>1. pc[l] \notin Executing /\ q \notin Executing /\ q \in Early \cup Deciding /\ q \in Places
      /\ q \notin {"idle", "called", "epoch", "pilot", "sampling", "publish", "select", "prepare"}
    BY PlacesApart DEF Early, Deciding, Places, Executing
<1>2. Flagged(l, pc[l], loc[l], todo[l], running[l])
      /\ Lined(config.frontier, l, ctx[Parent[l]], pc[l], ctx[l], loc[l])
      /\ running[l] = {} /\ todo[l] = {} /\ ctx[l] \in Context
    BY <1>1, CallFacts DEF CallOK
<1>3. d.sampled = {} /\ loc[l].sampled = {}
    BY <1>2 DEF Flagged, SameCall
<1>4. Left(l, q, d, {}) = Left(l, pc[l], loc[l], todo[l])
    <2>1. Left(l, pc[l], loc[l], todo[l]) = Items(l)
        BY LeftIs
    <2>2. Left(l, q, d, {}) = Items(l)
        <3>1. CASE q \in Early
            BY <3>1, LeftIs
        <3>2. CASE q \in Deciding
            <4>1. Left(l, q, d, {}) = Items(l) \ d.sampled
                BY <3>2, LeftIs
            <4> QED BY <1>3, <4>1
        <3> QED BY <1>1, <3>1, <3>2
    <2> QED BY <2>1, <2>2
<1>5. Flagged(l, q, d, {}, {})
    BY <1>1, <1>2, <1>3 DEF Flagged, SameCall
<1>6. Lined(config.frontier, l, ctx[Parent[l]], q, ctx[l], d)
    BY <1>1, <1>2 DEF Lined
<1>7. ctx' = [ctx EXCEPT ![l] = ctx[l]] /\ todo' = [todo EXCEPT ![l] = {}]
    BY <1>2 DEF CallsInv, Mapped
<1>8. pc[l] # "idle" /\ q # "idle" /\ {} \in SUBSET Items(l)
    BY <1>1
<1> QED BY <1>1, <1>2, <1>4, <1>5, <1>6, <1>7, <1>8, OwnBy

\* After everything is executed.
LEMMA OverStep ==
    ASSUME CallsInv, NEW l \in Loops, pc[l] \in Straight \cup Over,
           todo[l] = {}, running[l] = {}, NEW q \in Over,
           NEW d \in Locals, d.plan = loc[l].plan,
           d.path = "inherited" \/ d.since = d.began,
           pc' = [pc EXCEPT ![l] = q], loc' = [loc EXCEPT ![l] = d],
           UNCHANGED <<ctx, todo, running, failed, count, config>>
    PROVE  Own(l)
<1>1. pc[l] \notin {"idle", "called"} /\ q \notin Executing /\ q \in Places
      /\ q \notin Early /\ q \notin Deciding /\ q \notin {"pilot", "sampling"}
    BY PlacesApart DEF Early, Deciding, Straight, Over, Places, Executing
<1>2. Flagged(l, pc[l], loc[l], todo[l], running[l])
      /\ Lined(config.frontier, l, ctx[Parent[l]], pc[l], ctx[l], loc[l])
      /\ ctx[l] \in Context
    BY CallFacts DEF CallOK
<1>3. q \notin {"idle", "called", "epoch", "find", "revalidate", "build"}
      /\ q \notin {"publish", "select", "prepare"}
    BY <1>1 DEF Early, Deciding
<1>4. Left(l, q, d, {}) = Left(l, pc[l], loc[l], todo[l])
    <2>1. Left(l, q, d, {}) = {}
        BY LeftIs
    <2>2. CASE pc[l] \in Straight
        <3>1. Left(l, pc[l], loc[l], todo[l]) = todo[l]
            BY <2>2, LeftIs
        <3> QED BY <2>1, <3>1
    <2>3. CASE pc[l] \in Over
        <3>1. Left(l, pc[l], loc[l], todo[l]) = {}
            BY <2>3, LeftIs
        <3> QED BY <2>1, <3>1
    <2> QED BY <2>2, <2>3
<1>5. Flagged(l, q, d, {}, {})
    BY <1>1, <1>2, <1>3 DEF Flagged
<1>6. Lined(config.frontier, l, ctx[Parent[l]], q, ctx[l], d)
    BY <1>1, <1>2, <1>3 DEF Lined
<1>7. ctx' = [ctx EXCEPT ![l] = ctx[l]] /\ todo' = [todo EXCEPT ![l] = {}]
    BY DEF CallsInv, Mapped
<1>8. pc[l] # "idle" /\ q # "idle" /\ {} \in SUBSET Items(l)
    BY <1>1, <1>3
<1> QED BY <1>1, <1>2, <1>4, <1>5, <1>6, <1>7, <1>8, OwnBy

LEMMA UnprofiledIs ==
    ASSUME GlobalInv, NEW found \in BOOLEAN
    PROVE  Unprofiled(found) \in {"build", "cold", "sample", "decide"}
<1>1. config.online \in BOOLEAN /\ config.sampling \in BOOLEAN
    BY Constants DEF GlobalInv
<1> QED BY <1>1 DEF Unprofiled, SampleOrDecide

LEMMA OwnNoFastPath ==
    ASSUME Inv, NEW l \in Loops, NoFastPath(l)
    PROVE  Own(l)
<1>1. CallsInv /\ pc[l] = "chosen" /\ loc[l] \in Locals /\ pc[l] \in Early
    BY CallFacts DEF Inv, NoFastPath, Early
<1>2. /\ pc' = [pc EXCEPT ![l] = "decide"] /\ loc' = [loc EXCEPT ![l] = loc[l]]
      /\ UNCHANGED <<ctx, todo, running, failed, count, config>>
    BY <1>1 DEF CallsInv, Mapped, NoFastPath, Elsewhere
<1>3. SameCall(loc[l], loc[l])
    BY DEF SameCall
<1> QED BY <1>1, <1>2, <1>3, LookupStep

LEMMA OwnBuildProfile ==
    ASSUME Inv, NEW l \in Loops, BuildProfile(l)
    PROVE  Own(l)
<1> DEFINE b == MayBuild(cache, Key(l))
           d == [loc[l] EXCEPT !.builds = b, !.stores = b]
<1>1. CallsInv /\ pc[l] = "build" /\ loc[l] \in Locals /\ pc[l] \in Early
    BY CallFacts DEF Inv, BuildProfile, Early
<1>2. b \in BOOLEAN
    BY DEF MayBuild
<1>3. /\ pc' = [pc EXCEPT ![l] = "cold"] /\ loc' = [loc EXCEPT ![l] = d]
      /\ UNCHANGED <<ctx, todo, running, failed, count, config>>
    BY <1>1 DEF CallsInv, Mapped, BuildProfile, Elsewhere
<1> HIDE DEF b
<1>4. d \in Locals /\ SameCall(loc[l], d) /\ d.plan = loc[l].plan
    BY <1>1, <1>2 DEF Locals, SameCall
<1> HIDE DEF d
<1> QED BY <1>1, <1>3, <1>4, LookupStep

LEMMA OwnReadEpoch ==
    ASSUME Inv, NEW l \in Loops, ReadEpoch(l)
    PROVE  Own(l)
<1> DEFINE q == IF Remembers(l) THEN SampleOrDecide ELSE "find"
           d == [loc[l] EXCEPT !.since = cache.epoch, !.began = cache.epoch]
<1>1. CallsInv /\ pc[l] = "epoch" /\ loc[l] \in Locals /\ pc[l] \in Early
      /\ cache.epoch \in Nat /\ ~loc[l].builds /\ ~loc[l].revalidates
    BY CallFacts DEF Inv, GlobalInv, CacheOK, ReadEpoch, Early, CallOK, Flagged
<1>2. /\ pc' = [pc EXCEPT ![l] = q] /\ loc' = [loc EXCEPT ![l] = d]
      /\ UNCHANGED <<ctx, todo, running, failed, count, config>>
    BY <1>1 DEF CallsInv, Mapped, ReadEpoch, Elsewhere
<1>3. d \in Locals /\ SameCall(loc[l], d) /\ d.plan = loc[l].plan
      /\ d.builds = loc[l].builds /\ d.revalidates = loc[l].revalidates
    BY <1>1 DEF Locals, SameCall
<1>4. q \in {"sample", "decide", "find"}
    BY DEF SampleOrDecide
<1> HIDE DEF d, q
<1> QED BY <1>1, <1>2, <1>3, <1>4, LookupStep

LEMMA OwnFindProfile ==
    ASSUME Inv, NEW l \in Loops, FindProfile(l)
    PROVE  Own(l)
<1> DEFINE e == Found(cache, Key(l))
<1>1. CallsInv /\ pc[l] = "find" /\ loc[l] \in Locals /\ pc[l] \in Early
      /\ ~loc[l].builds /\ ~loc[l].revalidates
    BY CallFacts DEF Inv, FindProfile, Early, CallOK, Flagged
<1>2. e \in CacheEntry \cup {NoEntry} /\ e.generation \in Nat
    BY FindOK DEF Inv, GlobalInv
<1>3. \E x \in Costs \cup {"none"},
         q \in {"revalidate", "build", "cold", "chosen", "sample", "decide"} :
        /\ loc' = [loc EXCEPT ![l].entry = e, ![l].generation = e.generation, ![l].cost = x]
        /\ pc' = [pc EXCEPT ![l] = q] /\ (q = "revalidate" => e # NoEntry)
    <2>1. PICK aged \in BOOLEAN :
           LET due == e # NoEntry /\ RevalidationDue(e, aged)
               hit == e # NoEntry /\ ~due
           IN  /\ loc' = [loc EXCEPT ![l].entry = e, ![l].generation = e.generation,
                            ![l].cost = IF hit THEN e.cost ELSE "none"]
               /\ pc' = [pc EXCEPT ![l] = CASE hit -> "chosen"
                                            [] due -> "revalidate"
                                            [] OTHER -> Unprofiled(FALSE)]
        BY Zenon DEF FindProfile
    <2> DEFINE due == e # NoEntry /\ RevalidationDue(e, aged)
               hit == e # NoEntry /\ ~due
               q == CASE hit -> "chosen" [] due -> "revalidate" [] OTHER -> Unprofiled(FALSE)
               x == IF hit THEN e.cost ELSE "none"
    <2>2. x \in Costs \cup {"none"}
        BY <1>2 DEF CacheEntry
    <2>3. Unprofiled(FALSE) \in {"build", "cold", "sample", "decide"}
        BY UnprofiledIs DEF Inv
    <2> HIDE DEF e
    <2>4. /\ q \in {"revalidate", "build", "cold", "chosen", "sample", "decide"}
          /\ q = "revalidate" => e # NoEntry
        <3>1. CASE hit
            BY <3>1
        <3>2. CASE due
            BY <3>2
        <3>3. CASE ~hit /\ ~due
            BY <2>3, <3>3
        <3> QED BY <3>1, <3>2, <3>3
    <2>5. loc' = [loc EXCEPT ![l].entry = e, ![l].generation = e.generation, ![l].cost = x]
          /\ pc' = [pc EXCEPT ![l] = q]
        BY <2>1
    <2> HIDE DEF x, q
    <2> QED BY <2>2, <2>4, <2>5
<1> HIDE DEF e
<1>4. PICK x \in Costs \cup {"none"},
           q \in {"revalidate", "build", "cold", "chosen", "sample", "decide"} :
        /\ loc' = [loc EXCEPT ![l].entry = e, ![l].generation = e.generation, ![l].cost = x]
        /\ pc' = [pc EXCEPT ![l] = q] /\ (q = "revalidate" => e # NoEntry)
    BY <1>3
<1> DEFINE d == [loc[l] EXCEPT !.entry = e, !.generation = e.generation, !.cost = x]
<1>5. /\ pc' = [pc EXCEPT ![l] = q] /\ loc' = [loc EXCEPT ![l] = d]
      /\ UNCHANGED <<ctx, todo, running, failed, count, config>>
    BY <1>1, <1>4 DEF CallsInv, Mapped, FindProfile, Elsewhere
<1>6. d \in Locals /\ SameCall(loc[l], d) /\ d.plan = loc[l].plan
      /\ d.builds = loc[l].builds /\ d.revalidates = loc[l].revalidates /\ d.entry = e
    BY <1>1, <1>2 DEF Locals, SameCall
<1> HIDE DEF d
<1> QED BY <1>1, <1>4, <1>5, <1>6, LookupStep

LEMMA OwnRevalidate ==
    ASSUME Inv, NEW l \in Loops, Revalidate(l)
    PROVE  Own(l)
<1> DEFINE owns == MayRevalidate(cache, Key(l))
           x == IF owns THEN "none" ELSE loc[l].entry.cost
           q == IF owns THEN Unprofiled(TRUE) ELSE "chosen"
           d == [loc[l] EXCEPT !.revalidates = owns, !.cost = x]
<1>1. CallsInv /\ pc[l] = "revalidate" /\ loc[l] \in Locals /\ pc[l] \in Early
      /\ ~loc[l].builds /\ loc[l].entry # NoEntry
    BY CallFacts DEF Inv, Revalidate, Early, CallOK, Flagged
<1>2. owns \in BOOLEAN
    BY DEF MayRevalidate
<1>3. x \in Costs \cup {"none"}
    BY <1>1 DEF Locals, CacheEntry
<1>4. q \in {"build", "cold", "sample", "decide", "chosen"}
    BY UnprofiledIs DEF Inv
<1>5. /\ pc' = [pc EXCEPT ![l] = q] /\ loc' = [loc EXCEPT ![l] = d]
      /\ UNCHANGED <<ctx, todo, running, failed, count, config>>
    BY <1>1 DEF CallsInv, Mapped, Revalidate, Elsewhere
<1> HIDE DEF owns, x, q
<1>6. d \in Locals /\ SameCall(loc[l], d) /\ d.plan = loc[l].plan /\ d.builds = loc[l].builds
      /\ d.entry = loc[l].entry
    BY <1>1, <1>2, <1>3 DEF Locals, SameCall
<1> HIDE DEF d
<1> QED BY <1>1, <1>4, <1>5, <1>6, LookupStep

-----------------------------------------------------------------------------
(* The ends of an execution.                                               *)

LEMMA StoresStep ==
    ASSUME Inv, NEW l \in Loops, NEW c \in Costs, NEW r \in BOOLEAN, NEW q,
           Stores(l, c, r, q)
    PROVE  \E d \in Locals :
             /\ SameCall(loc[l], d) /\ d.plan = loc[l].plan
             /\ d.builds = loc[l].builds /\ d.revalidates = loc[l].revalidates
             /\ pc' = [pc EXCEPT ![l] = q] /\ loc' = [loc EXCEPT ![l] = d]
             /\ UNCHANGED <<ctx, todo, running, failed, count, config>>
<1> DEFINE g == StoredGeneration(cache, Key(l), loc[l].since)
           d == [loc[l] EXCEPT !.cost = c, !.generation = g]
<1>1. CallsInv /\ loc[l] \in Locals /\ g \in Nat
    BY CallFacts DEF Inv, GlobalInv, CacheOK, StoredGeneration
<1>2. /\ pc' = [pc EXCEPT ![l] = q] /\ loc' = [loc EXCEPT ![l] = d]
      /\ UNCHANGED <<ctx, todo, running, failed, count, config>>
    BY <1>1 DEF CallsInv, Mapped, Stores, Elsewhere
<1> HIDE DEF g
<1>3. /\ d \in Locals /\ SameCall(loc[l], d) /\ d.plan = loc[l].plan
      /\ d.builds = loc[l].builds /\ d.revalidates = loc[l].revalidates
    BY <1>1 DEF Locals, SameCall
<1> HIDE DEF d
<1> QED BY <1>2, <1>3

\* The end of an execution that leaves the locals alone.
LEMMA PlainEnd ==
    ASSUME Inv, NEW l \in Loops, pc[l] \in Straight \cup Over,
           todo[l] = {}, running[l] = {}, NEW q \in Over,
           pc' = [pc EXCEPT ![l] = q], loc' = loc,
           UNCHANGED <<ctx, todo, running, failed, count, config>>
    PROVE  Own(l)
<1>1. CallsInv /\ loc[l] \in Locals /\ (loc[l].path = "inherited" \/ loc[l].since = loc[l].began)
    BY CallFacts DEF Inv, CallOK, Flagged
<1>2. loc' = [loc EXCEPT ![l] = loc[l]]
    BY <1>1 DEF CallsInv, Mapped
<1> QED BY <1>1, <1>2, OverStep

LEMMA OwnLearnCold ==
    ASSUME Inv, NEW l \in Loops, LearnCold(l)
    PROVE  Own(l)
<1>1. CallsInv /\ pc[l] \in Straight /\ todo[l] = {} /\ running[l] = {} /\ "done" \in Over
      /\ (loc[l].path = "inherited" \/ loc[l].since = loc[l].began)
    BY CallFacts DEF Inv, LearnCold, Executed, Straight, Over, CallOK, Flagged
<1>2. CASE loc[l].stores
    <2>1. PICK c \in config.costs, r \in config.signals :
            Stores(l, c, r /\ ~loc[l].plan.parallel, "done")
        BY <1>2 DEF LearnCold
    <2>2. c \in Costs
        BY <2>1, Constants DEF Inv, GlobalInv
    <2> DEFINE b == r /\ ~loc[l].plan.parallel
    <2>4. b \in BOOLEAN /\ Stores(l, c, b, "done")
        BY <2>1
    <2> HIDE DEF b
    <2>3. PICK d \in Locals :
             /\ SameCall(loc[l], d) /\ d.plan = loc[l].plan
             /\ pc' = [pc EXCEPT ![l] = "done"] /\ loc' = [loc EXCEPT ![l] = d]
             /\ UNCHANGED <<ctx, todo, running, failed, count, config>>
        BY <2>2, <2>4, StoresStep
    <2> QED BY <1>1, <2>3, OverStep DEF SameCall
<1>3. CASE ~loc[l].stores
    BY <1>1, <1>3, PlainEnd DEF LearnCold, Elsewhere
<1> QED BY <1>2, <1>3

LEMMA OwnLearnEpoch ==
    ASSUME Inv, NEW l \in Loops, LearnEpoch(l)
    PROVE  Own(l)
<1> DEFINE d == [loc[l] EXCEPT !.since = cache.epoch]
<1>1. CallsInv /\ pc[l] \in Straight /\ todo[l] = {} /\ running[l] = {} /\ "learned" \in Over
      /\ loc[l].path = "inherited" /\ loc[l] \in Locals /\ cache.epoch \in Nat
    BY CallFacts DEF Inv, GlobalInv, CacheOK, LearnEpoch, Executed, Straight, Over
<1>2. /\ pc' = [pc EXCEPT ![l] = "learned"] /\ loc' = [loc EXCEPT ![l] = d]
      /\ UNCHANGED <<ctx, todo, running, failed, count, config>>
    BY <1>1 DEF CallsInv, Mapped, LearnEpoch, Elsewhere
<1>3. d \in Locals /\ d.path = "inherited" /\ d.plan = loc[l].plan
    BY <1>1 DEF Locals
<1> HIDE DEF d
<1> QED BY <1>1, <1>2, <1>3, OverStep

LEMMA OwnLearnDescendant ==
    ASSUME Inv, NEW l \in Loops, LearnDescendant(l)
    PROVE  Own(l)
<1>1. pc[l] \in Over /\ "done" \in Over /\ CallsInv
    BY DEF LearnDescendant, Over, Inv
<1>2. todo[l] = {} /\ running[l] = {} /\ (loc[l].path = "inherited" \/ loc[l].since = loc[l].began)
    BY <1>1, CallFacts, PlacesApart DEF CallOK, Flagged
<1>3. PICK c \in config.costs, r \in config.signals : Stores(l, c, r, "done")
    BY DEF LearnDescendant
<1>4. c \in Costs /\ r \in BOOLEAN
    BY <1>3, Constants DEF Inv, GlobalInv
<1>5. PICK d \in Locals :
         /\ SameCall(loc[l], d) /\ d.plan = loc[l].plan
         /\ pc' = [pc EXCEPT ![l] = "done"] /\ loc' = [loc EXCEPT ![l] = d]
         /\ UNCHANGED <<ctx, todo, running, failed, count, config>>
    BY <1>3, <1>4, StoresStep
<1> QED BY <1>1, <1>2, <1>5, OverStep DEF SameCall

LEMMA OwnEnds ==
    ASSUME Inv, NEW l \in Loops,
           DirectEnds(l) \/ FastEnds(l) \/ ExecutionEnds(l) \/ RecordBackend(l)
    PROVE  Own(l)
<1>1. CallsInv /\ "done" \in Over /\ "record" \in Over
    BY DEF Inv, Over
<1>2. CASE DirectEnds(l)
    BY <1>1, <1>2, PlainEnd DEF DirectEnds, Elsewhere, Executed, Straight
<1>3. CASE FastEnds(l)
    BY <1>1, <1>3, PlainEnd DEF FastEnds, Elsewhere, Executed, Straight
<1>4. CASE ExecutionEnds(l)
    <2> DEFINE q == IF loc[l].calibrates /\ loc[l].plan.parallel THEN "record" ELSE "done"
    <2>1. q \in Over
        BY <1>1
    <2>2. pc' = [pc EXCEPT ![l] = q] /\ pc[l] \in Straight /\ todo[l] = {} /\ running[l] = {}
          /\ UNCHANGED <<loc, ctx, todo, running, failed, count, config>>
        BY <1>4 DEF ExecutionEnds, Elsewhere, Executed, Straight
    <2> HIDE DEF q
    <2> QED BY <2>1, <2>2, PlainEnd
<1>5. CASE RecordBackend(l)
    <2>1. pc[l] \in Over /\ pc' = [pc EXCEPT ![l] = "done"]
          /\ UNCHANGED <<loc, ctx, todo, running, failed, count, config>>
        BY <1>5 DEF RecordBackend, Over
    <2>2. todo[l] = {} /\ running[l] = {}
        BY <1>1, <2>1, CallFacts, PlacesApart
    <2> QED BY <1>1, <2>1, <2>2, PlainEnd
<1> QED BY <1>2, <1>3, <1>4, <1>5

-----------------------------------------------------------------------------
(* Decisions.                                                              *)

LEMMA DecidingStep ==
    ASSUME CallsInv, NEW l \in Loops, pc[l] \in Deciding \cup {"sampling"},
           todo[l] = {}, running[l] = {}, NEW q \in Deciding,
           NEW d \in Locals, SameCall(loc[l], d),
           q \in {"publish", "select", "prepare"} => d.plan \in Plans,
           /\ Nested(l) /\ config.frontier /\ q \in {"publish", "select", "prepare"}
           /\ d.plan.parallel
           => ~(ctx[Parent[l]].parallel \/ ctx[Parent[l]].ancestor),
           pc' = [pc EXCEPT ![l] = q], loc' = [loc EXCEPT ![l] = d],
           UNCHANGED <<ctx, todo, running, failed, count, config>>
    PROVE  Own(l)
<1>1. q \notin Executing /\ q \in Places
      /\ q \notin Early /\ q \notin {"pilot", "sampling"}
      /\ q \notin {"idle", "called", "epoch", "find", "revalidate", "build"}
    BY PlacesApart DEF Early, Deciding, Places, Executing
<1>2. Flagged(l, pc[l], loc[l], todo[l], running[l])
      /\ Lined(config.frontier, l, ctx[Parent[l]], pc[l], ctx[l], loc[l])
      /\ ctx[l] \in Context
    BY CallFacts DEF CallOK
<1>3. pc[l] \notin {"idle", "called"}
    BY DEF Deciding
<1>4. Left(l, q, d, {}) = Left(l, pc[l], loc[l], todo[l])
    <2>1. Left(l, q, d, {}) = Items(l) \ loc[l].sampled
        BY LeftIs DEF SameCall
    <2>2. CASE pc[l] \in Deciding
        <3>1. Left(l, pc[l], loc[l], todo[l]) = Items(l) \ loc[l].sampled
            BY <2>2, LeftIs
        <3> QED BY <2>1, <3>1
    <2>3. CASE pc[l] = "sampling"
        <3>1. Left(l, pc[l], loc[l], todo[l]) = todo[l] \cup (Items(l) \ loc[l].sampled)
            BY <2>3, LeftIs
        <3> QED BY <2>1, <3>1
    <2> QED BY <2>2, <2>3
<1>5. Flagged(l, q, d, {}, {})
    BY <1>1, <1>2, <1>3 DEF Flagged, SameCall
<1>6. Lined(config.frontier, l, ctx[Parent[l]], q, ctx[l], d)
    BY <1>1, <1>2, <1>3 DEF Lined
<1>7. ctx' = [ctx EXCEPT ![l] = ctx[l]] /\ todo' = [todo EXCEPT ![l] = {}]
    BY DEF CallsInv, Mapped
<1>8. pc[l] # "idle" /\ q # "idle" /\ {} \in SUBSET Items(l)
    BY <1>1, <1>3
<1> QED BY <1>1, <1>2, <1>4, <1>5, <1>6, <1>7, <1>8, OwnBy

LEMMA OwnLearnSample ==
    ASSUME Inv, NEW l \in Loops, LearnSample(l)
    PROVE  Own(l)
<1>1. pc[l] = "sampling" /\ "decide" \in Deciding /\ CallsInv /\ todo[l] = {} /\ running[l] = {}
    BY DEF LearnSample, Deciding, Inv, Executed
<1>2. loc[l].plan \in Plans
    BY <1>1, CallFacts, PlacesApart DEF CallOK, Flagged
<1>3. PICK c \in config.costs, r \in config.signals : Stores(l, c, r, "decide")
    BY DEF LearnSample
<1>4. c \in Costs /\ r \in BOOLEAN
    BY <1>3, Constants DEF Inv, GlobalInv
<1>5. PICK d \in Locals :
         /\ SameCall(loc[l], d) /\ d.plan = loc[l].plan
         /\ pc' = [pc EXCEPT ![l] = "decide"] /\ loc' = [loc EXCEPT ![l] = d]
         /\ UNCHANGED <<ctx, todo, running, failed, count, config>>
    BY <1>3, <1>4, StoresStep
<1> QED BY <1>1, <1>2, <1>5, DecidingStep

LEMMA LesserGreater ==
    ASSUME NEW a \in Nat \ {0}, NEW b \in Nat \ {0}
    PROVE  Lesser(a, b) \in Nat \ {0} /\ Lesser(a, b) <= a /\ Lesser(a, b) <= b
           /\ Greater(1, a) = a
BY DEF Lesser, Greater

LEMMA PlanTypes ==
    /\ Sequential \in Plans /\ ~Sequential.parallel /\ Sequential.jobs = 1
    /\ \A e \in Engines : \A n \in Nat \ {0} :
         Parallel(e, n) \in Plans /\ Parallel(e, n).parallel /\ Parallel(e, n).jobs = n
    /\ \A p \in Plans : \A n \in Nat \ {0} :
         /\ [p EXCEPT !.jobs = n] \in Plans /\ [p EXCEPT !.jobs = n].jobs = n
         /\ [p EXCEPT !.jobs = n].parallel = p.parallel
         /\ [p EXCEPT !.jobs = n].engine = p.engine
    /\ \A p \in Plans : \A e \in Engines :
         /\ [p EXCEPT !.engine = e] \in Plans /\ [p EXCEPT !.engine = e].parallel = p.parallel
    /\ \A p \in Plans : p.jobs \in Nat \ {0} /\ p.engine \in Engines /\ p.parallel \in BOOLEAN
    /\ "ThreadPool" \in Engines
BY DEF Sequential, Parallel, Plans, Engines

LEMMA LimitedOK ==
    ASSUME NEW l \in Loops, ctx[l].grant \in Nat \ {0}, NEW p \in Plans
    PROVE  Limited(l, p) \in Plans /\ (Limited(l, p).parallel => p.parallel)
<1>1. Total[l] \in Nat \ {0}
    BY Constants
<1>2. p.jobs \in Nat \ {0}
    BY PlanTypes
<1> DEFINE n == Greater(1, Lesser(p.jobs, Lesser(ctx[l].grant, Total[l])))
<1>3. n \in Nat \ {0}
    BY <1>1, <1>2 DEF Lesser, Greater
<1>4. Limited(l, p) = IF p.parallel THEN [p EXCEPT !.jobs = n] ELSE Sequential
    BY DEF Limited, Plans
<1> HIDE DEF n
<1> QED BY <1>3, <1>4, PlanTypes

LEMMA FrontierOK ==
    ASSUME NEW l, ctx[l].grant \in Nat \ {0}, NEW p \in Plans, NEW w \in BOOLEAN,
           config.frontier \in BOOLEAN
    PROVE  /\ NestedFrontier(l, p, w) \in Plans
           /\ config.frontier /\ UnderParallel(l) => ~NestedFrontier(l, p, w).parallel
<1> DEFINE n == SeesNested(l) \/ ctx[l].nested
           s == Total[l] < ctx[l].grant
           t == Total[l] >= ctx[l].grant
<1>1. Parallel("ThreadPool", ctx[l].grant) \in Plans /\ Sequential \in Plans
      /\ ~Sequential.parallel
    BY PlanTypes
<1>2. NestedFrontier(l, p, w) =
        CASE ~config.frontier                            -> p
          [] config.frontier /\ UnderParallel(l)         -> Sequential
          [] config.frontier /\ ~UnderParallel(l) /\ n /\ s -> Sequential
          [] config.frontier /\ ~UnderParallel(l) /\ n /\ t /\ w ->
               Parallel("ThreadPool", ctx[l].grant)
          [] OTHER                                       -> p
    BY Zenon DEF NestedFrontier
<1> HIDE DEF n, s, t
<1> QED BY <1>1, <1>2

LEMMA RequestedOK ==
    ASSUME Inv, NEW l \in Loops, pc[l] = "decide", NEW p \in Requested(l)
    PROVE  p \in Plans
<1>1. loc[l] \in Locals /\ ctx[l].grant \in Nat \ {0} /\ loc[l].memo.plan \in SomePlan
    BY CallFacts DEF Inv, Context, Locals, Memos
<1>2. CASE Remembers(l)
    <2>1. p = loc[l].memo.plan
        BY <1>2 DEF Requested, StableHit
    <2> QED BY <1>1, <1>2, <2>1 DEF Remembers, SomePlan
<1>3. CASE StableHit(l)
    <2>1. ~Remembers(l) /\ loc[l].entry \in CacheEntry /\ loc[l].entry.plan # NoPlan
        BY <1>1, <1>3 DEF StableHit, Locals
    <2>2. p = loc[l].entry.plan
        BY <1>3, <2>1 DEF Requested
    <2> QED BY <2>1, <2>2 DEF CacheEntry, SomePlan
<1>4. CASE ~Remembers(l) /\ ~StableHit(l)
    <2>1. p \in {Sequential} \cup {Parallel(e, ctx[l].grant) : e \in Engines}
        BY <1>4 DEF Requested
    <2> QED BY <1>1, <2>1, PlanTypes
<1> QED BY <1>2, <1>3, <1>4

LEMMA UnderIs ==
    ASSUME CallsInv, NEW l \in Loops, Nested(l)
    PROVE  UnderParallel(l) <=> ctx[Parent[l]].parallel \/ ctx[Parent[l]].ancestor
BY DEF UnderParallel, Up, Nested

LEMMA OwnDecide ==
    ASSUME Inv, NEW l \in Loops, Decide(l)
    PROVE  Own(l)
<1>1. CallsInv /\ pc[l] = "decide" /\ loc[l] \in Locals /\ ctx[l].grant \in Nat \ {0}
      /\ pc[l] \in Deciding
    BY CallFacts DEF Inv, Decide, Context, Deciding
<1>2. config.frontier \in BOOLEAN
    BY Constants DEF Inv, GlobalInv
<1>3. PICK requested \in Requested(l), worthwhile \in BOOLEAN :
         LET plan == Limited(l, NestedFrontier(l, requested, worthwhile)) IN
           /\ loc' = [loc EXCEPT ![l].plan = plan, ![l].basis = Basis(l),
                                 ![l].stable = StableHit(l),
                                 ![l].calibrates = Eligible(l, plan)]
           /\ pc' = [pc EXCEPT ![l] =
                       IF Profiled(l) /\ ~StableHit(l) /\ loc[l].generation # 0
                       THEN "publish" ELSE AfterDecision(l, plan)]
    BY Zenon DEF Decide
<1> DEFINE plan == Limited(l, NestedFrontier(l, requested, worthwhile))
           q == IF Profiled(l) /\ ~StableHit(l) /\ loc[l].generation # 0
                THEN "publish" ELSE AfterDecision(l, plan)
           x == Eligible(l, plan)
           y == StableHit(l)
           z == Basis(l)
           d == [loc[l] EXCEPT !.plan = plan, !.basis = z, !.stable = y, !.calibrates = x]
<1>4. requested \in Plans
    BY <1>1, RequestedOK
<1>5. plan \in Plans /\ (config.frontier /\ UnderParallel(l) => ~plan.parallel)
    BY <1>1, <1>2, <1>4, FrontierOK, LimitedOK
<1>6. q \in {"publish", "select", "prepare"}
    BY DEF AfterDecision
<1>7. x \in BOOLEAN /\ y \in BOOLEAN
    BY DEF Eligible, StableHit
<1>7b. z \in Bases
    <2>1. loc[l].memo.basis \in Bases /\ loc[l].generation \in Nat /\ ctx[l].root \in Nat
        BY <1>1, CallFacts DEF Locals, Memos, Context
    <2> QED BY <2>1 DEF Basis, Bases
<1>8. pc' = [pc EXCEPT ![l] = q] /\ loc' = [loc EXCEPT ![l] = d]
      /\ UNCHANGED <<ctx, todo, running, failed, count, config>>
    BY <1>1, <1>3 DEF CallsInv, Mapped, Decide, Elsewhere
<1> HIDE DEF plan, q, x, y, z
<1>9. d \in Locals /\ SameCall(loc[l], d) /\ d.plan = plan
    BY <1>1, <1>5, <1>7, <1>7b DEF Locals, SameCall, SomePlan
<1> HIDE DEF d
<1>10. todo[l] = {} /\ running[l] = {}
    BY <1>1, CallFacts, PlacesApart
<1>11. q \in Deciding
    BY <1>6, PlacesApart
<1>12. /\ Nested(l) /\ config.frontier /\ d.plan.parallel
       => ~(ctx[Parent[l]].parallel \/ ctx[Parent[l]].ancestor)
    BY <1>1, <1>5, <1>9, UnderIs
<1> QED BY <1>1, <1>5, <1>8, <1>9, <1>10, <1>11, <1>12, DecidingStep

LEMMA OwnPublishPlan ==
    ASSUME Inv, NEW l \in Loops, PublishPlan(l)
    PROVE  Own(l)
<1> DEFINE q == AfterDecision(l, loc[l].plan)
<1>1. CallsInv /\ pc[l] = "publish" /\ pc[l] \in Deciding /\ loc[l] \in Locals
    BY CallFacts DEF Inv, PublishPlan, Deciding
<1>2. /\ loc[l].plan \in Plans
      /\ Nested(l) /\ config.frontier /\ loc[l].plan.parallel
         => ~(ctx[Parent[l]].parallel \/ ctx[Parent[l]].ancestor)
    BY <1>1, CallFacts DEF CallOK, Flagged, Lined
<1>3. q \in {"select", "prepare"}
    BY DEF AfterDecision
<1>4. pc' = [pc EXCEPT ![l] = q] /\ loc' = [loc EXCEPT ![l] = loc[l]]
      /\ UNCHANGED <<ctx, todo, running, failed, count, config>>
    BY <1>1 DEF CallsInv, Mapped, PublishPlan, Elsewhere
<1> HIDE DEF q
<1>5. todo[l] = {} /\ running[l] = {}
    BY <1>1, CallFacts, PlacesApart
<1>6. q \in Deciding /\ SameCall(loc[l], loc[l])
    BY <1>3, PlacesApart DEF SameCall
<1> QED BY <1>1, <1>2, <1>4, <1>5, <1>6, DecidingStep

\* A backend is changed, nothing else.
LEMMA OwnSelectBackend ==
    ASSUME Inv, NEW l \in Loops, SelectBackend(l)
    PROVE  Own(l) /\ CalibrationOK(calibration')
<1>1. CallsInv /\ pc[l] = "select" /\ pc[l] \in Deciding /\ loc[l] \in Locals
      /\ CalibrationOK(calibration) /\ loc[l].generation \in Nat
    BY CallFacts DEF Inv, GlobalInv, SelectBackend, Deciding, Locals
<1>2. /\ loc[l].plan \in Plans
      /\ Nested(l) /\ config.frontier /\ loc[l].plan.parallel
         => ~(ctx[Parent[l]].parallel \/ ctx[Parent[l]].ancestor)
    BY <1>1, CallFacts DEF CallOK, Flagged, Lined
<1>3. /\ \E e \in Engines : loc' = [loc EXCEPT ![l].plan.engine = e]
      /\ CalibrationOK(calibration')
    <2> DEFINE k == Key(l)
    <2>1. CASE calibration_frozen
        <3> DEFINE known == /\ k \in DOMAIN calibration
                            /\ calibration[k].generation = loc[l].generation
                            /\ calibration[k].winner # "none"
                   e == IF known THEN calibration[k].winner ELSE loc[l].plan.engine
        <3>1. loc' = [loc EXCEPT ![l].plan.engine = e] /\ calibration' = calibration
            BY <1>1, <2>1 DEF SelectBackend, CallsInv, Mapped
        <3>2. e \in Engines
            BY <1>1, <1>2, PlanTypes DEF CalibrationOK, Calibrated, CalibrationEntry
        <3> HIDE DEF e
        <3> QED BY <1>1, <3>1, <3>2
    <2>2. CASE ~calibration_frozen
        <3>1. PICK faster \in Engines :
                \E r \in select(calibration, k, loc[l].generation,
                                loc[l].plan.engine, faster) :
                    /\ calibration' = r[1]
                    /\ loc' = [loc EXCEPT ![l].plan.engine = r[2]]
            BY <2>2, Zenon DEF SelectBackend
        <3>2. PICK r \in select(calibration, k, loc[l].generation,
                                loc[l].plan.engine, faster) :
                    /\ calibration' = r[1]
                    /\ loc' = [loc EXCEPT ![l].plan.engine = r[2]]
            BY <3>1
        <3>3. loc[l].plan.engine \in Engines
            BY <1>2, PlanTypes
        <3>4. CalibrationOK(r[1]) /\ r[2] \in Engines
            BY <1>1, <3>3, SelectOK
        <3> QED BY <3>2, <3>4
    <2> QED BY <2>1, <2>2
<1>4. PICK e \in Engines : loc' = [loc EXCEPT ![l].plan.engine = e]
    BY <1>3
<1> DEFINE p == [loc[l].plan EXCEPT !.engine = e]
           d == [loc[l] EXCEPT !.plan = p]
<1>5. p \in Plans /\ p.parallel = loc[l].plan.parallel
    BY <1>2, PlanTypes
<1>6. pc' = [pc EXCEPT ![l] = "prepare"] /\ loc' = [loc EXCEPT ![l] = d]
      /\ UNCHANGED <<ctx, todo, running, failed, count, config>>
    BY <1>1, <1>4 DEF CallsInv, Mapped, SelectBackend
<1> HIDE DEF p
<1>7. d \in Locals /\ SameCall(loc[l], d) /\ d.plan = p
    BY <1>1, <1>5 DEF Locals, SameCall, SomePlan
<1> HIDE DEF d
<1>8. todo[l] = {} /\ running[l] = {} /\ "prepare" \in Deciding
    BY <1>1, CallFacts, PlacesApart
<1>9. Own(l)
    BY <1>1, <1>2, <1>5, <1>6, <1>7, <1>8, DecidingStep
<1> QED BY <1>3, <1>9

-----------------------------------------------------------------------------
(* Executions.                                                             *)

\* A call starts to execute w, all that is left.
LEMMA ExecutesStep ==
    ASSUME CallsInv, NEW l \in Loops, pc[l] # "idle", running[l] = {},
           NEW q \in Executing, NEW c \in Context, NEW d \in Locals,
           NEW w \in SUBSET Items(l),
           pc' = [pc EXCEPT ![l] = q], ctx' = [ctx EXCEPT ![l] = c],
           loc' = [loc EXCEPT ![l] = d], todo' = [todo EXCEPT ![l] = w],
           UNCHANGED <<running, failed, count, config>>,
           ~Nested(l) => c.grant = ctx[l].grant,
           Left(l, q, d, w) = Left(l, pc[l], loc[l], todo[l]),
           d.plan \in Plans, d.path = "inherited" \/ d.since = d.began,
           q = "sampling" => w \subseteq d.sampled,
           q = "pilot" => ~Nested(l) /\ w \subseteq {0},
           d.plan.parallel => c.parallel,
           /\ Nested(l)
           => /\ UnderParallel(l) => c.parallel \/ c.ancestor
              /\ config.frontier /\ d.plan.parallel => ~UnderParallel(l)
              /\ d.plan.parallel /\ ctx[Parent[l]].parallel
                 => d.plan.jobs <= ctx[Parent[l]].budget
    PROVE  Own(l)
<1>1. q \in Places \ {"idle"} /\ q \notin Early
      /\ q \notin {"idle", "called", "epoch", "find", "revalidate", "build"}
    BY PlacesApart DEF Places, Early
<1>2. Flagged(l, q, d, w, {})
    BY <1>1 DEF Flagged
<1>3. Lined(config.frontier, l, ctx[Parent[l]], q, c, d)
    BY UnderIs DEF Lined
<1> QED BY <1>1, <1>2, <1>3, OwnBy

LEMMA PlannedOK ==
    ASSUME NEW c \in Context, NEW p \in Plans
    PROVE  /\ Planned(c, p) \in Context /\ Planned(c, p).parallel = p.parallel
           /\ Planned(c, p).ancestor = c.ancestor /\ Planned(c, p).grant = c.grant
<1> DEFINE e == IF p.parallel THEN p.engine ELSE "Auto"
<1>1. p.parallel \in BOOLEAN /\ p.jobs \in Nat /\ e \in Engines \cup {"Auto"}
    BY PlanTypes
<1>2. Planned(c, p) = [c EXCEPT !.parallel = p.parallel, !.budget = p.jobs, !.engine = e]
    BY DEF Planned
<1> HIDE DEF e
<1> QED BY <1>1, <1>2 DEF Context

LEMMA SealedOK ==
    ASSUME NEW c \in Context, NEW b \in BOOLEAN
    PROVE  /\ [c EXCEPT !.sealed = b] \in Context
           /\ [c EXCEPT !.sealed = b].parallel = c.parallel
           /\ [c EXCEPT !.sealed = b].ancestor = c.ancestor
           /\ [c EXCEPT !.sealed = b].grant = c.grant
BY DEF Context

LEMMA ColdOK ==
    ASSUME NEW l, ctx[l] \in Context, NEW p \in Plans
    PROVE  /\ ColdContext(l, p) \in Context /\ ColdContext(l, p).parallel = p.parallel
           /\ ColdContext(l, p).ancestor = ctx[l].ancestor
           /\ ColdContext(l, p).grant = ctx[l].grant
<1> DEFINE c == Planned(ctx[l], p)
           x == ~p.parallel
           y == p.parallel /\ config.frontier
<1>1. /\ c \in Context /\ c.parallel = p.parallel
      /\ c.ancestor = ctx[l].ancestor /\ c.grant = ctx[l].grant
    BY PlannedOK
<1>2. x \in BOOLEAN /\ y \in BOOLEAN
    OBVIOUS
<1>3. ColdContext(l, p) = [c EXCEPT !.conservative = x, !.collects = TRUE, !.sealed = y]
    BY DEF ColdContext
<1> HIDE DEF c, x, y
<1> QED BY <1>1, <1>2, <1>3 DEF Context

LEMMA InheritOK ==
    ASSUME CallsInv, NEW l \in Loops, pc[l] # "idle", NEW c \in Context
    PROVE  /\ inherit_execution_lineage(l, c) \in Context
           /\ inherit_execution_lineage(l, c).parallel = c.parallel
           /\ inherit_execution_lineage(l, c).grant = c.grant
           /\ Nested(l) /\ UnderParallel(l) => inherit_execution_lineage(l, c).ancestor
<1>1. CASE ~Nested(l)
    BY <1>1 DEF inherit_execution_lineage
<1>2. CASE Nested(l)
    <2> DEFINE u == Up(l)
               a == UnderParallel(l)
               x == c.sealed \/ u.sealed
               y == c.collects \/ u.collects
               s == IF c.session = NoLoop THEN u.session ELSE c.session
    <2>1. u \in Context /\ a \in BOOLEAN
        BY UpFacts DEF UnderParallel
    <2>2. x \in BOOLEAN /\ y \in BOOLEAN /\ s \in Loops \cup {NoLoop} /\ u.conservative \in BOOLEAN
        BY <2>1 DEF Context
    <2>3. inherit_execution_lineage(l, c) =
            [c EXCEPT !.ancestor = a, !.conservative = u.conservative, !.sealed = x,
                      !.collects = y, !.session = s]
        BY <1>2 DEF inherit_execution_lineage, Context
    <2>4. UnderParallel(l) => a
        OBVIOUS
    <2> HIDE DEF u, a, x, y, s
    <2> QED BY <2>1, <2>2, <2>3, <2>4 DEF Context
<1> QED BY <1>1, <1>2

LEMMA MakeOK ==
    ASSUME CallsInv, NEW l \in Loops, pc[l] # "idle"
    PROVE  /\ make_execution_context(l) \in Context
           /\ ~make_execution_context(l).parallel
           /\ ~Nested(l) => make_execution_context(l).grant = ctx[l].grant
<1> DEFINE u == Up(l)
           r == IF Nested(l) THEN u.root ELSE ctx[l].root
<1>1. u \in Context /\ ctx[l] \in Context /\ NoContext \in Context
    BY UpFacts, CallFacts DEF NoContext, Context, Sites
<1>2. r \in Nat /\ u.grant \in Nat \ {0} /\ Site[l] \in Sites
    BY <1>1 DEF Context, Sites
<1>3. ~Nested(l) => u.grant = ctx[l].grant
    BY UpFacts DEF NoContext
<1>4. make_execution_context(l) =
        [NoContext EXCEPT !.site = Site[l], !.grant = u.grant, !.root = r]
    BY DEF make_execution_context
<1>5. ~NoContext.parallel
    BY DEF NoContext
<1> HIDE DEF u, r
<1> QED BY <1>1, <1>2, <1>3, <1>4, <1>5 DEF Context

\* A cold, early execution of everything.
LEMMA EarlyIs ==
    ASSUME CallsInv, NEW l \in Loops, pc[l] \in Early
    PROVE  /\ Left(l, pc[l], loc[l], todo[l]) = Items(l) /\ loc[l].sampled = {}
           /\ running[l] = {} /\ todo[l] = {} /\ loc[l] \in Locals /\ ctx[l] \in Context
           /\ (loc[l].path = "inherited" \/ loc[l].since = loc[l].began)
           /\ pc[l] \in {"idle", "called"} => loc[l] = NoLocals
           /\ Nested(l) /\ pc[l] \notin {"idle", "called"} /\ UnderParallel(l)
                => ctx[l].parallel \/ ctx[l].ancestor
<1>1. running[l] = {} /\ todo[l] = {} /\ loc[l] \in Locals /\ ctx[l] \in Context
    BY CallFacts, PlacesApart
<1>2. Flagged(l, pc[l], loc[l], todo[l], running[l])
      /\ Lined(config.frontier, l, ctx[Parent[l]], pc[l], ctx[l], loc[l])
    BY CallFacts DEF CallOK
<1>3. Left(l, pc[l], loc[l], todo[l]) = Items(l)
    BY LeftIs
<1>4. Nested(l) /\ pc[l] \notin {"idle", "called"} /\ UnderParallel(l)
                => ctx[l].parallel \/ ctx[l].ancestor
    BY <1>2, UnderIs DEF Lined
<1>5. loc[l].sampled = {} /\ (loc[l].path = "inherited" \/ loc[l].since = loc[l].began)
      /\ (pc[l] \in {"idle", "called"} => loc[l] = NoLocals)
    BY <1>2 DEF Flagged
<1> QED BY <1>1, <1>3, <1>4, <1>5

\* The first execution of a call executes all its indices, sequentially or
\* outside of all others.
LEMMA FirstExecution ==
    ASSUME CallsInv, NEW l \in Loops, pc[l] \in Early \ {"idle"},
           NEW q \in Straight, NEW c \in Context, NEW d \in Locals,
           pc' = [pc EXCEPT ![l] = q], ctx' = [ctx EXCEPT ![l] = c],
           loc' = [loc EXCEPT ![l] = d], todo' = [todo EXCEPT ![l] = Items(l)],
           UNCHANGED <<running, failed, count, config>>,
           ~Nested(l) => c.grant = ctx[l].grant,
           d.plan \in Plans, d.path = "inherited" \/ d.since = d.began,
           d.plan.parallel => c.parallel /\ ~Nested(l),
           Nested(l) /\ UnderParallel(l) => c.parallel \/ c.ancestor
    PROVE  Own(l)
<1>1. q \in Executing /\ q # "sampling" /\ q # "pilot"
    BY PlacesApart DEF Straight
<1>2. Left(l, pc[l], loc[l], todo[l]) = Items(l) /\ running[l] = {}
    BY EarlyIs
<1>3. Left(l, q, d, Items(l)) = Items(l)
    BY LeftIs
<1> QED BY <1>1, <1>2, <1>3, ExecutesStep

LEMMA OwnExactPlan ==
    ASSUME Inv, NEW l \in Loops, exact_plan(l)
    PROVE  Own(l)
<1>1. CallsInv /\ pc[l] = "called" /\ ~Nested(l) /\ pc[l] \in Early \ {"idle"}
      /\ "direct" \in Straight
    BY DEF Inv, exact_plan, Early, Straight
<1>2. loc[l] \in Locals /\ ctx[l] \in Context /\ loc[l].since = loc[l].began
    BY <1>1, EarlyIs DEF NoLocals
<1>3. PICK plan \in {Sequential} \cup {Parallel(e, ctx[l].grant) : e \in Engines} :
         /\ Executes(l, "direct",
                     [Planned(make_execution_context(l), plan) EXCEPT !.site = NoSite],
                     Items(l))
         /\ loc' = [loc EXCEPT ![l].path = "exact", ![l].plan = plan]
    BY DEF exact_plan
<1> DEFINE m == Planned(make_execution_context(l), plan)
           c == [m EXCEPT !.site = NoSite]
           d == [loc[l] EXCEPT !.path = "exact", !.plan = plan]
<1>4. plan \in Plans
    BY <1>2, <1>3, PlanTypes DEF Context
<1>5. m \in Context /\ m.parallel = plan.parallel /\ m.grant = ctx[l].grant
    BY <1>1, <1>4, MakeOK, PlannedOK
<1>6. pc' = [pc EXCEPT ![l] = "direct"] /\ ctx' = [ctx EXCEPT ![l] = c]
      /\ todo' = [todo EXCEPT ![l] = Items(l)]
      /\ UNCHANGED <<running, failed, count, config>>
    BY <1>3 DEF Executes, exact_plan
<1>7. loc' = [loc EXCEPT ![l] = d]
    BY <1>1, <1>3 DEF CallsInv, Mapped
<1> HIDE DEF m
<1>8. c \in Context /\ c.parallel = plan.parallel /\ c.grant = ctx[l].grant
    BY <1>5 DEF Context, Sites
<1>9. d \in Locals /\ d.plan = plan /\ d.since = d.began
    BY <1>2, <1>4 DEF Locals, SomePlan
<1> HIDE DEF c, d
<1> QED BY <1>1, <1>4, <1>6, <1>7, <1>8, <1>9, FirstExecution

LEMMA OwnInheritedFrontier ==
    ASSUME Inv, NEW l \in Loops, inherited_parallel_frontier(l)
    PROVE  Own(l)
<1> DEFINE m == make_execution_context(l)
           c == inherit_execution_lineage(l, m)
           d == [loc[l] EXCEPT !.path = "inherited", !.plan = Sequential,
                               !.began = cache.epoch]
<1>1. CallsInv /\ pc[l] = "called" /\ Nested(l) /\ pc[l] \in Early \ {"idle"}
      /\ "direct" \in Straight /\ cache.epoch \in Nat
    BY DEF Inv, GlobalInv, CacheOK, inherited_parallel_frontier, InheritsFrontier, Early, Straight
<1>2. loc[l] \in Locals
    BY <1>1, EarlyIs
<1>3. m \in Context
    BY <1>1, MakeOK
<1>4. pc' = [pc EXCEPT ![l] = "direct"] /\ ctx' = [ctx EXCEPT ![l] = c]
      /\ todo' = [todo EXCEPT ![l] = Items(l)]
      /\ UNCHANGED <<running, failed, count, config>>
    BY DEF Executes, inherited_parallel_frontier
<1>5. loc' = [loc EXCEPT ![l] = d]
    BY <1>1 DEF CallsInv, Mapped, inherited_parallel_frontier
<1> HIDE DEF m
<1>6. c \in Context /\ (Nested(l) /\ UnderParallel(l) => c.ancestor)
    BY <1>1, <1>3, InheritOK
<1>7. Sequential \in SomePlan /\ Sequential \in Plans /\ ~Sequential.parallel
    BY PlanTypes DEF SomePlan
<1>8. d \in Locals /\ d.plan = Sequential /\ d.path = "inherited"
    BY <1>1, <1>2, <1>7 DEF Locals
<1> HIDE DEF c, d
<1> QED BY <1>1, <1>4, <1>5, <1>6, <1>7, <1>8, FirstExecution

\* The locals with another plan.
LEMMA WithPlan ==
    ASSUME NEW d \in Locals, NEW p \in Plans
    PROVE  /\ [d EXCEPT !.plan = p] \in Locals /\ [d EXCEPT !.plan = p].plan = p
           /\ SameCall(d, [d EXCEPT !.plan = p])
           /\ [d EXCEPT !.plan = p].since = d.since /\ [d EXCEPT !.plan = p].began = d.began
           /\ [d EXCEPT !.plan = p].builds = d.builds
           /\ [d EXCEPT !.plan = p].revalidates = d.revalidates
BY DEF Locals, SameCall, SomePlan

LEMMA OwnAnalyticalCold ==
    ASSUME Inv, NEW l \in Loops, AnalyticalCold(l)
    PROVE  Own(l)
<1> DEFINE n == Lesser(ctx[l].grant, Total[l])
           plan == Parallel("ThreadPool", n)
           c == ColdContext(l, plan)
           d == [loc[l] EXCEPT !.plan = plan]
<1>1. CallsInv /\ pc[l] = "cold" /\ ~Nested(l) /\ pc[l] \in Early \ {"idle"}
      /\ "learning" \in Straight
    BY DEF Inv, AnalyticalCold, Analytical, Early, Straight
<1>2. loc[l] \in Locals /\ ctx[l] \in Context
      /\ (loc[l].path = "inherited" \/ loc[l].since = loc[l].began)
    BY <1>1, EarlyIs
<1>3. n \in Nat \ {0}
    BY <1>2, Constants, LesserGreater DEF Context
<1>4. plan \in Plans
    BY <1>3, PlanTypes
<1>5. pc' = [pc EXCEPT ![l] = "learning"] /\ ctx' = [ctx EXCEPT ![l] = c]
      /\ todo' = [todo EXCEPT ![l] = Items(l)]
      /\ UNCHANGED <<running, failed, count, config>>
    BY DEF Executes, AnalyticalCold, Elsewhere
<1>6. loc' = [loc EXCEPT ![l] = d]
    BY <1>1 DEF CallsInv, Mapped, AnalyticalCold
<1> HIDE DEF n, plan
<1>7. c \in Context /\ c.parallel = plan.parallel /\ c.grant = ctx[l].grant
    BY <1>2, <1>4, ColdOK
<1>8. d \in Locals /\ d.plan = plan /\ (d.path = "inherited" \/ d.since = d.began)
    BY <1>2, <1>4, WithPlan DEF SameCall
<1> HIDE DEF c, d
<1> QED BY <1>1, <1>4, <1>5, <1>6, <1>7, <1>8, FirstExecution

LEMMA OwnDirectCold ==
    ASSUME Inv, NEW l \in Loops, DirectCold(l)
    PROVE  Own(l)
<1> DEFINE m == ColdContext(l, Sequential)
           c == inherit_execution_lineage(l, m)
           d == [loc[l] EXCEPT !.plan = Sequential]
<1>1. CallsInv /\ pc[l] = "cold" /\ pc[l] \in Early \ {"idle"} /\ "learning" \in Straight
    BY DEF Inv, DirectCold, Early, Straight
<1>2. loc[l] \in Locals /\ ctx[l] \in Context
      /\ (loc[l].path = "inherited" \/ loc[l].since = loc[l].began)
    BY <1>1, EarlyIs
<1>3. Sequential \in Plans /\ ~Sequential.parallel
    BY PlanTypes
<1>4. pc' = [pc EXCEPT ![l] = "learning"] /\ ctx' = [ctx EXCEPT ![l] = c]
      /\ todo' = [todo EXCEPT ![l] = Items(l)]
      /\ UNCHANGED <<running, failed, count, config>>
    BY DEF Executes, DirectCold, Elsewhere
<1>5. loc' = [loc EXCEPT ![l] = d]
    BY <1>1 DEF CallsInv, Mapped, DirectCold
<1>6. m \in Context /\ m.grant = ctx[l].grant
    BY <1>2, <1>3, ColdOK
<1> HIDE DEF m
<1>7. c \in Context /\ c.grant = ctx[l].grant /\ (Nested(l) /\ UnderParallel(l) => c.ancestor)
    BY <1>1, <1>6, InheritOK
<1>8. d \in Locals /\ d.plan = Sequential /\ (d.path = "inherited" \/ d.since = d.began)
    BY <1>2, <1>3, WithPlan DEF SameCall
<1> HIDE DEF c, d
<1> QED BY <1>1, <1>3, <1>4, <1>5, <1>7, <1>8, FirstExecution

LEMMA OwnFastPath ==
    ASSUME Inv, NEW l \in Loops, FastPath(l)
    PROVE  Own(l)
<1> DEFINE b == TinyWork(l) /\ config.frontier
           k == Planned(ctx[l], Sequential)
           m == [k EXCEPT !.sealed = b]
           c == inherit_execution_lineage(l, m)
           d == [loc[l] EXCEPT !.plan = Sequential]
<1>1. CallsInv /\ pc[l] = "chosen" /\ pc[l] \in Early \ {"idle"} /\ "fast" \in Straight
    BY DEF Inv, FastPath, Early, Straight
<1>2. loc[l] \in Locals /\ ctx[l] \in Context
      /\ (loc[l].path = "inherited" \/ loc[l].since = loc[l].began)
    BY <1>1, EarlyIs
<1>3. Sequential \in Plans /\ ~Sequential.parallel /\ b \in BOOLEAN
    BY PlanTypes
<1>4. pc' = [pc EXCEPT ![l] = "fast"] /\ ctx' = [ctx EXCEPT ![l] = c]
      /\ todo' = [todo EXCEPT ![l] = Items(l)]
      /\ UNCHANGED <<running, failed, count, config>>
    BY DEF Executes, FastPath, Elsewhere
<1>5. loc' = [loc EXCEPT ![l] = d]
    BY <1>1 DEF CallsInv, Mapped, FastPath
<1> HIDE DEF b
<1>6. k \in Context /\ k.grant = ctx[l].grant
    BY <1>2, <1>3, PlannedOK
<1> HIDE DEF k
<1>7. m \in Context /\ m.grant = ctx[l].grant
    BY <1>3, <1>6, SealedOK
<1> HIDE DEF m
<1>8. c \in Context /\ c.grant = ctx[l].grant /\ (Nested(l) /\ UnderParallel(l) => c.ancestor)
    BY <1>1, <1>7, InheritOK
<1>9. d \in Locals /\ d.plan = Sequential /\ (d.path = "inherited" \/ d.since = d.began)
    BY <1>2, <1>3, WithPlan DEF SameCall
<1> HIDE DEF c, d
<1> QED BY <1>1, <1>3, <1>4, <1>5, <1>8, <1>9, FirstExecution

LEMMA OwnCallRoot ==
    ASSUME Inv, NEW l \in Loops, CallRoot(l)
    PROVE  Own(l)
<1>1. CallsInv /\ pc[l] = "idle" /\ ~Nested(l) /\ pc[l] \in Early
    BY Constants DEF Inv, GlobalInv, CallRoot, Early
<1>2. PICK g \in config.grants :
        ctx' = [ctx EXCEPT ![l] = [NoContext EXCEPT !.grant = g, !.root = calls + 1]]
    BY Zenon DEF CallRoot
<1> DEFINE c == [NoContext EXCEPT !.grant = g, !.root = calls + 1]
<1>3. g \in Nat \ {0} /\ calls + 1 \in Nat
    BY <1>2, Constants DEF Inv, GlobalInv
<1>4. NoContext \in Context
    BY DEF NoContext, Context, Sites
<1>5. c \in Context
    BY <1>3, <1>4 DEF Context
<1> HIDE DEF c
<1>6. loc[l] \in Locals /\ running[l] = {} /\ todo[l] = {} /\ loc[l] = NoLocals
      /\ Left(l, pc[l], loc[l], todo[l]) = Items(l)
    BY <1>1, EarlyIs
<1>7. pc' = [pc EXCEPT ![l] = "called"] /\ ctx' = [ctx EXCEPT ![l] = c]
      /\ UNCHANGED <<running, failed, count, config>>
    BY <1>2 DEF CallRoot, c
<1>8. loc' = [loc EXCEPT ![l] = loc[l]] /\ todo' = [todo EXCEPT ![l] = {}]
    BY <1>1, <1>6 DEF CallRoot, CallsInv, Mapped
<1>9. "called" \in Early /\ "called" \in Places \ {"idle"} /\ "called" \notin Executing
    BY DEF Early, Places, Executing
<1>10. Left(l, "called", loc[l], {}) = Left(l, pc[l], loc[l], todo[l])
    BY <1>6, <1>9, LeftIs
<1>11. Flagged(l, "called", loc[l], {}, {})
    BY <1>6, <1>9 DEF Flagged, NoLocals
<1>12. Lined(config.frontier, l, ctx[Parent[l]], "called", c, loc[l])
    BY <1>1, <1>9 DEF Lined
<1>13. {} \in SUBSET Items(l)
    OBVIOUS
<1> QED BY <1>1, <1>5, <1>6, <1>7, <1>8, <1>9, <1>10, <1>11, <1>12, <1>13, OwnBy

LEMMA OwnDecides ==
    ASSUME Inv, NEW l \in Loops, Decides(l)
    PROVE  Own(l)
<1> DEFINE new == Up(l).session = NoLoop
           s   == IF new THEN l ELSE Up(l).session
           own == [make_execution_context(l) EXCEPT !.session = s]
           hit == ~new /\ Key(l) \in DOMAIN snapshots[s]
           c == inherit_execution_lineage(l, own)
           p == IF hit THEN snapshots[s][Key(l)] ELSE NoMemo
           d == [loc[l] EXCEPT !.path = "main", !.memo = p]
<1>1. CallsInv /\ pc[l] = "called" /\ pc[l] \in Early
    BY DEF Inv, Decides, Early
<1>2. loc[l] \in Locals /\ running[l] = {} /\ todo[l] = {}
      /\ Left(l, pc[l], loc[l], todo[l]) = Items(l)
    BY <1>1, EarlyIs
<1>3. loc[l] = NoLocals
    BY <1>1, EarlyIs
<1>4. s \in Loops
    BY <1>1, UpFacts DEF Context
<1>5. own \in Context /\ (~Nested(l) => own.grant = ctx[l].grant)
    <2> DEFINE m == make_execution_context(l)
    <2>1. m \in Context /\ (~Nested(l) => m.grant = ctx[l].grant)
        BY <1>1, MakeOK
    <2> HIDE DEF m, s
    <2>2. [m EXCEPT !.session = s] \in Context
          /\ (~Nested(l) => [m EXCEPT !.session = s].grant = ctx[l].grant)
        BY <1>4, <2>1 DEF Context
    <2> QED BY <2>2 DEF m
<1>6. p \in Memos
    BY <1>4 DEF Inv, GlobalInv, SnapshotsOK, NoMemo, NoBasis, Memos, Bases, SomePlan
<1>7. ctx' = [ctx EXCEPT ![l] = c] /\ pc' = [pc EXCEPT ![l] = "epoch"]
      /\ UNCHANGED <<running, failed, count, config>>
    BY DEF Decides
<1>8. loc' = [loc EXCEPT ![l] = d] /\ todo' = [todo EXCEPT ![l] = {}]
    BY <1>1, <1>2 DEF Decides, CallsInv, Mapped
<1> HIDE DEF own, hit, p
<1>9. c \in Context /\ c.grant = own.grant /\ (Nested(l) /\ UnderParallel(l) => c.ancestor)
    BY <1>1, <1>5, InheritOK
<1>10. d \in Locals /\ d.sampled = loc[l].sampled
       /\ d.builds = loc[l].builds /\ d.revalidates = loc[l].revalidates
       /\ d.since = loc[l].since /\ d.began = loc[l].began
    BY <1>2, <1>6 DEF Locals
<1>11. d.sampled = {} /\ ~d.builds /\ ~d.revalidates /\ d.since = d.began
    BY <1>3, <1>10 DEF NoLocals
<1> HIDE DEF c, d
<1>12. "epoch" \in Early /\ "epoch" \in Places \ {"idle"} /\ "epoch" \notin Executing
    BY DEF Early, Places, Executing
<1>13. Left(l, "epoch", d, {}) = Left(l, pc[l], loc[l], todo[l])
    BY <1>2, <1>12, LeftIs
<1>14. Flagged(l, "epoch", d, {}, {})
    BY <1>10, <1>11, <1>12 DEF Flagged
<1>15. Lined(config.frontier, l, ctx[Parent[l]], "epoch", c, d)
    BY <1>1, <1>9, <1>12, UnderIs DEF Lined
<1>16. {} \in SUBSET Items(l) /\ (~Nested(l) => c.grant = ctx[l].grant)
    BY <1>5, <1>9
<1> QED BY <1>1, <1>2, <1>7, <1>8, <1>9, <1>10, <1>12, <1>13, <1>14, <1>15, <1>16, OwnBy

LEMMA OwnPilotCold ==
    ASSUME Inv, NEW l \in Loops, PilotCold(l)
    PROVE  Own(l)
<1> DEFINE c == ColdContext(l, Sequential)
           d == [loc[l] EXCEPT !.plan = Sequential]
<1>1. CallsInv /\ pc[l] = "cold" /\ pc[l] \in Early \ {"idle"} /\ "pilot" \in Executing /\ ~Nested(l)
    BY DEF Inv, PilotCold, Early, Executing, Pilot
<1>2. loc[l] \in Locals /\ ctx[l] \in Context /\ running[l] = {}
      /\ (loc[l].path = "inherited" \/ loc[l].since = loc[l].began)
      /\ Left(l, pc[l], loc[l], todo[l]) = Items(l)
    BY <1>1, EarlyIs
<1>3. Sequential \in Plans /\ ~Sequential.parallel
    BY PlanTypes
<1>4. pc' = [pc EXCEPT ![l] = "pilot"] /\ ctx' = [ctx EXCEPT ![l] = c]
      /\ todo' = [todo EXCEPT ![l] = {0}]
      /\ UNCHANGED <<running, failed, count, config>>
    BY DEF Executes, PilotCold, Elsewhere
<1>5. loc' = [loc EXCEPT ![l] = d]
    BY <1>1 DEF CallsInv, Mapped, PilotCold
<1>6. c \in Context /\ c.grant = ctx[l].grant
    BY <1>2, <1>3, ColdOK
<1>7. d \in Locals /\ d.plan = Sequential /\ (d.path = "inherited" \/ d.since = d.began)
    BY <1>2, <1>3, WithPlan DEF SameCall
<1> HIDE DEF c, d
<1>8. 0 \in Items(l)
    BY Constants
<1>9. Left(l, "pilot", d, {0}) = Items(l)
    <2>1. Left(l, "pilot", d, {0}) = {0} \cup (Items(l) \ {0})
        BY LeftIs
    <2> QED BY <1>8, <2>1
<1>10. {0} \in SUBSET Items(l) /\ pc[l] # "idle" /\ "pilot" # "sampling" /\ {0} \subseteq {0}
    BY <1>1, <1>8
<1> QED BY <1>1, <1>2, <1>3, <1>4, <1>5, <1>6, <1>7, <1>9, <1>10, ExecutesStep

LEMMA OwnAfterPilot ==
    ASSUME Inv, NEW l \in Loops, AfterPilot(l)
    PROVE  Own(l)
<1>1. CallsInv /\ pc[l] = "pilot" /\ "learning" \in Straight /\ "learning" \in Executing
      /\ todo[l] = {} /\ running[l] = {} /\ pc[l] \in Executing
    BY DEF Inv, AfterPilot, Executed, Straight, Executing
<1>2. loc[l] \in Locals /\ ctx[l] \in Context /\ ~Nested(l)
      /\ (loc[l].path = "inherited" \/ loc[l].since = loc[l].began)
    BY <1>1, CallFacts DEF CallOK, Flagged
<1>3. PICK promoted \in BOOLEAN :
         LET rest == Total[l] - 1
             plan == IF promoted THEN Parallel("ThreadPool", Lesser(ctx[l].grant, rest))
                     ELSE Sequential
         IN  /\ promoted => rest > 1
             /\ Executes(l, "learning", ColdContext(l, plan), Items(l) \ {0})
             /\ loc' = [loc EXCEPT ![l].plan = plan]
    BY Zenon DEF AfterPilot
<1> DEFINE n == Lesser(ctx[l].grant, Total[l] - 1)
           plan == IF promoted THEN Parallel("ThreadPool", n) ELSE Sequential
           c == ColdContext(l, plan)
           d == [loc[l] EXCEPT !.plan = plan]
           w == Items(l) \ {0}
<1>4. plan \in Plans
    <2>1. CASE promoted
        <3>1. Total[l] \in Nat /\ Total[l] - 1 > 1 /\ ctx[l].grant \in Nat \ {0}
            BY <1>2, <1>3, <2>1, Constants DEF Context
        <3>2. n \in Nat \ {0}
            BY <3>1 DEF Lesser
        <3> HIDE DEF n
        <3> QED BY <2>1, <3>2, PlanTypes
    <2> QED BY <2>1, PlanTypes
<1>5. /\ pc' = [pc EXCEPT ![l] = "learning"] /\ ctx' = [ctx EXCEPT ![l] = c]
      /\ todo' = [todo EXCEPT ![l] = w]
      /\ loc' = [loc EXCEPT ![l].plan = plan]
      /\ UNCHANGED <<running, failed, count, config>>
    BY <1>3 DEF Executes, AfterPilot, Elsewhere
<1> HIDE DEF n, plan
<1>6. loc' = [loc EXCEPT ![l] = d]
    BY <1>1, <1>5 DEF CallsInv, Mapped
<1>7. c \in Context /\ c.grant = ctx[l].grant /\ c.parallel = plan.parallel
    BY <1>2, <1>4, ColdOK
<1>8. d \in Locals /\ d.plan = plan /\ (d.path = "inherited" \/ d.since = d.began)
    BY <1>2, <1>4, WithPlan DEF SameCall
<1> HIDE DEF c, d
<1>9. Left(l, "learning", d, w) = Left(l, pc[l], loc[l], todo[l])
    <2>1. Left(l, "learning", d, w) = w
        BY <1>1, LeftIs
    <2>2. Left(l, pc[l], loc[l], todo[l]) = {} \cup (Items(l) \ {0})
        BY <1>1, LeftIs
    <2> QED BY <2>1, <2>2
<1>10. w \in SUBSET Items(l) /\ pc[l] # "idle" /\ "learning" # "sampling" /\ "learning" # "pilot"
    BY <1>1
<1> HIDE DEF w
<1> QED BY <1>1, <1>2, <1>4, <1>5, <1>6, <1>7, <1>8, <1>9, <1>10, ExecutesStep

\* a \div b is less than t where a is less than t times b.
LEMMA DivBelow ==
    ASSUME NEW a \in Nat, NEW b \in Nat \ {0}, NEW t \in Nat, a < t * b
    PROVE  a \div b \in Nat /\ a \div b < t
<1> DEFINE q == a \div b
<1>1. q \in Nat /\ q * b <= a
    OBVIOUS
<1> HIDE DEF q
<1>2. ASSUME q >= t PROVE FALSE
    <2>1. PICK e \in Nat : q = t + e
        <3>1. q - t \in Nat /\ q = t + (q - t)
            BY <1>1, <1>2
        <3> QED BY <3>1
    <2>2. q * b = t * b + e * b /\ e * b \in Nat /\ t * b \in Nat /\ q * b \in Nat
        BY <2>1, <1>1
    <2> QED BY <1>1, <2>2
<1>3. q \in Nat /\ q < t
    BY <1>1, <1>2
<1> QED BY <1>3 DEF q

LEMMA DivAtMost ==
    ASSUME NEW a \in Nat, NEW b \in Nat \ {0}, NEW t \in Nat, a <= t * b
    PROVE  a \div b \in Nat /\ a \div b <= t
<1>1. a < (t + 1) * b
    <2>1. (t + 1) * b = t * b + b /\ t * b \in Nat
        OBVIOUS
    <2> DEFINE x == t * b
               y == (t + 1) * b
    <2>2. x \in Nat /\ y = x + b /\ a <= x
        BY <2>1
    <2> HIDE DEF x, y
    <2>3. a < y
        BY <2>2
    <2> QED BY <2>3 DEF y
<1>2. a \div b \in Nat /\ a \div b < t + 1
    BY <1>1, DivBelow
<1> DEFINE q == a \div b
<1>3. q \in Nat /\ q < t + 1
    BY <1>2
<1> HIDE DEF q
<1>4. q <= t
    BY <1>3
<1> QED BY <1>2, <1>4 DEF q

LEMMA TimesMonotonic ==
    ASSUME NEW t \in Nat, NEW a \in Nat, NEW b \in Nat, a <= b
    PROVE  t * a <= t * b
<1>1. PICK e \in Nat : b = a + e
    <2>1. b - a \in Nat /\ b = a + (b - a)
        OBVIOUS
    <2> QED BY <2>1
<1>2. t * b = t * a + t * e /\ t * e \in Nat /\ t * a \in Nat
    BY <1>1
<1> QED BY <1>2

\* Samples are indices: the last one of a region is within it.
LEMMA SampleWithin ==
    ASSUME NEW total \in Nat \ {0}, NEW s \in Nat
    PROVE  SampleAt(total, s) \in 0..(total - 1)
<1> DEFINE R == Regions(total)
           region == s % R
           first == (total * region) \div R
           last == (total * (region + 1)) \div R
           width == Greater(1, last - first)
           q == s \div R
<1>1. profile_regions \in Nat /\ profile_max_samples \in Nat \ {0}
    BY LoopAssumption
<1>2. R \in Nat \ {0}
    BY <1>1 DEF Regions, SampleCount, Greater, Lesser
<1> HIDE DEF R
<1>3. region \in Nat /\ region < R /\ q \in Nat
    BY <1>2
<1>4. SampleAt(total, s) = first + Lesser(q, width - 1)
    BY DEF SampleAt, R
<1> HIDE DEF region, q
<1>5. first \in Nat /\ first < total
    <2>1. total * region \in Nat /\ total * region < total * R
        <3>1. total * (region + 1) <= total * R
            BY <1>2, <1>3, TimesMonotonic
        <3>2. total * (region + 1) = total * region + total /\ total * region \in Nat
              /\ total * R \in Nat
            BY <1>2, <1>3
        <3> QED BY <3>1, <3>2
    <2> QED BY <1>2, <2>1, DivBelow
<1>6. last \in Nat /\ last <= total
    <2>1. total * (region + 1) \in Nat /\ total * (region + 1) <= total * R
        BY <1>2, <1>3, TimesMonotonic
    <2> QED BY <1>2, <2>1, DivAtMost
<1> HIDE DEF first, last
<1>7. width \in Nat \ {0} /\ first + width <= total
    BY <1>5, <1>6 DEF Greater
<1> HIDE DEF width
<1>8. Lesser(q, width - 1) \in Nat /\ Lesser(q, width - 1) <= width - 1
    BY <1>3, <1>7 DEF Lesser
<1> DEFINE x == Lesser(q, width - 1)
<1>9. x \in Nat /\ x <= width - 1
    BY <1>8
<1> HIDE DEF x
<1>10. first + x \in 0..(total - 1)
    BY <1>5, <1>7, <1>9
<1> QED BY <1>4, <1>10 DEF x

LEMMA OwnSample ==
    ASSUME Inv, NEW l \in Loops, Sample(l)
    PROVE  Own(l)
<1>1. CallsInv /\ pc[l] = "sample" /\ pc[l] \in Early \ {"idle", "called"}
      /\ "sampling" \in Executing
    BY DEF Inv, Sample, Early, Executing
<1>2. loc[l] \in Locals /\ ctx[l] \in Context /\ running[l] = {}
      /\ (loc[l].path = "inherited" \/ loc[l].since = loc[l].began)
      /\ Left(l, pc[l], loc[l], todo[l]) = Items(l)
      /\ (Nested(l) /\ UnderParallel(l) => ctx[l].parallel \/ ctx[l].ancestor)
    BY <1>1, EarlyIs
<1>3. Sequential \in Plans /\ ~Sequential.parallel
    BY PlanTypes
<1>4. PICK n \in 1..SampleCount(Total[l]) :
         /\ todo' = [todo EXCEPT ![l] = sample_indices(Total[l], n)]
         /\ loc' = [loc EXCEPT ![l].plan = Sequential,
                               ![l].sampled = sample_indices(Total[l], n)]
    BY Zenon DEF Sample
<1> DEFINE s == sample_indices(Total[l], n)
           d == [loc[l] EXCEPT !.plan = Sequential, !.sampled = s]
<1>5. s \subseteq Items(l)
    BY Constants, SampleWithin DEF sample_indices, Items
<1>6. /\ pc' = [pc EXCEPT ![l] = "sampling"] /\ ctx' = [ctx EXCEPT ![l] = ctx[l]]
      /\ todo' = [todo EXCEPT ![l] = s] /\ loc' = [loc EXCEPT ![l] = d]
      /\ UNCHANGED <<running, failed, count, config>>
    BY <1>1, <1>4 DEF CallsInv, Mapped, Sample, Elsewhere
<1>7. s \in Samples
    <2>1. IsFiniteSet(Items(l)) /\ Items(l) \subseteq Nat
        <3>1. Total[l] - 1 \in Int /\ 0 \in Int
            BY Constants
        <3> QED BY <3>1, FS_Interval DEF Items
    <2> HIDE DEF s
    <2> QED BY <1>5, <2>1, FS_Subset DEF Samples
<1> HIDE DEF s
<1>8. d \in Locals /\ d.plan = Sequential /\ d.sampled = s
      /\ (d.path = "inherited" \/ d.since = d.began)
    BY <1>2, <1>3, <1>7 DEF Locals, SomePlan
<1> HIDE DEF d
<1>9. Left(l, "sampling", d, s) = Items(l)
    <2>1. Left(l, "sampling", d, s) = s \cup (Items(l) \ s)
        BY <1>8, LeftIs
    <2> QED BY <1>5, <2>1
<1>10. "sampling" # "pilot" /\ pc[l] # "idle" /\ s \subseteq d.sampled /\ s \in SUBSET Items(l)
    BY <1>1, <1>5, <1>8
<1> QED BY <1>1, <1>2, <1>3, <1>5, <1>6, <1>8, <1>9, <1>10, ExecutesStep

-----------------------------------------------------------------------------
(* The execution of the plan.                                              *)

\* Coordination and constraints only take parallelism away.
LEMMA CoordinateOK ==
    ASSUME NEW l, Up(l) \in Context, NEW p \in Plans
    PROVE  /\ coordinate(l, p) \in Plans
           /\ coordinate(l, p).parallel => p.parallel
           /\ coordinate(l, p).parallel /\ Up(l).parallel
                => coordinate(l, p).jobs <= Up(l).budget
<1> DEFINE n == Lesser(p.jobs, Up(l).budget)
<1>1. p.jobs \in Nat \ {0} /\ Up(l).budget \in Nat /\ p.parallel \in BOOLEAN
      /\ Sequential \in Plans /\ ~Sequential.parallel
    BY PlanTypes DEF Context
<1>2. CASE ~p.parallel
    <2>1. coordinate(l, p) = Sequential
        BY <1>2 DEF coordinate
    <2> QED BY <1>1, <2>1
<1>3. CASE p.parallel /\ ~Up(l).parallel
    <2>1. coordinate(l, p) = p
        BY <1>3 DEF coordinate
    <2> QED BY <1>3, <2>1
<1>4. CASE p.parallel /\ Up(l).parallel /\ (Up(l).budget <= 1 \/ Up(l).engine # p.engine)
    <2>1. coordinate(l, p) = Sequential
        BY <1>4 DEF coordinate
    <2> QED BY <1>1, <2>1
<1>5. CASE p.parallel /\ Up(l).parallel /\ ~(Up(l).budget <= 1 \/ Up(l).engine # p.engine)
    <2>1. coordinate(l, p) = [p EXCEPT !.jobs = n]
        BY <1>5 DEF coordinate, Plans
    <2>2. n \in Nat \ {0} /\ n <= Up(l).budget
        BY <1>1, <1>5 DEF Lesser
    <2> HIDE DEF n
    <2>3. [p EXCEPT !.jobs = n] \in Plans /\ [p EXCEPT !.jobs = n].jobs = n
        BY <2>2, PlanTypes
    <2> QED BY <1>5, <2>1, <2>2, <2>3
<1> QED BY <1>2, <1>3, <1>4, <1>5

LEMMA EnforceOK ==
    ASSUME NEW l \in Loops, loc[l] \in Locals, NEW p \in Plans,
           NEW r \in enforce_constraints(l, p)
    PROVE  r \in Plans /\ (r.parallel => p.parallel /\ r.jobs <= p.jobs)
<1>1. Total[l] \in Nat \ {0} /\ p.jobs \in Nat \ {0} /\ Sequential \in Plans
      /\ ~Sequential.parallel
    BY Constants, PlanTypes
<1>2. Cardinality(loc[l].sampled) \in Nat
    BY FS_CardinalityType DEF Locals, Samples
<1> DEFINE left == Total[l] - Cardinality(loc[l].sampled)
           most == Lesser(p.jobs, IF left = 0 THEN Total[l] ELSE left)
<1>3. most \in Int /\ most <= p.jobs
    BY <1>1, <1>2 DEF Lesser
<1>4. r = p \/ r = Sequential \/ \E n \in 2..most : p.parallel /\ r = [p EXCEPT !.jobs = n]
    BY DEF enforce_constraints
<1> HIDE DEF most
<1>5. ASSUME NEW n \in 2..most, p.parallel, r = [p EXCEPT !.jobs = n]
      PROVE  r \in Plans /\ (r.parallel => p.parallel /\ r.jobs <= p.jobs)
    <2>1. n \in Nat \ {0} /\ n <= p.jobs
        BY <1>1, <1>3
    <2> QED BY <1>5, <2>1, PlanTypes
<1>6. p.jobs <= p.jobs
    BY <1>1
<1> QED BY <1>1, <1>4, <1>5, <1>6

LEMMA OwnPrepare ==
    ASSUME Inv, NEW l \in Loops, Prepare(l)
    PROVE  /\ Own(l)
           /\ \E plan \in Plans :
                snapshots' = IF Remembers(l) \/ loc[l].stable THEN snapshots
                             ELSE Remember(ctx[l].session, Key(l),
                                           [plan |-> plan, basis |-> loc[l].basis])
<1>1. CallsInv /\ pc[l] = "prepare" /\ pc[l] \in Deciding /\ pc[l] # "idle"
      /\ "execute" \in Straight /\ "execute" \in Executing
    BY DEF Inv, Prepare, Deciding, Straight, Executing
<1>2. /\ loc[l] \in Locals /\ ctx[l] \in Context /\ loc[l].plan \in Plans
      /\ running[l] = {} /\ todo[l] = {}
      /\ (loc[l].path = "inherited" \/ loc[l].since = loc[l].began)
    BY <1>1, CallFacts, PlacesApart DEF CallOK, Flagged
<1>3. Nested(l) /\ config.frontier /\ loc[l].plan.parallel => ~UnderParallel(l)
    BY <1>1, CallFacts, UnderIs DEF CallOK, Lined
<1>4. Up(l) \in Context /\ (Nested(l) => Up(l) = ctx[Parent[l]])
    BY <1>1, UpFacts
<1>5. PICK plan \in enforce_constraints(l, coordinate(l, loc[l].plan)) :
         /\ Executes(l, "execute",
              inherit_execution_lineage(l,
                [Planned(ctx[l], plan) EXCEPT !.sealed = plan.parallel /\ config.frontier]),
              Remaining(l))
         /\ loc' = [loc EXCEPT ![l].plan = plan]
         /\ snapshots' = IF Remembers(l) \/ loc[l].stable THEN snapshots
                         ELSE Remember(ctx[l].session, Key(l),
                                       [plan |-> plan, basis |-> loc[l].basis])
    BY Zenon DEF Prepare
<1> DEFINE p == coordinate(l, loc[l].plan)
<1>6. /\ p \in Plans /\ (p.parallel => loc[l].plan.parallel)
      /\ p.parallel /\ Up(l).parallel => p.jobs <= Up(l).budget
    BY <1>2, <1>4, CoordinateOK
<1> HIDE DEF p
<1>7. plan \in Plans /\ (plan.parallel => p.parallel /\ plan.jobs <= p.jobs)
    BY <1>2, <1>5, <1>6, EnforceOK DEF p
<1>8. Nested(l) /\ plan.parallel /\ ctx[Parent[l]].parallel
        => plan.jobs <= ctx[Parent[l]].budget
    <2>1. SUFFICES ASSUME Nested(l), plan.parallel, ctx[Parent[l]].parallel
                   PROVE  plan.jobs <= ctx[Parent[l]].budget
        OBVIOUS
    <2>2. plan.jobs \in Nat /\ p.jobs \in Nat /\ Up(l).budget \in Nat
        BY <1>4, <1>6, <1>7, PlanTypes DEF Context
    <2>3. plan.jobs <= p.jobs /\ p.jobs <= Up(l).budget
        BY <1>4, <1>6, <1>7, <2>1
    <2>4. plan.jobs <= Up(l).budget
        BY <2>2, <2>3
    <2> QED BY <1>4, <2>1, <2>4
<1> DEFINE b == plan.parallel /\ config.frontier
           k == Planned(ctx[l], plan)
           m == [k EXCEPT !.sealed = b]
           c == inherit_execution_lineage(l, m)
           d == [loc[l] EXCEPT !.plan = plan]
           w == Remaining(l)
<1>9. /\ pc' = [pc EXCEPT ![l] = "execute"] /\ ctx' = [ctx EXCEPT ![l] = c]
      /\ todo' = [todo EXCEPT ![l] = w] /\ UNCHANGED <<running, failed, count, config>>
    BY <1>5 DEF Executes, Prepare
<1>10. loc' = [loc EXCEPT ![l] = d]
    BY <1>1, <1>5 DEF CallsInv, Mapped
<1>11. b \in BOOLEAN
    OBVIOUS
<1> HIDE DEF b
<1>12. k \in Context /\ k.grant = ctx[l].grant /\ k.parallel = plan.parallel
    BY <1>2, <1>7, PlannedOK
<1> HIDE DEF k
<1>13. m \in Context /\ m.grant = ctx[l].grant /\ m.parallel = plan.parallel
    BY <1>11, <1>12, SealedOK
<1> HIDE DEF m
<1>14. c \in Context /\ c.grant = ctx[l].grant /\ c.parallel = plan.parallel
       /\ (Nested(l) /\ UnderParallel(l) => c.ancestor)
    BY <1>1, <1>13, InheritOK
<1>15. d \in Locals /\ d.plan = plan /\ (d.path = "inherited" \/ d.since = d.began)
    BY <1>2, <1>7, WithPlan DEF SameCall
<1> HIDE DEF c, d
<1>16. Left(l, "execute", d, w) = Left(l, pc[l], loc[l], todo[l])
    <2>1. Left(l, "execute", d, w) = w
        BY <1>1, LeftIs
    <2>2. Left(l, pc[l], loc[l], todo[l]) = Items(l) \ loc[l].sampled
        BY <1>1, LeftIs
    <2> QED BY <2>1, <2>2 DEF Remaining
<1>17. w \in SUBSET Items(l) /\ "execute" # "sampling" /\ "execute" # "pilot"
    BY DEF Remaining
<1> HIDE DEF w
<1>18. Own(l)
    BY <1>1, <1>2, <1>3, <1>6, <1>7, <1>8, <1>9, <1>10, <1>14, <1>15, <1>16, <1>17, ExecutesStep
<1> QED BY <1>5, <1>7, <1>18

-----------------------------------------------------------------------------
(* Steps that change what other calls see.                                 *)

\* d is the context c, or one that has seen nested calls.
SameLine(c, d) ==
    /\ d.parallel = c.parallel /\ d.ancestor = c.ancestor /\ d.budget = c.budget
    /\ d.site = c.site /\ d.grant = c.grant

LEMMA SeenNested ==
    ASSUME NEW c \in Context, NEW b \in BOOLEAN
    PROVE  /\ [c EXCEPT !.nested = b] \in Context
           /\ SameLine(c, [c EXCEPT !.nested = b])
BY DEF Context, SameLine

LEMMA SameLineOK ==
    ASSUME NEW f, NEW l, NEW u, NEW v, NEW p, NEW c, NEW e \in Context, NEW d, NEW w,
           NEW r, NEW n, CallOK(f, l, u, p, c, d, w, r, n),
           Nested(l) => SameLine(u, v), SameLine(c, e)
    PROVE  CallOK(f, l, v, p, e, d, w, r, n)
<1>1. Lined(f, l, v, p, e, d)
    BY DEF CallOK, Lined, SameLine
<1>2. Typed(l, p, e, d, w, r, n)
    BY DEF CallOK, Typed
<1> QED BY <1>1, <1>2 DEF CallOK

LEMMA SameKey ==
    ASSUME NEW m \in Loops,
           Nested(m) => SameLine(ctx[Parent[m]], ctx'[Parent[m]]),
           ~Nested(m) => ctx'[m].grant = ctx[m].grant
    PROVE  Key(m)' = Key(m)
<1>1. CASE Nested(m)
    BY <1>1 DEF Key, Up, Nested, SameLine
<1>2. CASE ~Nested(m)
    <2>1. Up(m)' = Up(m)
        BY <1>2 DEF Up, Nested
    <2> QED BY <2>1 DEF Key
<1> QED BY <1>1, <1>2

LEMMA CallsSealed ==
    ASSUME Inv, NEW l \in Loops, sealed_descendant_direct(l)
    PROVE  CallsInv' /\ \A m \in Loops : pc[m] # "idle" => pc'[m] # "idle" /\ Key(m)' = Key(m)
<1> DEFINE o == Parent[l]
           b == ctx[o].nested \/ Up(l).collects
           h == [ctx[o] EXCEPT !.nested = b]
           d == [loc[l] EXCEPT !.path = "sealed", !.plan = Sequential]
<1>1. CallsInv /\ pc[l] = "called" /\ Nested(l) /\ pc[l] \in Early
    BY DEF Inv, sealed_descendant_direct, SealedDirect, Early
<1>2. o \in Loops /\ pc[o] \in Executing /\ Up(l) = ctx[o] /\ o # l
    BY <1>1, Held, UpFacts, PlacesApart
<1>3. ctx[o] \in Context /\ ctx[l] \in Context
    BY <1>1, <1>2, CallFacts
<1>4. h \in Context /\ SameLine(ctx[o], h)
    <2>1. b \in BOOLEAN
        OBVIOUS
    <2> HIDE DEF b
    <2> QED BY <1>3, <2>1, SeenNested
<1>5. /\ pc' = [pc EXCEPT ![l] = "direct"] /\ loc' = [loc EXCEPT ![l] = d]
      /\ todo' = [todo EXCEPT ![l] = Items(l)]
      /\ UNCHANGED <<running, failed, count, config>>
    BY <1>1 DEF sealed_descendant_direct, CallsInv, Mapped
<1>6. ctx' = [ctx EXCEPT ![l] = ctx[o], ![o] = h]
    <2>1. ctx' = [ctx EXCEPT ![l] = Up(l), ![o].nested = @ \/ Up(l).collects]
        BY Zenon DEF sealed_descendant_direct
    <2> QED BY <1>1, <1>2, <2>1 DEF CallsInv, Mapped
<1> HIDE DEF h
<1>7. /\ ctx'[l] = ctx[o] /\ ctx'[o] = h /\ \A m \in Loops \ {l, o} : ctx'[m] = ctx[m]
      /\ pc'[l] = "direct" /\ loc'[l] = d /\ todo'[l] = Items(l)
      /\ \A m \in Loops \ {l} : pc'[m] = pc[m] /\ loc'[m] = loc[m] /\ todo'[m] = todo[m]
    BY <1>1, <1>2, <1>5, <1>6 DEF CallsInv, Mapped
<1>8. Mapped'
    BY <1>1, <1>5, <1>6 DEF CallsInv, Mapped
<1>9. \A c : SameLine(c, c)
    BY DEF SameLine
<1>10. ASSUME NEW m \in Loops, Nested(m), pc[m] # "idle"
       PROVE  Parent[m] \in Loops \ {l} /\ SameLine(ctx[Parent[m]], ctx'[Parent[m]])
    <2>1. Parent[m] \in Loops /\ pc[Parent[m]] \in Executing
        BY <1>1, <1>10, Held
    <2>2. Parent[m] # l
        BY <1>1, <2>1, PlacesApart
    <2> QED BY <1>4, <1>7, <1>9, <2>1, <2>2
<1>11. loc[l] \in Locals /\ loc[l].since = loc[l].began /\ running[l] = {}
       /\ Left(l, pc[l], loc[l], todo[l]) = Items(l)
    BY <1>1, EarlyIs DEF NoLocals
<1>12. Sequential \in Plans /\ ~Sequential.parallel /\ Sequential \in SomePlan
    BY PlanTypes DEF SomePlan
<1>13. d \in Locals /\ d.plan = Sequential /\ d.since = d.began
    BY <1>11, <1>12 DEF Locals
<1> HIDE DEF d
<1>14. CallOK(config.frontier, l, ctx'[o], "direct", ctx[o], d, Items(l), {}, count[l])
    <2>1. "direct" \in Straight /\ "direct" \in Executing /\ "direct" \in Places
          /\ "direct" \notin Early
          /\ "direct" \notin {"idle", "called", "epoch", "find", "revalidate", "build", "pilot", "sampling"}
        BY DEF Straight, Executing, Places, Early
    <2>2. Left(l, "direct", d, Items(l)) = Items(l)
        BY <2>1, LeftIs
    <2>3. Typed(l, "direct", ctx[o], d, Items(l), {}, count[l])
        BY <1>1, <1>3, <1>13, <2>1, CallFacts DEF Typed
    <2>4. Counted(l, "direct", d, Items(l), count[l])
        BY <1>1, <1>11, <2>2, CallFacts DEF CallOK, Counted
    <2>5. Flagged(l, "direct", d, Items(l), {})
        BY <1>12, <1>13, <2>1 DEF Flagged
    <2>6. Lined(config.frontier, l, ctx'[o], "direct", ctx[o], d)
        BY <1>4, <1>7, <1>12, <1>13 DEF Lined, SameLine
    <2> QED BY <2>3, <2>4, <2>5, <2>6 DEF CallOK
<1>15. ASSUME NEW m \in Loops
       PROVE  CallOK(config.frontier, m, ctx'[Parent[m]], pc'[m], ctx'[m], loc'[m],
                     todo'[m], running[m], count[m])
    <2>1. CASE m = l
        BY <1>7, <1>11, <1>14, <2>1
    <2>2. CASE m # l /\ pc[m] = "idle"
        <3>1. m # o
            BY <1>2, <2>2, PlacesApart DEF Early
        <3> QED BY <1>1, <1>7, <2>2, <3>1, IdleAnywhere DEF CallsInv
    <2>3. CASE m # l /\ pc[m] # "idle"
        <3>1. CallOK(config.frontier, m, ctx[Parent[m]], pc[m], ctx[m], loc[m],
                     todo[m], running[m], count[m])
            BY <1>1 DEF CallsInv
        <3>2. ctx'[m] \in Context /\ SameLine(ctx[m], ctx'[m])
            BY <1>1, <1>4, <1>7, <1>9, <2>3, CallFacts
        <3>3. Nested(m) => SameLine(ctx[Parent[m]], ctx'[Parent[m]])
            BY <1>10, <2>3
        <3> QED BY <1>7, <2>3, <3>1, <3>2, <3>3, SameLineOK
    <2> QED BY <2>1, <2>2, <2>3
<1>16. ASSUME NEW m \in Loops PROVE Inside(m)'
    <2>1. CASE Nested(m) /\ pc'[m] # "idle"
        <3>1. pc[m] # "idle"
            BY <1>1, <1>7, <2>1
        <3>2. pc'[Parent[m]] \in Executing /\ At[m] \in running'[Parent[m]]
            BY <1>1, <1>5, <1>7, <1>10, <2>1, <3>1, Held
        <3> QED BY <3>2 DEF Inside
    <2> QED BY <2>1 DEF Inside, Nested
<1>17. \A m \in Loops : pc'[m] # "idle" => pc[m] # "idle"
    BY <1>1, <1>7
<1>18. /\ \A m, k \in Loops :
           /\ Nested(m) /\ Nested(k) /\ Parent[m] = Parent[k] /\ At[m] = At[k]
           /\ pc'[m] # "idle" /\ pc'[k] # "idle"
           => m = k
       /\ config' = config /\ running' = running /\ count' = count
    BY <1>1, <1>5, <1>17 DEF CallsInv
<1>19. CallsInv'
    BY <1>8, <1>15, <1>16, <1>18 DEF CallsInv, Nested
<1>20. ASSUME NEW m \in Loops, pc[m] # "idle"
       PROVE  pc'[m] # "idle" /\ Key(m)' = Key(m)
    <2>1. Nested(m) => SameLine(ctx[Parent[m]], ctx'[Parent[m]])
        BY <1>10, <1>20
    <2>2. ~Nested(m) => ctx'[m].grant = ctx[m].grant
        BY <1>1, <1>4, <1>7 DEF SameLine
    <2> QED BY <1>7, <1>20, <2>1, <2>2, SameKey
<1> QED BY <1>19, <1>20

\* An index is started: it is not left any more.
LEMMA StartsCall ==
    ASSUME CallsInv, NEW l \in Loops, NEW i \in todo[l], pc[l] \in Executing,
           NEW r \in SUBSET Items(l), r \subseteq running[l] \cup {i}
    PROVE  CallOK(config.frontier, l, ctx[Parent[l]], pc[l], ctx[l], loc[l],
                  todo[l] \ {i}, r, [count[l] EXCEPT ![i] = @ + 1])
<1> DEFINE p == pc[l]
           d == loc[l]
           w == todo[l]
           v == todo[l] \ {i}
           n == [count[l] EXCEPT ![i] = @ + 1]
<1>1. /\ Typed(l, p, ctx[l], d, w, running[l], count[l]) /\ Counted(l, p, d, w, count[l])
      /\ Flagged(l, p, d, w, running[l])
      /\ Lined(config.frontier, l, ctx[Parent[l]], p, ctx[l], d)
    BY CallFacts DEF CallOK
<1>2. w \subseteq Items(l) /\ i \in Items(l) /\ count[l] \in [Items(l) -> Nat]
    BY CallFacts
<1>3. Left(l, p, d, v) = Left(l, p, d, w) \ {i} /\ i \in Left(l, p, d, w)
    <2>1. CASE p \in Straight
        <3>1. Left(l, p, d, v) = v /\ Left(l, p, d, w) = w
            BY <2>1, LeftIs
        <3> QED BY <3>1
    <2>2. CASE p = "pilot"
        <3>1. w \subseteq {0}
            BY <1>1, <2>2 DEF Flagged
        <3>2. Left(l, p, d, v) = v \cup (Items(l) \ {0}) /\ Left(l, p, d, w) = w \cup (Items(l) \ {0})
            BY <2>2, LeftIs
        <3> QED BY <3>1, <3>2
    <2>3. CASE p = "sampling"
        <3>1. w \subseteq d.sampled
            BY <1>1, <2>3 DEF Flagged
        <3>2. Left(l, p, d, v) = v \cup (Items(l) \ d.sampled)
              /\ Left(l, p, d, w) = w \cup (Items(l) \ d.sampled)
            BY <2>3, LeftIs
        <3> QED BY <3>1, <3>2
    <2> QED BY <2>1, <2>2, <2>3, PlacesApart
<1>4. n \in [Items(l) -> Nat] /\ \A j \in Items(l) : n[j] = IF j = i THEN count[l][j] + 1 ELSE count[l][j]
    BY <1>2
<1>5. Counted(l, p, d, v, n)
    <2> SUFFICES ASSUME NEW j \in Items(l)
                 PROVE  n[j] = IF j \in Left(l, p, d, v) THEN 0 ELSE 1
        BY DEF Counted
    <2>1. count[l][j] = IF j \in Left(l, p, d, w) THEN 0 ELSE 1
        BY <1>1 DEF Counted
    <2> HIDE DEF n, v
    <2>2. CASE j = i
        BY <1>3, <1>4, <2>1, <2>2
    <2>3. CASE j # i
        BY <1>3, <1>4, <2>1, <2>3
    <2> QED BY <2>2, <2>3
<1>6. Typed(l, p, ctx[l], d, v, r, n)
    BY <1>1, <1>2, <1>4 DEF Typed
<1>7. Flagged(l, p, d, v, r)
    BY <1>1 DEF Flagged
<1> QED BY <1>1, <1>5, <1>6, <1>7 DEF CallOK

LEMMA StartsIs ==
    ASSUME CallsInv, NEW l \in Loops, NEW i \in Items(l), Starts(l, i)
    PROVE  /\ i \in todo[l] /\ pc[l] \in Executing /\ i \notin running[l]
           /\ todo'[l] = todo[l] \ {i} /\ count'[l] = [count[l] EXCEPT ![i] = @ + 1]
           /\ \A m \in Loops \ {l} : todo'[m] = todo[m] /\ count'[m] = count[m]
           /\ todo' = [m \in Loops |-> todo'[m]] /\ count' = [m \in Loops |-> count'[m]]
           /\ UNCHANGED <<config, ctx, loc>>
<1>1. i \in todo[l] /\ pc[l] \in Executing
    BY DEF Starts, Startable
<1>2. i \notin running[l]
    BY <1>1, CallFacts DEF CallOK, Flagged
<1>3. /\ todo'[l] = todo[l] \ {i} /\ count'[l] = [count[l] EXCEPT ![i] = @ + 1]
      /\ \A m \in Loops \ {l} : todo'[m] = todo[m] /\ count'[m] = count[m]
      /\ todo' = [m \in Loops |-> todo'[m]] /\ count' = [m \in Loops |-> count'[m]]
      /\ UNCHANGED <<config, ctx, loc>>
    BY DEF Starts, CallsInv, Mapped
<1> QED BY <1>1, <1>2, <1>3

LEMMA CallsCallback ==
    ASSUME Inv, NEW l \in Loops, Callback(l)
    PROVE  CallsInv' /\ \A m \in Loops : pc'[m] = pc[m] /\ Key(m)' = Key(m)
<1>1. CallsInv
    BY DEF Inv
<1>2. PICK i \in Items(l) : Starts(l, i) /\ UNCHANGED <<pc, running>>
        /\ (failed' = failed \/ failed' = [failed EXCEPT ![l] = TRUE])
    BY DEF Callback
<1>3. /\ i \in todo[l] /\ pc[l] \in Executing
      /\ todo'[l] = todo[l] \ {i} /\ count'[l] = [count[l] EXCEPT ![i] = @ + 1]
      /\ \A m \in Loops \ {l} : todo'[m] = todo[m] /\ count'[m] = count[m]
      /\ todo' = [m \in Loops |-> todo'[m]] /\ count' = [m \in Loops |-> count'[m]]
      /\ UNCHANGED <<config, ctx, loc>>
    BY <1>1, <1>2, StartsIs
<1>4. Mapped'
    BY <1>1, <1>2, <1>3 DEF CallsInv, Mapped
<1>5. running[l] \in SUBSET Items(l) /\ running[l] \subseteq running[l] \cup {i}
    BY <1>1, CallFacts DEF CallOK, Typed
<1>6. ASSUME NEW m \in Loops
      PROVE  CallOK(config.frontier, m, ctx[Parent[m]], pc[m], ctx[m], loc[m],
                    todo'[m], running[m], count'[m])
    <2>1. CASE m = l
        <3>1. CallOK(config.frontier, l, ctx[Parent[l]], pc[l], ctx[l], loc[l],
                     todo[l] \ {i}, running[l], [count[l] EXCEPT ![i] = @ + 1])
            BY <1>1, <1>3, <1>5, StartsCall
        <3> QED BY <1>3, <2>1, <3>1
    <2>2. CASE m # l
        BY <1>1, <1>3, <2>2 DEF CallsInv
    <2> QED BY <2>1, <2>2
<1>7. \A m \in Loops : Inside(m)'
    BY <1>1, <1>2 DEF CallsInv, Inside, Nested
<1>8. CallsInv'
    BY <1>1, <1>2, <1>3, <1>4, <1>6, <1>7 DEF CallsInv, Nested
<1>9. \A m \in Loops : Key(m)' = Key(m)
    BY <1>3 DEF Key, Up
<1> QED BY <1>2, <1>8, <1>9

LEMMA CallsNested ==
    ASSUME Inv, NEW l \in Loops, CallNested(l)
    PROVE  /\ CallsInv' /\ loc' = loc
           /\ \A m \in Loops : Key(m)' = Key(m) /\ (pc[m] # "idle" => pc'[m] # "idle")
<1>1. CallsInv
    BY DEF Inv
<1>2. PICK i \in Items(l) : \E c \in Child(l, i) :
        /\ Starts(l, i) /\ running' = [running EXCEPT ![l] = @ \cup {i}]
        /\ pc' = [pc EXCEPT ![c] = "called"] /\ UNCHANGED failed
    BY DEF CallNested
<1>3. PICK c \in Child(l, i) :
        /\ Starts(l, i) /\ running' = [running EXCEPT ![l] = @ \cup {i}]
        /\ pc' = [pc EXCEPT ![c] = "called"] /\ UNCHANGED failed
    BY <1>2
<1>4. c \in Loops /\ Parent[c] = l /\ At[c] = i /\ Nested(c)
    BY <1>3, LoopAssumption DEF Child, Nested
<1>5. /\ i \in todo[l] /\ pc[l] \in Executing /\ i \notin running[l]
      /\ todo'[l] = todo[l] \ {i} /\ count'[l] = [count[l] EXCEPT ![i] = @ + 1]
      /\ \A m \in Loops \ {l} : todo'[m] = todo[m] /\ count'[m] = count[m]
      /\ todo' = [m \in Loops |-> todo'[m]] /\ count' = [m \in Loops |-> count'[m]]
      /\ UNCHANGED <<config, ctx, loc>>
    BY <1>1, <1>3, StartsIs
<1>6. pc[c] = "idle" /\ c # l
    BY <1>1, <1>4, <1>5, Held, PlacesApart DEF Early
<1>7. /\ pc'[c] = "called" /\ \A m \in Loops \ {c} : pc'[m] = pc[m]
      /\ running'[l] = running[l] \cup {i} /\ \A m \in Loops \ {l} : running'[m] = running[m]
      /\ Mapped'
    BY <1>1, <1>3, <1>4, <1>5 DEF CallsInv, Mapped
<1>8. running[l] \cup {i} \in SUBSET Items(l)
    BY <1>1, CallFacts DEF CallOK, Typed
<1>9. ASSUME NEW m \in Loops
      PROVE  CallOK(config.frontier, m, ctx[Parent[m]], pc'[m], ctx[m], loc[m],
                    todo'[m], running'[m], count'[m])
    <2>1. CASE m = l
        <3>1. CallOK(config.frontier, l, ctx[Parent[l]], pc[l], ctx[l], loc[l],
                     todo[l] \ {i}, running[l] \cup {i}, [count[l] EXCEPT ![i] = @ + 1])
            BY <1>1, <1>5, <1>8, StartsCall
        <3> QED BY <1>5, <1>6, <1>7, <2>1, <3>1
    <2>2. CASE m = c
        <3>1. /\ Typed(c, "idle", ctx[c], loc[c], todo[c], running[c], count[c])
              /\ Counted(c, "idle", loc[c], todo[c], count[c])
              /\ Flagged(c, "idle", loc[c], todo[c], running[c])
            BY <1>1, <1>4, <1>6, CallFacts DEF CallOK
        <3>2. "called" \in Early /\ "idle" \in Early /\ "called" \in Places
              /\ "called" \notin Executing /\ "idle" \notin Executing
            BY DEF Early, Places, Executing
        <3>3. Left(c, "called", loc[c], todo[c]) = Left(c, "idle", loc[c], todo[c])
            BY <3>2, LeftIs
        <3>4. Typed(c, "called", ctx[c], loc[c], todo[c], running[c], count[c])
              /\ Counted(c, "called", loc[c], todo[c], count[c])
            BY <3>1, <3>2, <3>3 DEF Typed, Counted
        <3>5. Flagged(c, "called", loc[c], todo[c], running[c])
            BY <3>1, <3>2 DEF Flagged
        <3>6. Lined(config.frontier, c, ctx[Parent[c]], "called", ctx[c], loc[c])
            BY <3>2 DEF Lined
        <3> QED BY <1>4, <1>5, <1>6, <1>7, <2>2, <3>4, <3>5, <3>6 DEF CallOK
    <2>3. CASE m # l /\ m # c
        BY <1>1, <1>5, <1>7, <2>3 DEF CallsInv
    <2> QED BY <2>1, <2>2, <2>3
<1>10. ASSUME NEW m \in Loops PROVE Inside(m)'
    <2>1. CASE Nested(m) /\ pc'[m] # "idle"
        <3>1. CASE m = c
            BY <1>4, <1>5, <1>6, <1>7, <3>1 DEF Inside, Nested
        <3>2. CASE m # c
            <4>1. pc[m] # "idle" /\ Parent[m] \in Loops /\ pc[Parent[m]] \in Executing
                  /\ At[m] \in running[Parent[m]]
                BY <1>1, <1>7, <2>1, <3>2, Held
            <4>2. Parent[m] # c
                BY <1>6, <4>1, PlacesApart DEF Early
            <4>3. pc'[Parent[m]] \in Executing /\ At[m] \in running'[Parent[m]]
                BY <1>7, <4>1, <4>2
            <4> QED BY <4>3 DEF Inside
        <3> QED BY <3>1, <3>2
    <2> QED BY <2>1 DEF Inside, Nested
<1>11. ASSUME NEW m \in Loops, NEW k \in Loops, Nested(m), Nested(k),
              Parent[m] = Parent[k], At[m] = At[k], pc'[m] # "idle", pc'[k] # "idle"
       PROVE  m = k
    <2>1. ASSUME NEW x \in Loops, Nested(x), Parent[x] = l, At[x] = i, x # c, pc'[x] # "idle"
          PROVE  FALSE
        BY <1>1, <1>5, <1>7, <2>1, Held
    <2>2. CASE m = c
        BY <1>4, <1>11, <2>1, <2>2
    <2>3. CASE k = c
        BY <1>4, <1>11, <2>1, <2>3
    <2>4. CASE m # c /\ k # c
        BY <1>1, <1>7, <1>11, <2>4 DEF CallsInv
    <2> QED BY <2>2, <2>3, <2>4
<1>12. CallsInv'
    BY <1>5, <1>7, <1>9, <1>10, <1>11 DEF CallsInv, Nested
<1>13. \A m \in Loops : Key(m)' = Key(m)
    BY <1>5 DEF Key, Up
<1> QED BY <1>5, <1>7, <1>12, <1>13

\* A call ends.
LEMMA CallsEnd ==
    ASSUME Inv, NEW l \in Loops, NEW ok, Ends(l, ok), running[l] = {}, pc[l] # "idle"
    PROVE  /\ CallsInv' /\ pc'[l] = "idle" /\ loc'[l] = NoLocals
           /\ \A m \in Loops \ {l} : /\ pc'[m] = pc[m] /\ loc'[m] = loc[m]
                                     /\ pc[m] # "idle" => Key(m)' = Key(m)
<1> DEFINE o == Parent[l]
           b == loc[l].path \in {"main", "inherited"}
<1>1. CallsInv
    BY DEF Inv
<1>2. Nested(l) => o \in Loops /\ o # l /\ At[l] \in running[o] /\ pc[o] \in Executing
    BY <1>1, Held
<1>3. ~Nested(l) => o \notin Loops
    BY LoopAssumption DEF Nested
<1>4. o # l
    BY <1>2, <1>3
<1>5. ASSUME NEW m \in Loops, Nested(m), pc[m] # "idle"
      PROVE  Parent[m] \in Loops \ {l} /\ pc[Parent[m]] \in Executing
             /\ At[m] \in running[Parent[m]]
    BY <1>1, <1>5, Held
<1>6. /\ pc'[l] = "idle" /\ loc'[l] = NoLocals /\ todo'[l] = {}
      /\ count'[l] = [i \in Items(l) |-> 0]
      /\ \A m \in Loops \ {l} : /\ pc'[m] = pc[m] /\ loc'[m] = loc[m]
                                /\ todo'[m] = todo[m] /\ count'[m] = count[m]
      /\ pc' = [m \in Loops |-> pc'[m]] /\ loc' = [m \in Loops |-> loc'[m]]
      /\ todo' = [m \in Loops |-> todo'[m]] /\ count' = [m \in Loops |-> count'[m]]
      /\ config' = config
    BY <1>1 DEF Ends, CallsInv, Mapped
<1>7. /\ ctx'[l] = NoContext
      /\ Nested(l) => ctx'[o] = [ctx[o] EXCEPT !.nested = @ \/ b]
      /\ \A m \in Loops \ {l, o} : ctx'[m] = ctx[m]
      /\ ctx' = [m \in Loops |-> ctx'[m]]
    <2>1. ctx' = [c \in Loops |->
                     CASE c = l -> NoContext
                       [] c = o -> [ctx[c] EXCEPT !.nested = @ \/ b]
                       [] OTHER -> ctx[c]]
        BY Zenon DEF Ends
    <2> HIDE DEF b
    <2> QED BY <1>2, <1>4, <2>1
<1>8. /\ running'[l] = {} /\ (Nested(l) => running'[o] = running[o] \ {At[l]})
      /\ \A m \in Loops \ {l, o} : running'[m] = running[m]
      /\ running' = [m \in Loops |-> running'[m]]
    <2>1. running' = [c \in Loops |-> IF c = o THEN running[c] \ {At[l]} ELSE running[c]]
        BY Zenon DEF Ends
    <2> QED BY <1>2, <1>4, <2>1
<1>9. failed' = [m \in Loops |-> failed'[m]]
    <2>1. failed' = [c \in Loops |-> CASE c = l -> FALSE
                                        [] c = o -> failed[c] \/ ~ok
                                        [] OTHER -> failed[c]]
        BY Zenon DEF Ends
    <2> QED BY <2>1
<1>10. Mapped'
    BY <1>6, <1>7, <1>8, <1>9 DEF Mapped
<1>11. \A c : SameLine(c, c)
    BY DEF SameLine
<1>12. Nested(l) => ctx'[o] \in Context /\ SameLine(ctx[o], ctx'[o])
    <2>1. SUFFICES ASSUME Nested(l) PROVE ctx'[o] \in Context /\ SameLine(ctx[o], ctx'[o])
        OBVIOUS
    <2> DEFINE x == ctx[o].nested \/ b
    <2>2. ctx[o] \in Context /\ x \in BOOLEAN
        BY <1>1, <1>2, <2>1, CallFacts
    <2>3. ctx'[o] = [ctx[o] EXCEPT !.nested = x]
        BY <1>7, <2>1
    <2> HIDE DEF x
    <2> QED BY <2>2, <2>3, SeenNested
<1>13. ASSUME NEW m \in Loops \ {l}
       PROVE  ctx'[m] \in Context /\ SameLine(ctx[m], ctx'[m])
    BY <1>1, <1>3, <1>7, <1>11, <1>12, CallFacts
<1>14. CallOK(config.frontier, l, ctx'[Parent[l]], "idle", NoContext, NoLocals, {}, {},
              [i \in Items(l) |-> 0])
    <2>1. NoContext \in Context /\ NoLocals \in Locals
        <3>1. {} \in Samples
            BY FS_EmptySet DEF Samples
        <3> QED BY <3>1 DEF NoContext, Context, Sites, NoLocals, Locals, SomePlan,
                               NoMemo, NoBasis, Memos, Bases
    <2>2. "idle" \in Early /\ "idle" \in Places /\ "idle" \notin Executing
        BY DEF Early, Places, Executing
    <2>3. Left(l, "idle", NoLocals, {}) = Items(l)
        BY <2>2, LeftIs
    <2>4. Typed(l, "idle", NoContext, NoLocals, {}, {}, [i \in Items(l) |-> 0])
          /\ Counted(l, "idle", NoLocals, {}, [i \in Items(l) |-> 0])
        BY <2>1, <2>2, <2>3 DEF Typed, Counted
    <2>5. Flagged(l, "idle", NoLocals, {}, {})
        BY <2>2 DEF Flagged, NoLocals
    <2>6. Lined(config.frontier, l, ctx'[Parent[l]], "idle", NoContext, NoLocals)
        BY <2>2 DEF Lined
    <2> QED BY <2>4, <2>5, <2>6 DEF CallOK
<1>15. ASSUME NEW m \in Loops
       PROVE  CallOK(config.frontier, m, ctx'[Parent[m]], pc'[m], ctx'[m], loc'[m],
                     todo'[m], running'[m], count'[m])
    <2>1. CASE m = l
        BY <1>6, <1>7, <1>8, <1>14, <2>1
    <2>2. CASE m # l
        <3>1. CallOK(config.frontier, m, ctx[Parent[m]], pc[m], ctx[m], loc[m],
                     todo[m], running[m], count[m])
            BY <1>1 DEF CallsInv
        <3>2. CallOK(config.frontier, m, ctx'[Parent[m]], pc[m], ctx'[m], loc[m],
                     todo[m], running[m], count[m])
            <4>1. ctx'[m] \in Context /\ SameLine(ctx[m], ctx'[m])
                BY <1>13, <2>2
            <4>2. CASE pc[m] = "idle"
                <5>1. CallOK(config.frontier, m, ctx'[Parent[m]], pc[m], ctx[m], loc[m],
                             todo[m], running[m], count[m])
                    BY <3>1, <4>2, IdleAnywhere
                <5> QED BY <1>11, <4>1, <5>1, SameLineOK
            <4>3. CASE pc[m] # "idle"
                <5>1. Nested(m) => SameLine(ctx[Parent[m]], ctx'[Parent[m]])
                    BY <1>5, <1>13, <4>3
                <5> QED BY <3>1, <4>1, <5>1, SameLineOK
            <4> QED BY <4>2, <4>3
        <3>3. running'[m] \subseteq running[m]
            BY <1>3, <1>8, <2>2
        <3>4. CallOK(config.frontier, m, ctx'[Parent[m]], pc[m], ctx'[m], loc[m],
                     todo[m], running'[m], count[m])
            BY <3>2, <3>3 DEF CallOK, Typed, Flagged
        <3> QED BY <1>6, <2>2, <3>4
    <2> QED BY <2>1, <2>2
<1>16. ASSUME NEW m \in Loops PROVE Inside(m)'
    <2>1. CASE Nested(m) /\ pc'[m] # "idle"
        <3>1. m # l /\ pc[m] # "idle"
            BY <1>6, <2>1
        <3>2. Parent[m] \in Loops \ {l} /\ pc[Parent[m]] \in Executing
             /\ At[m] \in running[Parent[m]]
            BY <1>5, <2>1, <3>1
        <3>3. At[m] \in running'[Parent[m]]
            <4>1. CASE Parent[m] = o
                <5>1. Nested(l)
                    BY <1>3, <3>2, <4>1
                <5>2. At[m] # At[l]
                    BY <1>1, <2>1, <3>1, <4>1, <5>1 DEF CallsInv
                <5> QED BY <1>8, <3>2, <4>1, <5>1, <5>2
            <4>2. CASE Parent[m] # o
                BY <1>8, <3>2, <4>2
            <4> QED BY <4>1, <4>2
        <3>4. pc'[Parent[m]] \in Executing
            BY <1>6, <3>2
        <3> QED BY <3>3, <3>4 DEF Inside
    <2> QED BY <2>1 DEF Inside, Nested
<1>17. /\ \A m, k \in Loops :
           /\ Nested(m) /\ Nested(k) /\ Parent[m] = Parent[k] /\ At[m] = At[k]
           /\ pc'[m] # "idle" /\ pc'[k] # "idle"
           => m = k
    BY <1>1, <1>6 DEF CallsInv
<1>18. CallsInv'
    BY <1>6, <1>10, <1>15, <1>16, <1>17 DEF CallsInv, Nested
<1>19. ASSUME NEW m \in Loops \ {l}, pc[m] # "idle" PROVE Key(m)' = Key(m)
    <2>1. Nested(m) => SameLine(ctx[Parent[m]], ctx'[Parent[m]])
        BY <1>5, <1>13, <1>19
    <2>2. ~Nested(m) => ctx'[m].grant = ctx[m].grant
        BY <1>13 DEF SameLine
    <2> QED BY <2>1, <2>2, SameKey
<1> QED BY <1>6, <1>18, <1>19

-----------------------------------------------------------------------------
(* Markers and traces.                                                     *)

BuildKeys      == [l \in {x \in Loops : pc[x] # "idle" /\ loc[x].builds} |-> Key(l)]
RevalidateKeys == [l \in {x \in Loops : pc[x] # "idle" /\ loc[x].revalidates} |-> Key(l)]

\* One holder per marker, one marker per holder.
Owned(K, marks) ==
    /\ \A l \in DOMAIN K : K[l] \in marks
    /\ \A l, m \in DOMAIN K : K[l] = K[m] => l = m
    /\ \A k \in marks : \E l \in DOMAIN K : K[l] = k

MarkersInv ==
    /\ Owned(BuildKeys, cache.builds) /\ Owned(RevalidateKeys, cache.revalidations)
    /\ \A l \in traces : l \in Loops /\ pc[l] # "idle"

AllInv == Inv /\ MarkersInv

LEMMA Marked ==
    ASSUME NEW K, NEW marks, Owned(K, marks), NEW l, l \notin DOMAIN K, NEW k, k \notin marks,
           NEW L, DOMAIN L = DOMAIN K \cup {l}, L[l] = k,
           \A m \in DOMAIN K : L[m] = K[m]
    PROVE  Owned(L, marks \cup {k})
<1>1. \A m \in DOMAIN L : L[m] \in marks \cup {k}
    BY DEF Owned
<1>2. \A m, n \in DOMAIN L : L[m] = L[n] => m = n
    BY DEF Owned
<1>3. \A j \in marks \cup {k} : \E m \in DOMAIN L : L[m] = j
    BY DEF Owned
<1> QED BY <1>1, <1>2, <1>3 DEF Owned

LEMMA Unmarked ==
    ASSUME NEW K, NEW marks, Owned(K, marks), NEW l \in DOMAIN K,
           NEW L, DOMAIN L = DOMAIN K \ {l},
           \A m \in DOMAIN L : L[m] = K[m]
    PROVE  Owned(L, marks \ {K[l]})
<1>1. \A m \in DOMAIN L : L[m] \in marks \ {K[l]}
    BY DEF Owned
<1>2. \A m, n \in DOMAIN L : L[m] = L[n] => m = n
    BY DEF Owned
<1>3. \A j \in marks \ {K[l]} : \E m \in DOMAIN L : L[m] = j
    BY DEF Owned
<1> QED BY <1>1, <1>2, <1>3 DEF Owned

\* An idle call holds nothing.
LEMMA IdleHoldsNothing ==
    ASSUME CallsInv, NEW l \in Loops
    PROVE  /\ loc[l].builds \in BOOLEAN /\ loc[l].revalidates \in BOOLEAN
           /\ loc[l].builds \/ loc[l].revalidates => pc[l] # "idle"
<1>1. loc[l] \in Locals /\ (pc[l] = "idle" => loc[l] = NoLocals)
    BY CallFacts DEF CallOK, Flagged
<1>2. ~NoLocals.builds /\ ~NoLocals.revalidates
    BY DEF NoLocals
<1> QED BY <1>1, <1>2 DEF Locals

LEMMA HoldersKept ==
    ASSUME CallsInv, CallsInv',
           \A m \in Loops : /\ loc'[m].builds = loc[m].builds
                            /\ loc'[m].revalidates = loc[m].revalidates
                            /\ pc[m] # "idle" => Key(m)' = Key(m)
    PROVE  BuildKeys' = BuildKeys /\ RevalidateKeys' = RevalidateKeys
<1>1. ASSUME NEW m \in Loops
      PROVE  /\ loc[m].builds \/ loc[m].revalidates => pc[m] # "idle"
             /\ loc'[m].builds \/ loc'[m].revalidates => pc'[m] # "idle"
    <2>1. loc[m].builds \/ loc[m].revalidates => pc[m] # "idle"
        BY IdleHoldsNothing
    <2>2. pc'[m] = "idle" => loc'[m] = NoLocals
        BY DEF CallsInv, CallOK, Flagged
    <2>3. ~NoLocals.builds /\ ~NoLocals.revalidates
        BY DEF NoLocals
    <2> QED BY <2>1, <2>2, <2>3
<1>2. {x \in Loops : pc'[x] # "idle" /\ loc'[x].builds}
        = {x \in Loops : pc[x] # "idle" /\ loc[x].builds}
    BY <1>1
<1>3. {x \in Loops : pc'[x] # "idle" /\ loc'[x].revalidates}
        = {x \in Loops : pc[x] # "idle" /\ loc[x].revalidates}
    BY <1>1
<1>4. BuildKeys' = BuildKeys
    BY <1>2 DEF BuildKeys
<1>5. RevalidateKeys' = RevalidateKeys
    BY <1>3 DEF RevalidateKeys
<1> QED BY <1>4, <1>5

LEMMA MarkersKept ==
    ASSUME AllInv, CallsInv', SameMarkers(cache, cache'),
           \A m \in Loops : /\ loc'[m].builds = loc[m].builds
                            /\ loc'[m].revalidates = loc[m].revalidates
                            /\ pc[m] # "idle" => Key(m)' = Key(m) /\ pc'[m] # "idle",
           \A m \in traces' : m \in traces \/ (m \in Loops /\ pc'[m] # "idle")
    PROVE  MarkersInv'
<1>1. BuildKeys' = BuildKeys /\ RevalidateKeys' = RevalidateKeys
    BY HoldersKept DEF AllInv, Inv
<1>2. Owned(BuildKeys, cache'.builds) /\ Owned(RevalidateKeys, cache'.revalidations)
    BY DEF AllInv, MarkersInv, SameMarkers
<1>3. \A m \in traces' : m \in Loops /\ pc'[m] # "idle"
    BY DEF AllInv, MarkersInv
<1> QED BY <1>1, <1>2, <1>3 DEF MarkersInv

LEMMA OwnKept ==
    ASSUME AllInv, NEW l \in Loops, Own(l), GlobalInv', SameMarkers(cache, cache'),
           loc'[l].builds = loc[l].builds, loc'[l].revalidates = loc[l].revalidates,
           \A m \in traces' : m \in traces \/ m = l
    PROVE  AllInv'
<1>1. CallsInv' /\ Keeps(l)
    BY OwnDone DEF AllInv, Inv
<1>2. \A m \in Loops : /\ loc'[m].builds = loc[m].builds
                       /\ loc'[m].revalidates = loc[m].revalidates
                       /\ pc[m] # "idle" => Key(m)' = Key(m) /\ pc'[m] # "idle"
    BY <1>1 DEF Own, Moves, Keeps
<1>3. \A m \in traces' : m \in traces \/ (m \in Loops /\ pc'[m] # "idle")
    BY DEF Own
<1>4. MarkersInv'
    BY <1>1, <1>2, <1>3, MarkersKept
<1> QED BY <1>1, <1>4 DEF AllInv, Inv

LEMMA GlobalSame ==
    ASSUME GlobalInv, CacheOK(cache'), UNCHANGED <<config, calibration, snapshots, calls>>
    PROVE  GlobalInv'
BY DEF GlobalInv, SnapshotsOK

LEMMA MarkersSame == \A c : SameMarkers(c, c)
BY DEF SameMarkers

-----------------------------------------------------------------------------
(* Every step keeps the invariant.                                         *)

\* What holds of the locals of any call.
LEMMA Typing ==
    ASSUME AllInv, NEW l \in Loops
    PROVE  /\ CallsInv /\ GlobalInv /\ loc[l] \in Locals /\ ctx[l] \in Context
           /\ loc = [m \in Loops |-> loc[m]]
           /\ CacheOK(cache) /\ CalibrationOK(calibration)
           /\ config \in Configs
BY CallFacts DEF AllInv, Inv, GlobalInv, CallsInv, Mapped

\* The locals change, the flags do not.
SameFlags(l) ==
    loc'[l].builds = loc[l].builds /\ loc'[l].revalidates = loc[l].revalidates

\* A step that does not touch what is shared but for the cache.
LEMMA Steps ==
    ASSUME AllInv, NEW l \in Loops, Own(l), SameFlags(l),
           CacheOK(cache'), SameMarkers(cache, cache'),
           UNCHANGED <<config, calibration, snapshots, calls>>,
           traces' = traces \/ begin_trace(l)
    PROVE  AllInv'
<1>1. GlobalInv'
    BY GlobalSame DEF AllInv, Inv
<1>2. \A m \in traces' : m \in traces \/ m = l
    BY DEF begin_trace
<1> QED BY <1>1, <1>2, OwnKept DEF SameFlags

LEMMA KeepCallRoot ==
    ASSUME AllInv, NEW l \in Loops, CallRoot(l)
    PROVE  AllInv'
<1>1. Own(l)
    BY OwnCallRoot DEF AllInv
<1>2. UNCHANGED <<config, cache, calibration, snapshots, traces, loc>> /\ calls' = calls + 1
    BY DEF CallRoot
<1>3. GlobalInv'
    BY <1>2 DEF AllInv, Inv, GlobalInv, SnapshotsOK
<1>4. SameMarkers(cache, cache')
    BY <1>2, MarkersSame
<1> QED BY <1>1, <1>2, <1>3, <1>4, OwnKept

LEMMA KeepExactPlan ==
    ASSUME AllInv, NEW l \in Loops, exact_plan(l)
    PROVE  AllInv'
<1>1. Own(l)
    BY OwnExactPlan DEF AllInv
<1>2. PICK p : loc' = [loc EXCEPT ![l].path = "exact", ![l].plan = p]
    BY DEF exact_plan
<1>3. SameFlags(l)
    BY <1>2, Typing DEF SameFlags, Locals
<1>4. UNCHANGED <<config, cache, calibration, snapshots, traces, calls>>
    BY DEF exact_plan
<1> QED BY <1>1, <1>3, <1>4, Typing, MarkersSame, Steps

LEMMA KeepInheritedFrontier ==
    ASSUME AllInv, NEW l \in Loops, inherited_parallel_frontier(l)
    PROVE  AllInv'
<1>1. Own(l)
    BY OwnInheritedFrontier DEF AllInv
<1>2. SameFlags(l)
    BY Typing DEF SameFlags, Locals, inherited_parallel_frontier
<1>3. UNCHANGED <<config, cache, calibration, snapshots, calls>>
      /\ \A m \in traces' : m \in traces \/ m = l
    BY DEF inherited_parallel_frontier
<1>4. GlobalInv' /\ SameMarkers(cache, cache')
    BY <1>3, Typing, MarkersSame, GlobalSame
<1> QED BY <1>1, <1>2, <1>3, <1>4, OwnKept DEF SameFlags

LEMMA KeepDecides ==
    ASSUME AllInv, NEW l \in Loops, Decides(l)
    PROVE  AllInv'
<1>1. Own(l)
    BY OwnDecides DEF AllInv
<1>2. \E p : loc' = [loc EXCEPT ![l].path = "main", ![l].memo = p]
    BY Zenon DEF Decides
<1>3. SameFlags(l)
    BY <1>2, Typing DEF SameFlags, Locals
<1>4. UNCHANGED <<config, cache, calibration, calls, traces>>
      /\ (snapshots' = snapshots \/ snapshots' = [snapshots EXCEPT ![l] = <<>>])
    BY DEF Decides
<1>5. snapshots' = [m \in Loops |-> snapshots'[m]] /\ SnapshotsOK'
    <2>1. snapshots = [m \in Loops |-> snapshots[m]] /\ SnapshotsOK
        BY Typing DEF GlobalInv
    <2>2. CASE snapshots' = snapshots
        BY <2>1, <2>2 DEF SnapshotsOK
    <2>3. CASE snapshots' = [snapshots EXCEPT ![l] = <<>>]
        BY <2>1, <2>3 DEF SnapshotsOK
    <2> QED BY <1>4, <2>2, <2>3
<1>6. GlobalInv'
    BY <1>4, <1>5, Typing DEF GlobalInv
<1> QED BY <1>1, <1>3, <1>4, <1>6, MarkersSame, OwnKept DEF SameFlags

LEMMA KeepReadEpoch ==
    ASSUME AllInv, NEW l \in Loops, ReadEpoch(l)
    PROVE  AllInv'
<1>1. Own(l)
    BY OwnReadEpoch DEF AllInv
<1>2. SameFlags(l)
    BY Typing DEF SameFlags, Locals, ReadEpoch
<1>3. UNCHANGED <<config, cache, calibration, snapshots, traces, calls>>
    BY DEF ReadEpoch, Elsewhere
<1> QED BY <1>1, <1>2, <1>3, Typing, MarkersSame, Steps

LEMMA KeepFindProfile ==
    ASSUME AllInv, NEW l \in Loops, FindProfile(l)
    PROVE  AllInv'
<1>1. Own(l)
    BY OwnFindProfile DEF AllInv
<1>2. \E e, g, x : loc' = [loc EXCEPT ![l].entry = e, ![l].generation = g, ![l].cost = x]
    <2>1. PICK aged \in BOOLEAN :
           LET due == Found(cache, Key(l)) # NoEntry /\ RevalidationDue(Found(cache, Key(l)), aged)
               hit == Found(cache, Key(l)) # NoEntry /\ ~due
           IN  loc' = [loc EXCEPT ![l].entry = Found(cache, Key(l)),
                                  ![l].generation = Found(cache, Key(l)).generation,
                                  ![l].cost = IF hit THEN Found(cache, Key(l)).cost ELSE "none"]
        BY Zenon DEF FindProfile
    <2> QED BY <2>1, Zenon
<1>3. SameFlags(l)
    BY <1>2, Typing DEF SameFlags, Locals
<1>4. UNCHANGED <<config, calibration, snapshots, traces, calls>> /\ cache' = find(cache, Key(l))
    BY DEF FindProfile, Elsewhere
<1>5. CacheOK(cache') /\ SameMarkers(cache, cache')
    BY <1>4, Typing, FindOK
<1> QED BY <1>1, <1>3, <1>4, <1>5, Steps

LEMMA KeepRevalidate ==
    ASSUME AllInv, NEW l \in Loops, Revalidate(l)
    PROVE  AllInv'
<1> DEFINE owns == MayRevalidate(cache, Key(l))
<1>1. Own(l) /\ CallsInv
    BY OwnRevalidate DEF AllInv, Inv
<1>2. CallsInv' /\ Keeps(l)
    BY <1>1, OwnDone
<1>3. cache' = try_acquire_revalidation(cache, Key(l))
      /\ UNCHANGED <<config, calibration, snapshots, traces, calls>>
    BY DEF Revalidate, Elsewhere
<1>4. CacheOK(cache') /\ cache'.builds = cache.builds
      /\ cache'.revalidations = cache.revalidations \cup (IF owns THEN {Key(l)} ELSE {})
    BY <1>3, Typing, MarkersOK
<1>5. GlobalInv'
    BY <1>3, <1>4, Typing, GlobalSame
<1>6. pc[l] = "revalidate" /\ ~loc[l].revalidates
    BY <1>1, CallFacts DEF Revalidate, CallOK, Flagged
<1>7. loc'[l].builds = loc[l].builds /\ loc'[l].revalidates = owns
    <2>1. \E x : loc' = [loc EXCEPT ![l].revalidates = owns, ![l].cost = x]
        BY Zenon DEF Revalidate
    <2> HIDE DEF owns
    <2> QED BY <2>1, Typing DEF Locals
<1>8. \A m \in Loops : /\ m # l => loc'[m] = loc[m]
                       /\ pc[m] # "idle" => Key(m)' = Key(m) /\ pc'[m] # "idle"
    BY <1>1, <1>2 DEF Own, Moves, Keeps
<1>9. CASE ~owns
    <2>1. SameMarkers(cache, cache')
        BY <1>4, <1>9 DEF SameMarkers
    <2>2. loc'[l].revalidates = loc[l].revalidates
        <3>1. loc[l].revalidates \in BOOLEAN
            BY Typing DEF Locals
        <3>2. owns = FALSE
            BY <1>9 DEF MayRevalidate
        <3> HIDE DEF owns
        <3> QED BY <1>6, <1>7, <3>1, <3>2
    <2>3. \A m \in traces' : m \in traces \/ m = l
        BY <1>3
    <2> QED BY <1>1, <1>5, <1>7, <2>1, <2>2, <2>3, OwnKept
<1>10. CASE owns
    <2> DEFINE K == RevalidateKeys
               L == RevalidateKeys'
    <2>1. Owned(K, cache.revalidations) /\ Owned(BuildKeys, cache.builds)
          /\ \A m \in traces : m \in Loops /\ pc[m] # "idle"
        BY DEF AllInv, MarkersInv
    <2>2. Key(l) \notin cache.revalidations
        BY <1>10 DEF MayRevalidate
    <2>3. DOMAIN K = {x \in Loops : pc[x] # "idle" /\ loc[x].revalidates}
          /\ DOMAIN L = {x \in Loops : pc'[x] # "idle" /\ loc'[x].revalidates}
          /\ (\A m \in DOMAIN K : K[m] = Key(m)) /\ (\A m \in DOMAIN L : L[m] = Key(m)')
        BY DEF RevalidateKeys
    <2> HIDE DEF K, L
    <2>4. \A m \in Loops \ {l} : (pc'[m] # "idle" /\ loc'[m].revalidates)
                                   <=> (pc[m] # "idle" /\ loc[m].revalidates)
        BY <1>1, <1>8 DEF Own, Moves
    <2>5. pc'[l] # "idle" /\ loc'[l].revalidates
        BY <1>1, <1>7, <1>10 DEF Own
    <2>6. DOMAIN L = DOMAIN K \cup {l} /\ l \notin DOMAIN K
        BY <1>6, <2>3, <2>4, <2>5
    <2>7. L[l] = Key(l) /\ \A m \in DOMAIN K : L[m] = K[m]
        BY <1>6, <1>8, <2>3, <2>6
    <2>8. Owned(L, cache.revalidations \cup {Key(l)})
        BY <2>1, <2>2, <2>6, <2>7, Marked
    <2>9. BuildKeys' = BuildKeys
        <3>1. \A m \in Loops : loc'[m].builds = loc[m].builds
            BY <1>7, <1>8
        <3>2. {x \in Loops : pc'[x] # "idle" /\ loc'[x].builds}
                = {x \in Loops : pc[x] # "idle" /\ loc[x].builds}
            BY <1>1, <1>6, <3>1 DEF Own, Moves
        <3>3. \A m \in {x \in Loops : pc[x] # "idle" /\ loc[x].builds} : Key(m)' = Key(m)
            BY <1>8
        <3> QED BY <3>2, <3>3 DEF BuildKeys
    <2>10. cache'.revalidations = cache.revalidations \cup {Key(l)}
        BY <1>4, <1>10
    <2>11. MarkersInv'
        BY <1>3, <1>4, <1>8, <2>1, <2>8, <2>9, <2>10 DEF MarkersInv, L
    <2> QED BY <1>2, <1>5, <2>11 DEF AllInv, Inv
<1> QED BY <1>9, <1>10

LEMMA KeepBuildProfile ==
    ASSUME AllInv, NEW l \in Loops, BuildProfile(l)
    PROVE  AllInv'
<1> DEFINE owns == MayBuild(cache, Key(l))
<1>1. Own(l) /\ CallsInv
    BY OwnBuildProfile DEF AllInv, Inv
<1>2. CallsInv' /\ Keeps(l)
    BY <1>1, OwnDone
<1>3. cache' = try_acquire_profile_build(cache, Key(l))
      /\ UNCHANGED <<config, calibration, snapshots, traces, calls>>
    BY DEF BuildProfile, Elsewhere
<1>4. CacheOK(cache') /\ cache'.revalidations = cache.revalidations
      /\ cache'.builds = cache.builds \cup (IF owns THEN {Key(l)} ELSE {})
    BY <1>3, Typing, MarkersOK
<1>5. GlobalInv'
    BY <1>3, <1>4, Typing, GlobalSame
<1>6. pc[l] = "build" /\ ~loc[l].builds
    BY <1>1, CallFacts DEF BuildProfile, CallOK, Flagged
<1>7. loc'[l].revalidates = loc[l].revalidates /\ loc'[l].builds = owns
    <2>1. \E x : loc' = [loc EXCEPT ![l].builds = owns, ![l].stores = x]
        BY Zenon DEF BuildProfile
    <2> HIDE DEF owns
    <2> QED BY <2>1, Typing DEF Locals
<1>8. \A m \in Loops : /\ m # l => loc'[m] = loc[m]
                       /\ pc[m] # "idle" => Key(m)' = Key(m) /\ pc'[m] # "idle"
    BY <1>1, <1>2 DEF Own, Moves, Keeps
<1>9. CASE ~owns
    <2>1. SameMarkers(cache, cache')
        BY <1>4, <1>9 DEF SameMarkers
    <2>2. loc'[l].builds = loc[l].builds
        <3>1. loc[l].builds \in BOOLEAN
            BY Typing DEF Locals
        <3>2. owns = FALSE
            BY <1>9 DEF MayBuild
        <3> HIDE DEF owns
        <3> QED BY <1>6, <1>7, <3>1, <3>2
    <2>3. \A m \in traces' : m \in traces \/ m = l
        BY <1>3
    <2> QED BY <1>1, <1>5, <1>7, <2>1, <2>2, <2>3, OwnKept
<1>10. CASE owns
    <2> DEFINE K == BuildKeys
               L == BuildKeys'
    <2>1. Owned(K, cache.builds) /\ Owned(RevalidateKeys, cache.revalidations)
          /\ \A m \in traces : m \in Loops /\ pc[m] # "idle"
        BY DEF AllInv, MarkersInv
    <2>2. Key(l) \notin cache.builds
        BY <1>10 DEF MayBuild
    <2>3. DOMAIN K = {x \in Loops : pc[x] # "idle" /\ loc[x].builds}
          /\ DOMAIN L = {x \in Loops : pc'[x] # "idle" /\ loc'[x].builds}
          /\ (\A m \in DOMAIN K : K[m] = Key(m)) /\ (\A m \in DOMAIN L : L[m] = Key(m)')
        BY DEF BuildKeys
    <2> HIDE DEF K, L
    <2>4. \A m \in Loops \ {l} : (pc'[m] # "idle" /\ loc'[m].builds)
                                   <=> (pc[m] # "idle" /\ loc[m].builds)
        BY <1>1, <1>8 DEF Own, Moves
    <2>5. pc'[l] # "idle" /\ loc'[l].builds
        BY <1>1, <1>7, <1>10 DEF Own
    <2>6. DOMAIN L = DOMAIN K \cup {l} /\ l \notin DOMAIN K
        BY <1>6, <2>3, <2>4, <2>5
    <2>7. L[l] = Key(l) /\ \A m \in DOMAIN K : L[m] = K[m]
        BY <1>6, <1>8, <2>3, <2>6
    <2>8. Owned(L, cache.builds \cup {Key(l)})
        BY <2>1, <2>2, <2>6, <2>7, Marked
    <2>9. RevalidateKeys' = RevalidateKeys
        <3>1. \A m \in Loops : loc'[m].revalidates = loc[m].revalidates
            BY <1>7, <1>8
        <3>2. {x \in Loops : pc'[x] # "idle" /\ loc'[x].revalidates}
                = {x \in Loops : pc[x] # "idle" /\ loc[x].revalidates}
            BY <1>1, <1>6, <3>1 DEF Own, Moves
        <3>3. \A m \in {x \in Loops : pc[x] # "idle" /\ loc[x].revalidates} : Key(m)' = Key(m)
            BY <1>8
        <3> QED BY <3>2, <3>3 DEF RevalidateKeys
    <2>10. cache'.builds = cache.builds \cup {Key(l)}
        BY <1>4, <1>10
    <2>11. MarkersInv'
        BY <1>3, <1>4, <1>8, <2>1, <2>8, <2>9, <2>10 DEF MarkersInv, L
    <2> QED BY <1>2, <1>5, <2>11 DEF AllInv, Inv
<1> QED BY <1>9, <1>10

\* Steps that only choose a plan and begin to execute it.
LEMMA PlanFlags ==
    ASSUME AllInv, NEW l \in Loops, NEW p, loc' = [loc EXCEPT ![l].plan = p]
    PROVE  SameFlags(l)
BY Typing DEF SameFlags, Locals

LEMMA KeepCold ==
    ASSUME AllInv, NEW l \in Loops,
           AnalyticalCold(l) \/ PilotCold(l) \/ DirectCold(l) \/ AfterPilot(l)
    PROVE  AllInv'
<1>1. Own(l)
    BY OwnAnalyticalCold, OwnPilotCold, OwnDirectCold, OwnAfterPilot DEF AllInv
<1>2. \E p : loc' = [loc EXCEPT ![l].plan = p]
    <2>1. CASE AnalyticalCold(l)
        BY <2>1, Zenon DEF AnalyticalCold
    <2>2. CASE PilotCold(l)
        BY <2>2, Zenon DEF PilotCold
    <2>3. CASE DirectCold(l)
        BY <2>3, Zenon DEF DirectCold
    <2>4. CASE AfterPilot(l)
        BY <2>4, Zenon DEF AfterPilot
    <2> QED BY <2>1, <2>2, <2>3, <2>4
<1>3. UNCHANGED <<config, cache, calibration, snapshots, calls>>
      /\ (traces' = traces \/ begin_trace(l))
    BY DEF AnalyticalCold, PilotCold, DirectCold, AfterPilot, Elsewhere
<1> QED BY <1>1, <1>2, <1>3, PlanFlags, Typing, MarkersSame, Steps

LEMMA KeepFastPath ==
    ASSUME AllInv, NEW l \in Loops, FastPath(l)
    PROVE  AllInv'
<1>1. Own(l)
    BY OwnFastPath DEF AllInv
<1>2. \E p : loc' = [loc EXCEPT ![l].plan = p]
    BY Zenon DEF FastPath
<1>3. UNCHANGED <<config, calibration, snapshots, calls>> /\ begin_trace(l)
      /\ cache' = note_sequential_fast_path_use(cache, Key(l))
    BY DEF FastPath, Elsewhere
<1>4. CacheOK(cache') /\ SameMarkers(cache, cache')
    BY <1>3, Typing, NoteFastOK
<1> QED BY <1>1, <1>2, <1>3, <1>4, PlanFlags, Steps

LEMMA KeepSample ==
    ASSUME AllInv, NEW l \in Loops, Sample(l)
    PROVE  AllInv'
<1>1. Own(l)
    BY OwnSample DEF AllInv
<1>2. \E p, s : loc' = [loc EXCEPT ![l].plan = p, ![l].sampled = s]
    BY Zenon DEF Sample
<1>3. SameFlags(l)
    BY <1>2, Typing DEF SameFlags, Locals
<1>4. UNCHANGED <<config, cache, calibration, snapshots, traces, calls>>
    BY DEF Sample, Elsewhere
<1> QED BY <1>1, <1>3, <1>4, Typing, MarkersSame, Steps

\* What a call stores was observed in the epoch it read.
LEMMA KeepStores ==
    ASSUME AllInv, NEW l \in Loops, Own(l), NEW c \in Costs, NEW r \in BOOLEAN, NEW q,
           Stores(l, c, r, q)
    PROVE  AllInv'
<1> DEFINE p == Observation(l, c, r)
           e == loc[l].since
<1>1. CallsInv /\ loc[l] \in Locals /\ ctx[l] \in Context /\ CacheOK(cache)
      /\ (loc[l].path = "inherited" \/ loc[l].since = loc[l].began)
    BY Typing, CallFacts DEF CallOK, Flagged
<1>2. /\ p.cost = c /\ p.reliable = r /\ p.nested = ctx[l].nested /\ p.group = ctx[l].root
      /\ p.since = loc[l].began /\ p.lax = (loc[l].path = "inherited")
    BY DEF Observation
<1>3. ctx[l].nested \in BOOLEAN /\ ctx[l].root \in Nat /\ loc[l].began \in Nat
    BY <1>1 DEF Context, Locals
<1>4. ObservationOK(p, e)
    BY <1>1, <1>2, <1>3 DEF ObservationOK
<1>5. cache' = store(cache, Key(l), p, e)
      /\ UNCHANGED <<config, calibration, snapshots, traces, calls>>
    BY DEF Stores, Elsewhere
<1> HIDE DEF p, e
<1>6. CacheOK(cache') /\ SameMarkers(cache, cache')
    BY <1>1, <1>4, <1>5, StoreOK
<1>7. PICK d \in Locals : /\ d.builds = loc[l].builds /\ d.revalidates = loc[l].revalidates
                          /\ loc' = [loc EXCEPT ![l] = d]
    BY StoresStep DEF AllInv
<1>8. SameFlags(l)
    BY <1>7, Typing DEF SameFlags
<1> QED BY <1>5, <1>6, <1>8, Steps

\* A step that leaves locals and everything shared alone.
LEMMA KeepPlain ==
    ASSUME AllInv, NEW l \in Loops, Own(l),
           UNCHANGED <<config, cache, calibration, snapshots, traces, calls, loc>>
    PROVE  AllInv'
<1>1. SameFlags(l)
    BY DEF SameFlags
<1> QED BY <1>1, Typing, MarkersSame, Steps

LEMMA KeepLearn ==
    ASSUME AllInv, NEW l \in Loops,
           LearnCold(l) \/ LearnDescendant(l) \/ LearnSample(l)
    PROVE  AllInv'
<1>1. Own(l)
    BY OwnLearnCold, OwnLearnDescendant, OwnLearnSample DEF AllInv
<1>2. \/ \E c \in config.costs, r \in BOOLEAN, q \in {"done", "decide"} : Stores(l, c, r, q)
      \/ UNCHANGED <<config, cache, calibration, snapshots, traces, calls, loc>>
    <2>0. config.signals \subseteq BOOLEAN
        BY Typing, Constants
    <2>1. CASE LearnCold(l) /\ loc[l].stores
        <3>1. PICK c \in config.costs, r \in config.signals :
                Stores(l, c, r /\ ~loc[l].plan.parallel, "done")
            BY <2>1 DEF LearnCold
        <3> DEFINE b == r /\ ~loc[l].plan.parallel
        <3>2. b \in BOOLEAN /\ Stores(l, c, b, "done")
            BY <3>1
        <3> HIDE DEF b
        <3> QED BY <3>2
    <2>2. CASE LearnCold(l) /\ ~loc[l].stores
        BY <2>2 DEF LearnCold, Elsewhere
    <2>3. CASE LearnDescendant(l)
        <3>1. PICK c \in config.costs, r \in config.signals : Stores(l, c, r, "done")
            BY <2>3 DEF LearnDescendant
        <3> QED BY <2>0, <3>1
    <2>4. CASE LearnSample(l)
        <3>1. PICK c \in config.costs, r \in config.signals : Stores(l, c, r, "decide")
            BY <2>4 DEF LearnSample
        <3> QED BY <2>0, <3>1
    <2> QED BY <2>1, <2>2, <2>3, <2>4
<1>3. config.costs \subseteq Costs
    BY Typing, Constants
<1>4. CASE \E c \in config.costs, r \in BOOLEAN, q \in {"done", "decide"} : Stores(l, c, r, q)
    <2>1. PICK c \in config.costs, r \in BOOLEAN, q \in {"done", "decide"} : Stores(l, c, r, q)
        BY <1>4
    <2> QED BY <1>1, <1>3, <2>1, KeepStores
<1>5. CASE UNCHANGED <<config, cache, calibration, snapshots, traces, calls, loc>>
    BY <1>1, <1>5, KeepPlain
<1> QED BY <1>2, <1>4, <1>5

LEMMA KeepLearnEpoch ==
    ASSUME AllInv, NEW l \in Loops, LearnEpoch(l)
    PROVE  AllInv'
<1>1. Own(l)
    BY OwnLearnEpoch DEF AllInv
<1>2. SameFlags(l)
    BY Typing DEF SameFlags, Locals, LearnEpoch
<1>3. UNCHANGED <<config, cache, calibration, snapshots, traces, calls>>
    BY DEF LearnEpoch, Elsewhere
<1> QED BY <1>1, <1>2, <1>3, Typing, MarkersSame, Steps

LEMMA KeepDecide ==
    ASSUME AllInv, NEW l \in Loops, Decide(l)
    PROVE  AllInv'
<1>1. Own(l)
    BY OwnDecide DEF AllInv
<1>2. \E p, s, x : loc' = [loc EXCEPT ![l].plan = p, ![l].basis = Basis(l),
                                       ![l].stable = s, ![l].calibrates = x]
    BY Zenon DEF Decide
<1>3. SameFlags(l)
    BY <1>2, Typing DEF SameFlags, Locals
<1>4. UNCHANGED <<config, calibration, snapshots, traces, calls>>
      /\ (cache' = cache \/ cache' = note_stable_plan_use(cache, Key(l)))
    BY DEF Decide, Elsewhere
<1>5. CacheOK(cache') /\ SameMarkers(cache, cache')
    BY <1>4, Typing, NoteStableOK, MarkersSame
<1> QED BY <1>1, <1>3, <1>4, <1>5, Steps

LEMMA KeepPublishPlan ==
    ASSUME AllInv, NEW l \in Loops, PublishPlan(l)
    PROVE  AllInv'
<1>1. Own(l)
    BY OwnPublishPlan DEF AllInv
<1>2. SameFlags(l)
    BY DEF SameFlags, PublishPlan
<1>3. UNCHANGED <<config, calibration, snapshots, traces, calls>>
      /\ cache' = store_stable_plan(cache, Key(l), loc[l].plan, loc[l].generation,
                                    loc[l].basis)
    BY DEF PublishPlan, Elsewhere
<1>4. loc[l].plan \in SomePlan /\ loc[l].generation \in Nat /\ loc[l].basis \in Bases
    BY Typing DEF Locals
<1>5. CacheOK(cache') /\ SameMarkers(cache, cache')
    BY <1>3, <1>4, Typing, StorePlanOK
<1> QED BY <1>1, <1>2, <1>3, <1>5, Steps

\* Steps that change the calibration.
LEMMA KeepCalibrating ==
    ASSUME AllInv, NEW l \in Loops, SelectBackend(l) \/ RecordBackend(l)
    PROVE  AllInv'
<1>1. Own(l)
    BY OwnSelectBackend, OwnEnds DEF AllInv
<1>2. UNCHANGED <<config, cache, snapshots, traces, calls>>
    BY DEF SelectBackend, RecordBackend
<1>3. CalibrationOK(calibration')
    <2>1. CASE SelectBackend(l)
        BY <2>1, OwnSelectBackend DEF AllInv
    <2>2. CASE RecordBackend(l) /\ calibration_frozen
        BY <2>2, Typing DEF RecordBackend
    <2>3. CASE RecordBackend(l) /\ ~calibration_frozen
        <3>1. PICK faster \in Engines :
                calibration' \in record(calibration, Key(l), loc[l].generation,
                                        loc[l].plan.engine, faster)
            BY <2>3 DEF RecordBackend
        <3>2. loc[l].generation \in Nat
            BY Typing DEF Locals
        <3> QED BY <3>1, <3>2, Typing, RecordOK
    <2> QED BY <2>1, <2>2, <2>3
<1>4. SameFlags(l)
    <2>1. CASE SelectBackend(l)
        <3>1. \E e : loc' = [loc EXCEPT ![l].plan.engine = e]
            BY <2>1, Zenon DEF SelectBackend
        <3> QED BY <3>1, Typing DEF SameFlags, Locals
    <2>2. CASE RecordBackend(l)
        BY <2>2 DEF SameFlags, RecordBackend
    <2> QED BY <2>1, <2>2
<1>5. GlobalInv'
    BY <1>2, <1>3, Typing DEF GlobalInv, SnapshotsOK
<1> QED BY <1>1, <1>2, <1>4, <1>5, MarkersSame, OwnKept DEF SameFlags

LEMMA KeepPrepare ==
    ASSUME AllInv, NEW l \in Loops, Prepare(l)
    PROVE  AllInv'
<1>1. Own(l)
    BY OwnPrepare DEF AllInv
<1>2. \E p : loc' = [loc EXCEPT ![l].plan = p]
    BY Zenon DEF Prepare
<1>3. SameFlags(l)
    BY <1>2, PlanFlags
<1>4. UNCHANGED <<config, cache, calibration, calls>> /\ begin_trace(l)
    BY DEF Prepare
<1>5. PICK plan \in Plans :
        snapshots' = IF Remembers(l) \/ loc[l].stable THEN snapshots
                     ELSE Remember(ctx[l].session, Key(l),
                                   [plan |-> plan, basis |-> loc[l].basis])
    BY OwnPrepare DEF AllInv
<1>6. snapshots' = [m \in Loops |-> snapshots'[m]] /\ SnapshotsOK'
    <2> DEFINE s == ctx[l].session
               k == Key(l)
               memo == [plan |-> plan, basis |-> loc[l].basis]
               f == [x \in DOMAIN snapshots[s] \cup {k} |->
                       IF x = k THEN memo ELSE snapshots[s][x]]
    <2>1. snapshots = [m \in Loops |-> snapshots[m]] /\ SnapshotsOK
        BY Typing DEF GlobalInv
    <2>2. snapshots' = snapshots \/ snapshots' = [snapshots EXCEPT ![s] = f]
        BY <1>5, <2>1 DEF Remember
    <2>3. CASE snapshots' = snapshots
        BY <2>1, <2>3 DEF SnapshotsOK
    <2>5. memo \in Memos
        BY Typing DEF Memos, SomePlan, Locals
    <2> HIDE DEF memo
    <2>4. CASE snapshots' = [snapshots EXCEPT ![s] = f]
        <3>1. s \in Loops => \A x \in DOMAIN f : f[x] \in Memos
            BY <2>1, <2>5 DEF SnapshotsOK
        <3> HIDE DEF f, s
        <3> QED BY <2>1, <2>4, <3>1 DEF SnapshotsOK
    <2> QED BY <2>2, <2>3, <2>4
<1>7. GlobalInv'
    BY <1>4, <1>6, Typing DEF GlobalInv
<1>8. \A m \in traces' : m \in traces \/ m = l
    BY <1>4 DEF begin_trace
<1> QED BY <1>1, <1>3, <1>4, <1>7, <1>8, MarkersSame, OwnKept DEF SameFlags

LEMMA KeepPlainEnds ==
    ASSUME AllInv, NEW l \in Loops,
           NoFastPath(l) \/ DirectEnds(l) \/ FastEnds(l) \/ ExecutionEnds(l)
    PROVE  AllInv'
<1>1. Own(l)
    BY OwnNoFastPath, OwnEnds DEF AllInv
<1>2. UNCHANGED <<config, cache, calibration, snapshots, traces, calls, loc>>
    BY DEF NoFastPath, DirectEnds, FastEnds, ExecutionEnds, Elsewhere
<1> QED BY <1>1, <1>2, KeepPlain

LEMMA KeepSealed ==
    ASSUME AllInv, NEW l \in Loops, sealed_descendant_direct(l)
    PROVE  AllInv'
<1>1. CallsInv' /\ \A m \in Loops : pc[m] # "idle" => pc'[m] # "idle" /\ Key(m)' = Key(m)
    BY CallsSealed DEF AllInv
<1>2. UNCHANGED <<config, cache, calibration, snapshots, traces, calls>>
    BY DEF sealed_descendant_direct
<1>3. GlobalInv' /\ SameMarkers(cache, cache')
    BY <1>2, Typing, GlobalSame, MarkersSame
<1>4. \A m \in Loops : /\ loc'[m].builds = loc[m].builds
                       /\ loc'[m].revalidates = loc[m].revalidates
    BY Typing DEF Locals, sealed_descendant_direct
<1>5. MarkersInv'
    BY <1>1, <1>2, <1>3, <1>4, MarkersKept
<1> QED BY <1>1, <1>3, <1>5 DEF AllInv, Inv

LEMMA KeepCallbacks ==
    ASSUME AllInv, NEW l \in Loops, Callback(l) \/ CallNested(l)
    PROVE  AllInv'
<1>1. CallsInv' /\ \A m \in Loops : pc[m] # "idle" => pc'[m] # "idle" /\ Key(m)' = Key(m)
    BY CallsCallback, CallsNested DEF AllInv
<1>2. UNCHANGED <<config, cache, calibration, snapshots, traces, calls, loc>>
    BY DEF Callback, CallNested, Starts
<1>3. GlobalInv' /\ SameMarkers(cache, cache')
    BY <1>2, Typing, GlobalSame, MarkersSame
<1>4. MarkersInv'
    BY <1>1, <1>2, <1>3, MarkersKept
<1> QED BY <1>1, <1>3, <1>4 DEF AllInv, Inv

\* A holder that ends takes its markers with it, and nobody else's.
LEMMA KeepEnds ==
    ASSUME AllInv, NEW l \in Loops, NEW ok, Ends(l, ok), running[l] = {}, pc[l] # "idle"
    PROVE  AllInv'
<1> DEFINE b == IF loc[l].builds THEN {Key(l)} ELSE {}
           r == IF loc[l].revalidates THEN {Key(l)} ELSE {}
<1>1. /\ CallsInv' /\ pc'[l] = "idle"
      /\ \A m \in Loops \ {l} : /\ pc'[m] = pc[m] /\ loc'[m] = loc[m]
                                /\ pc[m] # "idle" => Key(m)' = Key(m)
    BY CallsEnd DEF AllInv
<1>2. /\ cache' = Released(cache, b, r)
      /\ traces' = traces \ {l} /\ snapshots' = [snapshots EXCEPT ![l] = <<>>]
      /\ UNCHANGED <<config, calibration, calls>>
    BY DEF Ends
<1> HIDE DEF b, r
<1>3. CacheOK(cache') /\ cache'.builds = cache.builds \ b
      /\ cache'.revalidations = cache.revalidations \ r
    BY <1>2, Typing, ReleasedOK
<1>4. GlobalInv'
    <2>1. snapshots' = [m \in Loops |-> snapshots'[m]] /\ SnapshotsOK'
        <3>1. snapshots = [m \in Loops |-> snapshots[m]] /\ SnapshotsOK
            BY Typing DEF GlobalInv
        <3> QED BY <1>2, <3>1 DEF SnapshotsOK
    <2> QED BY <1>2, <1>3, <2>1, Typing DEF GlobalInv
<1>5. Owned(BuildKeys, cache.builds) /\ Owned(RevalidateKeys, cache.revalidations)
      /\ \A m \in traces : m \in Loops /\ pc[m] # "idle"
    BY DEF AllInv, MarkersInv
<1>6. Owned(BuildKeys', cache.builds \ b)
    <2> DEFINE K == BuildKeys
               L == BuildKeys'
    <2>1. DOMAIN K = {x \in Loops : pc[x] # "idle" /\ loc[x].builds}
          /\ DOMAIN L = {x \in Loops : pc'[x] # "idle" /\ loc'[x].builds}
          /\ (\A m \in DOMAIN K : K[m] = Key(m)) /\ (\A m \in DOMAIN L : L[m] = Key(m)')
          /\ L = [m \in DOMAIN L |-> L[m]] /\ K = [m \in DOMAIN K |-> K[m]]
        BY DEF BuildKeys
    <2> HIDE DEF K, L
    <2>2. DOMAIN L = DOMAIN K \ {l} /\ \A m \in DOMAIN L : L[m] = K[m]
        BY <1>1, <2>1
    <2>3. Owned(K, cache.builds)
        BY <1>5 DEF K
    <2>4. CASE loc[l].builds
        <3>1. l \in DOMAIN K /\ K[l] = Key(l) /\ b = {K[l]}
            BY <2>1, <2>4 DEF b
        <3>2. Owned(L, cache.builds \ {K[l]})
            BY <2>2, <2>3, <3>1, Unmarked
        <3> QED BY <3>1, <3>2 DEF L
    <2>5. CASE ~loc[l].builds
        <3>1. L = K /\ b = {}
            <4>1. DOMAIN L = DOMAIN K
                BY <2>1, <2>2, <2>5
            <4> QED BY <2>1, <2>2, <2>5, <4>1 DEF b
        <3>2. cache.builds \ b = cache.builds
            BY <3>1
        <3> QED BY <2>3, <3>1, <3>2 DEF L
    <2> QED BY <2>4, <2>5
<1>7. Owned(RevalidateKeys', cache.revalidations \ r)
    <2> DEFINE K == RevalidateKeys
               L == RevalidateKeys'
    <2>1. DOMAIN K = {x \in Loops : pc[x] # "idle" /\ loc[x].revalidates}
          /\ DOMAIN L = {x \in Loops : pc'[x] # "idle" /\ loc'[x].revalidates}
          /\ (\A m \in DOMAIN K : K[m] = Key(m)) /\ (\A m \in DOMAIN L : L[m] = Key(m)')
          /\ L = [m \in DOMAIN L |-> L[m]] /\ K = [m \in DOMAIN K |-> K[m]]
        BY DEF RevalidateKeys
    <2> HIDE DEF K, L
    <2>2. DOMAIN L = DOMAIN K \ {l} /\ \A m \in DOMAIN L : L[m] = K[m]
        BY <1>1, <2>1
    <2>3. Owned(K, cache.revalidations)
        BY <1>5 DEF K
    <2>4. CASE loc[l].revalidates
        <3>1. l \in DOMAIN K /\ K[l] = Key(l) /\ r = {K[l]}
            BY <2>1, <2>4 DEF r
        <3>2. Owned(L, cache.revalidations \ {K[l]})
            BY <2>2, <2>3, <3>1, Unmarked
        <3> QED BY <3>1, <3>2 DEF L
    <2>5. CASE ~loc[l].revalidates
        <3>1. L = K /\ r = {}
            <4>1. DOMAIN L = DOMAIN K
                BY <2>1, <2>2, <2>5
            <4> QED BY <2>1, <2>2, <2>5, <4>1 DEF r
        <3>2. cache.revalidations \ r = cache.revalidations
            BY <3>1
        <3> QED BY <2>3, <3>1, <3>2 DEF L
    <2> QED BY <2>4, <2>5
<1>8. \A m \in traces' : m \in Loops /\ pc'[m] # "idle"
    BY <1>1, <1>2, <1>5
<1>9. MarkersInv'
    BY <1>3, <1>6, <1>7, <1>8 DEF MarkersInv
<1> QED BY <1>1, <1>4, <1>9 DEF AllInv, Inv

LEMMA KeepReturns ==
    ASSUME AllInv, NEW l \in Loops, Return(l) \/ Unwind(l)
    PROVE  AllInv'
<1>1. CASE Return(l)
    <2>1. pc[l] = "done" /\ pc[l] \in Over /\ Ends(l, TRUE)
        BY <1>1 DEF Return, Over
    <2>2. running[l] = {}
        BY <2>1, Typing, CallFacts, PlacesApart
    <2> QED BY <2>1, <2>2, KeepEnds
<1>2. CASE Unwind(l)
    <2>1. pc[l] \in Executing /\ running[l] = {} /\ Ends(l, FALSE)
        BY <1>2 DEF Unwind
    <2>2. pc[l] # "idle"
        BY <2>1 DEF Executing
    <2> QED BY <2>1, <2>2, KeepEnds
<1> QED BY <1>1, <1>2

\* A step of nobody's.
LEMMA CallsSame ==
    ASSUME CallsInv, UNCHANGED <<config, local>>
    PROVE  CallsInv' /\ \A m \in Loops : Key(m)' = Key(m)
<1>1. CallsInv'
    BY DEF CallsInv, Mapped, Inside, Nested
<1>2. \A m \in Loops : Key(m)' = Key(m)
    BY DEF Key, Up
<1> QED BY <1>1, <1>2

LEMMA KeepAdministration ==
    ASSUME AllInv,
           \/ AdmissionRefused \/ ClearProfiles \/ ClearCalibration
           \/ FreezeRevalidation \/ FreezeCalibration \/ UNCHANGED vars
    PROVE  AllInv'
<1>0. CacheOK(cache) /\ CalibrationOK(calibration) /\ CallsInv /\ GlobalInv
    BY DEF AllInv, Inv, GlobalInv
<1>1. UNCHANGED <<config, local, snapshots, traces>>
    BY DEF AdmissionRefused, ClearProfiles, ClearCalibration, FreezeRevalidation,
           FreezeCalibration, Administers
<1>2. CallsInv' /\ \A m \in Loops : Key(m)' = Key(m)
    BY <1>0, <1>1, CallsSame
<1>3. CacheOK(cache') /\ SameMarkers(cache, cache')
    <2>1. \/ cache' = cache \/ cache' = clear(cache)
          \/ cache' = [cache EXCEPT !.frozen = ~@]
        BY DEF AdmissionRefused, ClearProfiles, ClearCalibration, FreezeRevalidation,
               FreezeCalibration
    <2> QED BY <1>0, <2>1, MarkersSame, ClearOK, MarkersOK
<1>4. CalibrationOK(calibration')
    <2>1. calibration' = calibration \/ calibration' = <<>>
        BY DEF AdmissionRefused, ClearProfiles, ClearCalibration, FreezeRevalidation,
               FreezeCalibration
    <2>2. CalibrationOK(<<>>)
        BY DEF CalibrationOK
    <2> QED BY <1>0, <2>1, <2>2
<1>5. calls' = calls \/ calls' = calls + 1
    BY DEF AdmissionRefused, ClearProfiles, ClearCalibration, FreezeRevalidation,
           FreezeCalibration, Administers
<1>6. GlobalInv'
    BY <1>0, <1>1, <1>3, <1>4, <1>5 DEF GlobalInv, SnapshotsOK
<1>7. MarkersInv'
    BY <1>1, <1>2, <1>3, MarkersKept
<1> QED BY <1>2, <1>6, <1>7 DEF AllInv, Inv

LEMMA InitAllInv == Init => AllInv
<1> SUFFICES ASSUME Init PROVE AllInv
    OBVIOUS
<1>1. /\ pc = [l \in Loops |-> "idle"] /\ ctx = [l \in Loops |-> NoContext]
      /\ loc = [l \in Loops |-> NoLocals] /\ todo = [l \in Loops |-> {}]
      /\ running = [l \in Loops |-> {}] /\ failed = [l \in Loops |-> FALSE]
      /\ count = [l \in Loops |-> [i \in Items(l) |-> 0]]
    BY DEF Init
<1>2. Mapped /\ \A l \in Loops : /\ pc[l] = "idle" /\ ctx[l] = NoContext /\ loc[l] = NoLocals
                                 /\ todo[l] = {} /\ running[l] = {}
                                 /\ count[l] = [i \in Items(l) |-> 0]
    BY <1>1 DEF Mapped
<1>3. ASSUME NEW l \in Loops, NEW u
      PROVE  CallOK(config.frontier, l, u, "idle", NoContext, NoLocals, {}, {},
                    [i \in Items(l) |-> 0])
    <2>1. NoContext \in Context /\ NoLocals \in Locals
        <3>1. {} \in Samples
            BY FS_EmptySet DEF Samples
        <3> QED BY <3>1 DEF NoContext, Context, Sites, NoLocals, Locals, SomePlan,
                               NoMemo, NoBasis, Memos, Bases
    <2>2. "idle" \in Early /\ "idle" \in Places /\ "idle" \notin Executing
        BY DEF Early, Places, Executing
    <2>3. Left(l, "idle", NoLocals, {}) = Items(l)
        BY <2>2, LeftIs
    <2>4. Typed(l, "idle", NoContext, NoLocals, {}, {}, [i \in Items(l) |-> 0])
          /\ Counted(l, "idle", NoLocals, {}, [i \in Items(l) |-> 0])
        BY <2>1, <2>2, <2>3 DEF Typed, Counted
    <2>5. Flagged(l, "idle", NoLocals, {}, {})
        BY <2>2 DEF Flagged, NoLocals
    <2>6. Lined(config.frontier, l, u, "idle", NoContext, NoLocals)
        BY <2>2 DEF Lined
    <2> QED BY <2>4, <2>5, <2>6 DEF CallOK
<1>4. CallsInv
    BY <1>2, <1>3 DEF CallsInv, Inside
<1>5. CacheOK(EmptyCache) /\ CalibrationOK(<<>>)
    <2>1. Known(EmptyCache) = {} /\ EmptyCache.entries = <<>>
        BY DEF Known, EmptyCache
    <2>2. EmptyCache = [f \in CacheFields |-> EmptyCache[f]]
          /\ EmptyCache.epoch \in Nat /\ EmptyCache.generation \in Nat
        BY DEF EmptyCache, CacheFields
    <2>3. EmptyCache.entries = [k \in {} |-> EmptyCache.entries[k]]
        BY <2>1
    <2>4. CacheOK(EmptyCache)
        BY <2>1, <2>2, <2>3 DEF CacheOK
    <2> QED BY <2>4 DEF CalibrationOK
<1>6. GlobalInv
    BY <1>5 DEF Init, GlobalInv, SnapshotsOK
<1>7. MarkersInv
    <2>1. cache.builds = {} /\ cache.revalidations = {} /\ traces = {}
        BY DEF Init, EmptyCache
    <2>2. DOMAIN BuildKeys = {} /\ DOMAIN RevalidateKeys = {}
        BY <1>2 DEF BuildKeys, RevalidateKeys
    <2> QED BY <2>1, <2>2 DEF MarkersInv, Owned
<1> QED BY <1>4, <1>6, <1>7 DEF AllInv, Inv

LEMMA NextAllInv == AllInv /\ [Next]_vars => AllInv'
<1> SUFFICES ASSUME AllInv, [Next]_vars PROVE AllInv'
    OBVIOUS
<1>1. CASE AdmissionRefused \/ ClearProfiles \/ ClearCalibration \/ FreezeRevalidation
           \/ FreezeCalibration \/ UNCHANGED vars
    BY <1>1, KeepAdministration
<1>2. ASSUME NEW l \in Loops, Entry(l) PROVE AllInv'
    BY <1>2, KeepCallRoot, KeepExactPlan, KeepSealed, KeepInheritedFrontier, KeepDecides DEF Entry
<1>3. ASSUME NEW l \in Loops, Lookup(l) PROVE AllInv'
    BY <1>3, KeepReadEpoch, KeepFindProfile, KeepRevalidate, KeepBuildProfile DEF Lookup
<1>4. ASSUME NEW l \in Loops, Learn(l) PROVE AllInv'
    BY <1>4, KeepCold, KeepLearn, KeepLearnEpoch, KeepSample DEF Learn
<1>5. ASSUME NEW l \in Loops, Plan(l) PROVE AllInv'
    BY <1>5, KeepFastPath, KeepPlainEnds, KeepDecide, KeepPublishPlan, KeepCalibrating,
       KeepPrepare DEF Plan
<1>6. ASSUME NEW l \in Loops, Finish(l) PROVE AllInv'
    BY <1>6, KeepPlainEnds, KeepCalibrating, KeepReturns DEF Finish
<1>7. ASSUME NEW l \in Loops, Callback(l) \/ CallNested(l) PROVE AllInv'
    BY <1>7, KeepCallbacks
<1>8. CASE Terminated
    BY <1>1, <1>8 DEF Terminated
<1> QED BY <1>1, <1>2, <1>3, <1>4, <1>5, <1>6, <1>7, <1>8 DEF Next

LEMMA SpecAllInv == Spec => []AllInv
BY InitAllInv, NextAllInv, PTL DEF Spec

-----------------------------------------------------------------------------
(* What a plan was decided from.                                           *)

\* The plan beside a profile is of that profile, or of the root call that
\* observed it last.
Matches(e) == e.plan # NoPlan => e.basis.of = e.generation \/ e.basis.by = e.group

PlansOK(c) ==
    \A k \in Known(c) : Matches(c.entries[k]) /\ c.entries[k].generation <= c.generation

\* A call that began has the root of the call around it, and its session is its
\* own or that of a call around it.
Line(l, c, u) ==
    /\ Nested(l) => c.root = u.root
    /\ c.session \in {NoLoop, l} \cup Around[l]

Rooted(l, p, c, u) == p \notin {"idle", "called"} => Line(l, c, u)

\* A plan of the session, and any plan a call has decided on, is of its root call.
Recalled(p, root, d) ==
    /\ p = "find" => d.memo.plan = NoPlan
    /\ d.memo.plan # NoPlan => d.memo.basis.by = root
    /\ p \in {"publish", "select", "prepare"} => d.basis.by = root
    /\ p = "publish" => d.basis.of = d.generation \/ d.memo.plan # NoPlan

\* The generation of a call with a plan of its session is of its own making.
Measured(c, root, d) ==
    /\ d.generation <= c.generation
    /\ d.memo.plan # NoPlan /\ d.generation # 0 =>
         \A k \in Known(c) : c.entries[k].generation = d.generation
                             => c.entries[k].group = root

\* Sessions remember plans of their root call, while their owner runs.
SessionsOK ==
    \A s \in Loops : \A k \in DOMAIN snapshots[s] :
      pc[s] \notin {"idle", "called"} /\ snapshots[s][k].basis.by = ctx[s].root

BasisInv ==
    /\ PlansOK(cache) /\ SessionsOK
    /\ \A l \in Loops : /\ Rooted(l, pc[l], ctx[l], ctx[Parent[l]])
                        /\ Recalled(pc[l], ctx[l].root, loc[l])
                        /\ Measured(cache, ctx[l].root, loc[l])

FullInv == AllInv /\ BasisInv

LEMMA ProfilesKept ==
    ASSUME NEW c, NEW d, SameProfiles(c, d), PlansOK(c)
    PROVE  /\ PlansOK(d)
           /\ \A root, x : Measured(c, root, x) => Measured(d, root, x)
BY DEF SameProfiles, PlansOK, Matches, Measured

LEMMA SameItself == \A c : SameProfiles(c, c)
BY DEF SameProfiles

LEMMA AroundParent ==
    ASSUME NEW l \in Loops, Nested(l)
    PROVE  Parent[l] \in Around[l] /\ Around[Parent[l]] \subseteq Around[l]
<1>1. Parent[l] \in Loops
    BY Constants
<1>2. Parent[l] \in Around[l]
    BY <1>1 DEF Around
<1>3. ASSUME NEW a \in Around[Parent[l]], NEW s \in SUBSET Loops,
             \A x \in s \cup {l} : Nested(x) => Parent[x] \in s
      PROVE  a \in s
    <2>1. Parent[l] \in s
        BY <1>3
    <2>2. \A x \in s \cup {Parent[l]} : Nested(x) => Parent[x] \in s
        BY <1>3, <2>1
    <2> QED BY <1>1, <1>3, <2>2 DEF Around
<1>4. \A a \in Around[Parent[l]] : a \in Loops
    BY <1>1 DEF Around
<1> QED BY <1>2, <1>3, <1>4 DEF Around

\* The calls around one that began are inside a nested call, with its root.
LEMMA AroundRoot ==
    ASSUME CallsInv, BasisInv, NEW l \in Loops, pc[l] \notin {"idle", "called"},
           NEW a \in Around[l]
    PROVE  /\ a \in Loops /\ running[a] # {} /\ pc[a] \in Executing
           /\ ctx[a].root = ctx[l].root
<1> DEFINE s == {x \in Loops : /\ running[x] # {} /\ pc[x] \in Executing
                               /\ ctx[x].root = ctx[l].root}
<1>1. ASSUME NEW x \in s \cup {l}, Nested(x) PROVE Parent[x] \in s
    <2>1. x \in Loops /\ ctx[x].root = ctx[l].root /\ pc[x] \notin {"idle", "called"}
        BY DEF Executing
    <2>2. /\ Parent[x] \in Loops /\ pc[Parent[x]] \in Executing /\ running[Parent[x]] # {}
        BY <1>1, <2>1, Held
    <2>3. ctx[x].root = ctx[Parent[x]].root
        BY <1>1, <2>1 DEF BasisInv, Rooted, Line
    <2> QED BY <2>1, <2>2, <2>3
<1>2. s \in SUBSET Loops
    OBVIOUS
<1>3. a \in s
    BY <1>1, <1>2 DEF Around
<1> QED BY <1>3

\* A call is as it was, as far as plans depend on it.
Settled(m) ==
    /\ pc'[m] = pc[m] /\ loc'[m] = loc[m]
    /\ ctx'[m].root = ctx[m].root /\ ctx'[m].session = ctx[m].session

\* A step that changes nobody but l.
LEMMA Shift ==
    ASSUME FullInv, NEW l \in Loops, running[l] = {},
           \A m \in Loops \ {l} : Settled(m),
           pc[l] # "idle" \/ ~Nested(l) \/ pc'[l] \in {"idle", "called"},
           PlansOK(cache'), SessionsOK',
           \A m \in Loops \ {l} : Measured(cache', ctx[m].root, loc[m]),
           Rooted(l, pc'[l], ctx'[l], ctx[Parent[l]]),
           Recalled(pc'[l], ctx'[l].root, loc'[l]), Measured(cache', ctx'[l].root, loc'[l])
    PROVE  BasisInv'
<1>1. CallsInv /\ BasisInv
    BY DEF FullInv, AllInv, Inv
<1>2. ASSUME NEW m \in Loops, Nested(m), pc[m] # "idle"
      PROVE  Parent[m] \in Loops \ {l} /\ ctx'[Parent[m]].root = ctx[Parent[m]].root
    <2>1. Parent[m] \in Loops /\ running[Parent[m]] # {}
        BY <1>1, <1>2, Held
    <2> QED BY <2>1 DEF Settled
<1>3. ASSUME NEW m \in Loops PROVE Rooted(m, pc'[m], ctx'[m], ctx'[Parent[m]])
    <2>1. CASE m = l
        BY <1>2, <2>1 DEF Rooted, Line
    <2>2. CASE m # l
        <3>1. pc'[m] = pc[m] /\ ctx'[m].root = ctx[m].root /\ ctx'[m].session = ctx[m].session
            BY <2>2 DEF Settled
        <3>2. Rooted(m, pc[m], ctx[m], ctx[Parent[m]])
            BY <1>1 DEF BasisInv
        <3> QED BY <1>2, <3>1, <3>2 DEF Rooted, Line
    <2> QED BY <2>1, <2>2
<1>4. ASSUME NEW m \in Loops
      PROVE  Recalled(pc'[m], ctx'[m].root, loc'[m]) /\ Measured(cache', ctx'[m].root, loc'[m])
    <2>1. CASE m = l
        BY <2>1
    <2>2. CASE m # l
        <3>1. pc'[m] = pc[m] /\ ctx'[m].root = ctx[m].root /\ loc'[m] = loc[m]
            BY <2>2 DEF Settled
        <3>2. Recalled(pc[m], ctx[m].root, loc[m])
            BY <1>1 DEF BasisInv
        <3> QED BY <2>2, <3>1, <3>2
    <2> QED BY <2>1, <2>2
<1>5. \A m \in Loops : Rooted(m, pc[m], ctx[m], ctx[Parent[m]])'
    BY <1>3 DEF Rooted, Line, Nested
<1>6. \A m \in Loops : Recalled(pc[m], ctx[m].root, loc[m])'
                       /\ Measured(cache, ctx[m].root, loc[m])'
    BY <1>4
<1>7. PlansOK(cache)'
    OBVIOUS
<1> QED BY <1>5, <1>6, <1>7 DEF BasisInv

LEMMA SessionsKept ==
    ASSUME FullInv, NEW l \in Loops, \A m \in Loops \ {l} : Settled(m),
           snapshots' = snapshots,
           pc[l] \notin {"idle", "called"} =>
             pc'[l] \notin {"idle", "called"} /\ ctx'[l].root = ctx[l].root
    PROVE  SessionsOK'
<1>1. SessionsOK
    BY DEF FullInv, BasisInv
<1>2. ASSUME NEW s \in Loops, NEW k \in DOMAIN snapshots[s]
      PROVE  pc'[s] \notin {"idle", "called"} /\ snapshots[s][k].basis.by = ctx'[s].root
    <2>1. pc[s] \notin {"idle", "called"} /\ snapshots[s][k].basis.by = ctx[s].root
        BY <1>1 DEF SessionsOK
    <2>2. CASE s = l
        BY <2>1, <2>2
    <2>3. CASE s # l
        BY <2>1, <2>3 DEF Settled
    <2> QED BY <2>2, <2>3
<1> QED BY <1>2 DEF SessionsOK

\* A step of l on its own that stores nothing and remembers nothing.
LEMMA ShiftAlone ==
    ASSUME FullInv, NEW l \in Loops, Own(l), SameProfiles(cache, cache'),
           snapshots' = snapshots,
           pc[l] \notin {"idle", "called"} =>
             pc'[l] \notin {"idle", "called"} /\ ctx'[l].root = ctx[l].root,
           Rooted(l, pc'[l], ctx'[l], ctx[Parent[l]]),
           Recalled(pc'[l], ctx'[l].root, loc'[l]), Measured(cache, ctx'[l].root, loc'[l])
    PROVE  BasisInv'
<1>1. PlansOK(cache) /\ \A m \in Loops : Measured(cache, ctx[m].root, loc[m])
    BY DEF FullInv, BasisInv
<1>2. /\ running[l] = {} /\ (pc[l] # "idle" \/ ~Nested(l))
      /\ \A m \in Loops \ {l} : Settled(m)
    BY DEF Own, Moves, Settled
<1>3. PlansOK(cache') /\ (\A m \in Loops : Measured(cache', ctx[m].root, loc[m]))
      /\ Measured(cache', ctx'[l].root, loc'[l])
    BY <1>1, ProfilesKept
<1>4. SessionsOK'
    BY <1>2, SessionsKept
<1> QED BY <1>2, <1>3, <1>4, Shift

\* The call keeps what plans depend on, too.
SameMemo(l) ==
    /\ loc'[l].memo = loc[l].memo /\ loc'[l].basis = loc[l].basis
    /\ loc'[l].generation = loc[l].generation

LEMMA ShiftPlain ==
    ASSUME FullInv, NEW l \in Loops, Own(l), SameProfiles(cache, cache'),
           snapshots' = snapshots, pc[l] \notin {"idle", "called"}, SameMemo(l),
           ctx'[l].root = ctx[l].root, Line(l, ctx'[l], ctx[Parent[l]]),
           pc'[l] \notin {"idle", "called", "publish"}, pc'[l] = "find" => loc[l].memo.plan = NoPlan,
           pc'[l] \in {"select", "prepare"} => pc[l] \in {"publish", "select", "prepare"}
    PROVE  BasisInv'
<1>1. Recalled(pc[l], ctx[l].root, loc[l]) /\ Measured(cache, ctx[l].root, loc[l])
    BY DEF FullInv, BasisInv
<1>2. Recalled(pc'[l], ctx'[l].root, loc'[l]) /\ Measured(cache, ctx'[l].root, loc'[l])
    BY <1>1 DEF Recalled, Measured, SameMemo
<1>3. Rooted(l, pc'[l], ctx'[l], ctx[Parent[l]])
    BY DEF Rooted
<1> QED BY <1>2, <1>3, ShiftAlone

\* A call that began keeps its place in the tree.
LEMMA LineOf ==
    ASSUME FullInv, NEW l \in Loops, pc[l] \notin {"idle", "called"}
    PROVE  Line(l, ctx[l], ctx[Parent[l]])
BY DEF FullInv, BasisInv, Rooted

LEMMA LineSame ==
    ASSUME NEW l, NEW c, NEW d, NEW u, Line(l, c, u), d.root = c.root, d.session = c.session
    PROVE  Line(l, d, u)
BY DEF Line

LEMMA PlannedLine ==
    ASSUME NEW c \in Context, NEW p
    PROVE  Planned(c, p).root = c.root /\ Planned(c, p).session = c.session
BY DEF Planned, Context

LEMMA SealedLine ==
    ASSUME NEW c \in Context, NEW b
    PROVE  /\ [c EXCEPT !.sealed = b].root = c.root
           /\ [c EXCEPT !.sealed = b].session = c.session
BY DEF Context

LEMMA ColdLine ==
    ASSUME NEW l, ctx[l] \in Context, NEW p \in Plans
    PROVE  /\ ColdContext(l, p).root = ctx[l].root
           /\ ColdContext(l, p).session = ctx[l].session
<1> DEFINE c == Planned(ctx[l], p)
           x == ~p.parallel
           y == p.parallel /\ config.frontier
<1>1. c \in Context /\ c.root = ctx[l].root /\ c.session = ctx[l].session
    BY PlannedOK, PlannedLine
<1>2. ColdContext(l, p) = [c EXCEPT !.conservative = x, !.collects = TRUE, !.sealed = y]
    BY DEF ColdContext
<1> HIDE DEF c, x, y
<1> QED BY <1>1, <1>2 DEF Context

\* A nested call that begins, or goes on, under its parent.
LEMMA InheritLine ==
    ASSUME FullInv, NEW l \in Loops, pc[l] # "idle", NEW c \in Context,
           Line(l, c, ctx[Parent[l]])
    PROVE  /\ inherit_execution_lineage(l, c).root = c.root
           /\ Line(l, inherit_execution_lineage(l, c), ctx[Parent[l]])
<1> DEFINE i == inherit_execution_lineage(l, c)
<1>1. CASE ~Nested(l)
    BY <1>1 DEF inherit_execution_lineage
<1>2. CASE Nested(l)
    <2>1. CallsInv
        BY DEF FullInv, AllInv, Inv
    <2>2. Parent[l] \in Loops /\ pc[Parent[l]] \in Executing /\ Up(l) = ctx[Parent[l]]
        BY <1>2, <2>1, Held, UpFacts
    <2>3. pc[Parent[l]] \notin {"idle", "called"}
        BY <2>2 DEF Executing
    <2>4. ctx[Parent[l]].session \in {NoLoop, Parent[l]} \cup Around[Parent[l]]
        BY <2>2, <2>3, LineOf DEF Line
    <2>5. ctx[Parent[l]].session \in {NoLoop, l} \cup Around[l]
        BY <1>2, <2>4, AroundParent
    <2>6. i.root = c.root
          /\ i.session = IF c.session = NoLoop THEN ctx[Parent[l]].session ELSE c.session
        BY <1>2, <2>2 DEF inherit_execution_lineage, Context
    <2> QED BY <1>2, <2>5, <2>6 DEF Line
<1> QED BY <1>1, <1>2

\* The context of a call that begins.
LEMMA MakeLine ==
    ASSUME FullInv, NEW l \in Loops, pc[l] # "idle"
    PROVE  /\ make_execution_context(l) \in Context
           /\ make_execution_context(l).session = NoLoop
           /\ ~Nested(l) => make_execution_context(l).root = ctx[l].root
           /\ Line(l, make_execution_context(l), ctx[Parent[l]])
<1>1. CallsInv
    BY DEF FullInv, AllInv, Inv
<1>2. make_execution_context(l) \in Context
    BY <1>1, MakeOK
<1> DEFINE r == IF Nested(l) THEN Up(l).root ELSE ctx[l].root
<1>3. make_execution_context(l).session = NoLoop /\ make_execution_context(l).root = r
    BY DEF make_execution_context, NoContext
<1>4. Nested(l) => Up(l) = ctx[Parent[l]]
    BY <1>1, UpFacts
<1> QED BY <1>2, <1>3, <1>4 DEF Line

\* What FullInv says of a call.
LEMMA Whole ==
    ASSUME FullInv, NEW l \in Loops
    PROVE  /\ AllInv /\ Inv /\ CallsInv /\ CacheOK(cache) /\ BasisInv
           /\ loc[l] \in Locals /\ ctx[l] \in Context
           /\ loc = [m \in Loops |-> loc[m]] /\ ctx = [m \in Loops |-> ctx[m]]
           /\ pc = [m \in Loops |-> pc[m]]
BY Typing DEF FullInv, AllInv, Inv, CallsInv, Mapped

\* A call before it begins, and where it goes first.
LEMMA Unbegun ==
    ASSUME FullInv, NEW l \in Loops, pc[l] \in {"idle", "called"}
    PROVE  /\ loc[l].memo = NoMemo /\ loc[l].generation = 0 /\ running[l] = {}
           /\ loc[l] = NoLocals
<1>1. loc[l] = NoLocals
    BY Whole, CallFacts DEF CallOK, Flagged
<1>2. pc[l] \notin Executing
    BY DEF Executing
<1> QED BY <1>1, <1>2, Whole, CallFacts DEF NoLocals

\* Locals without a plan of a session, a generation, or a place that needs them.
LEMMA Blank ==
    ASSUME FullInv, NEW p, p \notin {"publish", "select", "prepare"}, NEW root, NEW d,
           d.memo.plan = NoPlan, d.generation = 0
    PROVE  Recalled(p, root, d) /\ Measured(cache, root, d)
<1>1. cache.generation \in Nat
    BY DEF FullInv, AllInv, Inv, GlobalInv, CacheOK
<1> QED BY <1>1 DEF Recalled, Measured

LEMMA BasisCallRoot ==
    ASSUME FullInv, NEW l \in Loops, CallRoot(l)
    PROVE  BasisInv'
<1>1. Own(l) /\ pc[l] = "idle" /\ pc'[l] = "called"
      /\ UNCHANGED <<loc, cache, snapshots>>
    BY Whole, OwnCallRoot DEF CallRoot
<1>2. Recalled(pc'[l], ctx'[l].root, loc'[l]) /\ Measured(cache, ctx'[l].root, loc'[l])
    BY <1>1, Unbegun, Blank DEF NoMemo
<1> QED BY <1>1, <1>2, SameItself, ShiftAlone DEF Rooted

LEMMA BasisExactPlan ==
    ASSUME FullInv, NEW l \in Loops, exact_plan(l)
    PROVE  BasisInv'
<1> DEFINE k == make_execution_context(l)
<1>1. Own(l) /\ pc[l] = "called" /\ ~Nested(l) /\ UNCHANGED <<cache, snapshots>>
    BY Whole, OwnExactPlan DEF exact_plan
<1>2. PICK p : /\ ctx' = [ctx EXCEPT ![l] = [Planned(k, p) EXCEPT !.site = NoSite]]
               /\ pc' = [pc EXCEPT ![l] = "direct"]
               /\ loc' = [loc EXCEPT ![l].path = "exact", ![l].plan = p]
    BY DEF exact_plan, Executes
<1>3. k \in Context /\ k.session = NoLoop /\ Line(l, k, ctx[Parent[l]])
    BY <1>1, MakeLine
<1> HIDE DEF k
<1>4. [Planned(k, p) EXCEPT !.site = NoSite].root = k.root
      /\ [Planned(k, p) EXCEPT !.site = NoSite].session = k.session
    BY <1>3 DEF Planned, Context
<1>5. pc'[l] = "direct" /\ Line(l, ctx'[l], ctx[Parent[l]])
    BY <1>2, <1>3, <1>4, Whole, LineSame
<1>6. loc'[l].memo = loc[l].memo /\ loc'[l].generation = loc[l].generation
    BY <1>2, Whole DEF Locals
<1>7. Recalled(pc'[l], ctx'[l].root, loc'[l]) /\ Measured(cache, ctx'[l].root, loc'[l])
    BY <1>1, <1>5, <1>6, Unbegun, Blank DEF NoMemo
<1> QED BY <1>1, <1>5, <1>7, SameItself, ShiftAlone DEF Rooted

LEMMA BasisInheritedFrontier ==
    ASSUME FullInv, NEW l \in Loops, inherited_parallel_frontier(l)
    PROVE  BasisInv'
<1> DEFINE k == make_execution_context(l)
           c == inherit_execution_lineage(l, k)
<1>1. Own(l) /\ pc[l] = "called" /\ UNCHANGED <<cache, snapshots>>
    BY Whole, OwnInheritedFrontier DEF inherited_parallel_frontier
<1>2. /\ ctx' = [ctx EXCEPT ![l] = c] /\ pc' = [pc EXCEPT ![l] = "direct"]
      /\ loc' = [loc EXCEPT ![l].path = "inherited", ![l].plan = Sequential,
                            ![l].began = cache.epoch]
    BY DEF inherited_parallel_frontier, Executes
<1>3. k \in Context /\ Line(l, k, ctx[Parent[l]])
    BY <1>1, MakeLine
<1> HIDE DEF k
<1>4. Line(l, c, ctx[Parent[l]])
    BY <1>1, <1>3, InheritLine
<1> HIDE DEF c
<1>5. pc'[l] = "direct" /\ Line(l, ctx'[l], ctx[Parent[l]])
    BY <1>2, <1>4, Whole
<1>6. loc'[l].memo = loc[l].memo /\ loc'[l].generation = loc[l].generation
    BY <1>2, Whole DEF Locals
<1>7. Recalled(pc'[l], ctx'[l].root, loc'[l]) /\ Measured(cache, ctx'[l].root, loc'[l])
    BY <1>1, <1>5, <1>6, Unbegun, Blank DEF NoMemo
<1> QED BY <1>1, <1>5, <1>7, SameItself, ShiftAlone DEF Rooted

\* A descendant of a sealed frontier: its caller has seen a nested call.
LEMMA BasisSealed ==
    ASSUME FullInv, NEW l \in Loops, sealed_descendant_direct(l)
    PROVE  BasisInv'
<1> DEFINE o == Parent[l]
<1>1. /\ pc[l] = "called" /\ Nested(l) /\ UNCHANGED <<cache, snapshots>>
      /\ pc' = [pc EXCEPT ![l] = "direct"]
      /\ ctx' = [ctx EXCEPT ![l] = Up(l), ![o].nested = @ \/ Up(l).collects]
      /\ loc' = [loc EXCEPT ![l].path = "sealed", ![l].plan = Sequential]
    BY DEF sealed_descendant_direct, SealedDirect
<1>2. loc[l].memo = NoMemo /\ loc[l].generation = 0 /\ running[l] = {}
    BY <1>1, Unbegun
<1>3. o \in Loops /\ o # l /\ pc[o] \in Executing /\ Up(l) = ctx[o] /\ ctx[o] \in Context
    BY <1>1, <1>2, Whole, Held, UpFacts
<1>4. pc[o] \notin {"idle", "called"}
    BY <1>3 DEF Executing
<1>5. /\ ctx'[l] = ctx[o] /\ pc'[l] = "direct"
      /\ ctx'[o].root = ctx[o].root /\ ctx'[o].session = ctx[o].session
      /\ \A m \in Loops \ {l, o} : ctx'[m] = ctx[m]
      /\ \A m \in Loops \ {l} : pc'[m] = pc[m] /\ loc'[m] = loc[m]
      /\ loc'[l].memo = loc[l].memo /\ loc'[l].generation = loc[l].generation
    BY <1>1, <1>3, Whole DEF Context, Locals
<1>6. \A m \in Loops \ {l} : Settled(m)
    BY <1>5 DEF Settled
<1>7. Line(l, ctx'[l], ctx[o])
    <2>1. ctx[o].session \in {NoLoop, o} \cup Around[o]
        BY <1>3, <1>4, LineOf DEF Line
    <2> QED BY <1>1, <1>5, <2>1, AroundParent DEF Line
<1>8. Recalled(pc'[l], ctx'[l].root, loc'[l]) /\ Measured(cache, ctx'[l].root, loc'[l])
    BY <1>2, <1>5, Blank DEF NoMemo
<1>9. SessionsOK'
    BY <1>1, <1>6, SessionsKept
<1>10. PlansOK(cache') /\ \A m \in Loops : Measured(cache', ctx[m].root, loc[m])
    BY <1>1 DEF FullInv, BasisInv
<1> QED BY <1>1, <1>2, <1>5, <1>6, <1>7, <1>8, <1>9, <1>10, Shift DEF Rooted

\* A call without a session creates one; any other may find a plan in its own.
LEMMA BasisDecides ==
    ASSUME FullInv, NEW l \in Loops, Decides(l)
    PROVE  BasisInv'
<1> DEFINE new == Up(l).session = NoLoop
           s   == IF new THEN l ELSE Up(l).session
           k   == make_execution_context(l)
           own == [k EXCEPT !.session = s]
           hit == ~new /\ Key(l) \in DOMAIN snapshots[s]
           c   == inherit_execution_lineage(l, own)
           p   == IF hit THEN snapshots[s][Key(l)] ELSE NoMemo
<1>1. Own(l) /\ pc[l] = "called" /\ UNCHANGED cache
    BY Whole, OwnDecides DEF Decides
<1>2. /\ ctx' = [ctx EXCEPT ![l] = c] /\ pc' = [pc EXCEPT ![l] = "epoch"]
      /\ loc' = [loc EXCEPT ![l].path = "main", ![l].memo = p]
      /\ snapshots' = IF new THEN [snapshots EXCEPT ![l] = <<>>] ELSE snapshots
    BY DEF Decides
<1>3. /\ loc[l].memo = NoMemo /\ loc[l].generation = 0 /\ running[l] = {}
      /\ pc[l] # "idle"
    BY <1>1, Unbegun
<1>4. k \in Context /\ k.session = NoLoop /\ Line(l, k, ctx[Parent[l]])
      /\ (~Nested(l) => k.root = ctx[l].root)
    BY <1>3, MakeLine
<1>5. /\ Nested(l) => Parent[l] \in Loops /\ Up(l) = ctx[Parent[l]]
                      /\ pc[Parent[l]] \in Executing
      /\ ~Nested(l) => Up(l).session = NoLoop
    BY <1>3, Whole, UpFacts, Held DEF NoContext
<1>6. ~new => /\ Nested(l) /\ s \in {Parent[l]} \cup Around[Parent[l]]
              /\ s \in Loops /\ s \in Around[l] /\ ctx[s].root = ctx[Parent[l]].root
    <2>1. SUFFICES ASSUME ~new
                   PROVE  /\ Nested(l) /\ s \in {Parent[l]} \cup Around[Parent[l]]
                          /\ s \in Loops /\ s \in Around[l]
                          /\ ctx[s].root = ctx[Parent[l]].root
        OBVIOUS
    <2>2. Nested(l) /\ s = ctx[Parent[l]].session
        BY <1>5, <2>1
    <2>3. Parent[l] \in Loops /\ pc[Parent[l]] \notin {"idle", "called"}
        BY <1>5, <2>2 DEF Executing
    <2>4. s \in {Parent[l]} \cup Around[Parent[l]]
        BY <1>5, <2>1, <2>2, <2>3, LineOf DEF Line
    <2>5. s \in Loops /\ ctx[s].root = ctx[Parent[l]].root
        BY <2>3, <2>4, Whole, AroundRoot
    <2> QED BY <2>2, <2>4, <2>5, AroundParent
<1> HIDE DEF k
<1>7. own \in Context /\ own.root = k.root /\ own.session = s
    <2>1. s \in Loops
        BY <1>6
    <2> HIDE DEF s
    <2> QED BY <1>4, <2>1 DEF Context
<1>8. Line(l, own, ctx[Parent[l]])
    BY <1>4, <1>6, <1>7 DEF Line
<1> HIDE DEF own
<1>9. Line(l, c, ctx[Parent[l]]) /\ c.root = k.root
    BY <1>3, <1>7, <1>8, InheritLine
<1> HIDE DEF c
<1>10. hit => p.basis.by = c.root
    <2>1. SUFFICES ASSUME hit PROVE snapshots[s][Key(l)].basis.by = c.root
        OBVIOUS
    <2>2. s \in Loops /\ Nested(l) /\ ctx[s].root = ctx[Parent[l]].root
        BY <1>6, <2>1
    <2>3. snapshots[s][Key(l)].basis.by = ctx[s].root
        BY <2>1, <2>2, Whole DEF BasisInv, SessionsOK
    <2>4. c.root = ctx[Parent[l]].root
        BY <1>9, <2>2 DEF Line
    <2> QED BY <2>2, <2>3, <2>4
<1>11. ~hit => p.plan = NoPlan
    BY DEF NoMemo
<1> HIDE DEF p, hit
<1>12. /\ pc'[l] = "epoch" /\ ctx'[l] = c /\ loc'[l].memo = p
       /\ loc'[l].generation = loc[l].generation
    BY <1>2, Whole DEF Locals
<1>13. cache.generation \in Nat
    BY Whole DEF CacheOK
<1>14. Recalled(pc'[l], ctx'[l].root, loc'[l]) /\ Measured(cache, ctx'[l].root, loc'[l])
    BY <1>3, <1>10, <1>11, <1>12, <1>13 DEF Recalled, Measured
<1>15. \A m \in Loops \ {l} : Settled(m)
    BY <1>1 DEF Own, Moves, Settled
<1>16. SessionsOK'
    <2>1. SessionsOK /\ snapshots = [m \in Loops |-> snapshots[m]]
        BY Whole DEF BasisInv, Inv, GlobalInv
    <2>2. ASSUME NEW m \in Loops, NEW x \in DOMAIN snapshots'[m]
          PROVE  pc'[m] \notin {"idle", "called"} /\ snapshots'[m][x].basis.by = ctx'[m].root
        <3>1. DOMAIN snapshots[l] = {}
            BY <1>1, <2>1 DEF SessionsOK
        <3>2. m # l /\ snapshots'[m] = snapshots[m]
            BY <1>2, <2>1, <2>2, <3>1
        <3> QED BY <1>15, <2>1, <2>2, <3>2 DEF SessionsOK, Settled
    <2> QED BY <2>2 DEF SessionsOK
<1>17. PlansOK(cache) /\ \A m \in Loops : Measured(cache, ctx[m].root, loc[m])
    BY Whole DEF BasisInv
<1> QED BY <1>1, <1>3, <1>9, <1>12, <1>14, <1>15, <1>16, <1>17, Shift DEF Rooted

\* Steps after which the call has the plan, the profile and the place it had.
LEMMA PlanOnly ==
    ASSUME FullInv, NEW l \in Loops, NEW p, loc' = [loc EXCEPT ![l].plan = p]
    PROVE  SameMemo(l)
BY Whole DEF SameMemo, Locals

LEMMA BasisCold ==
    ASSUME FullInv, NEW l \in Loops,
           AnalyticalCold(l) \/ PilotCold(l) \/ DirectCold(l) \/ AfterPilot(l)
    PROVE  BasisInv'
<1>1. Own(l)
    BY Whole, OwnAnalyticalCold, OwnPilotCold, OwnDirectCold, OwnAfterPilot
<1>2. /\ UNCHANGED <<cache, snapshots>> /\ pc[l] \in {"cold", "pilot"}
      /\ ctx[l] \in Context /\ ctx = [m \in Loops |-> ctx[m]] /\ pc = [m \in Loops |-> pc[m]]
    BY Whole DEF AnalyticalCold, PilotCold, DirectCold, AfterPilot, Elsewhere
<1>3. Line(l, ctx[l], ctx[Parent[l]])
    BY <1>2, LineOf
<1>4. \E p \in Plans, q \in {"learning", "pilot"} :
        /\ loc' = [loc EXCEPT ![l].plan = p] /\ pc' = [pc EXCEPT ![l] = q]
        /\ \/ ctx' = [ctx EXCEPT ![l] = ColdContext(l, p)]
           \/ ctx' = [ctx EXCEPT ![l] = inherit_execution_lineage(l, ColdContext(l, p))]
    <2>0. Sequential \in Plans
        BY PlanTypes
    <2>1. CASE AnalyticalCold(l)
        <3> DEFINE p == Parallel("ThreadPool", Lesser(ctx[l].grant, Total[l]))
        <3>1. p \in Plans
            <4>1. ctx[l].grant \in Nat \ {0} /\ Total[l] \in Nat \ {0}
                BY <1>2, Constants DEF Context
            <4>2. Lesser(ctx[l].grant, Total[l]) \in Nat \ {0}
                BY <4>1 DEF Lesser
            <4> QED BY <4>2 DEF Parallel, Plans, Engines
        <3>2. /\ loc' = [loc EXCEPT ![l].plan = p] /\ pc' = [pc EXCEPT ![l] = "learning"]
              /\ ctx' = [ctx EXCEPT ![l] = ColdContext(l, p)]
            BY <2>1 DEF AnalyticalCold, Executes
        <3> HIDE DEF p
        <3> QED BY <3>1, <3>2
    <2>2. CASE PilotCold(l)
        BY <2>0, <2>2 DEF PilotCold, Executes
    <2>3. CASE DirectCold(l)
        BY <2>0, <2>3 DEF DirectCold, Executes
    <2>4. CASE AfterPilot(l)
        <3>1. PICK promoted \in BOOLEAN :
                LET rest == Total[l] - 1
                    plan == IF promoted THEN Parallel("ThreadPool", Lesser(ctx[l].grant, rest))
                            ELSE Sequential
                IN  /\ promoted => rest > 1
                    /\ Executes(l, "learning", ColdContext(l, plan), Items(l) \ {0})
                    /\ loc' = [loc EXCEPT ![l].plan = plan]
            BY <2>4, Zenon DEF AfterPilot
        <3> DEFINE rest == Total[l] - 1
                   p == IF promoted THEN Parallel("ThreadPool", Lesser(ctx[l].grant, rest))
                        ELSE Sequential
        <3>2. p \in Plans
            <4>1. ctx[l].grant \in Nat \ {0} /\ Total[l] \in Nat \ {0} /\ (promoted => rest > 1)
                BY <1>2, <3>1, Constants DEF Context
            <4>2. promoted => Lesser(ctx[l].grant, rest) \in Nat \ {0}
                BY <4>1 DEF Lesser
            <4> HIDE DEF rest
            <4> QED BY <2>0, <4>2 DEF Parallel, Plans, Engines
        <3>3. /\ loc' = [loc EXCEPT ![l].plan = p] /\ pc' = [pc EXCEPT ![l] = "learning"]
              /\ ctx' = [ctx EXCEPT ![l] = ColdContext(l, p)]
            BY <3>1 DEF Executes
        <3> HIDE DEF p
        <3> QED BY <3>2, <3>3
    <2> QED BY <2>1, <2>2, <2>3, <2>4
<1>5. PICK p \in Plans, q \in {"learning", "pilot"} :
        /\ loc' = [loc EXCEPT ![l].plan = p] /\ pc' = [pc EXCEPT ![l] = q]
        /\ \/ ctx' = [ctx EXCEPT ![l] = ColdContext(l, p)]
           \/ ctx' = [ctx EXCEPT ![l] = inherit_execution_lineage(l, ColdContext(l, p))]
    BY <1>4
<1> DEFINE c == ColdContext(l, p)
<1>6. c \in Context /\ c.root = ctx[l].root /\ c.session = ctx[l].session
    BY <1>2, Whole, ColdLine, ColdOK
<1> HIDE DEF c
<1>7. Line(l, c, ctx[Parent[l]])
    BY <1>3, <1>6, LineSame
<1>8. /\ inherit_execution_lineage(l, c).root = c.root
      /\ Line(l, inherit_execution_lineage(l, c), ctx[Parent[l]])
    BY <1>2, <1>6, <1>7, InheritLine
<1>9. ctx'[l] = c \/ ctx'[l] = inherit_execution_lineage(l, c)
    BY <1>2, <1>5 DEF c
<1>10. ctx'[l].root = ctx[l].root /\ Line(l, ctx'[l], ctx[Parent[l]])
    BY <1>6, <1>7, <1>8, <1>9
<1>11. pc'[l] \in {"learning", "pilot"}
    BY <1>2, <1>5
<1>12. SameMemo(l)
    BY <1>5, PlanOnly
<1> QED BY <1>1, <1>2, <1>10, <1>11, <1>12, SameItself, ShiftPlain

LEMMA BasisFastPath ==
    ASSUME FullInv, NEW l \in Loops, FastPath(l)
    PROVE  BasisInv'
<1> DEFINE b == TinyWork(l) /\ config.frontier
           k == Planned(ctx[l], Sequential)
           c == [k EXCEPT !.sealed = b]
           i == inherit_execution_lineage(l, c)
<1>1. Own(l) /\ pc[l] = "chosen"
    BY Whole, OwnFastPath DEF FastPath
<1>2. /\ pc' = [pc EXCEPT ![l] = "fast"] /\ ctx' = [ctx EXCEPT ![l] = i]
      /\ loc' = [loc EXCEPT ![l].plan = Sequential] /\ UNCHANGED snapshots
      /\ cache' = note_sequential_fast_path_use(cache, Key(l))
    BY DEF FastPath, Executes, Elsewhere
<1>3. Line(l, ctx[l], ctx[Parent[l]])
    BY <1>1, LineOf
<1>4. k \in Context /\ k.root = ctx[l].root /\ k.session = ctx[l].session
    <2>1. Sequential \in Plans /\ ctx[l] \in Context
        BY Whole, PlanTypes
    <2> QED BY <2>1, PlannedOK, PlannedLine
<1>5. b \in BOOLEAN
    OBVIOUS
<1> HIDE DEF b, k
<1>6. c \in Context /\ c.root = k.root /\ c.session = k.session
    BY <1>4, <1>5, SealedOK, SealedLine
<1> HIDE DEF c
<1>7. Line(l, c, ctx[Parent[l]])
    BY <1>3, <1>4, <1>6, LineSame
<1>8. i.root = ctx[l].root /\ Line(l, i, ctx[Parent[l]])
    BY <1>1, <1>4, <1>6, <1>7, InheritLine
<1> HIDE DEF i
<1>9. pc'[l] = "fast" /\ ctx'[l] = i
    BY <1>2, Whole
<1>10. SameMemo(l)
    BY <1>2, PlanOnly
<1>11. SameProfiles(cache, cache')
    BY <1>2, Whole, NoteFastOK
<1> QED BY <1>1, <1>2, <1>8, <1>9, <1>10, <1>11, ShiftPlain

\* Steps that leave the context alone.
LEMMA ShiftQuiet ==
    ASSUME FullInv, NEW l \in Loops, Own(l), SameProfiles(cache, cache'),
           UNCHANGED <<snapshots, ctx>>, pc[l] \notin {"idle", "called"}, SameMemo(l),
           pc'[l] \notin {"idle", "called", "publish"}, pc'[l] = "find" => loc[l].memo.plan = NoPlan,
           pc'[l] \in {"select", "prepare"} => pc[l] \in {"publish", "select", "prepare"}
    PROVE  BasisInv'
<1>1. Line(l, ctx[l], ctx[Parent[l]])
    BY LineOf
<1> QED BY <1>1, ShiftPlain

LEMMA BasisLookup ==
    ASSUME FullInv, NEW l \in Loops, ReadEpoch(l) \/ Revalidate(l) \/ BuildProfile(l)
    PROVE  BasisInv'
<1>1. Own(l)
    BY Whole, OwnReadEpoch, OwnRevalidate, OwnBuildProfile
<1>2. UNCHANGED <<snapshots, ctx>> /\ pc[l] \in {"epoch", "revalidate", "build"}
    BY DEF ReadEpoch, Revalidate, BuildProfile, Elsewhere
<1>3. SameMemo(l) /\ SameProfiles(cache, cache')
    <2>0. CacheOK(cache) /\ loc[l] \in Locals /\ loc = [m \in Loops |-> loc[m]]
        BY Whole
    <2>1. CASE ReadEpoch(l)
        BY <2>0, <2>1, SameItself DEF SameMemo, Locals, ReadEpoch
    <2>2. CASE Revalidate(l)
        <3>1. \E x, y : loc' = [loc EXCEPT ![l].revalidates = x, ![l].cost = y]
            BY <2>2, Zenon DEF Revalidate
        <3>2. SameMemo(l)
            BY <2>0, <3>1 DEF SameMemo, Locals
        <3>3. cache' = try_acquire_revalidation(cache, Key(l))
            BY <2>2 DEF Revalidate
        <3> QED BY <2>0, <3>2, <3>3, MarkersApart
    <2>3. CASE BuildProfile(l)
        <3>1. \E x, y : loc' = [loc EXCEPT ![l].builds = x, ![l].stores = y]
            BY <2>3, Zenon DEF BuildProfile
        <3>2. SameMemo(l)
            BY <2>0, <3>1 DEF SameMemo, Locals
        <3>3. cache' = try_acquire_profile_build(cache, Key(l))
            BY <2>3 DEF BuildProfile
        <3> QED BY <2>0, <3>2, <3>3, MarkersApart
    <2> QED BY <2>1, <2>2, <2>3
<1>5. /\ pc'[l] \in {"find", "build", "cold", "chosen", "sample", "decide"}
      /\ pc'[l] = "find" => loc[l].memo.plan = NoPlan
    <2>1. SampleOrDecide \in {"sample", "decide"}
        BY DEF SampleOrDecide
    <2>2. Unprofiled(TRUE) \in {"build", "cold", "sample", "decide"}
        BY <2>1 DEF Unprofiled
    <2>3. CASE ReadEpoch(l)
        BY <2>1, <2>3, Whole DEF ReadEpoch, Remembers
    <2>4. CASE Revalidate(l)
        BY <2>2, <2>4, Whole DEF Revalidate
    <2>5. CASE BuildProfile(l)
        BY <2>5, Whole DEF BuildProfile
    <2> QED BY <2>3, <2>4, <2>5
<1> QED BY <1>1, <1>2, <1>3, <1>5, ShiftQuiet

\* Steps that touch no cache.
LEMMA BasisQuiet ==
    ASSUME FullInv, NEW l \in Loops,
           \/ LearnEpoch(l) \/ Sample(l) \/ NoFastPath(l) \/ DirectEnds(l) \/ FastEnds(l)
           \/ ExecutionEnds(l) \/ RecordBackend(l) \/ SelectBackend(l)
    PROVE  BasisInv'
<1>1. Own(l)
    BY Whole, OwnLearnEpoch, OwnSample, OwnNoFastPath, OwnEnds, OwnSelectBackend
<1>2. UNCHANGED <<cache, snapshots, ctx>>
    BY DEF LearnEpoch, Sample, NoFastPath, DirectEnds, FastEnds, ExecutionEnds,
           RecordBackend, SelectBackend, Elsewhere
<1>3. SameMemo(l)
    <2>1. CASE LearnEpoch(l)
        BY <2>1, Whole DEF SameMemo, Locals, LearnEpoch
    <2>2. CASE Sample(l)
        <3>1. \E p, s : loc' = [loc EXCEPT ![l].plan = p, ![l].sampled = s]
            BY <2>2, Zenon DEF Sample
        <3> QED BY <3>1, Whole DEF SameMemo, Locals
    <2>3. CASE SelectBackend(l)
        <3>1. \E e : loc' = [loc EXCEPT ![l].plan.engine = e]
            BY <2>3, Zenon DEF SelectBackend
        <3> QED BY <3>1, Whole DEF SameMemo, Locals
    <2>4. CASE loc' = loc
        BY <2>4 DEF SameMemo
    <2>5. LearnEpoch(l) \/ Sample(l) \/ SelectBackend(l) \/ loc' = loc
        BY DEF NoFastPath, DirectEnds, FastEnds, ExecutionEnds, RecordBackend
    <2> QED BY <2>1, <2>2, <2>3, <2>4, <2>5
<1>4. /\ pc[l] \notin {"idle", "called"}
      /\ pc'[l] \in {"learned", "sampling", "decide", "done", "record", "prepare"}
      /\ pc'[l] = "prepare" => pc[l] = "select"
    BY Whole DEF LearnEpoch, Sample, NoFastPath, DirectEnds, FastEnds, ExecutionEnds,
           RecordBackend, SelectBackend
<1> QED BY <1>1, <1>2, <1>3, <1>4, SameItself, ShiftQuiet

LEMMA BasisFindProfile ==
    ASSUME FullInv, NEW l \in Loops, FindProfile(l)
    PROVE  BasisInv'
<1> DEFINE e == Found(cache, Key(l))
<1>1. Own(l) /\ pc[l] = "find" /\ UNCHANGED <<snapshots, ctx>>
      /\ cache' = find(cache, Key(l))
    BY Whole, OwnFindProfile DEF FindProfile, Elsewhere
<1>2. PICK aged \in BOOLEAN :
        LET due == e # NoEntry /\ RevalidationDue(e, aged)
            hit == e # NoEntry /\ ~due
        IN  /\ loc' = [loc EXCEPT ![l].entry = e, ![l].generation = e.generation,
                         ![l].cost = IF hit THEN e.cost ELSE "none"]
            /\ pc' = [pc EXCEPT ![l] = CASE hit -> "chosen"
                                         [] due -> "revalidate"
                                         [] OTHER -> Unprofiled(FALSE)]
    BY <1>1, Zenon DEF FindProfile
<1>3. e.generation <= cache.generation /\ cache.generation \in Nat
    <2>1. PlansOK(cache) /\ CacheOK(cache)
        BY Whole DEF BasisInv
    <2>2. CASE Key(l) \in Known(cache)
        BY <2>1, <2>2 DEF Found, PlansOK, CacheOK
    <2>3. CASE Key(l) \notin Known(cache)
        BY <2>1, <2>3 DEF Found, NoEntry, CacheOK
    <2> QED BY <2>2, <2>3
<1> HIDE DEF e
<1>4. \E x : loc' = [loc EXCEPT ![l].entry = e, ![l].generation = e.generation, ![l].cost = x]
    BY <1>2, Zenon
<1>5. loc'[l].memo = loc[l].memo /\ loc'[l].generation = e.generation
    BY <1>4, Whole DEF Locals
<1>6. loc[l].memo.plan = NoPlan
    BY <1>1, Whole DEF BasisInv, Recalled
<1>7. pc'[l] \in {"chosen", "revalidate", "build", "cold", "sample", "decide"}
    <2>1. Unprofiled(FALSE) \in {"build", "cold", "sample", "decide"}
        BY DEF Unprofiled, SampleOrDecide
    <2> DEFINE due == e # NoEntry /\ RevalidationDue(e, aged)
               hit == e # NoEntry /\ ~due
               q == CASE hit -> "chosen" [] due -> "revalidate"
                      [] OTHER -> Unprofiled(FALSE)
    <2>2. pc'[l] = q
        BY <1>2, Whole
    <2> HIDE DEF due, hit
    <2> QED BY <2>1, <2>2
<1>8. Recalled(pc'[l], ctx'[l].root, loc'[l]) /\ Measured(cache, ctx'[l].root, loc'[l])
    BY <1>3, <1>5, <1>6, <1>7 DEF Recalled, Measured
<1>9. SameProfiles(cache, cache')
    BY <1>1, Whole, FindOK
<1>10. Line(l, ctx[l], ctx[Parent[l]])
    BY <1>1, LineOf
<1> QED BY <1>1, <1>7, <1>8, <1>9, <1>10, ShiftAlone DEF Rooted

\* A store publishes a generation that nobody has, of the root call.
LEMMA BasisStores ==
    ASSUME FullInv, NEW l \in Loops, Own(l), NEW c \in Costs, NEW r \in BOOLEAN,
           NEW q \in {"done", "decide"}, Stores(l, c, r, q), pc[l] \notin {"idle", "called"}
    PROVE  BasisInv'
<1> DEFINE p == Observation(l, c, r)
           e == loc[l].since
           g == StoredGeneration(cache, Key(l), e)
           root == ctx[l].root
<1>1. CallsInv /\ loc[l] \in Locals /\ ctx[l] \in Context /\ CacheOK(cache)
      /\ (loc[l].path = "inherited" \/ loc[l].since = loc[l].began)
    BY Whole, CallFacts DEF CallOK, Flagged
<1>2. /\ p.cost = c /\ p.reliable = r /\ p.nested = ctx[l].nested /\ p.group = root
      /\ p.since = loc[l].began /\ p.lax = (loc[l].path = "inherited")
    BY DEF Observation
<1>3. ctx[l].nested \in BOOLEAN /\ root \in Nat /\ loc[l].began \in Nat
    BY <1>1 DEF Context, Locals
<1>4. ObservationOK(p, e)
    BY <1>1, <1>2, <1>3 DEF ObservationOK
<1>5. /\ cache' = store(cache, Key(l), p, e) /\ UNCHANGED <<snapshots, ctx>>
      /\ loc' = [loc EXCEPT ![l].cost = c, ![l].generation = g]
      /\ pc' = [pc EXCEPT ![l] = q]
    BY DEF Stores, Elsewhere
<1> HIDE DEF p, e, g
<1>6. \/ cache' = cache /\ g = 0
      \/ Published(cache, cache', Key(l), root) /\ g = cache.generation + 1
    BY <1>1, <1>2, <1>4, <1>5, StoreOK DEF g
<1>7. loc'[l].memo = loc[l].memo /\ loc'[l].generation = g /\ pc'[l] = q
    BY <1>5, Whole DEF Locals
<1>8. PlansOK(cache) /\ cache.generation \in Nat
      /\ \A m \in Loops : Measured(cache, ctx[m].root, loc[m]) /\ loc[m].generation \in Nat
    BY Whole DEF BasisInv, CacheOK, Locals
<1>9. Recalled(q, root, loc'[l])
    <2>1. Recalled(pc[l], root, loc[l])
        BY Whole DEF BasisInv
    <2> QED BY <1>7, <2>1 DEF Recalled
<1>10. /\ PlansOK(cache') /\ Measured(cache', root, loc'[l])
       /\ \A m \in Loops : Measured(cache', ctx[m].root, loc[m])
    <2>1. CASE cache' = cache /\ g = 0
        BY <1>7, <1>8, <2>1 DEF Measured
    <2>2. CASE Published(cache, cache', Key(l), root) /\ g = cache.generation + 1
        <3>0. \A k \in Known(cache) : cache.entries[k].generation \in Nat
            BY <1>1 DEF CacheOK, CacheEntry
        <3>1. PlansOK(cache')
            BY <1>8, <2>2, <3>0 DEF PlansOK, Matches, Published
        <3>2. Measured(cache', root, loc'[l])
            <4>1. g <= cache'.generation
                BY <1>8, <2>2 DEF Published
            <4>2. ASSUME NEW k \in Known(cache'), cache'.entries[k].generation = g
                  PROVE  cache'.entries[k].group = root
                BY <1>8, <2>2, <3>0, <4>2 DEF Published, PlansOK
            <4> QED BY <1>7, <4>1, <4>2 DEF Measured
        <3>3. ASSUME NEW m \in Loops PROVE Measured(cache', ctx[m].root, loc[m])
            <4>1. loc[m].generation <= cache'.generation
                BY <1>8, <2>2 DEF Published, Measured
            <4>2. ASSUME NEW k \in Known(cache'),
                         cache'.entries[k].generation = loc[m].generation
                  PROVE  k \in Known(cache) /\ cache'.entries[k] = cache.entries[k]
                BY <1>8, <2>2, <4>2 DEF Published, Measured
            <4> QED BY <1>8, <4>1, <4>2 DEF Measured
        <3> QED BY <3>1, <3>2, <3>3
    <2> QED BY <1>6, <2>1, <2>2
<1>11. \A m \in Loops \ {l} : Settled(m)
    BY DEF Own, Moves, Settled
<1>12. SessionsOK'
    BY <1>5, <1>7, <1>11, SessionsKept
<1>13. Line(l, ctx[l], ctx[Parent[l]])
    BY LineOf
<1>14. running[l] = {}
    BY DEF Own
<1> QED BY <1>5, <1>7, <1>9, <1>10, <1>11, <1>12, <1>13, <1>14, Shift DEF Rooted

LEMMA BasisLearn ==
    ASSUME FullInv, NEW l \in Loops,
           LearnCold(l) \/ LearnDescendant(l) \/ LearnSample(l)
    PROVE  BasisInv'
<1>1. Own(l) /\ pc[l] \in {"learning", "learned", "sampling"}
    BY Whole, OwnLearnCold, OwnLearnDescendant, OwnLearnSample
       DEF LearnCold, LearnDescendant, LearnSample
<1>2. config.signals \subseteq BOOLEAN /\ config.costs \subseteq Costs
    BY Whole, Typing, Constants
<1>3. CASE LearnCold(l) /\ loc[l].stores
    <2>1. PICK c \in config.costs, r \in config.signals :
            Stores(l, c, r /\ ~loc[l].plan.parallel, "done")
        BY <1>3 DEF LearnCold
    <2> DEFINE b == r /\ ~loc[l].plan.parallel
    <2>2. b \in BOOLEAN /\ Stores(l, c, b, "done")
        BY <2>1
    <2> HIDE DEF b
    <2> QED BY <1>1, <1>2, <2>1, <2>2, BasisStores
<1>4. CASE LearnCold(l) /\ ~loc[l].stores
    <2>1. UNCHANGED <<cache, snapshots, ctx, loc>> /\ pc' = [pc EXCEPT ![l] = "done"]
        BY <1>4 DEF LearnCold, Elsewhere
    <2>2. pc'[l] = "done" /\ SameMemo(l)
        BY <2>1, Whole DEF SameMemo
    <2> QED BY <1>1, <2>1, <2>2, SameItself, ShiftQuiet
<1>5. CASE LearnDescendant(l)
    <2>1. PICK c \in config.costs, r \in config.signals : Stores(l, c, r, "done")
        BY <1>5 DEF LearnDescendant
    <2> QED BY <1>1, <1>2, <2>1, BasisStores
<1>6. CASE LearnSample(l)
    <2>1. PICK c \in config.costs, r \in config.signals : Stores(l, c, r, "decide")
        BY <1>6 DEF LearnSample
    <2> QED BY <1>1, <1>2, <2>1, BasisStores
<1> QED BY <1>3, <1>4, <1>5, <1>6

LEMMA BasisDecide ==
    ASSUME FullInv, NEW l \in Loops, Decide(l)
    PROVE  BasisInv'
<1>1. Own(l) /\ pc[l] = "decide" /\ UNCHANGED <<snapshots, ctx>>
    BY Whole, OwnDecide DEF Decide, Elsewhere
<1>2. PICK p, s, x, q : /\ loc' = [loc EXCEPT ![l].plan = p, ![l].basis = Basis(l),
                                              ![l].stable = s, ![l].calibrates = x]
                        /\ pc' = [pc EXCEPT ![l] = q]
                        /\ q \in {"publish", "select", "prepare"}
    <2>1. PICK requested \in Requested(l), worthwhile \in BOOLEAN :
            LET plan == Limited(l, NestedFrontier(l, requested, worthwhile)) IN
              /\ loc' = [loc EXCEPT ![l].plan = plan, ![l].basis = Basis(l),
                                    ![l].stable = StableHit(l),
                                    ![l].calibrates = Eligible(l, plan)]
              /\ pc' = [pc EXCEPT ![l] =
                          IF Profiled(l) /\ ~StableHit(l) /\ loc[l].generation # 0
                          THEN "publish" ELSE AfterDecision(l, plan)]
        BY Zenon DEF Decide
    <2> DEFINE plan == Limited(l, NestedFrontier(l, requested, worthwhile))
               q == IF Profiled(l) /\ ~StableHit(l) /\ loc[l].generation # 0
                    THEN "publish" ELSE AfterDecision(l, plan)
    <2>2. q \in {"publish", "select", "prepare"}
        BY DEF AfterDecision
    <2>3. /\ loc' = [loc EXCEPT ![l].plan = plan, ![l].basis = Basis(l),
                                ![l].stable = StableHit(l),
                                ![l].calibrates = Eligible(l, plan)]
          /\ pc' = [pc EXCEPT ![l] = q]
        BY <2>1
    <2> HIDE DEF plan, q
    <2> QED BY <2>2, <2>3
<1>3. /\ loc'[l].memo = loc[l].memo /\ loc'[l].generation = loc[l].generation
      /\ loc'[l].basis = Basis(l) /\ pc'[l] = q
    BY <1>2, Whole DEF Locals
<1>4. Recalled(pc[l], ctx[l].root, loc[l]) /\ Measured(cache, ctx[l].root, loc[l])
    BY Whole DEF BasisInv
<1>5. Basis(l).by = ctx[l].root /\ (Basis(l).of = loc[l].generation \/ Remembers(l))
    BY <1>4 DEF Basis, Remembers, Recalled
<1>6. Recalled(pc'[l], ctx[l].root, loc'[l]) /\ Measured(cache, ctx[l].root, loc'[l])
    BY <1>2, <1>3, <1>4, <1>5 DEF Recalled, Measured, Remembers
<1>7. SameProfiles(cache, cache')
    <2>1. cache' = cache \/ cache' = note_stable_plan_use(cache, Key(l))
        BY DEF Decide
    <2> QED BY <2>1, Whole, NoteStableOK, SameItself
<1>8. Line(l, ctx[l], ctx[Parent[l]])
    BY <1>1, LineOf
<1> QED BY <1>1, <1>2, <1>3, <1>6, <1>7, <1>8, ShiftAlone DEF Rooted

\* A plan of the session is installed only beside an observation of the call's
\* own root.
LEMMA BasisPublishPlan ==
    ASSUME FullInv, NEW l \in Loops, PublishPlan(l)
    PROVE  BasisInv'
<1> DEFINE k == Key(l)
           b == loc[l].basis
           g == loc[l].generation
<1>1. Own(l) /\ pc[l] = "publish" /\ UNCHANGED <<snapshots, ctx, loc>>
      /\ pc' = [pc EXCEPT ![l] = AfterDecision(l, loc[l].plan)]
      /\ cache' = store_stable_plan(cache, k, loc[l].plan, g, b)
    BY Whole, OwnPublishPlan DEF PublishPlan, Elsewhere
<1>2. AfterDecision(l, loc[l].plan) \in {"select", "prepare"}
    BY DEF AfterDecision
<1>3. pc'[l] \in {"select", "prepare"}
    BY <1>1, <1>2, Whole
<1>4. CacheOK(cache) /\ loc[l].plan \in SomePlan /\ g \in Nat /\ b \in Bases
    BY Whole DEF Locals
<1> HIDE DEF k
<1>5. \/ SameProfiles(cache, cache')
      \/ /\ k \in Known(cache) /\ g # 0 /\ cache.entries[k].generation = g
         /\ Installed(cache, cache', k, b)
    <2> DEFINE p == loc[l].plan
               n == store_stable_plan(cache, k, p, g, b)
    <2>1. p \in SomePlan /\ cache' = n
        BY <1>1, <1>4
    <2> HIDE DEF p, g, b
    <2>2. \/ SameProfiles(cache, n)
          \/ /\ k \in Known(cache) /\ g # 0 /\ cache.entries[k].generation = g
             /\ Installed(cache, n, k, b)
        BY <1>4, <2>1, StorePlanOK, Zenon
    <2> HIDE DEF n
    <2> QED BY <2>1, <2>2
<1>6. Recalled("publish", ctx[l].root, loc[l]) /\ Measured(cache, ctx[l].root, loc[l])
      /\ PlansOK(cache) /\ \A m \in Loops : Measured(cache, ctx[m].root, loc[m])
    BY <1>1, Whole DEF BasisInv
<1>7. PlansOK(cache') /\ \A m \in Loops : Measured(cache', ctx[m].root, loc[m])
    <2>1. CASE SameProfiles(cache, cache')
        BY <1>6, <2>1, ProfilesKept
    <2>2. CASE /\ k \in Known(cache) /\ g # 0 /\ cache.entries[k].generation = g
               /\ Installed(cache, cache', k, b)
        <3>1. b.of = g \/ b.by = cache.entries[k].group
            BY <1>6, <2>2 DEF Recalled, Measured
        <3>2. Matches(cache'.entries[k])
            BY <2>2, <3>1 DEF Matches, Installed
        <3>3. PlansOK(cache')
            BY <1>6, <2>2, <3>2 DEF PlansOK, Installed
        <3>4. \A m \in Loops : Measured(cache', ctx[m].root, loc[m])
            BY <1>6, <2>2 DEF Measured, Installed
        <3> QED BY <3>3, <3>4
    <2> QED BY <1>5, <2>1, <2>2
<1>8. \A m \in Loops \ {l} : Settled(m)
    BY <1>1 DEF Own, Moves, Settled
<1>9. SessionsOK'
    BY <1>1, <1>3, <1>8, SessionsKept
<1>10. Line(l, ctx[l], ctx[Parent[l]])
    BY <1>1, LineOf
<1>11. Recalled(pc'[l], ctx[l].root, loc[l])
    BY <1>3, <1>6 DEF Recalled
<1>12. running[l] = {}
    BY <1>1 DEF Own
<1> QED BY <1>1, <1>3, <1>7, <1>8, <1>9, <1>10, <1>11, <1>12, Shift DEF Rooted

\* A session remembers a plan of its root call.
LEMMA BasisPrepare ==
    ASSUME FullInv, NEW l \in Loops, Prepare(l)
    PROVE  BasisInv'
<1>1. Own(l) /\ pc[l] = "prepare" /\ UNCHANGED cache
    BY Whole, OwnPrepare DEF Prepare
<1>2. PICK plan \in enforce_constraints(l, coordinate(l, loc[l].plan)) :
         /\ Executes(l, "execute",
              inherit_execution_lineage(l,
                [Planned(ctx[l], plan) EXCEPT !.sealed = plan.parallel /\ config.frontier]),
              Remaining(l))
         /\ loc' = [loc EXCEPT ![l].plan = plan]
         /\ snapshots' = IF Remembers(l) \/ loc[l].stable THEN snapshots
                         ELSE Remember(ctx[l].session, Key(l),
                                       [plan |-> plan, basis |-> loc[l].basis])
    BY Zenon DEF Prepare
<1>3. plan \in Plans
    <2>1. /\ loc[l].plan \in Plans /\ Up(l) \in Context /\ loc[l] \in Locals
          /\ (Nested(l) => Up(l) = ctx[Parent[l]])
        BY <1>1, Whole, CallFacts, UpFacts DEF CallOK, Flagged
    <2> DEFINE p == coordinate(l, loc[l].plan)
    <2>2. p \in Plans
        BY <2>1, CoordinateOK
    <2> HIDE DEF p
    <2> QED BY <1>2, <2>1, <2>2, EnforceOK DEF p
<1> DEFINE b == plan.parallel /\ config.frontier
           k == Planned(ctx[l], plan)
           c == [k EXCEPT !.sealed = b]
           i == inherit_execution_lineage(l, c)
<1>4. /\ pc' = [pc EXCEPT ![l] = "execute"] /\ ctx' = [ctx EXCEPT ![l] = i]
    BY <1>2 DEF Executes
<1>5. Line(l, ctx[l], ctx[Parent[l]])
    BY <1>1, LineOf
<1>6. k \in Context /\ k.root = ctx[l].root /\ k.session = ctx[l].session
    BY <1>3, Whole, PlannedOK, PlannedLine
<1>7. b \in BOOLEAN
    OBVIOUS
<1> HIDE DEF b, k
<1>8. c \in Context /\ c.root = k.root /\ c.session = k.session
    BY <1>6, <1>7, SealedOK, SealedLine
<1> HIDE DEF c
<1>9. Line(l, c, ctx[Parent[l]])
    BY <1>5, <1>6, <1>8, LineSame
<1>10. i.root = ctx[l].root /\ Line(l, i, ctx[Parent[l]])
    BY <1>1, <1>6, <1>8, <1>9, InheritLine
<1> HIDE DEF i
<1>11. pc'[l] = "execute" /\ ctx'[l] = i
    BY <1>4, Whole
<1>12. SameMemo(l)
    BY <1>2, PlanOnly
<1>13. Recalled(pc[l], ctx[l].root, loc[l]) /\ Measured(cache, ctx[l].root, loc[l])
       /\ PlansOK(cache) /\ \A m \in Loops : Measured(cache, ctx[m].root, loc[m])
    BY Whole DEF BasisInv
<1>14. /\ Recalled(pc'[l], ctx'[l].root, loc'[l]) /\ Measured(cache, ctx'[l].root, loc'[l])
       /\ loc[l].basis.by = ctx[l].root
    BY <1>1, <1>10, <1>11, <1>12, <1>13 DEF Recalled, Measured, SameMemo
<1>15. \A m \in Loops \ {l} : Settled(m)
    BY <1>1 DEF Own, Moves, Settled
<1>16. \A m \in Loops : ctx'[m].root = ctx[m].root
                        /\ (pc[m] \notin {"idle", "called"} => pc'[m] \notin {"idle", "called"})
    BY <1>10, <1>11, <1>15 DEF Settled
<1>17. SessionsOK'
    <2> DEFINE s == ctx[l].session
               x == Key(l)
               memo == [plan |-> plan, basis |-> loc[l].basis]
               f == [y \in DOMAIN snapshots[s] \cup {x} |->
                       IF y = x THEN memo ELSE snapshots[s][y]]
    <2>1. SessionsOK /\ snapshots = [m \in Loops |-> snapshots[m]]
        BY Whole DEF BasisInv, Inv, GlobalInv
    <2>2. snapshots' = snapshots \/ snapshots' = [snapshots EXCEPT ![s] = f]
        BY <1>2 DEF Remember
    <2>3. CASE snapshots' = snapshots
        BY <1>16, <2>1, <2>3 DEF SessionsOK
    <2>4. memo.basis.by = ctx[l].root
        BY <1>14
    <2>5. s \in Loops => ctx[s].root = ctx[l].root /\ pc[s] \notin {"idle", "called"}
        <3>1. s \in {NoLoop, l} \cup Around[l]
            BY <1>5 DEF Line
        <3>2. s \in Around[l] => ctx[s].root = ctx[l].root /\ pc[s] \in Executing
            BY <1>1, Whole, AroundRoot
        <3> QED BY <1>1, <3>1, <3>2, LoopAssumption DEF Executing
    <2> HIDE DEF memo
    <2>6. CASE snapshots' = [snapshots EXCEPT ![s] = f]
        <3>1. s \in Loops => \A y \in DOMAIN f : f[y].basis.by = ctx[s].root
            BY <2>1, <2>4, <2>5 DEF SessionsOK
        <3> HIDE DEF f, s
        <3>2. ASSUME NEW m \in Loops, NEW y \in DOMAIN snapshots'[m]
              PROVE  pc'[m] \notin {"idle", "called"}
                     /\ snapshots'[m][y].basis.by = ctx'[m].root
            <4>1. CASE m = s
                BY <1>16, <2>1, <2>5, <2>6, <3>1, <3>2, <4>1
            <4>2. CASE m # s
                BY <1>16, <2>1, <2>6, <3>2, <4>2 DEF SessionsOK
            <4> QED BY <4>1, <4>2
        <3> QED BY <3>2 DEF SessionsOK
    <2> QED BY <2>2, <2>3, <2>6
<1>18. running[l] = {}
    BY <1>1 DEF Own
<1> QED BY <1>1, <1>10, <1>11, <1>13, <1>14, <1>15, <1>17, <1>18, Shift DEF Rooted

\* Nobody's plans, profiles or places change, but a callback may call.
LEMMA BasisCallbacks ==
    ASSUME FullInv, NEW l \in Loops, Callback(l) \/ CallNested(l)
    PROVE  BasisInv'
<1>1. UNCHANGED <<cache, snapshots, ctx, loc>>
    BY DEF Callback, CallNested, Starts
<1>2. ASSUME NEW m \in Loops PROVE pc'[m] = pc[m] \/ (pc[m] = "idle" /\ pc'[m] = "called")
    <2>1. CASE Callback(l)
        BY <2>1 DEF Callback
    <2>2. CASE CallNested(l)
        <3>1. PICK i \in Items(l) : \E c \in Child(l, i) :
                Starts(l, i) /\ pc' = [pc EXCEPT ![c] = "called"]
            BY <2>2 DEF CallNested
        <3>2. PICK c \in Child(l, i) : Starts(l, i) /\ pc' = [pc EXCEPT ![c] = "called"]
            BY <3>1
        <3>3. c \in Loops /\ Parent[c] = l /\ At[c] = i /\ Nested(c)
            BY <3>2, LoopAssumption DEF Child, Nested
        <3>4. i \notin running[l]
            BY <3>2, Whole, StartsIs
        <3>5. pc[c] = "idle"
            BY <3>3, <3>4, Whole, Held
        <3> QED BY <3>2, <3>5, Whole
    <2> QED BY <2>1, <2>2
<1>3. SessionsOK /\ PlansOK(cache)
      /\ \A m \in Loops : /\ Rooted(m, pc[m], ctx[m], ctx[Parent[m]])
                          /\ Recalled(pc[m], ctx[m].root, loc[m])
                          /\ Measured(cache, ctx[m].root, loc[m])
    BY Whole DEF BasisInv
<1>4. SessionsOK'
    BY <1>1, <1>2, <1>3 DEF SessionsOK
<1>5. ASSUME NEW m \in Loops
      PROVE  /\ Rooted(m, pc'[m], ctx'[m], ctx'[Parent[m]])
             /\ Recalled(pc'[m], ctx'[m].root, loc'[m])
             /\ Measured(cache', ctx'[m].root, loc'[m])
    BY <1>1, <1>2, <1>3 DEF Rooted, Recalled, Measured
<1>6. \A m \in Loops : /\ Rooted(m, pc[m], ctx[m], ctx[Parent[m]])'
                       /\ Recalled(pc[m], ctx[m].root, loc[m])'
                       /\ Measured(cache, ctx[m].root, loc[m])'
    BY <1>5 DEF Rooted, Line, Nested
<1>7. PlansOK(cache)'
    BY <1>1, <1>3
<1> QED BY <1>4, <1>6, <1>7 DEF BasisInv

\* A session ends with the call that created it.
LEMMA BasisReturns ==
    ASSUME FullInv, NEW l \in Loops, Return(l) \/ Unwind(l)
    PROVE  BasisInv'
<1> DEFINE o == Parent[l]
           b == loc[l].path \in {"main", "inherited"}
<1>1. PICK ok : Ends(l, ok) /\ running[l] = {} /\ pc[l] # "idle"
    <2>1. CASE Return(l)
        <3>1. pc[l] = "done" /\ pc[l] \in Over /\ Ends(l, TRUE)
            BY <2>1 DEF Return, Over
        <3>2. running[l] = {}
            BY <3>1, Whole, CallFacts, PlacesApart
        <3> QED BY <3>1, <3>2
    <2>2. CASE Unwind(l)
        <3>1. pc[l] \in Executing /\ running[l] = {} /\ Ends(l, FALSE)
            BY <2>2 DEF Unwind
        <3> QED BY <3>1 DEF Executing
    <2> QED BY <2>1, <2>2
<1>2. /\ pc'[l] = "idle" /\ loc'[l] = NoLocals
      /\ \A m \in Loops \ {l} : pc'[m] = pc[m] /\ loc'[m] = loc[m]
    BY <1>1, Whole, CallsEnd
<1>3. ctx' = [c \in Loops |-> CASE c = l -> NoContext
                                [] c = o -> [ctx[c] EXCEPT !.nested = @ \/ b]
                                [] OTHER -> ctx[c]]
    BY <1>1, Zenon DEF Ends
<1>4. SameProfiles(cache, cache') /\ snapshots' = [snapshots EXCEPT ![l] = <<>>]
    BY <1>1, Whole, MarkersApart DEF Ends
<1> HIDE DEF b
<1>5. \A m \in Loops \ {l} : Settled(m)
    <2>1. ASSUME NEW m \in Loops \ {l}
          PROVE  ctx'[m].root = ctx[m].root /\ ctx'[m].session = ctx[m].session
        <3>1. ctx[m] \in Context
            BY Whole
        <3>2. ctx'[m] = ctx[m] \/ ctx'[m] = [ctx[m] EXCEPT !.nested = @ \/ b]
            BY <1>3
        <3> QED BY <3>1, <3>2 DEF Context
    <2> QED BY <1>2, <2>1 DEF Settled
<1>6. PlansOK(cache') /\ \A m \in Loops : Measured(cache', ctx[m].root, loc[m])
    BY <1>4, Whole, ProfilesKept DEF BasisInv
<1>7. cache'.generation \in Nat
    BY <1>4, Whole DEF SameProfiles, CacheOK
<1>8. Recalled(pc'[l], ctx'[l].root, loc'[l]) /\ Measured(cache', ctx'[l].root, loc'[l])
    BY <1>2, <1>7 DEF Recalled, Measured, NoLocals, NoMemo
<1>9. SessionsOK'
    <2>1. SessionsOK /\ snapshots = [m \in Loops |-> snapshots[m]]
        BY Whole DEF BasisInv, Inv, GlobalInv
    <2>2. ASSUME NEW m \in Loops, NEW x \in DOMAIN snapshots'[m]
          PROVE  pc'[m] \notin {"idle", "called"} /\ snapshots'[m][x].basis.by = ctx'[m].root
        <3>1. m # l /\ snapshots'[m] = snapshots[m]
            BY <1>4, <2>1, <2>2
        <3> QED BY <1>5, <2>1, <2>2, <3>1 DEF SessionsOK, Settled
    <2> QED BY <2>2 DEF SessionsOK
<1>10. Rooted(l, pc'[l], ctx'[l], ctx[Parent[l]])
    BY <1>2 DEF Rooted
<1> QED BY <1>1, <1>2, <1>5, <1>6, <1>8, <1>9, <1>10, Shift

LEMMA BasisAdministration ==
    ASSUME FullInv,
           \/ AdmissionRefused \/ ClearProfiles \/ ClearCalibration
           \/ FreezeRevalidation \/ FreezeCalibration \/ UNCHANGED vars
    PROVE  BasisInv'
<1>1. UNCHANGED <<local, snapshots>>
    BY DEF AdmissionRefused, ClearProfiles, ClearCalibration, FreezeRevalidation,
           FreezeCalibration, Administers
<1>2. SameProfiles(cache, cache') /\ PlansOK(cache)
    <2>1. \/ cache' = cache \/ cache' = clear(cache)
          \/ cache' = [cache EXCEPT !.frozen = ~@]
        BY DEF AdmissionRefused, ClearProfiles, ClearCalibration, FreezeRevalidation,
               FreezeCalibration
    <2>2. CacheOK(cache) /\ PlansOK(cache)
        BY DEF FullInv, AllInv, Inv, GlobalInv, BasisInv
    <2> QED BY <2>1, <2>2, SameItself, ClearOK, MarkersApart
<1>3. PlansOK(cache') /\ \A m \in Loops : Measured(cache', ctx[m].root, loc[m])
    BY <1>2, ProfilesKept DEF FullInv, BasisInv
<1>4. SessionsOK'
    BY <1>1 DEF FullInv, BasisInv, SessionsOK
<1>5. \A m \in Loops : /\ Rooted(m, pc[m], ctx[m], ctx[Parent[m]])'
                       /\ Recalled(pc[m], ctx[m].root, loc[m])'
    BY <1>1 DEF FullInv, BasisInv, Rooted, Line, Nested, Recalled
<1>6. \A m \in Loops : Measured(cache, ctx[m].root, loc[m])'
    BY <1>1, <1>3
<1>7. PlansOK(cache)'
    BY <1>3
<1> QED BY <1>4, <1>5, <1>6, <1>7 DEF BasisInv

LEMMA InitFullInv == Init => FullInv
<1> SUFFICES ASSUME Init PROVE FullInv
    OBVIOUS
<1>1. AllInv
    BY InitAllInv
<1>2. \A l \in Loops : pc[l] = "idle" /\ loc[l] = NoLocals /\ snapshots[l] = <<>>
    BY DEF Init
<1>3. Known(cache) = {} /\ cache.generation = 0
    BY DEF Init, EmptyCache, Known
<1>4. PlansOK(cache)
    BY <1>3 DEF PlansOK
<1>5. SessionsOK
    BY <1>2 DEF SessionsOK
<1>6. \A l \in Loops : /\ Rooted(l, pc[l], ctx[l], ctx[Parent[l]])
                       /\ Recalled(pc[l], ctx[l].root, loc[l])
                       /\ Measured(cache, ctx[l].root, loc[l])
    BY <1>2, <1>3 DEF Rooted, Recalled, Measured, NoLocals, NoMemo
<1> QED BY <1>1, <1>4, <1>5, <1>6 DEF FullInv, BasisInv

LEMMA NextFullInv == FullInv /\ [Next]_vars => FullInv'
<1> SUFFICES ASSUME FullInv, [Next]_vars PROVE BasisInv'
    BY NextAllInv DEF FullInv
<1>1. CASE AdmissionRefused \/ ClearProfiles \/ ClearCalibration \/ FreezeRevalidation
           \/ FreezeCalibration \/ UNCHANGED vars
    BY <1>1, BasisAdministration
<1>2. ASSUME NEW l \in Loops, Entry(l) PROVE BasisInv'
    BY <1>2, BasisCallRoot, BasisExactPlan, BasisSealed, BasisInheritedFrontier,
       BasisDecides DEF Entry
<1>3. ASSUME NEW l \in Loops, Lookup(l) PROVE BasisInv'
    BY <1>3, BasisLookup, BasisFindProfile DEF Lookup
<1>4. ASSUME NEW l \in Loops, Learn(l) PROVE BasisInv'
    BY <1>4, BasisCold, BasisLearn, BasisQuiet DEF Learn
<1>5. ASSUME NEW l \in Loops, Plan(l) PROVE BasisInv'
    BY <1>5, BasisFastPath, BasisQuiet, BasisDecide, BasisPublishPlan, BasisPrepare DEF Plan
<1>6. ASSUME NEW l \in Loops, Finish(l) PROVE BasisInv'
    BY <1>6, BasisQuiet, BasisReturns DEF Finish
<1>7. ASSUME NEW l \in Loops, Callback(l) \/ CallNested(l) PROVE BasisInv'
    BY <1>7, BasisCallbacks
<1>8. CASE Terminated
    BY <1>1, <1>8 DEF Terminated
<1> QED BY <1>1, <1>2, <1>3, <1>4, <1>5, <1>6, <1>7, <1>8 DEF Next

LEMMA SpecFullInv == Spec => []FullInv
BY InitFullInv, NextFullInv, PTL DEF Spec

-----------------------------------------------------------------------------
(* Theorems.                                                               *)

\* parallel_for calls the callback at most once with an index, and has called
\* it exactly once with each when the call returns, for every tree of calls.
THEOREM ExactlyOnceProved == Spec => []ExactlyOnce
<1>1. AllInv => ExactlyOnce
    <2> SUFFICES ASSUME AllInv, NEW l \in Loops
                 PROVE  /\ \A i \in Items(l) : count[l][i] <= 1
                        /\ pc[l] \in {"learned", "record", "done"} =>
                             \A i \in Items(l) : count[l][i] = 1
        BY DEF ExactlyOnce
    <2>1. Counted(l, pc[l], loc[l], todo[l], count[l])
        BY Typing, CallFacts DEF CallOK
    <2>2. \A i \in Items(l) : count[l][i] <= 1
        BY <2>1 DEF Counted
    <2>3. ASSUME pc[l] \in {"learned", "record", "done"}
          PROVE  \A i \in Items(l) : count[l][i] = 1
        <3>1. pc[l] \in Over
            BY <2>3 DEF Over
        <3>2. Left(l, pc[l], loc[l], todo[l]) = {}
            BY <3>1, LeftIs
        <3> QED BY <2>1, <3>2 DEF Counted
    <2> QED BY <2>2, <2>3
<1> QED BY <1>1, SpecAllInv, PTL

\* With the frontier enabled no loop runs in parallel below a parallel one, at
\* any depth; without it, it stays within the budget of its parallel parent.
THEOREM OneFrontierProved == Spec => []OneFrontier
<1>1. AllInv => OneFrontier
    <2> SUFFICES ASSUME AllInv, NEW l \in Loops, pc[l] \in Executing, loc[l].plan.parallel
                 PROVE  /\ config.frontier => \A a \in Around[l] : ~loc[a].plan.parallel
                        /\ Nested(l) /\ loc[Parent[l]].plan.parallel =>
                             loc[l].plan.jobs <= ctx[Parent[l]].budget
        BY DEF OneFrontier
    <2>1. CallsInv
        BY Typing
    <2>2. \A m \in Loops : Lined(config.frontier, m, ctx[Parent[m]], pc[m], ctx[m], loc[m])
        BY <2>1, CallFacts DEF CallOK
    <2>3. ASSUME config.frontier, NEW a \in Around[l] PROVE ~loc[a].plan.parallel
        <3> DEFINE s == {x \in Loops : /\ pc[x] \in Executing
                                       /\ ~(ctx[x].parallel \/ ctx[x].ancestor)}
        <3>1. ASSUME NEW x \in s \cup {l}, Nested(x) PROVE Parent[x] \in s
            <4>1. x \in Loops /\ pc[x] \in Executing
                OBVIOUS
            <4>2. pc[x] \notin {"idle", "called"}
                BY <4>1 DEF Executing
            <4>3. Parent[x] \in Loops /\ pc[Parent[x]] \in Executing
                BY <2>1, <3>1, <4>1, <4>2, Held
            <4>4. CASE x = l
                BY <2>2, <2>3, <3>1, <4>3, <4>4 DEF Lined
            <4>5. CASE x \in s
                BY <2>2, <3>1, <4>1, <4>2, <4>3, <4>5 DEF Lined
            <4> QED BY <4>4, <4>5
        <3>2. s \in SUBSET Loops
            OBVIOUS
        <3>3. a \in s /\ a \in Loops
            BY <3>1, <3>2 DEF Around
        <3> QED BY <2>2, <3>3 DEF Lined
    <2>4. ASSUME Nested(l), loc[Parent[l]].plan.parallel
          PROVE  loc[l].plan.jobs <= ctx[Parent[l]].budget
        <3>1. pc[l] # "idle"
            BY DEF Executing
        <3>2. Parent[l] \in Loops /\ pc[Parent[l]] \in Executing
            BY <2>1, <2>4, <3>1, Held
        <3>3. ctx[Parent[l]].parallel
            BY <2>2, <2>4, <3>2 DEF Lined
        <3> QED BY <2>2, <2>4, <3>3 DEF Lined
    <2> QED BY <2>3, <2>4
<1> QED BY <1>1, SpecAllInv, PTL

\* Holders and markers, in numbers.
LEMMA OwnedNumbers ==
    ASSUME NEW K, NEW marks, Owned(K, marks), NEW k,
           NEW H, H = {l \in DOMAIN K : K[l] = k}
    PROVE  Cardinality(H) = IF k \in marks THEN 1 ELSE 0
<1>1. CASE k \in marks
    <2>1. PICK l \in DOMAIN K : K[l] = k
        BY <1>1 DEF Owned
    <2>2. H = {l}
        BY <2>1 DEF Owned
    <2> QED BY <1>1, <2>2, FS_Singleton
<1>2. CASE k \notin marks
    <2>1. H = {}
        BY <1>2 DEF Owned
    <2> QED BY <1>2, <2>1, FS_EmptySet
<1> QED BY <1>1, <1>2

\* Every build or revalidation marker belongs to exactly one running call, and
\* every pending trace to a running one, across clears and exceptions.
THEOREM MarkersOwnedProved == Spec => []MarkersOwned
<1>1. AllInv => MarkersOwned
    <2> SUFFICES ASSUME AllInv PROVE MarkersOwned
        OBVIOUS
    <2> DEFINE Builders(k) == {l \in Loops : pc[l] # "idle" /\ loc[l].builds /\ Key(l) = k}
               Revalidators(k) == {l \in Loops : pc[l] # "idle" /\ loc[l].revalidates /\ Key(l) = k}
    <2>1. Owned(BuildKeys, cache.builds) /\ Owned(RevalidateKeys, cache.revalidations)
          /\ \A m \in traces : m \in Loops /\ pc[m] # "idle"
        BY DEF AllInv, MarkersInv
    <2>2. ASSUME NEW k PROVE Cardinality(Builders(k)) = IF k \in cache.builds THEN 1 ELSE 0
        <3>1. Builders(k) = {l \in DOMAIN BuildKeys : BuildKeys[l] = k}
            BY DEF BuildKeys
        <3> HIDE DEF Builders
        <3> QED BY <2>1, <3>1, OwnedNumbers
    <2>3. ASSUME NEW k
          PROVE  Cardinality(Revalidators(k)) = IF k \in cache.revalidations THEN 1 ELSE 0
        <3>1. Revalidators(k) = {l \in DOMAIN RevalidateKeys : RevalidateKeys[l] = k}
            BY DEF RevalidateKeys
        <3> HIDE DEF Revalidators
        <3> QED BY <2>1, <3>1, OwnedNumbers
    <2> QED BY <2>1, <2>2, <2>3 DEF MarkersOwned
<1> QED BY <1>1, SpecAllInv, PTL

\* What a call observed before a clear is not in the cache after it, unless the
\* call is a descendant of a learning one.
THEOREM OwnObservationsProved == Spec => []OwnObservationsFresh
<1>1. AllInv => OwnObservationsFresh
    BY DEF AllInv, Inv, GlobalInv, CacheOK, Fresh, OwnObservationsFresh
<1> QED BY <1>1, SpecAllInv, PTL

\* A plan beside a profile was computed from it or, if it comes from a session,
\* in the root call that observed the profile last, and a backend is chosen by
\* measurements of its generation only, for any number of calls at any depth.
THEOREM PlansMatchProved == Spec => []PlansMatchProfiles
<1>1. ASSUME FullInv PROVE PlansMatchProfiles
    <2>1. \A k \in Known(cache) : Matches(cache.entries[k])
        BY <1>1 DEF FullInv, BasisInv, PlansOK
    <2>2. CalibrationOK(calibration)
        BY <1>1 DEF FullInv, AllInv, Inv, GlobalInv
    <2> QED BY <2>1, <2>2 DEF PlansMatchProfiles, Matches, CalibrationOK, Calibrated
<1> QED BY <1>1, SpecFullInv, PTL
=============================================================================
