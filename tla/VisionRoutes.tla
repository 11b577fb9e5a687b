---------------------------- MODULE VisionRoutes ----------------------------
(***************************************************************************)
(* Automatic route selection of vision operations: concurrent calls of     *)
(* threshold_impl (threshold.cpp) on one shard of AdaptiveRouteSelector    *)
(* and on the thread-local cache of hot routes.                            *)
(*                                                                         *)
(* A call looks into its thread's cache, asks the selector for a route,    *)
(* runs it, reports back and refreshes the cache.  The shard's mutex and   *)
(* the atomics are only held inside one of these steps, so that the steps  *)
(* of other calls, evictions and clear_adaptive_route_cache fall between   *)
(* them.                                                                   *)
(*                                                                         *)
(* A profile key is an image class (size, strides, parameters, provider)   *)
(* with the value of route_cache_epoch, which is part of the policy        *)
(* signature.  Each class stands for one exact hot key as well, and has    *)
(* its own place in the cache.  The candidates follow from the key, so     *)
(* that select never meets an entry with other candidates.  Maintenance    *)
(* is not paused.                                                          *)
(***************************************************************************)
EXTENDS RouteSelector, SequencesExt

CONSTANTS
    Images,                         \* image classes of one shard
    rotation_seed,                  \* rotation_seed[i]: key hash % candidates
    per_shard,                      \* entries a shard may hold
    drift_sample_interval,          \* vision_route_drift_sample_interval
    MaxClears                       \* bound: clear_adaptive_route_cache calls

Keys == Images \X (0 .. MaxClears)

ASSUME VisionAssumption ==
    /\ Images # {} /\ rotation_seed \in [Images -> Routes]
    /\ per_shard \in Nat \ {0}
    /\ drift_sample_interval \in Nat
    /\ MaxClears \in Nat

VARIABLES
    (* the shard *)
    entries,                        \* entries[k], or NoEntry
    recency,                        \* its keys by last_access, oldest first
    (* process-wide *)
    route_cache_epoch,
    (* per thread *)
    hot,                            \* hot[t][i]: HotRouteEntry
    pc,
    key,                            \* the profile key of the call
    force,                          \* force_revalidation, force_stable_sample
    preserved,                      \* preserved_hot_uses
    selection,                      \* RouteSelection
    before,                         \* stable route before complete, or NoIndex
    found                           \* the last snapshot

vars == <<entries, recency, route_cache_epoch, hot, pc, key, force, preserved,
          selection, before, found>>

NoEntry == [phase |-> "absent"]

\* HotRouteEntry; `generation' is the part of its hot key that can change.  Its
\* epoch is left out: hot_route_epoch only grows, so that an entry of another
\* epoch is never valid again, and `valid' is FALSE in it.
HotRouteEntry ==
    [valid : BOOLEAN, generation : 0 .. MaxClears, route : Routes, uses : Nat,
     revalidate_after : Nat, drift_uses : Nat]

ColdEntry ==
    [valid |-> FALSE, generation |-> 0, route |-> 0, uses |-> 0,
     revalidate_after |-> 0, drift_uses |-> 0]

\* The key of a thread that is not in a call is not read.
SomeKey == CHOOSE k \in Keys : TRUE

NoSelection == [route |-> 0, kind |-> "none", stage |-> 0, stable |-> FALSE]

NoSnapshot == [route |-> 0, interval |-> 0, revalidating |-> FALSE]

Places == {"idle", "lookup", "select", "publish", "store_selected", "run",
           "complete", "after", "invalidate", "store_result",
           "clear_epoch", "clear_hot"}

Init ==
    /\ entries = [k \in Keys |-> NoEntry]
    /\ recency = <<>>
    /\ route_cache_epoch = 0
    /\ hot = [t \in Threads |-> [i \in Images |-> ColdEntry]]
    /\ pc = [t \in Threads |-> "idle"]
    /\ key = [t \in Threads |-> SomeKey]
    /\ force = [t \in Threads |-> "no"]
    /\ preserved = [t \in Threads |-> 0]
    /\ selection = [t \in Threads |-> NoSelection]
    /\ before = [t \in Threads |-> NoIndex]
    /\ found = [t \in Threads |-> NoSnapshot]

-----------------------------------------------------------------------------
(* Helpers.                                                                *)

Goto(t, place) == pc' = [pc EXCEPT ![t] = place]

Present(k) == entries[k] # NoEntry

\* The call is over; what its locals hold no longer matters.
Finish(t) ==
    /\ Goto(t, "idle")
    /\ key' = [key EXCEPT ![t] = SomeKey]
    /\ force' = [force EXCEPT ![t] = "no"]
    /\ preserved' = [preserved EXCEPT ![t] = 0]
    /\ selection' = [selection EXCEPT ![t] = NoSelection]
    /\ before' = [before EXCEPT ![t] = NoIndex]
    /\ found' = [found EXCEPT ![t] = NoSnapshot]

\* last_access = ++access_epoch.
Touch(k, order) == Append(Remove(order, k), k)

\* make_room_locked: the victim of a new key, if the shard is full.
Victims(k) ==
    IF Present(k) \/ Len(recency) < per_shard THEN {} ELSE {Head(recency)}

\* hot_route_lookup.
HotHit(t, k) ==
    hot[t][k[1]].valid /\ hot[t][k[1]].generation = k[2]

hot_route_store(t, route, interval, uses) ==
    hot' = [hot EXCEPT ![t][key[t][1]] =
              [valid |-> TRUE, generation |-> key[t][2], route |-> route,
               uses |-> uses, revalidate_after |-> interval,
               drift_uses |-> 0]]

-----------------------------------------------------------------------------
(* threshold_impl.                                                         *)

\* The policy signature, and with it the key, is computed first.
Begin(t, i) ==
    /\ pc[t] = "idle"
    /\ key' = [key EXCEPT ![t] = <<i, route_cache_epoch>>]
    /\ Goto(t, "lookup")
    /\ UNCHANGED <<entries, recency, route_cache_epoch, hot, force, preserved,
                   selection, before, found>>

\* The uses of a hot entry after one more use, as far as they are compared.
Used(h) ==
    [h EXCEPT !.uses = IF h.revalidate_after = 0 THEN 0 ELSE @ + 1,
              !.drift_uses = IF drift_sample_interval = 0 THEN 0 ELSE @ + 1]

RevalidationDue(h) == h.revalidate_after > 0 /\ h.uses >= h.revalidate_after
DriftDue(h) ==
    /\ ~RevalidationDue(h)
    /\ drift_sample_interval > 0 /\ h.drift_uses >= drift_sample_interval

\* A hot route that is not due is run without the selector: the whole call.
RunHot(t) ==
    /\ pc[t] = "lookup"
    /\ HotHit(t, key[t])
    /\ LET h == Used(hot[t][key[t][1]]) IN
         /\ ~RevalidationDue(h) /\ ~DriftDue(h)
         /\ hot' = [hot EXCEPT ![t][key[t][1]] = h]
    /\ Finish(t)
    /\ UNCHANGED <<entries, recency, route_cache_epoch>>

\* A hot route that is due is dropped and the selector is told why.
LeaveHot(t) ==
    /\ pc[t] = "lookup"
    /\ HotHit(t, key[t])
    /\ LET h == Used(hot[t][key[t][1]]) IN
         /\ RevalidationDue(h) \/ DriftDue(h)
         /\ force' = [force EXCEPT ![t] =
                        IF RevalidationDue(h) THEN "revalidation" ELSE "drift"]
         /\ preserved' = [preserved EXCEPT ![t] = h.uses]
    /\ hot' = [hot EXCEPT ![t][key[t][1]] = ColdEntry]
    /\ Goto(t, "select")
    /\ UNCHANGED <<entries, recency, route_cache_epoch, key, selection, before,
                   found>>

MissHot(t) ==
    /\ pc[t] = "lookup"
    /\ ~HotHit(t, key[t])
    /\ Goto(t, "select")
    /\ UNCHANGED <<entries, recency, route_cache_epoch, hot, key, force,
                   preserved, selection, before, found>>

\* AdaptiveRouteSelector::select, under the shard's mutex.
Select(t) ==
    LET k == key[t]
        e == IF Present(k) THEN entries[k] ELSE reset_entry
    IN
    /\ pc[t] = "select"
    /\ \E s \in select(e, t, rotation_seed[k[1]], force[t]) :
         /\ entries' = [j \in Keys |-> IF j = k THEN s.entry
                                       ELSE IF j \in Victims(k) THEN NoEntry
                                       ELSE entries[j]]
         /\ selection' = [selection EXCEPT ![t] =
                            [route |-> s.route, kind |-> s.kind,
                             stage |-> s.stage, stable |-> s.stable]]
         /\ Goto(t, IF s.stable /\ s.kind = "none" THEN "publish" ELSE "run")
    /\ recency' = Touch(k, IF Victims(k) = {} THEN recency ELSE Tail(recency))
    /\ UNCHANGED <<route_cache_epoch, hot, key, force, preserved, before,
                   found>>

\* The route in use goes into the cache before it is run: the interval comes
\* from a snapshot, the epoch is read when the entry is written.
Publish(t) ==
    /\ pc[t] = "publish"
    /\ found' = [found EXCEPT ![t] =
                   [route |-> selection[t].route,
                    interval |-> IF Present(key[t])
                                   THEN entries[key[t]].interval
                                   ELSE initial_revalidate_interval,
                    revalidating |-> FALSE]]
    /\ Goto(t, "store_selected")
    /\ UNCHANGED <<entries, recency, route_cache_epoch, hot, key, force,
                   preserved, selection, before>>

StoreSelected(t) ==
    /\ pc[t] = "store_selected"
    /\ hot_route_store(t, found[t].route, found[t].interval, 0)
    /\ found' = [found EXCEPT ![t] = NoSnapshot]
    /\ Goto(t, "run")
    /\ UNCHANGED <<entries, recency, route_cache_epoch, key, force, preserved,
                   selection, before>>

\* execute_route returns; the stable route is noted before complete.
RunReturns(t) ==
    LET k == key[t] IN
    /\ pc[t] = "run"
    /\ before' = [before EXCEPT ![t] =
                    IF Present(k) /\ entries[k].stable
                      THEN entries[k].stable_route ELSE NoIndex]
    /\ Goto(t, "complete")
    /\ UNCHANGED <<entries, recency, route_cache_epoch, hot, key, force,
                   preserved, selection, found>>

\* Faulty variant: a failed probe is not cancelled.
ForgetProbe(t) ==
    /\ pc[t] = "run"
    /\ UNCHANGED entries
    /\ Finish(t)
    /\ UNCHANGED <<recency, route_cache_epoch, hot>>

\* execute_route throws: cancel releases the probe.
RunThrows(t) ==
    /\ pc[t] = "run"
    /\ entries' = IF selection[t].kind # "none" /\ Present(key[t])
                    THEN [entries EXCEPT ![key[t]] = release_probe(@, t)]
                    ELSE entries
    /\ Finish(t)
    /\ UNCHANGED <<recency, route_cache_epoch, hot>>

\* AdaptiveRouteSelector::complete.  It finds the entry by its key alone.
CompleteProbe(t) ==
    LET k == key[t] IN
    /\ pc[t] = "complete"
    /\ selection[t].kind # "none" /\ Present(k)
    /\ \E e \in complete(entries[k], t, selection[t].route, selection[t].kind,
                         selection[t].stage) :
         entries' = [entries EXCEPT ![k] = e]
    /\ recency' = Touch(k, recency)
    /\ Goto(t, "after")
    /\ UNCHANGED <<route_cache_epoch, hot, key, force, preserved, selection,
                   before, found>>

CompleteNothing(t) ==
    /\ pc[t] = "complete"
    /\ selection[t].kind = "none" \/ ~Present(key[t])
    /\ Goto(t, "after")
    /\ UNCHANGED <<entries, recency, route_cache_epoch, hot, key, force,
                   preserved, selection, before, found>>

\* The snapshot after complete.  Without a stable route the call is over, and
\* so it is while a revalidation runs and the route is the same.
SnapshotNothing(t) ==
    LET k == key[t] IN
    /\ pc[t] = "after"
    /\ Present(k) /\ entries[k].stable =>
         /\ entries[k].revalidation # "Idle"
         /\ before[t] = entries[k].stable_route
    /\ Finish(t)
    /\ UNCHANGED <<entries, recency, route_cache_epoch, hot>>

SnapshotAfter(t) ==
    LET k == key[t] IN
    /\ pc[t] = "after"
    /\ Present(k) /\ entries[k].stable
    /\ entries[k].revalidation = "Idle" \/ before[t] # entries[k].stable_route
    /\ found' = [found EXCEPT ![t] =
                   [route |-> entries[k].stable_route,
                    interval |-> entries[k].interval,
                    revalidating |-> entries[k].revalidation # "Idle"]]
    /\ Goto(t, IF before[t] = entries[k].stable_route THEN "store_result"
                                                      ELSE "invalidate")
    /\ UNCHANGED <<entries, recency, route_cache_epoch, hot, key, force,
                   preserved, selection, before>>

\* invalidate_hot_routes: every thread's entries are out of date.
Outdated == [t \in Threads |-> [i \in Images |-> ColdEntry]]

InvalidateHotRoutes(t) ==
    /\ pc[t] = "invalidate"
    /\ hot' = Outdated
    /\ IF found[t].revalidating
         THEN Finish(t)
         ELSE /\ Goto(t, "store_result")
              /\ UNCHANGED <<key, force, preserved, selection, before, found>>
    /\ UNCHANGED <<entries, recency, route_cache_epoch>>

\* A drift sample must not put off the next periodic revalidation.
StoreResult(t) ==
    /\ pc[t] = "store_result"
    /\ hot_route_store(t, found[t].route, found[t].interval,
                       IF force[t] = "drift" /\ selection[t].kind # "revalidation"
                         THEN preserved[t] ELSE 0)
    /\ Finish(t)
    /\ UNCHANGED <<entries, recency, route_cache_epoch>>

-----------------------------------------------------------------------------
(* clear_adaptive_route_cache, called by a thread between two operations.  *)

ClearSelector(t) ==
    /\ pc[t] = "idle"
    /\ route_cache_epoch + Cardinality({u \in Threads : pc[u] = "clear_epoch"})
         < MaxClears
    /\ entries' = [k \in Keys |-> NoEntry]
    /\ recency' = <<>>
    /\ Goto(t, "clear_epoch")
    /\ UNCHANGED <<route_cache_epoch, hot, key, force, preserved, selection,
                   before, found>>

ClearEpoch(t) ==
    /\ pc[t] = "clear_epoch"
    /\ route_cache_epoch' = route_cache_epoch + 1
    /\ Goto(t, "clear_hot")
    /\ UNCHANGED <<entries, recency, hot, key, force, preserved, selection,
                   before, found>>

ClearHot(t) ==
    /\ pc[t] = "clear_hot"
    /\ hot' = Outdated
    /\ Goto(t, "idle")
    /\ UNCHANGED <<entries, recency, route_cache_epoch, key, force, preserved,
                   selection, before, found>>

-----------------------------------------------------------------------------
CallStep(t) ==
    \/ RunHot(t) \/ LeaveHot(t) \/ MissHot(t)
    \/ Select(t) \/ Publish(t) \/ StoreSelected(t)
    \/ RunReturns(t) \/ RunThrows(t)
    \/ CompleteProbe(t) \/ CompleteNothing(t)
    \/ SnapshotNothing(t) \/ SnapshotAfter(t)
    \/ InvalidateHotRoutes(t) \/ StoreResult(t)

ClearStep(t) == ClearSelector(t) \/ ClearEpoch(t) \/ ClearHot(t)

Next ==
    \E t \in Threads :
        \/ \E i \in Images : Begin(t, i)
        \/ CallStep(t)
        \/ ClearStep(t)

Spec == Init /\ [][Next]_vars

-----------------------------------------------------------------------------
(* Properties.                                                             *)

(***************************************************************************)
(* Types, and bounded retention: the shard holds at most per_shard         *)
(* profiles, in the order of their last access.                            *)
(***************************************************************************)
TypeOK ==
    /\ entries \in [Keys -> Entry \cup {NoEntry}]
    /\ recency \in Seq(Keys)
    /\ {recency[n] : n \in DOMAIN recency} = {k \in Keys : Present(k)}
    /\ Cardinality({k \in Keys : Present(k)}) = Len(recency)
    /\ Len(recency) <= per_shard
    /\ route_cache_epoch \in 0 .. MaxClears
    /\ hot \in [Threads -> [Images -> HotRouteEntry]]
    /\ pc \in [Threads -> Places]
    /\ key \in [Threads -> Keys]
    /\ force \in [Threads -> {"no", "revalidation", "drift"}]
    /\ preserved \in [Threads -> Nat]
    /\ selection \in [Threads -> [route : Routes, kind : Kinds, stage : 0 .. 4,
                                  stable : BOOLEAN]]
    /\ before \in [Threads -> Routes \cup {NoIndex}]
    /\ found \in [Threads -> [route : Routes, interval : Nat,
                              revalidating : BOOLEAN]]

\* A probe between select and complete or cancel.
Probing(t, k) ==
    /\ pc[t] \in {"run", "complete"}
    /\ key[t] = k /\ selection[t].kind # "none"

(***************************************************************************)
(* Cancelled-probe recovery: the probe slot of a profile is only taken     *)
(* while a call runs that will free it, so that learning is never blocked  *)
(* by a call that failed, was evicted or was overtaken by a clear.         *)
(***************************************************************************)
ProbeSlotOwned ==
    \A k \in Keys : Present(k) /\ entries[k].probe # NoThread
        => Probing(entries[k].probe, k)

(***************************************************************************)
(* Single-flight exploration: only the call that probes a profile gives    *)
(* its slot up.  No other call begins a probe beside it, and a call that   *)
(* outlives its profile does not free the slot of the profile's successor. *)
(***************************************************************************)
SingleFlight ==
    [][\A k \in Keys : \A t \in Threads :
          /\ Present(k) /\ entries[k].probe = t
          /\ entries'[k] # NoEntry /\ entries'[k].probe # t
          => pc'[t] # pc[t]]_vars

(***************************************************************************)
(* "The provisional winner is never committed immediately": a stable route *)
(* has been measured in training, and it was chosen between two different  *)
(* routes with a complete holdout each.                                    *)
(***************************************************************************)
VerifiedByHoldout ==
    \A k \in Keys : Present(k) /\ entries[k].stable =>
        LET e == entries[k] IN
        /\ e.samples[e.stable_route] >= normalized_minimum
        /\ route_count > 1 /\ holdout_samples > 0 =>
             /\ e.provisional # e.runner_up
             /\ \A i \in {e.provisional, e.runner_up} :
                   e.holdouts[i] >= holdout_samples

\* Samples of the stable route and of the challenger before each stage.
Evidence(phase) ==
    CASE phase \in {"Idle", "StableA"} -> <<0, 0>>
      [] phase = "ChallengerA"          -> <<1, 0>>
      [] phase = "ChallengerB"          -> <<1, 1>>
      [] phase = "StableB"              -> <<1, 2>>

(***************************************************************************)
(* ABBA revalidation ("stable A, challenger A, challenger B, stable B"):   *)
(* a revalidation compares the stable route with another one, and every    *)
(* stage finds exactly the samples of the stages before it.                *)
(***************************************************************************)
RevalidationIsABBA ==
    \A k \in Keys : Present(k) /\ entries[k].stable
                    /\ entries[k].revalidation # "Idle" =>
        LET e == entries[k] IN
        /\ e.stable_index = e.stable_route
        /\ e.challenger_index # e.stable_route
        /\ <<e.stable_samples, e.challenger_samples>> = Evidence(e.revalidation)

\* What an entry that still learns has observed, and how much it may observe.
Observed(e) == [what \in {"warmups", "samples", "holdouts"} |-> e[what]]
WithinLimits(e) ==
    /\ e.verification_failures < Most(1, maximum_verification_failures)
    /\ \A i \in Routes : /\ e.warmups[i] <= warmup_samples
                          /\ e.samples[i] <= normalized_window
                          /\ e.holdouts[i] <= holdout_samples

(***************************************************************************)
(* Learning converges ("bounded learning must always converge"): every     *)
(* probe that completes locks a route in, fails a holdout, or adds an      *)
(* observation and forgets none, and both are bounded.                     *)
(***************************************************************************)
LearningConverges ==
    [][\A t \in Threads : \A k \in Keys :
          /\ Present(k) /\ entries[k].probe = t /\ pc[t] = "complete"
          /\ pc'[t] = "after" /\ ~entries'[k].stable
          => /\ WithinLimits(entries'[k])
             /\ \/ entries'[k].verification_failures
                      > entries[k].verification_failures
                \/ /\ Observed(entries'[k]) # Observed(entries[k])
                   /\ \A what \in DOMAIN Observed(entries[k]) :
                        \A i \in Routes :
                            entries'[k][what][i] >= entries[k][what][i]]_vars

\* The cached route of a thread is not the stable one.
StaleHot(t, i) ==
    LET k == <<i, hot[t][i].generation>> IN
    /\ hot[t][i].valid /\ Present(k) /\ entries[k].stable
    /\ hot[t][i].route # entries[k].stable_route

(***************************************************************************)
(* "Hashed generation counters invalidate stale thread-local entries when  *)
(* another thread promotes a different route": once the promotion has been *)
(* announced, no thread has the old route in its cache.                    *)
(***************************************************************************)
PromotionReachesHotRoutes ==
    (\A t \in Threads : pc[t] \notin {"after", "invalidate"})
        => \A t \in Threads : \A i \in Images : ~StaleHot(t, i)
=============================================================================
