----------------------- MODULE ParallelAlgorithmsProofs ----------------------
(***************************************************************************)
(* Proofs about the parallel algorithms: the dispatch cache's probes have  *)
(* owners, its routes are measured and its shards bounded, loops and       *)
(* searches return what the standard algorithm returns, and reductions     *)
(* what their definition says, for any number of callers, chunks,          *)
(* concurrent jobs, elements, evictions and resets.                        *)
(***************************************************************************)
EXTENDS ParallelAlgorithms, FiniteSetTheorems, SequenceTheorems, TLAPS

USE AlgorithmAssumption, ScenarioAssumption
USE DEF vars, cached, local

-----------------------------------------------------------------------------
(* The dispatch cache.                                                     *)

Entry == [stable : BOOLEAN, route : Routes, sequential : BOOLEAN,
          scheduled : BOOLEAN, slow : BOOLEAN, uses : Nat, probe : Nat]

\* A stable route was measured, with the other one if it is the sequential.
Earned(e) ==
    /\ e.stable => e.scheduled
    /\ e.stable /\ e.route = "Sequential" => e.sequential

\* A call holds a probe only from select to complete or cancel.
Holds(c, k) ==
    /\ sel[c].probe # 0 /\ sel[c].key = k
    /\ pc[c] \notin {"idle", "select", "return"}

CacheInv ==
    /\ pc = [c \in Callers |-> pc[c]] /\ sel = [c \in Callers |-> sel[c]]
    /\ nonce \in Nat \ {0}
    /\ \A k \in DOMAIN entries : entries[k] \in Entry /\ Earned(entries[k])
    /\ \A c \in Callers :
         /\ sel[c].probe \in Nat /\ sel[c].probe < nonce
         /\ sel[c].probe # 0 => sel[c].enabled
         /\ pc[c] \in {"idle", "select"} => sel[c].probe = 0
    /\ \A c, d \in Callers : sel[c].probe # 0 /\ sel[c].probe = sel[d].probe => c = d
    /\ \A k \in DOMAIN entries :
         entries[k].probe # 0 =>
           \E c \in Callers : sel[c].probe = entries[k].probe /\ Holds(c, k)

LEMMA NewEntryOK == NewEntry \in Entry /\ Earned(NewEntry)
BY DEF NewEntry, Entry, Earned, Routes

LEMMA ChooseOK ==
    ASSUME NEW e \in Entry, Earned(e), NEW faster \in Routes
    PROVE  /\ choose_stable_route(e, faster) \in Entry
           /\ Earned(choose_stable_route(e, faster))
           /\ choose_stable_route(e, faster).probe = e.probe
BY DEF choose_stable_route, Entry, Earned, Routes

LEMMA DueOK ==
    ASSUME NEW e \in Entry, Earned(e), NEW kind
    PROVE  /\ Due(e, kind).entry \in Entry /\ Earned(Due(e, kind).entry)
           /\ Due(e, kind).entry.probe = e.probe
           /\ Due(e, kind).probe \in Routes \cup {"none"}
<1> DEFINE used == IF revalidation_interval(kind) > 0 THEN e.uses + 1 ELSE e.uses
           zero == [e EXCEPT !.uses = 0]
           more == [e EXCEPT !.uses = used]
<1>1. used \in Nat
    BY DEF Entry
<1> HIDE DEF used
<1>2. /\ zero \in Entry /\ Earned(zero) /\ zero.probe = e.probe
      /\ more \in Entry /\ Earned(more) /\ more.probe = e.probe
    BY <1>1 DEF Entry, Earned
<1>3. Due(e, kind).entry \in {zero, more}
    BY DEF Due, used
<1>4. Due(e, kind).probe \in Routes \cup {"none"}
    BY DEF Due, Entry, Routes
<1> HIDE DEF zero, more
<1> QED BY <1>2, <1>3, <1>4

LEMMA ConsideredOK ==
    ASSUME NEW e \in Entry, Earned(e), NEW kind, NEW faster \in Routes
    PROVE  /\ Considered(e, kind, faster).entry \in Entry
           /\ Earned(Considered(e, kind, faster).entry)
           /\ Considered(e, kind, faster).entry.probe = e.probe
           /\ Considered(e, kind, faster).probe \in Routes \cup {"none"}
<1> DEFINE d == Considered(e, kind, faster)
           settled == [e EXCEPT !.stable = TRUE, !.route = "Scheduled", !.uses = 0]
<1>0. e.stable \in BOOLEAN /\ e.scheduled \in BOOLEAN /\ e.sequential \in BOOLEAN
    BY DEF Entry
<1>1. CASE ~e.stable /\ ~e.scheduled
    <2>1. d = [entry |-> e, probe |-> "Scheduled", fresh |-> FALSE]
        BY <1>1 DEF Considered
    <2> QED BY <2>1 DEF Routes
<1>2. CASE ~e.stable /\ e.scheduled /\ ~e.sequential
    <2>1. settled \in Entry /\ settled.probe = e.probe /\ Earned(settled)
        BY <1>2 DEF Entry, Earned, Routes
    <2>2. \/ d = [entry |-> settled, probe |-> "none", fresh |-> FALSE]
          \/ d = [entry |-> e, probe |-> "Sequential", fresh |-> FALSE]
        BY <1>2 DEF Considered
    <2> HIDE DEF settled
    <2> QED BY <2>1, <2>2 DEF Routes
<1>3. CASE ~e.stable /\ e.scheduled /\ e.sequential
    <2>1. d = Due(choose_stable_route(e, faster), kind)
        BY <1>3 DEF Considered
    <2> QED BY <2>1, ChooseOK, DueOK
<1>4. CASE e.stable
    <2>1. d = Due(e, kind)
        BY <1>4 DEF Considered
    <2> QED BY <2>1, DueOK
<1> QED BY <1>0, <1>1, <1>2, <1>3, <1>4

LEMMA MeasuredOK ==
    ASSUME NEW e \in Entry, Earned(e), NEW route, NEW slow \in BOOLEAN
    PROVE  /\ Measured(e, route, slow) \in Entry /\ Earned(Measured(e, route, slow))
           /\ Measured(e, route, slow).probe = e.probe
BY DEF Measured, Entry, Earned

LEMMA ProbeEndsOK ==
    ASSUME NEW e \in Entry, Earned(e), NEW faster \in Routes
    PROVE  /\ ProbeEnds(e, faster) \in Entry /\ Earned(ProbeEnds(e, faster))
           /\ ProbeEnds(e, faster).probe = 0
<1> DEFINE f == [e EXCEPT !.probe = 0]
           settled == [f EXCEPT !.stable = TRUE, !.route = "Scheduled", !.uses = 0]
<1>1. f \in Entry /\ Earned(f) /\ f.probe = 0
    BY DEF Entry, Earned
<1>2. f.scheduled => settled \in Entry /\ settled.probe = 0 /\ Earned(settled)
    BY <1>1 DEF Entry, Earned, Routes
<1>3. \/ ProbeEnds(e, faster) = choose_stable_route(f, faster)
      \/ f.scheduled /\ ProbeEnds(e, faster) = settled
      \/ ProbeEnds(e, faster) = f
    <2>1. f.scheduled \in BOOLEAN /\ f.sequential \in BOOLEAN /\ f.slow \in BOOLEAN
        BY <1>1 DEF Entry
    <2> HIDE DEF f
    <2>2. ProbeEnds(e, faster) =
            CASE f.scheduled /\ f.sequential            -> choose_stable_route(f, faster)
              [] f.scheduled /\ ~f.sequential /\ f.slow -> settled
              [] OTHER                                  -> f
        BY DEF ProbeEnds, f
    <2> HIDE DEF settled
    <2> QED BY <2>1, <2>2
<1> HIDE DEF f, settled
<1> QED BY <1>1, <1>2, <1>3, ChooseOK

\* A call begins: its task, where it goes, and the result of an empty one.
Begins(c, t, p, r) ==
    /\ t.kind \in scenario.kinds /\ t.total \in scenario.totals
    /\ t.workers \in scenario.workers
    /\ t.input \in [0..(t.total - 1) -> Elements(t.kind)]
    /\ task' = [task EXCEPT ![c] = t]
    /\ result' = [result EXCEPT ![c] = r]
    /\ pc' = [pc EXCEPT ![c] = p]
    /\ t.total = 0 => r = Empty(t) /\ p = "return"
    /\ t.total > 0 => p \in {"select", "scheduled"}
    /\ t.total > 0 /\ p = "select" => t.kind \in algorithm_hot_dispatch_family

LEMMA BeginIs ==
    ASSUME NEW c, Begin(c)
    PROVE  \E t, p, r : Begins(c, t, p, r)
<1>1. PICK kind \in scenario.kinds, site \in scenario.sites, total \in scenario.totals,
           workers \in scenario.workers, nested \in scenario.nested :
        \E input \in [0..(total - 1) -> Elements(kind)], init \in Inits(kind) :
        \E overflows \in Overflows(kind, input, init) :
          LET t == [kind |-> kind, site |-> site, total |-> total,
                    workers |-> workers, nested |-> nested, input |-> input,
                    init |-> init, overflows |-> overflows]
          IN  /\ task' = [task EXCEPT ![c] = t]
              /\ result' = [result EXCEPT ![c] = IF total = 0 THEN Empty(t) ELSE <<>>]
              /\ pc' = [pc EXCEPT ![c] = CASE total = 0                 -> "return"
                                           [] total > 0 /\ UsesCache(t)  -> "select"
                                           [] total > 0 /\ ~UsesCache(t) -> "scheduled"]
    BY Zenon DEF Begin
<1>2. PICK input \in [0..(total - 1) -> Elements(kind)], init \in Inits(kind) :
        \E overflows \in Overflows(kind, input, init) :
          LET t == [kind |-> kind, site |-> site, total |-> total,
                    workers |-> workers, nested |-> nested, input |-> input,
                    init |-> init, overflows |-> overflows]
          IN  /\ task' = [task EXCEPT ![c] = t]
              /\ result' = [result EXCEPT ![c] = IF total = 0 THEN Empty(t) ELSE <<>>]
              /\ pc' = [pc EXCEPT ![c] = CASE total = 0                 -> "return"
                                           [] total > 0 /\ UsesCache(t)  -> "select"
                                           [] total > 0 /\ ~UsesCache(t) -> "scheduled"]
    BY <1>1, Zenon
<1>20. PICK overflows \in Overflows(kind, input, init) :
          LET t == [kind |-> kind, site |-> site, total |-> total,
                    workers |-> workers, nested |-> nested, input |-> input,
                    init |-> init, overflows |-> overflows]
          IN  /\ task' = [task EXCEPT ![c] = t]
              /\ result' = [result EXCEPT ![c] = IF total = 0 THEN Empty(t) ELSE <<>>]
              /\ pc' = [pc EXCEPT ![c] = CASE total = 0                 -> "return"
                                           [] total > 0 /\ UsesCache(t)  -> "select"
                                           [] total > 0 /\ ~UsesCache(t) -> "scheduled"]
    BY <1>2, Zenon
<1> DEFINE t == [kind |-> kind, site |-> site, total |-> total,
                 workers |-> workers, nested |-> nested, input |-> input,
                 init |-> init, overflows |-> overflows]
           r == IF total = 0 THEN Empty(t) ELSE <<>>
           p == CASE total = 0                 -> "return"
                  [] total > 0 /\ UsesCache(t)  -> "select"
                  [] total > 0 /\ ~UsesCache(t) -> "scheduled"
<1>3. /\ task' = [task EXCEPT ![c] = t] /\ result' = [result EXCEPT ![c] = r]
      /\ pc' = [pc EXCEPT ![c] = p]
    BY <1>20, Zenon
<1>4. t.kind = kind /\ t.total = total /\ t.workers = workers /\ t.input = input
    OBVIOUS
<1> HIDE DEF t
<1>5. total = 0 => r = Empty(t) /\ p = "return"
    OBVIOUS
<1>6. total > 0 => p \in {"select", "scheduled"}
    <2>1. CASE UsesCache(t) /\ total > 0
        BY <2>1
    <2>2. CASE ~UsesCache(t) /\ total > 0
        BY <2>2
    <2> QED BY <2>1, <2>2
<1>60. total > 0 /\ p = "select" => t.kind \in algorithm_hot_dispatch_family
    <2>1. CASE UsesCache(t)
        BY <2>1 DEF UsesCache
    <2>2. CASE ~UsesCache(t) /\ total > 0
        BY <2>2
    <2> QED BY <2>1, <2>2
<1> HIDE DEF r, p
<1>7. Begins(c, t, p, r)
    BY <1>3, <1>4, <1>5, <1>6, <1>60 DEF Begins
<1> QED BY <1>7

\* A step of c that leaves the cache and its selection alone.
LEMMA QuietCache ==
    ASSUME CacheInv, NEW c \in Callers, UNCHANGED <<entries, nonce, sel>>,
           NEW p, pc' = [pc EXCEPT ![c] = p],
           sel[c].probe # 0 => p \notin {"idle", "select", "return"}
    PROVE  CacheInv'
<1>1. pc' = [d \in Callers |-> pc'[d]] /\ pc'[c] = p
      /\ \A d \in Callers \ {c} : pc'[d] = pc[d]
    BY DEF CacheInv
<1>2. \A d \in Callers : pc'[d] \in {"idle", "select"} => sel[d].probe = 0
    BY <1>1 DEF CacheInv
<1>3. \A d \in Callers : \A k : Holds(d, k) => Holds(d, k)'
    BY <1>1 DEF Holds
<1>4. \A k \in DOMAIN entries :
         entries[k].probe # 0 =>
           \E d \in Callers : sel[d].probe = entries[k].probe /\ Holds(d, k)'
    BY <1>3 DEF CacheInv
<1> QED BY <1>1, <1>2, <1>4 DEF CacheInv

\* c is done with its selection: no entry waits for it any more.
LEMMA ForgottenCache ==
    ASSUME CacheInv, NEW c \in Callers, Forgotten(c),
           \A k \in DOMAIN entries' : entries'[k] \in Entry /\ Earned(entries'[k]),
           DOMAIN entries' = DOMAIN entries,
           \A k \in DOMAIN entries :
             \/ entries'[k].probe = 0
             \/ entries'[k].probe = entries[k].probe /\ ~(sel[c].probe = entries[k].probe /\ Holds(c, k))
    PROVE  CacheInv'
<1>1. /\ sel' = [d \in Callers |-> sel'[d]] /\ sel'[c].probe = 0
      /\ \A d \in Callers \ {c} : sel'[d] = sel[d]
    BY DEF Forgotten, CacheInv, NotEnabled
<1>2. /\ pc' = [d \in Callers |-> pc'[d]] /\ pc'[c] = "idle"
      /\ \A d \in Callers \ {c} : pc'[d] = pc[d]
    BY DEF Forgotten, CacheInv
<1>3. nonce' = nonce
    BY DEF Forgotten
<1>4. \A d \in Callers :
         /\ sel'[d].probe \in Nat /\ sel'[d].probe < nonce
         /\ sel'[d].probe # 0 => sel'[d].enabled
         /\ pc'[d] \in {"idle", "select"} => sel'[d].probe = 0
    BY <1>1, <1>2 DEF CacheInv
<1>5. \A a, d \in Callers : sel'[a].probe # 0 /\ sel'[a].probe = sel'[d].probe => a = d
    BY <1>1 DEF CacheInv
<1>6. ASSUME NEW k \in DOMAIN entries', entries'[k].probe # 0
      PROVE  \E d \in Callers : sel'[d].probe = entries'[k].probe /\ Holds(d, k)'
    <2>1. PICK d \in Callers : sel[d].probe = entries[k].probe /\ Holds(d, k)
        BY <1>6 DEF CacheInv
    <2>2. d # c /\ entries'[k].probe = entries[k].probe
        BY <1>6, <2>1
    <2>3. sel'[d] = sel[d] /\ pc'[d] = pc[d]
        BY <1>1, <1>2, <2>2
    <2>4. Holds(d, k)'
        BY <2>1, <2>3 DEF Holds
    <2> QED BY <2>1, <2>2, <2>3, <2>4
<1> QED BY <1>1, <1>2, <1>3, <1>4, <1>5, <1>6 DEF CacheInv

LEMMA ReturnCache ==
    ASSUME CacheInv, NEW c \in Callers, Return(c)
    PROVE  CacheInv'
<1>1. pc[c] = "return" /\ entries' = entries /\ Forgotten(c)
    BY DEF Return
<1>2. \A k : ~Holds(c, k)
    BY <1>1 DEF Holds
<1>3. \A k \in DOMAIN entries' : entries'[k] \in Entry /\ Earned(entries'[k])
    BY <1>1 DEF CacheInv
<1> QED BY <1>1, <1>2, <1>3, ForgottenCache

LEMMA CancelCache ==
    ASSUME CacheInv, NEW c \in Callers, Cancel(c)
    PROVE  CacheInv'
<1> DEFINE k == sel[c].key
           mine == sel[c].probe # 0 /\ k \in DOMAIN entries /\ entries[k].probe = sel[c].probe
           free == [entries[k] EXCEPT !.probe = 0]
<1>1. Forgotten(c) /\ entries' = IF mine THEN [entries EXCEPT ![k] = free] ELSE entries
    BY DEF Cancel
<1>2. CASE mine
    <2>1. free \in Entry /\ Earned(free) /\ free.probe = 0
        BY <1>2 DEF CacheInv, Entry, Earned
    <2> HIDE DEF free
    <2>2. /\ DOMAIN entries' = DOMAIN entries /\ entries'[k] = free
          /\ \A j \in DOMAIN entries \ {k} : entries'[j] = entries[j]
        BY <1>1, <1>2
    <2>3. \A j \in DOMAIN entries' : entries'[j] \in Entry /\ Earned(entries'[j])
        BY <2>1, <2>2 DEF CacheInv
    <2>4. \A j \in DOMAIN entries \ {k} : ~Holds(c, j)
        BY DEF Holds
    <2> HIDE DEF k
    <2>5. \A j \in DOMAIN entries :
             \/ entries'[j].probe = 0
             \/ /\ entries'[j].probe = entries[j].probe
                /\ ~(sel[c].probe = entries[j].probe /\ Holds(c, j))
        BY <2>1, <2>2, <2>4
    <2> QED BY <1>1, <2>2, <2>3, <2>5, ForgottenCache
<1>3. CASE ~mine
    <2>1. entries' = entries
        BY <1>1, <1>3
    <2>2. \A j \in DOMAIN entries : ~(sel[c].probe = entries[j].probe /\ Holds(c, j))
        BY <1>3 DEF Holds
    <2>3. \A j \in DOMAIN entries' : entries'[j] \in Entry /\ Earned(entries'[j])
        BY <2>1 DEF CacheInv
    <2> QED BY <1>1, <2>1, <2>2, <2>3, ForgottenCache
<1> QED BY <1>2, <1>3

LEMMA CompleteCache ==
    ASSUME CacheInv, NEW c \in Callers, Complete(c)
    PROVE  CacheInv'
<1> DEFINE k == sel[c].key
<1>1. /\ pc' = [d \in Callers |-> pc'[d]] /\ pc'[c] = "return"
      /\ \A d \in Callers \ {c} : pc'[d] = pc[d]
      /\ UNCHANGED <<sel, nonce>>
    BY DEF Complete, CacheInv
<1>2. \A d \in Callers : pc'[d] \in {"idle", "select"} => sel[d].probe = 0
    BY <1>1 DEF CacheInv
<1>3. ASSUME DOMAIN entries' = DOMAIN entries,
             \A j \in DOMAIN entries \ {k} : entries'[j] = entries[j],
             k \in DOMAIN entries =>
               /\ entries'[k] \in Entry /\ Earned(entries'[k])
               /\ \/ entries'[k].probe = 0
                  \/ /\ entries'[k].probe = entries[k].probe
                     /\ ~(sel[c].probe # 0 /\ sel[c].probe = entries[k].probe)
      PROVE  CacheInv'
    <2> HIDE DEF k
    <2>1. \A j \in DOMAIN entries' : entries'[j] \in Entry /\ Earned(entries'[j])
        BY <1>3 DEF CacheInv
    <2>2. ASSUME NEW j \in DOMAIN entries', entries'[j].probe # 0
          PROVE  \E d \in Callers : sel'[d].probe = entries'[j].probe /\ Holds(d, j)'
        <3>1. entries'[j].probe = entries[j].probe
            BY <1>3, <2>2
        <3>2. PICK d \in Callers : sel[d].probe = entries[j].probe /\ Holds(d, j)
            BY <1>3, <2>2, <3>1 DEF CacheInv
        <3>3. d # c
            BY <1>3, <2>2, <3>1, <3>2 DEF Holds, k
        <3>4. Holds(d, j)'
            BY <1>1, <3>2, <3>3 DEF Holds
        <3> QED BY <1>1, <3>1, <3>2, <3>4
    <2> QED BY <1>1, <1>2, <2>1, <2>2 DEF CacheInv
<1>4. CASE k \notin DOMAIN entries
    <2>1. entries' = entries
        BY <1>4 DEF Complete
    <2> QED BY <1>3, <1>4, <2>1
<1>5. CASE k \in DOMAIN entries
    <2>1. PICK faster \in Routes, slow \in BOOLEAN :
            LET e == Measured(entries[k], sel[c].route, slow)
                mine == sel[c].probe # 0 /\ e.probe = sel[c].probe
            IN  entries' = [entries EXCEPT ![k] = IF mine THEN ProbeEnds(e, faster) ELSE e]
        BY <1>5 DEF Complete
    <2> DEFINE e == Measured(entries[k], sel[c].route, slow)
               mine == sel[c].probe # 0 /\ e.probe = sel[c].probe
               new == IF mine THEN ProbeEnds(e, faster) ELSE e
    <2>2. e \in Entry /\ Earned(e) /\ e.probe = entries[k].probe
        BY <1>5, MeasuredOK DEF CacheInv
    <2>3. entries' = [entries EXCEPT ![k] = new]
        BY <2>1
    <2> HIDE DEF e
    <2>4. /\ new \in Entry /\ Earned(new)
          /\ \/ new.probe = 0
             \/ /\ new.probe = entries[k].probe
                /\ ~(sel[c].probe # 0 /\ sel[c].probe = entries[k].probe)
        BY <2>2, ProbeEndsOK
    <2> HIDE DEF new, k
    <2>5. /\ DOMAIN entries' = DOMAIN entries /\ entries'[k] = new
          /\ \A j \in DOMAIN entries \ {k} : entries'[j] = entries[j]
        BY <2>3, <1>5
    <2> QED BY <1>3, <2>4, <2>5
<1> QED BY <1>4, <1>5

LEMMA SelectCache ==
    ASSUME CacheInv, NEW c \in Callers, Select(c)
    PROVE  CacheInv'
<1> DEFINE key == make_key(task[c])
           Keep(gone) == (DOMAIN entries \ gone) \cup {key}
           e == IF key \in DOMAIN entries THEN entries[key] ELSE NewEntry
           D(faster) == IF e.probe # 0 THEN [entry |-> e, probe |-> "none", fresh |-> FALSE]
                        ELSE Considered(e, task[c].kind, faster)
           Probes(faster) == D(faster).probe # "none"
           New(faster) == IF Probes(faster) THEN [D(faster).entry EXCEPT !.probe = nonce]
                          ELSE D(faster).entry
           Route(faster) ==
             CASE Probes(faster)                         -> D(faster).probe
               [] ~Probes(faster) /\ New(faster).stable  -> New(faster).route
               [] ~Probes(faster) /\ ~New(faster).stable -> "Scheduled"
<1>1. PICK gone \in Evicted(key), faster \in Routes :
        /\ entries' = [k \in Keep(gone) |-> IF k = key THEN New(faster) ELSE entries[k]]
        /\ nonce' = IF Probes(faster) THEN nonce + 1 ELSE nonce
        /\ sel' = [sel EXCEPT ![c] =
                     [enabled |-> TRUE, route |-> Route(faster), fresh |-> D(faster).fresh,
                      probe |-> IF Probes(faster) THEN nonce ELSE 0, key |-> key]]
        /\ pc' = [pc EXCEPT ![c] = IF Route(faster) = "Sequential" THEN "sequential"
                                   ELSE "scheduled"]
    BY DEF Select
<1> DEFINE keep == Keep(gone)
           d == D(faster)
           probes == d.probe # "none"
           new == New(faster)
           s == [enabled |-> TRUE, route |-> Route(faster), fresh |-> d.fresh,
                 probe |-> IF probes THEN nonce ELSE 0, key |-> key]
           p == IF Route(faster) = "Sequential" THEN "sequential" ELSE "scheduled"
<1>2. /\ entries' = [k \in keep |-> IF k = key THEN new ELSE entries[k]]
      /\ nonce' = IF probes THEN nonce + 1 ELSE nonce
      /\ sel' = [sel EXCEPT ![c] = s]
      /\ pc' = [pc EXCEPT ![c] = p]
    BY <1>1
<1>3. p \in {"sequential", "scheduled"}
    OBVIOUS
<1>4. s.enabled /\ s.key = key /\ s.probe = IF probes THEN nonce ELSE 0
    OBVIOUS
<1>5. /\ key \in keep /\ keep \subseteq DOMAIN entries \cup {key}
    OBVIOUS
<1>6. e \in Entry /\ Earned(e) /\ (key \in DOMAIN entries => e = entries[key])
      /\ (key \notin DOMAIN entries => e.probe = 0)
    BY NewEntryOK DEF CacheInv, NewEntry
<1> HIDE DEF Keep, keep, s, p, key, e
<1>7. /\ d.entry \in Entry /\ Earned(d.entry) /\ d.entry.probe = e.probe
      /\ e.probe # 0 => d.probe = "none"
    BY <1>6, ConsideredOK
<1> HIDE DEF D
<1>8. /\ new \in Entry /\ Earned(new)
      /\ probes => new.probe = nonce /\ e.probe = 0
      /\ ~probes => new.probe = e.probe
    BY <1>7 DEF Entry, Earned, CacheInv
<1> HIDE DEF New, d, new, probes
<1>9. /\ sel' = [a \in Callers |-> sel'[a]] /\ sel'[c] = s
      /\ pc' = [a \in Callers |-> pc'[a]] /\ pc'[c] = p
      /\ \A a \in Callers \ {c} : sel'[a] = sel[a] /\ pc'[a] = pc[a]
    BY <1>2 DEF CacheInv
<1>10. nonce \in Nat \ {0} /\ nonce' \in Nat \ {0} /\ nonce <= nonce' /\ (probes => nonce < nonce')
    BY <1>2 DEF CacheInv
<1>11. ASSUME NEW a \in Callers
       PROVE  /\ sel'[a].probe \in Nat /\ sel'[a].probe < nonce'
              /\ sel'[a].probe # 0 => sel'[a].enabled
              /\ pc'[a] \in {"idle", "select"} => sel'[a].probe = 0
    <2>1. CASE a = c
        BY <1>3, <1>4, <1>9, <1>10, <2>1
    <2>2. CASE a # c
        <3>1. sel[a].probe \in Nat /\ sel[a].probe < nonce
            BY DEF CacheInv
        <3>2. sel'[a].probe \in Nat /\ sel'[a].probe < nonce'
            BY <1>9, <1>10, <2>2, <3>1
        <3> QED BY <1>9, <2>2, <3>2 DEF CacheInv
    <2> QED BY <2>1, <2>2
<1>12. ASSUME NEW a \in Callers, NEW b \in Callers,
              sel'[a].probe # 0, sel'[a].probe = sel'[b].probe
       PROVE  a = b
    <2>1. \A x \in Callers \ {c} : sel'[x].probe = sel[x].probe /\ sel[x].probe < nonce
                                   /\ sel[x].probe \in Nat
        BY <1>9 DEF CacheInv
    <2>2. sel'[c].probe \in {0, nonce}
        BY <1>4, <1>9
    <2>3. CASE a # c /\ b # c
        BY <1>12, <2>1, <2>3 DEF CacheInv
    <2>4. CASE a = c /\ b # c
        BY <1>10, <1>12, <2>1, <2>2, <2>4
    <2>5. CASE a # c /\ b = c
        BY <1>10, <1>12, <2>1, <2>2, <2>5
    <2> QED BY <2>3, <2>4, <2>5
<1>13. ASSUME NEW a \in Callers, NEW k, Holds(a, k), a # c
       PROVE  Holds(a, k)' /\ sel'[a].probe = sel[a].probe
    BY <1>9, <1>13 DEF Holds
<1>14. pc[c] = "select" /\ sel[c].probe = 0
    BY DEF Select, CacheInv
<1>15. ASSUME NEW k \in DOMAIN entries'
       PROVE  /\ entries'[k] \in Entry /\ Earned(entries'[k])
              /\ entries'[k].probe # 0 =>
                   \E a \in Callers : sel'[a].probe = entries'[k].probe /\ Holds(a, k)'
    <2>1. k \in keep
        BY <1>2
    <2>2. CASE k = key
        <3>1. entries'[k] = new
            BY <1>2, <2>1, <2>2
        <3>2. CASE probes
            <4>1. Holds(c, k)'
                BY <1>3, <1>4, <1>9, <1>10, <2>2, <3>2 DEF Holds
            <4> QED BY <1>4, <1>8, <1>9, <3>1, <3>2, <4>1
        <3>3. CASE ~probes
            <4> SUFFICES ASSUME entries'[k].probe # 0
                         PROVE  \E a \in Callers : sel'[a].probe = entries'[k].probe /\ Holds(a, k)'
                BY <1>8, <3>1
            <4>1. e.probe # 0 /\ entries'[k].probe = e.probe
                BY <1>8, <3>1, <3>3
            <4>2. key \in DOMAIN entries /\ entries[key].probe = e.probe
                BY <1>6, <4>1
            <4>3. PICK a \in Callers : sel[a].probe = entries[k].probe /\ Holds(a, k)
                BY <2>2, <4>1, <4>2 DEF CacheInv
            <4>4. a # c
                BY <1>14, <4>3 DEF Holds
            <4> QED BY <1>13, <2>2, <4>1, <4>2, <4>3, <4>4
        <3> QED BY <3>2, <3>3
    <2>3. CASE k # key
        <3>1. k \in DOMAIN entries /\ entries'[k] = entries[k]
            BY <1>2, <1>5, <2>1, <2>3
        <3> SUFFICES ASSUME entries[k].probe # 0
                     PROVE  \E a \in Callers : sel'[a].probe = entries[k].probe /\ Holds(a, k)'
            BY <3>1 DEF CacheInv
        <3>2. PICK a \in Callers : sel[a].probe = entries[k].probe /\ Holds(a, k)
            BY <3>1 DEF CacheInv
        <3>3. a # c
            BY <1>14, <3>2 DEF Holds
        <3> QED BY <1>13, <3>2, <3>3
    <2> QED BY <2>2, <2>3
<1> QED BY <1>9, <1>10, <1>11, <1>12, <1>15 DEF CacheInv

LEMMA ClearCache ==
    ASSUME CacheInv, ClearDispatch
    PROVE  CacheInv'
<1>1. DOMAIN entries' = {} /\ UNCHANGED <<pc, sel, nonce>>
    BY DEF ClearDispatch
<1> QED BY <1>1 DEF CacheInv

LEMMA CacheStep ==
    ASSUME CacheInv, [Next]_vars
    PROVE  CacheInv'
<1>1. ASSUME UNCHANGED <<entries, nonce, sel, pc>>
      PROVE  CacheInv'
    BY <1>1 DEF CacheInv, Holds
<1>2. ASSUME NEW c \in Callers,
             \/ Begin(c) \/ RunSequential(c) \/ RunDirect(c) \/ StartChunks(c)
             \/ Join(c) \/ JoinParts(c) \/ JoinFailed(c)
             \/ Accumulate(c) \/ MergePass(c) \/ Finish(c)
      PROVE  CacheInv'
    <2>1. CASE Begin(c)
        <3>1. sel[c].probe = 0 /\ UNCHANGED <<entries, nonce, sel>>
            BY <2>1 DEF Begin, CacheInv
        <3>2. PICK t, p, r : Begins(c, t, p, r)
            BY <2>1, BeginIs
        <3>3. pc' = [pc EXCEPT ![c] = p]
            BY <3>2 DEF Begins
        <3> QED BY <3>1, <3>3, QuietCache
    <2>2. CASE \/ RunSequential(c) \/ RunDirect(c) \/ StartChunks(c)
               \/ Join(c) \/ JoinParts(c) \/ JoinFailed(c)
        <3>1. UNCHANGED <<entries, nonce, sel>>
            BY <2>2 DEF RunSequential, RunDirect, RunsWhole, StartChunks, Join, JoinParts,
                        JoinFailed
        <3>2. PICK p \in {AfterWork(c), "cancel", "chunks", "combine"} : pc' = [pc EXCEPT ![c] = p]
            BY <2>2 DEF RunSequential, RunDirect, RunsWhole, StartChunks, Join, JoinParts,
                        JoinFailed
        <3>3. sel[c].probe # 0 => p \notin {"idle", "select", "return"}
            BY DEF AfterWork, CacheInv
        <3> QED BY <3>1, <3>2, <3>3, QuietCache
    <2>3. CASE Accumulate(c) \/ MergePass(c) \/ Finish(c)
        <3>1. UNCHANGED <<entries, nonce, sel>>
            BY <2>3 DEF Accumulate, MergePass, Finish, OnlyCombining
        <3>2. UNCHANGED pc \/ \E p \in {AfterWork(c), "cancel"} : pc' = [pc EXCEPT ![c] = p]
            BY <2>3 DEF Accumulate, MergePass, Finish, CombineThrows
        <3>3. CASE UNCHANGED pc
            BY <1>1, <3>1, <3>3
        <3>4. CASE \E p \in {AfterWork(c), "cancel"} : pc' = [pc EXCEPT ![c] = p]
            <4>1. PICK p \in {AfterWork(c), "cancel"} : pc' = [pc EXCEPT ![c] = p]
                BY <3>4
            <4>2. sel[c].probe # 0 => p \notin {"idle", "select", "return"}
                BY DEF AfterWork, CacheInv
            <4> QED BY <3>1, <4>1, <4>2, QuietCache
        <3> QED BY <3>2, <3>3, <3>4
    <2> QED BY <1>2, <2>1, <2>2, <2>3
<1>3. ASSUME NEW c \in Callers,
             \/ RunChunk(c) \/ StartSearch(c) \/ Look(c) \/ StoreHit(c) \/ LoadBest(c)
             \/ SwapBest(c)
      PROVE  CacheInv'
    <2>1. OnlyLocal(c)
        BY <1>3 DEF RunChunk, StartSearch, Look, StoreHit, LoadBest, SwapBest
    <2> QED BY <1>1, <2>1 DEF OnlyLocal
<1>4. CASE UNCHANGED vars \/ ClearProfiles \/ Terminated
    BY <1>1, <1>4 DEF ClearProfiles, Terminated
<1> QED BY <1>2, <1>3, <1>4, SelectCache, CompleteCache, ReturnCache, CancelCache,
           ClearCache DEF Next

LEMMA CacheInit == Init => CacheInv
<1> SUFFICES ASSUME Init PROVE CacheInv
    OBVIOUS
<1>1. DOMAIN entries = {} /\ nonce = 1
    BY DEF Init
<1>2. \A c \in Callers : sel[c].probe = 0
    BY DEF Init, NotEnabled
<1> QED BY <1>1, <1>2 DEF Init, CacheInv

LEMMA CacheAlways == Spec => []CacheInv
<1>1. CacheInv /\ [Next]_vars => CacheInv'
    BY CacheStep
<1> QED BY <1>1, CacheInit, PTL DEF Spec

\* AlgorithmDispatchCache: an entry that waits for a probe waits for exactly
\* one running call, whatever throws, is evicted or reset, for any number of
\* callers and any limit of the shard.
THEOREM ProbesProved == Spec => []ProbesOwned
<1>1. CacheInv => ProbesOwned
    <2> SUFFICES ASSUME CacheInv, NEW k \in DOMAIN entries, entries[k].probe # 0
                 PROVE  Cardinality({c \in Callers : sel[c].probe = entries[k].probe
                                                     /\ sel[c].key = k}) = 1
        BY DEF ProbesOwned
    <2> DEFINE owners == {c \in Callers : sel[c].probe = entries[k].probe /\ sel[c].key = k}
    <2>1. PICK c \in Callers : sel[c].probe = entries[k].probe /\ Holds(c, k)
        BY DEF CacheInv
    <2>2. owners = {c}
        BY <2>1 DEF CacheInv, Holds
    <2>3. Cardinality({c}) = 1
        BY FS_Singleton
    <2> QED BY <2>2, <2>3
<1> QED BY <1>1, CacheAlways, PTL

\* choose_stable_route and its callers: no entry is made stable before its
\* scheduled route was measured, nor sequential before both were.
THEOREM RoutesProved == Spec => []RoutesEarned
<1>1. CacheInv => RoutesEarned
    BY DEF CacheInv, RoutesEarned, Earned
<1> QED BY <1>1, CacheAlways, PTL

-----------------------------------------------------------------------------
(* The size of a shard.                                                    *)

\* Last uses are in a linear order.
Ranked(o, d) ==
    /\ o \subseteq d \X d
    /\ \A j, k \in d : /\ <<j, k>> \in o => <<k, j>> \notin o
                       /\ j # k => <<j, k>> \in o \/ <<k, j>> \in o
                       /\ \A i \in d : <<i, j>> \in o /\ <<j, k>> \in o => <<i, k>> \in o

BoundInv ==
    /\ IsFiniteSet(DOMAIN entries)
    /\ Cardinality(DOMAIN entries) <= Greater(PerShard, Cardinality(Callers))
    /\ Ranked(order, DOMAIN entries)

\* The order after a use of key.
LEMMA TouchedRanked ==
    ASSUME NEW key, NEW gone, Ranked(order, DOMAIN entries)
    PROVE  Ranked(Touched(key, gone), (DOMAIN entries \ gone) \cup {key})
<1> DEFINE rest == DOMAIN entries \ (gone \cup {key})
           d == rest \cup {key}
           o == (order \cap (rest \X rest)) \cup (rest \X {key})
<1>1. Touched(key, gone) = o /\ (DOMAIN entries \ gone) \cup {key} = d
    BY DEF Touched
<1>2. rest \subseteq DOMAIN entries /\ key \notin rest
    OBVIOUS
<1> HIDE DEF rest
<1>3. \A j, k : <<j, k>> \in o <=> \/ j \in rest /\ k \in rest /\ <<j, k>> \in order
                                   \/ j \in rest /\ k = key
    OBVIOUS
<1>4. o \subseteq d \X d
    OBVIOUS
<1> HIDE DEF o
<1>5. ASSUME NEW j \in d, NEW k \in d
      PROVE  /\ <<j, k>> \in o => <<k, j>> \notin o
             /\ j # k => <<j, k>> \in o \/ <<k, j>> \in o
    BY <1>2, <1>3 DEF Ranked
<1>6. ASSUME NEW i \in d, NEW j \in d, NEW k \in d, <<i, j>> \in o, <<j, k>> \in o
      PROVE  <<i, k>> \in o
    <2>1. i \in rest /\ j \in rest /\ <<i, j>> \in order
        BY <1>2, <1>3, <1>6
    <2>2. CASE k = key
        BY <1>3, <2>1, <2>2
    <2>3. CASE k \in rest
        BY <1>2, <1>3, <1>6, <2>1, <2>3 DEF Ranked
    <2> QED BY <2>2, <2>3
<1> QED BY <1>1, <1>4, <1>5, <1>6 DEF Ranked

\* The entries that are probed are fewer than the callers if one of these has
\* no probe.
LEMMA ProbedFew ==
    ASSUME CacheInv, IsFiniteSet(DOMAIN entries), NEW c \in Callers, sel[c].probe = 0
    PROVE  Cardinality(DOMAIN entries \ Idle) < Cardinality(Callers)
<1> DEFINE probed == DOMAIN entries \ Idle
           others == Callers \ {c}
           owner == [k \in probed |->
                       CHOOSE a \in others : sel[a].probe = entries[k].probe /\ Holds(a, k)]
<1>1. ASSUME NEW k \in probed
      PROVE  \E a \in others : sel[a].probe = entries[k].probe /\ Holds(a, k)
    <2>1. k \in DOMAIN entries /\ entries[k].probe # 0
        BY DEF Idle
    <2>2. PICK a \in Callers : sel[a].probe = entries[k].probe /\ Holds(a, k)
        BY <2>1 DEF CacheInv
    <2> QED BY <2>1, <2>2
<1>2. ASSUME NEW k \in probed
      PROVE  owner[k] \in others /\ Holds(owner[k], k)
    BY <1>1
<1>3. owner \in Injection(probed, others)
    <2>1. owner \in [probed -> others]
        BY <1>2
    <2>2. ASSUME NEW j \in probed, NEW k \in probed, owner[j] = owner[k] PROVE j = k
        BY <1>2, <2>2 DEF Holds
    <2> HIDE DEF owner
    <2> QED BY <2>1, <2>2 DEF Injection, IsInjective
<1>4. IsFiniteSet(probed) /\ IsFiniteSet(others)
    BY CallersAssumption, FS_Subset, FS_RemoveElement
<1>5. Cardinality(probed) <= Cardinality(others)
    BY <1>3, <1>4, FS_Injection
<1>6. Cardinality(others) = Cardinality(Callers) - 1 /\ Cardinality(Callers) \in Nat
    BY CallersAssumption, FS_RemoveElement, FS_CardinalityType
<1> QED BY <1>4, <1>5, <1>6, FS_CardinalityType

\* make_room_for_insert_locked leaves room, or evicts all but the probed entries.
LEMMA SelectBound ==
    ASSUME CacheInv, BoundInv, NEW c \in Callers, sel[c].probe = 0,
           NEW key, NEW gone \in Evicted(key)
    PROVE  LET keep == (DOMAIN entries \ gone) \cup {key}
           IN  /\ IsFiniteSet(keep)
               /\ Cardinality(keep) <= Greater(PerShard, Cardinality(Callers))
<1> DEFINE d == DOMAIN entries
           n == Cardinality(d)
           m == Cardinality(Idle)
           g == Cardinality(gone)
           w == Cardinality(Callers)
           left == d \ gone
           keep == left \cup {key}
<1>1. gone \subseteq Idle /\ Idle \subseteq d /\ g = Lesser(Surplus(key), m)
    BY DEF Evicted, Idle
<1>2. IsFiniteSet(d) /\ n \in Nat /\ n <= Greater(PerShard, w)
    BY FS_CardinalityType DEF BoundInv
<1>3. IsFiniteSet(Idle) /\ IsFiniteSet(gone) /\ m \in Nat /\ g \in Nat
    BY <1>1, <1>2, FS_Subset, FS_CardinalityType
<1>4. IsFiniteSet(left) /\ Cardinality(left) = n - g
    <2>1. d \cap gone = gone
        BY <1>1
    <2> QED BY <1>2, <1>3, <2>1, FS_Difference
<1>5. IsFiniteSet(keep) /\ Cardinality(keep) = IF key \in left THEN n - g ELSE n - g + 1
    BY <1>4, FS_AddElement
<1>6. w \in Nat
    BY CallersAssumption, FS_CardinalityType
<1>7. n - m < w
    <2>1. d \cap Idle = Idle
        BY <1>1
    <2>2. Cardinality(d \ Idle) = n - m
        BY <1>2, <1>3, <2>1, FS_Difference
    <2> QED BY <1>2, <2>2, ProbedFew
<1>8. Surplus(key) = IF key \in d \/ n < PerShard THEN 0 ELSE n - PerShard + 1
    BY DEF Surplus
<1> HIDE DEF d, n, m, g, w, left, keep
<1>9. PerShard \in Nat
    OBVIOUS
<1>10. CASE key \in d
    <2>1. g = 0
        BY <1>1, <1>3, <1>8, <1>10 DEF Lesser
    <2>2. key \in left
        <3>1. gone = {}
            BY <1>3, <2>1, FS_EmptySet DEF g
        <3> QED BY <1>10, <3>1 DEF left
    <2> QED BY <1>2, <1>5, <2>1, <2>2 DEF keep, left, d, w
<1>11. CASE key \notin d
    <2>1. key \notin left
        BY <1>11 DEF left
    <2>2. n - g + 1 <= Greater(PerShard, w)
        BY <1>1, <1>2, <1>3, <1>6, <1>7, <1>8, <1>9, <1>11 DEF Lesser, Greater
    <2> QED BY <1>5, <2>1, <2>2 DEF keep, left, d, w
<1> QED BY <1>10, <1>11

LEMMA BoundStep ==
    ASSUME CacheInv, BoundInv, [Next]_vars
    PROVE  BoundInv'
<1>1. ASSUME UNCHANGED <<entries, order>> PROVE BoundInv'
    BY <1>1 DEF BoundInv, Ranked
<1>2. ASSUME NEW c \in Callers, Select(c) PROVE BoundInv'
    <2> DEFINE key == make_key(task[c])
    <2>1. PICK gone \in Evicted(key) :
            /\ DOMAIN entries' = (DOMAIN entries \ gone) \cup {key}
            /\ order' = Touched(key, gone)
        BY <1>2 DEF Select
    <2>2. sel[c].probe = 0
        BY <1>2 DEF Select, CacheInv
    <2> HIDE DEF key
    <2>3. Ranked(order', DOMAIN entries')
        BY <2>1, TouchedRanked DEF BoundInv
    <2> QED BY <2>1, <2>2, <2>3, SelectBound DEF BoundInv
<1>3. ASSUME NEW c \in Callers, Complete(c) PROVE BoundInv'
    <2> DEFINE k == sel[c].key
    <2>1. CASE k \notin DOMAIN entries
        BY <1>1, <1>3, <2>1 DEF Complete
    <2>2. CASE k \in DOMAIN entries
        <3>1. DOMAIN entries' = DOMAIN entries /\ order' = Touched(k, {})
            BY <1>3, <2>2 DEF Complete
        <3>2. (DOMAIN entries \ {}) \cup {k} = DOMAIN entries
            BY <2>2
        <3> HIDE DEF k
        <3>3. Ranked(order', DOMAIN entries')
            BY <3>1, <3>2, TouchedRanked DEF BoundInv
        <3> QED BY <3>1, <3>3 DEF BoundInv
    <2> QED BY <2>1, <2>2
<1>4. ASSUME NEW c \in Callers, Cancel(c) PROVE BoundInv'
    BY <1>4 DEF Cancel, BoundInv, Ranked
<1>5. CASE ClearDispatch
    <2>1. DOMAIN entries' = {} /\ order' = {}
        BY <1>5 DEF ClearDispatch
    <2>2. Cardinality(Callers) \in Nat
        BY CallersAssumption, FS_CardinalityType
    <2> QED BY <2>1, <2>2, FS_EmptySet DEF BoundInv, Ranked, Greater
<1>6. ASSUME NEW c \in Callers,
             \/ Begin(c) \/ RunSequential(c) \/ RunDirect(c) \/ StartChunks(c)
             \/ Join(c) \/ JoinParts(c) \/ JoinFailed(c) \/ Return(c)
             \/ Accumulate(c) \/ MergePass(c) \/ Finish(c)
      PROVE  BoundInv'
    BY <1>1, <1>6 DEF Begin, RunSequential, RunDirect, RunsWhole, StartChunks, Join,
                      JoinParts, JoinFailed, Return, Accumulate, MergePass, Finish,
                      OnlyCombining
<1>7. ASSUME NEW c \in Callers,
             \/ RunChunk(c) \/ StartSearch(c) \/ Look(c) \/ StoreHit(c) \/ LoadBest(c)
             \/ SwapBest(c)
      PROVE  BoundInv'
    BY <1>1, <1>7 DEF RunChunk, StartSearch, Look, StoreHit, LoadBest, SwapBest, OnlyLocal
<1>8. CASE UNCHANGED vars \/ ClearProfiles \/ Terminated
    BY <1>1, <1>8 DEF ClearProfiles, Terminated
<1> QED BY <1>2, <1>3, <1>4, <1>5, <1>6, <1>7, <1>8 DEF Next

\* make_room_for_insert_locked: a shard exceeds its limit only by entries that
\* were probed when it was full, one for each other caller at most, and its
\* entries are in a linear order of their last uses; for any number of callers,
\* callsites and resets, and any limit.
THEOREM ShardProved == Spec => []ShardBounded
<1>1. Init => BoundInv
    <2> SUFFICES ASSUME Init PROVE BoundInv
        OBVIOUS
    <2>1. DOMAIN entries = {} /\ order = {}
        BY DEF Init
    <2>2. Cardinality(Callers) \in Nat
        BY CallersAssumption, FS_CardinalityType
    <2> QED BY <2>1, <2>2, FS_EmptySet DEF BoundInv, Ranked, Greater
<1>2. CacheInv /\ BoundInv /\ [Next]_vars => BoundInv'
    BY BoundStep
<1>3. BoundInv => ShardBounded
    BY DEF BoundInv, Ranked, ShardBounded
<1> QED BY <1>1, <1>2, <1>3, CacheAlways, PTL DEF Spec

-----------------------------------------------------------------------------
(* Chunks cut a range: each index is in exactly one of them.               *)

\* A product the provers take as a whole.
Times(a, d) == a * d

LEMMA DivisionIs ==
    ASSUME NEW n \in Nat, NEW d \in Nat \ {0}
    PROVE  /\ n \div d \in Nat /\ n % d \in 0..(d - 1)
           /\ n = Times(n \div d, d) + (n % d)
<1>1. n % d \in 0..(d - 1)
    OBVIOUS
<1>2. n \div d \in Int
    OBVIOUS
<1>3. n % d = n - d * (n \div d)
    BY SMT
<1> DEFINE q == n \div d
           r == n % d
<1>4. q \in Int /\ r \in 0..(d - 1) /\ r = n - d * q
    BY <1>1, <1>2, <1>3
<1> HIDE DEF q, r
<1>5. q >= 0
    BY <1>4
<1>6. n = Times(q, d) + r /\ q \in Nat
    BY <1>4, <1>5 DEF Times
<1> QED BY <1>4, <1>6, Zenon DEF q, r

LEMMA TimesIs ==
    ASSUME NEW a \in Nat, NEW d \in Nat
    PROVE  /\ Times(a, d) \in Nat /\ Times(a + 1, d) = Times(a, d) + d
BY DEF Times

LEMMA MultiplesGrow ==
    ASSUME NEW a \in Nat, NEW b \in Nat, NEW d \in Nat
    PROVE  /\ a < b => Times(a, d) + d <= Times(b, d)
           /\ Times(a, d) < Times(b, d) => a < b
           /\ Times(a + 1, d) = Times(a, d) + d
           /\ Times(a, d + 1) = Times(a, d) + a
           /\ Times(a + b, d) = Times(a, d) + Times(b, d)
           /\ Times(a, d) \in Nat
<1>1. ASSUME NEW m \in Nat, NEW n \in Nat
      PROVE  /\ Times(m, d) \in Nat /\ Times(m + n, d) = Times(m, d) + Times(n, d)
             /\ Times(m + 1, d) = Times(m, d) + d
             /\ Times(m, d + 1) = Times(m, d) + m
    BY DEF Times
<1>2. ASSUME a < b PROVE Times(a, d) + d <= Times(b, d)
    <2>1. PICK m \in Nat : b = (a + 1) + m
        BY <1>2
    <2>2. Times(b, d) = Times(a, d) + d + Times(m, d)
        BY <1>1, <2>1
    <2> QED BY <1>1, <2>2
<1>3. ASSUME Times(a, d) < Times(b, d) PROVE a < b
    <2>1. CASE b <= a
        <3>1. PICK m \in Nat : a = b + m
            BY <2>1
        <3>2. Times(a, d) = Times(b, d) + Times(m, d)
            BY <1>1, <3>1
        <3> QED BY <1>1, <1>3, <3>2
    <2> QED BY <2>1
<1> QED BY <1>1, <1>2, <1>3

\* What a cut of 0..(total - 1) into chunks has to satisfy.
Cut(total, ids, b, e) ==
    /\ \A k \in ids : /\ b[k] \in Nat /\ e[k] \in Nat
                      /\ b[k] < e[k] /\ e[k] <= total
    /\ \A i \in 0..(total - 1) : \E k \in ids : b[k] <= i /\ i < e[k]
    /\ \A k, l \in ids : k < l => e[k] <= b[l]


\* A range of base * chunks + rest, where the first rest chunks have one
\* element more.
LEMMA EvenCut ==
    ASSUME NEW total \in Nat, NEW chunks \in Nat \ {0}, NEW base \in Nat \ {0},
           NEW rest \in Nat, rest < chunks, total = Times(chunks, base) + rest,
           NEW b, NEW e,
           \A k \in 0..(chunks - 1) :
             /\ b[k] = Times(k, base) + Lesser(k, rest)
             /\ e[k] = b[k] + base + (IF k < rest THEN 1 ELSE 0)
    PROVE  Cut(total, 0..(chunks - 1), b, e)
<1> DEFINE ids == 0..(chunks - 1)
<1>1. ASSUME NEW k \in ids
      PROVE  /\ Times(k, base) \in Nat
             /\ b[k] \in Nat /\ e[k] \in Nat /\ b[k] < e[k]
             /\ k < rest => b[k] = Times(k, base) + k /\ e[k] = Times(k, base) + k + base + 1
             /\ k >= rest => b[k] = Times(k, base) + rest /\ e[k] = Times(k, base) + rest + base
    <2>1. Times(k, base) \in Nat
        BY MultiplesGrow
    <2> QED BY <2>1 DEF Lesser
<1>2. Times(chunks, base) \in Nat
    BY MultiplesGrow
<1>3. ASSUME NEW k \in ids
      PROVE  e[k] <= total
    <2>1. Times(k, base) + base <= Times(chunks, base)
        BY MultiplesGrow
    <2> QED BY <1>1, <1>2, <2>1
<1>4. ASSUME NEW k \in ids, NEW l \in ids, k < l
      PROVE  e[k] <= b[l]
    <2>1. Times(k, base) + base <= Times(l, base)
        BY <1>4, MultiplesGrow
    <2> QED BY <1>1, <1>4, <2>1
<1>5. ASSUME NEW i \in 0..(total - 1)
      PROVE  \E k \in ids : b[k] <= i /\ i < e[k]
    <2> DEFINE long == base + 1
    <2>1. /\ long \in Nat \ {0} /\ Times(rest, base) \in Nat
          /\ Times(rest, long) = Times(rest, base) + rest
        BY MultiplesGrow
    <2>2. CASE i < Times(rest, long)
        <3> DEFINE q == i \div long
                   m == i % long
        <3>1. q \in Nat /\ m \in 0..(long - 1) /\ i = Times(q, long) + m
            <4> HIDE DEF long
            <4>1. i \in Nat
                OBVIOUS
            <4> QED BY <2>1, <4>1, DivisionIs
        <3> HIDE DEF q, m
        <3>2. Times(q, long) = Times(q, base) + q /\ Times(q, base) \in Nat
            BY <3>1, MultiplesGrow
        <3>3. q < rest
            <4>1. Times(q, long) < Times(rest, long)
                BY <2>1, <2>2, <3>1, <3>2
            <4> HIDE DEF long
            <4> QED BY <2>1, <3>1, <4>1, MultiplesGrow
        <3>4. q \in ids
            BY <3>1, <3>3
        <3>5. b[q] <= i /\ i < e[q]
            BY <1>1, <3>1, <3>2, <3>3, <3>4
        <3> QED BY <3>4, <3>5
    <2>3. CASE i >= Times(rest, long)
        <3> DEFINE j == i - Times(rest, long)
        <3>0. j \in Nat
            BY <2>1, <2>3
        <3> HIDE DEF j
        <3> DEFINE q == j \div base
                   m == j % base
        <3>1. q \in Nat /\ m \in 0..(base - 1) /\ j = Times(q, base) + m
            BY <3>0, DivisionIs
        <3> HIDE DEF q, m
        <3> DEFINE k == rest + q
        <3>2. /\ k \in Nat /\ Times(k, base) = Times(rest, base) + Times(q, base)
              /\ Times(q, base) \in Nat
            BY <3>1, MultiplesGrow
        <3>3. i = Times(k, base) + rest + m
            BY <2>1, <3>1, <3>2 DEF j
        <3> HIDE DEF k
        <3>4. Times(k, base) < Times(chunks, base)
            BY <1>2, <2>1, <3>1, <3>2, <3>3
        <3>5. k < chunks
            BY <3>2, <3>4, MultiplesGrow
        <3>6. k \in ids /\ k >= rest
            BY <3>1, <3>2, <3>5 DEF k
        <3>7. b[k] <= i /\ i < e[k]
            BY <1>1, <3>1, <3>3, <3>6
        <3> QED BY <3>6, <3>7
    <2> QED BY <2>1, <2>2, <2>3
<1> QED BY <1>1, <1>3, <1>4, <1>5 DEF Cut

\* Leaves of a fixed size, the last one shorter.
LEMMA LeafCut ==
    ASSUME NEW total \in Nat \ {0}, NEW size \in Nat \ {0}, NEW top \in Nat,
           NEW last \in 0..(size - 1), total = Times(top, size) + last + 1,
           NEW b, NEW e,
           \A k \in 0..top :
             b[k] = Times(k, size) /\ e[k] = Lesser(total, Times(k + 1, size))
    PROVE  Cut(total, 0..top, b, e)
<1>1. ASSUME NEW k \in 0..top
      PROVE  /\ Times(k, size) \in Nat /\ Times(top, size) \in Nat
             /\ k < top => Times(k, size) + size <= Times(top, size)
             /\ b[k] = Times(k, size)
             /\ e[k] = Lesser(total, Times(k, size) + size)
    <2>0. k \in Nat
        OBVIOUS
    <2>1. Times(k, size) \in Nat /\ Times(k + 1, size) = Times(k, size) + size
        BY <2>0, TimesIs
    <2>2. Times(top, size) \in Nat
        BY TimesIs
    <2>3. ASSUME k < top PROVE Times(k, size) + size <= Times(top, size)
        BY <2>0, <2>3, MultiplesGrow
    <2> QED BY <2>1, <2>2, <2>3
<1>2. ASSUME NEW k \in 0..top
      PROVE  b[k] \in Nat /\ e[k] \in Nat /\ b[k] < e[k] /\ e[k] <= total
    BY <1>1 DEF Lesser
<1>3. ASSUME NEW k \in 0..top, NEW l \in 0..top, k < l
      PROVE  e[k] <= b[l]
    <2>1. Times(k, size) + size <= Times(l, size)
        BY <1>3, MultiplesGrow
    <2> QED BY <1>1, <2>1 DEF Lesser
<1>4. ASSUME NEW i \in 0..(total - 1)
      PROVE  \E k \in 0..top : b[k] <= i /\ i < e[k]
    <2> DEFINE q == i \div size
               m == i % size
    <2>0. i \in Nat
        OBVIOUS
    <2>1. q \in Nat /\ m \in 0..(size - 1) /\ i = Times(q, size) + m
        BY <2>0, DivisionIs
    <2> HIDE DEF q, m
    <2>2. Times(top, size) \in Nat /\ Times(q, size) \in Nat
        BY <2>1, MultiplesGrow
    <2>3. q <= top
        <3>1. CASE q > top
            <4>1. Times(top, size) + size <= Times(q, size)
                BY <2>1, <3>1, MultiplesGrow
            <4> QED BY <2>1, <2>2, <4>1
        <3> QED BY <2>1, <3>1
    <2>4. q \in 0..top
        BY <2>1, <2>3
    <2>5. b[q] <= i /\ i < e[q]
        BY <1>1, <2>1, <2>2, <2>4 DEF Lesser
    <2> QED BY <2>4, <2>5
<1> QED BY <1>2, <1>3, <1>4 DEF Cut

\* Every call's chunks cut its range.
LEMMA ChunksCut ==
    ASSUME NEW t, t.kind \in Kinds, t.total \in Nat \ {0}, t.workers \in Nat
    PROVE  Cut(t.total, ChunkIds(t), [k \in ChunkIds(t) |-> ChunkRange(t, k)[1]],
                                     [k \in ChunkIds(t) |-> ChunkRange(t, k)[2]])
<1> DEFINE total == t.total
           chunks == ChunkCount(t)
           b == [k \in ChunkIds(t) |-> ChunkRange(t, k)[1]]
           e == [k \in ChunkIds(t) |-> ChunkRange(t, k)[2]]
<1>1. CASE t.kind \in Canonical
    <2> DEFINE n == total - 1
               top == n \div LeafSize
               last == n % LeafSize
    <2>1. n \in Nat
        OBVIOUS
    <2>2. chunks = 1 + top
        BY <1>1 DEF ChunkCount, canonical_leaf_count
    <2> HIDE DEF n
    <2>3. top \in Nat /\ last \in 0..(LeafSize - 1) /\ n = Times(top, LeafSize) + last
        BY <2>1, DivisionIs
    <2> HIDE DEF top, last
    <2>4. ChunkIds(t) = 0..top
        BY <2>2, <2>3 DEF ChunkIds
    <2>5. \A k \in ChunkIds(t) : ChunkRange(t, k) =
            <<Times(k, LeafSize), Lesser(total, Times(k + 1, LeafSize))>>
        BY <1>1 DEF ChunkRange, canonical_leaf_range, Times
    <2>6. \A k \in 0..top : b[k] = Times(k, LeafSize) /\ e[k] = Lesser(total, Times(k + 1, LeafSize))
        BY <2>4, <2>5
    <2>7. Times(top, LeafSize) \in Nat
        BY <2>3, MultiplesGrow
    <2>8. total = Times(top, LeafSize) + last + 1
        BY <2>3, <2>7 DEF n
    <2> HIDE DEF b, e
    <2>9. Cut(total, 0..top, b, e)
        BY <2>3, <2>6, <2>8, LeafCut
    <2> QED BY <2>4, <2>9 DEF b, e
<1>2. CASE t.kind \notin Canonical
    <2>1. chunks = Greater(1, Lesser(total, t.workers * ChunksPerWorker))
        BY <1>2 DEF ChunkCount, algorithm_chunk_count
    <2>2. t.workers * ChunksPerWorker \in Nat
        OBVIOUS
    <2>3. chunks \in Nat \ {0} /\ chunks <= total
        BY <2>1, <2>2 DEF Greater, Lesser
    <2> DEFINE base == total \div chunks
               rest == total % chunks
    <2>4. ChunkIds(t) = 0..(chunks - 1)
        BY DEF ChunkIds
    <2>5. \A k \in ChunkIds(t) : ChunkRange(t, k) =
            <<Times(k, base) + Lesser(k, rest),
              Times(k, base) + Lesser(k, rest) + base + (IF k < rest THEN 1 ELSE 0)>>
        BY <1>2 DEF ChunkRange, algorithm_chunk_range, Times
    <2> HIDE DEF chunks
    <2>6. base \in Nat /\ rest \in 0..(chunks - 1) /\ total = Times(base, chunks) + rest
        BY <2>3, DivisionIs
    <2> HIDE DEF base, rest
    <2>7. total = Times(chunks, base) + rest /\ rest \in Nat /\ rest < chunks
        BY <2>3, <2>6 DEF Times
    <2>8. base # 0
        BY <2>3, <2>6 DEF Times
    <2>9. \A k \in 0..(chunks - 1) :
            /\ b[k] = Times(k, base) + Lesser(k, rest)
            /\ e[k] = b[k] + base + (IF k < rest THEN 1 ELSE 0)
        BY <2>4, <2>5
    <2> HIDE DEF b, e
    <2>10. Cut(total, 0..(chunks - 1), b, e)
        BY <2>3, <2>6, <2>7, <2>8, <2>9, EvenCut
    <2> QED BY <2>4, <2>10 DEF b, e
<1> QED BY <1>1, <1>2

-----------------------------------------------------------------------------
(* What a call of a loop or a search has reached.                          *)

TaskOK(t) ==
    /\ t.kind \in Kinds /\ t.total \in Nat \ {0} /\ t.workers \in Nat
    /\ t.input \in [0..(t.total - 1) -> Elements(t.kind)]

\* The shared value of a search claims only what was found.
Sound(t, v) ==
    IF t.kind = "find_if" THEN v \in 0..t.total /\ (v < t.total => Hit(t, v))
    ELSE v \in BOOLEAN /\ (v # Undecided(t) => \E j \in Indices(t) : Hit(t, j))

Chunk == [at : {"todo", "look", "hit", "swap", "done"}, i : Nat, seen : Nat]

\* A chunk x has met no hit before its index, and when it is done the shared
\* value v accounts for all of its hits.
ChunkOK(t, k, x, v, bad) ==
    /\ x \in Chunk
    /\ x.at \in {"look", "hit", "swap"} =>
         /\ x.i \in Between(ChunkRange(t, k))
         /\ \A j \in Between(ChunkRange(t, k)) : j < x.i => ~Hit(t, j)
    /\ x.at \in {"hit", "swap"} => Hit(t, x.i)
    /\ x.at = "swap" => t.kind = "find_if" /\ v <= x.seen
    /\ x.at = "done" /\ ~bad =>
         \A j \in Between(ChunkRange(t, k)) : Hit(t, j) => Decided(t, v, j)

SearchOK(t, x, v, bad) ==
    /\ Sound(t, v)
    /\ \A k \in ChunkIds(t) : ChunkOK(t, k, x[k], v, bad)

\* A loop or reduction has visited the indices of the chunks that are done.
LoopOK(t, x, n, bad) ==
    /\ n = [i \in Indices(t) |-> n[i]]
    /\ \A k \in ChunkIds(t) :
         /\ x[k].at \in {"todo", "done"} /\ "at" \in DOMAIN x[k]
         /\ ~bad => \A i \in Between(ChunkRange(t, k)) :
                      n[i] = IF x[k].at = "done" THEN 1 ELSE 0

CallOK(p, t, x, v, n, bad, r) ==
    /\ p \in {"select", "sequential", "scheduled", "chunks", "combine"} => TaskOK(t)
    /\ p \in {"select", "sequential"} => t.kind \in algorithm_hot_dispatch_family
    /\ p = "combine" => t.kind \notin Loops \cup Searches
    /\ p = "chunks" =>
         /\ x = [k \in ChunkIds(t) |-> x[k]]
         /\ t.kind \in Searches => SearchOK(t, x, v, bad)
         /\ t.kind \notin Searches => LoopOK(t, x, n, bad)
    /\ p \in {"complete", "return"} /\ t.kind \in Loops \cup Searches => r = Expected(t)

LEMMA ChunkFacts ==
    ASSUME NEW t, TaskOK(t)
    PROVE  /\ \A k \in ChunkIds(t) : /\ ChunkRange(t, k)[1] \in Nat /\ ChunkRange(t, k)[2] \in Nat
                                     /\ ChunkRange(t, k)[1] < ChunkRange(t, k)[2]
                                     /\ ChunkRange(t, k)[2] <= t.total
                                     /\ Between(ChunkRange(t, k)) \subseteq Indices(t)
           /\ \A i \in Indices(t) : \E k \in ChunkIds(t) : i \in Between(ChunkRange(t, k))
           /\ \A k, l \in ChunkIds(t) : \A i : i \in Between(ChunkRange(t, k))
                 /\ i \in Between(ChunkRange(t, l)) => k = l
           /\ ChunkIds(t) \subseteq Int
<1> DEFINE b == [k \in ChunkIds(t) |-> ChunkRange(t, k)[1]]
           e == [k \in ChunkIds(t) |-> ChunkRange(t, k)[2]]
<1>1. Cut(t.total, ChunkIds(t), b, e)
    BY ChunksCut DEF TaskOK
<1>2. \A k \in ChunkIds(t) : b[k] = ChunkRange(t, k)[1] /\ e[k] = ChunkRange(t, k)[2]
    OBVIOUS
<1> HIDE DEF b, e
<1>3. \A k \in ChunkIds(t) : Between(ChunkRange(t, k)) = b[k]..(e[k] - 1)
    BY <1>2 DEF Between
<1>4. t.total \in Nat /\ Indices(t) = 0..(t.total - 1) /\ ChunkIds(t) \subseteq Int
    BY DEF TaskOK, Indices, ChunkIds
<1>5. \A k \in ChunkIds(t) : /\ b[k] \in Nat /\ e[k] \in Nat /\ b[k] < e[k] /\ e[k] <= t.total
    BY <1>1 DEF Cut
<1>6. \A k, l \in ChunkIds(t) : k < l => e[k] <= b[l]
    BY <1>1 DEF Cut
<1>7. \A k \in ChunkIds(t) : Between(ChunkRange(t, k)) \subseteq Indices(t)
    BY <1>3, <1>4, <1>5
<1>8. ASSUME NEW i \in Indices(t)
      PROVE  \E k \in ChunkIds(t) : i \in Between(ChunkRange(t, k))
    <2>1. PICK k \in ChunkIds(t) : b[k] <= i /\ i < e[k]
        BY <1>1, <1>4 DEF Cut
    <2>2. i \in b[k]..(e[k] - 1)
        BY <1>4, <1>5, <2>1
    <2> QED BY <1>3, <2>2
<1>9. ASSUME NEW k \in ChunkIds(t), NEW l \in ChunkIds(t), NEW i,
             i \in Between(ChunkRange(t, k)), i \in Between(ChunkRange(t, l))
      PROVE  k = l
    <2>1. i \in b[k]..(e[k] - 1) /\ i \in b[l]..(e[l] - 1)
        BY <1>3, <1>9
    <2>2. k \in Int /\ l \in Int
        BY <1>4
    <2>3. CASE k < l
        BY <1>5, <1>6, <2>1, <2>3
    <2>4. CASE l < k
        BY <1>5, <1>6, <2>1, <2>4
    <2> QED BY <2>2, <2>3, <2>4
<1> QED BY <1>2, <1>4, <1>5, <1>7, <1>8, <1>9

-----------------------------------------------------------------------------
(* The reference result.                                                   *)

LEMMA ExpectedIs ==
    ASSUME NEW t, t.kind \in Loops \cup Sums \cup Searches, t.total \in Nat
    PROVE  /\ Expected(t) = Sequentially(t)
           /\ Empty(t) = Sequentially(t)
<1>1. t.kind \notin {"pairwise", "compensated", "scaled"}
    BY DEF Loops, Sums, Searches, Predicates
<1>2. Empty(t) = Sequentially(t)
    BY <1>1 DEF Empty
<1>3. CASE t.total = 0
    BY <1>1, <1>2, <1>3 DEF Expected
<1>4. CASE t.total > 0
    <2>1. t.total # 0 /\ t.kind \in Loops \cup Sums \cup Searches
        BY <1>4
    <2> DEFINE D == <<"init", [range |-> <<0, t.total>>, pairs |-> CanonicalPairs(t)]>>
    <2>2. Expected(t) =
            CASE t.total = 0 -> Empty(t)
              [] t.total > 0 /\ t.kind \in Loops \cup Sums \cup Searches -> Sequentially(t)
              [] t.total > 0 /\ t.kind = "pairwise" -> D
        BY Zenon DEF Expected
    <2> HIDE DEF D
    <2> QED BY <1>1, <1>2, <1>4, <2>1, <2>2
<1> QED BY <1>2, <1>3, <1>4

LEMMA DecidedIs ==
    ASSUME NEW t, NEW v, NEW i
    PROVE  /\ t.kind = "find_if" => (Decided(t, v, i) <=> i >= v)
           /\ t.kind = "any_of" /\ v \in BOOLEAN => (Decided(t, v, i) <=> v)
           /\ t.kind \in {"all_of", "none_of"} /\ v \in BOOLEAN => (Decided(t, v, i) <=> ~v)
BY DEF Decided

\* Once the value ends a search at i it does from i on.
LEMMA DecidedFrom ==
    ASSUME NEW t, t.kind \in Searches, NEW v, Sound(t, v), t.total \in Nat,
           NEW i \in Nat, Decided(t, v, i), NEW j \in Nat, j >= i
    PROVE  Decided(t, v, j)
<1>1. CASE t.kind = "find_if"
    <2>1. v \in Nat
        BY <1>1 DEF Sound
    <2> QED BY <1>1, <2>1, DecidedIs
<1>2. CASE t.kind # "find_if"
    BY <1>2, DecidedIs DEF Sound, Searches, Predicates
<1> QED BY <1>1, <1>2

LEMMA HitIs ==
    ASSUME NEW t, TaskOK(t), t.kind \in Searches, NEW i \in Indices(t)
    PROVE  /\ t.input[i] \in BOOLEAN
           /\ t.kind = "all_of" => (Hit(t, i) <=> ~t.input[i])
           /\ t.kind # "all_of" => (Hit(t, i) <=> t.input[i])
<1>1. Elements(t.kind) = BOOLEAN
    BY DEF Elements, Searches, Predicates
<1>2. t.input[i] \in BOOLEAN
    BY <1>1 DEF TaskOK, Indices
<1> QED BY <1>2 DEF Hit

\* A sound value that accounts for all hits is the result.
LEMMA FoundIt ==
    ASSUME NEW t, TaskOK(t), t.kind \in Searches, NEW v, Sound(t, v),
           \A j \in Indices(t) : Hit(t, j) => Decided(t, v, j)
    PROVE  v = Sequentially(t)
<1>0. Indices(t) = 0..(t.total - 1) /\ t.total \in Nat \ {0}
    BY DEF Indices, TaskOK
<1>1. CASE t.kind = "find_if"
    <2> DEFINE P(n) == /\ \A i \in 0..(n - 1) : ~t.input[i]
                       /\ n < t.total => t.input[n]
    <2>1. v \in 0..t.total /\ P(v)
        <3>1. v \in 0..t.total /\ (v < t.total => Hit(t, v))
            BY <1>1 DEF Sound
        <3>2. ASSUME NEW i \in 0..(v - 1) PROVE ~t.input[i]
            <4>1. i \in Indices(t)
                BY <1>0, <3>1
            <4>2. ~Decided(t, v, i)
                BY <1>1, <3>1, DecidedIs
            <4> QED BY <1>1, <4>1, <4>2, HitIs
        <3>3. ASSUME v < t.total PROVE t.input[v]
            <4>1. v \in Indices(t) /\ Hit(t, v)
                BY <1>0, <3>1, <3>3
            <4> QED BY <1>1, <4>1, HitIs
        <3> QED BY <3>1, <3>2, <3>3
    <2>2. ASSUME NEW n \in 0..t.total, P(n) PROVE n = v
        <3>1. CASE n < v
            BY <1>0, <2>1, <2>2, <3>1
        <3>2. CASE v < n
            BY <1>0, <2>1, <2>2, <3>2
        <3> QED BY <2>1, <3>1, <3>2
    <2>3. Sequentially(t) = CHOOSE n \in 0..t.total : P(n)
        BY <1>1 DEF Sequentially, Loops, Sums
    <2> HIDE DEF P
    <2> QED BY <2>1, <2>2, <2>3
<1>2. CASE t.kind = "any_of"
    <2>1. Sequentially(t) = \E i \in Indices(t) : t.input[i]
        BY <1>2 DEF Sequentially, Loops, Sums
    <2>2. v \in BOOLEAN /\ (v <=> \E i \in Indices(t) : t.input[i])
        BY <1>2, HitIs, DecidedIs DEF Sound, Undecided
    <2> QED BY <2>1, <2>2
<1>3. CASE t.kind = "all_of"
    <2>1. Sequentially(t) = \A i \in Indices(t) : t.input[i]
        BY <1>3 DEF Sequentially, Loops, Sums
    <2>2. v \in BOOLEAN /\ (v <=> \A i \in Indices(t) : t.input[i])
        BY <1>3, HitIs, DecidedIs DEF Sound, Undecided
    <2> QED BY <2>1, <2>2
<1>4. CASE t.kind = "none_of"
    <2>1. Sequentially(t) = \A i \in Indices(t) : ~t.input[i]
        BY <1>4 DEF Sequentially, Loops, Sums
    <2>2. v \in BOOLEAN /\ (v <=> \A i \in Indices(t) : ~t.input[i])
        BY <1>4, HitIs, DecidedIs DEF Sound, Undecided
    <2> QED BY <2>1, <2>2
<1> QED BY <1>1, <1>2, <1>3, <1>4 DEF Searches, Predicates

-----------------------------------------------------------------------------
(* The steps of a call.                                                    *)

\* Only what belongs to c has changed.
Own(f, g, c) ==
    /\ g = [d \in Callers |-> g[d]]
    /\ \A d \in Callers \ {c} : g[d] = f[d]

ResultsInv ==
    /\ scenario \in Scenarios
    /\ pc = [c \in Callers |-> pc[c]] /\ task = [c \in Callers |-> task[c]]
    /\ chunk = [c \in Callers |-> chunk[c]] /\ atomic = [c \in Callers |-> atomic[c]]
    /\ visits = [c \in Callers |-> visits[c]] /\ failed = [c \in Callers |-> failed[c]]
    /\ result = [c \in Callers |-> result[c]]
    /\ \A c \in Callers :
         CallOK(pc[c], task[c], chunk[c], atomic[c], visits[c], failed[c], result[c])

LEMMA OwnStep ==
    ASSUME ResultsInv, NEW c \in Callers, scenario' = scenario,
           Own(pc, pc', c), Own(task, task', c), Own(chunk, chunk', c),
           Own(atomic, atomic', c), Own(visits, visits', c), Own(failed, failed', c),
           Own(result, result', c),
           CallOK(pc'[c], task'[c], chunk'[c], atomic'[c], visits'[c], failed'[c], result'[c])
    PROVE  ResultsInv'
<1>1. ASSUME NEW d \in Callers
      PROVE  CallOK(pc'[d], task'[d], chunk'[d], atomic'[d], visits'[d], failed'[d], result'[d])
    <2>1. CASE d = c
        BY <2>1
    <2>2. CASE d # c
        <3>1. /\ pc'[d] = pc[d] /\ task'[d] = task[d] /\ chunk'[d] = chunk[d]
              /\ atomic'[d] = atomic[d] /\ visits'[d] = visits[d]
              /\ failed'[d] = failed[d] /\ result'[d] = result[d]
            BY <2>2 DEF Own
        <3> QED BY <3>1 DEF ResultsInv
    <2> QED BY <2>1, <2>2
<1> QED BY <1>1 DEF ResultsInv, Own

LEMMA OwnSame ==
    ASSUME NEW f, NEW c, f = [d \in Callers |-> f[d]]
    PROVE  Own(f, f, c)
BY DEF Own

LEMMA OwnExcept ==
    ASSUME NEW f, NEW g, NEW c \in Callers, NEW x,
           f = [d \in Callers |-> f[d]], g = [f EXCEPT ![c] = x]
    PROVE  Own(f, g, c) /\ g[c] = x
BY DEF Own

\* One chunk of a search moves; the shared value may move on.
LEMMA SearchMoves ==
    ASSUME NEW t, NEW x, NEW v, NEW bad, SearchOK(t, x, v, bad),
           NEW k \in ChunkIds(t), NEW z, NEW w, NEW now,
           Sound(t, w), ChunkOK(t, k, z[k], w, now), ~now => ~bad,
           \A l \in ChunkIds(t) \ {k} : z[l] = x[l],
           t.kind = "find_if" => w <= v /\ v \in Nat /\ w \in Nat,
           \A j \in Indices(t) : Decided(t, v, j) => Decided(t, w, j),
           \A l \in ChunkIds(t) : Between(ChunkRange(t, l)) \subseteq Indices(t)
    PROVE  SearchOK(t, z, w, now)
<1> SUFFICES ASSUME NEW l \in ChunkIds(t), l # k
             PROVE  ChunkOK(t, l, x[l], w, now)
    BY DEF SearchOK
<1>1. ChunkOK(t, l, x[l], v, bad)
    BY DEF SearchOK
<1>2. x[l].at = "swap" => w <= x[l].seen
    BY <1>1 DEF ChunkOK, Chunk
<1>3. ASSUME x[l].at = "done", ~now, NEW j \in Between(ChunkRange(t, l)), Hit(t, j)
      PROVE  Decided(t, w, j)
    <2>1. Decided(t, v, j)
        BY <1>1, <1>3 DEF ChunkOK
    <2> QED BY <2>1
<1> QED BY <1>1, <1>2, <1>3 DEF ChunkOK

LEMMA SearchStep ==
    ASSUME ResultsInv, NEW c \in Callers, pc[c] = "chunks", task[c].kind \in Searches,
           UNCHANGED <<scenario, pc, task, result>>,
           NEW k \in ChunkIds(task[c]), NEW y, NEW w, NEW now,
           chunk' = [chunk EXCEPT ![c] = [chunk[c] EXCEPT ![k] = y]],
           atomic' = [atomic EXCEPT ![c] = w], failed' = [failed EXCEPT ![c] = now],
           Own(visits, visits', c),
           Sound(task[c], w), ChunkOK(task[c], k, y, w, now), ~now => ~failed[c],
           task[c].kind = "find_if" => w <= atomic[c] /\ atomic[c] \in Nat /\ w \in Nat,
           \A j \in Indices(task[c]) : Decided(task[c], atomic[c], j) => Decided(task[c], w, j)
    PROVE  ResultsInv'
<1> DEFINE t == task[c]
           x == chunk[c]
           z == [chunk[c] EXCEPT ![k] = y]
<1>1. /\ TaskOK(t) /\ x = [l \in ChunkIds(t) |-> x[l]] /\ SearchOK(t, x, atomic[c], failed[c])
    BY DEF ResultsInv, CallOK
<1>2. z = [l \in ChunkIds(t) |-> z[l]] /\ z[k] = y /\ \A l \in ChunkIds(t) \ {k} : z[l] = x[l]
    BY <1>1
<1>3. Own(chunk, chunk', c) /\ chunk'[c] = z
    BY OwnExcept DEF ResultsInv
<1>4. Own(atomic, atomic', c) /\ atomic'[c] = w
    BY OwnExcept DEF ResultsInv
<1>5. Own(failed, failed', c) /\ failed'[c] = now
    BY OwnExcept DEF ResultsInv
<1>6. Own(pc, pc', c) /\ Own(task, task', c) /\ Own(result, result', c)
    BY OwnSame DEF ResultsInv
<1>7. \A l \in ChunkIds(t) : Between(ChunkRange(t, l)) \subseteq Indices(t)
    BY <1>1, ChunkFacts
<1> HIDE DEF z, x, t
<1>8. SearchOK(t, z, w, now)
    BY <1>1, <1>2, <1>7, SearchMoves DEF t
<1>9. CallOK(pc[c], t, z, w, visits'[c], now, result[c])
    BY <1>1, <1>2, <1>8 DEF CallOK, t
<1> QED BY <1>3, <1>4, <1>5, <1>6, <1>9, OwnStep DEF t

\* Where a chunk of a search is.
LEMMA SearchAt ==
    ASSUME ResultsInv, NEW c \in Callers, pc[c] = "chunks", task[c].kind \in Searches,
           NEW k \in DOMAIN chunk[c]
    PROVE  /\ k \in ChunkIds(task[c]) /\ TaskOK(task[c])
           /\ Sound(task[c], atomic[c])
           /\ ChunkOK(task[c], k, chunk[c][k], atomic[c], failed[c])
           /\ chunk[c][k] \in Chunk
           /\ task[c].kind = "find_if" => atomic[c] \in Nat
           /\ Between(ChunkRange(task[c], k)) \subseteq Indices(task[c])
           /\ ChunkRange(task[c], k)[1] \in Nat /\ ChunkRange(task[c], k)[2] \in Nat
           /\ ChunkRange(task[c], k)[1] < ChunkRange(task[c], k)[2]
           /\ atomic = [atomic EXCEPT ![c] = atomic[c]]
           /\ failed = [failed EXCEPT ![c] = failed[c]]
           /\ visits = [d \in Callers |-> visits[d]]
<1> DEFINE t == task[c]
<1>1. /\ TaskOK(t) /\ chunk[c] = [l \in ChunkIds(t) |-> chunk[c][l]]
      /\ SearchOK(t, chunk[c], atomic[c], failed[c])
    BY DEF ResultsInv, CallOK
<1>2. k \in ChunkIds(t)
    BY <1>1
<1>3. Sound(t, atomic[c]) /\ ChunkOK(t, k, chunk[c][k], atomic[c], failed[c])
    BY <1>1, <1>2 DEF SearchOK
<1>4. chunk[c][k] \in Chunk
    BY <1>3 DEF ChunkOK
<1>5. t.kind = "find_if" => atomic[c] \in Nat
    BY <1>1, <1>3 DEF Sound, TaskOK
<1>6. /\ atomic = [atomic EXCEPT ![c] = atomic[c]]
      /\ failed = [failed EXCEPT ![c] = failed[c]]
      /\ visits = [d \in Callers |-> visits[d]]
    BY DEF ResultsInv
<1>7. /\ Between(ChunkRange(t, k)) \subseteq Indices(t)
      /\ ChunkRange(t, k)[1] \in Nat /\ ChunkRange(t, k)[2] \in Nat
      /\ ChunkRange(t, k)[1] < ChunkRange(t, k)[2]
    BY <1>1, <1>2, ChunkFacts
<1> QED BY <1>1, <1>2, <1>3, <1>4, <1>5, <1>6, <1>7

LEMMA StartSearchStep ==
    ASSUME ResultsInv, NEW c \in Callers, StartSearch(c)
    PROVE  ResultsInv'
<1> DEFINE t == task[c]
           v == atomic[c]
           First(k) == ChunkRange(t, k)[1]
           At(k) == IF t.kind = "find_if" /\ First(k) >= v THEN "done" ELSE "look"
           Y(k) == [NoChunk EXCEPT !.i = First(k), !.at = At(k)]
<1>1. PICK k \in DOMAIN chunk[c] :
        /\ pc[c] = "chunks" /\ t.kind \in Searches
        /\ chunk' = [chunk EXCEPT ![c][k] = Y(k)]
        /\ UNCHANGED <<scenario, pc, task, result, atomic, visits, failed>>
    BY DEF StartSearch, OnlyLocal
<1>2. /\ k \in ChunkIds(t) /\ TaskOK(t) /\ Sound(t, v)
      /\ t.kind = "find_if" => v \in Nat
      /\ First(k) \in Nat /\ ChunkRange(t, k)[2] \in Nat /\ First(k) < ChunkRange(t, k)[2]
      /\ atomic = [atomic EXCEPT ![c] = v] /\ failed = [failed EXCEPT ![c] = failed[c]]
      /\ Own(visits, visits', c)
    BY <1>1, SearchAt, OwnSame
<1> DEFINE y == Y(k)
<1>3. y \in Chunk /\ y.at = At(k) /\ y.i = First(k)
    BY <1>2 DEF NoChunk, Chunk
<1>4. First(k) \in Between(ChunkRange(t, k)) /\ \A j \in Between(ChunkRange(t, k)) : j >= First(k) /\ j \in Nat
    BY <1>2 DEF Between
<1>5. chunk' = [chunk EXCEPT ![c] = [chunk[c] EXCEPT ![k] = y]]
    BY <1>1
<1> HIDE DEF y
<1>6. ChunkOK(t, k, y, v, failed[c])
    <2>1. CASE At(k) = "done"
        <3>1. \A j \in Between(ChunkRange(t, k)) : Decided(t, v, j)
            BY <1>2, <1>4, <2>1, DecidedIs
        <3> QED BY <1>3, <2>1, <3>1 DEF ChunkOK
    <2>2. CASE At(k) = "look"
        BY <1>2, <1>3, <1>4, <2>2 DEF ChunkOK
    <2> QED BY <2>1, <2>2
<1>7. t.kind = "find_if" => v <= v
    BY <1>2
<1> QED BY <1>1, <1>2, <1>5, <1>6, <1>7, SearchStep

LEMMA LookStep ==
    ASSUME ResultsInv, NEW c \in Callers, Look(c)
    PROVE  ResultsInv'
<1> DEFINE t == task[c]
           v == atomic[c]
           X(k) == chunk[c][k]
           Final(k) == X(k).i + 1 = ChunkRange(t, k)[2]
           At(k) == CASE Hit(t, X(k).i)               -> "hit"
                      [] ~Hit(t, X(k).i) /\ Final(k)   -> "done"
                      [] ~Hit(t, X(k).i) /\ ~Final(k)  -> "look"
           I(k) == IF Hit(t, X(k).i) \/ Final(k) THEN X(k).i ELSE X(k).i + 1
<1>1. PICK k \in DOMAIN chunk[c] :
        /\ pc[c] = "chunks" /\ X(k).at = "look"
        /\ \/ /\ Decided(t, v, X(k).i)
              /\ chunk' = [chunk EXCEPT ![c][k].at = "done"]
              /\ UNCHANGED <<visits, failed>>
           \/ /\ ~Decided(t, v, X(k).i)
              /\ visits' = [visits EXCEPT ![c][X(k).i] = @ + 1]
              /\ chunk' = [chunk EXCEPT ![c][k] = [@ EXCEPT !.at = At(k), !.i = I(k)]]
              /\ UNCHANGED failed
           \/ /\ ~Decided(t, v, X(k).i) /\ scenario.throws
              /\ chunk' = [chunk EXCEPT ![c][k].at = "done"]
              /\ failed' = [failed EXCEPT ![c] = TRUE]
              /\ UNCHANGED visits
        /\ UNCHANGED <<atomic, part>>
        /\ OnlyLocal(c)
    BY Zenon DEF Look
<1>0. pc[c] = "chunks" /\ UNCHANGED <<scenario, pc, task, result, atomic>>
    BY <1>1 DEF OnlyLocal
<1>2. t.kind \in Searches
    <2>1. t.kind \notin Searches => LoopOK(t, chunk[c], visits[c], failed[c])
        BY <1>1 DEF ResultsInv, CallOK
    <2>2. chunk[c] = [l \in ChunkIds(t) |-> chunk[c][l]]
        BY <1>1 DEF ResultsInv, CallOK
    <2> QED BY <1>1, <2>1, <2>2 DEF LoopOK
<1> DEFINE x == chunk[c][k]
           r == ChunkRange(t, k)
<1>3. /\ k \in ChunkIds(t) /\ TaskOK(t) /\ Sound(t, v)
      /\ ChunkOK(t, k, x, v, failed[c]) /\ x \in Chunk
      /\ t.kind = "find_if" => v \in Nat
      /\ Between(r) \subseteq Indices(t)
      /\ r[1] \in Nat /\ r[2] \in Nat
      /\ atomic = [atomic EXCEPT ![c] = v] /\ failed = [failed EXCEPT ![c] = failed[c]]
      /\ visits = [d \in Callers |-> visits[d]]
    <2> HIDE DEF X, Final, At, I
    <2> QED BY <1>0, <1>2, SearchAt
<1>30. t.kind = "find_if" => v <= v
    BY <1>3
<1>4. /\ x.i \in Between(r) /\ x.i \in Nat
      /\ \A j \in Between(r) : j < x.i => ~Hit(t, j)
    BY <1>1, <1>3 DEF ChunkOK, Chunk
<1>5. Between(r) = r[1]..(r[2] - 1)
    BY DEF Between
<1> DEFINE done == [x EXCEPT !.at = "done"]
           moved == [x EXCEPT !.at = At(k), !.i = I(k)]
<1>6. CASE Decided(t, v, x.i) /\ chunk' = [chunk EXCEPT ![c][k].at = "done"] /\ UNCHANGED <<visits, failed>>
    <2>1. done \in Chunk /\ done.at = "done"
        BY <1>3 DEF Chunk
    <2>2. chunk' = [chunk EXCEPT ![c] = [chunk[c] EXCEPT ![k] = done]]
        BY <1>6
    <2> HIDE DEF done
    <2>3. \A j \in Between(r) : Hit(t, j) => Decided(t, v, j)
        <3> SUFFICES ASSUME NEW j \in Between(r), Hit(t, j) PROVE Decided(t, v, j)
            OBVIOUS
        <3>1. j \in Nat /\ j >= x.i
            BY <1>3, <1>4, <1>5
        <3> QED BY <1>2, <1>3, <1>30, <1>4, <1>6, <3>1, DecidedFrom DEF TaskOK
    <2>4. ChunkOK(t, k, done, v, failed[c])
        BY <2>1, <2>3 DEF ChunkOK
    <2>5. Own(visits, visits', c)
        BY <1>3, <1>6, OwnSame
    <2> QED BY <1>0, <1>1, <1>2, <1>3, <1>30, <1>6, <2>2, <2>4, <2>5, SearchStep
<1>7. CASE /\ ~Decided(t, v, x.i)
           /\ visits' = [visits EXCEPT ![c][x.i] = @ + 1]
           /\ chunk' = [chunk EXCEPT ![c][k] = [@ EXCEPT !.at = At(k), !.i = I(k)]]
           /\ UNCHANGED failed
    <2>1. Own(visits, visits', c)
        BY <1>3, <1>7 DEF Own
    <2>2. /\ Hit(t, x.i) => At(k) = "hit" /\ I(k) = x.i
          /\ ~Hit(t, x.i) /\ Final(k) => At(k) = "done" /\ I(k) = x.i
          /\ ~Hit(t, x.i) /\ ~Final(k) => At(k) = "look" /\ I(k) = x.i + 1
        OBVIOUS
    <2> HIDE DEF At, I
    <2>3. At(k) \in {"hit", "done", "look"} /\ I(k) \in Nat
        BY <1>4, <2>2
    <2>4. moved \in Chunk /\ moved.at = At(k) /\ moved.i = I(k)
        BY <1>3, <2>3 DEF Chunk
    <2>5. chunk' = [chunk EXCEPT ![c] = [chunk[c] EXCEPT ![k] = moved]]
        BY <1>7
    <2> HIDE DEF moved
    <2>6. ChunkOK(t, k, moved, v, failed[c])
        <3>1. CASE Hit(t, x.i)
            BY <1>4, <2>2, <2>4, <3>1 DEF ChunkOK
        <3>2. CASE ~Hit(t, x.i) /\ Final(k)
            <4>1. \A j \in Between(r) : ~Hit(t, j)
                <5> SUFFICES ASSUME NEW j \in Between(r) PROVE ~Hit(t, j)
                    OBVIOUS
                <5>1. j < x.i \/ j = x.i
                    BY <1>3, <1>4, <1>5, <3>2
                <5> QED BY <1>4, <3>2, <5>1
            <4> QED BY <2>2, <2>4, <3>2, <4>1 DEF ChunkOK
        <3>3. CASE ~Hit(t, x.i) /\ ~Final(k)
            <4>1. x.i + 1 \in Between(r)
                <5>1. x.i + 1 # r[2]
                    BY <3>3
                <5>2. x.i \in r[1]..(r[2] - 1) /\ r[1] \in Nat /\ r[2] \in Nat
                    BY <1>3, <1>4, <1>5
                <5>3. x.i + 1 \in r[1]..(r[2] - 1)
                    BY <5>1, <5>2
                <5> QED BY <1>5, <5>3
            <4>2. \A j \in Between(r) : j < x.i + 1 => ~Hit(t, j)
                <5> SUFFICES ASSUME NEW j \in Between(r), j < x.i + 1 PROVE ~Hit(t, j)
                    OBVIOUS
                <5>1. j < x.i \/ j = x.i
                    BY <1>3, <1>4, <1>5
                <5> QED BY <1>4, <3>3, <5>1
            <4> QED BY <2>2, <2>4, <3>3, <4>1, <4>2 DEF ChunkOK
        <3> QED BY <3>1, <3>2, <3>3
    <2> QED BY <1>0, <1>1, <1>2, <1>3, <1>30, <1>7, <2>1, <2>5, <2>6, SearchStep
<1>8. CASE chunk' = [chunk EXCEPT ![c][k].at = "done"] /\ failed' = [failed EXCEPT ![c] = TRUE]
           /\ UNCHANGED visits
    <2>1. done \in Chunk /\ done.at = "done"
        BY <1>3 DEF Chunk
    <2>2. chunk' = [chunk EXCEPT ![c] = [chunk[c] EXCEPT ![k] = done]]
        BY <1>8
    <2> HIDE DEF done
    <2>3. ChunkOK(t, k, done, v, TRUE)
        BY <2>1 DEF ChunkOK
    <2>4. Own(visits, visits', c)
        BY <1>3, <1>8, OwnSame
    <2> QED BY <1>0, <1>1, <1>2, <1>3, <1>30, <1>8, <2>2, <2>3, <2>4, SearchStep
<1> QED BY <1>1, <1>6, <1>7, <1>8

LEMMA StoreHitStep ==
    ASSUME ResultsInv, NEW c \in Callers, StoreHit(c)
    PROVE  ResultsInv'
<1> DEFINE t == task[c]
           v == atomic[c]
           w == t.kind = "any_of"
<1>1. PICK k \in DOMAIN chunk[c] :
        /\ pc[c] = "chunks" /\ chunk[c][k].at = "hit" /\ t.kind \in Predicates
        /\ atomic' = [atomic EXCEPT ![c] = w]
        /\ chunk' = [chunk EXCEPT ![c][k].at = "done"]
        /\ UNCHANGED <<scenario, pc, task, result, visits, failed>>
    BY DEF StoreHit, OnlyLocal
<1> DEFINE x == chunk[c][k]
           y == [x EXCEPT !.at = "done"]
<1>2. t.kind \in Searches /\ t.kind # "find_if"
    BY <1>1 DEF Searches, Predicates
<1>3. /\ k \in ChunkIds(t) /\ TaskOK(t)
      /\ ChunkOK(t, k, x, v, failed[c]) /\ x \in Chunk
      /\ Between(ChunkRange(t, k)) \subseteq Indices(t)
      /\ failed = [failed EXCEPT ![c] = failed[c]]
      /\ Own(visits, visits', c)
    BY <1>1, <1>2, SearchAt, OwnSame
<1>4. x.i \in Indices(t) /\ Hit(t, x.i)
    BY <1>1, <1>3 DEF ChunkOK
<1>5. w \in BOOLEAN /\ \A j : Decided(t, w, j)
    BY <1>1, DecidedIs DEF Predicates
<1>6. Sound(t, w)
    BY <1>2, <1>4, <1>5 DEF Sound
<1>7. y \in Chunk /\ y.at = "done"
    BY <1>3 DEF Chunk
<1>8. chunk' = [chunk EXCEPT ![c] = [chunk[c] EXCEPT ![k] = y]]
    BY <1>1
<1> HIDE DEF y, w
<1>9. ChunkOK(t, k, y, w, failed[c])
    BY <1>5, <1>7 DEF ChunkOK
<1> QED BY <1>1, <1>2, <1>3, <1>5, <1>6, <1>8, <1>9, SearchStep

LEMMA LoadBestStep ==
    ASSUME ResultsInv, NEW c \in Callers, LoadBest(c)
    PROVE  ResultsInv'
<1> DEFINE t == task[c]
           v == atomic[c]
<1>1. PICK k \in DOMAIN chunk[c] :
        /\ pc[c] = "chunks" /\ chunk[c][k].at = "hit" /\ t.kind = "find_if"
        /\ chunk' = [chunk EXCEPT ![c][k] = [@ EXCEPT !.at = "swap", !.seen = v]]
        /\ UNCHANGED <<scenario, pc, task, result, atomic, visits, failed>>
    BY DEF LoadBest, OnlyLocal
<1> DEFINE x == chunk[c][k]
           y == [x EXCEPT !.at = "swap", !.seen = v]
<1>2. t.kind \in Searches
    BY <1>1 DEF Searches
<1>3. /\ k \in ChunkIds(t) /\ TaskOK(t) /\ Sound(t, v) /\ v \in Nat
      /\ ChunkOK(t, k, x, v, failed[c]) /\ x \in Chunk
      /\ atomic = [atomic EXCEPT ![c] = v]
      /\ failed = [failed EXCEPT ![c] = failed[c]]
      /\ Own(visits, visits', c)
    BY <1>1, <1>2, SearchAt, OwnSame
<1>4. y \in Chunk /\ y.at = "swap" /\ y.seen = v /\ y.i = x.i
    BY <1>3 DEF Chunk
<1>5. chunk' = [chunk EXCEPT ![c] = [chunk[c] EXCEPT ![k] = y]]
    BY <1>1
<1> HIDE DEF y
<1>6. ChunkOK(t, k, y, v, failed[c])
    BY <1>1, <1>3, <1>4 DEF ChunkOK
<1>7. v <= v
    BY <1>3
<1> QED BY <1>1, <1>2, <1>3, <1>5, <1>6, <1>7, SearchStep

LEMMA SwapBestStep ==
    ASSUME ResultsInv, NEW c \in Callers, SwapBest(c)
    PROVE  ResultsInv'
<1> DEFINE t == task[c]
           v == atomic[c]
           X(k) == chunk[c][k]
<1>1. PICK k \in DOMAIN chunk[c] :
        /\ pc[c] = "chunks" /\ X(k).at = "swap"
        /\ \/ /\ X(k).i < X(k).seen /\ v = X(k).seen
              /\ atomic' = [atomic EXCEPT ![c] = X(k).i]
              /\ chunk' = [chunk EXCEPT ![c][k].at = "done"]
           \/ /\ X(k).i < X(k).seen /\ v # X(k).seen
              /\ chunk' = [chunk EXCEPT ![c][k].seen = v]
              /\ UNCHANGED atomic
           \/ /\ X(k).i >= X(k).seen
              /\ chunk' = [chunk EXCEPT ![c][k].at = "done"]
              /\ UNCHANGED atomic
        /\ UNCHANGED <<part, visits, failed>>
        /\ OnlyLocal(c)
    BY Zenon DEF SwapBest
<1>0. pc[c] = "chunks" /\ UNCHANGED <<scenario, pc, task, result, visits, failed>>
    BY <1>1 DEF OnlyLocal
<1>2. t.kind \in Searches
    <2>1. t.kind \notin Searches => LoopOK(t, chunk[c], visits[c], failed[c])
        BY <1>0 DEF ResultsInv, CallOK
    <2>2. chunk[c] = [l \in ChunkIds(t) |-> chunk[c][l]]
        BY <1>0 DEF ResultsInv, CallOK
    <2> QED BY <1>1, <2>1, <2>2 DEF LoopOK
<1> DEFINE x == chunk[c][k]
           r == ChunkRange(t, k)
<1>3. /\ k \in ChunkIds(t) /\ TaskOK(t) /\ Sound(t, v)
      /\ ChunkOK(t, k, x, v, failed[c]) /\ x \in Chunk
      /\ t.kind = "find_if" => v \in Nat
      /\ Between(r) \subseteq Indices(t)
      /\ r[1] \in Nat /\ r[2] \in Nat
      /\ atomic = [atomic EXCEPT ![c] = v]
      /\ failed = [failed EXCEPT ![c] = failed[c]]
      /\ Own(visits, visits', c)
    <2> HIDE DEF X
    <2> QED BY <1>0, <1>2, SearchAt, OwnSame
<1>4. /\ t.kind = "find_if" /\ v \in Nat /\ v <= v
      /\ x.i \in Between(r) /\ Hit(t, x.i) /\ v <= x.seen
      /\ x.i \in Nat /\ x.seen \in Nat
      /\ \A j \in Between(r) : j < x.i => ~Hit(t, j)
    BY <1>1, <1>3 DEF ChunkOK, Chunk
<1>5. Between(r) \subseteq Nat /\ \A j \in Between(r) : Hit(t, j) => j >= x.i
    BY <1>3, <1>4 DEF Between
<1> DEFINE done == [x EXCEPT !.at = "done"]
           again == [x EXCEPT !.seen = v]
<1>6. done \in Chunk /\ done.at = "done" /\ again \in Chunk /\ again.at = "swap"
      /\ again.seen = v /\ again.i = x.i
    BY <1>1, <1>3, <1>4 DEF Chunk
<1>7. CASE /\ x.i < x.seen /\ v = x.seen
           /\ atomic' = [atomic EXCEPT ![c] = x.i]
           /\ chunk' = [chunk EXCEPT ![c][k].at = "done"]
    <2>1. chunk' = [chunk EXCEPT ![c] = [chunk[c] EXCEPT ![k] = done]]
        BY <1>7
    <2> DEFINE w == x.i
    <2>2. w \in 0..t.total /\ w <= v /\ w \in Nat /\ Hit(t, w)
        <3>1. w \in Nat /\ Hit(t, w) /\ w < v
            BY <1>4, <1>7
        <3>2. v \in 0..t.total /\ t.total \in Nat
            BY <1>3, <1>4 DEF Sound, TaskOK
        <3> QED BY <3>1, <3>2
    <2>3. Sound(t, w)
        BY <1>4, <2>2 DEF Sound
    <2>4. \A j \in Between(r) : Hit(t, j) => Decided(t, w, j)
        BY <1>4, <1>5, DecidedIs
    <2>5. \A j \in Indices(t) : Decided(t, v, j) => Decided(t, w, j)
        <3> SUFFICES ASSUME NEW j \in Indices(t), Decided(t, v, j) PROVE Decided(t, w, j)
            OBVIOUS
        <3>1. j \in Int /\ j >= v
            BY <1>4, DecidedIs DEF Indices
        <3>2. j >= w
            BY <1>4, <2>2, <3>1
        <3> QED BY <1>4, <3>2, DecidedIs
    <2> HIDE DEF done
    <2>6. ChunkOK(t, k, done, w, failed[c])
        BY <1>6, <2>4 DEF ChunkOK
    <2>7. atomic' = [atomic EXCEPT ![c] = w]
        BY <1>7
    <2> HIDE DEF w
    <2> QED BY <1>0, <1>2, <1>3, <1>4, <2>1, <2>2, <2>3, <2>5, <2>6, <2>7, SearchStep
<1>8. CASE /\ chunk' = [chunk EXCEPT ![c][k].seen = v]
           /\ UNCHANGED atomic
    <2>1. chunk' = [chunk EXCEPT ![c] = [chunk[c] EXCEPT ![k] = again]]
        BY <1>8
    <2> HIDE DEF again
    <2>2. ChunkOK(t, k, again, v, failed[c])
        BY <1>1, <1>3, <1>4, <1>6 DEF ChunkOK
    <2> QED BY <1>0, <1>2, <1>3, <1>4, <1>8, <2>1, <2>2, SearchStep
<1>9. CASE /\ x.i >= x.seen
           /\ chunk' = [chunk EXCEPT ![c][k].at = "done"]
           /\ UNCHANGED atomic
    <2>1. chunk' = [chunk EXCEPT ![c] = [chunk[c] EXCEPT ![k] = done]]
        BY <1>9
    <2> HIDE DEF done
    <2>2. \A j \in Between(r) : Hit(t, j) => Decided(t, v, j)
        <3> SUFFICES ASSUME NEW j \in Between(r), Hit(t, j) PROVE Decided(t, v, j)
            OBVIOUS
        <3>1. j \in Nat /\ j >= v
            BY <1>4, <1>5, <1>9
        <3> QED BY <1>4, <3>1, DecidedIs
    <2>3. ChunkOK(t, k, done, v, failed[c])
        BY <1>6, <2>2 DEF ChunkOK
    <2> QED BY <1>0, <1>2, <1>3, <1>4, <1>9, <2>1, <2>3, SearchStep
<1> QED BY <1>1, <1>7, <1>8, <1>9

\* A chunk of a loop or a reduction.
LEMMA RunChunkStep ==
    ASSUME ResultsInv, NEW c \in Callers, RunChunk(c)
    PROVE  ResultsInv'
<1> DEFINE t == task[c]
           n == visits[c]
           More(k) == [i \in Indices(t) |->
                         IF i \in Between(ChunkRange(t, k)) THEN n[i] + 1 ELSE n[i]]
<1>1. PICK k \in DOMAIN chunk[c] :
        /\ pc[c] = "chunks" /\ chunk[c][k].at = "todo" /\ t.kind \notin Searches
        /\ chunk' = [chunk EXCEPT ![c][k].at = "done"]
        /\ \/ visits' = [visits EXCEPT ![c] = More(k)] /\ UNCHANGED failed
           \/ failed' = [failed EXCEPT ![c] = TRUE] /\ UNCHANGED visits
        /\ UNCHANGED <<scenario, pc, task, result, atomic>>
    BY DEF RunChunk, OnlyLocal
<1> DEFINE x == chunk[c]
           z == [x EXCEPT ![k].at = "done"]
<1>2. TaskOK(t) /\ x = [l \in ChunkIds(t) |-> x[l]] /\ LoopOK(t, x, n, failed[c])
    BY <1>1 DEF ResultsInv, CallOK
<1>3. k \in ChunkIds(t) /\ "at" \in DOMAIN x[k]
    BY <1>2 DEF LoopOK
<1>4. /\ z = [l \in ChunkIds(t) |-> z[l]] /\ z[k].at = "done" /\ "at" \in DOMAIN z[k]
      /\ \A l \in ChunkIds(t) \ {k} : z[l] = x[l]
    BY <1>2, <1>3
<1>5. chunk' = [chunk EXCEPT ![c] = z]
    BY <1>1
<1> HIDE DEF z
<1>6. Own(chunk, chunk', c) /\ chunk'[c] = z
    BY <1>5, OwnExcept DEF ResultsInv
<1>7. /\ Own(pc, pc', c) /\ Own(task, task', c) /\ Own(result, result', c)
      /\ Own(atomic, atomic', c)
    BY <1>1, OwnSame DEF ResultsInv
<1>8. ASSUME NEW m, NEW bad, Own(visits, visits', c), visits'[c] = m,
             Own(failed, failed', c), failed'[c] = bad, LoopOK(t, z, m, bad)
      PROVE  ResultsInv'
    <2>1. CallOK(pc[c], t, z, atomic[c], m, bad, result[c])
        BY <1>1, <1>2, <1>4, <1>8 DEF CallOK
    <2> QED BY <1>1, <1>6, <1>7, <1>8, <2>1, OwnStep
<1>9. CASE visits' = [visits EXCEPT ![c] = More(k)] /\ UNCHANGED failed
    <2> DEFINE m == More(k)
    <2>1. m = [i \in Indices(t) |-> m[i]]
        OBVIOUS
    <2>2. ASSUME ~failed[c], NEW l \in ChunkIds(t), NEW i \in Between(ChunkRange(t, l))
          PROVE  m[i] = IF z[l].at = "done" THEN 1 ELSE 0
        <3>1. i \in Indices(t)
            BY <1>2, ChunkFacts
        <3>2. n[i] = IF x[l].at = "done" THEN 1 ELSE 0
            BY <1>2, <2>2 DEF LoopOK
        <3>3. CASE l = k
            BY <1>1, <1>4, <2>2, <3>1, <3>2, <3>3
        <3>4. CASE l # k
            <4>1. i \notin Between(ChunkRange(t, k))
                BY <1>2, <1>3, <3>4, ChunkFacts
            <4> QED BY <1>4, <3>1, <3>2, <3>4, <4>1
        <3> QED BY <3>3, <3>4
    <2>3. \A l \in ChunkIds(t) : z[l].at \in {"todo", "done"} /\ "at" \in DOMAIN z[l]
        BY <1>2, <1>4 DEF LoopOK
    <2>4. Own(visits, visits', c) /\ visits'[c] = m
        BY <1>9, OwnExcept DEF ResultsInv
    <2>5. Own(failed, failed', c)
        BY <1>9, OwnSame DEF ResultsInv
    <2> HIDE DEF m
    <2>6. LoopOK(t, z, m, failed[c])
        BY <2>1, <2>2, <2>3 DEF LoopOK
    <2> QED BY <1>8, <1>9, <2>4, <2>5, <2>6
<1>10. CASE failed' = [failed EXCEPT ![c] = TRUE] /\ UNCHANGED visits
    <2>1. Own(failed, failed', c) /\ failed'[c] = TRUE
        BY <1>10, OwnExcept DEF ResultsInv
    <2>2. Own(visits, visits', c)
        BY <1>10, OwnSame DEF ResultsInv
    <2>3. LoopOK(t, z, n, TRUE)
        BY <1>2, <1>4 DEF LoopOK
    <2> QED BY <1>8, <1>10, <2>1, <2>2, <2>3
<1> QED BY <1>1, <1>9, <1>10

LEMMA StartChunksStep ==
    ASSUME ResultsInv, NEW c \in Callers, StartChunks(c)
    PROVE  ResultsInv'
<1> DEFINE t == task[c]
           x == [k \in ChunkIds(t) |-> NoChunk]
           v == Undecided(t)
           n == [i \in Indices(t) |-> 0]
<1>1. /\ pc[c] = "scheduled" /\ UNCHANGED <<scenario, task, failed, result>>
      /\ pc' = [pc EXCEPT ![c] = "chunks"]
      /\ chunk' = [chunk EXCEPT ![c] = x]
      /\ atomic' = [atomic EXCEPT ![c] = v]
      /\ visits' = [visits EXCEPT ![c] = n]
    BY DEF StartChunks
<1>2. TaskOK(t)
    BY <1>1 DEF ResultsInv, CallOK
<1>3. /\ Own(pc, pc', c) /\ pc'[c] = "chunks"
      /\ Own(chunk, chunk', c) /\ chunk'[c] = x
      /\ Own(atomic, atomic', c) /\ atomic'[c] = v
      /\ Own(visits, visits', c) /\ visits'[c] = n
    BY <1>1, OwnExcept DEF ResultsInv
<1>4. Own(task, task', c) /\ Own(failed, failed', c) /\ Own(result, result', c)
    BY <1>1, OwnSame DEF ResultsInv
<1>5. /\ NoChunk \in Chunk /\ NoChunk.at = "todo" /\ "at" \in DOMAIN NoChunk
    BY DEF NoChunk, Chunk
<1>6. \A k \in ChunkIds(t) : x[k] = NoChunk
    OBVIOUS
<1>7. ASSUME t.kind \in Searches
      PROVE  SearchOK(t, x, v, failed[c])
    <2>1. ASSUME t.kind = "find_if" PROVE Sound(t, v)
        <3>1. v = t.total
            BY <2>1 DEF Undecided
        <3> QED BY <1>2, <2>1, <3>1 DEF Sound, TaskOK
    <2>2. ASSUME t.kind # "find_if" PROVE Sound(t, v)
        <3>1. v \in BOOLEAN
            BY <1>7, <2>2 DEF Undecided, Searches, Predicates
        <3> QED BY <2>2, <3>1 DEF Sound
    <2>3. Sound(t, v)
        BY <2>1, <2>2
    <2> QED BY <1>5, <1>6, <2>3 DEF SearchOK, ChunkOK
<1>8. LoopOK(t, x, n, failed[c])
    <2>1. \A k \in ChunkIds(t) : Between(ChunkRange(t, k)) \subseteq Indices(t)
        BY <1>2, ChunkFacts
    <2>2. \A i \in Indices(t) : n[i] = 0
        OBVIOUS
    <2>3. n = [i \in Indices(t) |-> n[i]]
        OBVIOUS
    <2> HIDE DEF n, x
    <2> QED BY <1>5, <1>6, <2>1, <2>2, <2>3 DEF LoopOK
<1>9. x = [k \in ChunkIds(t) |-> x[k]]
    OBVIOUS
<1> HIDE DEF x, n, v
<1>10. CallOK("chunks", t, x, v, n, failed[c], result[c])
    BY <1>2, <1>7, <1>8, <1>9 DEF CallOK
<1> QED BY <1>1, <1>3, <1>4, <1>10, OwnStep

LEMMA BeginStep ==
    ASSUME ResultsInv, NEW c \in Callers, Begin(c)
    PROVE  ResultsInv'
<1>1. PICK t, p, r : Begins(c, t, p, r)
    BY BeginIs
<1>2. UNCHANGED <<scenario, chunk, atomic, visits, failed>>
    BY DEF Begin
<1>3. /\ Own(task, task', c) /\ task'[c] = t
      /\ Own(result, result', c) /\ result'[c] = r
      /\ Own(pc, pc', c) /\ pc'[c] = p
    BY <1>1, OwnExcept DEF ResultsInv, Begins
<1>4. /\ Own(chunk, chunk', c) /\ Own(atomic, atomic', c) /\ Own(visits, visits', c)
      /\ Own(failed, failed', c)
    BY <1>2, OwnSame DEF ResultsInv
<1>5. t.kind \in Kinds /\ t.total \in Nat /\ t.workers \in Nat
    BY <1>1 DEF ResultsInv, Begins
<1>6. CallOK(p, t, chunk[c], atomic[c], visits[c], failed[c], r)
    <2>1. CASE t.total = 0
        <3>1. p = "return" /\ r = Empty(t)
            BY <1>1, <2>1 DEF Begins
        <3> QED BY <1>5, <3>1, ExpectedIs DEF CallOK
    <2>2. CASE t.total # 0
        <3>1. p \in {"select", "scheduled"}
            BY <1>1, <1>5, <2>2 DEF Begins
        <3>2. TaskOK(t) /\ (p = "select" => t.kind \in algorithm_hot_dispatch_family)
            BY <1>1, <1>5, <2>2 DEF TaskOK, Begins
        <3> QED BY <3>1, <3>2 DEF CallOK
    <2> QED BY <2>1, <2>2
<1> QED BY <1>2, <1>3, <1>4, <1>6, OwnStep

\* c goes on, perhaps with a result.
LEMMA GoOn ==
    ASSUME ResultsInv, NEW c \in Callers,
           UNCHANGED <<scenario, task, chunk, atomic, visits, failed>>,
           NEW p, NEW r, pc' = [pc EXCEPT ![c] = p],
           result' = [result EXCEPT ![c] = r] \/ (result' = result /\ r = result[c]),
           CallOK(p, task[c], chunk[c], atomic[c], visits[c], failed[c], r)
    PROVE  ResultsInv'
<1>1. Own(pc, pc', c) /\ pc'[c] = p
    BY OwnExcept DEF ResultsInv
<1>2. Own(result, result', c) /\ result'[c] = r
    <2>1. CASE result' = [result EXCEPT ![c] = r]
        BY <2>1, OwnExcept DEF ResultsInv
    <2>2. CASE result' = result /\ r = result[c]
        BY <2>2, OwnSame DEF ResultsInv
    <2> QED BY <2>1, <2>2
<1>3. /\ Own(task, task', c) /\ Own(chunk, chunk', c) /\ Own(atomic, atomic', c)
      /\ Own(visits, visits', c) /\ Own(failed, failed', c)
    BY OwnSame DEF ResultsInv
<1> QED BY <1>1, <1>2, <1>3, OwnStep

LEMMA RunsWholeStep ==
    ASSUME ResultsInv, NEW c \in Callers, RunsWhole(c),
           pc[c] \in {"sequential", "scheduled"}
    PROVE  ResultsInv'
<1> DEFINE t == task[c]
<1>1. TaskOK(t) /\ UNCHANGED <<scenario, task, chunk, atomic, visits, failed>>
    BY DEF ResultsInv, CallOK, RunsWhole
<1>2. CASE /\ result' = [result EXCEPT ![c] = Sequentially(t)]
           /\ pc' = [pc EXCEPT ![c] = AfterWork(c)]
    <2>1. AfterWork(c) \in {"complete", "return"}
        BY DEF AfterWork
    <2>2. t.kind \in Loops \cup Searches => Sequentially(t) = Expected(t)
        BY <1>1, ExpectedIs DEF TaskOK
    <2>3. CallOK(AfterWork(c), t, chunk[c], atomic[c], visits[c], failed[c], Sequentially(t))
        BY <2>1, <2>2 DEF CallOK
    <2> QED BY <1>1, <1>2, <2>3, GoOn
<1>3. CASE pc' = [pc EXCEPT ![c] = "cancel"] /\ UNCHANGED result
    <2>1. CallOK("cancel", t, chunk[c], atomic[c], visits[c], failed[c], result[c])
        BY DEF CallOK
    <2> QED BY <1>1, <1>3, <2>1, GoOn
<1> QED BY <1>2, <1>3 DEF RunsWhole

LEMMA JoinStep ==
    ASSUME ResultsInv, NEW c \in Callers, Join(c)
    PROVE  ResultsInv'
<1> DEFINE t == task[c]
           r == IF t.kind \in Loops THEN visits[c] ELSE atomic[c]
<1>1. /\ pc[c] = "chunks" /\ ~failed[c]
      /\ \A k \in DOMAIN chunk[c] : chunk[c][k].at = "done"
      /\ result' = [result EXCEPT ![c] = r]
      /\ pc' = [pc EXCEPT ![c] = AfterWork(c)]
      /\ UNCHANGED <<scenario, task, chunk, atomic, visits, failed>>
    BY DEF Join
<1>2. /\ TaskOK(t) /\ DOMAIN chunk[c] = ChunkIds(t)
      /\ t.kind \in Searches => SearchOK(t, chunk[c], atomic[c], failed[c])
      /\ t.kind \notin Searches => LoopOK(t, chunk[c], visits[c], failed[c])
    BY <1>1 DEF ResultsInv, CallOK
<1>3. AfterWork(c) \in {"complete", "return"}
    BY DEF AfterWork
<1>4. ASSUME t.kind \in Loops
      PROVE  r = Expected(t)
    <2>1. t.kind \notin Searches
        BY <1>4 DEF Loops, Searches, Predicates
    <2>2. r = visits[c]
        BY <1>4, <2>1
    <2>3. \A i \in Indices(t) : visits[c][i] = 1
        BY <1>1, <1>2, <2>1, ChunkFacts DEF LoopOK
    <2>4. visits[c] = [i \in Indices(t) |-> visits[c][i]]
        BY <1>2, <2>1 DEF LoopOK
    <2>5. Sequentially(t) = [i \in Indices(t) |-> 1]
        BY <1>4 DEF Sequentially, Loops, Sums
    <2>6. visits[c] = Sequentially(t)
        BY <2>3, <2>4, <2>5
    <2> QED BY <1>2, <1>4, <2>2, <2>6, ExpectedIs DEF TaskOK
<1>5. ASSUME t.kind \in Searches
      PROVE  r = Expected(t)
    <2>1. t.kind \notin Loops
        BY <1>5 DEF Loops, Searches, Predicates
    <2>2. r = atomic[c]
        BY <1>5, <2>1
    <2>3. Sound(t, atomic[c]) /\ \A k \in ChunkIds(t) : ChunkOK(t, k, chunk[c][k], atomic[c], failed[c])
        BY <1>2, <1>5 DEF SearchOK
    <2>4. ASSUME NEW j \in Indices(t), Hit(t, j)
          PROVE  Decided(t, atomic[c], j)
        <3>1. PICK k \in ChunkIds(t) : j \in Between(ChunkRange(t, k))
            BY <1>2, ChunkFacts
        <3> QED BY <1>1, <1>2, <2>3, <2>4, <3>1 DEF ChunkOK
    <2>5. atomic[c] = Sequentially(t)
        BY <1>2, <1>5, <2>3, <2>4, FoundIt
    <2> QED BY <1>2, <1>5, <2>2, <2>5, ExpectedIs DEF TaskOK
<1> HIDE DEF r
<1>6. CallOK(AfterWork(c), t, chunk[c], atomic[c], visits[c], failed[c], r)
    BY <1>3, <1>4, <1>5 DEF CallOK
<1> QED BY <1>1, <1>6, GoOn

LEMMA ForgottenStep ==
    ASSUME ResultsInv, NEW c \in Callers, Forgotten(c)
    PROVE  ResultsInv'
<1>1. /\ Own(pc, pc', c) /\ pc'[c] = "idle"
      /\ Own(task, task', c) /\ Own(chunk, chunk', c) /\ Own(atomic, atomic', c)
      /\ Own(visits, visits', c) /\ Own(failed, failed', c) /\ Own(result, result', c)
    BY OwnExcept DEF ResultsInv, Forgotten
<1>2. CallOK(pc'[c], task'[c], chunk'[c], atomic'[c], visits'[c], failed'[c], result'[c])
    BY <1>1 DEF CallOK
<1> QED BY <1>1, <1>2, OwnStep DEF Forgotten

\* The steps that combine partial results.
LEMMA CombineStep ==
    ASSUME ResultsInv, NEW c \in Callers,
           JoinParts(c) \/ Accumulate(c) \/ MergePass(c) \/ Finish(c)
    PROVE  ResultsInv'
<1>1. UNCHANGED <<scenario, task, chunk, atomic, visits, failed>>
    BY DEF JoinParts, Accumulate, MergePass, Finish, OnlyCombining
<1>2. Own(result, result', c)
    <2>1. UNCHANGED result \/ \E r : result' = [result EXCEPT ![c] = r]
        BY DEF JoinParts, Accumulate, MergePass, Finish, CombineThrows
    <2> QED BY <2>1, OwnSame, OwnExcept DEF ResultsInv
<1>3. /\ TaskOK(task[c]) /\ task[c].kind \notin Loops \cup Searches
      /\ pc[c] \in {"chunks", "combine"}
    BY DEF ResultsInv, CallOK, JoinParts, Accumulate, MergePass, Finish
<1>4. \/ UNCHANGED pc /\ pc[c] = "combine"
      \/ \E p \in {AfterWork(c), "combine", "cancel"} : pc' = [pc EXCEPT ![c] = p]
    BY DEF JoinParts, Accumulate, MergePass, Finish, CombineThrows
<1>5. Own(pc, pc', c) /\ pc'[c] \in {AfterWork(c), "combine", "cancel"}
    <2>1. CASE UNCHANGED pc /\ pc[c] = "combine"
        BY <2>1, OwnSame DEF ResultsInv
    <2>2. CASE \E p \in {AfterWork(c), "combine", "cancel"} : pc' = [pc EXCEPT ![c] = p]
        BY <2>2, OwnExcept DEF ResultsInv
    <2> QED BY <1>4, <2>1, <2>2
<1>6. AfterWork(c) \in {"complete", "return"}
    BY DEF AfterWork
<1>7. CallOK(pc'[c], task'[c], chunk'[c], atomic'[c], visits'[c], failed'[c], result'[c])
    BY <1>1, <1>3, <1>5, <1>6 DEF CallOK
<1>8. /\ Own(task, task', c) /\ Own(chunk, chunk', c) /\ Own(atomic, atomic', c)
      /\ Own(visits, visits', c) /\ Own(failed, failed', c)
    BY <1>1, OwnSame DEF ResultsInv
<1> QED BY <1>1, <1>2, <1>5, <1>7, <1>8, OwnStep

\* select, complete and a join after an exception move c only.
LEMMA MovesOn ==
    ASSUME ResultsInv, NEW c \in Callers, Select(c) \/ Complete(c) \/ JoinFailed(c)
    PROVE  ResultsInv'
<1>1. UNCHANGED <<scenario, task, chunk, atomic, visits, failed, result>>
    BY DEF Select, Complete, JoinFailed
<1>2. PICK p : /\ pc' = [pc EXCEPT ![c] = p]
               /\ \/ pc[c] = "select" /\ p \in {"sequential", "scheduled"}
                  \/ pc[c] = "complete" /\ p = "return"
                  \/ p = "cancel"
    <2>1. CASE Select(c)
        <3>1. \E p \in {"sequential", "scheduled"} : pc' = [pc EXCEPT ![c] = p]
            BY <2>1 DEF Select
        <3> QED BY <2>1, <3>1 DEF Select
    <2>2. CASE Complete(c)
        BY <2>2 DEF Complete
    <2>3. CASE JoinFailed(c)
        BY <2>3 DEF JoinFailed
    <2> QED BY <2>1, <2>2, <2>3
<1>3. CallOK(p, task[c], chunk[c], atomic[c], visits[c], failed[c], result[c])
    BY <1>2 DEF ResultsInv, CallOK
<1> QED BY <1>1, <1>2, <1>3, GoOn

LEMMA ResultsStep ==
    ASSUME ResultsInv, [Next]_vars
    PROVE  ResultsInv'
<1>1. CASE UNCHANGED vars \/ ClearDispatch \/ ClearProfiles \/ Terminated
    BY <1>1 DEF ClearDispatch, ClearProfiles, Terminated, ResultsInv
<1>2. ASSUME NEW c \in Callers, RunSequential(c) \/ RunDirect(c)
      PROVE  ResultsInv'
    BY <1>2, RunsWholeStep DEF RunSequential, RunDirect
<1>3. ASSUME NEW c \in Callers, Return(c) \/ Cancel(c)
      PROVE  ResultsInv'
    BY <1>3, ForgottenStep DEF Return, Cancel
<1> QED BY <1>1, <1>2, <1>3, BeginStep, MovesOn, StartChunksStep, RunChunkStep,
           StartSearchStep, LookStep, StoreHitStep, LoadBestStep, SwapBestStep, JoinStep,
           CombineStep
        DEF Next

LEMMA ResultsInit == Init => ResultsInv
<1> SUFFICES ASSUME Init PROVE ResultsInv
    OBVIOUS
<1>1. \A c \in Callers : pc[c] = "idle"
    BY DEF Init
<1>2. \A c \in Callers :
        CallOK(pc[c], task[c], chunk[c], atomic[c], visits[c], failed[c], result[c])
    BY <1>1 DEF CallOK
<1> QED BY <1>2 DEF Init, ResultsInv

\* algorithm_chunk_range, the loops over it and the searches' atomic: however
\* the chunks of any number of calls are interleaved, a loop that returns has
\* visited every element once, a predicate has its value and find_if the first
\* match, for any number of elements, workers and concurrent jobs.
THEOREM SearchesProved == Spec => []SearchesExact
<1>1. ResultsInv /\ [Next]_vars => ResultsInv'
    BY ResultsStep
<1>2. ResultsInv => SearchesExact
    BY DEF ResultsInv, CallOK, SearchesExact
<1> QED BY <1>1, <1>2, ResultsInit, PTL DEF Spec

-----------------------------------------------------------------------------
(* Combining the partial results of a reduction.                           *)

\* The chunks of a cut follow one another, from its first to its last index.
LEMMA CutOrdered ==
    ASSUME NEW total \in Nat \ {0}, NEW top \in Nat, NEW b, NEW e,
           Cut(total, 0..top, b, e)
    PROVE  /\ b[0] = 0 /\ e[top] = total
           /\ \A k \in 0..top : k < top => e[k] = b[k + 1]
<1>1. \A k \in 0..top : b[k] \in Nat /\ e[k] \in Nat /\ b[k] < e[k] /\ e[k] <= total
    BY DEF Cut
<1>2. \A i \in 0..(total - 1) : \E k \in 0..top : b[k] <= i /\ i < e[k]
    BY DEF Cut
<1>3. \A k, l \in 0..top : k < l => e[k] <= b[l]
    BY DEF Cut
<1>4. b[0] = 0
    <2>1. PICK k \in 0..top : b[k] <= 0
        BY <1>2
    <2>2. CASE k = 0
        BY <1>1, <2>1, <2>2
    <2>3. CASE k > 0
        <3>1. e[0] <= b[k] /\ b[0] \in Nat /\ e[0] \in Nat /\ b[0] < e[0] /\ b[k] \in Nat
            BY <1>1, <1>3, <2>3
        <3> QED BY <2>1, <3>1
    <2> QED BY <2>2, <2>3
<1>5. ASSUME NEW k \in 0..top, e[k] < total
      PROVE  \E l \in 0..top : k < l /\ b[l] <= e[k] /\ e[k] < e[l]
    <2>1. e[k] \in 0..(total - 1)
        BY <1>1, <1>5
    <2>2. PICK l \in 0..top : b[l] <= e[k] /\ e[k] < e[l]
        BY <1>2, <2>1
    <2>3. CASE l < k
        <3>1. e[l] <= b[k] /\ b[k] < e[k] /\ b[k] \in Nat /\ e[k] \in Nat /\ e[l] \in Nat
            BY <1>1, <1>3, <2>3
        <3> QED BY <2>2, <3>1
    <2>4. CASE l = k
        BY <1>1, <2>2, <2>4
    <2> QED BY <2>2, <2>3, <2>4
<1>6. e[top] = total
    <2>1. top \in 0..top
        OBVIOUS
    <2>2. CASE e[top] < total
        BY <1>5, <2>1, <2>2
    <2> QED BY <1>1, <2>1, <2>2
<1>7. ASSUME NEW k \in 0..top, k < top
      PROVE  e[k] = b[k + 1]
    <2>1. k + 1 \in 0..top /\ k < k + 1
        BY <1>7
    <2>2. e[k] <= b[k + 1] /\ b[k + 1] < e[k + 1] /\ e[k + 1] <= total
        BY <1>1, <1>3, <2>1
    <2>3. e[k] \in Nat /\ b[k + 1] \in Nat /\ e[k + 1] \in Nat
        BY <1>1, <2>1
    <2>4. PICK l \in 0..top : k < l /\ b[l] <= e[k]
        BY <1>5, <2>2, <2>3
    <2>5. CASE l = k + 1
        BY <2>2, <2>3, <2>4, <2>5
    <2>6. CASE k + 1 < l
        <3>1. e[k + 1] <= b[l] /\ b[l] \in Nat
            BY <1>1, <1>3, <2>1, <2>6
        <3> QED BY <2>2, <2>3, <2>4, <3>1
    <2> QED BY <2>4, <2>5, <2>6
<1> QED BY <1>4, <1>6, <1>7

LEMMA ChunksFollow ==
    ASSUME NEW t, TaskOK(t)
    PROVE  /\ ChunkCount(t) \in Nat \ {0} /\ ChunkIds(t) = 0..(ChunkCount(t) - 1)
           /\ ChunkRange(t, 0)[1] = 0 /\ ChunkRange(t, ChunkCount(t) - 1)[2] = t.total
           /\ \A k \in Nat : k + 1 < ChunkCount(t) => ChunkRange(t, k)[2] = ChunkRange(t, k + 1)[1]
<1> DEFINE n == ChunkCount(t)
           b == [k \in ChunkIds(t) |-> ChunkRange(t, k)[1]]
           e == [k \in ChunkIds(t) |-> ChunkRange(t, k)[2]]
<1>1. Cut(t.total, ChunkIds(t), b, e)
    BY ChunksCut DEF TaskOK
<1>2. t.total \in Nat \ {0} /\ t.workers \in Nat
    BY DEF TaskOK
<1>3. n \in Nat \ {0}
    <2>1. CASE t.kind \in Canonical
        <3>1. n = 1 + (t.total - 1) \div LeafSize
            BY <1>2, <2>1 DEF ChunkCount, canonical_leaf_count
        <3> DEFINE m == t.total - 1
        <3>2. m \in Nat
            BY <1>2
        <3> HIDE DEF m
        <3>3. m \div LeafSize \in Nat
            BY <3>2, DivisionIs
        <3> QED BY <3>1, <3>3 DEF m
    <2>2. CASE t.kind \notin Canonical
        <3>1. n = Greater(1, Lesser(t.total, t.workers * ChunksPerWorker))
            BY <1>2, <2>2 DEF ChunkCount, algorithm_chunk_count
        <3>2. t.workers * ChunksPerWorker \in Nat
            BY <1>2
        <3> QED BY <1>2, <3>1, <3>2 DEF Greater, Lesser
    <2> QED BY <2>1, <2>2
<1>4. ChunkIds(t) = 0..(n - 1)
    BY DEF ChunkIds
<1>5. \A k \in ChunkIds(t) : b[k] = ChunkRange(t, k)[1] /\ e[k] = ChunkRange(t, k)[2]
    OBVIOUS
<1> HIDE DEF n, b, e
<1> DEFINE top == n - 1
<1>6. top \in Nat /\ ChunkIds(t) = 0..top
    BY <1>3, <1>4
<1> HIDE DEF top
<1>7. /\ b[0] = 0 /\ e[top] = t.total
      /\ \A k \in 0..top : k < top => e[k] = b[k + 1]
    BY <1>1, <1>2, <1>6, CutOrdered
<1>8. ChunkRange(t, 0)[1] = 0 /\ ChunkRange(t, top)[2] = t.total
    BY <1>5, <1>6, <1>7
<1>9. ASSUME NEW k \in Nat, k + 1 < n
      PROVE  ChunkRange(t, k)[2] = ChunkRange(t, k + 1)[1]
    <2>1. k \in 0..top /\ k + 1 \in 0..top /\ k < top
        BY <1>3, <1>6, <1>9 DEF top
    <2> QED BY <1>5, <1>6, <1>7, <2>1
<1> QED BY <1>3, <1>4, <1>8, <1>9 DEF n, top

\* What a sum has added of its elements, the first a of them.
SumOf(a) == [i \in 1..(a + 1) |-> IF i = 1 THEN "init" ELSE i - 2]

LEMMA SumStarts == <<"init">> = SumOf(0)
<1> DEFINE S == {"init"}
           u == <<"init">>
           o == SumOf(0)
<1>1. u \in Seq(S) /\ Len(u) = 1 /\ u[1] = "init"
    OBVIOUS
<1>2. o \in Seq(S) /\ Len(o) = 1 /\ o[1] = "init"
    BY DEF SumOf
<1> HIDE DEF o, u, S
<1>3. \A i \in 1..Len(u) : u[i] = o[i]
    BY <1>1, <1>2
<1>4. u = o
    BY <1>1, <1>2, <1>3, SeqEqual
<1> QED BY <1>4 DEF o, u

LEMMA SumGrows ==
    ASSUME NEW a \in Nat, NEW b \in Nat, a <= b
    PROVE  SumOf(a) \o Ascending(<<a, b>>) = SumOf(b)
<1> DEFINE S == Nat \cup {"init"}
<1>1. ASSUME NEW f \in Nat
      PROVE  /\ SumOf(f) \in Seq(S) /\ Len(SumOf(f)) = f + 1
             /\ SumOf(f)[1] = "init" /\ \A i \in 2..(f + 1) : SumOf(f)[i] = i - 2
    BY DEF SumOf
<1>2. ASSUME NEW f \in Nat, f <= b
      PROVE  /\ Ascending(<<f, b>>) \in Seq(S) /\ Len(Ascending(<<f, b>>)) = b - f
             /\ \A i \in 1..(b - f) : Ascending(<<f, b>>)[i] = f + i - 1
    BY <1>2 DEF Ascending
<1>5. ASSUME NEW f \in Nat, f <= b
      PROVE  SumOf(f) \o Ascending(<<f, b>>) = SumOf(b)
    <2> DEFINE s == SumOf(f)
               r == Ascending(<<f, b>>)
    <2>1. /\ s \in Seq(S) /\ Len(s) = f + 1
          /\ s[1] = "init" /\ \A i \in 2..(f + 1) : s[i] = i - 2
        BY <1>1
    <2>2. /\ r \in Seq(S) /\ Len(r) = b - f
          /\ \A i \in 1..(b - f) : r[i] = f + i - 1
        BY <1>2, <1>5
    <2> HIDE DEF s, r, S
    <2>3. /\ s \o r \in Seq(S) /\ Len(s \o r) = b + 1
          /\ \A i \in 1..(b + 1) : (s \o r)[i] = IF i <= f + 1 THEN s[i] ELSE r[i - (f + 1)]
        <3>1. /\ s \o r \in Seq(S) /\ Len(s \o r) = Len(s) + Len(r)
              /\ \A i \in 1..(Len(s) + Len(r)) :
                   (s \o r)[i] = IF i <= Len(s) THEN s[i] ELSE r[i - Len(s)]
            BY <2>1, <2>2, ConcatProperties, Zenon
        <3>2. Len(s) + Len(r) = b + 1
            BY <1>5, <2>1, <2>2
        <3> QED BY <2>1, <2>2, <3>1, <3>2
    <2>4. \A i \in 1..(b + 1) : (s \o r)[i] = SumOf(b)[i]
        <3> SUFFICES ASSUME NEW i \in 1..(b + 1) PROVE (s \o r)[i] = SumOf(b)[i]
            OBVIOUS
        <3>1. SumOf(b)[1] = "init" /\ \A j \in 2..(b + 1) : SumOf(b)[j] = j - 2
            BY <1>1
        <3>2. CASE i <= f + 1
            <4>1. (s \o r)[i] = s[i]
                BY <2>3, <3>2
            <4>2. CASE i = 1
                BY <2>1, <3>1, <4>1, <4>2, Zenon
            <4>3. CASE i # 1
                <5>1. i \in 2..(f + 1) /\ i \in 2..(b + 1)
                    BY <1>5, <3>2, <4>3
                <5> QED BY <2>1, <3>1, <4>1, <5>1, Zenon
            <4> QED BY <4>2, <4>3
        <3>3. CASE i > f + 1
            <4>1. i - (f + 1) \in 1..(b - f) /\ i \in 2..(b + 1)
                BY <1>5, <3>3
            <4>2. r[i - (f + 1)] = f + (i - (f + 1)) - 1
                BY <2>2, <4>1
            <4>3. (s \o r)[i] = r[i - (f + 1)]
                BY <2>3, <3>3
            <4>4. r[i - (f + 1)] = i - 2
                BY <4>2
            <4>5. SumOf(b)[i] = i - 2
                BY <3>1, <4>1, Zenon
            <4> QED BY <4>3, <4>4, <4>5
        <3>4. i <= f + 1 \/ i > f + 1
            OBVIOUS
        <3> QED BY <3>2, <3>3, <3>4, Zenon
    <2>5. s \o r = SumOf(b)
        <3> DEFINE u == SumOf(b)
                   v == s \o r
        <3>1. u \in Seq(S) /\ Len(u) = b + 1
            BY <1>1
        <3>2. v \in Seq(S) /\ Len(v) = b + 1 /\ \A i \in 1..(b + 1) : v[i] = u[i]
            BY <2>3, <2>4
        <3> HIDE DEF u, v
        <3>3. v = u
            BY <3>1, <3>2, SeqEqual
        <3> QED BY <3>3 DEF u, v
    <2> QED BY <2>5 DEF s, r
<1> QED BY <1>5

-----------------------------------------------------------------------------
(* Powers of two and multiples.                                            *)

LEMMA MultipleIs ==
    ASSUME NEW a \in Nat, NEW d \in Nat \ {0}
    PROVE  a % d = 0 <=> \E q \in Nat : a = Times(q, d)
<1> DEFINE p == a \div d
           r == a % d
<1>1. p \in Nat /\ r \in 0..(d - 1) /\ a = Times(p, d) + r
    BY DivisionIs
<1> HIDE DEF p, r
<1>2. Times(p, d) \in Nat
    BY <1>1, TimesIs
<1>3. r = 0 => a = Times(p, d)
    BY <1>1, <1>2
<1>4. ASSUME NEW q \in Nat, a = Times(q, d) PROVE r = 0
    <2>1. CASE r # 0
        <3>1. Times(p, d) < Times(q, d)
            BY <1>1, <1>2, <1>4, <2>1
        <3>2. p < q
            BY <1>1, <3>1, MultiplesGrow
        <3>3. Times(p, d) + d <= Times(q, d)
            BY <1>1, <3>2, MultiplesGrow
        <3> QED BY <1>1, <1>2, <1>4, <3>3
    <2> QED BY <2>1
<1> QED BY <1>1, <1>3, <1>4 DEF r

LEMMA MultiplesOfTwice ==
    ASSUME NEW w \in Nat \ {0}, NEW l \in Nat, l % (2 * w) = 0
    PROVE  /\ l % w = 0 /\ (l + w) % w = 0
           /\ \A a \in Nat : a % (2 * w) = 0 /\ l <= a /\ a < l + 2 * w => a = l
<1> DEFINE d == 2 * w
<1>1. d \in Nat \ {0}
    OBVIOUS
<1>2. PICK q \in Nat : l = Times(q, d)
    <2> HIDE DEF d
    <2> QED BY <1>1, MultipleIs DEF d
<1>3. l = Times(2 * q, w) /\ l + w = Times(2 * q + 1, w)
    BY <1>2 DEF Times
<1>4. l % w = 0 /\ (l + w) % w = 0
    <2>1. 2 * q \in Nat /\ 2 * q + 1 \in Nat /\ l + w \in Nat
        OBVIOUS
    <2> QED BY <1>3, <2>1, MultipleIs
<1>5. ASSUME NEW a \in Nat, a % d = 0, l <= a, a < l + d
      PROVE  a = l
    <2> HIDE DEF d
    <2>1. PICK p \in Nat : a = Times(p, d)
        BY <1>1, <1>5, MultipleIs
    <2>2. CASE q < p
        <3>1. Times(q, d) + d <= Times(p, d)
            BY <1>1, <2>2, MultiplesGrow
        <3> QED BY <1>1, <1>2, <1>5, <2>1, <3>1
    <2>3. CASE p < q
        <3>1. Times(p, d) + d <= Times(q, d)
            BY <1>1, <2>3, MultiplesGrow
        <3> QED BY <1>1, <1>2, <1>5, <2>1, <3>1
    <2>4. CASE p = q
        BY <1>2, <2>1, <2>4
    <2> QED BY <2>2, <2>3, <2>4
<1> QED BY <1>4, <1>5

LEMMA PowerDoubles ==
    ASSUME NEW w \in Nat \ {0}, PowerOfTwo(w)
    PROVE  PowerOfTwo(2 * w)
<1> SUFFICES ASSUME NEW d \in 2..(2 * w), (2 * w) % d = 0, d % 2 # 0 PROVE FALSE
    BY DEF PowerOfTwo
<1>1. d \in Nat \ {0} /\ 2 * w \in Nat
    OBVIOUS
<1>2. PICK q \in Nat : 2 * w = Times(q, d)
    BY <1>1, MultipleIs
<1>3. PICK k \in Nat : d = 2 * k + 1
    <2>1. d % 2 = 1
        OBVIOUS
    <2>2. d = 2 * (d \div 2) + 1 /\ d \div 2 \in Nat
        BY <2>1
    <2> QED BY <2>2
<1>4. 2 * w = 2 * Times(q, k) + q /\ Times(q, k) \in Nat
    BY <1>2, <1>3 DEF Times
<1> DEFINE m == Times(q, k)
           p == w - m
<1>5. q = 2 * p /\ p \in Nat
    <2> HIDE DEF m
    <2> QED BY <1>4 DEF m
<1> HIDE DEF p
<1>6. w = Times(p, d)
    BY <1>2, <1>5 DEF Times
<1>7. w % d = 0
    BY <1>1, <1>5, <1>6, MultipleIs
<1>8. d <= w
    <2>1. p # 0
        BY <1>6 DEF Times
    <2>2. 0 < p
        BY <1>5, <2>1
    <2>3. Times(0, d) + d <= Times(p, d) /\ Times(0, d) = 0
        BY <1>1, <1>5, <2>2, MultiplesGrow DEF Times
    <2> QED BY <1>1, <1>6, <2>3
<1>9. d \in 2..w
    BY <1>8
<1> QED BY <1>7, <1>9 DEF PowerOfTwo

LEMMA PowerHalves ==
    ASSUME NEW x \in Nat, x > 1, PowerOfTwo(x)
    PROVE  \E h \in Nat \ {0} : x = 2 * h /\ PowerOfTwo(h)
<1>1. x % x = 0
    <2>1. x = Times(1, x) /\ x \in Nat \ {0}
        BY DEF Times
    <2> QED BY <2>1, MultipleIs
<1>2. x % 2 = 0
    BY <1>1 DEF PowerOfTwo
<1>3. PICK h \in Nat \ {0} : x = 2 * h
    <2>1. x = 2 * (x \div 2) /\ x \div 2 \in Nat \ {0}
        BY <1>2
    <2> QED BY <2>1
<1>4. ASSUME NEW d \in 2..h, h % d = 0
      PROVE  d % 2 = 0
    <2>1. d \in Nat \ {0} /\ d \in 2..x
        BY <1>3
    <2>2. PICK q \in Nat : h = Times(q, d)
        BY <1>4, <2>1, MultipleIs
    <2>3. x = Times(2 * q, d) /\ 2 * q \in Nat
        BY <1>3, <2>2 DEF Times
    <2>4. x % d = 0
        BY <2>1, <2>3, MultipleIs
    <2> QED BY <2>1, <2>4 DEF PowerOfTwo
<1> QED BY <1>3, <1>4 DEF PowerOfTwo

\* w is a power of two, and the next one is its double.
WidthOK(w) ==
    /\ w \in Nat \ {0} /\ PowerOfTwo(w)
    /\ \A x \in Nat \ {0} : PowerOfTwo(x) => x <= w \/ x >= 2 * w

LEMMA WidthDoubles ==
    ASSUME NEW w, WidthOK(w)
    PROVE  WidthOK(1) /\ WidthOK(2 * w)
<1>1. WidthOK(1)
    BY DEF WidthOK, PowerOfTwo
<1>2. ASSUME NEW x \in Nat \ {0}, PowerOfTwo(x), ~(x <= 2 * w), ~(x >= 2 * (2 * w))
      PROVE  FALSE
    <2>0. w \in Nat \ {0}
        BY DEF WidthOK
    <2>1. x > 1
        BY <1>2, <2>0
    <2>2. PICK h \in Nat \ {0} : x = 2 * h /\ PowerOfTwo(h)
        BY <1>2, <2>1, PowerHalves
    <2>3. h <= w \/ h >= 2 * w
        BY <2>2 DEF WidthOK
    <2> QED BY <1>2, <2>0, <2>2, <2>3
<1>3. PowerOfTwo(2 * w) /\ 2 * w \in Nat \ {0}
    BY PowerDoubles DEF WidthOK
<1> QED BY <1>1, <1>2, <1>3 DEF WidthOK

-----------------------------------------------------------------------------
(* The tree of a canonical reduction.                                      *)

SplitIds(n) ==
    {s \in (1..n) \X (0..n) : PowerOfTwo(s[1]) /\ s[2] % (2 * s[1]) = 0 /\ s[2] + s[1] < n}

\* The splits of a block of w leaves from l on.
SplitsIn(n, w, l) == {s \in SplitIds(n) : s[1] < w /\ l <= s[2] /\ s[2] < l + w}

SplitOf(t, s) ==
    <<Block(t, s[2], s[2] + s[1]), Block(t, s[2] + s[1], Lesser(ChunkCount(t), s[2] + 2 * s[1]))>>

PairsIn(t, w, l) == {SplitOf(t, s) : s \in SplitsIn(ChunkCount(t), w, l)}

\* A state that has seen what is special in a range, and overflows if any.
SeenIn(t, r) == {t.input[i] : i \in Between(r)} \ {"zero"}
Sees(t, r, x) == SeenIn(t, r) \subseteq x /\ x \subseteq SeenIn(t, r) \cup t.overflows

\* The state of a canonical reduction at l before the pass of width w: the
\* leaves from l on, w of them or as many as there are.
StateOK(t, w, l, x) ==
    LET r == Block(t, l, Lesser(ChunkCount(t), l + w))
    IN  IF t.kind = "pairwise" THEN x = [range |-> r, pairs |-> PairsIn(t, w, l)]
        ELSE Sees(t, r, x)

TreeOK(t, q, w) ==
    /\ q = [k \in ChunkIds(t) |-> q[k]]
    /\ \A l \in ChunkIds(t) : l % w = 0 => StateOK(t, w, l, q[l])

LEMMA SplitsDouble ==
    ASSUME NEW n \in Nat \ {0}, NEW w, WidthOK(w), NEW l \in 0..(n - 1), l % (2 * w) = 0
    PROVE  /\ l + w < n => SplitsIn(n, 2 * w, l) =
                             SplitsIn(n, w, l) \cup SplitsIn(n, w, l + w) \cup {<<w, l>>}
           /\ l + w >= n => SplitsIn(n, 2 * w, l) = SplitsIn(n, w, l)
<1>0. w \in Nat \ {0} /\ l \in Nat
    BY DEF WidthOK
<1>1. ASSUME NEW h \in 1..n, NEW a \in 0..n, <<h, a>> \in SplitIds(n), h < 2 * w,
             l <= a, a < l + 2 * w
      PROVE  h < w \/ (h = w /\ a = l /\ l + w < n)
    <2>1. PowerOfTwo(h) /\ a % (2 * h) = 0 /\ a + h < n
        BY <1>1 DEF SplitIds
    <2>2. h <= w
        BY <1>0, <1>1, <2>1 DEF WidthOK
    <2>3. CASE h = w
        <3>1. a = l
            <4>1. a \in Nat /\ a % (2 * w) = 0
                BY <2>1, <2>3
            <4> QED BY <1>0, <1>1, <4>1, MultiplesOfTwice
        <3> QED BY <1>0, <2>1, <2>3, <3>1
    <2> QED BY <1>0, <2>2, <2>3
<1>2. ASSUME l + w < n
      PROVE  <<w, l>> \in SplitIds(n)
    BY <1>0, <1>2 DEF SplitIds, WidthOK
<1>3. SplitIds(n) \subseteq (1..n) \X (0..n)
    BY DEF SplitIds
<1>4. ASSUME l + w < n, NEW s
      PROVE  s \in SplitsIn(n, 2 * w, l) <=>
               s \in SplitsIn(n, w, l) \cup SplitsIn(n, w, l + w) \cup {<<w, l>>}
    <2>1. ASSUME s \in SplitsIn(n, 2 * w, l)
          PROVE  s \in SplitsIn(n, w, l) \cup SplitsIn(n, w, l + w) \cup {<<w, l>>}
        <3>1. s \in SplitIds(n) /\ s[1] < 2 * w /\ l <= s[2] /\ s[2] < l + 2 * w
            BY <2>1 DEF SplitsIn
        <3>2. PICK h \in 1..n, a \in 0..n : s = <<h, a>>
            BY <1>3, <3>1
        <3>3. h < w \/ (h = w /\ a = l)
            BY <1>1, <3>1, <3>2
        <3>4. CASE h < w /\ a < l + w
            BY <3>1, <3>2, <3>4 DEF SplitsIn
        <3>5. CASE h < w /\ a >= l + w
            BY <1>0, <3>1, <3>2, <3>5 DEF SplitsIn
        <3> QED BY <1>0, <3>2, <3>3, <3>4, <3>5
    <2>2. ASSUME s \in SplitsIn(n, w, l) \/ s \in SplitsIn(n, w, l + w)
          PROVE  s \in SplitsIn(n, 2 * w, l)
        <3>1. /\ s \in SplitIds(n) /\ s[1] < w
              /\ \/ l <= s[2] /\ s[2] < l + w
                 \/ l + w <= s[2] /\ s[2] < (l + w) + w
            BY <2>2 DEF SplitsIn
        <3>2. PICK h \in 1..n, a \in 0..n : s = <<h, a>>
            BY <1>3, <3>1
        <3>3. h < 2 * w /\ l <= a /\ a < l + 2 * w
            BY <1>0, <3>1, <3>2
        <3> QED BY <3>1, <3>2, <3>3 DEF SplitsIn
    <2>3. <<w, l>> \in SplitsIn(n, 2 * w, l)
        BY <1>0, <1>2, <1>4 DEF SplitsIn
    <2> QED BY <2>1, <2>2, <2>3
<1>5. ASSUME l + w >= n, NEW s
      PROVE  s \in SplitsIn(n, 2 * w, l) <=> s \in SplitsIn(n, w, l)
    <2>1. ASSUME s \in SplitsIn(n, 2 * w, l)
          PROVE  s \in SplitsIn(n, w, l)
        <3>1. s \in SplitIds(n) /\ s[1] < 2 * w /\ l <= s[2] /\ s[2] < l + 2 * w
            BY <2>1 DEF SplitsIn
        <3>2. PICK h \in 1..n, a \in 0..n : s = <<h, a>>
            BY <1>3, <3>1
        <3>3. h < w
            BY <1>0, <1>1, <1>5, <3>1, <3>2
        <3>4. a + h < n
            BY <3>1, <3>2 DEF SplitIds
        <3>5. a < l + w
            BY <1>0, <1>5, <3>4
        <3> QED BY <3>1, <3>2, <3>3, <3>5 DEF SplitsIn
    <2>2. ASSUME s \in SplitsIn(n, w, l)
          PROVE  s \in SplitsIn(n, 2 * w, l)
        <3>1. s \in SplitIds(n) /\ s[1] < w /\ l <= s[2] /\ s[2] < l + w
            BY <2>2 DEF SplitsIn
        <3>2. PICK h \in 1..n, a \in 0..n : s = <<h, a>>
            BY <1>3, <3>1
        <3>3. h < 2 * w /\ l <= a /\ a < l + 2 * w
            BY <1>0, <3>1, <3>2
        <3> QED BY <3>1, <3>2, <3>3 DEF SplitsIn
    <2> QED BY <2>1, <2>2
<1> HIDE DEF SplitsIn
<1> QED BY <1>4, <1>5

LEMMA PairsDouble ==
    ASSUME NEW t, TaskOK(t), NEW w, WidthOK(w), NEW l \in ChunkIds(t), l % (2 * w) = 0
    PROVE  /\ l + w < ChunkCount(t) =>
                PairsIn(t, 2 * w, l) =
                  PairsIn(t, w, l) \cup PairsIn(t, w, l + w) \cup
                  {<<Block(t, l, l + w), Block(t, l + w, Lesser(ChunkCount(t), l + 2 * w))>>}
           /\ l + w >= ChunkCount(t) => PairsIn(t, 2 * w, l) = PairsIn(t, w, l)
<1> DEFINE n == ChunkCount(t)
           X == SplitsIn(n, w, l)
           Y == SplitsIn(n, w, l + w)
           Z == SplitsIn(n, 2 * w, l)
<1>1. n \in Nat \ {0} /\ l \in 0..(n - 1)
    BY ChunksFollow
<1>2. /\ l + w < n => Z = X \cup Y \cup {<<w, l>>}
      /\ l + w >= n => Z = X
    <2> HIDE DEF n
    <2> QED BY <1>1, SplitsDouble
<1>3. /\ PairsIn(t, 2 * w, l) = {SplitOf(t, s) : s \in Z}
      /\ PairsIn(t, w, l) = {SplitOf(t, s) : s \in X}
      /\ PairsIn(t, w, l + w) = {SplitOf(t, s) : s \in Y}
    BY DEF PairsIn
<1>4. SplitOf(t, <<w, l>>) = <<Block(t, l, l + w), Block(t, l + w, Lesser(n, l + 2 * w))>>
    BY DEF SplitOf
<1> HIDE DEF n, X, Y, Z
<1>5. ASSUME Z = X \cup Y \cup {<<w, l>>}
      PROVE  {SplitOf(t, s) : s \in Z} =
               {SplitOf(t, s) : s \in X} \cup {SplitOf(t, s) : s \in Y} \cup {SplitOf(t, <<w, l>>)}
    BY <1>5
<1> QED BY <1>2, <1>3, <1>4, <1>5 DEF n

\* Adjacent blocks of leaves.
LEMMA BlocksJoin ==
    ASSUME NEW t, TaskOK(t), NEW l \in Nat, NEW m \in Nat, NEW r \in Nat,
           l < m, m < r, r <= ChunkCount(t)
    PROVE  /\ Block(t, l, m)[1] = Block(t, l, r)[1] /\ Block(t, m, r)[2] = Block(t, l, r)[2]
           /\ Between(Block(t, l, r)) = Between(Block(t, l, m)) \cup Between(Block(t, m, r))
<1> DEFINE n == ChunkCount(t)
           b == [k \in ChunkIds(t) |-> ChunkRange(t, k)[1]]
           e == [k \in ChunkIds(t) |-> ChunkRange(t, k)[2]]
<1>1. Cut(t.total, ChunkIds(t), b, e)
    BY ChunksCut DEF TaskOK
<1>2. n \in Nat \ {0} /\ ChunkIds(t) = 0..(n - 1)
    BY ChunksFollow
<1>3. l \in ChunkIds(t) /\ m \in ChunkIds(t) /\ m - 1 \in ChunkIds(t) /\ r - 1 \in ChunkIds(t)
    BY <1>2
<1>4. /\ Block(t, l, m) = <<b[l], e[m - 1]>> /\ Block(t, m, r) = <<b[m], e[r - 1]>>
      /\ Block(t, l, r) = <<b[l], e[r - 1]>>
    BY <1>3 DEF Block
<1>5. e[m - 1] = b[m]
    <2>1. m - 1 \in Nat /\ (m - 1) + 1 < n /\ (m - 1) + 1 = m
        BY <1>2
    <2>2. ChunkRange(t, m - 1)[2] = ChunkRange(t, m)[1]
        BY <2>1, ChunksFollow
    <2> QED BY <1>3, <2>2
<1> HIDE DEF b, e, n
<1>6. ASSUME NEW k \in ChunkIds(t), NEW j \in ChunkIds(t), k <= j
      PROVE  b[k] \in Nat /\ e[j] \in Nat /\ b[k] < e[j]
    <2>1. /\ b[k] \in Nat /\ e[k] \in Nat /\ b[k] < e[k]
          /\ b[j] \in Nat /\ e[j] \in Nat /\ b[j] < e[j]
        BY <1>1 DEF Cut
    <2>2. k < j => e[k] <= b[j]
        BY <1>1 DEF Cut
    <2>3. k < j \/ k = j
        BY <1>2, <1>6
    <2> QED BY <2>1, <2>2, <2>3
<1>7. /\ b[l] \in Nat /\ b[m] \in Nat /\ e[m - 1] \in Nat /\ e[r - 1] \in Nat
      /\ b[l] < e[m - 1] /\ b[m] < e[r - 1]
    BY <1>3, <1>6
<1>8. b[l]..(e[r - 1] - 1) = b[l]..(e[m - 1] - 1) \cup b[m]..(e[r - 1] - 1)
    BY <1>5, <1>7
<1> QED BY <1>4, <1>8 DEF Between

CanonicalSums == {"pairwise", "compensated", "scaled"}

\* An addition overflows to what the operands may.
LEMMA SpillsAre ==
    ASSUME NEW t, NEW o \in Spills(t)
    PROVE  o \subseteq t.overflows
BY DEF Spills

\* The leaves' states are what the first pass finds.
LEMMA TreeStart ==
    ASSUME NEW t, TaskOK(t), t.kind \in CanonicalSums, NEW q,
           q = [k \in ChunkIds(t) |-> q[k]],
           \A k \in ChunkIds(t) : \E o \in Spills(t) : q[k] = Partial(t, k, o)
    PROVE  TreeOK(t, q, 1)
<1> SUFFICES ASSUME NEW l \in ChunkIds(t), NEW o \in Spills(t)
             PROVE  StateOK(t, 1, l, Partial(t, l, o))
    BY DEF TreeOK
<1> DEFINE n == ChunkCount(t)
           r == ChunkRange(t, l)
<1>1. n \in Nat \ {0} /\ l \in 0..(n - 1)
    BY ChunksFollow
<1>2. Lesser(n, l + 1) = l + 1 /\ (l + 1) - 1 = l
    BY <1>1 DEF Lesser
<1>3. r = <<r[1], r[2]>>
    BY DEF ChunkRange, canonical_leaf_range, CanonicalSums, Canonical
<1>4. Block(t, l, Lesser(n, l + 1)) = r
    BY <1>2, <1>3 DEF Block
<1>5. PairsIn(t, 1, l) = {}
    <2>1. SplitsIn(n, 1, l) = {}
        <3> SUFFICES ASSUME NEW s \in SplitsIn(n, 1, l) PROVE FALSE
            OBVIOUS
        <3>1. s \in (1..n) \X (0..n) /\ s[1] < 1
            BY DEF SplitsIn, SplitIds
        <3>2. PICK h \in 1..n, a \in 0..n : s = <<h, a>>
            BY <3>1
        <3> QED BY <3>1, <3>2
    <2> QED BY <2>1 DEF PairsIn
<1> DEFINE x == Partial(t, l, o)
<1>6. StateOK(t, 1, l, x) <=> IF t.kind = "pairwise" THEN x = [range |-> r, pairs |-> {}]
                              ELSE Sees(t, r, x)
    <2> HIDE DEF x, r, n
    <2> QED BY <1>4, <1>5 DEF StateOK, n
<1>7. CASE t.kind = "pairwise"
    <2>1. x = [range |-> r, pairs |-> {}]
        BY <1>7, Zenon DEF Partial
    <2> QED BY <1>6, <1>7, <2>1
<1>8. CASE t.kind \in {"compensated", "scaled"}
    <2>1. x = LeafState(t, l, o)
        BY <1>8 DEF Partial
    <2>2. x = SeenIn(t, r) \/ x = SeenIn(t, r) \cup o
        BY <2>1 DEF LeafState, SeenIn
    <2>3. o \subseteq t.overflows
        BY SpillsAre
    <2>4. Sees(t, r, x)
        <3> HIDE DEF x, r
        <3> QED BY <2>2, <2>3 DEF Sees
    <2>5. t.kind # "pairwise"
        BY <1>8
    <2> QED BY <1>6, <2>4, <2>5
<1> QED BY <1>7, <1>8 DEF CanonicalSums

\* A pass doubles the blocks.
LEMMA TreeGrows ==
    ASSUME NEW t, TaskOK(t), t.kind \in CanonicalSums, NEW q, NEW w, WidthOK(w),
           TreeOK(t, q, w), w < ChunkCount(t), NEW spill \in [ChunkIds(t) -> Spills(t)]
    PROVE  TreeOK(t, Merged(t.kind, q, w, spill), 2 * w)
<1> DEFINE n == ChunkCount(t)
           z == Merged(t.kind, q, w, spill)
<1>1. n \in Nat \ {0} /\ ChunkIds(t) = 0..(n - 1) /\ w \in Nat \ {0}
    BY ChunksFollow DEF WidthOK
<1>2. DOMAIN q = ChunkIds(t) /\ Cardinality(DOMAIN q) = n
    <2>1. DOMAIN q = 0..(n - 1)
        BY <1>1 DEF TreeOK
    <2>2. Cardinality(0..(n - 1)) = n
        <3> HIDE DEF n
        <3>1. 0 \in Int /\ n - 1 \in Int /\ ~(0 > n - 1) /\ (n - 1) - 0 + 1 = n
            BY <1>1
        <3>2. Cardinality(0..(n - 1)) = IF 0 > n - 1 THEN 0 ELSE (n - 1) - 0 + 1
            BY <3>1, FS_Interval, Zenon
        <3> QED BY <3>1, <3>2
    <2> QED BY <1>1, <2>1, <2>2
<1>3. z = [l \in ChunkIds(t) |->
             IF l % (2 * w) = 0 /\ w < n - l
             THEN Merge(t.kind, q[l], q[l + w], spill[l]) ELSE q[l]]
    BY <1>2, Zenon DEF Merged
<1> HIDE DEF z, n
<1>4. ASSUME NEW l \in ChunkIds(t), l % (2 * w) = 0
      PROVE  StateOK(t, 2 * w, l, z[l])
    <2> DEFINE r == Lesser(n, l + 2 * w)
    <2>0. l \in Nat /\ l < n /\ l + w \in Nat /\ 2 * w \in Nat
        BY <1>1
    <2>1. l % w = 0 /\ (l + w) % w = 0
        BY <1>1, <1>4, <2>0, MultiplesOfTwice
    <2>2. StateOK(t, w, l, q[l])
        BY <2>1 DEF TreeOK
    <2>3. CASE l + w < n
        <3> DEFINE x == q[l]
                   y == q[l + w]
        <3>1. l + w \in ChunkIds(t)
            BY <1>1, <2>0, <2>3
        <3>2. StateOK(t, w, l + w, y)
            BY <2>1, <3>1 DEF TreeOK
        <3>3. w < n - l
            BY <1>1, <2>0, <2>3
        <3>4. z[l] = Merge(t.kind, x, y, spill[l])
            BY <1>3, <1>4, <3>3
        <3>5. /\ Lesser(n, l + w) = l + w /\ (l + w) + w = l + 2 * w
              /\ r \in Nat /\ l + w < r /\ r <= n /\ l < l + w
            BY <1>1, <2>0, <2>3 DEF Lesser
        <3> HIDE DEF r
        <3> DEFINE A == Block(t, l, l + w)
                   B == Block(t, l + w, r)
                   C == Block(t, l, r)
        <3>6. /\ A[1] = C[1] /\ B[2] = C[2] /\ Between(C) = Between(A) \cup Between(B)
            BY <2>0, <3>5, BlocksJoin DEF n
        <3>7. C = <<C[1], C[2]>>
            BY DEF Block
        <3>8. CASE t.kind = "pairwise"
            <4>1. x = [range |-> A, pairs |-> PairsIn(t, w, l)]
                BY <2>2, <3>5, <3>8 DEF StateOK, n
            <4>2. y = [range |-> B, pairs |-> PairsIn(t, w, l + w)]
                BY <3>2, <3>5, <3>8 DEF StateOK, n, r
            <4>3. StateOK(t, 2 * w, l, z[l]) <=>
                    z[l] = [range |-> C, pairs |-> PairsIn(t, 2 * w, l)]
                BY <3>8 DEF StateOK, n, r
            <4>4. PairsIn(t, 2 * w, l) = PairsIn(t, w, l) \cup PairsIn(t, w, l + w) \cup {<<A, B>>}
                BY <1>4, <2>3, PairsDouble DEF n, r
            <4> HIDE DEF A, B, C
            <4>5. Merge(t.kind, x, y, spill[l]) = [range |-> <<x.range[1], y.range[2]>>,
                                         pairs |-> x.pairs \cup y.pairs \cup {<<x.range, y.range>>}]
                BY <3>8 DEF Merge
            <4> HIDE DEF x, y
            <4>6. x.range = A /\ y.range = B /\ x.pairs = PairsIn(t, w, l)
                  /\ y.pairs = PairsIn(t, w, l + w)
                BY <4>1, <4>2
            <4> QED BY <3>4, <3>6, <3>7, <4>3, <4>4, <4>5, <4>6
        <3>9. CASE t.kind # "pairwise"
            <4>1. Sees(t, A, x)
                BY <2>2, <3>5, <3>9 DEF StateOK, n
            <4>2. Sees(t, B, y)
                BY <3>2, <3>5, <3>9 DEF StateOK, n, r
            <4>3. StateOK(t, 2 * w, l, z[l]) <=> Sees(t, C, z[l])
                BY <3>9 DEF StateOK, n, r
            <4>4. t.kind = "compensated" \/ t.kind = "scaled"
                BY <3>9 DEF CanonicalSums
            <4>5. spill[l] \subseteq t.overflows
                BY SpillsAre
            <4> DEFINE o == spill[l]
            <4> HIDE DEF A, B, C, x, y, o
            <4>6. Merge(t.kind, x, y, o) = x \cup y \/ Merge(t.kind, x, y, o) = x \cup y \cup o
                BY <4>4 DEF Merge, Spilled
            <4>7. SeenIn(t, C) = SeenIn(t, A) \cup SeenIn(t, B)
                BY <3>6 DEF SeenIn
            <4>8. z[l] = x \cup y \/ z[l] = x \cup y \cup o
                BY <3>4, <4>6 DEF o
            <4>9. o \subseteq t.overflows
                BY <4>5 DEF o
            <4>10. Sees(t, C, z[l])
                BY <4>1, <4>2, <4>7, <4>8, <4>9 DEF Sees
            <4> QED BY <4>3, <4>10
        <3> QED BY <3>8, <3>9
    <2>4. CASE l + w >= n
        <3>1. ~(w < n - l) /\ Lesser(n, l + w) = n /\ Lesser(n, l + 2 * w) = n
            BY <1>1, <2>0, <2>4 DEF Lesser
        <3>2. z[l] = q[l]
            BY <1>3, <3>1
        <3>3. PairsIn(t, 2 * w, l) = PairsIn(t, w, l)
            BY <1>4, <2>4, PairsDouble DEF n
        <3>4. StateOK(t, 2 * w, l, q[l]) <=> StateOK(t, w, l, q[l])
            BY <3>1, <3>3 DEF StateOK, n
        <3> QED BY <2>2, <3>2, <3>4
    <2> QED BY <1>1, <2>0, <2>3, <2>4
<1>5. z = [l \in ChunkIds(t) |-> z[l]]
    BY <1>3
<1> QED BY <1>4, <1>5 DEF TreeOK, z

\* After the last pass the first state is the whole tree.
LEMMA TreeEnds ==
    ASSUME NEW t, TaskOK(t), t.kind \in CanonicalSums, NEW q, NEW w \in Nat \ {0},
           TreeOK(t, q, w), w >= ChunkCount(t)
    PROVE  /\ t.kind = "pairwise" =>
                q[0] = [range |-> <<0, t.total>>, pairs |-> CanonicalPairs(t)]
           /\ t.kind # "pairwise" => Sees(t, <<0, t.total>>, q[0])
<1> DEFINE n == ChunkCount(t)
<1>1. /\ n \in Nat \ {0} /\ 0 \in ChunkIds(t)
      /\ ChunkRange(t, 0)[1] = 0 /\ ChunkRange(t, n - 1)[2] = t.total
    BY ChunksFollow
<1>2. Lesser(n, 0 + w) = n
    BY <1>1 DEF Lesser
<1>3. Block(t, 0, n) = <<0, t.total>>
    BY <1>1 DEF Block
<1>4. StateOK(t, w, 0, q[0])
    <2>1. 0 % w = 0
        OBVIOUS
    <2> QED BY <1>1, <2>1 DEF TreeOK
<1>5. PairsIn(t, w, 0) = CanonicalPairs(t)
    <2>1. SplitsIn(n, w, 0) = SplitIds(n)
        <3> SUFFICES ASSUME NEW s \in SplitIds(n) PROVE s[1] < w /\ 0 <= s[2] /\ s[2] < 0 + w
            BY DEF SplitsIn
        <3>1. s \in (1..n) \X (0..n) /\ s[2] + s[1] < n
            BY DEF SplitIds
        <3>2. PICK h \in 1..n, a \in 0..n : s = <<h, a>>
            BY <3>1
        <3> HIDE DEF n
        <3> QED BY <1>1, <3>1, <3>2 DEF n
    <2>2. CanonicalPairs(t) = {SplitOf(t, s) : s \in SplitIds(n)}
        BY Zenon DEF CanonicalPairs, SplitOf, SplitIds
    <2> QED BY <2>1, <2>2 DEF PairsIn
<1> QED BY <1>2, <1>3, <1>4, <1>5 DEF StateOK

-----------------------------------------------------------------------------
(* What a call of a reduction has reached.                                 *)

PartsOK(t, x, q, bad) ==
    /\ q = [k \in ChunkIds(t) |-> q[k]]
    /\ \A k \in ChunkIds(t) : x[k].at = "done" /\ ~bad => \E o \in Spills(t) : q[k] = Partial(t, k, o)

\* The elements of the first s chunks.
ElementsOf(t, s) == IF s < ChunkCount(t) THEN ChunkRange(t, s)[1] ELSE t.total

SumOK(t, q, s, r) ==
    /\ s \in 0..ChunkCount(t) /\ r = SumOf(ElementsOf(t, s))
    /\ q = [k \in ChunkIds(t) |-> q[k]]
    /\ \A k \in ChunkIds(t) : \E o \in Spills(t) : q[k] = Partial(t, k, o)

ReduceOK(p, t, x, bad, q, s, r) ==
    /\ p = "chunks" /\ t.kind \notin Loops \cup Searches => PartsOK(t, x, q, bad)
    /\ p = "combine" /\ t.kind \in Sums => SumOK(t, q, s, r)
    /\ p = "combine" /\ t.kind \notin Sums => WidthOK(s) /\ TreeOK(t, q, s)
    /\ p \in {"complete", "return"} /\ t.kind \notin Loops \cup Searches => r \in Results(t)

ReductionsInv ==
    /\ part = [c \in Callers |-> part[c]] /\ step = [c \in Callers |-> step[c]]
    /\ \A c \in Callers :
         ReduceOK(pc[c], task[c], chunk[c], failed[c], part[c], step[c], result[c])

LEMMA ReduceOwn ==
    ASSUME ReductionsInv, NEW c \in Callers,
           Own(pc, pc', c), Own(task, task', c), Own(chunk, chunk', c),
           Own(failed, failed', c), Own(part, part', c), Own(step, step', c),
           Own(result, result', c),
           ReduceOK(pc'[c], task'[c], chunk'[c], failed'[c], part'[c], step'[c], result'[c])
    PROVE  ReductionsInv'
<1>1. ASSUME NEW d \in Callers
      PROVE  ReduceOK(pc'[d], task'[d], chunk'[d], failed'[d], part'[d], step'[d], result'[d])
    <2>1. CASE d = c
        BY <2>1
    <2>2. CASE d # c
        <3>1. /\ pc'[d] = pc[d] /\ task'[d] = task[d] /\ chunk'[d] = chunk[d]
              /\ failed'[d] = failed[d] /\ part'[d] = part[d] /\ step'[d] = step[d]
              /\ result'[d] = result[d]
            BY <2>2 DEF Own
        <3> QED BY <3>1 DEF ReductionsInv
    <2> QED BY <2>1, <2>2
<1> QED BY <1>1 DEF ReductionsInv, Own

\* Kinds of calls.
LEMMA KindsAre ==
    ASSUME NEW t, t.kind \in Kinds
    PROVE  /\ t.kind \notin Loops \cup Searches \cup Sums => t.kind \in CanonicalSums
           /\ t.kind \in algorithm_hot_dispatch_family => t.kind \in Loops \cup Sums \cup Searches
           /\ t.kind \notin Canonical => t.kind \in Loops \cup Sums \cup Searches
           /\ t.kind \in Sums => t.kind \notin CanonicalSums /\ t.kind \notin Loops \cup Searches
BY DEF Kinds, Loops, Searches, Predicates, Sums, Canonical, CanonicalSums,
       algorithm_hot_dispatch_family

\* Zeros leave no trace.
LEMMA FinishIgnoresZero ==
    ASSUME NEW S, NEW T, S \ {"zero"} = T \ {"zero"}
    PROVE  /\ finish_compensated(S) = finish_compensated(T)
           /\ finish_scaled_sumsq(S) = finish_scaled_sumsq(T)
<1>1. \A x \in {"nan", "inf", "+inf", "-inf", "finite"} : x \in S <=> x \in T
    <2>1. \A x : x # "zero" => (x \in S <=> x \in T)
        OBVIOUS
    <2> QED BY <2>1
<1>2. {"+inf", "-inf"} \subseteq S <=> {"+inf", "-inf"} \subseteq T
    BY <1>1
<1>3. S \cap {"nan", "inf"} = {} <=> T \cap {"nan", "inf"} = {}
    BY <1>1
<1> QED BY <1>1, <1>2, <1>3 DEF finish_compensated, finish_scaled_sumsq

\* The reference results of a reduction.
LEMMA ResultsAre ==
    ASSUME NEW t
    PROVE  LET all == SeenIn(t, <<0, t.total>>)
           IN  /\ t.kind \notin {"compensated", "scaled"} => Results(t) = {Expected(t)}
               /\ \A x : t.kind = "compensated" /\ all \cup {t.init} \subseteq x
                         /\ x \subseteq all \cup {t.init} \cup t.overflows =>
                           finish_compensated(x) \in Results(t)
               /\ \A x : t.kind = "scaled" /\ Sees(t, <<0, t.total>>, x) =>
                         finish_scaled_sumsq(x) \in Results(t)
<1> DEFINE all == {t.input[i] : i \in Indices(t)}
           seen == SeenIn(t, <<0, t.total>>)
           A == {finish_compensated(all \cup {t.init} \cup o) : o \in SUBSET t.overflows}
           B == {finish_scaled_sumsq(all \cup o) : o \in SUBSET t.overflows}
<1>1. Results(t) = CASE t.kind = "compensated" -> A
                     [] t.kind = "scaled" -> B
                     [] t.kind \notin {"compensated", "scaled"} -> {Expected(t)}
    BY Zenon DEF Results
<1>2. seen = all \ {"zero"}
    BY DEF SeenIn, Between, Indices
<1> HIDE DEF all, seen
<1>3. ASSUME NEW x, (all \ {"zero"}) \cup {t.init} \subseteq x,
             x \subseteq (all \ {"zero"}) \cup {t.init} \cup t.overflows
      PROVE  finish_compensated(x) \in A
    <2> DEFINE o == x \cap t.overflows
    <2>1. (all \cup {t.init} \cup o) \ {"zero"} = x \ {"zero"}
        BY <1>3
    <2>2. o \in SUBSET t.overflows
        OBVIOUS
    <2> HIDE DEF o
    <2>3. finish_compensated(x) = finish_compensated(all \cup {t.init} \cup o)
        BY <2>1, FinishIgnoresZero
    <2> QED BY <2>2, <2>3
<1>4. ASSUME NEW x, all \ {"zero"} \subseteq x, x \subseteq (all \ {"zero"}) \cup t.overflows
      PROVE  finish_scaled_sumsq(x) \in B
    <2> DEFINE o == x \cap t.overflows
    <2>1. (all \cup o) \ {"zero"} = x \ {"zero"}
        BY <1>4
    <2>2. o \in SUBSET t.overflows
        OBVIOUS
    <2> HIDE DEF o
    <2>3. finish_scaled_sumsq(x) = finish_scaled_sumsq(all \cup o)
        BY <2>1, FinishIgnoresZero
    <2> QED BY <2>2, <2>3
<1> HIDE DEF A, B
<1>5. /\ t.kind = "compensated" => Results(t) = A
      /\ t.kind = "scaled" => Results(t) = B
      /\ t.kind \notin {"compensated", "scaled"} => Results(t) = {Expected(t)}
    BY <1>1
<1>6. ASSUME NEW x, t.kind = "compensated", seen \cup {t.init} \subseteq x,
             x \subseteq seen \cup {t.init} \cup t.overflows
      PROVE  finish_compensated(x) \in Results(t)
    BY <1>2, <1>3, <1>5, <1>6
<1>7. ASSUME NEW x, t.kind = "scaled", Sees(t, <<0, t.total>>, x)
      PROVE  finish_scaled_sumsq(x) \in Results(t)
    <2>1. seen \subseteq x /\ x \subseteq seen \cup t.overflows
        BY <1>7 DEF Sees, seen
    <2> QED BY <1>2, <1>4, <1>5, <1>7, <2>1
<1> QED BY <1>5, <1>6, <1>7 DEF seen

\* The tree that is expected.
LEMMA ExpectedTree ==
    ASSUME NEW t, t.total \in Nat \ {0}, t.kind = "pairwise"
    PROVE  Expected(t) = <<"init", [range |-> <<0, t.total>>, pairs |-> CanonicalPairs(t)]>>
<1> DEFINE D == <<"init", [range |-> <<0, t.total>>, pairs |-> CanonicalPairs(t)]>>
<1>1. Expected(t) =
        CASE t.total = 0 -> Empty(t)
          [] t.total > 0 /\ t.kind \in Loops \cup Sums \cup Searches -> Sequentially(t)
          [] t.total > 0 /\ t.kind = "pairwise" -> D
    BY Zenon DEF Expected
<1>2. t.kind \notin Loops \cup Sums \cup Searches
    BY DEF Loops, Sums, Searches, Predicates
<1>3. t.total # 0 /\ t.total > 0
    OBVIOUS
<1> HIDE DEF D
<1>4. Expected(t) = D
    BY <1>1, <1>2, <1>3
<1> QED BY <1>4 DEF D

\* An empty range has the result of its definition.
LEMMA EmptyIs ==
    ASSUME NEW t, t.kind \in Kinds, t.total = 0
    PROVE  Empty(t) \in Results(t)
<1> DEFINE r == <<0, t.total>>
<1>1. SeenIn(t, r) = {}
    BY DEF SeenIn, Between
<1>2. CASE t.kind = "compensated"
    <2>1. Empty(t) = finish_compensated({t.init})
        BY <1>2 DEF Empty, Loops, Searches, Predicates, Sums
    <2>2. SeenIn(t, r) \cup {t.init} \subseteq {t.init}
        BY <1>1
    <2>3. {t.init} \subseteq SeenIn(t, r) \cup {t.init} \cup t.overflows
        OBVIOUS
    <2> QED BY <1>2, <2>1, <2>2, <2>3, ResultsAre
<1>3. CASE t.kind = "scaled"
    <2>1. Empty(t) = "zero" /\ finish_scaled_sumsq({}) = "zero"
        BY <1>3 DEF Empty, Loops, Searches, Predicates, Sums, finish_scaled_sumsq
    <2>2. Sees(t, r, {})
        BY <1>1 DEF Sees
    <2> QED BY <1>3, <2>1, <2>2, ResultsAre
<1>4. CASE t.kind \notin {"compensated", "scaled"}
    <2>1. Expected(t) = Empty(t)
        BY DEF Expected
    <2> QED BY <1>4, <2>1, ResultsAre
<1> QED BY <1>2, <1>3, <1>4

\* That of a reduction without a tree.
LEMMA SequentialSum ==
    ASSUME NEW t, t.kind \in Sums
    PROVE  Sequentially(t) = <<"init">> \o Ascending(<<0, t.total>>)
<1> DEFINE A == [i \in Indices(t) |-> 1]
           B == <<"init">> \o Ascending(<<0, t.total>>)
           C == \E i \in Indices(t) : t.input[i]
           D == \A i \in Indices(t) : t.input[i]
           E == \A i \in Indices(t) : ~t.input[i]
           F == CHOOSE n \in 0..t.total :
                  /\ \A i \in 0..(n - 1) : ~t.input[i]
                  /\ n < t.total => t.input[n]
<1>1. Sequentially(t) =
        CASE t.kind \in Loops    -> A
          [] t.kind \in Sums     -> B
          [] t.kind = "any_of"   -> C
          [] t.kind = "all_of"   -> D
          [] t.kind = "none_of"  -> E
          [] t.kind = "find_if"  -> F
    BY Zenon DEF Sequentially
<1>2. t.kind \notin Loops /\ t.kind \notin {"any_of", "all_of", "none_of", "find_if"}
    BY DEF Sums, Loops
<1> HIDE DEF A, B, C, D, E, F
<1>3. Sequentially(t) = B
    BY <1>1, <1>2
<1> QED BY <1>3 DEF B

\* The steps of a search.
LEMMA SearchReduce ==
    ASSUME ResultsInv, ReductionsInv, NEW c \in Callers,
           StartSearch(c) \/ Look(c) \/ StoreHit(c) \/ LoadBest(c) \/ SwapBest(c)
    PROVE  ReductionsInv'
<1>1. pc[c] = "chunks" /\ OnlyLocal(c) /\ UNCHANGED part
    BY DEF StartSearch, Look, StoreHit, LoadBest, SwapBest
<1>2. task[c].kind \in Searches
    <2>1. CASE StartSearch(c) \/ StoreHit(c) \/ LoadBest(c)
        BY <2>1 DEF StartSearch, StoreHit, LoadBest, Searches
    <2>2. CASE Look(c) \/ SwapBest(c)
        <3>1. \E k \in DOMAIN chunk[c] : chunk[c][k].at \in {"look", "swap"}
            BY <2>2 DEF Look, SwapBest
        <3>2. /\ chunk[c] = [l \in ChunkIds(task[c]) |-> chunk[c][l]]
              /\ task[c].kind \notin Searches => LoopOK(task[c], chunk[c], visits[c], failed[c])
            BY <1>1 DEF ResultsInv, CallOK
        <3> QED BY <3>1, <3>2 DEF LoopOK
    <2> QED BY <2>1, <2>2
<1>3. \E y : chunk' = [chunk EXCEPT ![c] = y]
    BY DEF StartSearch, Look, StoreHit, LoadBest, SwapBest
<1>4. Own(chunk, chunk', c)
    BY <1>3, OwnExcept DEF ResultsInv
<1>5. Own(failed, failed', c)
    <2>1. UNCHANGED failed \/ failed' = [failed EXCEPT ![c] = TRUE]
        BY DEF StartSearch, Look, StoreHit, LoadBest, SwapBest
    <2> QED BY <2>1, OwnSame, OwnExcept DEF ResultsInv
<1>6. /\ Own(pc, pc', c) /\ Own(task, task', c) /\ Own(result, result', c)
      /\ Own(part, part', c) /\ Own(step, step', c)
      /\ pc'[c] = pc[c] /\ task'[c] = task[c]
    BY <1>1, OwnSame DEF ResultsInv, ReductionsInv, OnlyLocal
<1>7. ReduceOK(pc'[c], task'[c], chunk'[c], failed'[c], part'[c], step'[c], result'[c])
    BY <1>1, <1>2, <1>6 DEF ReduceOK
<1> QED BY <1>4, <1>5, <1>6, <1>7, ReduceOwn

LEMMA RunChunkReduce ==
    ASSUME ResultsInv, ReductionsInv, NEW c \in Callers, RunChunk(c)
    PROVE  ReductionsInv'
<1> DEFINE t == task[c]
<1>1. PICK k \in DOMAIN chunk[c] :
        /\ pc[c] = "chunks" /\ t.kind \notin Searches
        /\ chunk' = [chunk EXCEPT ![c][k].at = "done"]
        /\ \/ /\ \E o \in Spills(t) : part' = [part EXCEPT ![c][k] = Partial(t, k, o)]
              /\ UNCHANGED failed
           \/ failed' = [failed EXCEPT ![c] = TRUE] /\ UNCHANGED part
        /\ UNCHANGED <<pc, task, step, result>>
    BY DEF RunChunk, OnlyLocal
<1> DEFINE x == chunk[c]
           z == [x EXCEPT ![k].at = "done"]
<1>2. x = [l \in ChunkIds(t) |-> x[l]]
    BY <1>1 DEF ResultsInv, CallOK
<1>3. k \in ChunkIds(t) /\ \A l \in ChunkIds(t) \ {k} : z[l] = x[l]
    BY <1>2
<1>4. Own(chunk, chunk', c) /\ chunk'[c] = z
    <2>1. chunk' = [chunk EXCEPT ![c] = z]
        BY <1>1
    <2> HIDE DEF z
    <2> QED BY <2>1, OwnExcept DEF ResultsInv
<1> HIDE DEF z
<1>5. /\ Own(pc, pc', c) /\ Own(task, task', c) /\ Own(result, result', c)
      /\ Own(step, step', c) /\ pc'[c] = "chunks" /\ task'[c] = t
    BY <1>1, OwnSame DEF ResultsInv, ReductionsInv
<1>6. CASE /\ \E o \in Spills(t) : part' = [part EXCEPT ![c][k] = Partial(t, k, o)]
           /\ UNCHANGED failed
    <2>0. PICK o \in Spills(t) : part' = [part EXCEPT ![c][k] = Partial(t, k, o)]
        BY <1>6
    <2> DEFINE q == part[c]
               u == [q EXCEPT ![k] = Partial(t, k, o)]
    <2>1. Own(part, part', c) /\ part'[c] = u
        <3>1. part' = [part EXCEPT ![c] = u]
            BY <2>0
        <3> HIDE DEF u
        <3> QED BY <3>1, OwnExcept DEF ReductionsInv
    <2>2. Own(failed, failed', c) /\ failed'[c] = failed[c]
        BY <1>6, OwnSame DEF ResultsInv
    <2>3. ASSUME t.kind \notin Loops \cup Searches
          PROVE  PartsOK(t, z, u, failed[c])
        <3>1. PartsOK(t, x, q, failed[c])
            BY <1>1, <2>3 DEF ReductionsInv, ReduceOK
        <3>2. /\ u = [l \in ChunkIds(t) |-> u[l]] /\ u[k] = Partial(t, k, o)
              /\ \A l \in ChunkIds(t) \ {k} : u[l] = q[l]
            BY <1>3, <3>1 DEF PartsOK
        <3> HIDE DEF u
        <3> QED BY <1>3, <3>1, <3>2 DEF PartsOK
    <2> HIDE DEF u
    <2>4. ReduceOK(pc'[c], task'[c], chunk'[c], failed'[c], part'[c], step'[c], result'[c])
        BY <1>4, <1>5, <2>1, <2>2, <2>3 DEF ReduceOK
    <2> QED BY <1>4, <1>5, <2>1, <2>2, <2>4, ReduceOwn
<1>7. CASE failed' = [failed EXCEPT ![c] = TRUE] /\ UNCHANGED part
    <2>1. Own(failed, failed', c) /\ failed'[c] = TRUE
        BY <1>7, OwnExcept DEF ResultsInv
    <2>2. Own(part, part', c) /\ part'[c] = part[c]
        BY <1>7, OwnSame DEF ReductionsInv
    <2>3. t.kind \notin Loops \cup Searches => PartsOK(t, z, part[c], TRUE)
        BY <1>1 DEF PartsOK, ReductionsInv, ReduceOK
    <2>4. ReduceOK(pc'[c], task'[c], chunk'[c], failed'[c], part'[c], step'[c], result'[c])
        BY <1>4, <1>5, <2>1, <2>2, <2>3 DEF ReduceOK
    <2> QED BY <1>4, <1>5, <2>1, <2>2, <2>4, ReduceOwn
<1> QED BY <1>1, <1>6, <1>7

LEMMA StartChunksReduce ==
    ASSUME ResultsInv, ReductionsInv, NEW c \in Callers, StartChunks(c)
    PROVE  ReductionsInv'
<1> DEFINE t == task[c]
           x == [k \in ChunkIds(t) |-> NoChunk]
           q == [k \in ChunkIds(t) |-> <<>>]
<1>1. /\ UNCHANGED <<task, failed, step, result>>
      /\ pc' = [pc EXCEPT ![c] = "chunks"]
      /\ chunk' = [chunk EXCEPT ![c] = x]
      /\ part' = [part EXCEPT ![c] = q]
    BY DEF StartChunks
<1>2. PartsOK(t, x, q, failed[c])
    <2>1. \A k \in ChunkIds(t) : x[k].at # "done"
        BY DEF NoChunk
    <2>2. q = [k \in ChunkIds(t) |-> q[k]]
        OBVIOUS
    <2> HIDE DEF x, q
    <2> QED BY <2>1, <2>2 DEF PartsOK
<1> HIDE DEF x, q
<1>3. /\ Own(pc, pc', c) /\ pc'[c] = "chunks"
      /\ Own(chunk, chunk', c) /\ chunk'[c] = x
      /\ Own(part, part', c) /\ part'[c] = q
    BY <1>1, OwnExcept DEF ResultsInv, ReductionsInv
<1>4. /\ Own(task, task', c) /\ Own(failed, failed', c) /\ Own(result, result', c)
      /\ Own(step, step', c) /\ task'[c] = t /\ failed'[c] = failed[c]
    BY <1>1, OwnSame DEF ResultsInv, ReductionsInv
<1>5. ReduceOK(pc'[c], task'[c], chunk'[c], failed'[c], part'[c], step'[c], result'[c])
    BY <1>2, <1>3, <1>4 DEF ReduceOK
<1> QED BY <1>3, <1>4, <1>5, ReduceOwn

\* c goes on with a result that it has, or without one.
LEMMA MovesReduce ==
    ASSUME ResultsInv, ReductionsInv, NEW c \in Callers,
           UNCHANGED <<task, chunk, failed, part, step>>,
           NEW p, pc' = [pc EXCEPT ![c] = p], p \notin {"chunks", "combine"},
           Own(result, result', c),
           p \in {"complete", "return"} /\ task[c].kind \notin Loops \cup Searches =>
             result'[c] \in Results(task[c])
    PROVE  ReductionsInv'
<1>1. Own(pc, pc', c) /\ pc'[c] = p
    BY OwnExcept DEF ResultsInv
<1>2. /\ Own(task, task', c) /\ Own(chunk, chunk', c) /\ Own(failed, failed', c)
      /\ Own(part, part', c) /\ Own(step, step', c) /\ task'[c] = task[c]
    BY OwnSame DEF ResultsInv, ReductionsInv
<1>3. ReduceOK(pc'[c], task'[c], chunk'[c], failed'[c], part'[c], step'[c], result'[c])
    BY <1>1, <1>2 DEF ReduceOK
<1> QED BY <1>1, <1>2, <1>3, ReduceOwn

LEMMA QuietReduce ==
    ASSUME ResultsInv, ReductionsInv, NEW c \in Callers,
           Select(c) \/ Complete(c) \/ JoinFailed(c) \/ Join(c)
    PROVE  ReductionsInv'
<1>1. UNCHANGED <<task, chunk, failed, part, step>>
    BY DEF Select, Complete, JoinFailed, Join
<1>2. CASE Select(c)
    <2>1. PICK p \in {"sequential", "scheduled"} : pc' = [pc EXCEPT ![c] = p]
        BY <1>2 DEF Select
    <2>2. Own(result, result', c)
        BY <1>2, OwnSame DEF Select, ResultsInv
    <2> QED BY <1>1, <2>1, <2>2, MovesReduce
<1>3. CASE Complete(c)
    <2>1. /\ pc' = [pc EXCEPT ![c] = "return"] /\ UNCHANGED result
          /\ task[c].kind \notin Loops \cup Searches => result[c] \in Results(task[c])
        BY <1>3 DEF Complete, ReductionsInv, ReduceOK
    <2>2. Own(result, result', c)
        BY <2>1, OwnSame DEF ResultsInv
    <2>3. PICK p : p = "return" /\ pc' = [pc EXCEPT ![c] = p]
        BY <2>1
    <2>4. /\ p \notin {"chunks", "combine"}
          /\ p \in {"complete", "return"} /\ task[c].kind \notin Loops \cup Searches =>
               result'[c] \in Results(task[c])
        BY <2>1, <2>3
    <2> QED BY <1>1, <2>2, <2>3, <2>4, MovesReduce
<1>4. CASE JoinFailed(c)
    <2>1. pc' = [pc EXCEPT ![c] = "cancel"] /\ UNCHANGED result
        BY <1>4 DEF JoinFailed
    <2>2. Own(result, result', c)
        BY <2>1, OwnSame DEF ResultsInv
    <2>3. PICK p : /\ p \notin {"chunks", "combine", "complete", "return"}
                   /\ pc' = [pc EXCEPT ![c] = p]
        BY <2>1
    <2> QED BY <1>1, <2>2, <2>3, MovesReduce
<1>5. CASE Join(c)
    <2>1. /\ pc' = [pc EXCEPT ![c] = AfterWork(c)] /\ task[c].kind \in Loops \cup Searches
          /\ \E r : result' = [result EXCEPT ![c] = r]
        BY <1>5 DEF Join
    <2>2. Own(result, result', c)
        BY <2>1, OwnExcept DEF ResultsInv
    <2>3. AfterWork(c) \notin {"chunks", "combine"}
        BY DEF AfterWork
    <2> QED BY <1>1, <2>1, <2>2, <2>3, MovesReduce
<1> QED BY <1>2, <1>3, <1>4, <1>5

LEMMA RunsWholeReduce ==
    ASSUME ResultsInv, ReductionsInv, NEW c \in Callers, RunSequential(c) \/ RunDirect(c)
    PROVE  ReductionsInv'
<1> DEFINE t == task[c]
<1>1. RunsWhole(c) /\ UNCHANGED <<task, chunk, failed, part, step>>
    BY DEF RunSequential, RunDirect, RunsWhole
<1>2. TaskOK(t) /\ t.kind \in Loops \cup Sums \cup Searches
    <2>1. CASE RunSequential(c)
        <3>1. TaskOK(t) /\ t.kind \in algorithm_hot_dispatch_family
            BY <2>1 DEF RunSequential, ResultsInv, CallOK
        <3> QED BY <3>1, KindsAre DEF TaskOK
    <2>2. CASE RunDirect(c)
        <3>1. TaskOK(t) /\ t.kind \notin Canonical
            BY <2>2 DEF RunDirect, ResultsInv, CallOK
        <3> QED BY <3>1, KindsAre DEF TaskOK
    <2> QED BY <2>1, <2>2
<1>3. CASE /\ result' = [result EXCEPT ![c] = Sequentially(t)]
           /\ pc' = [pc EXCEPT ![c] = AfterWork(c)]
    <2>1. Own(result, result', c) /\ result'[c] = Sequentially(t)
        BY <1>3, OwnExcept DEF ResultsInv
    <2>2. Sequentially(t) \in Results(t)
        <3>1. Sequentially(t) = Expected(t)
            BY <1>2, ExpectedIs DEF TaskOK
        <3>2. t.kind \notin {"compensated", "scaled"}
            BY <1>2 DEF Loops, Sums, Searches, Predicates
        <3> QED BY <3>1, <3>2, ResultsAre
    <2>3. AfterWork(c) \notin {"chunks", "combine"}
        BY DEF AfterWork
    <2> QED BY <1>1, <1>3, <2>1, <2>2, <2>3, MovesReduce
<1>4. CASE pc' = [pc EXCEPT ![c] = "cancel"] /\ UNCHANGED result
    <2>1. Own(result, result', c)
        BY <1>4, OwnSame DEF ResultsInv
    <2>2. PICK p : /\ p \notin {"chunks", "combine", "complete", "return"}
                   /\ pc' = [pc EXCEPT ![c] = p]
        BY <1>4
    <2> QED BY <1>1, <2>1, <2>2, MovesReduce
<1> QED BY <1>1, <1>3, <1>4 DEF RunsWhole

LEMMA BeginReduce ==
    ASSUME ResultsInv, ReductionsInv, NEW c \in Callers, Begin(c)
    PROVE  ReductionsInv'
<1>1. PICK t, p, r : Begins(c, t, p, r)
    BY BeginIs
<1>2. UNCHANGED <<chunk, failed, part, step>>
    BY DEF Begin
<1>3. /\ Own(task, task', c) /\ task'[c] = t
      /\ Own(result, result', c) /\ result'[c] = r
      /\ Own(pc, pc', c) /\ pc'[c] = p
    BY <1>1, OwnExcept DEF ResultsInv, Begins
<1>4. /\ Own(chunk, chunk', c) /\ Own(failed, failed', c) /\ Own(part, part', c)
      /\ Own(step, step', c)
    BY <1>2, OwnSame DEF ResultsInv, ReductionsInv
<1>5. t.total \in Nat /\ t.kind \in Kinds
    BY <1>1, ScenarioAssumption DEF ResultsInv, Begins
<1>6. ReduceOK(pc'[c], task'[c], chunk'[c], failed'[c], part'[c], step'[c], result'[c])
    <2>1. CASE t.total = 0
        <3>1. p = "return" /\ r = Empty(t)
            BY <1>1, <2>1 DEF Begins
        <3>2. Empty(t) \in Results(t)
            BY <1>5, <2>1, EmptyIs
        <3> QED BY <1>3, <3>1, <3>2 DEF ReduceOK
    <2>2. CASE t.total # 0
        <3>1. p \in {"select", "scheduled"}
            BY <1>1, <1>5, <2>2 DEF Begins
        <3> QED BY <1>3, <3>1 DEF ReduceOK
    <2> QED BY <2>1, <2>2
<1> QED BY <1>3, <1>4, <1>6, ReduceOwn

LEMMA ForgottenReduce ==
    ASSUME ResultsInv, ReductionsInv, NEW c \in Callers, Forgotten(c)
    PROVE  ReductionsInv'
<1>1. /\ Own(pc, pc', c) /\ pc'[c] = "idle"
      /\ Own(task, task', c) /\ Own(chunk, chunk', c) /\ Own(failed, failed', c)
      /\ Own(part, part', c) /\ Own(step, step', c) /\ Own(result, result', c)
    BY OwnExcept DEF ResultsInv, ReductionsInv, Forgotten
<1>2. ReduceOK(pc'[c], task'[c], chunk'[c], failed'[c], part'[c], step'[c], result'[c])
    BY <1>1 DEF ReduceOK
<1> QED BY <1>1, <1>2, ReduceOwn

\* The partial results are there, and none of them is combined.
LEMMA JoinPartsReduce ==
    ASSUME ResultsInv, ReductionsInv, NEW c \in Callers, JoinParts(c)
    PROVE  ReductionsInv'
<1> DEFINE t == task[c]
           s == IF t.kind \in Sums THEN 0 ELSE 1
           r == <<"init">>
<1>1. /\ pc[c] = "chunks" /\ ~failed[c] /\ t.kind \notin Loops \cup Searches
      /\ \A k \in DOMAIN chunk[c] : chunk[c][k].at = "done"
      /\ pc' = [pc EXCEPT ![c] = "combine"]
      /\ result' = [result EXCEPT ![c] = r]
      /\ step' = [step EXCEPT ![c] = s]
      /\ UNCHANGED <<task, chunk, failed, part>>
    BY DEF JoinParts
<1>2. /\ TaskOK(t) /\ chunk[c] = [k \in ChunkIds(t) |-> chunk[c][k]]
    BY <1>1 DEF ResultsInv, CallOK
<1>3. PartsOK(t, chunk[c], part[c], failed[c])
    BY <1>1 DEF ReductionsInv, ReduceOK
<1>4. /\ part[c] = [k \in ChunkIds(t) |-> part[c][k]]
      /\ \A k \in ChunkIds(t) : \E o \in Spills(t) : part[c][k] = Partial(t, k, o)
    BY <1>1, <1>2, <1>3 DEF PartsOK
<1>5. ASSUME t.kind \in Sums
      PROVE  SumOK(t, part[c], s, r)
    <2>1. /\ ChunkCount(t) \in Nat \ {0} /\ ChunkRange(t, 0)[1] = 0
        BY <1>2, ChunksFollow
    <2>2. ElementsOf(t, 0) = 0
        BY <2>1 DEF ElementsOf
    <2>3. r = SumOf(0)
        BY SumStarts
    <2> HIDE DEF r
    <2> QED BY <1>4, <1>5, <2>1, <2>2, <2>3 DEF SumOK
<1>6. ASSUME t.kind \notin Sums
      PROVE  WidthOK(s) /\ TreeOK(t, part[c], s)
    <2>1. s = 1
        BY <1>6
    <2>2. WidthOK(1)
        BY DEF WidthOK, PowerOfTwo
    <2>3. t.kind \in CanonicalSums
        BY <1>1, <1>2, <1>6, KindsAre DEF TaskOK
    <2>4. TreeOK(t, part[c], 1)
        <3> DEFINE q == part[c]
        <3>1. /\ q = [k \in ChunkIds(t) |-> q[k]]
              /\ \A k \in ChunkIds(t) : \E o \in Spills(t) : q[k] = Partial(t, k, o)
            BY <1>4
        <3> HIDE DEF q, t
        <3> QED BY <1>2, <2>3, <3>1, TreeStart DEF q
    <2> QED BY <2>1, <2>2, <2>4
<1> HIDE DEF r, s
<1>7. /\ Own(pc, pc', c) /\ pc'[c] = "combine"
      /\ Own(result, result', c) /\ result'[c] = r
      /\ Own(step, step', c) /\ step'[c] = s
    BY <1>1, OwnExcept DEF ResultsInv, ReductionsInv
<1>8. /\ Own(task, task', c) /\ Own(chunk, chunk', c) /\ Own(failed, failed', c)
      /\ Own(part, part', c) /\ task'[c] = t /\ part'[c] = part[c]
    BY <1>1, OwnSame DEF ResultsInv, ReductionsInv
<1>9. ReduceOK(pc'[c], task'[c], chunk'[c], failed'[c], part'[c], step'[c], result'[c])
    BY <1>5, <1>6, <1>7, <1>8 DEF ReduceOK
<1> QED BY <1>7, <1>8, <1>9, ReduceOwn

\* The operation throws.
LEMMA ThrowsReduce ==
    ASSUME ResultsInv, ReductionsInv, NEW c \in Callers, CombineThrows(c), OnlyCombining(c)
    PROVE  ReductionsInv'
<1>1. /\ UNCHANGED <<task, chunk, failed, part, step, result>>
      /\ pc' = [pc EXCEPT ![c] = "cancel"]
    BY DEF CombineThrows, OnlyCombining
<1>2. Own(result, result', c)
    BY <1>1, OwnSame DEF ResultsInv
<1>3. PICK p : /\ p \notin {"chunks", "combine", "complete", "return"}
               /\ pc' = [pc EXCEPT ![c] = p]
    BY <1>1
<1> QED BY <1>1, <1>2, <1>3, MovesReduce

LEMMA AccumulateReduce ==
    ASSUME ResultsInv, ReductionsInv, NEW c \in Callers, Accumulate(c)
    PROVE  ReductionsInv'
<1> DEFINE t == task[c]
           q == part[c]
           s == step[c]
           r == result[c] \o q[s]
<1>1. pc[c] = "combine" /\ t.kind \in Sums /\ s < ChunkCount(t) /\ OnlyCombining(c)
    BY DEF Accumulate
<1>2. CASE CombineThrows(c)
    BY <1>1, <1>2, ThrowsReduce
<1>3. CASE /\ result' = [result EXCEPT ![c] = r]
           /\ step' = [step EXCEPT ![c] = s + 1]
           /\ UNCHANGED <<pc, part>>
    <2>1. TaskOK(t) /\ t.kind \notin CanonicalSums
        BY <1>1, KindsAre DEF ResultsInv, CallOK, TaskOK
    <2>2. SumOK(t, q, s, result[c])
        BY <1>1 DEF ReductionsInv, ReduceOK
    <2> DEFINE n == ChunkCount(t)
               a == ChunkRange(t, s)[1]
               b == ChunkRange(t, s)[2]
    <2>3. n \in Nat \ {0} /\ s \in Nat /\ s \in ChunkIds(t) /\ s + 1 \in 0..n
        BY <1>1, <2>1, <2>2, ChunksFollow DEF SumOK
    <2>4. a \in Nat /\ b \in Nat /\ a <= b
        BY <2>1, <2>3, ChunkFacts
    <2>5. result[c] = SumOf(a)
        BY <1>1, <2>2 DEF SumOK, ElementsOf
    <2>6. q[s] = Ascending(<<a, b>>)
        <3>1. PICK o \in Spills(t) : q[s] = Partial(t, s, o)
            BY <2>2, <2>3 DEF SumOK
        <3>2. Partial(t, s, o) = Ascending(ChunkRange(t, s))
            BY <2>1 DEF Partial, CanonicalSums
        <3>3. Ascending(ChunkRange(t, s)) = Ascending(<<a, b>>)
            BY DEF Ascending
        <3> QED BY <3>1, <3>2, <3>3
    <2>7. ElementsOf(t, s + 1) = b
        <3>1. CASE s + 1 < n
            <4>1. ChunkRange(t, s)[2] = ChunkRange(t, s + 1)[1]
                BY <2>1, <2>3, <3>1, ChunksFollow
            <4> QED BY <3>1, <4>1 DEF ElementsOf
        <3>2. CASE s + 1 = n
            <4>1. s = n - 1 /\ ~(s + 1 < n)
                BY <2>3, <3>2
            <4>2. ChunkRange(t, n - 1)[2] = t.total
                BY <2>1, ChunksFollow
            <4> QED BY <4>1, <4>2 DEF ElementsOf
        <3> QED BY <2>3, <3>1, <3>2
    <2>8. r = SumOf(b)
        <3> HIDE DEF a, b
        <3> QED BY <2>4, <2>5, <2>6, SumGrows
    <2>9. SumOK(t, q, s + 1, r)
        <3> HIDE DEF r, a, b, n
        <3> QED BY <2>2, <2>3, <2>7, <2>8 DEF SumOK, n
    <2> HIDE DEF r
    <2>10. /\ Own(result, result', c) /\ result'[c] = r
           /\ Own(step, step', c) /\ step'[c] = s + 1
        BY <1>3, OwnExcept DEF ResultsInv, ReductionsInv
    <2>11. /\ Own(pc, pc', c) /\ Own(part, part', c) /\ Own(task, task', c)
           /\ Own(chunk, chunk', c) /\ Own(failed, failed', c)
           /\ pc'[c] = "combine" /\ part'[c] = q /\ task'[c] = t
        BY <1>1, <1>3, OwnSame DEF ResultsInv, ReductionsInv, OnlyCombining
    <2>12. ReduceOK(pc'[c], task'[c], chunk'[c], failed'[c], part'[c], step'[c], result'[c])
        BY <1>1, <2>9, <2>10, <2>11 DEF ReduceOK
    <2> QED BY <2>10, <2>11, <2>12, ReduceOwn
<1> QED BY <1>2, <1>3 DEF Accumulate

LEMMA MergePassReduce ==
    ASSUME ResultsInv, ReductionsInv, NEW c \in Callers, MergePass(c)
    PROVE  ReductionsInv'
<1> DEFINE t == task[c]
           q == part[c]
           s == step[c]
<1>1. pc[c] = "combine" /\ t.kind \notin Sums /\ s < ChunkCount(t) /\ OnlyCombining(c)
    BY DEF MergePass
<1>2. CASE CombineThrows(c)
    BY <1>1, <1>2, ThrowsReduce
<1>3. ASSUME NEW spill \in [ChunkIds(t) -> Spills(t)],
             part' = [part EXCEPT ![c] = Merged(t.kind, q, s, spill)],
             step' = [step EXCEPT ![c] = 2 * s],
             UNCHANGED <<pc, result>>
      PROVE  ReductionsInv'
    <2> DEFINE z == Merged(t.kind, q, s, spill)
    <2>1. TaskOK(t) /\ t.kind \in CanonicalSums
        BY <1>1, KindsAre DEF ResultsInv, CallOK, TaskOK
    <2>2. WidthOK(s) /\ TreeOK(t, q, s)
        BY <1>1 DEF ReductionsInv, ReduceOK
    <2>3. WidthOK(2 * s) /\ TreeOK(t, z, 2 * s)
        BY <1>1, <2>1, <2>2, WidthDoubles, TreeGrows
    <2>30. part' = [part EXCEPT ![c] = z]
        BY <1>3
    <2> HIDE DEF z
    <2>4. /\ Own(part, part', c) /\ part'[c] = z
          /\ Own(step, step', c) /\ step'[c] = 2 * s
        BY <1>3, <2>30, OwnExcept DEF ReductionsInv
    <2>5. /\ Own(pc, pc', c) /\ Own(result, result', c) /\ Own(task, task', c)
          /\ Own(chunk, chunk', c) /\ Own(failed, failed', c)
          /\ pc'[c] = "combine" /\ result'[c] = result[c] /\ task'[c] = t
        BY <1>1, <1>3, OwnSame DEF ResultsInv, OnlyCombining
    <2>6. ReduceOK(pc'[c], task'[c], chunk'[c], failed'[c], part'[c], step'[c], result'[c])
        BY <1>1, <2>2, <2>3, <2>4, <2>5 DEF ReduceOK
    <2> QED BY <2>4, <2>5, <2>6, ReduceOwn
<1> QED BY <1>2, <1>3 DEF MergePass

LEMMA FinishReduce ==
    ASSUME ResultsInv, ReductionsInv, NEW c \in Callers, Finish(c)
    PROVE  ReductionsInv'
<1> DEFINE t == task[c]
           q == part[c]
           s == step[c]
           Last(o) == CASE t.kind \in Sums        -> result[c]
                        [] t.kind = "pairwise"    -> <<"init", q[0]>>
                        [] t.kind = "compensated" ->
                             finish_compensated(Merge(t.kind, {t.init}, q[0], o))
                        [] t.kind = "scaled"      -> finish_scaled_sumsq(Spilled(q[0], o))
<1>1. pc[c] = "combine" /\ s >= ChunkCount(t) /\ OnlyCombining(c)
    BY DEF Finish
<1>2. CASE CombineThrows(c)
    BY <1>1, <1>2, ThrowsReduce
<1>3. ASSUME NEW o \in Spills(t),
             result' = [result EXCEPT ![c] = Last(o)],
             pc' = [pc EXCEPT ![c] = AfterWork(c)],
             UNCHANGED <<part, step>>
      PROVE  ReductionsInv'
    <2> DEFINE r == Last(o)
    <2>1. /\ TaskOK(t) /\ t.total \in Nat \ {0}
          /\ t.kind \in Kinds /\ t.kind \notin Loops \cup Searches
        BY <1>1 DEF ResultsInv, CallOK, TaskOK
    <2>2. ChunkCount(t) \in Nat \ {0}
        BY <2>1, ChunksFollow
    <2>3. ASSUME t.kind \in Sums
          PROVE  r \in Results(t)
        <3>1. SumOK(t, q, s, result[c])
            BY <1>1, <2>3 DEF ReductionsInv, ReduceOK
        <3>2. result[c] = SumOf(t.total)
            BY <1>1, <2>2, <3>1 DEF SumOK, ElementsOf
        <3>3. SumOf(t.total) = <<"init">> \o Ascending(<<0, t.total>>)
            <4>1. 0 \in Nat /\ t.total \in Nat /\ 0 <= t.total
                BY <2>1
            <4>2. SumOf(0) \o Ascending(<<0, t.total>>) = SumOf(t.total)
                BY <4>1, SumGrows, Zenon
            <4> QED BY <4>2, SumStarts, Zenon
        <3>4. Sequentially(t) = <<"init">> \o Ascending(<<0, t.total>>)
            BY <2>1, <2>3, SequentialSum
        <3>5. Expected(t) = Sequentially(t)
            BY <2>1, <2>3, ExpectedIs
        <3>6. r = result[c]
            <4>1. t.kind \notin CanonicalSums
                BY <2>1, <2>3, KindsAre
            <4> QED BY <2>3, <4>1 DEF CanonicalSums
        <3>7. r = Expected(t)
            BY <3>2, <3>3, <3>4, <3>5, <3>6
        <3>8. t.kind \notin {"compensated", "scaled"}
            BY <2>3 DEF Sums
        <3> HIDE DEF r
        <3> QED BY <3>7, <3>8, ResultsAre
    <2>4. ASSUME t.kind \notin Sums
          PROVE  r \in Results(t)
        <3>1. t.kind \in CanonicalSums
            BY <2>1, <2>4, KindsAre
        <3>2. WidthOK(s) /\ TreeOK(t, q, s)
            BY <1>1, <2>4 DEF ReductionsInv, ReduceOK
        <3>3. s \in Nat \ {0}
            BY <3>2 DEF WidthOK
        <3> DEFINE seen == SeenIn(t, <<0, t.total>>)
                   tree == [range |-> <<0, t.total>>, pairs |-> CanonicalPairs(t)]
        <3>4. /\ t.kind = "pairwise" => q[0] = tree
              /\ t.kind # "pairwise" => Sees(t, <<0, t.total>>, q[0])
            BY <1>1, <2>1, <3>1, <3>2, <3>3, TreeEnds
        <3>5. o \subseteq t.overflows
            BY SpillsAre
        <3> DEFINE A == <<"init", q[0]>>
                   y == Merge(t.kind, {t.init}, q[0], o)
                   z == Spilled(q[0], o)
                   B == finish_compensated(y)
                   C == finish_scaled_sumsq(z)
        <3>6. r = CASE t.kind \in Sums        -> result[c]
                    [] t.kind = "pairwise"    -> A
                    [] t.kind = "compensated" -> B
                    [] t.kind = "scaled"      -> C
            OBVIOUS
        <3>7. CASE t.kind = "pairwise"
            <4>1. A = <<"init", tree>> /\ Expected(t) = <<"init", tree>>
                BY <2>1, <3>4, <3>7, ExpectedTree
            <4> HIDE DEF A, B, C, r
            <4>2. r = A
                BY <2>4, <3>6, <3>7
            <4>3. r = Expected(t) /\ t.kind \notin {"compensated", "scaled"}
                BY <3>7, <4>1, <4>2
            <4> QED BY <4>3, ResultsAre
        <3>8. CASE t.kind = "compensated"
            <4>1. seen \subseteq q[0] /\ q[0] \subseteq seen \cup t.overflows
                BY <3>4, <3>8 DEF Sees
            <4>2. y = {t.init} \cup q[0] \/ y = {t.init} \cup q[0] \cup o
                BY <3>8 DEF Merge, Spilled
            <4> HIDE DEF A, B, C, r, seen, y
            <4>3. r = B
                BY <2>4, <3>6, <3>8
            <4>4. seen \cup {t.init} \subseteq y /\ y \subseteq seen \cup {t.init} \cup t.overflows
                BY <3>5, <4>1, <4>2
            <4>5. finish_compensated(y) \in Results(t)
                BY <3>8, <4>4, ResultsAre DEF seen
            <4> QED BY <4>3, <4>5 DEF B
        <3>9. CASE t.kind = "scaled"
            <4>1. seen \subseteq q[0] /\ q[0] \subseteq seen \cup t.overflows
                BY <3>4, <3>9 DEF Sees
            <4>2. z = q[0] \/ z = q[0] \cup o
                BY DEF Spilled
            <4> HIDE DEF A, B, C, r, seen, z
            <4>3. r = C
                BY <2>4, <3>6, <3>9
            <4>4. Sees(t, <<0, t.total>>, z)
                BY <3>5, <4>1, <4>2 DEF Sees, seen
            <4>5. finish_scaled_sumsq(z) \in Results(t)
                BY <3>9, <4>4, ResultsAre
            <4> QED BY <4>3, <4>5 DEF C
        <3> QED BY <3>1, <3>7, <3>8, <3>9 DEF CanonicalSums
    <2>5. r \in Results(t)
        BY <2>3, <2>4
    <2>50. result' = [result EXCEPT ![c] = r]
        BY <1>3
    <2> HIDE DEF r
    <2>6. Own(result, result', c) /\ result'[c] = r
        BY <2>50, OwnExcept DEF ResultsInv
    <2>7. AfterWork(c) \notin {"chunks", "combine"}
        BY DEF AfterWork
    <2> QED BY <1>1, <1>3, <2>5, <2>6, <2>7, MovesReduce DEF OnlyCombining
<1> QED BY <1>2, <1>3 DEF Finish

LEMMA ReductionsStep ==
    ASSUME ResultsInv, ReductionsInv, [Next]_vars
    PROVE  ReductionsInv'
<1>1. CASE UNCHANGED vars \/ ClearDispatch \/ ClearProfiles \/ Terminated
    BY <1>1 DEF ClearDispatch, ClearProfiles, Terminated, ReductionsInv
<1>2. ASSUME NEW c \in Callers, Return(c) \/ Cancel(c)
      PROVE  ReductionsInv'
    BY <1>2, ForgottenReduce DEF Return, Cancel
<1> QED BY <1>1, <1>2, BeginReduce, QuietReduce, RunsWholeReduce, StartChunksReduce,
           RunChunkReduce, SearchReduce, JoinPartsReduce, AccumulateReduce,
           MergePassReduce, FinishReduce DEF Next

\* chunked_transform_reduce combines the chunks' partial results in order, and
\* canonical_merge_tree along the tree that the number of leaves determines,
\* whichever order the chunks ended in; special values are lost in no merge, and
\* none is added but an infinity that finite numbers overflowed to: a reduction
\* that returns has a result of its definition, for any number of callers,
\* elements, workers and chunks and any size of the leaves.
THEOREM ReductionsProved == Spec => []ReductionsExact
<1>1. Init => ReductionsInv
    <2> SUFFICES ASSUME Init PROVE ReductionsInv
        OBVIOUS
    <2>1. \A c \in Callers : pc[c] = "idle"
        BY DEF Init
    <2>2. \A c \in Callers :
            ReduceOK(pc[c], task[c], chunk[c], failed[c], part[c], step[c], result[c])
        BY <2>1 DEF ReduceOK
    <2> QED BY <2>2 DEF Init, ReductionsInv
<1>2. ResultsInv /\ [Next]_vars => ResultsInv'
    BY ResultsStep
<1>3. ResultsInv /\ ReductionsInv /\ [Next]_vars => ReductionsInv'
    BY ReductionsStep
<1>4. ReductionsInv => ReductionsExact
    BY DEF ReductionsInv, ReduceOK, ReductionsExact
<1> QED BY <1>1, <1>2, <1>3, <1>4, ResultsInit, PTL DEF Spec

=============================================================================
