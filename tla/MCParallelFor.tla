---------------------------- MODULE MCParallelFor ----------------------------
(***************************************************************************)
(* TLC instance of ParallelFor: a set of small scenarios, one chosen by    *)
(* Init, so that each mechanism meets the others without all of them being *)
(* enabled at once.                                                        *)
(***************************************************************************)
EXTENDS ParallelFor, TLC

CONSTANTS la, lb, lc, ld, le, lf, lg, lh, li, lj

\* Root la calls lb for index 1, which calls lc for index 0.  Roots ld and le of
\* two other threads are at its callsite.  Root lf has one iteration,
\* which calls lg.  Root lh calls one callsite for each of its two indices.
TreeParent == [l \in Loops |-> CASE l = lb -> la [] l = lc -> lb [] l = lg -> lf
                                 [] l \in {li, lj} -> lh [] OTHER -> NoLoop]
TreeAt     == [l \in Loops |-> IF l \in {lb, lj} THEN 1 ELSE 0]
TreeSite   == [l \in Loops |-> CASE l = lb -> "B" [] l = lc -> "C" [] l = lf -> "F"
                                 [] l = lg -> "G" [] l = lh -> "H"
                                 [] l \in {li, lj} -> "M" [] OTHER -> "A"]
TreeTotal  == [l \in Loops |-> CASE l = lf -> 1 [] l \in {la, ld, le} -> 3
                                 [] OTHER -> 2]

\* A tree and another thread share a callsite, beside a clear.
Shared ==
    [trace |-> FALSE, frontier |-> TRUE, online |-> TRUE, sampling |-> TRUE,
     ages |-> FALSE, per_worker |-> 2, signals |-> {TRUE}, calibrate |-> FALSE,
     freezes |-> FALSE, roots |-> {la, ld}, grants |-> {2},
     costs |-> {"Below", "Above"}, throwing |-> {},
     calls |-> 2, alone |-> 0, clears |-> 1]

\* n calls of one root, one after the other.
Solo(r, n) == [Shared EXCEPT !.roots = {r}, !.calls = n, !.alone = n, !.clears = 0]

\* Two threads at a callsite that has been called n times.
Pair(n) == [Shared EXCEPT !.roots = {ld, le}, !.per_worker = 1, !.costs = {"Above"},
                          !.calls = n + 2, !.alone = n]

Scenarios ==
    { Shared,
      \* Exceptions at the top and at the bottom of a traced tree.
      [Solo(la, 3) EXCEPT !.trace = TRUE, !.throwing = {<<la, 2>>, <<lc, 0>>}],
      \* Profiling by samples before the decision.
      [Solo(la, 2) EXCEPT !.online = FALSE, !.costs = {"Above"}],
      \* Parallel loops below parallel loops.
      [Solo(la, 3) EXCEPT !.frontier = FALSE, !.costs = {"Above"}],
      \* Concurrent calls of a known callsite, beside a clear ...
      Pair(1),
      \* ... and while backends are compared.
      [Pair(1) EXCEPT !.calibrate = TRUE, !.clears = 0],
      \* Resets and freezes of both caches.
      [Solo(ld, 4) EXCEPT !.costs = {"Above"}, !.calibrate = TRUE,
                         !.freezes = TRUE, !.clears = 1],
      \* No profiling at all; one worker or two.
      [Solo(la, 2) EXCEPT !.online = FALSE, !.sampling = FALSE, !.grants = {1, 2}],
      \* Profiles that age, unreliable signals.
      [Solo(ld, 3) EXCEPT !.ages = TRUE, !.signals = BOOLEAN, !.costs = Costs],
      \* A single iteration with nested work.
      [Solo(lf, 3) EXCEPT !.ages = TRUE],
      \* A loop too short for its workers: the second call of a nested callsite
      \* finds the plan of the first in the session.
      [Solo(lh, 2) EXCEPT !.grants = {3}] }
=============================================================================
