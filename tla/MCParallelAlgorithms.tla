------------------------- MODULE MCParallelAlgorithms ------------------------
(***************************************************************************)
(* TLC instance of ParallelAlgorithms.                                     *)
(***************************************************************************)
EXTENDS ParallelAlgorithms, TLC

CONSTANTS c1, c2, c3

\* Calls of one thread, scheduled: all inputs of a size.
Alone(kinds, totals) ==
    [kinds |-> kinds, sites |-> {1}, totals |-> totals, workers |-> {2},
     nested |-> {FALSE}, plans |-> {"chunks"}, large |-> FALSE, hot |-> FALSE,
     throws |-> FALSE, calls |-> 1, resets |-> 0]

\* Calls of three threads that learn which route to take.
Learning(kinds, sites, n, m) ==
    [kinds |-> kinds, sites |-> sites, totals |-> {1}, workers |-> {1},
     nested |-> {FALSE}, plans |-> {"whole"}, large |-> FALSE, hot |-> TRUE,
     throws |-> TRUE, calls |-> n, resets |-> m]

Threads == Permutations(Callers)

SmallScenarios ==
    { Alone(Searches, {0, 6}),
      Alone(Loops \cup Sums \cup {"pairwise"}, 0..11),
      Alone({"compensated", "scaled"}, {0, 3, 5}),
      [Alone({"compensated", "scaled"}, {4}) EXCEPT !.large = TRUE],
      \* Every kind on every route, with callbacks that throw.
      [Alone(Kinds, {3}) EXCEPT !.throws = TRUE, !.workers = {1, 2}, !.hot = TRUE,
                                !.nested = BOOLEAN, !.plans = {"whole", "chunks"}],
      Learning({"copy"}, {1, 2}, 4, 1),
      Learning({"reduce"}, {1}, 7, 0),
      Learning({"any_of"}, {1}, 5, 0) }
=============================================================================
