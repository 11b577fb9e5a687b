---------------------------- MODULE MCThreadPool ----------------------------
(***************************************************************************)
(* TLC instances of ThreadPool.                                            *)
(***************************************************************************)
EXTENDS ThreadPool, TLC

CONSTANTS w1, w2, w3, t1, t2, A, B, C, s1

\* The pool threads are interchangeable.
WorkerSymmetry == Permutations(Workers)

\* One thread executes A with up to two helpers; the callback of A for 0
\* executes B, in the same session.  The last chunk of B is a short one.
NestedParent == (A :> NoRegion) @@ (B :> A)
NestedIndex  == (A :> 0) @@ (B :> 0)
OneRoot      == (A :> t1) @@ (B :> t1)
NestedTotals == (A :> 3) @@ (B :> 3)
NestedChunks == (A :> 1) @@ (B :> 2)
WideBudgets  == (A :> 3) @@ (B :> 3)
OneSession   == (A :> s1) @@ (B :> s1)
InnerThrows  == {<<B, 1>>}
BudgetThree  == s1 :> 3

\* Two independent threads: t1 executes A and, in it, B with sessions switched
\* off; t2 executes C in the session of A, which may be exhausted.
PairParent   == (A :> NoRegion) @@ (B :> A) @@ (C :> NoRegion)
PairIndex    == (A :> 0) @@ (B :> 1) @@ (C :> 0)
TwoRoots     == (A :> t1) @@ (B :> t1) @@ (C :> t2)
PairTotals   == (A :> 3) @@ (B :> 2) @@ (C :> 1)
PairChunks   == (A :> 2) @@ (B :> 0) @@ (C :> 1)
PairBudgets  == (A :> 2) @@ (B :> 2) @@ (C :> 2)
PairSessions == (A :> s1) @@ (B :> NoSession) @@ (C :> s1)
BudgetTwo    == s1 :> 2
SomeThrow    == {<<A, 0>>, <<B, 1>>}
=============================================================================
