--------------------------- MODULE MCVisionRoutes ---------------------------
(***************************************************************************)
(* TLC instances of VisionRoutes.                                          *)
(***************************************************************************)
EXTENDS VisionRoutes

\* The rotation starts at the second candidate, or at the first if it is alone.
Seeds == [i \in Images |-> 1 % route_count]

ThreadSymmetry == Permutations(Threads)
=============================================================================
