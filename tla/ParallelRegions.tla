-------------------------- MODULE ParallelRegions --------------------------
(***************************************************************************)
(* What a parallel region promises the code that starts it, without pool,  *)
(* chunks, helpers or leases: the callback is called at most once for      *)
(* every index, a region that returns normally has called it for every     *)
(* index, and no call is still running when the region returns or throws.  *)
(***************************************************************************)
EXTENDS Naturals

CONSTANTS
    Regions,        \* the parallel regions of the program
    Total           \* Total[r]: the number of indices of region r

VARIABLES
    phase,          \* "idle", "running", "returned" or "threw"
    calls,          \* calls[r][i]: how often the callback was called for i
    active          \* active[r]: the indices whose call is running

vars == <<phase, calls, active>>

Indices(r) == 0 .. Total[r] - 1

Init ==
    /\ phase = [r \in Regions |-> "idle"]
    /\ calls = [r \in Regions |-> [i \in Indices(r) |-> 0]]
    /\ active = [r \in Regions |-> {}]

Start(r) ==
    /\ phase[r] = "idle"
    /\ phase' = [phase EXCEPT ![r] = "running"]
    /\ UNCHANGED <<calls, active>>

Begin(r, i) ==
    /\ phase[r] = "running"
    /\ calls[r][i] = 0
    /\ calls' = [calls EXCEPT ![r][i] = 1]
    /\ active' = [active EXCEPT ![r] = @ \cup {i}]
    /\ UNCHANGED phase

End(r, i) ==
    /\ i \in active[r]
    /\ active' = [active EXCEPT ![r] = @ \ {i}]
    /\ UNCHANGED <<phase, calls>>

Return(r) ==
    /\ phase[r] = "running"
    /\ active[r] = {}
    /\ \A i \in Indices(r) : calls[r][i] = 1
    /\ phase' = [phase EXCEPT ![r] = "returned"]
    /\ UNCHANGED <<calls, active>>

Throw(r) ==
    /\ phase[r] = "running"
    /\ active[r] = {}
    /\ phase' = [phase EXCEPT ![r] = "threw"]
    /\ UNCHANGED <<calls, active>>

Next ==
    \E r \in Regions :
        \/ Start(r) \/ Return(r) \/ Throw(r)
        \/ \E i \in Indices(r) : Begin(r, i) \/ End(r, i)

Spec == Init /\ [][Next]_vars
=============================================================================
