----------------------------- MODULE PermitPool -----------------------------
(***************************************************************************)
(* What the governor promises its callers, without queue, threads or       *)
(* clocks: a pool of permits.  A client asks with a contract, is answered  *)
(* at most once, keeps exactly what it was granted until it gives it back  *)
(* once, and the permits granted never exceed the budget.  Components that *)
(* only depend on these promises are composed with this module.            *)
(***************************************************************************)
EXTENDS Naturals, FiniteSets

CONSTANTS
    Clients,        \* the callers of the pool
    Budget,         \* the permits
    Contracts       \* [least, most]: the grants a client may accept

VARIABLES
    phase,          \* "idle", "asking", "granted", "refused" or "returned"
    contract,       \* the contract of a client that has asked
    held            \* the permits of a client

vars == <<phase, contract, held>>

NoContract == [least |-> 0, most |-> 0]

\* One pair per permit in use.
InUse(h) == {p \in Clients \X (1..Budget) : p[2] <= h[p[1]]}

Init ==
    /\ phase = [c \in Clients |-> "idle"]
    /\ contract = [c \in Clients |-> NoContract]
    /\ held = [c \in Clients |-> 0]

Ask(c, k) ==
    /\ phase[c] = "idle"
    /\ phase' = [phase EXCEPT ![c] = "asking"]
    /\ contract' = [contract EXCEPT ![c] = k]
    /\ UNCHANGED held

\* The grant respects the contract and the permits that are left.
Grant(c, n) ==
    /\ phase[c] = "asking"
    /\ contract[c].least <= n /\ n <= contract[c].most
    /\ Cardinality(InUse(held)) + n <= Budget
    /\ phase' = [phase EXCEPT ![c] = "granted"]
    /\ held' = [held EXCEPT ![c] = n]
    /\ UNCHANGED contract

\* Several waiting clients can lose at once.
Refuse(S) ==
    /\ \A c \in S : phase[c] \in {"idle", "asking"}
    /\ phase' = [c \in Clients |-> IF c \in S THEN "refused" ELSE phase[c]]
    /\ UNCHANGED <<contract, held>>

GiveBack(c) ==
    /\ phase[c] = "granted"
    /\ phase' = [phase EXCEPT ![c] = "returned"]
    /\ held' = [held EXCEPT ![c] = 0]
    /\ UNCHANGED contract

Next ==
    \/ \E c \in Clients :
         \/ \E k \in Contracts : Ask(c, k)
         \/ \E n \in 1..Budget : Grant(c, n)
         \/ GiveBack(c)
    \/ \E S \in SUBSET Clients : Refuse(S)

Spec == Init /\ [][Next]_vars
=============================================================================
