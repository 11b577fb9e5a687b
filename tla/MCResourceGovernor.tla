------------------------ MODULE MCResourceGovernor -------------------------
(***************************************************************************)
(* Instances of ResourceGovernor for TLC: request mixes.                   *)
(***************************************************************************)
EXTENDS ResourceGovernor, TLC

Exact(n, policy, t) ==
    [requested_workers |-> n, minimum_workers |-> n, preferred_workers |-> n,
     maximum_workers |-> n, exact_grant_required |-> TRUE,
     wait_policy |-> policy, has_deadline |-> policy = "WaitUntilDeadline",
     token |-> t]

Flexible(low, n, policy, t) ==
    [requested_workers |-> n, minimum_workers |-> low,
     preferred_workers |-> 0, maximum_workers |-> 0,
     exact_grant_required |-> FALSE, wait_policy |-> policy,
     has_deadline |-> policy = "WaitUntilDeadline", token |-> t]

\* A large request that blocks, small ones that overtake it, flexible ones,
\* deadlines, immediate failures, a shared cancellation token, and requests
\* that are refused: above the budget, zero, inexact, without a deadline.
MixedRequests ==
    {Exact(2, "Wait", t) : t \in Tokens}
    \cup {Exact(1, "Wait", t) : t \in Tokens}
    \cup {Exact(2, "WaitUntilDeadline", NoToken),
          Flexible(1, 3, "FailImmediately", NoToken)}
    \cup {Exact(3, "Wait", NoToken),
          Flexible(0, 0, "Wait", NoToken),
          [Exact(2, "Wait", NoToken) EXCEPT !.minimum_workers = 1],
          [Exact(1, "WaitUntilDeadline", NoToken) EXCEPT !.has_deadline = FALSE]}

\* Large requests that block and small ones that may overtake them.
QueueRequests == {Exact(2, "Wait", NoToken), Exact(1, "Wait", NoToken)}

\* Every way to wait and to be granted, one request at a time.
LeaseRequests ==
    {Exact(2, "Wait", t) : t \in Tokens}
    \cup {Exact(1, "WaitUntilDeadline", NoToken),
          Flexible(1, 3, "FailImmediately", NoToken)}

\* One permit is always taken; a large, a small and an expiring request.
ExpiringRequests ==
    {Exact(1, "Wait", NoToken), Exact(2, "WaitUntilDeadline", NoToken)}

CancellableRequests == {Exact(1, "Wait", t) : t \in Tokens}

CallSymmetry == Permutations(Calls)
=============================================================================
