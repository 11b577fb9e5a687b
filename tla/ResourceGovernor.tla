-------------------------- MODULE ResourceGovernor --------------------------
(***************************************************************************)
(* The process-wide CPU permit governor of src/src/resource_governor.cpp.  *)
(*                                                                         *)
(* A call of ResourceGovernor::acquire runs in its own thread and is one   *)
(* element of Calls; it is made at most once, so that a call also stands   *)
(* for its PendingRequest, for the identity of the lease it may return and *)
(* for the LeaseControl that owns the permits.  A thread that acquires     *)
(* twice is two calls.                                                     *)
(*                                                                         *)
(* The governor mutex is explicit.  The admission pass                     *)
(* (grant_waiters_locked) is a loop of small steps taken by the thread     *)
(* that holds the mutex, because cancellation tokens are atomics that      *)
(* other threads set without the mutex, between any two reads of them, and *)
(* because the notification of a cancellation is sent without the mutex.   *)
(*                                                                         *)
(* The deque `pending' is a set ordered by the sequence number that        *)
(* acquire gives a request just before push_back: requests only enter at   *)
(* the back, so the deque is always sorted by that number.                 *)
(***************************************************************************)
EXTENDS Naturals, FiniteSets

CONSTANTS
    Calls,                  \* the calls of ResourceGovernor::acquire
    Tokens,                 \* the CancellationSources
    NoToken,                \* the empty CancellationToken
    NoCall,                 \* the governor mutex is free
    Requests,               \* the LeaseRequests the callers may pass
    cpu_budget,             \* ResourceGovernorOptions::cpu_budget
    bounded_bypass_limit,   \* ResourceGovernorOptions::bounded_bypass_limit
    MaxInherits             \* bound: ExecutionLease::inherit calls per lease

Policies == {"FailImmediately", "Wait", "WaitUntilDeadline"}

(***************************************************************************)
(* LeaseRequest.  has_deadline says that `deadline' is not the default     *)
(* time point; the two identity strings are left out.                      *)
(***************************************************************************)
LeaseRequest ==
    [requested_workers : Nat, minimum_workers : Nat, preferred_workers : Nat,
     maximum_workers : Nat, exact_grant_required : BOOLEAN,
     wait_policy : Policies, has_deadline : BOOLEAN,
     token : Tokens \cup {NoToken}]

\* What the constructor accepts (a positive budget).
ASSUME BudgetAssumption == cpu_budget \in Nat \ {0}
ASSUME BypassAssumption == bounded_bypass_limit \in Nat
ASSUME CallsAssumption == IsFiniteSet(Calls) /\ NoCall \notin Calls
ASSUME TokensAssumption == NoToken \notin Tokens
ASSUME RequestsAssumption == Requests \subseteq LeaseRequest
ASSUME InheritsAssumption == MaxInherits \in Nat

-----------------------------------------------------------------------------
(* Pure parts of the governor.                                             *)

\* The constructor replaces a bypass limit of zero.
BypassLimit == IF bounded_bypass_limit = 0 THEN 1 ELSE bounded_bypass_limit

Larger(m, n) == IF m >= n THEN m ELSE n

\* A default-constructed LeaseRequest.
DefaultRequest ==
    [requested_workers |-> 1, minimum_workers |-> 1, preferred_workers |-> 0,
     maximum_workers |-> 0, exact_grant_required |-> FALSE,
     wait_policy |-> "FailImmediately", has_deadline |-> FALSE,
     token |-> NoToken]

\* acquire fills in the fields left at zero, in this order.
normalise(r) ==
    LET preferred == IF r.preferred_workers = 0 THEN r.requested_workers
                                                ELSE r.preferred_workers
        maximum   == IF r.maximum_workers = 0
                       THEN Larger(r.requested_workers, preferred)
                       ELSE r.maximum_workers
        requested == IF r.requested_workers = 0 THEN preferred
                                                ELSE r.requested_workers
    IN  [r EXCEPT !.preferred_workers = preferred,
                  !.maximum_workers   = maximum,
                  !.requested_workers = requested]

\* The checks of a normalised request that need no state.
invalid_range(r) ==
    \/ r.minimum_workers = 0 \/ r.requested_workers = 0
    \/ r.preferred_workers = 0 \/ r.maximum_workers = 0
    \/ r.minimum_workers > r.requested_workers
    \/ r.minimum_workers > r.preferred_workers
    \/ r.requested_workers > r.maximum_workers
    \/ r.preferred_workers > r.maximum_workers

invalid_exact(r) ==
    /\ r.exact_grant_required
    /\ \/ r.minimum_workers # r.requested_workers
       \/ r.preferred_workers # r.requested_workers
       \/ r.maximum_workers # r.requested_workers

impossible(r) ==
    \/ r.minimum_workers > cpu_budget
    \/ r.exact_grant_required /\ r.requested_workers > cpu_budget

missing_deadline(r) == r.wait_policy = "WaitUntilDeadline" /\ ~r.has_deadline

\* Faulty variants: the grant is not capped by the free permits, or not
\* checked against the minimum.
GrantUncapped(r, available) ==
    IF available >= r.minimum_workers THEN r.requested_workers ELSE 0
GrantBelowMinimum(r, available) ==
    IF r.requested_workers <= available THEN r.requested_workers ELSE available

\* The permits a request may take when `available' are free; 0 is no grant.
grant_for(r, available) ==
    IF r.exact_grant_required
      THEN IF available >= r.requested_workers THEN r.requested_workers ELSE 0
      ELSE LET candidate == IF r.requested_workers <= available
                              THEN r.requested_workers ELSE available
           IN  IF candidate >= r.minimum_workers THEN candidate ELSE 0

-----------------------------------------------------------------------------
VARIABLES
    (* GovernorState, guarded by its mutex *)
    mutex,                  \* the call whose thread holds it, or NoCall
    pending,                \* the requests in the deque
    next_sequence,
    active_permits,
    maximum_active_permits,
    active_leases,
    shutting_down,
    totals,                 \* the total_* counters
    (* PendingRequest, one per call *)
    req,                    \* the request, normalised by acquire
    sequence,
    status,                 \* the flags granted, cancelled and removed
    granted_workers,
    bypass_count,
    reservation_started,
    (* the thread that runs acquire and later owns the lease *)
    pc,
    waited,                 \* it passed the first admission attempt
    cursor,                 \* sequence of the candidate the scan looked at last
    result,                 \* LeaseAcquireStatus, or "none" before the return
    handles,                \* live ExecutionLease objects over the permits
    inherited,              \* inherit calls made on this lease
    (* the clock, as far as a request can see it *)
    aged,                   \* age >= oldest_request_reservation_age
    expired,                \* now >= deadline
    (* CancellationState, one per token *)
    cancel,                 \* "no", "stored" (flag set) or "notified"
    subscribed              \* the governor is in CancellationState::governors

govVars  == <<mutex, pending, next_sequence, active_permits,
              maximum_active_permits, active_leases, shutting_down, totals>>
reqVars  == <<req, sequence, status, granted_workers, bypass_count,
              reservation_started>>
leaseVars == <<handles, inherited>>
timeVars == <<aged, expired>>
tokVars  == <<cancel, subscribed>>
callVars == <<pc, waited, cursor, result>>
vars == <<govVars, reqVars, leaseVars, timeVars, tokVars, callVars>>

\* Places of a thread: those in Locked are inside the governor mutex.
Locked == {"sweep", "oldest", "scan", "admit", "check", "park"}
Asleep == {"parked"}
Places == Locked \cup Asleep
          \cup {"idle", "subscribe", "enter", "woken", "holding",
                "releasing", "done"}

\* queued: none of the flags; the other values: which flag was set with
\* `removed' ("removed": only that one).
Statuses == {"none", "queued", "granted", "cancelled", "removed"}

Results == {"none", "Granted", "ImpossibleRequest", "InvalidRequest",
            "WouldBlock", "DeadlineExpired", "Cancelled",
            "GovernorShuttingDown"}

Counters == {"grants", "releases", "waits", "cancellations", "deadlines",
             "bypasses", "reservations"}

Init ==
    /\ mutex = NoCall
    /\ pending = {}
    /\ next_sequence = 1
    /\ active_permits = 0
    /\ maximum_active_permits = 0
    /\ active_leases = 0
    /\ shutting_down = FALSE
    /\ totals = [k \in Counters |-> 0]
    /\ req = [c \in Calls |-> DefaultRequest]
    /\ sequence = [c \in Calls |-> 0]
    /\ status = [c \in Calls |-> "none"]
    /\ granted_workers = [c \in Calls |-> 0]
    /\ bypass_count = [c \in Calls |-> 0]
    /\ reservation_started = [c \in Calls |-> FALSE]
    /\ pc = [c \in Calls |-> "idle"]
    /\ waited = [c \in Calls |-> FALSE]
    /\ cursor = [c \in Calls |-> 0]
    /\ result = [c \in Calls |-> "none"]
    /\ handles = [c \in Calls |-> 0]
    /\ inherited = [c \in Calls |-> 0]
    /\ aged = [c \in Calls |-> FALSE]
    /\ expired = [c \in Calls |-> FALSE]
    /\ cancel = [t \in Tokens |-> "no"]
    /\ subscribed = [t \in Tokens |-> FALSE]

-----------------------------------------------------------------------------
(* Helpers of the locked code.                                             *)

available_locked ==
    IF cpu_budget > active_permits THEN cpu_budget - active_permits ELSE 0

\* CancellationToken::cancellation_requested; the empty token never is.
TokenCancelled(t) == t # NoToken /\ cancel[t] # "no"
cancellation_requested(c) == TokenCancelled(req[c].token)

\* cv->notify_all(): every thread asleep on the condition variable wakes and
\* competes for the mutex.
NotifyAll(places) ==
    [c \in Calls |-> IF places[c] \in Asleep THEN "woken" ELSE places[c]]

Goto(c, place) == pc' = [pc EXCEPT ![c] = place]

Count(k, n) == totals' = [totals EXCEPT ![k] = @ + n]

\* The deque in order: the front, and the element after the scan's cursor.
IsOldest(o) == o \in pending /\ \A d \in pending : sequence[o] <= sequence[d]
IsNext(d, position) ==
    /\ d \in pending
    /\ sequence[d] > position
    /\ \A e \in pending : sequence[e] > position => sequence[d] <= sequence[e]

\* Faulty variant: a request is cancelled again each time it is found cancelled.
CancelAgain(S) == S

\* cancel_pending_locked sets both flags of a request that has none of them.
CancelPending(S) == {d \in S : status[d] = "queued"}

\* erase_removed, after the calls in `gone' were flagged as removed.
EraseRemoved(gone) == {d \in pending : status[d] = "queued" /\ d \notin gone}

\* grant_one_locked with the erase_removed and notify_all that follow it; the
\* granting thread runs the loop again.
GrantOne(c, d, workers) ==
    /\ status' = [status EXCEPT ![d] = "granted"]
    /\ granted_workers' = [granted_workers EXCEPT ![d] = workers]
    /\ active_permits' = active_permits + workers
    /\ maximum_active_permits' =
           Larger(maximum_active_permits, active_permits + workers)
    /\ active_leases' = active_leases + 1
    /\ pending' = EraseRemoved({d})
    /\ pc' = NotifyAll([pc EXCEPT ![c] = "sweep"])

\* Where the pass returns to: into the first admission test or the wait loop.
AfterPass(c) == IF waited[c] THEN "check" ELSE "admit"

\* acquire returns: the lock guard releases the mutex.
Return(c, outcome) ==
    /\ mutex' = NoCall
    /\ result' = [result EXCEPT ![c] = outcome]
    /\ handles' = [handles EXCEPT ![c] = IF outcome = "Granted" THEN 1 ELSE 0]
    /\ Goto(c, IF outcome = "Granted" THEN "holding" ELSE "done")

-----------------------------------------------------------------------------
(* ResourceGovernor::acquire, from the call to the mutex.                  *)

\* The early returns, in the order of the code; "none" is none of them.
Verdict(q) ==
    IF invalid_range(q) \/ invalid_exact(q) THEN "InvalidRequest"
    ELSE IF impossible(q) THEN "ImpossibleRequest"
    ELSE IF missing_deadline(q) THEN "InvalidRequest"
    ELSE IF TokenCancelled(q.token) THEN "Cancelled"
    ELSE "none"

Acquire(c, r) ==
    /\ pc[c] = "idle"
    /\ req' = [req EXCEPT ![c] = normalise(r)]
    /\ result' = [result EXCEPT ![c] = Verdict(normalise(r))]
    /\ Goto(c, IF Verdict(normalise(r)) = "none" THEN "subscribe" ELSE "done")
    /\ UNCHANGED <<govVars, sequence, status, granted_workers, bypass_count,
                   reservation_started, waited, cursor, leaseVars, timeVars,
                   tokVars>>

\* CancellationToken::subscribe, atomic under the token's own mutex: it lists
\* the governor first and then looks at the flag.
Subscribe(c) ==
    /\ pc[c] = "subscribe"
    /\ LET t == req[c].token IN
         /\ subscribed' = IF t = NoToken THEN subscribed
                          ELSE [subscribed EXCEPT ![t] = TRUE]
         /\ pc' = IF TokenCancelled(t)
                    THEN NotifyAll([pc EXCEPT ![c] = "enter"])
                    ELSE [pc EXCEPT ![c] = "enter"]
    /\ UNCHANGED <<govVars, reqVars, leaseVars, timeVars, cancel, waited,
                   cursor, result>>

\* The mutex is taken; a governor that shuts down admits nobody.
EnterShutDown(c) ==
    /\ pc[c] = "enter" /\ mutex = NoCall
    /\ shutting_down
    /\ result' = [result EXCEPT ![c] = "GovernorShuttingDown"]
    /\ Goto(c, "done")
    /\ UNCHANGED <<govVars, reqVars, leaseVars, timeVars, tokVars, waited,
                   cursor>>

\* ... otherwise the request goes to the back of the deque and a pass starts.
Enter(c) ==
    /\ pc[c] = "enter" /\ mutex = NoCall
    /\ ~shutting_down
    /\ mutex' = c
    /\ sequence' = [sequence EXCEPT ![c] = next_sequence]
    /\ next_sequence' = next_sequence + 1
    /\ status' = [status EXCEPT ![c] = "queued"]
    /\ pending' = pending \cup {c}
    /\ Goto(c, "sweep")
    /\ UNCHANGED <<active_permits, maximum_active_permits, active_leases,
                   shutting_down, totals, req, granted_workers, bypass_count,
                   reservation_started, leaseVars, timeVars, tokVars, waited,
                   cursor, result>>

-----------------------------------------------------------------------------
(* grant_waiters_locked.                                                   *)

\* remove_cancelled_locked.  The flags of all pending requests are read in one
\* step; a flag set later is seen by the scan or by the next sweep.
Sweep(c) ==
    /\ pc[c] = "sweep"
    /\ LET gone == CancelPending({d \in pending : cancellation_requested(d)})
       IN  /\ status' = [d \in Calls |-> IF d \in gone THEN "cancelled"
                                                       ELSE status[d]]
           /\ pending' = EraseRemoved(gone)
           /\ Count("cancellations", Cardinality(gone))
    /\ Goto(c, "oldest")
    /\ UNCHANGED <<mutex, next_sequence, active_permits,
                   maximum_active_permits, active_leases, shutting_down, req,
                   sequence, granted_workers, bypass_count,
                   reservation_started, leaseVars, timeVars, tokVars, waited,
                   cursor, result>>

\* Nothing to admit: the pass ends.
PassEnds(c) ==
    /\ pc[c] = "oldest"
    /\ shutting_down \/ pending = {} \/ available_locked = 0
    /\ Goto(c, AfterPass(c))
    /\ UNCHANGED <<govVars, reqVars, leaseVars, timeVars, tokVars, waited,
                   cursor, result>>

\* The oldest request fits: it is granted and the loop runs again.
GrantOldest(c, o) ==
    /\ pc[c] = "oldest"
    /\ ~shutting_down /\ available_locked # 0
    /\ IsOldest(o)
    /\ grant_for(req[o], available_locked) # 0
    /\ GrantOne(c, o, grant_for(req[o], available_locked))
    /\ Count("grants", 1)
    /\ UNCHANGED <<mutex, next_sequence, shutting_down, req, sequence,
                   bypass_count, reservation_started, leaseVars, timeVars,
                   tokVars, waited, cursor, result>>

\* The oldest request does not fit; the code now looks whether to keep the
\* free permits for it.
OldestBlocked(o) ==
    /\ ~shutting_down /\ available_locked # 0
    /\ IsOldest(o)
    /\ grant_for(req[o], available_locked) = 0

\* Faulty variant: the bypass limit is never looked at.
ReserveByAgeOnly(o) == aged[o] \/ reservation_started[o]

MustReserve(o) ==
    aged[o] \/ bypass_count[o] >= BypassLimit \/ reservation_started[o]

\* Faulty variant: the scan goes on although the permits are reserved.
ReserveAndScan(c, o) ==
    /\ pc[c] = "oldest"
    /\ OldestBlocked(o)
    /\ MustReserve(o)
    /\ reservation_started' = [reservation_started EXCEPT ![o] = TRUE]
    /\ Count("reservations", IF reservation_started[o] THEN 0 ELSE 1)
    /\ cursor' = [cursor EXCEPT ![c] = sequence[o]]
    /\ Goto(c, "scan")
    /\ UNCHANGED <<mutex, pending, next_sequence, active_permits,
                   maximum_active_permits, active_leases, shutting_down, req,
                   sequence, status, granted_workers, bypass_count, leaseVars,
                   timeVars, tokVars, waited, result>>

ReserveOldest(c, o) ==
    /\ pc[c] = "oldest"
    /\ OldestBlocked(o)
    /\ MustReserve(o)
    /\ reservation_started' = [reservation_started EXCEPT ![o] = TRUE]
    /\ Count("reservations", IF reservation_started[o] THEN 0 ELSE 1)
    /\ Goto(c, AfterPass(c))
    /\ UNCHANGED <<mutex, pending, next_sequence, active_permits,
                   maximum_active_permits, active_leases, shutting_down, req,
                   sequence, status, granted_workers, bypass_count, leaseVars,
                   timeVars, tokVars, waited, cursor, result>>

\* Faulty variant: the scan starts one place too far.
BeginScanTooFar(c, o) ==
    /\ pc[c] = "oldest"
    /\ OldestBlocked(o)
    /\ ~MustReserve(o)
    /\ cursor' = [cursor EXCEPT ![c] = sequence[o] + 1]
    /\ Goto(c, "scan")
    /\ UNCHANGED <<govVars, reqVars, leaseVars, timeVars, tokVars, waited,
                   result>>

BeginScan(c, o) ==
    /\ pc[c] = "oldest"
    /\ OldestBlocked(o)
    /\ ~MustReserve(o)
    /\ cursor' = [cursor EXCEPT ![c] = sequence[o]]
    /\ Goto(c, "scan")
    /\ UNCHANGED <<govVars, reqVars, leaseVars, timeVars, tokVars, waited,
                   result>>

\* The scan reaches a request whose token was cancelled after the sweep: it is
\* flagged, but stays in the deque until the next erase_removed.
ScanCancels(c, d) ==
    /\ pc[c] = "scan"
    /\ IsNext(d, cursor[c])
    /\ cancellation_requested(d)
    /\ status' = [e \in Calls |-> IF e \in CancelPending({d}) THEN "cancelled"
                                                            ELSE status[e]]
    /\ Count("cancellations", Cardinality(CancelPending({d})))
    /\ cursor' = [cursor EXCEPT ![c] = sequence[d]]
    /\ UNCHANGED <<mutex, pending, next_sequence, active_permits,
                   maximum_active_permits, active_leases, shutting_down, req,
                   sequence, granted_workers, bypass_count,
                   reservation_started, leaseVars, timeVars, tokVars, pc,
                   waited, result>>

ScanSkips(c, d) ==
    /\ pc[c] = "scan"
    /\ IsNext(d, cursor[c])
    /\ ~cancellation_requested(d)
    /\ grant_for(req[d], available_locked) = 0
    /\ cursor' = [cursor EXCEPT ![c] = sequence[d]]
    /\ UNCHANGED <<govVars, reqVars, leaseVars, timeVars, tokVars, pc, waited,
                   result>>

\* A younger request that fits bypasses the oldest one.
ScanGrants(c, d, o) ==
    /\ pc[c] = "scan"
    /\ IsNext(d, cursor[c])
    /\ IsOldest(o)
    /\ ~cancellation_requested(d)
    /\ grant_for(req[d], available_locked) # 0
    /\ GrantOne(c, d, grant_for(req[d], available_locked))
    /\ bypass_count' = [bypass_count EXCEPT ![o] = @ + 1]
    /\ totals' = [totals EXCEPT !["grants"] = @ + 1, !["bypasses"] = @ + 1]
    /\ cursor' = [cursor EXCEPT ![c] = 0]
    /\ UNCHANGED <<mutex, next_sequence, shutting_down, req, sequence,
                   reservation_started, leaseVars, timeVars, tokVars, waited,
                   result>>

ScanEnds(c) ==
    /\ pc[c] = "scan"
    /\ \A d \in pending : sequence[d] <= cursor[c]
    /\ Goto(c, AfterPass(c))
    /\ cursor' = [cursor EXCEPT ![c] = 0]
    /\ UNCHANGED <<govVars, reqVars, leaseVars, timeVars, tokVars, waited,
                   result>>

-----------------------------------------------------------------------------
(* acquire after its first pass.                                           *)

AdmitCancelled(c) ==
    /\ pc[c] = "admit"
    /\ status[c] = "cancelled"
    /\ Return(c, "Cancelled")
    /\ UNCHANGED <<pending, next_sequence, active_permits,
                   maximum_active_permits, active_leases, shutting_down,
                   totals, reqVars, inherited, timeVars, tokVars, waited,
                   cursor>>

AdmitWouldBlock(c) ==
    /\ pc[c] = "admit"
    /\ status[c] = "queued"
    /\ req[c].wait_policy = "FailImmediately"
    /\ status' = [status EXCEPT ![c] = "removed"]
    /\ pending' = EraseRemoved({c})
    /\ Return(c, "WouldBlock")
    /\ UNCHANGED <<next_sequence, active_permits, maximum_active_permits,
                   active_leases, shutting_down, totals, req, sequence,
                   granted_workers, bypass_count, reservation_started,
                   inherited, timeVars, tokVars, waited, cursor>>

AdmitWaits(c) ==
    /\ pc[c] = "admit"
    /\ status[c] = "queued"
    /\ req[c].wait_policy # "FailImmediately"
    /\ Count("waits", 1)
    /\ waited' = [waited EXCEPT ![c] = TRUE]
    /\ Goto(c, "check")
    /\ UNCHANGED <<mutex, pending, next_sequence, active_permits,
                   maximum_active_permits, active_leases, shutting_down,
                   reqVars, leaseVars, timeVars, tokVars, cursor, result>>

\* The request was granted, by this thread or by another one's pass.
ReturnGranted(c) ==
    /\ pc[c] \in {"admit", "check"}
    /\ status[c] = "granted"
    /\ Return(c, "Granted")
    /\ UNCHANGED <<pending, next_sequence, active_permits,
                   maximum_active_permits, active_leases, shutting_down,
                   totals, reqVars, inherited, timeVars, tokVars, waited,
                   cursor>>

-----------------------------------------------------------------------------
(* The wait loop of acquire: three exits, tested in this order, or sleep.  *)

\* Faulty variant: shutdown is tested before the grant.
ShutDownBeatsGrant(c) ==
    /\ pc[c] = "check"
    /\ shutting_down
    /\ status' = [status EXCEPT ![c] = IF @ = "queued" THEN "removed" ELSE @]
    /\ pending' = EraseRemoved({c})
    /\ Return(c, "GovernorShuttingDown")
    /\ UNCHANGED <<next_sequence, active_permits, maximum_active_permits,
                   active_leases, shutting_down, totals, req, sequence,
                   granted_workers, bypass_count, reservation_started,
                   inherited, timeVars, tokVars, waited, cursor>>

CheckShutDown(c) ==
    /\ pc[c] = "check"
    /\ status[c] # "granted"
    /\ shutting_down
    /\ status' = [status EXCEPT ![c] = IF @ = "queued" THEN "removed" ELSE @]
    /\ pending' = EraseRemoved({c})
    /\ Return(c, "GovernorShuttingDown")
    /\ UNCHANGED <<next_sequence, active_permits, maximum_active_permits,
                   active_leases, shutting_down, totals, req, sequence,
                   granted_workers, bypass_count, reservation_started,
                   inherited, timeVars, tokVars, waited, cursor>>

CheckCancelled(c) ==
    /\ pc[c] = "check"
    /\ status[c] # "granted"
    /\ ~shutting_down
    /\ cancellation_requested(c) \/ status[c] = "cancelled"
    /\ status' = [d \in Calls |-> IF d \in CancelPending({c}) THEN "cancelled"
                                                            ELSE status[d]]
    /\ pending' = EraseRemoved({c})
    /\ Count("cancellations", Cardinality(CancelPending({c})))
    /\ Return(c, "Cancelled")
    /\ UNCHANGED <<next_sequence, active_permits, maximum_active_permits,
                   active_leases, shutting_down, req, sequence,
                   granted_workers, bypass_count, reservation_started,
                   inherited, timeVars, tokVars, waited, cursor>>

\* Faulty variant: the expired request stays in the deque.
DeadlineKeepsRequest(c) ==
    /\ pc[c] = "check"
    /\ status[c] = "queued"
    /\ ~shutting_down /\ ~cancellation_requested(c)
    /\ req[c].wait_policy = "WaitUntilDeadline" /\ expired[c]
    /\ Count("deadlines", 1)
    /\ Return(c, "DeadlineExpired")
    /\ UNCHANGED <<pending, next_sequence, active_permits,
                   maximum_active_permits, active_leases, shutting_down,
                   reqVars, inherited, timeVars, tokVars, waited, cursor>>

\* No pass and no notification follow the removal.
CheckDeadline(c) ==
    /\ pc[c] = "check"
    /\ status[c] = "queued"
    /\ ~shutting_down /\ ~cancellation_requested(c)
    /\ req[c].wait_policy = "WaitUntilDeadline" /\ expired[c]
    /\ status' = [status EXCEPT ![c] = "removed"]
    /\ pending' = EraseRemoved({c})
    /\ Count("deadlines", 1)
    /\ Return(c, "DeadlineExpired")
    /\ UNCHANGED <<next_sequence, active_permits, maximum_active_permits,
                   active_leases, shutting_down, req, sequence,
                   granted_workers, bypass_count, reservation_started,
                   inherited, timeVars, tokVars, waited, cursor>>

\* All tests failed: the thread goes to sleep in the next step.  Between the
\* two it holds the mutex, but a token can still be cancelled.
CheckPasses(c) ==
    /\ pc[c] = "check"
    /\ status[c] = "queued"
    /\ ~shutting_down /\ ~cancellation_requested(c)
    /\ ~(req[c].wait_policy = "WaitUntilDeadline" /\ expired[c])
    /\ Goto(c, "park")
    /\ UNCHANGED <<govVars, reqVars, leaseVars, timeVars, tokVars, waited,
                   cursor, result>>

\* cv->wait or cv->wait_until: the mutex is released and the thread listens to
\* notifications from now on.
Park(c) ==
    /\ pc[c] = "park"
    /\ mutex' = NoCall
    /\ Goto(c, "parked")
    /\ UNCHANGED <<pending, next_sequence, active_permits,
                   maximum_active_permits, active_leases, shutting_down,
                   totals, reqVars, leaseVars, timeVars, tokVars, waited,
                   cursor, result>>

\* wait_until returns because its deadline has passed.
TimeoutWake(c) ==
    /\ pc[c] = "parked"
    /\ req[c].wait_policy = "WaitUntilDeadline" /\ expired[c]
    /\ Goto(c, "woken")
    /\ UNCHANGED <<govVars, reqVars, leaseVars, timeVars, tokVars, waited,
                   cursor, result>>

\* A condition variable may wake a thread for no reason.
SpuriousWake(c) ==
    /\ pc[c] = "parked"
    /\ Goto(c, "woken")
    /\ UNCHANGED <<govVars, reqVars, leaseVars, timeVars, tokVars, waited,
                   cursor, result>>

\* The woken thread gets the mutex back and runs a pass.
Relock(c) ==
    /\ pc[c] = "woken" /\ mutex = NoCall
    /\ mutex' = c
    /\ Goto(c, "sweep")
    /\ UNCHANGED <<pending, next_sequence, active_permits,
                   maximum_active_permits, active_leases, shutting_down,
                   totals, reqVars, leaseVars, timeVars, tokVars, waited,
                   cursor, result>>

-----------------------------------------------------------------------------
(* The lease: handles keep the LeaseControl alive, its destructor returns  *)
(* the permits.                                                            *)

\* ExecutionLease::inherit on any live handle: the child keeps its parent, so
\* every handle of the tree keeps the root control alive.
Inherit(c) ==
    /\ pc[c] = "holding"
    /\ inherited[c] < MaxInherits
    /\ handles' = [handles EXCEPT ![c] = @ + 1]
    /\ inherited' = [inherited EXCEPT ![c] = @ + 1]
    /\ UNCHANGED <<govVars, reqVars, timeVars, tokVars, callVars>>

\* Faulty variant: the first destroyed handle releases.
DropFirstReleases(c) ==
    /\ pc[c] = "holding"
    /\ handles' = [handles EXCEPT ![c] = @ - 1]
    /\ Goto(c, "releasing")
    /\ UNCHANGED <<govVars, reqVars, inherited, timeVars, tokVars, waited,
                   cursor, result>>

\* A handle is destroyed, in any order; the last one runs ~LeaseControl.
DropHandle(c) ==
    /\ pc[c] = "holding"
    /\ handles' = [handles EXCEPT ![c] = @ - 1]
    /\ Goto(c, IF handles[c] = 1 THEN "releasing" ELSE "holding")
    /\ UNCHANGED <<govVars, reqVars, inherited, timeVars, tokVars, waited,
                   cursor, result>>

\* Faulty variant: nobody is woken.
ReleaseWithoutNotify(c) ==
    /\ pc[c] = "releasing" /\ mutex = NoCall
    /\ active_permits' = IF active_permits >= granted_workers[c]
                           THEN active_permits - granted_workers[c] ELSE 0
    /\ active_leases' = IF active_leases > 0 THEN active_leases - 1 ELSE 0
    /\ Count("releases", 1)
    /\ Goto(c, "done")
    /\ UNCHANGED <<mutex, pending, next_sequence, maximum_active_permits,
                   shutting_down, reqVars, leaseVars, timeVars, tokVars,
                   waited, cursor, result>>

\* ~LeaseControl: the permits return under the mutex, then everyone is woken.
Release(c) ==
    /\ pc[c] = "releasing" /\ mutex = NoCall
    /\ active_permits' = IF active_permits >= granted_workers[c]
                           THEN active_permits - granted_workers[c] ELSE 0
    /\ active_leases' = IF active_leases > 0 THEN active_leases - 1 ELSE 0
    /\ Count("releases", 1)
    /\ pc' = NotifyAll([pc EXCEPT ![c] = "done"])
    /\ UNCHANGED <<mutex, pending, next_sequence, maximum_active_permits,
                   shutting_down, reqVars, leaseVars, timeVars, tokVars,
                   waited, cursor, result>>

-----------------------------------------------------------------------------
(* The environment of the calls.                                           *)

\* CancellationSource::request_cancellation, first half: the atomic store.
CancelStore(t) ==
    /\ cancel[t] = "no"
    /\ cancel' = [cancel EXCEPT ![t] = "stored"]
    /\ UNCHANGED <<govVars, reqVars, leaseVars, timeVars, subscribed,
                   callVars>>

\* Second half: notify the subscribed governor, without its mutex.
CancelNotify(t) ==
    /\ cancel[t] = "stored"
    /\ cancel' = [cancel EXCEPT ![t] = "notified"]
    /\ pc' = IF subscribed[t] THEN NotifyAll(pc) ELSE pc
    /\ UNCHANGED <<govVars, reqVars, leaseVars, timeVars, subscribed, waited,
                   cursor, result>>

\* ResourceGovernor::request_shutdown (also the destructor).
RequestShutdown ==
    /\ mutex = NoCall
    /\ ~shutting_down
    /\ shutting_down' = TRUE
    /\ pc' = NotifyAll(pc)
    /\ UNCHANGED <<mutex, pending, next_sequence, active_permits,
                   maximum_active_permits, active_leases, totals, reqVars,
                   leaseVars, timeVars, tokVars, waited, cursor, result>>

\* The clock passes the reservation age of a request, or its deadline.  The
\* code reads the age of the oldest request only, and deadlines of queued ones.
AgeOut(c) ==
    /\ IsOldest(c) /\ ~aged[c]
    /\ aged' = [aged EXCEPT ![c] = TRUE]
    /\ UNCHANGED <<govVars, reqVars, leaseVars, expired, tokVars, callVars>>

DeadlineExpires(c) ==
    /\ status[c] = "queued" /\ ~expired[c]
    /\ req[c].wait_policy = "WaitUntilDeadline"
    /\ expired' = [expired EXCEPT ![c] = TRUE]
    /\ UNCHANGED <<govVars, reqVars, leaseVars, aged, tokVars, callVars>>

\* Every call has returned and every lease is gone.
Terminated ==
    /\ \A c \in Calls : pc[c] = "done"
    /\ UNCHANGED vars

-----------------------------------------------------------------------------
\* The steps of the thread that holds the mutex.
LockedStep(c) ==
    \/ Sweep(c) \/ PassEnds(c) \/ ScanEnds(c)
    \/ \E d \in Calls : \/ GrantOldest(c, d) \/ ReserveOldest(c, d)
                        \/ BeginScan(c, d) \/ ScanCancels(c, d)
                        \/ ScanSkips(c, d)
                        \/ \E o \in Calls : ScanGrants(c, d, o)
    \/ AdmitCancelled(c) \/ AdmitWouldBlock(c) \/ AdmitWaits(c)
    \/ ReturnGranted(c)
    \/ CheckShutDown(c) \/ CheckCancelled(c) \/ CheckDeadline(c)
    \/ CheckPasses(c) \/ Park(c)

LeaseStep(c) == Inherit(c) \/ DropHandle(c) \/ Release(c)

CallStep(c) ==
    \/ \E r \in Requests : Acquire(c, r)
    \/ Subscribe(c) \/ EnterShutDown(c) \/ Enter(c)
    \/ LockedStep(c)
    \/ TimeoutWake(c) \/ SpuriousWake(c) \/ Relock(c)
    \/ LeaseStep(c)

EnvironmentStep ==
    \/ \E t \in Tokens : CancelStore(t) \/ CancelNotify(t)
    \/ RequestShutdown
    \/ \E c \in Calls : AgeOut(c) \/ DeadlineExpires(c)

Next ==
    \/ \E c \in Calls : CallStep(c)
    \/ EnvironmentStep
    \/ Terminated

Spec == Init /\ [][Next]_vars

\* Threads run, a thread that keeps asking for a mutex that is free again and
\* again gets it, a cancellation that has begun is delivered, and clocks
\* advance.  Nobody has to call acquire, cancel, shut down or wake spuriously.
ThreadFairness ==
    /\ \A c \in Calls :
         /\ WF_vars(Subscribe(c))
         /\ SF_vars(Enter(c) \/ EnterShutDown(c))
         /\ SF_vars(Relock(c))
         /\ WF_vars(LockedStep(c))
         /\ WF_vars(TimeoutWake(c))
         /\ WF_vars(DeadlineExpires(c))
         /\ SF_vars(Release(c))
    /\ \A t \in Tokens : WF_vars(CancelNotify(t))

\* Operations finish: every handle of a lease is dropped in the end.
HolderFairness == \A c \in Calls : WF_vars(DropHandle(c))

\* Leases may be kept for ever ...
PatientSpec == Spec /\ ThreadFairness
\* ... or their holders finish.
FairSpec == Spec /\ ThreadFairness /\ HolderFairness

-----------------------------------------------------------------------------
(* Properties.                                                             *)

(***************************************************************************)
(* Types; no counter of GovernorState, handle count or bypass count ever   *)
(* underflows.                                                             *)
(***************************************************************************)
TypeOK ==
    /\ mutex \in Calls \cup {NoCall}
    /\ pending \in SUBSET Calls
    /\ next_sequence \in Nat
    /\ active_permits \in Nat
    /\ maximum_active_permits \in Nat
    /\ active_leases \in Nat
    /\ shutting_down \in BOOLEAN
    /\ totals \in [Counters -> Nat]
    /\ req \in [Calls -> LeaseRequest]
    /\ sequence \in [Calls -> Nat]
    /\ status \in [Calls -> Statuses]
    /\ granted_workers \in [Calls -> Nat]
    /\ bypass_count \in [Calls -> Nat]
    /\ reservation_started \in [Calls -> BOOLEAN]
    /\ pc \in [Calls -> Places]
    /\ waited \in [Calls -> BOOLEAN]
    /\ cursor \in [Calls -> Nat]
    /\ result \in [Calls -> Results]
    /\ handles \in [Calls -> Nat]
    /\ inherited \in [Calls -> Nat]
    /\ aged \in [Calls -> BOOLEAN]
    /\ expired \in [Calls -> BOOLEAN]
    /\ cancel \in [Tokens -> {"no", "stored", "notified"}]
    /\ subscribed \in [Tokens -> BOOLEAN]

\* The calls whose grant has not been given back, and their permits, one pair
\* per permit.
Holds(c) == status[c] = "granted" /\ pc[c] # "done"
HeldPermits ==
    {p \in Calls \X (1..cpu_budget) :
        Holds(p[1]) /\ p[2] <= granted_workers[p[1]]}

(***************************************************************************)
(* Permit accounting ("returned exactly once through lease lifetime"): the *)
(* governor's counter is at all times the number of permits of the grants  *)
(* not yet given back, through every race of grant, cancellation, deadline *)
(* and shutdown.                                                           *)
(***************************************************************************)
PermitConservation == active_permits = Cardinality(HeldPermits)

(***************************************************************************)
(* The permits in use never exceed the declared budget, not even in the    *)
(* middle of a pass that grants several waiters.                           *)
(***************************************************************************)
BudgetRespected ==
    /\ active_permits <= maximum_active_permits
    /\ maximum_active_permits <= cpu_budget

(***************************************************************************)
(* Every losing path of acquire leaves nothing behind: a call that         *)
(* returned without a lease was not granted permits and can never be, even *)
(* though its entry may stay in the deque (flagged) until the next erase.  *)
(***************************************************************************)
LosersLeaveNothing ==
    \A c \in Calls : result[c] \notin {"none", "Granted"} =>
        /\ status[c] \notin {"granted", "queued"}
        /\ c \in pending => status[c] = "cancelled"
        /\ handles[c] = 0

(***************************************************************************)
(* Inherited leases keep the root's permits: as long as one handle of the  *)
(* lease tree lives, the grant is still counted by the governor.           *)
(***************************************************************************)
PermitsOutliveHandles ==
    \A c \in Calls : handles[c] > 0 => Holds(c) /\ result[c] = "Granted"

(***************************************************************************)
(* The snapshot counters count every event once, although three places of  *)
(* the code can discover the same cancellation and every pass looks at the *)
(* same reservation.                                                       *)
(***************************************************************************)
CountersBalance ==
    /\ totals["grants"] = Cardinality({c \in Calls : status[c] = "granted"})
    /\ totals["grants"] = totals["releases"] + active_leases
    /\ totals["cancellations"] =
           Cardinality({c \in Calls : status[c] = "cancelled"})
    /\ totals["deadlines"] =
           Cardinality({c \in Calls : result[c] = "DeadlineExpired"})
    /\ totals["reservations"] =
           Cardinality({c \in Calls : reservation_started[c]})
    /\ totals["waits"] = Cardinality({c \in Calls : waited[c]})

(***************************************************************************)
(* Fairness: no request is bypassed more often than the (normalised)       *)
(* limit.                                                                  *)
(***************************************************************************)
BypassBounded == \A c \in Calls : bypass_count[c] <= BypassLimit

\* A step grants permits to d.
GrantStep(d) == status[d] = "queued" /\ status'[d] = "granted"

\* o was queued before d and still waits.
Older(o, d) == o \in pending /\ status[o] = "queued" /\ sequence[o] < sequence[d]

(***************************************************************************)
(* Fairness: once capacity is reserved for the oldest request, no younger  *)
(* request is granted before that one leaves the queue.                    *)
(***************************************************************************)
ReservationProtected ==
    [][\A d, o \in Calls :
          GrantStep(d) /\ Older(o, d) => ~reservation_started[o]]_vars

(***************************************************************************)
(* FIFO base order: a request is only overtaken when it does not fit the   *)
(* permits that are free at that moment.                                   *)
(***************************************************************************)
OnlyBlockedAreOvertaken ==
    [][\A d, o \in Calls :
          GrantStep(d) /\ Older(o, d)
              => grant_for(req[o], available_locked) = 0]_vars

\* A thread that will still run a pass or return.
OnItsWay(c) == pc[c] \in Locked \cup {"woken"}

(***************************************************************************)
(* No lost wakeup that lasts: when all permits are free, no request sleeps *)
(* unless another thread is on its way to run a pass or to leave.          *)
(***************************************************************************)
NoStall ==
    active_permits = 0 /\ (\A c \in Calls : ~OnItsWay(c))
        => \A c \in Calls : pc[c] # "parked"

(***************************************************************************)
(* A request that may wait fits the idle governor, so that waiting for the *)
(* others to finish is enough ("Requests above the permanent governor      *)
(* budget ... never wait indefinitely").                                   *)
(***************************************************************************)
WaitersFitIdleGovernor ==
    \A c \in Calls : c \in pending => grant_for(req[c], cpu_budget) > 0

(***************************************************************************)
(* When holders finish, every call of acquire returns.                     *)
(***************************************************************************)
AcquireReturns ==
    \A c \in Calls : pc[c] = "subscribe" ~> result[c] # "none"

(***************************************************************************)
(* "Cancellation uses direct governor notification": the cancellation of a *)
(* waiting request ends its wait whatever the holders of permits do.       *)
(***************************************************************************)
CancellationEndsWait ==
    \A c \in Calls :
        waited[c] /\ cancellation_requested(c) ~> result[c] # "none"

(***************************************************************************)
(* "Wait: wait until the request can be granted": the oldest request does  *)
(* not sleep on while it fits the free permits, when no other thread is on *)
(* its way to run a pass and no notification is on its way to a sleeper.   *)
(***************************************************************************)
FittingOldestIsAwake ==
    (/\ \A c \in Calls : ~OnItsWay(c)
     /\ \A t \in Tokens : cancel[t] # "stored")
        => \A c \in Calls : pc[c] = "parked" /\ IsOldest(c)
               => grant_for(req[c], available_locked) = 0

-----------------------------------------------------------------------------
(* The governor implements a permit pool: a queued request asks, the pass  *)
(* of whichever thread grants, ~LeaseControl gives back.                   *)

PoolPhase(c) ==
    CASE status[c] = "queued" -> "asking"
      [] status[c] = "granted" -> IF pc[c] = "done" THEN "returned"
                                                    ELSE "granted"
      [] status[c] \in {"cancelled", "removed"} -> "refused"
      [] status[c] = "none" -> IF result[c] = "none" THEN "idle"
                                                     ELSE "refused"

ContractOf(r) == [least |-> r.minimum_workers, most |-> r.requested_workers]

Pool == INSTANCE PermitPool WITH
    Clients   <- Calls,
    Budget    <- cpu_budget,
    Contracts <- {ContractOf(normalise(r)) : r \in Requests},
    phase     <- [c \in Calls |-> PoolPhase(c)],
    contract  <- [c \in Calls |->
                    IF status[c] = "none" THEN [least |-> 0, most |-> 0]
                                          ELSE ContractOf(req[c])],
    held      <- [c \in Calls |-> IF Holds(c) THEN granted_workers[c] ELSE 0]

(***************************************************************************)
(* Refinement: whatever the interleaving of passes, cancellations,         *)
(* deadlines, shutdown and releases, a caller sees a permit pool: at most  *)
(* one answer, a grant within its contract and within what is left, and    *)
(* permits that go back once.                                              *)
(***************************************************************************)
ImplementsPool == Pool!Spec
=============================================================================
