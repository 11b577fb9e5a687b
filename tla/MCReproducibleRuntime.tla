------------------------ MODULE MCReproducibleRuntime ------------------------
(* Instances of ReproducibleRuntime.                                       *)
EXTENDS ReproducibleRuntime

CONSTANTS a, b, n, m, u, v, candidates, deployed, writer, tool

Pair    == {a, b}
Nested  == {a, b, n, m}
OneLoad == {u}
TwoLoads == {u, v}
SamePair  == [c \in Ops |-> u]
OwnLoads  == [c \in Ops |-> IF c = a THEN v ELSE u]
NoParent == [c \in Ops |-> NoOp]
\* b calls n, and n calls m.
InB      == [c \in Ops |-> CASE c = n -> b [] c = m -> n [] OTHER -> NoOp]

Options(mode, access, path, engine, maximum, policy) ==
    [execution_mode |-> mode, profile_access |-> access, profile_path |-> path,
     engine |-> engine, worker_budget |-> 0, maximum_workers |-> maximum,
     lease_wait_policy |-> policy, lease_timeout |-> 1]

Pool == "ThreadPool"
BuiltEngines == {Pool}
Parallel2 == [engine |-> Pool, parallel |-> TRUE, jobs |-> 2]
Sequential == [engine |-> "auto", parallel |-> FALSE, jobs |-> 1]
SequentialOrParallel == {Sequential, Parallel2}
OnlySequential == {Sequential}
OnlyParallel == {Parallel2}
Review == {<<candidates, deployed>>}

Learned == [NewCandidate EXCEPT !.plan = Parallel2, !.budget = 2, !.samples = 2,
              !.contract = "exact", !.authentic = TRUE, !.calibrated = TRUE]
LearnedAlone == [Learned EXCEPT !.plan.jobs = 1, !.budget = 1]
File(e) == [sound |-> TRUE, entries |-> [k \in Workloads |-> IF k = u THEN e ELSE NoEntry]]
Disk(f, g) == [p \in Paths |-> IF p = candidates THEN f ELSE g]

\* A candidate that was learned with one worker, an approved entry, one
\* approved for another machine, a file written by half.
Disks ==
    {Disk(File(LearnedAlone), File(approved(Learned))),
     Disk([File(Learned) EXCEPT !.sound = FALSE],
          File([approved(Learned) EXCEPT !.fits = FALSE]))}
Deployed == {Disk(File(Learned), File(approved(Learned)))}

AllOptions ==
    {Options("Adaptive", "ReadWrite", "none", "auto", 1, "Wait"),
     Options("Adaptive", "ReadWrite", deployed, "auto", 0, "Wait"),
     Options("Adaptive", "ReadOnly", deployed, "auto", 1, "FailImmediately"),
     Options("Deterministic", "ReadOnly", deployed, "auto", 2, "FailImmediately"),
     Options("Deterministic", "Disabled", "none", Pool, 2, "Wait"),
     [Options("Adaptive", "ReadWrite", candidates, "auto", 1, "WaitUntilDeadline")
        EXCEPT !.lease_timeout = 0]}
LearnThenReplay ==
    {Options("Adaptive", "ReadWrite", deployed, "auto", 2, "FailImmediately"),
     Options("Deterministic", "ReadOnly", deployed, "auto", 2, "FailImmediately")}
Waiting == {Options("Adaptive", "ReadWrite", deployed, "auto", 2, "Wait")}
=============================================================================
