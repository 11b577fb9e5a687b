------------------------- MODULE ReproducibleRuntime -------------------------
(***************************************************************************)
(* A Runtime and its named operations (runtime.cpp, operation.cpp), the    *)
(* profile database they learn into and replay from (profile.cpp), and the *)
(* tools that export, calibrate and approve it.  Operations get their      *)
(* workers from the governor, of which only the promises of PermitPool are *)
(* used.  The process can crash and be started again; files remain.        *)
(*                                                                         *)
(* A hash is modelled by what it hashes (no collisions).  All comparisons  *)
(* of a stored identity (operation, types, extents, environment, versions, *)
(* provider, route, expiry) with the running program are one Boolean,      *)
(* `fits', and so are the recorded checks of route, numerics and result    *)
(* (`authentic').  A file is a database that loads (sound) or does not.    *)
(***************************************************************************)
EXTENDS Naturals, FiniteSets

CONSTANTS
    Ops,                \* calls of named operations, each made at most once
                        \* by a process
    NoOp, NoHash, NoEntry, NoRuntime,
    Workloads,          \* exact workload fingerprints
    Workload,           \* the workload of a call
    Parent,             \* the call in whose callback a call is made, or NoOp
    ForcedRoutes,       \* calls whose route is chosen by the program
    cpu_budget,         \* the permits of the governor
    RuntimeOptions,     \* the options a Runtime may be constructed with
    Engines,            \* the schedulers of this build
    Decisions,          \* the plans the adaptive decision may choose
    Useful,             \* useful_concurrency of a call without a plan
    Writers, Paths,     \* who saves databases, and where
    Exports,            \* where a program exports what it learned
    Calibrations,       \* where the calibration tool publishes
    Approvals,          \* <<from, to>> of smartparallel_profile approve
    OnDisk,             \* the contents of the files at the beginning
    MaxStarts,          \* bound on the starts of the process
    MaxLoads            \* bound on the databases loaded by a process

NoPlan  == [engine |-> "none", parallel |-> FALSE, jobs |-> 0]
NoProfiles == [k \in Workloads |-> NoEntry]
Absent     == [sound |-> FALSE, entries |-> NoProfiles]

\* The engines of every build; a file may name one that this build lacks.
ExecutionEngineType == {"auto", "ThreadPool", "StaticThread", "OneTbb"}

ExecutionPlan ==
    [engine : ExecutionEngineType, parallel : BOOLEAN, jobs : Nat]

\* A ProfileEntry; `source' is the hash of the entry that was approved.
EntryFrom(sources) ==
    [status : {"Candidate", "Approved"}, plan : ExecutionPlan, budget : Nat,
     contract : {"absent", "exact", "loose"}, samples : Nat,
     calibrated : BOOLEAN, authentic : BOOLEAN, fits : BOOLEAN,
     source : sources]
ProfileEntry == EntryFrom({NoHash} \cup EntryFrom({NoHash}))
ProfileDatabase == [Workloads -> ProfileEntry \cup {NoEntry}]

\* The options of a Runtime, of its Config only the engine.
OptionRecord ==
    [execution_mode : {"Adaptive", "Deterministic"},
     profile_access : {"Disabled", "ReadOnly", "ReadWrite"},
     profile_path : Paths \cup {"none"}, engine : ExecutionEngineType,
     worker_budget : Nat, maximum_workers : Nat,
     lease_wait_policy : {"FailImmediately", "Wait", "WaitUntilDeadline"},
     lease_timeout : Nat]

ASSUME OperationAssumption ==
    /\ NoOp \notin Ops \cup Writers
    /\ Ops \cap Writers = {}
    /\ Workload \in [Ops -> Workloads]
    /\ Parent \in [Ops -> Ops \cup {NoOp}]
    /\ ForcedRoutes \subseteq Ops
    /\ cpu_budget \in Nat \ {0}
    /\ RuntimeOptions \subseteq OptionRecord /\ NoRuntime \notin OptionRecord
    /\ Engines \subseteq ExecutionEngineType
    /\ Decisions \subseteq ExecutionPlan /\ Useful \in Nat
    /\ Exports \cup Calibrations \subseteq Paths
    /\ Approvals \subseteq Paths \X Paths
    /\ OnDisk \subseteq [Paths -> [sound : BOOLEAN, entries : ProfileDatabase]]
    /\ NoEntry \notin ProfileEntry

\* Calls are nested, never in a circle: no set of calls contains the calls
\* around all of its members.
ASSUME NestingAssumption ==
    \A S \in SUBSET Ops : (\A c \in S : Parent[c] \in S) => S = {}

AtMost(a, b)  == IF a <= b THEN a ELSE b
AtLeast(a, b) == IF a >= b THEN a ELSE b

-----------------------------------------------------------------------------
(* Runtime options.                                                        *)

\* Both names of the worker ceiling may be given if they agree; 0 means the
\* whole budget of the governor.
ceiling(o) ==
    LET requested == IF o.maximum_workers > 0 THEN o.maximum_workers
                     ELSE o.worker_budget
    IN  IF requested = 0 THEN cpu_budget ELSE requested

normalize_resource_options(o) == [o EXCEPT !.maximum_workers = ceiling(o)]

validate_options(o) ==
    /\ o.worker_budget > 0 /\ o.maximum_workers > 0
          => o.worker_budget = o.maximum_workers
    /\ ceiling(o) <= cpu_budget
    /\ o.profile_access = "ReadOnly" => o.profile_path # "none"
    /\ o.profile_access = "Disabled" => o.profile_path = "none"
    /\ o.execution_mode = "Deterministic" /\ o.profile_access = "Disabled"
          => o.engine # "auto"

-----------------------------------------------------------------------------
(* Profile entries.                                                        *)

\* Faulty variant: any status is good enough for a replay.
CompatibleCandidate(e, o, deterministic) ==
    /\ e.fits /\ e.authentic
    /\ e.budget # 0 /\ e.budget <= o.maximum_workers
    /\ e.plan.parallel => e.plan.engine \in Engines /\ e.plan.jobs = e.budget

\* The entry can be used by a Runtime with these options.  `contract' is
\* "absent" in files of version 1.7, "exact" or "loose".
compatibility(e, o, deterministic) ==
    /\ e.fits /\ e.authentic
    /\ e.budget # 0 /\ e.budget <= o.maximum_workers
    /\ e.plan.parallel => e.plan.engine \in Engines /\ e.plan.jobs = e.budget
    /\ deterministic => e.status = "Approved" /\ e.contract # "loose"

\* A plan for a deterministic Runtime that uses no profiles.
forced_runtime_plan(o) ==
    [engine |-> o.engine, parallel |-> o.maximum_workers > 1,
     jobs |-> o.maximum_workers]

\* What an observed plan is stored as.
observed_plan(plan, granted_workers) ==
    IF ~plan.parallel THEN [engine |-> "auto", parallel |-> FALSE, jobs |-> 1]
    ELSE [plan EXCEPT !.jobs = AtMost(@, granted_workers)]

\* A new Candidate before its first sample.
NewCandidate ==
    [status |-> "Candidate", plan |-> NoPlan, budget |-> 0,
     contract |-> "absent", samples |-> 0, calibrated |-> FALSE,
     authentic |-> FALSE, fits |-> TRUE, source |-> NoHash]

\* The sample a completed call adds to an entry; the status stays.  The call
\* may have left the route, numerics or result without a record of a check.
with_sample(e, plan, granted_workers, checked) ==
    [e EXCEPT !.plan = plan, !.budget = granted_workers, !.contract = "exact",
              !.samples = @ + 1, !.authentic = checked]

\* The checks of smartparallel_profile approve.
validate_evidence(e) ==
    e.status = "Candidate" /\ e.samples >= 2 /\ e.authentic /\ e.calibrated
validate_environment(e) ==
    /\ e.fits /\ e.budget > 0
    /\ e.plan.parallel => e.plan.engine \in Engines
approved(e) ==
    [e EXCEPT !.status = "Approved", !.source = [e EXCEPT !.source = NoHash]]

\* What calibration adds to an entry.
calibrated(e) == [e EXCEPT !.calibrated = TRUE]

\* A file that load_profile_database accepts.
loads(file) == file.sound

-----------------------------------------------------------------------------
VARIABLES
    (* RuntimeState *)
    options,                    \* of the Runtime, or NoRuntime
    profiles,                   \* find_exact of each workload
    profiles_loaded_from_file,
    warm_started_entries,       \* pairs of workload and entry
    profiles_mutex,             \* its holder, or NoOp
    generation,                 \* databases loaded so far
    (* The calls *)
    pc,                         \* where a call is
    exact,                      \* the entry copied by find_exact
    exact_plan,                 \* the plan that is forced on the call
    warm_start,                 \* <<generation, entry>> it was warm-started from
    granted,                    \* the workers it may use
    resource_lease,             \* the call whose lease its context carries
    sample,                     \* <<generation, sample_count>> it recorded
    (* The governor, as PermitPool *)
    phase, contract, held,
    (* Files *)
    files,                      \* the databases under their final names
    temporaries,                \* <<path, entries>> -> is it complete
    saving,                     \* what a writer does: task, step, path, entries
    starts                      \* starts of the process so far

runtimeVars == <<options, profiles, profiles_loaded_from_file,
                 warm_started_entries, generation>>
leaseVars   == <<granted, resource_lease>>
callVars    == <<exact, exact_plan, warm_start, leaseVars, sample>>
poolVars    == <<phase, contract, held>>
diskVars    == <<files, temporaries>>
fileVars    == <<diskVars, saving, starts>>
vars == <<runtimeVars, profiles_mutex, pc, callVars, poolVars, fileVars>>

Governor == INSTANCE PermitPool
    WITH Clients <- Ops, Budget <- cpu_budget,
         Contracts <- [least : 1..cpu_budget, most : 1..cpu_budget]

\* A writer saves once in the life of a process.
Idle == [task |-> "none", step |-> "idle", path |-> "none", entries |-> NoProfiles]
Done == [Idle EXCEPT !.step = "done"]
Never == <<0, NoEntry>>

Init ==
    /\ options = NoRuntime
    /\ profiles = NoProfiles
    /\ profiles_loaded_from_file = FALSE
    /\ warm_started_entries = {}
    /\ profiles_mutex = NoOp
    /\ generation = 0
    /\ pc = [c \in Ops |-> "idle"]
    /\ exact = [c \in Ops |-> NoEntry]
    /\ exact_plan = [c \in Ops |-> NoPlan]
    /\ warm_start = [c \in Ops |-> Never]
    /\ granted = [c \in Ops |-> 0]
    /\ resource_lease = [c \in Ops |-> NoOp]
    /\ sample = [c \in Ops |-> <<0, 0>>]
    /\ Governor!Init
    /\ saving = [w \in Writers |-> Idle]
    /\ files \in OnDisk
    /\ temporaries = << >>
    /\ starts = 0

-----------------------------------------------------------------------------
(* The life of a Runtime.                                                  *)

Construct(o) ==
    /\ options = NoRuntime /\ starts < MaxStarts
    /\ validate_options(o)
    /\ o.profile_path # "none" => loads(files[o.profile_path])
    /\ options' = normalize_resource_options(o)
    /\ profiles' = IF o.profile_path = "none" THEN NoProfiles
                   ELSE files[o.profile_path].entries
    /\ profiles_loaded_from_file' = (o.profile_path # "none")
    /\ generation' = IF o.profile_path = "none" THEN 0 ELSE 1
    /\ starts' = starts + 1
    /\ UNCHANGED <<warm_started_entries, profiles_mutex, pc, callVars, poolVars,
                   diskVars, saving>>

\* Runtime::load_profiles of a running program.
load_profiles(p) ==
    /\ options # NoRuntime /\ options.profile_access # "Disabled"
    /\ generation < MaxLoads
    /\ profiles_mutex = NoOp
    /\ loads(files[p])
    /\ profiles' = files[p].entries
    /\ warm_started_entries' = {}
    /\ profiles_loaded_from_file' = TRUE
    /\ generation' = generation + 1
    /\ UNCHANGED <<options, profiles_mutex, pc, callVars, poolVars, fileVars>>

\* The process ends, at any moment; only files remain.
Crash ==
    /\ options # NoRuntime
    /\ options' = NoRuntime
    /\ profiles' = NoProfiles
    /\ profiles_loaded_from_file' = FALSE
    /\ warm_started_entries' = {}
    /\ profiles_mutex' = NoOp
    /\ generation' = 0
    /\ pc' = [c \in Ops |-> "idle"]
    /\ exact' = [c \in Ops |-> NoEntry]
    /\ exact_plan' = [c \in Ops |-> NoPlan]
    /\ warm_start' = [c \in Ops |-> Never]
    /\ granted' = [c \in Ops |-> 0]
    /\ resource_lease' = [c \in Ops |-> NoOp]
    /\ sample' = [c \in Ops |-> <<0, 0>>]
    /\ phase' = [c \in Ops |-> "idle"]
    /\ contract' = [c \in Ops |-> Governor!NoContract]
    /\ held' = [c \in Ops |-> 0]
    /\ saving' = [w \in Writers |-> Idle]
    /\ UNCHANGED <<diskVars, starts>>

-----------------------------------------------------------------------------
(* A call of a named operation.                                            *)

Deterministic == options.execution_mode = "Deterministic"
Root(c) == Parent[c] = NoOp

\* useful_concurrency, and the workers of a plan that is forced.
requested_workers(plan) ==
    IF plan = NoPlan THEN AtMost(options.maximum_workers, Useful)
    ELSE IF ~plan.parallel THEN 1
    ELSE IF Deterministic THEN AtLeast(1, plan.jobs)
    ELSE AtMost(options.maximum_workers, AtLeast(1, plan.jobs))

\* The workers of a lease; none without one.
lease_control_granted_workers(lease) ==
    IF lease = NoOp THEN 0 ELSE granted[lease]

\* A call of the top level asks the governor and waits for its answer.  A
\* nested one reuses the lease in the context of the call around it, which
\* at every depth is the lease of the outermost call.
admit_resources(c, plan) ==
    LET requested == requested_workers(plan)
        least == IF Deterministic THEN requested ELSE 1
        lease == resource_lease[Parent[c]]
        parent_grant == lease_control_granted_workers(lease)
    IN  \/ /\ Root(c) /\ ~(options.lease_wait_policy = "WaitUntilDeadline"
                           /\ options.lease_timeout = 0)
           /\ Governor!Ask(c, [least |-> least, most |-> requested])
           /\ pc' = [pc EXCEPT ![c] = "admission"]
           /\ UNCHANGED leaseVars
        \/ /\ Root(c) /\ options.lease_wait_policy = "WaitUntilDeadline"
           /\ options.lease_timeout = 0
           /\ pc' = [pc EXCEPT ![c] = "rejected"]
           /\ UNCHANGED <<leaseVars, poolVars>>
        \/ /\ ~Root(c) /\ parent_grant < least
           /\ pc' = [pc EXCEPT ![c] = "rejected"]
           /\ UNCHANGED <<leaseVars, poolVars>>
        \/ /\ ~Root(c) /\ parent_grant >= least
           /\ pc' = [pc EXCEPT ![c] = "running"]
           /\ granted' = [granted EXCEPT ![c] = AtMost(requested, parent_grant)]
           /\ resource_lease' = [resource_lease EXCEPT ![c] = lease]
           /\ UNCHANGED poolVars

\* find_exact copies the entry under the mutex; everything after it uses
\* the copy.
Find(c) ==
    /\ pc[c] = "idle" /\ options # NoRuntime
    /\ ~Root(c) => pc[Parent[c]] = "running"
    /\ profiles_mutex = NoOp
    /\ exact' = [exact EXCEPT ![c] = profiles[Workload[c]]]
    /\ UNCHANGED <<runtimeVars, profiles_mutex, warm_start, sample, fileVars>>

\* Deterministic execution without profiles.
PrepareForced(c) ==
    /\ Find(c)
    /\ Deterministic /\ options.profile_access = "Disabled"
    /\ options.engine \in Engines
    /\ exact_plan' = [exact_plan EXCEPT ![c] = forced_runtime_plan(options)]
    /\ admit_resources(c, forced_runtime_plan(options))

Replayable(e) == e # NoEntry /\ compatibility(e, options, TRUE)

\* Deterministic execution replays the approved plan, or nothing.
PrepareReplay(c) ==
    /\ Find(c)
    /\ Deterministic /\ options.profile_access # "Disabled"
    /\ Replayable(exact'[c])
    /\ exact_plan' = [exact_plan EXCEPT ![c] = exact'[c].plan]
    /\ admit_resources(c, exact'[c].plan)

RejectReplay(c) ==
    /\ Find(c)
    /\ Deterministic
    /\ IF options.profile_access = "Disabled" THEN options.engine \notin Engines
       ELSE ~Replayable(exact'[c])
    /\ pc' = [pc EXCEPT ![c] = "rejected"]
    /\ UNCHANGED <<exact_plan, leaseVars, poolVars>>

WarmCandidate(e) ==
    /\ e # NoEntry /\ profiles_loaded_from_file
    /\ compatibility(e, options, FALSE)

PrepareCold(c) ==
    /\ Find(c)
    /\ ~Deterministic /\ ~WarmCandidate(exact'[c])
    /\ admit_resources(c, NoPlan)
    /\ UNCHANGED exact_plan

\* The mutex is free again before a warm start is tried.
PrepareWarm(c) ==
    /\ Find(c)
    /\ ~Deterministic /\ WarmCandidate(exact'[c])
    /\ pc' = [pc EXCEPT ![c] = "found"]
    /\ UNCHANGED <<exact_plan, leaseVars, poolVars>>

\* Faulty variant: a warm start is not remembered.
Forgotten(c) == warm_started_entries
Remembered(c) == warm_started_entries \cup {<<Workload[c], exact[c]>>}

\* A warm start keeps the mutex until its admission has ended.
WarmStart(c) ==
    /\ pc[c] = "found" /\ profiles_mutex = NoOp
    /\ <<Workload[c], exact[c]>> \notin warm_started_entries
    /\ warm_started_entries' = Remembered(c)
    /\ warm_start' = [warm_start EXCEPT ![c] = <<generation, exact[c]>>]
    /\ exact_plan' = [exact_plan EXCEPT ![c] = exact[c].plan]
    /\ admit_resources(c, exact[c].plan)
    /\ profiles_mutex' = IF pc'[c] = "admission" THEN c ELSE NoOp
    /\ UNCHANGED <<options, profiles, profiles_loaded_from_file, generation,
                   exact, sample, fileVars>>

\* Another call was warm-started from this entry.
StartCold(c) ==
    /\ pc[c] = "found" /\ profiles_mutex = NoOp
    /\ <<Workload[c], exact[c]>> \in warm_started_entries
    /\ admit_resources(c, NoPlan)
    /\ UNCHANGED <<runtimeVars, profiles_mutex, exact, exact_plan, warm_start,
                   sample, fileVars>>

\* The permits fit the contract; an adaptive call fits its plan to them.
Admitted(c) ==
    /\ pc[c] = "admission"
    /\ \E n \in 1..cpu_budget :
         /\ Governor!Grant(c, n)
         /\ granted' = [granted EXCEPT ![c] = n]
         /\ resource_lease' = [resource_lease EXCEPT ![c] = c]
         /\ exact_plan' =
              IF Deterministic \/ exact_plan[c] = NoPlan THEN exact_plan
              ELSE [exact_plan EXCEPT ![c].jobs = n,
                      ![c].parallel = IF n = exact_plan[c].jobs THEN @ ELSE n > 1]
    /\ pc' = [pc EXCEPT ![c] = "running"]
    /\ profiles_mutex' = IF profiles_mutex = c THEN NoOp ELSE profiles_mutex
    /\ UNCHANGED <<runtimeVars, exact, warm_start, sample, fileVars>>

\* The governor would have to wait, or the deadline passes.
Refused(c) ==
    /\ pc[c] = "admission" /\ options.lease_wait_policy # "Wait"
    /\ Governor!Refuse({c})
    /\ pc' = [pc EXCEPT ![c] = "rejected"]
    /\ profiles_mutex' = IF profiles_mutex = c THEN NoOp ELSE profiles_mutex
    /\ UNCHANGED <<runtimeVars, callVars, fileVars>>

CalleesEnded(c) ==
    \A d \in Ops : Parent[d] = c => pc[d] \in {"idle", "rejected", "ended"}

\* Faulty variant: an operation that throws keeps its lease.
ThrowsAway(c) ==
    /\ pc[c] = "running" /\ CalleesEnded(c)
    /\ pc' = [pc EXCEPT ![c] = "ended"]
    /\ UNCHANGED <<runtimeVars, profiles_mutex, callVars, poolVars, fileVars>>

\* The work of the call, or of a callback in it, throws.
Throws(c) ==
    /\ pc[c] = "running" /\ CalleesEnded(c)
    /\ pc' = [pc EXCEPT ![c] = "leaving"]
    /\ UNCHANGED <<runtimeVars, profiles_mutex, callVars, poolVars, fileVars>>

learns(c) ==
    /\ ~Deterministic /\ options.profile_access = "ReadWrite"
    /\ warm_start[c] = Never /\ c \notin ForcedRoutes

\* Faulty variant: the sample is added to the copy taken before the call.
EntryCopied(c) == IF exact[c] = NoEntry THEN NewCandidate ELSE exact[c]
EntryToLearn(c) ==
    IF profiles[Workload[c]] = NoEntry THEN NewCandidate
    ELSE profiles[Workload[c]]

\* complete_semantic_operation finds the entry again, under the mutex, and
\* replaces its plan by the one observed.
complete_semantic_operation(c) ==
    /\ pc[c] = "running" /\ CalleesEnded(c)
    /\ profiles_mutex = NoOp
    /\ \/ ~learns(c) /\ UNCHANGED <<profiles, sample>>
       \/ /\ learns(c)
          /\ \E d \in Decisions, checked \in BOOLEAN :
               LET learned == with_sample(EntryToLearn(c),
                                observed_plan(d, granted[c]), granted[c], checked)
               IN  /\ profiles' = [profiles EXCEPT ![Workload[c]] = learned]
                   /\ sample' = [sample EXCEPT ![c] = <<generation, learned.samples>>]
    /\ pc' = [pc EXCEPT ![c] = "leaving"]
    /\ UNCHANGED <<options, profiles_loaded_from_file, warm_started_entries,
                   generation, profiles_mutex, exact, exact_plan, warm_start,
                   leaseVars, poolVars, fileVars>>

\* The PreparedSemanticOperation is destroyed, and with it the lease.
Leave(c) ==
    /\ pc[c] = "leaving"
    /\ pc' = [pc EXCEPT ![c] = "ended"]
    /\ exact' = [exact EXCEPT ![c] = NoEntry]
    /\ exact_plan' = [exact_plan EXCEPT ![c] = NoPlan]
    /\ granted' = [granted EXCEPT ![c] = 0]
    /\ resource_lease' = [resource_lease EXCEPT ![c] = NoOp]
    /\ IF Root(c) THEN Governor!GiveBack(c) ELSE UNCHANGED poolVars
    /\ UNCHANGED <<runtimeVars, profiles_mutex, warm_start, sample, fileVars>>

-----------------------------------------------------------------------------
(* Saving a database: save_profile_database_atomic and its callers.        *)

\* A path has one designated writer at a time.
Designated(w, p) == \A v \in Writers \ {w} : saving[v].path # p
HasEntries(d) == d # NoProfiles
OnEntries(Op(_), d) ==
    [k \in Workloads |-> IF d[k] = NoEntry THEN NoEntry ELSE Op(d[k])]
AllEntries(Op(_), d) == \A k \in Workloads : d[k] # NoEntry => Op(d[k])

Begin(w, task, p, entries) ==
    /\ saving[w] = Idle /\ Designated(w, p)
    /\ saving' = [saving EXCEPT ![w] =
         [task |-> task, step |-> "create", path |-> p, entries |-> entries]]
Step(w, step) == saving' = [saving EXCEPT ![w].step = step]
Temporary(w) == <<saving[w].path, saving[w].entries>>
WithTemporary(w, complete) ==
    [t \in DOMAIN temporaries \cup {Temporary(w)} |->
        IF t = Temporary(w) THEN complete ELSE temporaries[t]]
WithoutTemporary(w) ==
    [t \in DOMAIN temporaries \ {Temporary(w)} |-> temporaries[t]]
memoryVars == <<runtimeVars, profiles_mutex, pc, callVars, poolVars, starts>>

\* Runtime::save_profiles, by the program or as the first part of the
\* calibration tool's publish.
save_profiles(w, task, p) ==
    /\ options # NoRuntime /\ options.profile_access = "ReadWrite"
    /\ profiles_mutex = NoOp
    /\ Begin(w, task, p, profiles)
    /\ UNCHANGED <<memoryVars, diskVars>>

\* smartparallel_profile approve.
approve(w, from, to) ==
    /\ loads(files[from])
    /\ HasEntries(files[from].entries)
    /\ AllEntries(validate_evidence, files[from].entries)
    /\ AllEntries(validate_environment, files[from].entries)
    /\ Begin(w, "approve", to, OnEntries(approved, files[from].entries))
    /\ UNCHANGED <<memoryVars, diskVars>>

\* Faulty variant: the file is written in place.
CreateInPlace(w) ==
    /\ saving[w].step = "create"
    /\ files' = [files EXCEPT ![saving[w].path].sound = FALSE]
    /\ temporaries' = WithTemporary(w, FALSE)
    /\ Step(w, "write")
    /\ UNCHANGED memoryVars

\* Opening truncates whatever an earlier attempt left.
CreateTemporary(w) ==
    /\ saving[w].step = "create"
    /\ temporaries' = WithTemporary(w, FALSE)
    /\ Step(w, "write")
    /\ UNCHANGED <<memoryVars, files>>

\* What was written is read back, which accepts a complete database only.
WriteTemporary(w) ==
    /\ saving[w].step = "write"
    /\ temporaries' = WithTemporary(w, TRUE)
    /\ Step(w, "rename")
    /\ UNCHANGED <<memoryVars, files>>

RenameTemporary(w) ==
    /\ saving[w].step = "rename"
    /\ files' = [files EXCEPT ![saving[w].path] =
         [sound |-> temporaries[Temporary(w)], entries |-> saving[w].entries]]
    /\ temporaries' = WithoutTemporary(w)
    /\ IF saving[w].task = "calibrate" THEN Step(w, "reload")
       ELSE saving' = [saving EXCEPT ![w] = Done]
    /\ UNCHANGED memoryVars

\* A step of the file system fails; the temporary is removed.
SaveFails(w) ==
    /\ saving[w].step \in {"create", "write", "rename"}
    /\ temporaries' = WithoutTemporary(w)
    /\ saving' = [saving EXCEPT ![w] = Done]
    /\ UNCHANGED <<memoryVars, files>>

\* The second part of publish: the samples' statistics are added to what
\* was saved.
Calibrate(w) ==
    /\ saving[w].step = "reload"
    /\ IF loads(files[saving[w].path]) /\ HasEntries(files[saving[w].path].entries)
         THEN saving' = [saving EXCEPT ![w] =
                [@ EXCEPT !.task = "publish", !.step = "create",
                          !.entries = OnEntries(calibrated, files[saving[w].path].entries)]]
         ELSE saving' = [saving EXCEPT ![w] = Done]
    /\ UNCHANGED <<memoryVars, diskVars>>

-----------------------------------------------------------------------------
Next ==
    \/ \E o \in RuntimeOptions : Construct(o)
    \/ \E p \in Paths : load_profiles(p)
    \/ Crash
    \/ \E c \in Ops :
         \/ PrepareForced(c) \/ PrepareReplay(c) \/ RejectReplay(c)
         \/ PrepareCold(c) \/ PrepareWarm(c) \/ WarmStart(c) \/ StartCold(c)
         \/ Admitted(c) \/ Refused(c)
         \/ Throws(c) \/ complete_semantic_operation(c) \/ Leave(c)
    \/ \E w \in Writers :
         \/ \E p \in Exports : save_profiles(w, "export", p)
         \/ \E p \in Calibrations : save_profiles(w, "calibrate", p)
         \/ \E fromTo \in Approvals : approve(w, fromTo[1], fromTo[2])
         \/ CreateTemporary(w) \/ WriteTemporary(w) \/ RenameTemporary(w)
         \/ SaveFails(w) \/ Calibrate(w)

Spec == Init /\ [][Next]_vars

\* Every thread keeps running, and the governor serves whoever fits: it is
\* shown in ResourceGovernor not to stall.
Fairness ==
    /\ \A c \in Ops :
         /\ WF_vars(PrepareWarm(c) \/ PrepareCold(c))
         /\ WF_vars(WarmStart(c) \/ StartCold(c))
         /\ WF_vars(complete_semantic_operation(c))
         /\ WF_vars(Leave(c))
         /\ SF_vars(Admitted(c))

FairSpec == Spec /\ Fairness

-----------------------------------------------------------------------------
(* Properties.                                                             *)

Active(c) == pc[c] \in {"running", "leaving"}
Replays(c) ==
    /\ Active(c) /\ Deterministic /\ options.profile_access # "Disabled"

Places == {"idle", "found", "admission", "running", "leaving", "ended",
           "rejected"}

\* Every variable keeps its type.
TypeOK ==
    /\ options \in OptionRecord \cup {NoRuntime}
    /\ profiles \in ProfileDatabase /\ profiles_loaded_from_file \in BOOLEAN
    /\ profiles_mutex \in Ops \cup {NoOp} /\ generation \in Nat
    /\ pc \in [Ops -> Places]
    /\ exact \in [Ops -> ProfileEntry \cup {NoEntry}]
    /\ exact_plan \in [Ops -> ExecutionPlan \cup {NoPlan}]
    /\ warm_start \in [Ops -> Nat \X (ProfileEntry \cup {NoEntry})]
    /\ granted \in [Ops -> Nat] /\ resource_lease \in [Ops -> Ops \cup {NoOp}]
    /\ sample \in [Ops -> Nat \X Nat]
    /\ contract \in [Ops -> [least : Nat, most : Nat]]
    /\ held \in [Ops -> Nat]
    /\ files \in [Paths -> [sound : BOOLEAN, entries : ProfileDatabase]]
    /\ saving \in [Writers ->
         [task : {"none", "export", "calibrate", "approve", "publish"},
          step : {"idle", "done", "create", "write", "rename", "reload"},
          path : Paths \cup {"none"}, entries : ProfileDatabase]]
    /\ starts \in Nat

\* Deterministic execution runs the plan of an Approved entry with exactly
\* the workers of that plan, nested or not, or does not run at all; what
\* other calls learn, load or save meanwhile does not reach it.
ReplayIsExact ==
    \A c \in Ops : options # NoRuntime /\ Replays(c) =>
        /\ exact[c].status = "Approved"
        /\ exact_plan[c] = exact[c].plan
        /\ granted[c] = IF exact[c].plan.parallel THEN exact[c].plan.jobs ELSE 1

\* After a load, an entry warm-starts one call: two calls of one workload
\* that both found it do not both run its plan unmeasured.
WarmStartOnce ==
    \A c, d \in Ops :
        /\ warm_start[c] # Never /\ Workload[c] = Workload[d]
        /\ warm_start[c] = warm_start[d]
        => c = d

\* Two calls that learn about one workload at the same time both count: no
\* sample is overwritten by a call that started from an older copy.
NoSampleLost ==
    \A c, d \in Ops :
        /\ sample[c] # <<0, 0>> /\ Workload[c] = Workload[d]
        /\ sample[c] = sample[d]
        => c = d

\* Permits are held by exactly the calls of the top level that run, also
\* when they throw.  A nested call, at any depth, runs on the lease of a call
\* of the top level that is still running, and uses no more workers than the
\* permits held for it.
PermitsFollowCalls ==
    \A c \in Ops :
        /\ held[c] = IF Root(c) /\ Active(c) THEN granted[c] ELSE 0
        /\ Active(c) =>
             /\ resource_lease[c] \in Ops
             /\ Root(resource_lease[c]) /\ Active(resource_lease[c])
             /\ granted[c] <= held[resource_lease[c]]

\* A file that loads never becomes one that does not, whatever fails or
\* crashes while it is replaced.
SavedFilesWhole ==
    [][\A p \in Paths : loads(files[p]) => loads(files'[p])]_vars

\* What candidate-approved.md says of an Approved entry: it is the result of
\* an explicit approval.  The plan that is replayed is the plan reviewed.
ReplayAsReviewed ==
    \A c \in Ops : options # NoRuntime /\ Replays(c) /\ exact[c].source # NoHash =>
        exact_plan[c] = exact[c].source.plan

\* What admission-policies.md says of Wait: a call waits until its request
\* can be granted, and the holders of the permits finish.
AdmissionEnds ==
    \A c \in Ops : (pc[c] = "admission") ~> (pc[c] # "admission")
=============================================================================
