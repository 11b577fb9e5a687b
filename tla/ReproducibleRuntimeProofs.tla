---------------------- MODULE ReproducibleRuntimeProofs ----------------------
(***************************************************************************)
(* Proofs about a Runtime and its named operations: the plan and workers   *)
(* of a deterministic replay, warm starts, learned samples, permits and    *)
(* saved files, for any set of calls, workloads, options, writers and      *)
(* files, and any number of loads and restarts.                            *)
(***************************************************************************)
EXTENDS ReproducibleRuntime, TLAPS

USE OperationAssumption
USE DEF vars, runtimeVars, leaseVars, callVars, poolVars, diskVars, fileVars, memoryVars

-----------------------------------------------------------------------------
(* Types.                                                                  *)

Entry == ProfileEntry \cup {NoEntry}
Plan == ExecutionPlan \cup {NoPlan}

LEMMA PlanTyped ==
    /\ NoPlan \notin ExecutionPlan
    /\ \A p \in Plan : p.jobs \in Nat /\ p.parallel \in BOOLEAN
<1>1. ASSUME NoPlan \in ExecutionPlan PROVE FALSE
    <2>1. NoPlan.engine \in ExecutionEngineType
        BY <1>1 DEF ExecutionPlan
    <2> QED BY <2>1 DEF NoPlan, ExecutionEngineType
<1>2. \A p \in ExecutionPlan : p.jobs \in Nat /\ p.parallel \in BOOLEAN
    BY DEF ExecutionPlan
<1>3. NoPlan.jobs \in Nat /\ NoPlan.parallel \in BOOLEAN
    BY DEF NoPlan
<1> QED BY <1>1, <1>2, <1>3 DEF Plan

\* normalize_resource_options only sets the ceiling.
LEMMA OptionsNormal ==
    ASSUME NEW o \in OptionRecord
    PROVE  /\ normalize_resource_options(o) \in OptionRecord
           /\ normalize_resource_options(o) # NoRuntime
<1>1. ceiling(o) \in Nat
    BY DEF ceiling, OptionRecord
<1>2. normalize_resource_options(o) \in OptionRecord
    BY <1>1 DEF normalize_resource_options, OptionRecord
<1> QED BY <1>2

LEMMA RequestedTyped ==
    ASSUME options \in OptionRecord, NEW plan \in Plan
    PROVE  requested_workers(plan) \in Nat
<1>1. options.maximum_workers \in Nat
    BY DEF OptionRecord
<1>2. plan.jobs \in Nat
    BY PlanTyped
<1> QED BY <1>1, <1>2 DEF requested_workers, AtMost, AtLeast

\* A call leaves the locals and permits of the other calls alone.
Alone(c) ==
    \A d \in Ops \ {c} :
        /\ pc'[d] = pc[d] /\ exact'[d] = exact[d]
        /\ exact_plan'[d] = exact_plan[d] /\ warm_start'[d] = warm_start[d]
        /\ granted'[d] = granted[d] /\ sample'[d] = sample[d]
        /\ resource_lease'[d] = resource_lease[d]
        /\ contract'[d] = contract[d] /\ held'[d] = held[d]

\* The workers a call cannot do without.
Least(plan) == IF Deterministic THEN requested_workers(plan) ELSE 1

\* The three ends of admit_resources: a request, a refusal, or a part of the
\* workers of the enclosing call.
Asked(c, plan) ==
    /\ Root(c) /\ pc' = [pc EXCEPT ![c] = "admission"]
    /\ contract' = [contract EXCEPT ![c] = [least |-> Least(plan),
                                            most |-> requested_workers(plan)]]
    /\ UNCHANGED <<granted, resource_lease, held>>
Denied(c) ==
    /\ pc' = [pc EXCEPT ![c] = "rejected"]
    /\ UNCHANGED <<granted, resource_lease, contract, held>>
Shared(c, n) ==
    /\ ~Root(c) /\ pc' = [pc EXCEPT ![c] = "running"]
    /\ granted' = [granted EXCEPT ![c] = n]
    /\ resource_lease' = [resource_lease EXCEPT ![c] = resource_lease[Parent[c]]]
    /\ n <= lease_control_granted_workers(resource_lease[Parent[c]])
    /\ UNCHANGED <<contract, held>>

LEMMA AdmitOutcomes ==
    ASSUME TypeOK, options # NoRuntime, NEW c \in Ops, NEW plan \in Plan,
           admit_resources(c, plan)
    PROVE  \/ Asked(c, plan)
           \/ Denied(c)
           \/ \E n \in Nat : /\ Shared(c, n)
                             /\ Deterministic => n = requested_workers(plan)
<1> DEFINE r == requested_workers(plan)
           l == resource_lease[Parent[c]]
           g == lease_control_granted_workers(l)
<1>1. r \in Nat
    BY RequestedTyped DEF TypeOK
<1>2. CASE Root(c)
    BY <1>2 DEF admit_resources, Governor!Ask, Asked, Denied, Least
<1>3. ASSUME ~Root(c) PROVE g \in Nat
    <2>1. Parent[c] \in Ops
        BY <1>3 DEF Root
    <2>2. l \in Ops \cup {NoOp}
        BY <2>1 DEF TypeOK
    <2> QED BY <2>2 DEF TypeOK, lease_control_granted_workers
<1> HIDE DEF g
<1>4. CASE ~Root(c) /\ g < Least(plan)
    <2>1. ~(g >= Least(plan))
        <3>1. Least(plan) \in Nat
            BY <1>1 DEF Least
        <3> QED BY <1>3, <1>4, <3>1
    <2> QED BY <1>4, <2>1 DEF admit_resources, Denied, Least, g
<1>5. CASE ~Root(c) /\ ~(g < Least(plan))
    <2>1. g \in Nat
        BY <1>3, <1>5
    <2>2. /\ ~Root(c) /\ pc' = [pc EXCEPT ![c] = "running"]
          /\ granted' = [granted EXCEPT ![c] = AtMost(r, g)]
          /\ resource_lease' = [resource_lease EXCEPT ![c] = l]
          /\ UNCHANGED <<contract, held>> /\ g >= Least(plan)
        BY <1>5 DEF admit_resources, Least, g
    <2>3. AtMost(r, g) \in Nat /\ AtMost(r, g) <= g
        BY <1>1, <2>1 DEF AtMost
    <2>4. Deterministic => AtMost(r, g) = r
        BY <1>1, <2>1, <2>2 DEF AtMost, Least
    <2>5. Shared(c, AtMost(r, g))
        BY <2>2, <2>3 DEF Shared, g
    <2> QED BY <2>3, <2>4, <2>5
<1> QED BY <1>2, <1>4, <1>5

\* What admission may do to the locals of a call.
Answered(c) ==
    \A d \in Ops \ {c} : /\ pc'[d] = pc[d] /\ granted'[d] = granted[d]
                          /\ resource_lease'[d] = resource_lease[d]
                          /\ contract'[d] = contract[d] /\ held'[d] = held[d]

LEMMA AdmitTyped ==
    ASSUME TypeOK, options # NoRuntime, NEW c \in Ops, NEW plan \in Plan,
           admit_resources(c, plan)
    PROVE  /\ pc' \in [Ops -> Places] /\ granted' \in [Ops -> Nat]
           /\ resource_lease' \in [Ops -> Ops \cup {NoOp}]
           /\ contract' \in [Ops -> [least : Nat, most : Nat]]
           /\ held' \in [Ops -> Nat]
           /\ pc'[c] \in {"admission", "rejected", "running"}
           /\ Answered(c)
<1>1. requested_workers(plan) \in Nat /\ Least(plan) \in Nat
    BY RequestedTyped DEF TypeOK, Least
<1>2. [least |-> Least(plan), most |-> requested_workers(plan)]
        \in [least : Nat, most : Nat]
    BY <1>1
<1>3. CASE Asked(c, plan)
    BY <1>2, <1>3 DEF TypeOK, Asked, Places, Answered
<1>4. CASE Denied(c)
    BY <1>4 DEF TypeOK, Denied, Places, Answered
<1>5. ASSUME NEW n \in Nat, Shared(c, n)
      PROVE  /\ pc' \in [Ops -> Places] /\ granted' \in [Ops -> Nat]
             /\ resource_lease' \in [Ops -> Ops \cup {NoOp}]
             /\ contract' \in [Ops -> [least : Nat, most : Nat]]
             /\ held' \in [Ops -> Nat]
             /\ pc'[c] \in {"admission", "rejected", "running"}
             /\ Answered(c)
    <2>1. resource_lease[Parent[c]] \in Ops \cup {NoOp}
        BY <1>5 DEF TypeOK, Shared, Root
    <2> QED BY <1>5, <2>1 DEF TypeOK, Shared, Places, Answered
<1> QED BY <1>3, <1>4, <1>5, AdmitOutcomes

-----------------------------------------------------------------------------
(* What a call does, action by action.                                     *)

CallStep(c) ==
    \/ PrepareForced(c) \/ PrepareReplay(c) \/ RejectReplay(c)
    \/ PrepareCold(c) \/ PrepareWarm(c) \/ WarmStart(c) \/ StartCold(c)
    \/ Admitted(c) \/ Refused(c)
    \/ Throws(c) \/ complete_semantic_operation(c) \/ Leave(c)

WriterStep(w) ==
    \/ \E p \in Exports : save_profiles(w, "export", p)
    \/ \E p \in Calibrations : save_profiles(w, "calibrate", p)
    \/ \E fromTo \in Approvals : approve(w, fromTo[1], fromTo[2])
    \/ CreateTemporary(w) \/ WriteTemporary(w) \/ RenameTemporary(w)
    \/ SaveFails(w) \/ Calibrate(w)

LEMMA NextSteps ==
    ASSUME Next
    PROVE  \/ \E o \in RuntimeOptions : Construct(o)
           \/ \E p \in Paths : load_profiles(p)
           \/ Crash
           \/ \E c \in Ops : CallStep(c)
           \/ \E w \in Writers : WriterStep(w)
BY DEF Next, CallStep, WriterStep

\* The parts of TypeOK about the runtime, the calls and the files.
RuntimeTyped ==
    /\ options \in OptionRecord \cup {NoRuntime}
    /\ profiles \in ProfileDatabase /\ profiles_loaded_from_file \in BOOLEAN
    /\ profiles_mutex \in Ops \cup {NoOp} /\ generation \in Nat
LocalsTyped ==
    /\ exact \in [Ops -> Entry] /\ exact_plan \in [Ops -> Plan]
    /\ warm_start \in [Ops -> Nat \X Entry]
    /\ sample \in [Ops -> Nat \X Nat]
AdmissionTyped ==
    /\ pc \in [Ops -> Places] /\ granted \in [Ops -> Nat]
    /\ resource_lease \in [Ops -> Ops \cup {NoOp}]
    /\ contract \in [Ops -> [least : Nat, most : Nat]]
    /\ held \in [Ops -> Nat]
Saving ==
    [task : {"none", "export", "calibrate", "approve", "publish"},
     step : {"idle", "done", "create", "write", "rename", "reload"},
     path : Paths \cup {"none"}, entries : ProfileDatabase]
File == [sound : BOOLEAN, entries : ProfileDatabase]
FilesTyped ==
    /\ files \in [Paths -> File] /\ saving \in [Writers -> Saving]
    /\ starts \in Nat

LEMMA TypeParts ==
    /\ TypeOK <=> RuntimeTyped /\ LocalsTyped /\ AdmissionTyped /\ FilesTyped
    /\ TypeOK' <=> RuntimeTyped' /\ LocalsTyped' /\ AdmissionTyped' /\ FilesTyped'
<1>1. TypeOK <=> RuntimeTyped /\ LocalsTyped /\ AdmissionTyped /\ FilesTyped
    BY DEF TypeOK, RuntimeTyped, LocalsTyped, AdmissionTyped, FilesTyped,
           Entry, Plan, Saving, File
<1> QED BY <1>1, PTL

\* The entry of a call's workload is copied, and nothing else of what it
\* touches before the admission changes.
LEMMA FindCopies ==
    ASSUME TypeOK, NEW c \in Ops, Find(c)
    PROVE  /\ options \in OptionRecord /\ options # NoRuntime
           /\ exact' \in [Ops -> Entry] /\ exact'[c] = profiles[Workload[c]]
           /\ \A d \in Ops \ {c} : exact'[d] = exact[d]
           /\ exact'[c] \in Entry
<1>1. profiles[Workload[c]] \in Entry
    BY DEF TypeOK, ProfileDatabase, Entry
<1> QED BY <1>1 DEF TypeOK, Find, Entry

LEMMA EntryPlans ==
    ASSUME NEW e \in Entry, e # NoEntry
    PROVE  e \in ProfileEntry /\ e.plan \in ExecutionPlan /\ e.plan \in Plan
BY DEF Entry, ProfileEntry, EntryFrom, Plan

LEMMA ForcedPlanTyped ==
    ASSUME options \in OptionRecord
    PROVE  /\ forced_runtime_plan(options) \in ExecutionPlan
           /\ forced_runtime_plan(options) \in Plan
<1>1. options.engine \in ExecutionEngineType /\ options.maximum_workers \in Nat
    BY DEF OptionRecord
<1>2. forced_runtime_plan(options) \in ExecutionPlan
    BY <1>1 DEF forced_runtime_plan, ExecutionPlan
<1> QED BY <1>2 DEF Plan

\* What the actions of a call have in common.
Local(c) ==
    /\ TypeOK' /\ Alone(c) /\ options # NoRuntime
    /\ UNCHANGED <<options, profiles_loaded_from_file, generation, files,
                   temporaries, saving, starts>>

\* A call that copied its entry and chose a plan, before or after its
\* admission.
LEMMA FoundLocal ==
    ASSUME TypeOK, NEW c \in Ops, Find(c), AdmissionTyped', Answered(c),
           NEW q \in Plan, exact_plan' = [exact_plan EXCEPT ![c] = q]
    PROVE  Local(c)
<1>1. LocalsTyped'
    BY FindCopies, TypeParts DEF LocalsTyped, Find
<1>2. RuntimeTyped' /\ FilesTyped'
    BY TypeParts DEF Find, RuntimeTyped, FilesTyped
<1>3. Alone(c)
    <2>1. \A d \in Ops \ {c} : exact_plan'[d] = exact_plan[d]
        BY TypeParts DEF LocalsTyped
    <2> QED BY <2>1, FindCopies DEF Alone, Find, Answered
<1>4. TypeOK'
    BY <1>1, <1>2, TypeParts
<1> QED BY <1>3, <1>4 DEF Local, Find

LEMMA FoundPlanless ==
    ASSUME TypeOK, NEW c \in Ops, Find(c), AdmissionTyped', Answered(c),
           exact_plan' = exact_plan
    PROVE  Local(c)
<1>1. /\ exact_plan[c] \in Plan
      /\ exact_plan' = [exact_plan EXCEPT ![c] = exact_plan[c]]
    BY TypeParts DEF LocalsTyped
<1> QED BY <1>1, FoundLocal

LEMMA PrepareForcedLocal ==
    ASSUME TypeOK, NEW c \in Ops, PrepareForced(c)
    PROVE  Local(c)
<1> DEFINE q == forced_runtime_plan(options)
<1>1. /\ Find(c) /\ exact_plan' = [exact_plan EXCEPT ![c] = q]
      /\ admit_resources(c, q)
    BY DEF PrepareForced
<1>2. q \in Plan
    BY <1>1, FindCopies, ForcedPlanTyped
<1> HIDE DEF q
<1>3. AdmissionTyped' /\ Answered(c)
    BY <1>1, <1>2, FindCopies, AdmitTyped DEF AdmissionTyped
<1> QED BY <1>1, <1>2, <1>3, FoundLocal

LEMMA PrepareReplayLocal ==
    ASSUME TypeOK, NEW c \in Ops, PrepareReplay(c)
    PROVE  Local(c)
<1> DEFINE q == exact'[c].plan
<1>1. /\ Find(c) /\ exact_plan' = [exact_plan EXCEPT ![c] = q]
      /\ admit_resources(c, q) /\ exact'[c] # NoEntry
    BY DEF PrepareReplay, Replayable
<1>2. q \in Plan
    BY <1>1, FindCopies, EntryPlans
<1> HIDE DEF q
<1>3. AdmissionTyped' /\ Answered(c)
    BY <1>1, <1>2, FindCopies, AdmitTyped DEF AdmissionTyped
<1> QED BY <1>1, <1>2, <1>3, FoundLocal

LEMMA RejectReplayLocal ==
    ASSUME TypeOK, NEW c \in Ops, RejectReplay(c)
    PROVE  Local(c)
<1>1. /\ Find(c) /\ exact_plan' = exact_plan
      /\ pc' = [pc EXCEPT ![c] = "rejected"]
      /\ UNCHANGED <<granted, resource_lease, contract, held>>
    BY DEF RejectReplay
<1>2. AdmissionTyped' /\ Answered(c)
    BY <1>1, TypeParts DEF AdmissionTyped, Answered, Places
<1> QED BY <1>1, <1>2, FoundPlanless

LEMMA PrepareColdLocal ==
    ASSUME TypeOK, NEW c \in Ops, PrepareCold(c)
    PROVE  Local(c)
<1>1. Find(c) /\ exact_plan' = exact_plan /\ admit_resources(c, NoPlan)
    BY DEF PrepareCold
<1>2. NoPlan \in Plan
    BY DEF Plan
<1>3. AdmissionTyped' /\ Answered(c)
    BY <1>1, <1>2, FindCopies, AdmitTyped DEF AdmissionTyped
<1> QED BY <1>1, <1>3, FoundPlanless

LEMMA PrepareWarmLocal ==
    ASSUME TypeOK, NEW c \in Ops, PrepareWarm(c)
    PROVE  Local(c)
<1>1. /\ Find(c) /\ exact_plan' = exact_plan
      /\ pc' = [pc EXCEPT ![c] = "found"]
      /\ UNCHANGED <<granted, resource_lease, contract, held>>
    BY DEF PrepareWarm
<1>2. AdmissionTyped' /\ Answered(c)
    BY <1>1, TypeParts DEF AdmissionTyped, Answered, Places
<1> QED BY <1>1, <1>2, FoundPlanless

\* Only a Runtime makes calls, and only an entry that exists warm-starts one.
Started(c) ==
    /\ pc[c] # "idle" => options # NoRuntime
    /\ pc[c] = "found" => exact[c] # NoEntry

LEMMA WarmStartLocal ==
    ASSUME TypeOK, NEW c \in Ops, Started(c), WarmStart(c)
    PROVE  Local(c)
<1> DEFINE q == exact[c].plan
<1>1. /\ exact_plan' = [exact_plan EXCEPT ![c] = q] /\ admit_resources(c, q)
      /\ options # NoRuntime /\ exact[c] # NoEntry
    BY DEF WarmStart, Started
<1>2. q \in Plan /\ exact[c] \in Entry
    BY <1>1, EntryPlans, TypeParts DEF LocalsTyped
<1> HIDE DEF q
<1>3. AdmissionTyped' /\ Answered(c)
    BY <1>1, <1>2, AdmitTyped DEF AdmissionTyped
<1>4. LocalsTyped'
    <2>1. <<generation, exact[c]>> \in Nat \X Entry
        BY <1>2 DEF TypeOK
    <2>2. warm_start' \in [Ops -> Nat \X Entry]
        BY <2>1, TypeParts DEF LocalsTyped, WarmStart
    <2> QED BY <1>1, <1>2, <2>2, TypeParts DEF LocalsTyped, WarmStart
<1>5. RuntimeTyped' /\ FilesTyped'
    BY TypeParts DEF WarmStart, RuntimeTyped, FilesTyped
<1>6. Alone(c)
    <2>1. \A d \in Ops \ {c} :
            exact_plan'[d] = exact_plan[d] /\ warm_start'[d] = warm_start[d]
        BY <1>1, TypeParts DEF LocalsTyped, WarmStart
    <2> QED BY <1>3, <2>1 DEF Alone, WarmStart, Answered
<1>7. TypeOK'
    BY <1>3, <1>4, <1>5, TypeParts
<1> QED BY <1>1, <1>6, <1>7 DEF Local, WarmStart

LEMMA StartColdLocal ==
    ASSUME TypeOK, NEW c \in Ops, Started(c), StartCold(c)
    PROVE  Local(c)
<1>1. NoPlan \in Plan /\ options # NoRuntime /\ admit_resources(c, NoPlan)
    BY DEF Plan, StartCold, Started
<1>2. AdmissionTyped' /\ Answered(c)
    BY <1>1, AdmitTyped DEF AdmissionTyped
<1>3. LocalsTyped' /\ RuntimeTyped' /\ FilesTyped'
    BY TypeParts DEF LocalsTyped, RuntimeTyped, FilesTyped, StartCold
<1>4. Alone(c)
    BY <1>2 DEF Alone, StartCold, Answered
<1> QED BY <1>1, <1>2, <1>3, <1>4, TypeParts DEF Local, StartCold

\* The permits an admission brings, and what it makes of the plan.
Fitted(plan, n) ==
    [plan EXCEPT !.jobs = n, !.parallel = IF n = plan.jobs THEN @ ELSE n > 1]

LEMMA FittedTyped ==
    ASSUME NEW plan \in ExecutionPlan, NEW n \in Nat
    PROVE  Fitted(plan, n) \in ExecutionPlan
<1>1. plan.parallel \in BOOLEAN /\ (n > 1) \in BOOLEAN
    BY DEF ExecutionPlan
<1> DEFINE b == IF n = plan.jobs THEN plan.parallel ELSE n > 1
<1>2. b \in BOOLEAN
    BY <1>1
<1>3. Fitted(plan, n) = [plan EXCEPT !.jobs = n, !.parallel = b]
    BY DEF Fitted, ExecutionPlan
<1> HIDE DEF b
<1> QED BY <1>2, <1>3 DEF ExecutionPlan

LEMMA AdmittedWith ==
    ASSUME TypeOK, NEW c \in Ops, Admitted(c)
    PROVE  \E n \in Nat :
             /\ contract[c].least <= n /\ n <= contract[c].most
             /\ held' = [held EXCEPT ![c] = n]
             /\ granted' = [granted EXCEPT ![c] = n]
             /\ resource_lease' = [resource_lease EXCEPT ![c] = c]
             /\ contract' = contract
             /\ exact_plan' =
                  IF Deterministic \/ exact_plan[c] = NoPlan THEN exact_plan
                  ELSE [exact_plan EXCEPT ![c] = Fitted(exact_plan[c], n)]
<1>1. PICK n \in 1..cpu_budget :
         /\ Governor!Grant(c, n)
         /\ granted' = [granted EXCEPT ![c] = n]
         /\ resource_lease' = [resource_lease EXCEPT ![c] = c]
         /\ exact_plan' =
              IF Deterministic \/ exact_plan[c] = NoPlan THEN exact_plan
              ELSE [exact_plan EXCEPT ![c].jobs = n,
                      ![c].parallel = IF n = exact_plan[c].jobs THEN @ ELSE n > 1]
    BY DEF Admitted
<1>2. n \in Nat
    OBVIOUS
<1>3. /\ contract[c].least <= n /\ n <= contract[c].most
      /\ held' = [held EXCEPT ![c] = n] /\ contract' = contract
    BY <1>1 DEF Governor!Grant
<1>4. [exact_plan EXCEPT ![c].jobs = n,
              ![c].parallel = IF n = exact_plan[c].jobs THEN @ ELSE n > 1]
        = [exact_plan EXCEPT ![c] = Fitted(exact_plan[c], n)]
    BY TypeParts DEF LocalsTyped, Fitted
<1> QED BY <1>1, <1>2, <1>3, <1>4

LEMMA AdmittedLocal ==
    ASSUME TypeOK, NEW c \in Ops, Started(c), Admitted(c)
    PROVE  Local(c)
<1>1. PICK n \in Nat :
         /\ held' = [held EXCEPT ![c] = n]
         /\ granted' = [granted EXCEPT ![c] = n]
         /\ resource_lease' = [resource_lease EXCEPT ![c] = c]
         /\ contract' = contract
         /\ exact_plan' =
              IF Deterministic \/ exact_plan[c] = NoPlan THEN exact_plan
              ELSE [exact_plan EXCEPT ![c] = Fitted(exact_plan[c], n)]
    BY AdmittedWith
<1>2. pc' = [pc EXCEPT ![c] = "running"] /\ options # NoRuntime
    BY DEF Admitted, Started
<1>3. AdmissionTyped' /\ Answered(c)
    BY <1>1, <1>2, TypeParts DEF AdmissionTyped, Answered, Places
<1>4. /\ exact_plan' \in [Ops -> Plan]
      /\ \A d \in Ops \ {c} : exact_plan'[d] = exact_plan[d]
    <2>1. exact_plan \in [Ops -> Plan] /\ exact_plan[c] \in Plan
        BY TypeParts DEF LocalsTyped
    <2>2. CASE Deterministic \/ exact_plan[c] = NoPlan
        BY <1>1, <2>1, <2>2
    <2>3. CASE ~(Deterministic \/ exact_plan[c] = NoPlan)
        <3>1. Fitted(exact_plan[c], n) \in Plan
            BY <2>1, <2>3, FittedTyped DEF Plan
        <3> QED BY <1>1, <2>1, <2>3, <3>1
    <2> QED BY <2>2, <2>3
<1>5. LocalsTyped' /\ FilesTyped'
    BY <1>4, TypeParts DEF LocalsTyped, FilesTyped, Admitted
<1>6. RuntimeTyped'
    BY TypeParts DEF RuntimeTyped, Admitted
<1>7. Alone(c)
    BY <1>3, <1>4 DEF Alone, Admitted, Answered
<1> QED BY <1>2, <1>3, <1>5, <1>6, <1>7, TypeParts DEF Local, Admitted

LEMMA RefusedLocal ==
    ASSUME TypeOK, NEW c \in Ops, Started(c), Refused(c)
    PROVE  Local(c)
<1>1. /\ pc' = [pc EXCEPT ![c] = "rejected"] /\ options # NoRuntime
      /\ UNCHANGED <<granted, resource_lease, contract, held>>
    BY DEF Refused, Started, Governor!Refuse
<1>2. AdmissionTyped' /\ Answered(c)
    BY <1>1, TypeParts DEF AdmissionTyped, Answered, Places
<1>3. LocalsTyped' /\ RuntimeTyped' /\ FilesTyped'
    BY TypeParts DEF LocalsTyped, RuntimeTyped, FilesTyped, Refused
<1>4. Alone(c)
    BY <1>2 DEF Alone, Refused, Answered
<1> QED BY <1>1, <1>2, <1>3, <1>4, TypeParts DEF Local, Refused

LEMMA ThrowsLocal ==
    ASSUME TypeOK, NEW c \in Ops, Started(c), Throws(c)
    PROVE  Local(c)
<1>1. /\ pc' = [pc EXCEPT ![c] = "leaving"] /\ options # NoRuntime
      /\ UNCHANGED <<granted, resource_lease, contract, held>>
    BY DEF Throws, Started
<1>2. AdmissionTyped' /\ Answered(c)
    BY <1>1, TypeParts DEF AdmissionTyped, Answered, Places
<1>3. LocalsTyped' /\ RuntimeTyped' /\ FilesTyped'
    BY TypeParts DEF LocalsTyped, RuntimeTyped, FilesTyped, Throws
<1>4. Alone(c)
    BY <1>2 DEF Alone, Throws, Answered
<1> QED BY <1>1, <1>2, <1>3, <1>4, TypeParts DEF Local, Throws

LEMMA LeaveLocal ==
    ASSUME TypeOK, NEW c \in Ops, Started(c), Leave(c)
    PROVE  Local(c)
<1>1. /\ pc' = [pc EXCEPT ![c] = "ended"] /\ options # NoRuntime
      /\ granted' = [granted EXCEPT ![c] = 0]
      /\ resource_lease' = [resource_lease EXCEPT ![c] = NoOp]
      /\ contract' = contract
      /\ held' = held \/ held' = [held EXCEPT ![c] = 0]
    BY DEF Leave, Started, Governor!GiveBack
<1>2. AdmissionTyped' /\ Answered(c)
    BY <1>1, TypeParts DEF AdmissionTyped, Answered, Places
<1>3. LocalsTyped' /\ RuntimeTyped' /\ FilesTyped'
    <2>1. NoPlan \in Plan /\ NoEntry \in Entry
        BY DEF Plan, Entry
    <2> QED BY <2>1, TypeParts DEF LocalsTyped, RuntimeTyped, FilesTyped, Leave
<1>4. Alone(c)
    BY <1>2, TypeParts DEF Alone, Leave, Answered, LocalsTyped
<1> QED BY <1>1, <1>2, <1>3, <1>4, TypeParts DEF Local, Leave

-----------------------------------------------------------------------------
(* Learning.                                                               *)

LEMMA ObservedTyped ==
    ASSUME NEW d \in Decisions, NEW n \in Nat
    PROVE  observed_plan(d, n) \in ExecutionPlan
<1>1. d \in ExecutionPlan
    OBVIOUS
<1>2. d.jobs \in Nat /\ AtMost(d.jobs, n) \in Nat
    BY <1>1 DEF ExecutionPlan, AtMost
<1>3. [engine |-> "auto", parallel |-> FALSE, jobs |-> 1] \in ExecutionPlan
    BY DEF ExecutionPlan, ExecutionEngineType
<1>4. [d EXCEPT !.jobs = AtMost(d.jobs, n)] \in ExecutionPlan
    BY <1>1, <1>2 DEF ExecutionPlan
<1> QED BY <1>1, <1>3, <1>4 DEF observed_plan, ExecutionPlan

\* A sample makes an entry of any candidate, and is counted.
LEMMA SampleTyped ==
    ASSUME NEW e, e = NewCandidate \/ e \in ProfileEntry,
           NEW plan \in ExecutionPlan, NEW n \in Nat, NEW checked \in BOOLEAN
    PROVE  /\ with_sample(e, plan, n, checked) \in ProfileEntry
           /\ e.samples \in Nat
           /\ with_sample(e, plan, n, checked).samples = e.samples + 1
<1> DEFINE sources == {NoHash} \cup EntryFrom({NoHash})
           s == e.samples + 1
<1>1. CASE e = NewCandidate
    <2>1. NoHash \in sources
        OBVIOUS
    <2> HIDE DEF sources
    <2>2. with_sample(e, plan, n, checked) =
            [status |-> "Candidate", plan |-> plan, budget |-> n,
             contract |-> "exact", samples |-> 1, calibrated |-> FALSE,
             authentic |-> checked, fits |-> TRUE, source |-> NoHash]
        <3>1. NewCandidate.samples + 1 = 1
            BY DEF NewCandidate
        <3>2. with_sample(e, plan, n, checked) =
                [NewCandidate EXCEPT !.plan = plan, !.budget = n,
                  !.contract = "exact", !.samples = 1, !.authentic = checked]
            BY <1>1, <3>1, Zenon DEF with_sample
        <3> QED BY <3>2 DEF NewCandidate
    <2>3. with_sample(e, plan, n, checked) \in EntryFrom(sources)
        BY <2>1, <2>2 DEF EntryFrom
    <2>4. e.samples = 0 /\ with_sample(e, plan, n, checked).samples = 1
        BY <1>1, <2>2 DEF NewCandidate
    <2> QED BY <2>3, <2>4 DEF ProfileEntry, sources
<1>2. CASE e \in ProfileEntry
    <2>1. e \in EntryFrom(sources)
        BY <1>2 DEF ProfileEntry
    <2> HIDE DEF sources
    <2>2. e.samples \in Nat
        BY <2>1 DEF EntryFrom
    <2>3. s \in Nat
        BY <2>2
    <2>4. with_sample(e, plan, n, checked) =
            [e EXCEPT !.plan = plan, !.budget = n, !.contract = "exact",
                      !.samples = s, !.authentic = checked]
        BY <2>1 DEF with_sample, EntryFrom
    <2> HIDE DEF s
    <2>5. /\ with_sample(e, plan, n, checked) \in EntryFrom(sources)
          /\ with_sample(e, plan, n, checked).samples = s
        BY <2>1, <2>3, <2>4 DEF EntryFrom
    <2> QED BY <2>2, <2>5 DEF ProfileEntry, sources, s
<1> QED BY <1>1, <1>2

\* A call that completes either learns nothing or adds one sample to the
\* entry as it is then.
Learned(c, e) ==
    LET old == profiles[Workload[c]]
    IN  /\ profiles' = [profiles EXCEPT ![Workload[c]] = e]
        /\ sample' = [sample EXCEPT ![c] = <<generation, e.samples>>]
        /\ e.samples = IF old = NoEntry THEN 1 ELSE old.samples + 1

LEMMA CompletedWith ==
    ASSUME TypeOK, NEW c \in Ops, complete_semantic_operation(c)
    PROVE  \/ UNCHANGED <<profiles, sample>>
           \/ \E e \in ProfileEntry : learns(c) /\ Learned(c, e)
<1> DEFINE old == profiles[Workload[c]]
<1>1. granted[c] \in Nat /\ old \in Entry
    BY DEF TypeOK, ProfileDatabase, Entry
<1>2. ASSUME learns(c), NEW d \in Decisions, NEW checked \in BOOLEAN,
             LET learned == with_sample(EntryToLearn(c),
                              observed_plan(d, granted[c]), granted[c], checked)
             IN  /\ profiles' = [profiles EXCEPT ![Workload[c]] = learned]
                 /\ sample' = [sample EXCEPT ![c] = <<generation, learned.samples>>]
      PROVE  \E e \in ProfileEntry : learns(c) /\ Learned(c, e)
    <2> DEFINE from == EntryToLearn(c)
               q == observed_plan(d, granted[c])
               n == granted[c]
               e == with_sample(from, q, n, checked)
    <2>1. q \in ExecutionPlan /\ n \in Nat
        BY <1>1, ObservedTyped
    <2>2. from = NewCandidate \/ from \in ProfileEntry
        BY <1>1 DEF EntryToLearn, Entry
    <2>3. from.samples = IF old = NoEntry THEN 0 ELSE old.samples
        BY DEF EntryToLearn, NewCandidate
    <2>4. /\ profiles' = [profiles EXCEPT ![Workload[c]] = e]
          /\ sample' = [sample EXCEPT ![c] = <<generation, e.samples>>]
        BY <1>2
    <2> HIDE DEF q, n, from
    <2>5. e \in ProfileEntry /\ e.samples = from.samples + 1
        BY <2>1, <2>2, SampleTyped
    <2>6. e.samples = IF old = NoEntry THEN 1 ELSE old.samples + 1
        BY <2>3, <2>5
    <2> HIDE DEF e
    <2>7. Learned(c, e)
        BY <2>4, <2>6 DEF Learned
    <2> QED BY <1>2, <2>5, <2>7
<1> QED BY <1>2 DEF complete_semantic_operation

LEMMA CompletedLocal ==
    ASSUME TypeOK, NEW c \in Ops, Started(c), complete_semantic_operation(c)
    PROVE  Local(c)
<1>1. /\ pc' = [pc EXCEPT ![c] = "leaving"] /\ options # NoRuntime
      /\ UNCHANGED <<granted, resource_lease, contract, held>>
    BY DEF complete_semantic_operation, Started
<1>2. AdmissionTyped' /\ Answered(c)
    BY <1>1, TypeParts DEF AdmissionTyped, Answered, Places
<1>3. /\ profiles' \in ProfileDatabase /\ sample' \in [Ops -> Nat \X Nat]
      /\ \A d \in Ops \ {c} : sample'[d] = sample[d]
    <2>1. CASE UNCHANGED <<profiles, sample>>
        BY <2>1 DEF TypeOK
    <2>2. ASSUME NEW e \in ProfileEntry, Learned(c, e)
          PROVE  /\ profiles' \in ProfileDatabase
                 /\ sample' \in [Ops -> Nat \X Nat]
                 /\ \A d \in Ops \ {c} : sample'[d] = sample[d]
        <3>1. <<generation, e.samples>> \in Nat \X Nat
            BY DEF TypeOK, ProfileEntry, EntryFrom
        <3> QED BY <2>2, <3>1 DEF TypeOK, Learned, ProfileDatabase
    <2> QED BY <2>1, <2>2, CompletedWith
<1>4. LocalsTyped' /\ RuntimeTyped' /\ FilesTyped'
    BY <1>3, TypeParts
       DEF LocalsTyped, RuntimeTyped, FilesTyped, complete_semantic_operation
<1>5. Alone(c)
    BY <1>2, <1>3 DEF Alone, complete_semantic_operation, Answered
<1> QED BY <1>1, <1>2, <1>4, <1>5, TypeParts
        DEF Local, complete_semantic_operation

LEMMA CallLocal ==
    ASSUME TypeOK, NEW c \in Ops, Started(c), CallStep(c)
    PROVE  Local(c)
BY PrepareForcedLocal, PrepareReplayLocal, RejectReplayLocal, PrepareColdLocal,
   PrepareWarmLocal, WarmStartLocal, StartColdLocal, AdmittedLocal,
   RefusedLocal, ThrowsLocal, CompletedLocal, LeaveLocal DEF CallStep

-----------------------------------------------------------------------------
(* Writers and the life of the process.                                    *)

LEMMA ApprovedTyped ==
    ASSUME NEW d \in ProfileDatabase
    PROVE  OnEntries(approved, d) \in ProfileDatabase
<1>1. ASSUME NEW e \in ProfileEntry
      PROVE  approved(e) \in ProfileEntry
    <2> DEFINE plain == EntryFrom({NoHash})
               s == [e EXCEPT !.source = NoHash]
    <2>1. s \in plain
        BY DEF ProfileEntry, EntryFrom
    <2>2. approved(e) = [e EXCEPT !.status = "Approved", !.source = s]
        BY DEF approved
    <2>3. e \in EntryFrom({NoHash} \cup plain)
        BY DEF ProfileEntry
    <2> HIDE DEF s, plain
    <2>4. approved(e) \in EntryFrom({NoHash} \cup plain)
        BY <2>1, <2>2, <2>3 DEF EntryFrom
    <2> QED BY <2>4 DEF ProfileEntry, plain
<1>2. OnEntries(approved, d) =
        [k \in Workloads |-> IF d[k] = NoEntry THEN NoEntry ELSE approved(d[k])]
    BY DEF OnEntries
<1> QED BY <1>1, <1>2 DEF ProfileDatabase

LEMMA CalibratedTyped ==
    ASSUME NEW d \in ProfileDatabase
    PROVE  OnEntries(calibrated, d) \in ProfileDatabase
<1>1. ASSUME NEW e \in ProfileEntry
      PROVE  calibrated(e) \in ProfileEntry
    BY DEF calibrated, ProfileEntry, EntryFrom
<1>2. OnEntries(calibrated, d) =
        [k \in Workloads |-> IF d[k] = NoEntry THEN NoEntry ELSE calibrated(d[k])]
    BY DEF OnEntries
<1> QED BY <1>1, <1>2 DEF ProfileDatabase

Busy(w) == saving[w].step \in {"create", "write", "rename", "reload"}

LEMMA DoneTyped == Done \in Saving /\ Idle \in Saving
<1>1. NoProfiles \in ProfileDatabase
    BY DEF NoProfiles, ProfileDatabase
<1> QED BY <1>1 DEF Done, Idle, Saving

\* What every step of a writer has in common.
Writes(w) ==
    /\ TypeOK' /\ UNCHANGED memoryVars
    /\ \A v \in Writers \ {w} : saving'[v] = saving[v]

\* A writer that begins has its path for itself.
Begun(w) ==
    /\ ~Busy(w) /\ \A v \in Writers \ {w} : saving[v].path # saving'[w].path
    /\ saving'[w].step = "create" /\ saving'[w].path \in Paths

LEMMA BeginWrites ==
    ASSUME TypeOK, NEW w \in Writers, NEW p \in Paths,
           NEW d \in ProfileDatabase,
           NEW task \in {"export", "calibrate", "approve"},
           Begin(w, task, p, d), UNCHANGED <<memoryVars, diskVars>>
    PROVE  Writes(w) /\ Begun(w)
<1> DEFINE s == [task |-> task, step |-> "create", path |-> p, entries |-> d]
<1>1. s \in Saving /\ s.path = p /\ s.step = "create"
    BY DEF Saving
<1>2. saving' = [saving EXCEPT ![w] = s]
    BY DEF Begin
<1>3. ~Busy(w)
    <2>1. saving[w].step = "idle"
        BY DEF Begin, Idle
    <2> QED BY <2>1 DEF Busy
<1> HIDE DEF s
<1>4. RuntimeTyped' /\ LocalsTyped' /\ AdmissionTyped' /\ FilesTyped'
    BY <1>1, <1>2, TypeParts
       DEF RuntimeTyped, LocalsTyped, AdmissionTyped, FilesTyped
<1>5. saving'[w] = s /\ \A v \in Writers \ {w} : saving'[v] = saving[v]
    BY <1>2, TypeParts DEF FilesTyped
<1>6. \A v \in Writers \ {w} : saving[v].path # p
    BY DEF Begin, Designated
<1> QED BY <1>1, <1>3, <1>4, <1>5, <1>6, TypeParts DEF Writes, Begun

LEMMA SaveWrites ==
    ASSUME TypeOK, NEW w \in Writers, NEW p \in Paths,
           NEW task \in {"export", "calibrate"}, save_profiles(w, task, p)
    PROVE  Writes(w) /\ Begun(w) /\ UNCHANGED diskVars
<1>1. profiles \in ProfileDatabase
    BY DEF TypeOK
<1> QED BY <1>1, BeginWrites DEF save_profiles

LEMMA ApproveWrites ==
    ASSUME TypeOK, NEW w \in Writers, NEW from \in Paths, NEW to \in Paths,
           approve(w, from, to)
    PROVE  Writes(w) /\ Begun(w) /\ UNCHANGED diskVars
<1>1. files[from].entries \in ProfileDatabase
    BY DEF TypeOK
<1> DEFINE d == OnEntries(approved, files[from].entries)
<1>2. d \in ProfileDatabase
    BY <1>1, ApprovedTyped
<1>3. /\ Begin(w, "approve", to, d) /\ UNCHANGED <<memoryVars, diskVars>>
    BY DEF approve
<1> HIDE DEF d
<1> QED BY <1>2, <1>3, BeginWrites

\* The other steps of a writer keep its path, or end it.
Continues(w) ==
    /\ Busy(w)
    /\ \/ saving'[w].path = saving[w].path
       \/ saving'[w].step = "done"

LEMMA StepWrites ==
    ASSUME TypeOK, NEW w \in Writers, Busy(w), UNCHANGED memoryVars,
           files' \in [Paths -> File],
           NEW step \in {"write", "rename", "reload"}, Step(w, step)
    PROVE  /\ Writes(w) /\ Continues(w) /\ saving'[w].step = step
           /\ saving'[w].entries = saving[w].entries
           /\ saving'[w].path = saving[w].path
<1> DEFINE s == [saving[w] EXCEPT !.step = step]
<1>1. saving[w] \in Saving /\ saving \in [Writers -> Saving]
    BY TypeParts DEF FilesTyped
<1>2. /\ s \in Saving /\ s.path = saving[w].path /\ s.step = step
      /\ s.entries = saving[w].entries
    BY <1>1 DEF Saving
<1>3. saving' = [saving EXCEPT ![w] = s]
    BY <1>1 DEF Step
<1> HIDE DEF s
<1>4. saving'[w] = s /\ \A v \in Writers \ {w} : saving'[v] = saving[v]
    BY <1>1, <1>3
<1>5. RuntimeTyped' /\ LocalsTyped' /\ AdmissionTyped' /\ FilesTyped'
    BY <1>1, <1>2, <1>3, TypeParts
       DEF RuntimeTyped, LocalsTyped, AdmissionTyped, FilesTyped
<1> QED BY <1>2, <1>4, <1>5, TypeParts DEF Writes, Continues

LEMMA EndWrites ==
    ASSUME TypeOK, NEW w \in Writers, Busy(w), UNCHANGED memoryVars,
           files' \in [Paths -> File], saving' = [saving EXCEPT ![w] = Done]
    PROVE  Writes(w) /\ Continues(w) /\ saving'[w].step = "done"
<1>1. saving[w] \in Saving /\ saving \in [Writers -> Saving]
    BY TypeParts DEF FilesTyped
<1>2. Done \in Saving /\ Done.step = "done"
    BY DoneTyped DEF Done, Idle
<1>3. saving'[w] = Done /\ \A v \in Writers \ {w} : saving'[v] = saving[v]
    BY <1>1
<1>4. RuntimeTyped' /\ LocalsTyped' /\ AdmissionTyped' /\ FilesTyped'
    BY <1>1, <1>2, TypeParts
       DEF RuntimeTyped, LocalsTyped, AdmissionTyped, FilesTyped
<1> QED BY <1>2, <1>3, <1>4, TypeParts DEF Writes, Continues

\* Writers that are busy have different paths, of this system, and a temporary file that is
\* about to be renamed is complete.
OwnPaths ==
    /\ \A w \in Writers : Busy(w) => saving[w].path \in Paths
    /\ \A v, w \in Writers :
          v # w /\ Busy(v) /\ Busy(w) => saving[v].path # saving[w].path
Complete(w) ==
    Temporary(w) \in DOMAIN temporaries /\ temporaries[Temporary(w)] = TRUE
Written == \A w \in Writers : saving[w].step = "rename" => Complete(w)
FilesInv == OwnPaths /\ Written

\* A step of w leaves the temporary files of the others.
Spares(w) ==
    \A t \in DOMAIN temporaries \ {Temporary(w)} :
        t \in DOMAIN temporaries' /\ temporaries'[t] = temporaries[t]

LEMMA Opened ==
    ASSUME NEW w \in Writers, NEW b, temporaries' = WithTemporary(w, b)
    PROVE  /\ Spares(w) /\ Temporary(w) \in DOMAIN temporaries'
           /\ temporaries'[Temporary(w)] = b
BY DEF Spares, WithTemporary

LEMMA Removed ==
    ASSUME NEW w \in Writers, temporaries' = WithoutTemporary(w)
    PROVE  Spares(w)
BY DEF Spares, WithoutTemporary

\* The files invariant, when a writer begins or goes on.
LEMMA FilesKept ==
    ASSUME TypeOK, FilesInv, NEW w \in Writers, Writes(w),
           \/ Begun(w) /\ temporaries' = temporaries
           \/ Continues(w) /\ Spares(w),
           saving'[w].step = "rename" => Complete(w)'
    PROVE  FilesInv'
<1>1. \A v \in Writers \ {w} : saving'[v] = saving[v] /\ Busy(v)' = Busy(v)
    BY DEF Writes, Busy
<1>2. \A v \in Writers \ {w} :
        Busy(v) /\ Busy(w)' => saving[v].path # saving'[w].path
    <2>1. CASE Begun(w)
        BY <2>1 DEF Begun
    <2>2. CASE Continues(w)
        BY <2>2 DEF Continues, FilesInv, OwnPaths, Busy
    <2> QED BY <2>1, <2>2
<1>3. OwnPaths'
    <2>1. Busy(w)' => saving'[w].path \in Paths
        BY DEF Begun, Continues, FilesInv, OwnPaths, Busy
    <2> QED BY <1>1, <1>2, <2>1 DEF FilesInv, OwnPaths
<1>4. ASSUME NEW v \in Writers, saving'[v].step = "rename"
      PROVE  Complete(v)'
    <2>1. CASE v = w
        BY <1>4, <2>1
    <2>2. CASE v # w
        <3>1. Complete(v) /\ saving[v].step = "rename" /\ saving'[v] = saving[v]
            BY <1>1, <1>4, <2>2 DEF FilesInv, Written
        <3>2. Busy(w) => Temporary(v) \in DOMAIN temporaries \ {Temporary(w)}
            <4>1. Temporary(v) = Temporary(w) => saving[v].path = saving[w].path
                BY DEF Temporary
            <4> QED BY <2>2, <3>1, <4>1 DEF FilesInv, OwnPaths, Busy, Complete
        <3>3. Temporary(v)' = Temporary(v)
            BY <3>1 DEF Temporary
        <3> QED BY <3>1, <3>2, <3>3 DEF Spares, Complete, Continues
    <2> QED BY <2>1, <2>2
<1> QED BY <1>3, <1>4 DEF FilesInv, Written

\* Files that load go on loading.
Whole == \A p \in Paths : loads(files[p]) => loads(files'[p])

LEMMA BegunKeeps ==
    ASSUME TypeOK, FilesInv, NEW w \in Writers, Writes(w), Begun(w),
           UNCHANGED diskVars
    PROVE  FilesInv' /\ Whole
<1>1. FilesInv'
    BY FilesKept DEF Begun
<1> QED BY <1>1 DEF Whole

LEMMA CreateWrites ==
    ASSUME TypeOK, FilesInv, NEW w \in Writers, CreateTemporary(w)
    PROVE  Writes(w) /\ FilesInv' /\ Whole
<1>1. /\ Busy(w) /\ Step(w, "write") /\ UNCHANGED memoryVars
      /\ files' = files /\ temporaries' = WithTemporary(w, FALSE)
    BY DEF CreateTemporary, Busy
<1>2. files' \in [Paths -> File]
    BY <1>1, TypeParts DEF FilesTyped
<1>3. Writes(w) /\ Continues(w) /\ saving'[w].step = "write"
    BY <1>1, <1>2, StepWrites
<1>4. Spares(w)
    BY <1>1, Opened
<1>5. FilesInv'
    BY <1>3, <1>4, FilesKept
<1> QED BY <1>1, <1>3, <1>5 DEF Whole

LEMMA WriteWrites ==
    ASSUME TypeOK, FilesInv, NEW w \in Writers, WriteTemporary(w)
    PROVE  Writes(w) /\ FilesInv' /\ Whole
<1>1. /\ Busy(w) /\ Step(w, "rename") /\ UNCHANGED memoryVars
      /\ files' = files /\ temporaries' = WithTemporary(w, TRUE)
    BY DEF WriteTemporary, Busy
<1>2. files' \in [Paths -> File]
    BY <1>1, TypeParts DEF FilesTyped
<1>3. /\ Writes(w) /\ Continues(w) /\ saving'[w].path = saving[w].path
      /\ saving'[w].entries = saving[w].entries
    BY <1>1, <1>2, StepWrites
<1>4. /\ Spares(w) /\ Temporary(w) \in DOMAIN temporaries'
      /\ temporaries'[Temporary(w)] = TRUE
    BY <1>1, Opened
<1>5. Complete(w)'
    <2>1. Temporary(w)' = Temporary(w)
        BY <1>3 DEF Temporary
    <2> QED BY <1>4, <2>1 DEF Complete
<1>6. FilesInv'
    BY <1>3, <1>4, <1>5, FilesKept
<1> QED BY <1>1, <1>3, <1>6 DEF Whole

LEMMA RenameWrites ==
    ASSUME TypeOK, FilesInv, NEW w \in Writers, RenameTemporary(w)
    PROVE  Writes(w) /\ FilesInv' /\ Whole
<1> DEFINE f == [sound |-> temporaries[Temporary(w)],
                 entries |-> saving[w].entries]
           p == saving[w].path
<1>1. /\ Busy(w) /\ UNCHANGED memoryVars /\ temporaries' = WithoutTemporary(w)
      /\ files' = [files EXCEPT ![p] = f]
      /\ Step(w, "reload") \/ saving' = [saving EXCEPT ![w] = Done]
    BY DEF RenameTemporary, Busy
<1>2. temporaries[Temporary(w)] = TRUE
    BY DEF RenameTemporary, FilesInv, Written, Complete
<1>3. f \in File /\ f.sound = TRUE
    BY <1>2, TypeParts DEF FilesTyped, File, Saving
<1>4. files \in [Paths -> File]
    BY TypeParts DEF FilesTyped
<1> HIDE DEF f, p
<1>5. files' \in [Paths -> File]
    BY <1>1, <1>3, <1>4
<1>6. Whole
    BY <1>1, <1>3, <1>4 DEF Whole, loads
<1>7. Writes(w) /\ Continues(w) /\ saving'[w].step \in {"reload", "done"}
    <2>1. CASE Step(w, "reload")
        BY <1>1, <1>5, <2>1, StepWrites
    <2>2. CASE saving' = [saving EXCEPT ![w] = Done]
        BY <1>1, <1>5, <2>2, EndWrites
    <2> QED BY <1>1, <2>1, <2>2
<1>8. FilesInv'
    BY <1>1, <1>7, Removed, FilesKept
<1> QED BY <1>6, <1>7, <1>8

LEMMA FailsWrites ==
    ASSUME TypeOK, FilesInv, NEW w \in Writers, SaveFails(w)
    PROVE  Writes(w) /\ FilesInv' /\ Whole
<1>1. /\ Busy(w) /\ saving' = [saving EXCEPT ![w] = Done]
      /\ UNCHANGED memoryVars /\ files' = files
      /\ temporaries' = WithoutTemporary(w)
    BY DEF SaveFails, Busy
<1>2. files' \in [Paths -> File]
    BY <1>1, TypeParts DEF FilesTyped
<1>3. Writes(w) /\ Continues(w) /\ saving'[w].step = "done"
    BY <1>1, <1>2, EndWrites
<1>4. FilesInv'
    BY <1>1, <1>3, Removed, FilesKept
<1> QED BY <1>1, <1>3, <1>4 DEF Whole

LEMMA CalibrateWrites ==
    ASSUME TypeOK, FilesInv, NEW w \in Writers, Calibrate(w)
    PROVE  Writes(w) /\ FilesInv' /\ Whole
<1> DEFINE f == files[saving[w].path]
           d == OnEntries(calibrated, f.entries)
           s == [saving[w] EXCEPT !.task = "publish", !.step = "create",
                                  !.entries = d]
<1>1. /\ Busy(w) /\ UNCHANGED memoryVars /\ UNCHANGED diskVars
    BY DEF Calibrate, Busy
<1>2. files' \in [Paths -> File] /\ saving \in [Writers -> Saving]
    BY <1>1, TypeParts DEF FilesTyped
<1>3. Spares(w)
    BY <1>1 DEF Spares
<1>4. CASE saving' = [saving EXCEPT ![w] = Done]
    <2>1. Writes(w) /\ Continues(w) /\ saving'[w].step = "done"
        BY <1>1, <1>2, <1>4, EndWrites
    <2> QED BY <1>1, <1>3, <2>1, FilesKept DEF Whole
<1>5. CASE saving' = [saving EXCEPT ![w] = s]
    <2>1. f.entries \in ProfileDatabase
        BY <1>1, TypeParts DEF FilesTyped, File, FilesInv, OwnPaths
    <2>2. d \in ProfileDatabase
        BY <2>1, CalibratedTyped
    <2> HIDE DEF d
    <2>3. s \in Saving /\ s.step = "create" /\ s.path = saving[w].path
        <3>1. ASSUME NEW r \in Saving
              PROVE  LET q == [r EXCEPT !.task = "publish", !.step = "create",
                                        !.entries = d]
                     IN  q \in Saving /\ q.step = "create" /\ q.path = r.path
            BY <2>2 DEF Saving
        <3>2. saving[w] \in Saving
            BY <1>2
        <3> QED BY <3>1, <3>2
    <2> HIDE DEF s
    <2>4. saving'[w] = s /\ \A v \in Writers \ {w} : saving'[v] = saving[v]
        BY <1>2, <1>5
    <2>5. RuntimeTyped' /\ LocalsTyped' /\ AdmissionTyped' /\ FilesTyped'
        BY <1>1, <1>2, <1>5, <2>3, TypeParts
           DEF RuntimeTyped, LocalsTyped, AdmissionTyped, FilesTyped
    <2>6. Writes(w) /\ Continues(w)
        BY <1>1, <2>3, <2>4, <2>5, TypeParts DEF Writes, Continues
    <2> QED BY <1>1, <1>3, <2>3, <2>4, <2>6, FilesKept DEF Whole
<1>6. \/ saving' = [saving EXCEPT ![w] = Done]
      \/ saving' = [saving EXCEPT ![w] = s]
    BY DEF Calibrate
<1> QED BY <1>4, <1>5, <1>6

LEMMA WriterKeeps ==
    ASSUME TypeOK, FilesInv, NEW w \in Writers, WriterStep(w)
    PROVE  Writes(w) /\ FilesInv' /\ Whole
<1>1. ASSUME NEW p \in Exports, save_profiles(w, "export", p)
      PROVE  Writes(w) /\ FilesInv' /\ Whole
    <2>1. p \in Paths
        OBVIOUS
    <2> QED BY <1>1, <2>1, SaveWrites, BegunKeeps
<1>2. ASSUME NEW p \in Calibrations, save_profiles(w, "calibrate", p)
      PROVE  Writes(w) /\ FilesInv' /\ Whole
    <2>1. p \in Paths
        OBVIOUS
    <2> QED BY <1>2, <2>1, SaveWrites, BegunKeeps
<1>3. ASSUME NEW ft \in Approvals, approve(w, ft[1], ft[2])
      PROVE  Writes(w) /\ FilesInv' /\ Whole
    <2>1. ft[1] \in Paths /\ ft[2] \in Paths
        OBVIOUS
    <2> QED BY <1>3, <2>1, ApproveWrites, BegunKeeps
<1> QED BY <1>1, <1>2, <1>3, CreateWrites, WriteWrites, RenameWrites,
           FailsWrites, CalibrateWrites DEF WriterStep

LEMMA ConstructTyped ==
    ASSUME TypeOK, NEW o \in RuntimeOptions, Construct(o)
    PROVE  TypeOK' /\ options' # NoRuntime
<1>1. options' \in OptionRecord /\ options' # NoRuntime
    BY OptionsNormal DEF Construct
<1>2. profiles' \in ProfileDatabase
    <2>1. NoProfiles \in ProfileDatabase
        BY DEF NoProfiles, ProfileDatabase
    <2>2. o.profile_path # "none" => o.profile_path \in Paths
        BY DEF OptionRecord
    <2>3. o.profile_path # "none" => files[o.profile_path].entries \in ProfileDatabase
        BY <2>2, TypeParts DEF FilesTyped, File
    <2> QED BY <2>1, <2>3 DEF Construct
<1>3. RuntimeTyped'
    BY <1>1, <1>2, TypeParts DEF RuntimeTyped, Construct
<1>4. LocalsTyped' /\ AdmissionTyped'
    BY TypeParts DEF LocalsTyped, AdmissionTyped, Construct
<1>5. FilesTyped'
    BY TypeParts DEF FilesTyped, Construct
<1> QED BY <1>1, <1>3, <1>4, <1>5, TypeParts

LEMMA LoadTyped ==
    ASSUME TypeOK, NEW p \in Paths, load_profiles(p)
    PROVE  TypeOK'
<1>1. files[p].entries \in ProfileDatabase
    BY TypeParts DEF FilesTyped, File
<1>2. RuntimeTyped'
    BY <1>1, TypeParts DEF RuntimeTyped, load_profiles
<1>3. LocalsTyped' /\ AdmissionTyped' /\ FilesTyped'
    BY TypeParts DEF LocalsTyped, AdmissionTyped, FilesTyped, load_profiles
<1> QED BY <1>2, <1>3, TypeParts

\* What a process starts with.
Fresh ==
    /\ options = NoRuntime /\ profiles = NoProfiles
    /\ profiles_loaded_from_file = FALSE
    /\ profiles_mutex = NoOp /\ generation = 0
    /\ pc = [c \in Ops |-> "idle"]
    /\ exact = [c \in Ops |-> NoEntry]
    /\ exact_plan = [c \in Ops |-> NoPlan]
    /\ warm_start = [c \in Ops |-> Never]
    /\ granted = [c \in Ops |-> 0]
    /\ resource_lease = [c \in Ops |-> NoOp]
    /\ sample = [c \in Ops |-> <<0, 0>>]
    /\ contract = [c \in Ops |-> [least |-> 0, most |-> 0]]
    /\ held = [c \in Ops |-> 0]
    /\ saving = [w \in Writers |-> Idle]
    /\ files \in [Paths -> File] /\ starts \in Nat

\* The types and the facts they rest on.
TypesInv == TypeOK /\ (\A c \in Ops : Started(c)) /\ FilesInv

LEMMA FreshTyped ==
    Fresh => TypesInv
<1> SUFFICES ASSUME Fresh PROVE TypesInv
    OBVIOUS
<1>1. /\ NoEntry \in Entry /\ NoPlan \in Plan
      /\ NoProfiles \in ProfileDatabase
      /\ [least |-> 0, most |-> 0] \in [least : Nat, most : Nat]
    BY DEF Entry, Plan, NoProfiles, ProfileDatabase
<1>2. RuntimeTyped
    BY <1>1 DEF Fresh, RuntimeTyped
<1>3. LocalsTyped
    BY <1>1 DEF Fresh, LocalsTyped, Never
<1>4. AdmissionTyped
    BY <1>1 DEF Fresh, AdmissionTyped, Places
<1>5. FilesTyped
    BY DoneTyped DEF Fresh, FilesTyped
<1>6. \A w \in Writers : saving[w].step = "idle"
    BY DEF Fresh, Idle
<1>7. FilesInv
    BY <1>6 DEF FilesInv, OwnPaths, Written, Busy
<1>8. \A c \in Ops : Started(c)
    BY DEF Fresh, Started
<1> QED BY <1>2, <1>3, <1>4, <1>5, <1>7, <1>8, TypeParts DEF TypesInv

LEMMA FreshAgain ==
    Fresh' => TypesInv'
BY FreshTyped, PTL

LEMMA CrashFresh ==
    ASSUME TypeOK, Crash
    PROVE  Fresh' /\ UNCHANGED <<files, temporaries, starts>>
<1>1. files' \in [Paths -> File] /\ starts' \in Nat
    BY TypeParts DEF FilesTyped, Crash
<1> QED BY <1>1 DEF Crash, Fresh, Governor!NoContract

LEMMA InitFresh ==
    ASSUME Init
    PROVE  Fresh
BY DEF Init, Fresh, Governor!Init, Governor!NoContract, File

LEMMA PlacesOfCall ==
    ASSUME TypeOK, NEW c \in Ops, Started(c), CallStep(c), pc'[c] = "found"
    PROVE  exact'[c] # NoEntry
<1>1. pc \in [Ops -> Places]
    BY DEF TypeOK
<1>2. ASSUME NEW plan \in Plan, options # NoRuntime, admit_resources(c, plan)
      PROVE  FALSE
    BY <1>2, AdmitTyped
<1>3. CASE PrepareForced(c)
    BY <1>2, <1>3, FindCopies, ForcedPlanTyped DEF PrepareForced
<1>4. CASE PrepareReplay(c)
    <2>1. exact'[c].plan \in Plan /\ options # NoRuntime
        BY <1>4, FindCopies, EntryPlans DEF PrepareReplay, Replayable
    <2> QED BY <1>2, <1>4, <2>1 DEF PrepareReplay
<1>5. CASE PrepareCold(c)
    BY <1>2, <1>5, FindCopies DEF PrepareCold, Plan
<1>6. CASE WarmStart(c)
    <2>1. exact[c].plan \in Plan /\ options # NoRuntime
        BY <1>6, TypeParts, EntryPlans DEF WarmStart, Started, LocalsTyped
    <2> QED BY <1>2, <1>6, <2>1 DEF WarmStart
<1>7. CASE StartCold(c)
    BY <1>2, <1>7 DEF StartCold, Plan, Started
<1>8. CASE PrepareWarm(c)
    BY <1>8 DEF PrepareWarm, WarmCandidate
<1>9. CASE RejectReplay(c) \/ Admitted(c) \/ Refused(c) \/ Throws(c)
           \/ complete_semantic_operation(c) \/ Leave(c)
    BY <1>1, <1>9 DEF RejectReplay, Admitted, Refused, Throws,
                      complete_semantic_operation, Leave
<1> QED BY <1>3, <1>4, <1>5, <1>6, <1>7, <1>8, <1>9 DEF CallStep

LEMMA TypesStep ==
    ASSUME TypesInv, [Next]_vars
    PROVE  TypesInv'
<1>1. CASE UNCHANGED vars
    BY <1>1 DEF TypesInv, TypeOK, Started, FilesInv, OwnPaths, Written, Busy,
                Complete, Temporary
<1>2. ASSUME NEW o \in RuntimeOptions, Construct(o)
      PROVE  TypesInv'
    <2>1. TypeOK' /\ options' # NoRuntime
        BY <1>2, ConstructTyped DEF TypesInv
    <2>2. UNCHANGED <<pc, exact, files, temporaries, saving>>
        BY <1>2 DEF Construct
    <2> QED BY <2>1, <2>2 DEF TypesInv, Started, FilesInv, OwnPaths, Written,
                              Busy, Complete, Temporary
<1>3. ASSUME NEW p \in Paths, load_profiles(p)
      PROVE  TypesInv'
    <2>1. TypeOK'
        BY <1>3, LoadTyped DEF TypesInv
    <2>2. UNCHANGED <<options, pc, exact, files, temporaries, saving>>
        BY <1>3 DEF load_profiles
    <2> QED BY <2>1, <2>2 DEF TypesInv, Started, FilesInv, OwnPaths, Written,
                              Busy, Complete, Temporary
<1>4. CASE Crash
    BY <1>4, CrashFresh, FreshAgain DEF TypesInv
<1>5. ASSUME NEW c \in Ops, CallStep(c)
      PROVE  TypesInv'
    <2>1. Local(c)
        BY <1>5, CallLocal DEF TypesInv
    <2>2. ASSUME NEW d \in Ops PROVE Started(d)'
        <3>1. options' # NoRuntime
            BY <2>1 DEF Local
        <3>2. CASE d = c
            BY <1>5, <3>1, <3>2, PlacesOfCall DEF TypesInv, Started
        <3>3. CASE d # c
            BY <2>1, <3>1, <3>3 DEF Local, Alone, TypesInv, Started
        <3> QED BY <3>2, <3>3
    <2>3. FilesInv'
        BY <2>1 DEF Local, TypesInv, FilesInv, OwnPaths, Written, Busy,
                    Complete, Temporary
    <2> QED BY <2>1, <2>2, <2>3 DEF Local, TypesInv
<1>6. ASSUME NEW w \in Writers, WriterStep(w)
      PROVE  TypesInv'
    <2>1. Writes(w) /\ FilesInv'
        BY <1>6, WriterKeeps DEF TypesInv
    <2> QED BY <2>1 DEF Writes, TypesInv, Started
<1> QED BY <1>1, <1>2, <1>3, <1>4, <1>5, <1>6, NextSteps

\* Every variable of the Runtime, the calls, the governor and the files keeps
\* its type: Runtime and operations (runtime.cpp, operation.cpp) and the
\* database (profile.cpp).
THEOREM TypesProved == Spec => []TypeOK
<1>1. Init => TypesInv
    BY InitFresh, FreshTyped
<1>2. TypesInv /\ [Next]_vars => TypesInv'
    BY TypesStep
<1>3. TypesInv => TypeOK
    BY DEF TypesInv
<1> QED BY <1>1, <1>2, <1>3, PTL DEF Spec

LEMMA WholeStep ==
    ASSUME TypesInv, Next
    PROVE  Whole
<1>1. ASSUME NEW o \in RuntimeOptions, Construct(o)
      PROVE  Whole
    BY <1>1 DEF Construct, Whole
<1>2. ASSUME NEW p \in Paths, load_profiles(p)
      PROVE  Whole
    BY <1>2 DEF load_profiles, Whole
<1>3. CASE Crash
    BY <1>3 DEF Crash, Whole
<1>4. ASSUME NEW c \in Ops, CallStep(c)
      PROVE  Whole
    BY <1>4, CallLocal DEF TypesInv, Local, Whole
<1>5. ASSUME NEW w \in Writers, WriterStep(w)
      PROVE  Whole
    BY <1>5, WriterKeeps DEF TypesInv
<1> QED BY <1>1, <1>2, <1>3, <1>4, <1>5, NextSteps

\* save_profile_database_atomic: a file that loads never becomes one that
\* does not, whichever step of a save fails, however the saves of a program
\* and of the tools interleave, and wherever the process crashes.
THEOREM SavedFilesProved == Spec => SavedFilesWhole
<1>1. Init => TypesInv
    BY InitFresh, FreshTyped
<1>2. TypesInv /\ [Next]_vars => TypesInv'
    BY TypesStep
<1>3. TypesInv /\ [Next]_vars
        => [\A p \in Paths : loads(files[p]) => loads(files'[p])]_vars
    <2> SUFFICES ASSUME TypesInv, Next
                 PROVE  \A p \in Paths : loads(files[p]) => loads(files'[p])
        OBVIOUS
    <2> QED BY WholeStep DEF Whole
<1> QED BY <1>1, <1>2, <1>3, PTL DEF Spec, SavedFilesWhole

-----------------------------------------------------------------------------
(* Permits.                                                                *)

\* A nested call lives inside a call that runs, which waits for it, and
\* carries the same lease; a call of the top level carries its own, and holds
\* its workers from its admission to its end.
Permits(d) ==
    /\ pc[d] = "admission" => Root(d)
    /\ held[d] = IF Root(d) /\ Active(d) THEN granted[d] ELSE 0
    /\ ~Root(d) /\ pc[d] \in {"found", "running", "leaving"}
         => pc[Parent[d]] = "running"
    /\ Active(d) => resource_lease[d] =
                      IF Root(d) THEN d ELSE resource_lease[Parent[d]]
Leased(d) ==
    Active(d) => /\ resource_lease[d] \in Ops
                 /\ Root(resource_lease[d]) /\ Active(resource_lease[d])
                 /\ granted[d] <= granted[resource_lease[d]]
PermitsInv == \A d \in Ops : Permits(d) /\ Leased(d)

\* The ways a call goes on, as far as permits are concerned.
Prepares(c) ==
    /\ pc[c] \in {"idle", "found"}
    /\ pc[c] = "idle" /\ ~Root(c) => pc[Parent[c]] = "running"
    /\ \/ \E plan \in Plan : Asked(c, plan)
       \/ Denied(c)
       \/ \E n \in Nat : Shared(c, n)
       \/ /\ pc[c] = "idle" /\ pc' = [pc EXCEPT ![c] = "found"]
          /\ UNCHANGED <<granted, resource_lease, contract, held>>
Granted(c) ==
    /\ pc[c] = "admission" /\ pc' = [pc EXCEPT ![c] = "running"]
    /\ resource_lease' = [resource_lease EXCEPT ![c] = c]
    /\ \E n \in Nat : /\ held' = [held EXCEPT ![c] = n]
                      /\ granted' = [granted EXCEPT ![c] = n]
Finishes(c) ==
    /\ UNCHANGED <<granted, resource_lease, held>>
    /\ \/ pc[c] = "admission" /\ pc' = [pc EXCEPT ![c] = "rejected"]
       \/ /\ pc[c] = "running" /\ CalleesEnded(c)
          /\ pc' = [pc EXCEPT ![c] = "leaving"]
Leaves(c) ==
    /\ pc[c] = "leaving" /\ pc' = [pc EXCEPT ![c] = "ended"]
    /\ granted' = [granted EXCEPT ![c] = 0]
    /\ resource_lease' = [resource_lease EXCEPT ![c] = NoOp]
    /\ held' = IF Root(c) THEN [held EXCEPT ![c] = 0] ELSE held
GoesOn(c) == Prepares(c) \/ Granted(c) \/ Finishes(c) \/ Leaves(c)

LEMMA Admits ==
    ASSUME TypeOK, options # NoRuntime, NEW c \in Ops, NEW plan \in Plan,
           admit_resources(c, plan), pc[c] \in {"idle", "found"},
           pc[c] = "idle" /\ ~Root(c) => pc[Parent[c]] = "running"
    PROVE  Prepares(c)
<1>1. Asked(c, plan) \/ Denied(c) \/ \E n \in Nat : Shared(c, n)
    BY AdmitOutcomes
<1> QED BY <1>1 DEF Prepares

LEMMA CallWays ==
    ASSUME TypeOK, NEW c \in Ops, Started(c), CallStep(c)
    PROVE  Prepares(c) \/ Granted(c) \/ Finishes(c) \/ Leaves(c)
<1>1. ASSUME Find(c)
      PROVE  /\ pc[c] = "idle" /\ options # NoRuntime
             /\ ~Root(c) => pc[Parent[c]] = "running"
    BY <1>1 DEF Find
<1>2. CASE PrepareForced(c)
    BY <1>1, <1>2, FindCopies, ForcedPlanTyped, Admits DEF PrepareForced
<1>3. CASE PrepareReplay(c)
    <2>1. exact'[c].plan \in Plan
        BY <1>3, FindCopies, EntryPlans DEF PrepareReplay, Replayable
    <2> QED BY <1>1, <1>3, <2>1, Admits DEF PrepareReplay
<1>4. CASE PrepareCold(c)
    BY <1>1, <1>4, Admits DEF PrepareCold, Plan
<1>5. CASE WarmStart(c)
    <2>1. exact[c].plan \in Plan /\ options # NoRuntime
        BY <1>5, TypeParts, EntryPlans DEF WarmStart, Started, LocalsTyped
    <2> QED BY <1>5, <2>1, Admits DEF WarmStart
<1>6. CASE StartCold(c)
    BY <1>6, Admits DEF StartCold, Plan, Started
<1>7. CASE RejectReplay(c)
    BY <1>1, <1>7 DEF RejectReplay, Prepares, Denied
<1>8. CASE PrepareWarm(c)
    BY <1>1, <1>8 DEF PrepareWarm, Prepares
<1>9. CASE Admitted(c)
    <2>1. /\ resource_lease' = [resource_lease EXCEPT ![c] = c]
          /\ \E n \in Nat : /\ held' = [held EXCEPT ![c] = n]
                            /\ granted' = [granted EXCEPT ![c] = n]
        BY <1>9, AdmittedWith
    <2> QED BY <1>9, <2>1 DEF Admitted, Granted
<1>10. CASE Refused(c)
    BY <1>10 DEF Refused, Governor!Refuse, Finishes
<1>11. CASE Throws(c) \/ complete_semantic_operation(c)
    BY <1>11 DEF Throws, complete_semantic_operation, Finishes
<1>12. CASE Leave(c)
    BY <1>12 DEF Leave, Governor!GiveBack, Leaves
<1> QED BY <1>2, <1>3, <1>4, <1>5, <1>6, <1>7, <1>8, <1>9, <1>10, <1>11, <1>12
        DEF CallStep

\* A call with a callee under way does not move, so the enclosing call of a
\* call that moves is another one, and stays where it is.
LEMMA Enclosing ==
    ASSUME TypeOK, PermitsInv, NEW c \in Ops, GoesOn(c), Alone(c),
           NEW d \in Ops, ~Root(d), Parent[d] = c,
           pc[d] \in {"found", "running", "leaving"}
    PROVE  FALSE
<1>1. pc[c] = "running"
    BY DEF PermitsInv, Permits
<1>2. CalleesEnded(c)
    BY <1>1 DEF GoesOn, Prepares, Granted, Finishes, Leaves
<1> QED BY <1>2 DEF CalleesEnded

\* When a call of the top level leaves, no call is left that carries its
\* lease: such calls would lie in a circle of calls in calls.
LEMMA LeaseUnused ==
    ASSUME PermitsInv, NEW c \in Ops, Root(c), pc[c] = "leaving",
           NEW d \in Ops, Active(d), resource_lease[d] = c
    PROVE  d = c
<1> DEFINE S == {x \in Ops : ~Root(x) /\ Active(x) /\ resource_lease[x] = c}
<1>1. ASSUME NEW x \in S PROVE Parent[x] \in S
    <2> DEFINE y == Parent[x]
    <2>1. y \in Ops
        BY DEF Root
    <2>2. pc[y] = "running" /\ resource_lease[x] = resource_lease[y]
        BY DEF PermitsInv, Permits, Active
    <2>3. y # c /\ Active(y)
        BY <2>2 DEF Active
    <2>4. ~Root(y)
        <3>1. Permits(y)
            BY <2>1 DEF PermitsInv
        <3> QED BY <2>2, <2>3, <3>1 DEF Permits
    <2> QED BY <2>1, <2>2, <2>3, <2>4
<1>2. S \in SUBSET Ops
    OBVIOUS
<1>3. S = {}
    <2> HIDE DEF S
    <2> QED BY <1>1, <1>2, NestingAssumption
<1>4. Root(d)
    BY <1>3
<1> QED BY <1>4 DEF PermitsInv, Permits

LEMMA PermitsOther ==
    ASSUME TypeOK, PermitsInv, NEW c \in Ops, GoesOn(c), Alone(c),
           NEW d \in Ops, d # c
    PROVE  Permits(d)'
<1>1. /\ pc'[d] = pc[d] /\ granted'[d] = granted[d] /\ held'[d] = held[d]
      /\ resource_lease'[d] = resource_lease[d]
    BY DEF Alone
<1>2. Permits(d)
    BY DEF PermitsInv
<1>3. CASE Root(d)
    BY <1>1, <1>2, <1>3 DEF Permits, Root, Active
<1>4. CASE ~Root(d) /\ pc[d] \in {"found", "running", "leaving"}
    <2>1. Parent[d] \in Ops \ {c}
        BY <1>4, Enclosing DEF Root
    <2>2. /\ pc'[Parent[d]] = pc[Parent[d]]
          /\ resource_lease'[Parent[d]] = resource_lease[Parent[d]]
        BY <2>1 DEF Alone
    <2> QED BY <1>1, <1>2, <1>4, <2>2 DEF Permits, Root, Active
<1>5. CASE ~Root(d) /\ ~(pc[d] \in {"found", "running", "leaving"})
    BY <1>1, <1>2, <1>5 DEF Permits, Root, Active
<1> QED BY <1>3, <1>4, <1>5

\* A lease in use outlives the step of another call, and of its own call.
LEMMA LeasedOther ==
    ASSUME TypeOK, PermitsInv, NEW c \in Ops, GoesOn(c), Alone(c),
           NEW d \in Ops, d # c
    PROVE  Leased(d)'
<1> DEFINE r == resource_lease[d]
<1>1. /\ pc'[d] = pc[d] /\ granted'[d] = granted[d] /\ resource_lease'[d] = r
    BY DEF Alone
<1>2. SUFFICES ASSUME Active(d)
               PROVE  Active(r)' /\ granted'[r] = granted[r]
    BY <1>1 DEF Leased, Active, Root, PermitsInv
<1>3. Leased(d) /\ r \in Ops /\ Root(r) /\ Active(r)
    BY <1>2 DEF PermitsInv, Leased
<1>4. CASE r # c
    BY <1>3, <1>4 DEF Alone, Active
<1>5. CASE r = c
    <2>1. pc[c] \in {"running", "leaving"}
        BY <1>3, <1>5 DEF Active
    <2>2. pc[c] # "leaving"
        BY <1>2, <1>3, <1>5, LeaseUnused
    <2>3. Finishes(c)
        BY <2>1, <2>2 DEF GoesOn, Prepares, Granted, Leaves
    <2> QED BY <1>3, <1>5, <2>1, <2>3 DEF TypeOK, Finishes, Active
<1> QED BY <1>4, <1>5

LEMMA PermitsOwn ==
    ASSUME TypeOK, PermitsInv, NEW c \in Ops, GoesOn(c), Alone(c)
    PROVE  Permits(c)' /\ Leased(c)'
<1>1. Permits(c) /\ Leased(c)
    BY DEF PermitsInv
<1>2. /\ pc \in [Ops -> Places] /\ granted \in [Ops -> Nat]
      /\ held \in [Ops -> Nat] /\ resource_lease \in [Ops -> Ops \cup {NoOp}]
    BY DEF TypeOK
<1>3. CASE Root(c)
    <2>1. CASE Prepares(c)
        BY <1>1, <1>2, <1>3, <2>1
           DEF Prepares, Permits, Leased, Root, Active, Asked, Denied, Shared
    <2>2. CASE Granted(c)
        BY <1>1, <1>2, <1>3, <2>2 DEF Granted, Permits, Leased, Root, Active
    <2>3. CASE Finishes(c)
        BY <1>1, <1>2, <1>3, <2>3 DEF Finishes, Permits, Leased, Root, Active
    <2>4. CASE Leaves(c)
        BY <1>1, <1>2, <1>3, <2>4 DEF Leaves, Permits, Leased, Root, Active
    <2> QED BY <2>1, <2>2, <2>3, <2>4 DEF GoesOn
<1>4. CASE ~Root(c)
    <2>1. ~Granted(c) /\ pc[c] # "admission"
        BY <1>1, <1>4 DEF Granted, Permits
    <2>2. pc[Parent[c]] = "running" /\ Parent[c] # c
        <3>1. pc[c] \in {"found", "running", "leaving"} => Parent[c] # c
            BY <1>4, Enclosing
        <3>2. pc[c] \in {"found", "running", "leaving"} \/ pc[c] = "idle"
            BY <2>1 DEF GoesOn, Prepares, Granted, Finishes, Leaves
        <3>3. pc[c] = "idle" => pc[Parent[c]] = "running"
            BY <1>4 DEF GoesOn, Prepares, Granted, Finishes, Leaves
        <3> QED BY <1>1, <1>4, <3>1, <3>2, <3>3 DEF Permits
    <2> DEFINE r == resource_lease[Parent[c]]
    <2>3. /\ Parent[c] \in Ops \ {c} /\ pc'[Parent[c]] = "running"
          /\ resource_lease'[Parent[c]] = r
        <3>1. Parent[c] \in Ops \ {c}
            BY <1>4, <2>2 DEF Root
        <3> QED BY <2>2, <3>1 DEF Alone
    <2>4. /\ r \in Ops \ {c} /\ Root(r) /\ granted'[r] = granted[r]
          /\ pc'[r] \in {"running", "leaving"}
        <3>1. Leased(Parent[c])
            BY <2>3 DEF PermitsInv
        <3>2. r \in Ops /\ Root(r) /\ Active(r)
            BY <2>2, <3>1 DEF Leased, Active
        <3> QED BY <1>4, <3>2 DEF Alone, Active
    <2>5. CASE Prepares(c)
        <3>1. held[c] = 0 /\ ~Active(c)
            BY <1>1, <1>4, <2>5 DEF Permits, Prepares, Active
        <3>2. held' = held
            BY <1>4, <2>5 DEF Prepares, Asked, Denied, Shared
        <3>3. pc'[c] # "admission"
            BY <1>2, <1>4, <2>5 DEF Prepares, Asked, Denied, Shared
        <3>4. ASSUME Active(c)'
              PROVE  resource_lease'[c] = r /\ granted'[c] <= granted[r]
            <4>1. PICK n \in Nat : Shared(c, n)
                BY <1>2, <1>4, <2>5, <3>4 DEF Prepares, Asked, Denied, Active
            <4>2. lease_control_granted_workers(r) = granted[r]
                BY <2>4 DEF lease_control_granted_workers
            <4> QED BY <1>2, <4>1, <4>2 DEF Shared
        <3>5. Permits(c)'
            BY <1>4, <2>3, <3>1, <3>2, <3>3, <3>4 DEF Permits, Root
        <3>6. Leased(c)'
            BY <2>4, <3>4 DEF Leased, Root, Active
        <3> QED BY <3>5, <3>6
    <2>6. CASE Finishes(c)
        <3>1. pc[c] = "running" /\ pc'[c] = "leaving"
            BY <1>2, <2>1, <2>6 DEF Finishes
        <3>2. Permits(c)'
            BY <1>1, <1>4, <2>3, <2>6, <3>1 DEF Finishes, Permits, Root, Active
        <3>3. resource_lease[c] = r /\ granted[c] <= granted[r]
            BY <1>1, <1>4, <3>1 DEF Permits, Leased, Active
        <3>4. Leased(c)'
            BY <2>4, <2>6, <3>3 DEF Leased, Finishes, Root, Active
        <3> QED BY <3>2, <3>4
    <2>7. CASE Leaves(c)
        BY <1>1, <1>2, <1>4, <2>3, <2>7 DEF Leaves, Permits, Leased, Root, Active
    <2> QED BY <2>1, <2>5, <2>6, <2>7 DEF GoesOn
<1> QED BY <1>3, <1>4

LEMMA PermitsKept ==
    ASSUME TypesInv, PermitsInv, NEW c \in Ops, CallStep(c)
    PROVE  PermitsInv'
<1>1. TypeOK /\ Started(c) /\ Alone(c)
    BY CallLocal DEF TypesInv, Local
<1>2. GoesOn(c)
    BY <1>1, CallWays DEF GoesOn
<1>3. ASSUME NEW d \in Ops PROVE Permits(d)' /\ Leased(d)'
    BY <1>1, <1>2, PermitsOther, LeasedOther, PermitsOwn
<1> QED BY <1>3 DEF PermitsInv

-----------------------------------------------------------------------------
(* Deterministic replay.                                                   *)

ReplayMode ==
    options # NoRuntime /\ Deterministic /\ options.profile_access # "Disabled"

\* The workers of a stored plan.
Workers(e) == IF e.plan.parallel THEN e.plan.jobs ELSE 1

\* From its admission on a call has an approved entry, asks for the workers
\* of its plan, no more and no less, and runs with them.
Replay(c) ==
    /\ pc[c] # "found"
    /\ pc[c] \in {"admission", "running", "leaving"}
         => /\ exact[c] \in ProfileEntry /\ exact[c].status = "Approved"
            /\ exact_plan[c] = exact[c].plan
    /\ pc[c] = "admission" => contract[c] = [least |-> Workers(exact[c]),
                                             most |-> Workers(exact[c])]
    /\ pc[c] \in {"running", "leaving"} => granted[c] = Workers(exact[c])
ReplayInv == ReplayMode => \A c \in Ops : Replay(c)

LEMMA WorkersTyped ==
    ASSUME NEW e \in ProfileEntry
    PROVE  Workers(e) \in Nat
BY DEF Workers, ProfileEntry, EntryFrom, ExecutionPlan

\* A replayable entry asks for exactly the workers of its plan.
LEMMA ReplayAsks ==
    ASSUME TypeOK, ReplayMode, NEW e \in Entry, Replayable(e)
    PROVE  /\ e \in ProfileEntry /\ e.status = "Approved"
           /\ requested_workers(e.plan) = Workers(e)
           /\ Least(e.plan) = Workers(e)
<1>1. /\ e \in ProfileEntry /\ e.plan \in ExecutionPlan /\ e.plan \in Plan
    BY EntryPlans DEF Replayable
<1>2. /\ e.status = "Approved" /\ e.budget # 0
      /\ e.plan.parallel => e.plan.jobs = e.budget
    BY DEF Replayable, compatibility
<1>3. e.plan # NoPlan /\ e.plan.jobs \in Nat /\ e.plan.parallel \in BOOLEAN
    BY <1>1, PlanTyped
<1>4. e.budget \in Nat
    BY <1>1 DEF ProfileEntry, EntryFrom
<1>5. e.plan.parallel => AtLeast(1, e.plan.jobs) = e.plan.jobs
    BY <1>2, <1>3, <1>4 DEF AtLeast
<1>6. requested_workers(e.plan) = Workers(e)
    BY <1>3, <1>5 DEF requested_workers, Workers, ReplayMode
<1> QED BY <1>1, <1>2, <1>6 DEF Least, ReplayMode

LEMMA ReplayPrepared ==
    ASSUME TypeOK, ReplayMode, NEW c \in Ops, PrepareReplay(c)
    PROVE  Replay(c)'
<1> DEFINE e == exact'[c]
           q == e.plan
           r == Workers(e)
<1>1. /\ Find(c) /\ Replayable(e) /\ exact_plan' = [exact_plan EXCEPT ![c] = q]
      /\ admit_resources(c, q)
    BY DEF PrepareReplay
<1>2. e \in Entry /\ options # NoRuntime
    BY <1>1, FindCopies
<1>3. /\ e \in ProfileEntry /\ e.status = "Approved"
      /\ requested_workers(q) = r /\ Least(q) = r
    BY <1>1, <1>2, ReplayAsks
<1>4. q \in Plan
    BY <1>2, <1>3, EntryPlans
<1>5. exact_plan'[c] = q
    BY <1>1, TypeParts DEF LocalsTyped
<1>6. \/ Asked(c, q)
      \/ Denied(c)
      \/ \E n \in Nat : Shared(c, n) /\ n = r
    BY <1>1, <1>2, <1>3, <1>4, AdmitOutcomes DEF ReplayMode
<1>7. /\ pc \in [Ops -> Places] /\ granted \in [Ops -> Nat]
      /\ contract \in [Ops -> [least : Nat, most : Nat]]
    BY DEF TypeOK
<1> HIDE DEF e, q, r
<1>8. /\ pc'[c] # "found"
      /\ pc'[c] = "admission" => contract'[c] = [least |-> r, most |-> r]
      /\ pc'[c] \in {"running", "leaving"} => granted'[c] = r
    <2>1. CASE Asked(c, q)
        BY <1>3, <1>7, <2>1 DEF Asked
    <2>2. CASE Denied(c)
        BY <1>7, <2>2 DEF Denied
    <2>3. CASE \E n \in Nat : Shared(c, n) /\ n = r
        BY <1>7, <2>3 DEF Shared
    <2> QED BY <1>6, <2>1, <2>2, <2>3
<1> QED BY <1>3, <1>5, <1>8 DEF Replay, e, q, r

LEMMA ReplayAdmitted ==
    ASSUME TypeOK, ReplayMode, NEW c \in Ops, Replay(c), Admitted(c)
    PROVE  Replay(c)'
<1> DEFINE r == Workers(exact[c])
<1>1. PICK n \in Nat :
         /\ contract[c].least <= n /\ n <= contract[c].most
         /\ granted' = [granted EXCEPT ![c] = n]
         /\ exact_plan' = exact_plan
    BY AdmittedWith DEF ReplayMode
<1>2. /\ exact[c] \in ProfileEntry /\ exact[c].status = "Approved"
      /\ exact_plan[c] = exact[c].plan
      /\ contract[c] = [least |-> r, most |-> r]
    BY DEF Replay, Admitted
<1>3. r \in Nat
    BY <1>2, WorkersTyped
<1>4. n = r
    BY <1>1, <1>2, <1>3
<1>5. exact' = exact /\ pc'[c] = "running" /\ granted'[c] = n
    BY <1>1 DEF Admitted, TypeOK
<1> QED BY <1>1, <1>2, <1>4, <1>5 DEF Replay, Workers

LEMMA ReplayKept ==
    ASSUME TypesInv, ReplayInv, NEW c \in Ops, CallStep(c)
    PROVE  ReplayInv'
<1>1. Local(c) /\ TypeOK /\ Started(c)
    BY CallLocal DEF TypesInv
<1> SUFFICES ASSUME ReplayMode', NEW d \in Ops
             PROVE  Replay(d)'
    BY DEF ReplayInv
<1>2. ReplayMode
    BY <1>1 DEF Local, ReplayMode, Deterministic
<1>3. Replay(c) /\ Replay(d)
    BY <1>2 DEF ReplayInv
<1>4. CASE d # c
    BY <1>1, <1>3, <1>4 DEF Local, Alone, Replay, Workers
<1>5. CASE d = c
    <2>1. ~(PrepareForced(c) \/ PrepareCold(c) \/ PrepareWarm(c))
        BY <1>2 DEF ReplayMode, PrepareForced, PrepareCold, PrepareWarm
    <2>2. ~(WarmStart(c) \/ StartCold(c))
        BY <1>3 DEF Replay, WarmStart, StartCold
    <2>3. CASE PrepareReplay(c)
        BY <1>1, <1>2, <1>5, <2>3, ReplayPrepared
    <2>4. CASE Admitted(c)
        BY <1>1, <1>2, <1>3, <1>5, <2>4, ReplayAdmitted
    <2>5. CASE RejectReplay(c) \/ Refused(c) \/ Leave(c)
        <3>1. pc'[c] \in {"rejected", "ended"}
            BY <1>1, <2>5 DEF TypeOK, RejectReplay, Refused, Leave
        <3> QED BY <1>5, <3>1 DEF Replay
    <2>6. CASE Throws(c) \/ complete_semantic_operation(c)
        <3>1. /\ pc[c] = "running" /\ pc'[c] = "leaving"
              /\ UNCHANGED <<exact, exact_plan, granted>>
            BY <1>1, <2>6 DEF TypeOK, Throws, complete_semantic_operation
        <3> QED BY <1>3, <1>5, <3>1 DEF Replay, Workers
    <2> QED BY <2>1, <2>2, <2>3, <2>4, <2>5, <2>6 DEF CallStep
<1> QED BY <1>4, <1>5

-----------------------------------------------------------------------------
(* Warm starts and samples.                                                *)

LEMMA CallMoved ==
    ASSUME TypeOK, NEW c \in Ops, Started(c), CallStep(c)
    PROVE  pc'[c] # "idle"
<1>1. Prepares(c) \/ Granted(c) \/ Finishes(c) \/ Leaves(c)
    BY CallWays
<1>2. pc \in [Ops -> Places]
    BY DEF TypeOK
<1> QED BY <1>1, <1>2 DEF Prepares, Granted, Finishes, Leaves, Asked, Denied,
                          Shared

\* An entry that warm-started a call since the last load is remembered.
Warmed(c) ==
    warm_start[c] # Never =>
        /\ pc[c] # "idle" /\ warm_start[c][1] <= generation
        /\ warm_start[c][1] = generation
             => <<Workload[c], warm_start[c][2]>> \in warm_started_entries
WarmInv == (\A c \in Ops : Warmed(c)) /\ WarmStartOnce

LEMMA WarmKept ==
    ASSUME TypesInv, WarmInv, NEW c \in Ops, CallStep(c)
    PROVE  WarmInv'
<1>1. /\ Alone(c) /\ generation' = generation /\ pc'[c] # "idle"
      /\ generation \in Nat /\ exact[c] \in Entry
      /\ warm_start \in [Ops -> Nat \X Entry]
    BY CallLocal, CallMoved, TypeParts
       DEF TypesInv, Local, LocalsTyped, RuntimeTyped
<1>2. CASE WarmStart(c)
    <2> DEFINE s == <<generation, exact[c]>>
    <2>1. /\ <<Workload[c], exact[c]>> \notin warm_started_entries
          /\ warm_started_entries' =
               warm_started_entries \cup {<<Workload[c], exact[c]>>}
          /\ warm_start' = [warm_start EXCEPT ![c] = s]
        BY <1>2 DEF WarmStart, Remembered
    <2>2. s[1] = generation /\ s[2] = exact[c]
        OBVIOUS
    <2> HIDE DEF s
    <2>3. warm_start'[c] = s /\ \A d \in Ops \ {c} : warm_start'[d] = warm_start[d]
        BY <1>1, <2>1
    <2>4. ASSUME NEW d \in Ops PROVE Warmed(d)'
        <3>1. CASE d = c
            BY <1>1, <2>1, <2>2, <2>3, <3>1 DEF Warmed
        <3>2. CASE d # c
            <4>1. Warmed(d) /\ pc'[d] = pc[d]
                BY <1>1, <3>2 DEF WarmInv, Alone
            <4> QED BY <1>1, <2>1, <2>3, <3>2, <4>1 DEF Warmed
        <3> QED BY <3>1, <3>2
    <2>5. ASSUME NEW d \in Ops \ {c}, Workload[d] = Workload[c],
                 warm_start[d] = s, s # Never
          PROVE  FALSE
        <3>1. Warmed(d)
            BY DEF WarmInv
        <3>2. <<Workload[d], exact[c]>> \in warm_started_entries
            BY <2>2, <2>5, <3>1 DEF Warmed
        <3> QED BY <2>1, <2>5, <3>2
    <2>6. WarmStartOnce'
        <3> SUFFICES ASSUME NEW d \in Ops, NEW e \in Ops, warm_start'[d] # Never,
                            Workload[d] = Workload[e],
                            warm_start'[d] = warm_start'[e]
                     PROVE  d = e
            BY DEF WarmStartOnce
        <3>1. CASE d # c /\ e # c
            BY <2>3, <3>1 DEF WarmInv, WarmStartOnce
        <3>2. CASE d = c \/ e = c
            BY <2>3, <2>5, <3>2
        <3> QED BY <3>1, <3>2
    <2> QED BY <2>4, <2>6 DEF WarmInv
<1>3. CASE ~WarmStart(c)
    <2>1. warm_start' = warm_start /\ warm_started_entries' = warm_started_entries
        BY <1>3 DEF CallStep, PrepareForced, PrepareReplay, RejectReplay,
                    PrepareCold, PrepareWarm, Find, StartCold, Admitted, Refused,
                    Throws, complete_semantic_operation, Leave
    <2>2. ASSUME NEW d \in Ops PROVE Warmed(d)'
        <3>1. Warmed(d) /\ (pc[d] # "idle" => pc'[d] # "idle")
            BY <1>1 DEF WarmInv, Alone
        <3> QED BY <1>1, <2>1, <3>1 DEF Warmed
    <2>3. WarmStartOnce'
        BY <2>1 DEF WarmInv, WarmStartOnce
    <2> QED BY <2>2, <2>3 DEF WarmInv
<1> QED BY <1>2, <1>3

\* A sample recorded since the last load is counted by the entry.
Sampled(c) ==
    sample[c] # <<0, 0>> =>
        /\ pc[c] # "idle" /\ sample[c][1] <= generation
        /\ sample[c][1] = generation
             => /\ profiles[Workload[c]] # NoEntry
                /\ sample[c][2] <= profiles[Workload[c]].samples
SampleInv == (\A c \in Ops : Sampled(c)) /\ NoSampleLost

LEMMA SampleKept ==
    ASSUME TypesInv, SampleInv, NEW c \in Ops, CallStep(c)
    PROVE  SampleInv'
<1>1. /\ TypeOK /\ Alone(c) /\ generation' = generation /\ pc'[c] # "idle"
      /\ generation \in Nat /\ profiles \in ProfileDatabase
      /\ sample \in [Ops -> Nat \X Nat]
    BY CallLocal, CallMoved, TypeParts
       DEF TypesInv, Local, LocalsTyped, RuntimeTyped
<1>2. CASE profiles' = profiles /\ sample' = sample
    <2>1. ASSUME NEW d \in Ops PROVE Sampled(d)'
        <3>1. Sampled(d) /\ (pc[d] # "idle" => pc'[d] # "idle")
            BY <1>1 DEF SampleInv, Alone
        <3> QED BY <1>1, <1>2, <3>1 DEF Sampled
    <2>2. NoSampleLost'
        BY <1>2 DEF SampleInv, NoSampleLost
    <2> QED BY <2>1, <2>2 DEF SampleInv
<1>3. ASSUME NEW e \in ProfileEntry, Learned(c, e)
      PROVE  SampleInv'
    <2> DEFINE k == Workload[c]
               old == profiles[k]
               s == <<generation, e.samples>>
    <2>1. /\ profiles' = [profiles EXCEPT ![k] = e]
          /\ sample' = [sample EXCEPT ![c] = s]
          /\ e.samples = IF old = NoEntry THEN 1 ELSE old.samples + 1
        BY <1>3 DEF Learned
    <2>2. s[1] = generation /\ s[2] = e.samples
        OBVIOUS
    <2>3. e.samples \in Nat /\ e # NoEntry
        BY DEF ProfileEntry, EntryFrom
    <2>4. old # NoEntry => old.samples \in Nat
        BY <1>1 DEF ProfileDatabase, ProfileEntry, EntryFrom
    <2>5. s # <<0, 0>>
        <3>1. e.samples # 0
            BY <2>1, <2>4
        <3> QED BY <3>1
    <2> HIDE DEF s
    <2>6. /\ sample'[c] = s /\ \A d \in Ops \ {c} : sample'[d] = sample[d]
          /\ profiles'[k] = e
          /\ \A j \in Workloads \ {k} : profiles'[j] = profiles[j]
        BY <1>1, <2>1 DEF ProfileDatabase
    <2>7. ASSUME NEW d \in Ops \ {c}, Workload[d] = k, sample[d] # <<0, 0>>,
                 sample[d][1] = generation
          PROVE  sample[d][2] < e.samples
        <3>1. Sampled(d) /\ sample[d][2] \in Nat
            BY <1>1 DEF SampleInv
        <3>2. old # NoEntry /\ sample[d][2] <= old.samples
            BY <2>7, <3>1 DEF Sampled
        <3> QED BY <2>1, <2>4, <3>1, <3>2
    <2> HIDE DEF old
    <2>8. ASSUME NEW d \in Ops PROVE Sampled(d)'
        <3>1. CASE d = c
            BY <1>1, <2>2, <2>3, <2>6, <3>1 DEF Sampled
        <3>2. CASE d # c
            <4>1. Sampled(d) /\ pc'[d] = pc[d] /\ sample'[d] = sample[d]
                BY <1>1, <2>6, <3>2 DEF SampleInv, Alone
            <4>2. CASE Workload[d] = k
                <5>1. sample[d][2] \in Nat
                    BY <1>1
                <5>2. /\ sample[d] # <<0, 0>> /\ sample[d][1] = generation
                      => sample[d][2] <= e.samples
                    BY <2>3, <2>7, <3>2, <4>2, <5>1
                <5> QED BY <1>1, <2>3, <2>6, <4>1, <4>2, <5>2 DEF Sampled
            <4>3. CASE Workload[d] # k
                <5>1. profiles'[Workload[d]] = profiles[Workload[d]]
                    BY <2>6, <4>3
                <5> QED BY <1>1, <4>1, <5>1 DEF Sampled
            <4> QED BY <4>2, <4>3
        <3> QED BY <3>1, <3>2
    <2>9. ASSUME NEW d \in Ops \ {c}, Workload[d] = k, sample[d] = s
          PROVE  FALSE
        <3>1. e.samples < e.samples
            BY <2>2, <2>5, <2>7, <2>9
        <3> QED BY <2>3, <3>1
    <2>10. NoSampleLost'
        <3> SUFFICES ASSUME NEW d \in Ops, NEW f \in Ops,
                            sample'[d] # <<0, 0>>, Workload[d] = Workload[f],
                            sample'[d] = sample'[f]
                     PROVE  d = f
            BY DEF NoSampleLost
        <3>1. CASE d # c /\ f # c
            BY <2>6, <3>1 DEF SampleInv, NoSampleLost
        <3>2. CASE d = c \/ f = c
            BY <2>6, <2>9, <3>2
        <3> QED BY <3>1, <3>2
    <2> QED BY <2>8, <2>10 DEF SampleInv
<1>4. CASE complete_semantic_operation(c)
    <2>1. \/ UNCHANGED <<profiles, sample>>
          \/ \E e \in ProfileEntry : Learned(c, e)
        BY <1>1, <1>4, CompletedWith
    <2> QED BY <1>2, <1>3, <2>1
<1>5. CASE ~complete_semantic_operation(c)
    <2>1. profiles' = profiles /\ sample' = sample
        BY <1>5 DEF CallStep, PrepareForced, PrepareReplay, RejectReplay,
                    PrepareCold, PrepareWarm, Find, WarmStart, StartCold,
                    Admitted, Refused, Throws, Leave
    <2> QED BY <1>2, <2>1
<1> QED BY <1>4, <1>5

-----------------------------------------------------------------------------
(* The inductive invariant.                                                *)

CallsInv == TypesInv /\ PermitsInv /\ ReplayInv /\ WarmInv /\ SampleInv

LEMMA FreshCalls == Fresh => CallsInv
<1> SUFFICES ASSUME Fresh PROVE CallsInv
    OBVIOUS
<1>1. \A c \in Ops : /\ pc[c] = "idle" /\ held[c] = 0 /\ warm_start[c] = Never
                     /\ sample[c] = <<0, 0>>
    BY DEF Fresh
<1>2. PermitsInv
    BY <1>1 DEF PermitsInv, Permits, Leased, Active
<1>3. ReplayInv
    BY DEF ReplayInv, ReplayMode, Fresh
<1>4. WarmInv
    BY <1>1 DEF WarmInv, Warmed, WarmStartOnce
<1>5. SampleInv
    BY <1>1 DEF SampleInv, Sampled, NoSampleLost
<1> QED BY <1>2, <1>3, <1>4, <1>5, FreshTyped DEF CallsInv

LEMMA FreshCallsAgain == Fresh' => CallsInv'
BY FreshCalls, PTL

\* Steps that leave the calls and their profiles alone.
LEMMA CallsUntouched ==
    ASSUME CallsInv, TypesInv',
           UNCHANGED <<options, profiles, warm_started_entries, generation, pc,
                       exact, exact_plan, warm_start, granted,
                       resource_lease, sample, contract, held>>
    PROVE  CallsInv'
<1>1. PermitsInv'
    BY DEF CallsInv, PermitsInv, Permits, Leased, Root, Active
<1>2. ReplayInv'
    BY DEF CallsInv, ReplayInv, ReplayMode, Deterministic, Replay, Workers
<1>3. WarmInv'
    BY DEF CallsInv, WarmInv, Warmed, WarmStartOnce
<1>4. SampleInv'
    BY DEF CallsInv, SampleInv, Sampled, NoSampleLost
<1> QED BY <1>1, <1>2, <1>3, <1>4 DEF CallsInv

LEMMA CallsConstructed ==
    ASSUME CallsInv, TypesInv', NEW o \in RuntimeOptions, Construct(o)
    PROVE  CallsInv'
<1>1. UNCHANGED <<pc, granted, resource_lease, held, warm_start, sample>>
    BY DEF Construct
<1>2. \A c \in Ops : pc[c] = "idle"
    BY DEF CallsInv, TypesInv, Started, Construct
<1>3. \A c \in Ops : warm_start[c] = Never /\ sample[c] = <<0, 0>>
    BY <1>2 DEF CallsInv, WarmInv, Warmed, SampleInv, Sampled
<1>4. PermitsInv'
    BY <1>1 DEF CallsInv, PermitsInv, Permits, Leased, Root, Active
<1>5. ReplayInv'
    BY <1>1, <1>2 DEF ReplayInv, Replay
<1>6. WarmInv'
    BY <1>1, <1>3 DEF WarmInv, Warmed, WarmStartOnce
<1>7. SampleInv'
    BY <1>1, <1>3 DEF SampleInv, Sampled, NoSampleLost
<1> QED BY <1>4, <1>5, <1>6, <1>7 DEF CallsInv

LEMMA CallsLoaded ==
    ASSUME CallsInv, TypesInv', NEW p \in Paths, load_profiles(p)
    PROVE  CallsInv'
<1>1. /\ UNCHANGED <<options, pc, exact, exact_plan, warm_start, granted,
                     resource_lease, sample, contract, held>>
      /\ generation' = generation + 1
    BY DEF load_profiles
<1>2. /\ generation \in Nat /\ warm_start \in [Ops -> Nat \X Entry]
      /\ sample \in [Ops -> Nat \X Nat]
    BY TypeParts DEF CallsInv, TypesInv, LocalsTyped, RuntimeTyped
<1>3. PermitsInv'
    BY <1>1 DEF CallsInv, PermitsInv, Permits, Leased, Root, Active
<1>4. ReplayInv'
    BY <1>1 DEF CallsInv, ReplayInv, ReplayMode, Deterministic, Replay, Workers
<1>5. WarmInv'
    <2>1. ASSUME NEW c \in Ops PROVE Warmed(c)'
        <3>1. Warmed(c) /\ warm_start[c][1] \in Nat
            BY <1>2 DEF CallsInv, WarmInv
        <3> QED BY <1>1, <1>2, <3>1 DEF Warmed
    <2> QED BY <1>1, <2>1 DEF CallsInv, WarmInv, WarmStartOnce
<1>6. SampleInv'
    <2>1. ASSUME NEW c \in Ops PROVE Sampled(c)'
        <3>1. Sampled(c) /\ sample[c][1] \in Nat
            BY <1>2 DEF CallsInv, SampleInv
        <3> QED BY <1>1, <1>2, <3>1 DEF Sampled
    <2> QED BY <1>1, <2>1 DEF CallsInv, SampleInv, NoSampleLost
<1> QED BY <1>3, <1>4, <1>5, <1>6 DEF CallsInv

LEMMA CallsStep ==
    ASSUME CallsInv, [Next]_vars
    PROVE  CallsInv'
<1>1. TypesInv /\ TypesInv'
    BY TypesStep DEF CallsInv
<1>2. CASE UNCHANGED vars
    BY <1>1, <1>2, CallsUntouched
<1>3. ASSUME NEW o \in RuntimeOptions, Construct(o)
      PROVE  CallsInv'
    BY <1>1, <1>3, CallsConstructed
<1>4. ASSUME NEW p \in Paths, load_profiles(p)
      PROVE  CallsInv'
    BY <1>1, <1>4, CallsLoaded
<1>5. CASE Crash
    BY <1>1, <1>5, CrashFresh, FreshCallsAgain DEF TypesInv
<1>6. ASSUME NEW c \in Ops, CallStep(c)
      PROVE  CallsInv'
    BY <1>1, <1>6, PermitsKept, ReplayKept, WarmKept, SampleKept DEF CallsInv
<1>7. ASSUME NEW w \in Writers, WriterStep(w)
      PROVE  CallsInv'
    <2>1. Writes(w)
        BY <1>1, <1>7, WriterKeeps DEF TypesInv
    <2> QED BY <1>1, <2>1, CallsUntouched DEF Writes
<1> QED BY <1>2, <1>3, <1>4, <1>5, <1>6, <1>7, NextSteps

LEMMA CallsAlways == Spec => []CallsInv
<1>1. Init => CallsInv
    BY InitFresh, FreshCalls
<1>2. CallsInv /\ [Next]_vars => CallsInv'
    BY CallsStep
<1> QED BY <1>1, <1>2, PTL DEF Spec

\* prepare_semantic_operation of a deterministic Runtime with profiles: a
\* call runs the plan of an Approved entry with exactly the workers of that
\* plan, nested or not, whatever other calls, loads and saves do meanwhile.
THEOREM ReplayProved == Spec => []ReplayIsExact
<1>1. CallsInv => ReplayIsExact
    BY DEF CallsInv, ReplayInv, ReplayMode, Replay, ReplayIsExact, Replays,
           Active, Workers
<1> QED BY <1>1, CallsAlways, PTL

\* warm_started_entries: since the last load, an entry has warm-started at
\* most one call, although a call looks it up before it takes the mutex.
THEOREM WarmStartProved == Spec => []WarmStartOnce
<1>1. CallsInv => WarmStartOnce
    BY DEF CallsInv, WarmInv
<1> QED BY <1>1, CallsAlways, PTL

\* complete_semantic_operation: two calls never record the same sample of an
\* entry, so none is overwritten.
THEOREM SamplesProved == Spec => []NoSampleLost
<1>1. CallsInv => NoSampleLost
    BY DEF CallsInv, SampleInv
<1> QED BY <1>1, CallsAlways, PTL

\* admit_resources and the lease of a PreparedSemanticOperation: permits are
\* held by exactly the top-level calls that run, and a call nested at any
\* depth runs within the permits of a top-level call that has not left.
THEOREM PermitsProved == Spec => []PermitsFollowCalls
<1>1. CallsInv => PermitsFollowCalls
    <2> SUFFICES ASSUME CallsInv, NEW c \in Ops
                 PROVE  /\ held[c] = IF Root(c) /\ Active(c) THEN granted[c] ELSE 0
                        /\ Active(c) =>
                             /\ resource_lease[c] \in Ops
                             /\ Root(resource_lease[c]) /\ Active(resource_lease[c])
                             /\ granted[c] <= held[resource_lease[c]]
        BY DEF PermitsFollowCalls
    <2>1. \A d \in Ops : Permits(d) /\ Leased(d)
        BY DEF CallsInv, PermitsInv
    <2>2. \A d \in Ops : Root(d) /\ Active(d) => held[d] = granted[d]
        BY <2>1 DEF Permits
    <2> QED BY <2>1, <2>2 DEF Permits, Leased
<1> QED BY <1>1, CallsAlways, PTL
=============================================================================
