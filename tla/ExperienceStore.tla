--------------------------- MODULE ExperienceStore ---------------------------
(***************************************************************************)
(* The runtime experience of a process and its two files: the              *)
(* ExperienceDatabase (records by workload fingerprint, in them entries by *)
(* plan, both bounded and evicted by last access), the                     *)
(* HierarchicalResidualLearner, and the code of runtime_experience.hpp     *)
(* that loads, feeds and saves them around every execution.                *)
(*                                                                         *)
(* Persistence, autosave and residual learning are enabled.  An entry and  *)
(* a layer of the learner are abstracted to the set of executions (samples)*)
(* they have absorbed: their statistics are functions of those.  Every     *)
(* public operation of the database runs under its mutex_, every one of    *)
(* the learner under the learner's; a step below is one such section.  A   *)
(* save truncates its file and writes it in place, so that a failed write  *)
(* or a crash leaves any prefix of it; a write that fails only when the    *)
(* stream is destroyed is not noticed.                                     *)
(***************************************************************************)
EXTENDS Integers, FiniteSets, Sequences, SequencesExt

CONSTANTS Threads,      \* threads that execute loops
          Fingerprints, \* values of WorkloadFingerprint
          Plans,        \* values of ExperiencePlanKey
          Paths,        \* files an application uses for its experience
          ConfigPath,   \* Config::experience_file_path
          Interval,     \* Config::experience_autosave_interval
          RecordLimit,  \* Config::experience_cache_max_records
          PlanLimit,    \* Config::experience_cache_max_plans_per_record
          MaxSamples,   \* bound: executions recorded
          MaxRequests,  \* bound: explicit saves, loads, clears, decisions
          MaxFaults     \* bound: failed writes and crashes

NoPath == "no path"

ASSUME ExperienceAssumption ==
    /\ ConfigPath \in Paths /\ NoPath \notin Paths
    /\ {Interval, MaxSamples, MaxRequests, MaxFaults} \subseteq Nat
    /\ {RecordLimit, PlanLimit} \subseteq Nat \ {0}

VARIABLES records,         \* records_: the samples of each entry, {} for no entry
          recent,          \* fingerprints of records_, by last_access_epoch
          recentPlans,     \* per record its plans, by last_access_epoch
          dirty,           \* dirty_records_
          loaded,          \* loaded_path_ while loaded_, else NoPath
          learner,         \* samples of each layer of the residual models
          residualLoaded,  \* ResidualLoadState::loaded_path
          files,           \* the database's file at each path
          residuals,       \* the learner's file at each path
          calls,           \* what each thread is doing
          samples, requests, faults,   \* uses of the bounds
          home,            \* ghost: the path last saved to or loaded from
          torn,            \* ghost: a write of home's file has failed since
          interrupted,     \* ghost: clear() or a load of another path came while an
                           \* execution was between its load_once and its record
          cleared          \* ghost: clear() came after the last load

database == <<records, recent, recentPlans, dirty, loaded>>
disk == <<files, residuals>>
bounds == <<samples, requests, faults>>
ghosts == <<home, torn, interrupted, cleared>>
vars == <<database, learner, residualLoaded, disk, calls, bounds, ghosts>>

\* The models in the order save_to_file writes them: shared, then the backends,
\* then the families.
Layers == <<"shared", "backend", "family">>

NoRecords == [f \in Fingerprints |-> [p \in Plans |-> {}]]
Empty == [l \in Range(Layers) |-> {}]
NoFile == [present |-> FALSE, header |-> FALSE, lines |-> NoRecords]
NoResidual == [present |-> FALSE, whole |-> 0, layers |-> Empty]
Idle == [step |-> "idle"]

Entries == {e \in Fingerprints \X Plans : records[e[1]][e[2]] # {}}
InMemory == UNION {records[e[1]][e[2]] : e \in Entries}
InFile(path) ==
    IF path = NoPath THEN {}
    ELSE UNION {files[path].lines[f][p] : f \in Fingerprints, p \in Plans}

Init ==
    /\ records = NoRecords /\ recent = <<>>
    /\ recentPlans = [f \in Fingerprints |-> <<>>]
    /\ dirty = 0 /\ loaded = NoPath
    /\ learner = Empty /\ residualLoaded = NoPath
    /\ files = [path \in Paths |-> NoFile]
    /\ residuals = [path \in Paths |-> NoResidual]
    /\ calls = [t \in Threads |-> Idle]
    /\ samples = 0 /\ requests = 0 /\ faults = 0
    /\ home = NoPath /\ torn = FALSE /\ interrupted = FALSE /\ cleared = FALSE

Goto(t, step) == calls' = [calls EXCEPT ![t].step = step]
Finish(t) == calls' = [calls EXCEPT ![t] = Idle]

\* An execution that has passed load_once and is yet to record its sample.
Recording(t) ==
    \/ calls[t].step \in {"learn", "record"}
    \/ calls[t].step = "load learner" /\ calls[t].kind # "decide"

\* Ghosts: the records and the file at path agree, loaded_path_ being now.
Agree(path, now) ==
    /\ home' = path /\ torn' = FALSE
    /\ interrupted' = (now # ConfigPath /\ \E t \in Threads : Recording(t))

----------------------------------------------------------------------------
(* Access order and eviction.                                              *)

\* touch: x becomes the most recently used.
Touched(order, x) == Append(Remove(order, x), x)

\* evict_record_if_needed and evict_plan_if_needed: what is evicted, least
\* recently used first, to make room for x.
Victims(order, x, limit) ==
    IF x \in Range(order) \/ Len(order) < limit THEN {}
    ELSE Range(SubSeq(order, 1, Len(order) - limit + 1))

Without(order, gone) == SelectSeq(order, LAMBDA x : x \notin gone)

TouchEntry(f, p) ==
    /\ recent' = Touched(recent, f)
    /\ recentPlans' = [recentPlans EXCEPT ![f] = Touched(@, p)]

----------------------------------------------------------------------------
(* The database's own operations.                                          *)

\* Mutant: it counts the records that changed for the first time.
CountedOnce(f, p) == IF records[f][p] = {} THEN dirty + 1 ELSE dirty

\* dirty_records_ counts every sample.
Counted(f, p) == dirty + 1

\* record_unlocked.
Record(f, p, sample) ==
    LET goneRecords == Victims(recent, f, RecordLimit)
        gonePlans == Victims(recentPlans[f], p, PlanLimit)
    IN  /\ records' = [g \in Fingerprints |-> [q \in Plans |->
                CASE g \in goneRecords -> {}
                  [] g = f /\ q \in gonePlans -> {}
                  [] g = f /\ q = p -> records[f][p] \union {sample}
                  [] OTHER -> records[g][q]]]
        /\ recent' = Touched(Without(recent, goneRecords), f)
        /\ recentPlans' = [g \in Fingerprints |->
                CASE g \in goneRecords -> <<>>
                  [] g = f -> Touched(Without(recentPlans[f], gonePlans), p)
                  [] OTHER -> recentPlans[g]]
        /\ dirty' = Counted(f, p)

\* A file holds the entries of records_, in the map's order: any order.
FileOf(content) == [present |-> TRUE, header |-> TRUE, lines |-> content]

\* What a write that stops half way leaves: nothing, or whole lines for some of
\* the entries.  load_from_file_unlocked skips a line that was cut, or, cut in
\* the digits of its last number (outcome_sample_count), takes it as whole.
TornFiles ==
    {[NoFile EXCEPT !.present = TRUE]} \union
    {FileOf([f \in Fingerprints |-> [p \in Plans |->
                IF <<f, p>> \in written THEN records[f][p] ELSE {}]])
        : written \in SUBSET Entries}

\* save_to_file_unlocked, when all of it is written.
SaveDatabase(path) ==
    /\ files' = [files EXCEPT ![path] = FileOf(records)]
    /\ dirty' = 0
    /\ Agree(path, loaded)

\* The path cannot be opened, and nothing happens; or it is truncated and a
\* write fails.
SaveDatabaseFails(path) ==
    /\ faults < MaxFaults /\ faults' = faults + 1
    /\ \/ UNCHANGED <<files, torn>>
       \/ \E cut \in TornFiles :
            /\ files' = [files EXCEPT ![path] = cut]
            /\ torn' = (torn \/ home = path)
    /\ UNCHANGED <<dirty, home, interrupted>>

\* good() is asked while the last lines are still in the stream's buffer: when
\* the destructor fails to write them, the save has already reported success.
SaveDatabaseUnflushed(path) ==
    /\ faults < MaxFaults /\ faults' = faults + 1
    /\ \E cut \in TornFiles : files' = [files EXCEPT ![path] = cut]
    /\ dirty' = 0
    /\ home' = path /\ torn' = TRUE
    /\ UNCHANGED interrupted

\* load_from_file_unlocked: false when there is no file or not even one line in
\* it, and then nothing changes; else the file replaces the records.  Each
\* line is touched as it is read.
Loadable(path) == files[path].header

LoadDatabase(path) ==
    LET Plan(f) == {p \in Plans : files[path].lines[f][p] # {}}
    IN  /\ records' = files[path].lines
        /\ recent' \in SetToSeqs({f \in Fingerprints : Plan(f) # {}})
        /\ recentPlans' \in {o \in [Fingerprints -> UNION {SetToSeqs(S) : S \in SUBSET Plans}] :
                                \A f \in Fingerprints : Range(o[f]) = Plan(f)}
        /\ loaded' = path /\ dirty' = 0
        /\ Agree(path, path) /\ cleared' = FALSE

----------------------------------------------------------------------------
(* The residual learner's file.                                            *)

\* Of a file cut off after n layers the loader restores those, and of the next
\* layer what it read before it noticed: its header, or nothing.
RestoredLayers(file) ==
    {[l \in Range(Layers) |-> IF l \in Range(SubSeq(Layers, 1, n)) THEN file.layers[l] ELSE learner[l]]
        : n \in {file.whole} \union ({file.whole + 1} \intersect (1..Len(Layers)))}

\* HierarchicalResidualLearner::load_from_file: the models are overwritten as
\* they are read.
LoadLearner(path) == learner' \in RestoredLayers(residuals[path])
Whole(file) == file.whole = Len(Layers)

\* HierarchicalResidualLearner::save_to_file, whole or cut off after n layers.
ResidualOf(n) == [present |-> TRUE, whole |-> n, layers |-> learner]

SaveLearner(path) ==
    residuals' = [residuals EXCEPT ![path] = ResidualOf(Len(Layers))]

SaveLearnerFails(path) ==
    /\ faults < MaxFaults /\ faults' = faults + 1
    /\ \/ UNCHANGED residuals
       \/ \E n \in 0..Len(Layers) - 1 :
            residuals' = [residuals EXCEPT ![path] = ResidualOf(n)]

----------------------------------------------------------------------------
(* One execution: ensure_experience_loaded, then record_execution_experience. *)

Execute(t) ==
    /\ calls[t] = Idle /\ samples < MaxSamples
    /\ samples' = samples + 1
    /\ calls' = [calls EXCEPT ![t] = [step |-> "load database", kind |-> "record", sample |-> samples + 1]]
    /\ UNCHANGED <<database, learner, residualLoaded, disk, requests, faults, ghosts>>

\* HistoricalDecisionProvider::decide loads the files too.
Decide(t) ==
    /\ calls[t] = Idle /\ requests < MaxRequests
    /\ requests' = requests + 1
    /\ calls' = [calls EXCEPT ![t] = [step |-> "load database", kind |-> "decide"]]
    /\ UNCHANGED <<database, learner, residualLoaded, disk, samples, faults, ghosts>>

\* load_once: a missing file counts as loaded, and the records, which stay, as
\* saved.
Missing(path) ==
    /\ ~files[path].present
    /\ loaded' = path /\ dirty' = 0
    /\ UNCHANGED <<records, recent, recentPlans, ghosts>>

Unreadable(path) ==
    /\ files[path].present /\ ~Loadable(path)
    /\ loaded' = path
    /\ UNCHANGED <<records, recent, recentPlans, dirty, ghosts>>

LoadOnce(t) ==
    /\ calls[t].step = "load database"
    /\ \/ loaded = ConfigPath /\ UNCHANGED <<database, ghosts>>
       \/ loaded # ConfigPath /\ Missing(ConfigPath)
       \/ loaded # ConfigPath /\ Unreadable(ConfigPath)
       \/ loaded # ConfigPath /\ Loadable(ConfigPath) /\ LoadDatabase(ConfigPath)
    /\ Goto(t, "load learner")
    /\ UNCHANGED <<learner, residualLoaded, disk, bounds>>

\* Mutant: only a file that was there is marked.
MarkedIfPresent(path) == IF ~residuals[path].present THEN residualLoaded ELSE path

\* Even a missing or a torn file is marked as loaded.
MarkedLoaded(path) == path

LoadOnceLearner(t) ==
    /\ calls[t].step = "load learner"
    /\ \/ residualLoaded = ConfigPath /\ UNCHANGED <<learner, residualLoaded>>
       \/ /\ residualLoaded # ConfigPath
          /\ IF ~residuals[ConfigPath].present THEN UNCHANGED learner ELSE LoadLearner(ConfigPath)
          /\ residualLoaded' = MarkedLoaded(ConfigPath)
    /\ Goto(t, IF calls[t].kind = "decide" THEN "look" ELSE "learn")
    /\ UNCHANGED <<database, disk, bounds, ghosts>>

\* best_entry: the entry with the least average, and it counts as used.
BestEntry(t) ==
    /\ calls[t].step = "look"
    /\ \/ UNCHANGED <<recent, recentPlans>>
       \/ \E e \in Entries : TouchEntry(e[1], e[2])
    /\ Finish(t)
    /\ UNCHANGED <<records, dirty, loaded, learner, residualLoaded, disk, bounds, ghosts>>

\* The learner learns only from plans the decision had predicted.
Learn(t, f, p, predicted) ==
    LET sample == calls[t].sample
    IN  /\ calls[t].step = "learn"
        /\ learner' = IF predicted
                      THEN [l \in Range(Layers) |-> learner[l] \union {sample}]
                      ELSE learner
        /\ calls' = [calls EXCEPT ![t] = [step |-> "record", sample |-> sample, f |-> f, p |-> p]]
        /\ UNCHANGED <<database, residualLoaded, disk, bounds, ghosts>>

RecordSample(t) ==
    LET c == calls[t]
    IN  /\ c.step = "record"
        /\ Record(c.f, c.p, c.sample)
        /\ Goto(t, "find")
        /\ UNCHANGED <<loaded, learner, residualLoaded, disk, bounds, ghosts>>

FindPlan(t) ==
    LET c == calls[t]
    IN  /\ c.step = "find"
        /\ IF records[c.f][c.p] = {} THEN UNCHANGED <<recent, recentPlans>> ELSE TouchEntry(c.f, c.p)
        /\ Goto(t, "count")
        /\ UNCHANGED <<records, dirty, loaded, learner, residualLoaded, disk, bounds, ghosts>>

DirtyBefore(t) ==
    /\ calls[t].step = "count"
    /\ calls' = [calls EXCEPT ![t] = [step |-> "save", before |-> dirty]]
    /\ UNCHANGED <<database, learner, residualLoaded, disk, bounds, ghosts>>

\* save_if_due.
Due == dirty >= IF Interval = 0 THEN 1 ELSE Interval

NotDue(t) ==
    /\ calls[t].step = "save" /\ ~Due
    /\ Goto(t, "report")
    /\ UNCHANGED <<database, learner, residualLoaded, disk, bounds, ghosts>>

Autosave(t) ==
    /\ calls[t].step = "save" /\ Due
    /\ \/ SaveDatabase(ConfigPath) /\ UNCHANGED faults
       \/ SaveDatabaseUnflushed(ConfigPath)
    /\ Goto(t, "report")
    /\ UNCHANGED <<records, recent, recentPlans, loaded, learner, residualLoaded, residuals,
                   samples, requests, cleared>>

AutosaveFails(t) ==
    /\ calls[t].step = "save" /\ Due
    /\ SaveDatabaseFails(ConfigPath)
    /\ Finish(t)
    /\ UNCHANGED <<records, recent, recentPlans, loaded, learner, residualLoaded, residuals,
                   samples, requests, cleared>>

\* report.experience_saved is derived from the counter, read once more; it
\* decides whether the learner is saved as well.
Report(t) ==
    /\ calls[t].step = "report"
    /\ IF calls[t].before > 0 /\ dirty = 0
       THEN calls' = [calls EXCEPT ![t] = [step |-> "save learner", path |-> ConfigPath]]
       ELSE Finish(t)
    /\ UNCHANGED <<database, learner, residualLoaded, disk, bounds, ghosts>>

----------------------------------------------------------------------------
(* What the application asks for.                                          *)

\* save_experience and flush_experience: the database, then the learner.
SaveExperience(t, path) ==
    /\ calls[t] = Idle /\ requests < MaxRequests /\ requests' = requests + 1
    /\ \/ SaveDatabase(path) /\ UNCHANGED faults
       \/ SaveDatabaseFails(path)
       \/ SaveDatabaseUnflushed(path)
    /\ calls' = [calls EXCEPT ![t] = [step |-> "save learner", path |-> path]]
    /\ UNCHANGED <<records, recent, recentPlans, loaded, learner, residualLoaded, residuals, samples, cleared>>

SaveResidual(t) ==
    /\ calls[t].step = "save learner"
    /\ \/ SaveLearner(calls[t].path) /\ UNCHANGED faults
       \/ SaveLearnerFails(calls[t].path)
    /\ Finish(t)
    /\ UNCHANGED <<database, learner, residualLoaded, files, samples, requests, ghosts>>

\* load_experience: the database, then the learner.
LoadExperience(t, path) ==
    /\ calls[t] = Idle /\ requests < MaxRequests /\ requests' = requests + 1
    /\ IF Loadable(path) THEN LoadDatabase(path) ELSE UNCHANGED <<database, ghosts>>
    /\ calls' = [calls EXCEPT ![t] = [step |-> "restore", path |-> path]]
    /\ UNCHANGED <<learner, residualLoaded, disk, samples, faults>>

RestoreLearner(t) ==
    LET path == calls[t].path
    IN  /\ calls[t].step = "restore"
        /\ IF residuals[path].present THEN LoadLearner(path) ELSE UNCHANGED learner
        /\ IF residuals[path].present /\ Whole(residuals[path])
           THEN calls' = [calls EXCEPT ![t] = [step |-> "mark", path |-> path]]
           ELSE Finish(t)
        /\ UNCHANGED <<database, residualLoaded, disk, bounds, ghosts>>

\* mark_residual_loaded, when all of the file was read.
MarkRestored(t) ==
    /\ calls[t].step = "mark"
    /\ residualLoaded' = calls[t].path
    /\ Finish(t)
    /\ UNCHANGED <<database, learner, disk, bounds, ghosts>>

\* ExperienceDatabase::clear also forgets that the file was loaded.
ClearDatabase(t) ==
    /\ calls[t] = Idle /\ requests < MaxRequests /\ requests' = requests + 1
    /\ records' = NoRecords /\ recent' = <<>>
    /\ recentPlans' = [f \in Fingerprints |-> <<>>]
    /\ dirty' = 0 /\ loaded' = NoPath
    /\ Agree(home, NoPath) /\ cleared' = TRUE
    /\ UNCHANGED <<learner, residualLoaded, disk, calls, samples, faults>>

\* HierarchicalResidualLearner::clear does not.
ClearLearner(t) ==
    /\ calls[t] = Idle /\ requests < MaxRequests /\ requests' = requests + 1
    /\ learner' = Empty
    /\ UNCHANGED <<database, residualLoaded, disk, calls, samples, faults, ghosts>>

\* The process ends, perhaps in the middle of a save, and a new one starts.
Saving(t) == calls[t].step = "save" /\ Due

Crash ==
    /\ faults < MaxFaults /\ faults' = faults + 1
    /\ \/ UNCHANGED disk
       \/ /\ \E t \in Threads : Saving(t)
          /\ \E cut \in TornFiles : files' = [files EXCEPT ![ConfigPath] = cut]
          /\ UNCHANGED residuals
       \/ \E t \in Threads, n \in 0..Len(Layers) - 1 :
            /\ calls[t].step = "save learner"
            /\ residuals' = [residuals EXCEPT ![calls[t].path] = ResidualOf(n)]
            /\ UNCHANGED files
    /\ records' = NoRecords /\ recent' = <<>>
    /\ recentPlans' = [f \in Fingerprints |-> <<>>]
    /\ dirty' = 0 /\ loaded' = NoPath
    /\ learner' = Empty /\ residualLoaded' = NoPath
    /\ calls' = [t \in Threads |-> Idle]
    /\ home' = NoPath /\ torn' = FALSE /\ interrupted' = FALSE /\ cleared' = FALSE
    /\ UNCHANGED <<samples, requests>>

Step(t) ==
    \/ LoadOnce(t) \/ LoadOnceLearner(t) \/ BestEntry(t) \/ RecordSample(t)
    \/ FindPlan(t) \/ DirtyBefore(t) \/ NotDue(t) \/ Autosave(t) \/ AutosaveFails(t)
    \/ Report(t) \/ SaveResidual(t) \/ RestoreLearner(t) \/ MarkRestored(t)

Next ==
    \/ \E t \in Threads : Step(t)
    \/ \E t \in Threads : Execute(t) \/ Decide(t)
    \/ \E t \in Threads, f \in Fingerprints, p \in Plans, predicted \in BOOLEAN :
            Learn(t, f, p, predicted)
    \/ \E t \in Threads, path \in Paths : SaveExperience(t, path) \/ LoadExperience(t, path)
    \/ \E t \in Threads : ClearDatabase(t) \/ ClearLearner(t)
    \/ Crash

Spec == Init /\ [][Next]_vars

----------------------------------------------------------------------------

\* The counter that decides when to save (dirty_records_) never falls behind
\* the memory: of the samples in memory, at most so many are missing from the
\* file last saved or loaded, or, before there is one, at all.  A crash while
\* no call is under way therefore loses fewer than the autosave interval of them.
\* The exceptions are a write of that file that failed, noticed or not, and an
\* execution between whose load_once and record the database was cleared or
\* another file was loaded; each lasts until the next whole save or load.
AutosaveKeepsUp ==
    ~torn /\ ~interrupted => Cardinality(InMemory \ InFile(home)) <= dirty

\* The same of every execution, interrupted or not, when no write has failed.
\* It does not hold: the interrupted execution records its sample in a database
\* that is not loaded, so that the next load_once looks for the file again and,
\* when there is none, sets dirty_records_ to 0 and keeps the sample
\* (experience_database.hpp:319).  MCExperienceForgotten.cfg shows it.
NothingForgotten ==
    ~torn => Cardinality(InMemory \ InFile(home)) <= dirty

\* Loading on demand (ensure_experience_loaded) never discards what this process
\* has learned: runtime_experience.hpp marks even a missing file as loaded lest
\* "a newly learned in-memory model could later be overwritten by a stale file
\* appearing at the same path".  The database's clear() asks for a new load.
LoadsLoseNothing ==
    [][\A t \in Threads :
        /\ LoadOnceLearner(t) => \A l \in Range(Layers) : learner[l] \subseteq learner'[l]
        /\ LoadOnce(t) /\ ~cleared => InMemory \subseteq InMemory']_vars

=============================================================================
