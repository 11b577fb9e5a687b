------------------------ MODULE ExperienceStoreProofs ------------------------
(***************************************************************************)
(* Proofs about the runtime experience of a process: how much of it a      *)
(* crash can lose, and that loading on demand discards none of it, for any *)
(* number of threads, workloads, plans, files, saves, loads, failed writes *)
(* and crashes, and for every limit and autosave interval.                 *)
(***************************************************************************)
EXTENDS ExperienceStore, FiniteSetTheorems, TLAPS

USE ExperienceAssumption
USE DEF vars, database, disk, bounds, ghosts

-----------------------------------------------------------------------------
(* The samples in memory and in a file.                                    *)

LEMMA InMemoryIs ==
    \A x : x \in InMemory <=>
        \E f \in Fingerprints, p \in Plans : x \in records[f][p]
<1>1. ASSUME NEW x, x \in InMemory
      PROVE  \E f \in Fingerprints, p \in Plans : x \in records[f][p]
    <2>1. PICK e \in Entries : x \in records[e[1]][e[2]]
        BY <1>1 DEF InMemory
    <2>2. e[1] \in Fingerprints /\ e[2] \in Plans
        BY DEF Entries
    <2> QED BY <2>1, <2>2
<1>2. ASSUME NEW x, NEW f \in Fingerprints, NEW p \in Plans, x \in records[f][p]
      PROVE  x \in InMemory
    <2> DEFINE e == <<f, p>>
    <2>1. e[1] = f /\ e[2] = p /\ e \in Fingerprints \X Plans
        OBVIOUS
    <2> HIDE DEF e
    <2>2. e \in Entries
        BY <1>2, <2>1 DEF Entries
    <2> QED BY <1>2, <2>1, <2>2 DEF InMemory
<1> QED BY <1>1, <1>2

LEMMA InMemoryIsNext ==
    \A x : x \in InMemory' <=>
        \E f \in Fingerprints, p \in Plans : x \in records'[f][p]
<1>1. ASSUME NEW x, x \in InMemory'
      PROVE  \E f \in Fingerprints, p \in Plans : x \in records'[f][p]
    <2>1. PICK e \in Entries' : x \in records'[e[1]][e[2]]
        BY <1>1 DEF InMemory
    <2>2. e[1] \in Fingerprints /\ e[2] \in Plans
        BY DEF Entries
    <2> QED BY <2>1, <2>2
<1>2. ASSUME NEW x, NEW f \in Fingerprints, NEW p \in Plans, x \in records'[f][p]
      PROVE  x \in InMemory'
    <2> DEFINE e == <<f, p>>
    <2>1. e[1] = f /\ e[2] = p /\ e \in Fingerprints \X Plans
        OBVIOUS
    <2> HIDE DEF e
    <2>2. e \in Entries'
        BY <1>2, <2>1 DEF Entries
    <2> QED BY <1>2, <2>1, <2>2 DEF InMemory
<1> QED BY <1>1, <1>2

LEMMA InFileIs ==
    ASSUME NEW path \in Paths
    PROVE  \A x : x \in InFile(path) <=>
             \E f \in Fingerprints, p \in Plans : x \in files[path].lines[f][p]
BY DEF InFile

LEMMA InFileIsNext ==
    ASSUME NEW path \in Paths
    PROVE  \A x : x \in InFile(path)' <=>
             \E f \in Fingerprints, p \in Plans : x \in files'[path].lines[f][p]
BY DEF InFile

-----------------------------------------------------------------------------
(* Autosave.                                                               *)

\* The samples a crash would lose.
Unsaved == InMemory \ InFile(home)

\* There are no more of them than the dirty counter says.
KeepsUp == ~torn /\ ~interrupted => IsFiniteSet(Unsaved) /\ Cardinality(Unsaved) <= dirty

\* Every call has a step.
CallsTyped ==
    /\ calls = [t \in Threads |-> calls[t]]
    /\ \A t \in Threads : "step" \in DOMAIN calls[t]

\* Samples are recorded, and counted, in a database that is loaded: load_once
\* never resets a counter that has counted something.
OnTime ==
    ~interrupted =>
        /\ dirty = 0 \/ loaded = ConfigPath
        /\ \A t \in Threads : Recording(t) => loaded = ConfigPath

FilesTyped ==
    /\ files = [path \in Paths |-> files[path]]
    /\ home \in Paths \cup {NoPath} /\ dirty \in Nat

SavedInv == FilesTyped /\ CallsTyped /\ OnTime /\ KeepsUp

-----------------------------------------------------------------------------
(* Where the steps of a call lead.                                         *)

\* No thread but t is between its load_once and its record that was not before.
NoneButBegun(t) == \A u \in Threads : Recording(u)' => Recording(u) \/ (u = t /\ LoadOnce(t))

LEMMA Assigned ==
    ASSUME CallsTyped, NEW t \in Threads, NEW c, "step" \in DOMAIN c,
           calls' = [calls EXCEPT ![t] = c],
           c.step \in {"load learner", "learn", "record"} => Recording(t) \/ LoadOnce(t)
    PROVE  CallsTyped' /\ NoneButBegun(t)
<1>1. /\ calls' = [u \in Threads |-> calls'[u]]
      /\ calls'[t] = c
      /\ \A u \in Threads \ {t} : calls'[u] = calls[u]
    BY DEF CallsTyped
<1>2. CallsTyped'
    BY <1>1 DEF CallsTyped
<1>3. ASSUME NEW u \in Threads, Recording(u)', u # t
      PROVE  Recording(u)
    BY <1>1, <1>3 DEF Recording
<1>4. Recording(t)' => c.step \in {"load learner", "learn", "record"}
    BY <1>1 DEF Recording
<1> QED BY <1>2, <1>3, <1>4 DEF NoneButBegun

LEMMA Gone ==
    ASSUME CallsTyped, NEW t \in Threads, NEW s, Goto(t, s),
           s \in {"load learner", "learn", "record"} => Recording(t) \/ LoadOnce(t)
    PROVE  CallsTyped' /\ NoneButBegun(t)
<1> DEFINE c == [calls[t] EXCEPT !.step = s]
<1>1. calls' = [calls EXCEPT ![t] = c]
    BY DEF Goto
<1>2. c.step = s /\ "step" \in DOMAIN c
    BY DEF CallsTyped
<1> HIDE DEF c
<1> QED BY <1>1, <1>2, Assigned

LEMMA Finished ==
    ASSUME CallsTyped, NEW t \in Threads, Finish(t)
    PROVE  CallsTyped' /\ NoneButBegun(t)
<1>1. "step" \in DOMAIN Idle /\ Idle.step = "idle"
    BY DEF Idle
<1>2. calls' = [calls EXCEPT ![t] = Idle]
    BY DEF Finish
<1> HIDE DEF Idle
<1> QED BY <1>1, <1>2, Assigned

\* A call is given another step and other fields.
LEMMA Rewritten ==
    ASSUME CallsTyped, NEW t \in Threads, NEW x, NEW y, NEW z,
           \/ calls' = [calls EXCEPT ![t] = [step |-> "load database", kind |-> "record", sample |-> x]]
           \/ calls' = [calls EXCEPT ![t] = [step |-> "load database", kind |-> "decide"]]
           \/ calls' = [calls EXCEPT ![t] = [step |-> "save", before |-> x]]
           \/ calls' = [calls EXCEPT ![t] = [step |-> "save learner", path |-> x]]
           \/ calls' = [calls EXCEPT ![t] = [step |-> "restore", path |-> x]]
           \/ calls' = [calls EXCEPT ![t] = [step |-> "mark", path |-> x]]
           \/ /\ calls' = [calls EXCEPT ![t] = [step |-> "record", sample |-> x, f |-> y, p |-> z]]
              /\ Recording(t)
    PROVE  CallsTyped' /\ NoneButBegun(t)
<1>1. PICK c : /\ calls' = [calls EXCEPT ![t] = c]
               /\ "step" \in DOMAIN c
               /\ c.step \notin {"load learner", "learn", "record"} \/ Recording(t)
    <2>1. CASE calls' = [calls EXCEPT ![t] = [step |-> "load database", kind |-> "record", sample |-> x]]
        <3> DEFINE c == [step |-> "load database", kind |-> "record", sample |-> x]
        <3>1. "step" \in DOMAIN c /\ c.step = "load database"
            OBVIOUS
        <3>2. calls' = [calls EXCEPT ![t] = c]
            BY <2>1
        <3> HIDE DEF c
        <3> QED BY <3>1, <3>2
    <2>2. CASE calls' = [calls EXCEPT ![t] = [step |-> "load database", kind |-> "decide"]]
        <3> DEFINE c == [step |-> "load database", kind |-> "decide"]
        <3>1. "step" \in DOMAIN c /\ c.step = "load database"
            OBVIOUS
        <3>2. calls' = [calls EXCEPT ![t] = c]
            BY <2>2
        <3> HIDE DEF c
        <3> QED BY <3>1, <3>2
    <2>3. CASE calls' = [calls EXCEPT ![t] = [step |-> "save", before |-> x]]
        <3> DEFINE c == [step |-> "save", before |-> x]
        <3>1. "step" \in DOMAIN c /\ c.step = "save"
            OBVIOUS
        <3>2. calls' = [calls EXCEPT ![t] = c]
            BY <2>3
        <3> HIDE DEF c
        <3> QED BY <3>1, <3>2
    <2>4. ASSUME NEW s \in {"save learner", "restore", "mark"},
                 calls' = [calls EXCEPT ![t] = [step |-> s, path |-> x]]
          PROVE  \E c : /\ calls' = [calls EXCEPT ![t] = c]
                        /\ "step" \in DOMAIN c
                        /\ c.step \notin {"load learner", "learn", "record"} \/ Recording(t)
        <3> DEFINE c == [step |-> s, path |-> x]
        <3>1. "step" \in DOMAIN c /\ c.step = s
            OBVIOUS
        <3>2. calls' = [calls EXCEPT ![t] = c]
            BY <2>4
        <3> HIDE DEF c
        <3> QED BY <3>1, <3>2
    <2>5. CASE /\ calls' = [calls EXCEPT ![t] = [step |-> "record", sample |-> x, f |-> y, p |-> z]]
               /\ Recording(t)
        <3> DEFINE c == [step |-> "record", sample |-> x, f |-> y, p |-> z]
        <3>1. "step" \in DOMAIN c
            OBVIOUS
        <3>2. calls' = [calls EXCEPT ![t] = c]
            BY <2>5
        <3> HIDE DEF c
        <3> QED BY <2>5, <3>1, <3>2
    <2> QED BY <2>1, <2>2, <2>3, <2>4, <2>5
<1> QED BY <1>1, Assigned

LEMMA StepMoves ==
    ASSUME CallsTyped, NEW t \in Threads, Step(t)
    PROVE  CallsTyped' /\ NoneButBegun(t)
<1>1. CASE LoadOnce(t)
    BY <1>1, Gone DEF LoadOnce
<1>2. CASE LoadOnceLearner(t)
    <2> DEFINE s == IF calls[t].kind = "decide" THEN "look" ELSE "learn"
    <2>1. Goto(t, s)
        BY <1>2 DEF LoadOnceLearner
    <2>2. s = "learn" => Recording(t)
        BY <1>2 DEF LoadOnceLearner, Recording
    <2>3. s \in {"look", "learn"}
        OBVIOUS
    <2> HIDE DEF s
    <2> QED BY <2>1, <2>2, <2>3, Gone
<1>3. CASE BestEntry(t) \/ AutosaveFails(t) \/ SaveResidual(t) \/ MarkRestored(t)
    <2>1. Finish(t)
        BY <1>3 DEF BestEntry, AutosaveFails, SaveResidual, MarkRestored
    <2> QED BY <2>1, Finished
<1>4. CASE RecordSample(t)
    BY <1>4, Gone DEF RecordSample
<1>5. CASE FindPlan(t)
    BY <1>5, Gone DEF FindPlan
<1>6. CASE NotDue(t) \/ Autosave(t)
    BY <1>6, Gone DEF NotDue, Autosave
<1>7. CASE DirtyBefore(t)
    BY <1>7, Rewritten DEF DirtyBefore
<1>8. CASE Report(t)
    BY <1>8, Rewritten, Finished DEF Report
<1>9. CASE RestoreLearner(t)
    BY <1>9, Rewritten, Finished DEF RestoreLearner
<1> QED BY <1>1, <1>2, <1>3, <1>4, <1>5, <1>6, <1>7, <1>8, <1>9 DEF Step

\* Only the step of load_once begins the stretch.
LEMMA NoneBegun ==
    ASSUME NEW t, NoneButBegun(t), ~LoadOnce(t)
    PROVE  \A u \in Threads : Recording(u)' => Recording(u)
BY DEF NoneButBegun

LEMMA IdleLoadsNothing ==
    ASSUME NEW t, calls[t] = Idle
    PROVE  ~LoadOnce(t)
<1>1. calls[t].step = "idle"
    BY DEF Idle
<1> QED BY <1>1 DEF LoadOnce

-----------------------------------------------------------------------------
(* What the steps do to the counter.                                       *)

\* Nothing is unsaved.
LEMMA NothingUnsaved ==
    ASSUME Unsaved' = {}, dirty' \in Nat
    PROVE  KeepsUp'
<1>1. IsFiniteSet({}) /\ Cardinality({}) = 0
    BY FS_EmptySet
<1>2. IsFiniteSet(Unsaved') /\ Cardinality(Unsaved') = 0
    BY <1>1
<1> QED BY <1>2 DEF KeepsUp

\* The records and home's file agree again.
LEMMA Agreed ==
    ASSUME NEW path, NEW now, Agree(path, now), loaded' = now, dirty' = 0,
           \A u \in Threads : Recording(u)' => Recording(u)
    PROVE  OnTime'
BY DEF Agree, OnTime

\* Nothing is recorded, loaded or cleared.
LEMMA StillOnTime ==
    ASSUME OnTime, UNCHANGED <<loaded, interrupted>>, dirty' = dirty \/ dirty' = 0,
           \A u \in Threads : Recording(u)' => Recording(u)
    PROVE  OnTime'
BY DEF OnTime

\* Nothing that concerns the counter changes, unless the file is torn.
LEMMA StillKeepsUp ==
    ASSUME SavedInv, dirty' = dirty, InMemory' \subseteq InMemory,
           UNCHANGED <<home, interrupted>>,
           ~torn' => ~torn /\ (home \in Paths => files'[home] = files[home])
    PROVE  KeepsUp'
<1> SUFFICES ASSUME ~torn', ~interrupted'
             PROVE  IsFiniteSet(Unsaved') /\ Cardinality(Unsaved') <= dirty
    BY DEF KeepsUp
<1>1. ~torn /\ ~interrupted
    OBVIOUS
<1>2. InFile(home)' = InFile(home)
    <2>1. CASE home = NoPath
        BY <2>1 DEF InFile
    <2>2. CASE home \in Paths
        <3>1. home' = home /\ files'[home] = files[home]
            BY <2>2
        <3> QED BY <3>1 DEF InFile
    <2> QED BY <2>1, <2>2 DEF SavedInv, FilesTyped
<1>3. Unsaved' \subseteq Unsaved
    BY <1>2 DEF Unsaved
<1>4. IsFiniteSet(Unsaved) /\ Cardinality(Unsaved) <= dirty /\ dirty \in Nat
    BY <1>1 DEF SavedInv, KeepsUp, FilesTyped
<1>5. /\ IsFiniteSet(Unsaved') /\ Cardinality(Unsaved') <= Cardinality(Unsaved)
    BY <1>3, <1>4, FS_Subset
<1>6. Cardinality(Unsaved') \in Nat /\ Cardinality(Unsaved) \in Nat
    BY <1>4, <1>5, FS_CardinalityType
<1> QED BY <1>4, <1>5, <1>6

\* record_unlocked adds one sample, whatever it evicts, and counts it.
LEMMA RecordKeepsUp ==
    ASSUME SavedInv, NEW f, NEW p, NEW s, Record(f, p, s),
           UNCHANGED <<home, torn, interrupted, files>>
    PROVE  KeepsUp' /\ dirty' \in Nat
<1> DEFINE goneRecords == Victims(recent, f, RecordLimit)
           gonePlans == Victims(recentPlans[f], p, PlanLimit)
<1>1. /\ records' = [g \in Fingerprints |-> [q \in Plans |->
                CASE g \in goneRecords -> {}
                  [] g = f /\ q \in gonePlans -> {}
                  [] g = f /\ q = p -> records[f][p] \union {s}
                  [] OTHER -> records[g][q]]]
      /\ dirty' = dirty + 1
    BY DEF Record, Counted
<1> HIDE DEF goneRecords, gonePlans
<1>2. ASSUME NEW g \in Fingerprints, NEW q \in Plans
      PROVE  records'[g][q] \subseteq records[g][q] \cup {s}
    <2>1. records'[g][q] = CASE g \in goneRecords -> {}
                             [] g = f /\ q \in gonePlans -> {}
                             [] g = f /\ q = p -> records[f][p] \union {s}
                             [] OTHER -> records[g][q]
        BY <1>1
    <2>2. CASE g \in goneRecords \/ (g = f /\ q \in gonePlans)
        BY <2>1, <2>2
    <2>3. CASE g \notin goneRecords /\ ~(g = f /\ q \in gonePlans) /\ g = f /\ q = p
        BY <2>1, <2>3
    <2>4. CASE g \notin goneRecords /\ ~(g = f /\ q \in gonePlans) /\ ~(g = f /\ q = p)
        BY <2>1, <2>4
    <2> QED BY <2>2, <2>3, <2>4
<1>3. InMemory' \subseteq InMemory \cup {s}
    BY <1>2, InMemoryIs, InMemoryIsNext
<1>4. dirty \in Nat /\ dirty' \in Nat
    BY <1>1 DEF SavedInv, FilesTyped
<1>5. ASSUME ~torn', ~interrupted'
      PROVE  IsFiniteSet(Unsaved') /\ Cardinality(Unsaved') <= dirty'
    <2>1. IsFiniteSet(Unsaved) /\ Cardinality(Unsaved) <= dirty
        BY <1>5 DEF SavedInv, KeepsUp
    <2>2. Unsaved' \subseteq Unsaved \cup {s}
        BY <1>3 DEF Unsaved, InFile
    <2>3. /\ IsFiniteSet(Unsaved \cup {s})
          /\ Cardinality(Unsaved \cup {s}) <= Cardinality(Unsaved) + 1
        <3>1. /\ IsFiniteSet(Unsaved \cup {s})
              /\ \/ Cardinality(Unsaved \cup {s}) = Cardinality(Unsaved)
                 \/ Cardinality(Unsaved \cup {s}) = Cardinality(Unsaved) + 1
            BY <2>1, FS_AddElement
        <3>2. Cardinality(Unsaved) \in Nat
            BY <2>1, FS_CardinalityType
        <3> QED BY <3>1, <3>2
    <2>4. /\ IsFiniteSet(Unsaved')
          /\ Cardinality(Unsaved') <= Cardinality(Unsaved \cup {s})
        BY <2>2, <2>3, FS_Subset
    <2>5. /\ Cardinality(Unsaved') \in Nat /\ Cardinality(Unsaved) \in Nat
          /\ Cardinality(Unsaved \cup {s}) \in Nat
        BY <2>1, <2>3, <2>4, FS_CardinalityType
    <2> QED BY <1>1, <1>4, <2>1, <2>3, <2>4, <2>5
<1> QED BY <1>4, <1>5 DEF KeepsUp

LEMMA SaveKeepsUp ==
    ASSUME SavedInv, NEW path \in Paths, SaveDatabase(path), UNCHANGED <<records, loaded>>,
           CallsTyped', \A u \in Threads : Recording(u)' => Recording(u)
    PROVE  SavedInv'
<1>1. /\ files' = [files EXCEPT ![path] = FileOf(records)]
      /\ dirty' = 0 /\ home' = path
    BY DEF SaveDatabase, Agree
<1>2. files'[path].lines = records
    BY <1>1 DEF SavedInv, FilesTyped, FileOf
<1>3. InMemory' \subseteq InFile(path)'
    BY <1>2, InMemoryIsNext, InFileIsNext
<1>4. Unsaved' = {}
    BY <1>1, <1>3 DEF Unsaved, InFile
<1>5. FilesTyped'
    BY <1>1 DEF SavedInv, FilesTyped
<1>6. OnTime'
    BY <1>1, Agreed DEF SaveDatabase
<1> QED BY <1>1, <1>4, <1>5, <1>6, NothingUnsaved DEF SavedInv

LEMMA FailedSaveKeepsUp ==
    ASSUME SavedInv, NEW path \in Paths, SaveDatabaseFails(path), UNCHANGED <<records, loaded>>,
           CallsTyped', \A u \in Threads : Recording(u)' => Recording(u)
    PROVE  SavedInv'
<1>1. InMemory' \subseteq InMemory
    BY DEF InMemory, Entries
<1>2. UNCHANGED <<dirty, home, interrupted>>
    BY DEF SaveDatabaseFails
<1>3. OnTime'
    BY <1>2, StillOnTime DEF SavedInv
<1>4. CASE UNCHANGED <<files, torn>>
    <2>1. KeepsUp'
        BY <1>1, <1>2, <1>4, StillKeepsUp
    <2> QED BY <1>2, <1>3, <1>4, <2>1 DEF SavedInv, FilesTyped
<1>5. ASSUME NEW cut, files' = [files EXCEPT ![path] = cut], torn' = (torn \/ home = path)
      PROVE  SavedInv'
    <2>1. ~torn' => ~torn /\ (home \in Paths => files'[home] = files[home])
        BY <1>5 DEF SavedInv, FilesTyped
    <2>2. KeepsUp'
        BY <1>1, <1>2, <2>1, StillKeepsUp
    <2> QED BY <1>2, <1>3, <1>5, <2>2 DEF SavedInv, FilesTyped
<1> QED BY <1>4, <1>5 DEF SaveDatabaseFails

LEMMA UnflushedSaveKeepsUp ==
    ASSUME SavedInv, NEW path \in Paths, SaveDatabaseUnflushed(path), loaded' = loaded,
           CallsTyped', \A u \in Threads : Recording(u)' => Recording(u)
    PROVE  SavedInv'
<1>1. dirty' = 0 /\ home' = path /\ torn' = TRUE /\ interrupted' = interrupted
    BY DEF SaveDatabaseUnflushed
<1>2. FilesTyped'
    BY <1>1 DEF SaveDatabaseUnflushed, SavedInv, FilesTyped
<1>3. OnTime'
    BY <1>1, StillOnTime DEF SavedInv
<1> QED BY <1>1, <1>2, <1>3 DEF SavedInv, KeepsUp

\* A file is read whole; load_once reads the configured one.
LEMMA LoadKeepsUp ==
    ASSUME SavedInv, NEW path \in Paths, LoadDatabase(path), files' = files, CallsTyped',
           \A u \in Threads : Recording(u)' => Recording(u) \/ path = ConfigPath
    PROVE  SavedInv'
<1>1. /\ records' = files[path].lines /\ dirty' = 0 /\ home' = path /\ loaded' = path
      /\ interrupted' = (path # ConfigPath /\ \E t \in Threads : Recording(t))
    BY DEF LoadDatabase, Agree
<1>2. InMemory' \subseteq InFile(path)'
    BY <1>1, InMemoryIsNext, InFileIsNext
<1>3. Unsaved' = {}
    BY <1>1, <1>2 DEF Unsaved, InFile
<1>4. OnTime'
    BY <1>1 DEF OnTime
<1> QED BY <1>1, <1>3, <1>4, NothingUnsaved DEF SavedInv, FilesTyped

LEMMA LoadOnceKeepsUp ==
    ASSUME SavedInv, NEW t \in Threads, LoadOnce(t)
    PROVE  SavedInv'
<1>1. CallsTyped'
    BY StepMoves DEF SavedInv, Step
<1>2. CASE LoadDatabase(ConfigPath)
    BY <1>1, <1>2, LoadKeepsUp DEF LoadOnce
<1>3. CASE ~LoadDatabase(ConfigPath)
    <2>1. /\ loaded' = ConfigPath /\ UNCHANGED <<records, files, ghosts>>
          /\ dirty' = dirty \/ (dirty' = 0 /\ loaded # ConfigPath)
        BY <1>3 DEF LoadOnce, Missing, Unreadable
    <2>2. InMemory' \subseteq InMemory
        BY <2>1 DEF InMemory, Entries
    <2>3. OnTime'
        BY <2>1 DEF OnTime
    <2>4. CASE interrupted
        BY <1>1, <2>1, <2>3, <2>4 DEF SavedInv, FilesTyped, KeepsUp
    <2>5. CASE ~interrupted
        <3>1. dirty' = dirty
            BY <2>1, <2>5 DEF SavedInv, OnTime
        <3>2. KeepsUp'
            BY <2>1, <2>2, <3>1, StillKeepsUp
        <3> QED BY <1>1, <2>1, <2>3, <3>1, <3>2 DEF SavedInv, FilesTyped
    <2> QED BY <2>4, <2>5
<1> QED BY <1>2, <1>3

LEMMA ClearKeepsUp ==
    ASSUME SavedInv, NEW t, ClearDatabase(t)
    PROVE  SavedInv'
<1>1. records' = NoRecords /\ dirty' = 0 /\ loaded' = NoPath /\ UNCHANGED <<files, home, calls>>
    BY DEF ClearDatabase, Agree
<1>2. InMemory' = {}
    BY <1>1, InMemoryIsNext DEF NoRecords
<1>3. Unsaved' = {}
    BY <1>2 DEF Unsaved
<1>4. CallsTyped' /\ \A u \in Threads : Recording(u)' => Recording(u)
    BY <1>1 DEF SavedInv, CallsTyped, Recording
<1>5. OnTime'
    BY <1>1, <1>4, Agreed DEF ClearDatabase
<1> QED BY <1>1, <1>3, <1>4, <1>5, NothingUnsaved DEF SavedInv, FilesTyped

LEMMA CrashKeepsUp ==
    ASSUME SavedInv, Crash
    PROVE  SavedInv'
<1>1. /\ records' = NoRecords /\ dirty' = 0 /\ home' = NoPath /\ loaded' = NoPath
      /\ calls' = [t \in Threads |-> Idle]
    BY DEF Crash
<1>2. files' = [path \in Paths |-> files'[path]]
    BY DEF Crash, SavedInv, FilesTyped
<1>3. InMemory' = {}
    BY <1>1, InMemoryIsNext DEF NoRecords
<1>4. Unsaved' = {}
    BY <1>3 DEF Unsaved
<1>5. \A t \in Threads : "step" \in DOMAIN calls'[t] /\ calls'[t].step = "idle"
    BY <1>1 DEF Idle
<1>6. CallsTyped' /\ \A t \in Threads : ~Recording(t)'
    BY <1>1, <1>5 DEF CallsTyped, Recording
<1>7. OnTime'
    BY <1>1, <1>6 DEF OnTime
<1> QED BY <1>1, <1>2, <1>4, <1>6, <1>7, NothingUnsaved DEF SavedInv, FilesTyped

\* The steps that touch neither the records, the counter nor the files.
LEMMA QuietKeepsUp ==
    ASSUME SavedInv, UNCHANGED <<records, dirty, loaded, home, torn, interrupted, files>>,
           CallsTyped', \A u \in Threads : Recording(u)' => Recording(u)
    PROVE  SavedInv'
<1>1. InMemory' \subseteq InMemory
    BY DEF InMemory, Entries
<1>2. KeepsUp'
    BY <1>1, StillKeepsUp
<1>3. OnTime'
    BY StillOnTime DEF SavedInv
<1> QED BY <1>2, <1>3 DEF SavedInv, FilesTyped

LEMMA RecordSampleKeepsUp ==
    ASSUME SavedInv, NEW t \in Threads, RecordSample(t), CallsTyped',
           \A u \in Threads : Recording(u)' => Recording(u)
    PROVE  SavedInv'
<1>1. PICK f, p, s : Record(f, p, s) /\ UNCHANGED <<home, torn, interrupted, files, loaded>>
    BY DEF RecordSample
<1>2. KeepsUp' /\ dirty' \in Nat
    BY <1>1, RecordKeepsUp
<1>3. ~interrupted => loaded = ConfigPath
    BY DEF RecordSample, Recording, SavedInv, OnTime
<1>4. OnTime'
    BY <1>1, <1>3 DEF OnTime
<1> QED BY <1>1, <1>2, <1>4 DEF SavedInv, FilesTyped

LEMMA SavedStep ==
    ASSUME SavedInv, [Next]_vars
    PROVE  SavedInv'
<1>1. CASE UNCHANGED vars
    <2>1. CallsTyped' /\ \A u \in Threads : Recording(u)' => Recording(u)
        BY <1>1 DEF SavedInv, CallsTyped, Recording
    <2> QED BY <1>1, <2>1, QuietKeepsUp
<1>2. ASSUME NEW t \in Threads, Step(t)
      PROVE  SavedInv'
    <2>1. CASE LoadOnce(t)
        BY <2>1, LoadOnceKeepsUp
    <2>2. CASE ~LoadOnce(t)
        <3>1. CallsTyped' /\ \A u \in Threads : Recording(u)' => Recording(u)
            BY <1>2, <2>2, StepMoves, NoneBegun DEF SavedInv
        <3>2. CASE RecordSample(t)
            BY <3>1, <3>2, RecordSampleKeepsUp
        <3>3. CASE Autosave(t)
            BY <3>1, <3>3, SaveKeepsUp, UnflushedSaveKeepsUp DEF Autosave
        <3>4. CASE AutosaveFails(t)
            BY <3>1, <3>4, FailedSaveKeepsUp DEF AutosaveFails
        <3>5. CASE LoadOnceLearner(t) \/ BestEntry(t) \/ FindPlan(t) \/ DirtyBefore(t)
                   \/ NotDue(t) \/ Report(t) \/ SaveResidual(t) \/ RestoreLearner(t)
                   \/ MarkRestored(t)
            <4>1. UNCHANGED <<records, dirty, loaded, home, torn, interrupted, files>>
                BY <3>5
                   DEF LoadOnceLearner, BestEntry, FindPlan, DirtyBefore, NotDue, Report,
                       SaveResidual, RestoreLearner, MarkRestored
            <4> QED BY <3>1, <4>1, QuietKeepsUp
        <3> QED BY <1>2, <2>2, <3>2, <3>3, <3>4, <3>5 DEF Step
    <2> QED BY <2>1, <2>2
<1>3. ASSUME NEW t \in Threads, Execute(t) \/ Decide(t)
      PROVE  SavedInv'
    <2>1. CallsTyped' /\ NoneButBegun(t)
        BY <1>3, Rewritten DEF Execute, Decide, SavedInv
    <2>2. ~LoadOnce(t)
        BY <1>3, IdleLoadsNothing DEF Execute, Decide
    <2>3. UNCHANGED <<records, dirty, loaded, home, torn, interrupted, files>>
        BY <1>3 DEF Execute, Decide
    <2> QED BY <2>1, <2>2, <2>3, NoneBegun, QuietKeepsUp
<1>4. ASSUME NEW t \in Threads, NEW f, NEW p, NEW predicted, Learn(t, f, p, predicted)
      PROVE  SavedInv'
    <2>1. CallsTyped' /\ NoneButBegun(t)
        BY <1>4, Rewritten DEF Learn, SavedInv, Recording
    <2>2. ~LoadOnce(t)
        BY <1>4 DEF Learn, LoadOnce
    <2>3. UNCHANGED <<records, dirty, loaded, home, torn, interrupted, files>>
        BY <1>4 DEF Learn
    <2> QED BY <2>1, <2>2, <2>3, NoneBegun, QuietKeepsUp
<1>5. ASSUME NEW t \in Threads, NEW path \in Paths, SaveExperience(t, path)
      PROVE  SavedInv'
    <2>1. CallsTyped' /\ NoneButBegun(t)
        BY <1>5, Rewritten DEF SaveExperience, SavedInv
    <2>2. ~LoadOnce(t)
        BY <1>5, IdleLoadsNothing DEF SaveExperience
    <2>3. \A u \in Threads : Recording(u)' => Recording(u)
        BY <2>1, <2>2, NoneBegun
    <2> QED BY <1>5, <2>1, <2>3, SaveKeepsUp, FailedSaveKeepsUp, UnflushedSaveKeepsUp
            DEF SaveExperience
<1>6. ASSUME NEW t \in Threads, NEW path \in Paths, LoadExperience(t, path)
      PROVE  SavedInv'
    <2>1. CallsTyped' /\ NoneButBegun(t)
        BY <1>6, Rewritten DEF LoadExperience, SavedInv
    <2>2. ~LoadOnce(t)
        BY <1>6, IdleLoadsNothing DEF LoadExperience
    <2>3. \A u \in Threads : Recording(u)' => Recording(u)
        BY <2>1, <2>2, NoneBegun
    <2>4. CASE Loadable(path)
        BY <1>6, <2>1, <2>3, <2>4, LoadKeepsUp DEF LoadExperience
    <2>5. CASE ~Loadable(path)
        BY <1>6, <2>1, <2>3, <2>5, QuietKeepsUp DEF LoadExperience
    <2> QED BY <2>4, <2>5
<1>7. ASSUME NEW t, ClearDatabase(t)
      PROVE  SavedInv'
    BY <1>7, ClearKeepsUp
<1>8. ASSUME NEW t, ClearLearner(t)
      PROVE  SavedInv'
    <2>1. CallsTyped' /\ \A u \in Threads : Recording(u)' => Recording(u)
        BY <1>8 DEF ClearLearner, SavedInv, CallsTyped, Recording
    <2> QED BY <1>8, <2>1, QuietKeepsUp DEF ClearLearner
<1>9. CASE Crash
    BY <1>9, CrashKeepsUp
<1> QED BY <1>1, <1>2, <1>3, <1>4, <1>5, <1>6, <1>7, <1>8, <1>9 DEF Next

\* dirty_records_ and save_if_due: the samples in memory that the file last
\* saved or loaded lacks are at most as many as the counter that decides when
\* to save, through evictions, loads of files that are there, missing or torn,
\* clears, crashes and saves; from a write that failed, or an execution that a
\* clear or a load of another file interrupted, until the next whole save or
\* load, nothing is claimed.
THEOREM AutosaveProved == Spec => []AutosaveKeepsUp
<1>1. Init => SavedInv
    <2> SUFFICES ASSUME Init PROVE SavedInv
        OBVIOUS
    <2>1. \A t \in Threads : "step" \in DOMAIN calls[t] /\ calls[t].step = "idle"
        BY DEF Init, Idle
    <2>2. InMemory = {}
        BY InMemoryIs DEF Init, NoRecords
    <2>3. IsFiniteSet(Unsaved) /\ Cardinality(Unsaved) = 0
        BY <2>2, FS_EmptySet DEF Unsaved
    <2>4. FilesTyped /\ CallsTyped
        BY <2>1 DEF Init, FilesTyped, CallsTyped
    <2>5. OnTime
        BY <2>1 DEF Init, OnTime, Recording
    <2>6. KeepsUp
        BY <2>3 DEF Init, KeepsUp
    <2> QED BY <2>4, <2>5, <2>6 DEF SavedInv
<1>2. SavedInv /\ [Next]_vars => SavedInv'
    BY SavedStep
<1>3. SavedInv => AutosaveKeepsUp
    BY DEF SavedInv, KeepsUp, AutosaveKeepsUp, Unsaved
<1> QED BY <1>1, <1>2, <1>3, PTL DEF Spec

-----------------------------------------------------------------------------
(* Loading on demand.                                                      *)

\* The application loads its experience from the configured file only.  (From
\* another file, the next execution would find loaded_path_ different from the
\* configured path and load that one over it.)  It may save anywhere.
LoadsAtHome ==
    [][\A t \in Threads, path \in Paths : LoadExperience(t, path) => path = ConfigPath]_vars

\* An explicit load restores the learner from the configured path.
CallOK(c) == "step" \in DOMAIN c /\ (c.step \in {"restore", "mark"} => c.path = ConfigPath)

\* Until the learner's file counts as loaded, all the learner knows is in it,
\* and no execution is about to teach it more.
LearnerBehind ==
    residualLoaded # ConfigPath =>
        /\ \A t \in Threads : calls[t].step # "learn"
        /\ \A l \in Range(Layers) : learner[l] \subseteq residuals[ConfigPath].layers[l]

\* Until the database's file counts as loaded, the database is empty, and no
\* execution is about to record a sample; unless it was cleared.
DatabaseBehind ==
    loaded # ConfigPath /\ ~cleared =>
        /\ \A t \in Threads : calls[t].step \notin {"load learner", "learn", "record"}
        /\ InMemory = {}

LoadedInv ==
    /\ calls = [t \in Threads |-> calls[t]]
    /\ residuals = [path \in Paths |-> residuals[path]]
    /\ \A t \in Threads : CallOK(calls[t])
    /\ LearnerBehind
    /\ DatabaseBehind

\* A load on demand takes the configured file's layers; the learner's own are
\* in them, also when the file was cut off.
LEMMA LearnerGrows ==
    ASSUME LoadedInv, LoadLearner(ConfigPath), residualLoaded # ConfigPath,
           NEW l \in Range(Layers)
    PROVE  /\ learner[l] \subseteq learner'[l]
           /\ learner'[l] \subseteq residuals[ConfigPath].layers[l]
<1> DEFINE file == residuals[ConfigPath]
<1>1. PICK n : learner' = [k \in Range(Layers) |->
                 IF k \in Range(SubSeq(Layers, 1, n)) THEN file.layers[k] ELSE learner[k]]
    BY DEF LoadLearner, RestoredLayers
<1>2. learner'[l] = file.layers[l] \/ learner'[l] = learner[l]
    BY <1>1
<1>3. learner[l] \subseteq file.layers[l]
    BY DEF LoadedInv, LearnerBehind
<1> QED BY <1>2, <1>3

\* What the step of one thread to c leaves of the invariant.
LEMMA CallsNext ==
    ASSUME LoadedInv, NEW t \in Threads, NEW c, CallOK(c),
           calls' = [calls EXCEPT ![t] = c]
    PROVE  /\ calls' = [u \in Threads |-> calls'[u]]
           /\ \A u \in Threads : CallOK(calls'[u])
           /\ calls'[t] = c
           /\ \A u \in Threads \ {t} : calls'[u] = calls[u]
BY DEF LoadedInv

LEMMA GotoNext ==
    ASSUME LoadedInv, NEW t \in Threads, NEW s, s \notin {"restore", "mark"}, Goto(t, s)
    PROVE  /\ calls' = [u \in Threads |-> calls'[u]]
           /\ \A u \in Threads : CallOK(calls'[u])
           /\ calls'[t].step = s
           /\ \A u \in Threads \ {t} : calls'[u] = calls[u]
<1> DEFINE c == [calls[t] EXCEPT !.step = s]
<1>1. calls' = [calls EXCEPT ![t] = c]
    BY DEF Goto
<1>2. "step" \in DOMAIN calls[t]
    BY DEF LoadedInv, CallOK
<1>3. c.step = s /\ "step" \in DOMAIN c
    BY <1>2
<1> HIDE DEF c
<1>4. CallOK(c)
    BY <1>3 DEF CallOK
<1>5. /\ calls' = [u \in Threads |-> calls'[u]]
      /\ \A u \in Threads : CallOK(calls'[u])
      /\ calls'[t] = c
      /\ \A u \in Threads \ {t} : calls'[u] = calls[u]
    BY <1>1, <1>4, CallsNext
<1> QED BY <1>3, <1>5

LEMMA FinishNext ==
    ASSUME LoadedInv, NEW t \in Threads, Finish(t)
    PROVE  /\ calls' = [u \in Threads |-> calls'[u]]
           /\ \A u \in Threads : CallOK(calls'[u])
           /\ calls'[t].step = "idle"
           /\ \A u \in Threads \ {t} : calls'[u] = calls[u]
<1>1. CallOK(Idle) /\ Idle.step = "idle"
    BY DEF CallOK, Idle
<1>2. calls' = [calls EXCEPT ![t] = Idle]
    BY DEF Finish
<1> HIDE DEF Idle
<1> QED BY <1>1, <1>2, CallsNext

\* A step of one thread that neither records, learns nor loads.
LEMMA QuietBehind ==
    ASSUME LoadedInv, NEW t \in Threads,
           UNCHANGED <<records, loaded, cleared, learner, residualLoaded, residuals>>,
           calls' = [u \in Threads |-> calls'[u]],
           \A u \in Threads : CallOK(calls'[u]),
           calls'[t].step \notin {"load learner", "learn", "record"},
           \A u \in Threads \ {t} : calls'[u] = calls[u]
    PROVE  LoadedInv'
<1>1. InMemory' = InMemory
    BY DEF InMemory, Entries
<1>2. \A u \in Threads : calls'[u].step \in {"load learner", "learn", "record"}
                            => calls[u].step = calls'[u].step
    OBVIOUS
<1>3. LearnerBehind'
    BY <1>2 DEF LoadedInv, LearnerBehind
<1>4. DatabaseBehind'
    BY <1>1, <1>2 DEF LoadedInv, DatabaseBehind
<1> QED BY <1>3, <1>4 DEF LoadedInv

LEMMA LoadOnceBehind ==
    ASSUME LoadedInv, NEW t \in Threads, LoadOnce(t)
    PROVE  LoadedInv'
<1>1. /\ calls' = [u \in Threads |-> calls'[u]]
      /\ \A u \in Threads : CallOK(calls'[u])
      /\ calls'[t].step = "load learner"
      /\ \A u \in Threads \ {t} : calls'[u] = calls[u]
    BY GotoNext DEF LoadOnce
<1>2. loaded' = ConfigPath
    BY DEF LoadOnce, Missing, Unreadable, LoadDatabase
<1>3. LearnerBehind'
    BY <1>1 DEF LoadedInv, LearnerBehind, LoadOnce
<1> QED BY <1>1, <1>2, <1>3 DEF LoadedInv, DatabaseBehind, LoadOnce

LEMMA LoadOnceLearnerBehind ==
    ASSUME LoadedInv, NEW t \in Threads, LoadOnceLearner(t)
    PROVE  LoadedInv'
<1> DEFINE s == IF calls[t].kind = "decide" THEN "look" ELSE "learn"
<1>1. /\ calls' = [u \in Threads |-> calls'[u]]
      /\ \A u \in Threads : CallOK(calls'[u])
      /\ calls'[t].step = s
      /\ \A u \in Threads \ {t} : calls'[u] = calls[u]
    BY GotoNext DEF LoadOnceLearner
<1>2. residualLoaded' = ConfigPath
    BY DEF LoadOnceLearner, MarkedLoaded
<1>3. InMemory' = InMemory
    BY DEF InMemory, Entries, LoadOnceLearner
<1>4. DatabaseBehind'
    BY <1>1, <1>3 DEF LoadedInv, DatabaseBehind, LoadOnceLearner
<1> QED BY <1>1, <1>2, <1>4 DEF LoadedInv, LearnerBehind, LoadOnceLearner

LEMMA LearnBehind ==
    ASSUME LoadedInv, NEW t \in Threads, NEW f, NEW p, NEW predicted,
           Learn(t, f, p, predicted)
    PROVE  LoadedInv'
<1> DEFINE c == [step |-> "record", sample |-> calls[t].sample, f |-> f, p |-> p]
<1>1. CallOK(c) /\ c.step = "record"
    BY DEF CallOK
<1>2. calls' = [calls EXCEPT ![t] = c]
    BY DEF Learn
<1> HIDE DEF c
<1>3. /\ calls' = [u \in Threads |-> calls'[u]]
      /\ \A u \in Threads : CallOK(calls'[u])
      /\ calls'[t].step = "record"
      /\ \A u \in Threads \ {t} : calls'[u] = calls[u]
    BY <1>1, <1>2, CallsNext
<1>4. residualLoaded' = ConfigPath
    BY DEF Learn, LoadedInv, LearnerBehind
<1>5. InMemory' = InMemory
    BY DEF InMemory, Entries, Learn
<1>6. DatabaseBehind'
    BY <1>3, <1>5 DEF LoadedInv, DatabaseBehind, Learn
<1> QED BY <1>3, <1>4, <1>6 DEF LoadedInv, LearnerBehind, Learn

LEMMA RecordBehind ==
    ASSUME LoadedInv, NEW t \in Threads, RecordSample(t)
    PROVE  LoadedInv'
<1>1. /\ calls' = [u \in Threads |-> calls'[u]]
      /\ \A u \in Threads : CallOK(calls'[u])
      /\ calls'[t].step = "find"
      /\ \A u \in Threads \ {t} : calls'[u] = calls[u]
    BY GotoNext DEF RecordSample
<1>2. loaded' = ConfigPath \/ cleared'
    BY DEF LoadedInv, DatabaseBehind, RecordSample
<1>3. LearnerBehind'
    BY <1>1 DEF LoadedInv, LearnerBehind, RecordSample
<1> QED BY <1>1, <1>2, <1>3 DEF LoadedInv, DatabaseBehind, RecordSample

\* The learner is written, whole or in part, perhaps over the configured file.
LEMMA SavedLearnerBehind ==
    ASSUME LoadedInv, NEW path, NEW n,
           residuals' = [residuals EXCEPT ![path] = ResidualOf(n)],
           residualLoaded # ConfigPath, NEW l \in Range(Layers)
    PROVE  learner[l] \subseteq residuals'[ConfigPath].layers[l]
<1>1. ResidualOf(n).layers = learner
    BY DEF ResidualOf
<1>2. residuals'[ConfigPath] = residuals[ConfigPath] \/ residuals'[ConfigPath] = ResidualOf(n)
    BY DEF LoadedInv
<1>3. learner[l] \subseteq residuals[ConfigPath].layers[l]
    BY DEF LoadedInv, LearnerBehind
<1> QED BY <1>1, <1>2, <1>3

LEMMA SaveResidualBehind ==
    ASSUME LoadedInv, NEW t \in Threads, SaveResidual(t)
    PROVE  LoadedInv'
<1>1. /\ calls' = [u \in Threads |-> calls'[u]]
      /\ \A u \in Threads : CallOK(calls'[u])
      /\ calls'[t].step = "idle"
      /\ \A u \in Threads \ {t} : calls'[u] = calls[u]
    BY FinishNext DEF SaveResidual
<1>2. \/ residuals' = residuals
      \/ \E n : residuals' = [residuals EXCEPT ![calls[t].path] = ResidualOf(n)]
    BY DEF SaveResidual, SaveLearner, SaveLearnerFails
<1>3. UNCHANGED <<records, loaded, cleared, learner, residualLoaded>>
    BY DEF SaveResidual
<1>4. residuals' = [path \in Paths |-> residuals'[path]]
    BY <1>2 DEF LoadedInv
<1>5. residualLoaded # ConfigPath =>
        \A l \in Range(Layers) : learner[l] \subseteq residuals'[ConfigPath].layers[l]
    BY <1>2, SavedLearnerBehind DEF LoadedInv, LearnerBehind
<1>6. LearnerBehind'
    BY <1>1, <1>3, <1>5 DEF LoadedInv, LearnerBehind
<1>7. InMemory' = InMemory
    BY <1>3 DEF InMemory, Entries
<1>8. DatabaseBehind'
    BY <1>1, <1>3, <1>7 DEF LoadedInv, DatabaseBehind
<1> QED BY <1>1, <1>4, <1>6, <1>8 DEF LoadedInv

LEMMA RestoreBehind ==
    ASSUME LoadedInv, NEW t \in Threads, RestoreLearner(t)
    PROVE  LoadedInv'
<1>1. calls[t].path = ConfigPath
    BY DEF RestoreLearner, LoadedInv, CallOK
<1> DEFINE c == [step |-> "mark", path |-> ConfigPath]
<1>2. CallOK(c) /\ c.step = "mark"
    BY DEF CallOK
<1>3. Finish(t) \/ calls' = [calls EXCEPT ![t] = c]
    BY <1>1 DEF RestoreLearner
<1> HIDE DEF c
<1>4. /\ calls' = [u \in Threads |-> calls'[u]]
      /\ \A u \in Threads : CallOK(calls'[u])
      /\ calls'[t].step \in {"idle", "mark"}
      /\ \A u \in Threads \ {t} : calls'[u] = calls[u]
    BY <1>2, <1>3, FinishNext, CallsNext
<1>5. /\ learner' = learner \/ LoadLearner(ConfigPath)
      /\ UNCHANGED <<records, loaded, cleared, residualLoaded, residuals>>
    BY <1>1 DEF RestoreLearner
<1>6. residualLoaded # ConfigPath =>
        \A l \in Range(Layers) : learner'[l] \subseteq residuals[ConfigPath].layers[l]
    BY <1>5, LearnerGrows DEF LoadedInv, LearnerBehind
<1>7. LearnerBehind'
    BY <1>4, <1>5, <1>6 DEF LoadedInv, LearnerBehind
<1>8. InMemory' = InMemory
    BY <1>5 DEF InMemory, Entries
<1>9. DatabaseBehind'
    BY <1>4, <1>5, <1>8 DEF LoadedInv, DatabaseBehind
<1> QED BY <1>4, <1>5, <1>7, <1>9 DEF LoadedInv

LEMMA MarkBehind ==
    ASSUME LoadedInv, NEW t \in Threads, MarkRestored(t)
    PROVE  LoadedInv'
<1>1. /\ calls' = [u \in Threads |-> calls'[u]]
      /\ \A u \in Threads : CallOK(calls'[u])
      /\ calls'[t].step = "idle"
      /\ \A u \in Threads \ {t} : calls'[u] = calls[u]
    BY FinishNext DEF MarkRestored
<1>2. residualLoaded' = ConfigPath /\ UNCHANGED <<records, loaded, cleared, residuals>>
    BY DEF MarkRestored, LoadedInv, CallOK
<1>3. InMemory' = InMemory
    BY <1>2 DEF InMemory, Entries
<1>4. DatabaseBehind'
    BY <1>1, <1>2, <1>3 DEF LoadedInv, DatabaseBehind
<1> QED BY <1>1, <1>2, <1>4 DEF LoadedInv, LearnerBehind

LEMMA LoadBehind ==
    ASSUME LoadedInv, NEW t \in Threads, LoadExperience(t, ConfigPath)
    PROVE  LoadedInv'
<1> DEFINE c == [step |-> "restore", path |-> ConfigPath]
<1>1. CallOK(c) /\ c.step = "restore"
    BY DEF CallOK
<1>2. calls' = [calls EXCEPT ![t] = c]
    BY DEF LoadExperience
<1> HIDE DEF c
<1>3. /\ calls' = [u \in Threads |-> calls'[u]]
      /\ \A u \in Threads : CallOK(calls'[u])
      /\ calls'[t].step = "restore"
      /\ \A u \in Threads \ {t} : calls'[u] = calls[u]
    BY <1>1, <1>2, CallsNext
<1>4. CASE Loadable(ConfigPath)
    <2>1. loaded' = ConfigPath
        BY <1>4 DEF LoadExperience, LoadDatabase
    <2>2. LearnerBehind'
        BY <1>3 DEF LoadedInv, LearnerBehind, LoadExperience
    <2> QED BY <1>3, <2>1, <2>2 DEF LoadedInv, DatabaseBehind, LoadExperience
<1>5. CASE ~Loadable(ConfigPath)
    <2>1. UNCHANGED <<records, loaded, cleared, learner, residualLoaded, residuals>>
        BY <1>5 DEF LoadExperience
    <2> QED BY <1>3, <2>1, QuietBehind
<1> QED BY <1>4, <1>5

\* A call of another kind begins.
LEMMA BeginBehind ==
    ASSUME LoadedInv, NEW t \in Threads, Execute(t) \/ Decide(t)
    PROVE  LoadedInv'
<1>1. PICK c : /\ calls' = [calls EXCEPT ![t] = c]
               /\ "step" \in DOMAIN c /\ c.step = "load database"
    <2>1. CASE Execute(t)
        <3> DEFINE c == [step |-> "load database", kind |-> "record", sample |-> samples + 1]
        <3>1. "step" \in DOMAIN c /\ c.step = "load database"
            OBVIOUS
        <3>2. calls' = [calls EXCEPT ![t] = c]
            BY <2>1 DEF Execute
        <3> HIDE DEF c
        <3> QED BY <3>1, <3>2
    <2>2. CASE Decide(t)
        <3> DEFINE c == [step |-> "load database", kind |-> "decide"]
        <3>1. "step" \in DOMAIN c /\ c.step = "load database"
            OBVIOUS
        <3>2. calls' = [calls EXCEPT ![t] = c]
            BY <2>2 DEF Decide
        <3> HIDE DEF c
        <3> QED BY <3>1, <3>2
    <2> QED BY <2>1, <2>2
<1>2. CallOK(c)
    BY <1>1 DEF CallOK
<1>3. /\ calls' = [u \in Threads |-> calls'[u]]
      /\ \A u \in Threads : CallOK(calls'[u])
      /\ calls'[t] = c
      /\ \A u \in Threads \ {t} : calls'[u] = calls[u]
    BY <1>1, <1>2, CallsNext
<1>4. UNCHANGED <<records, loaded, cleared, learner, residualLoaded, residuals>>
    BY DEF Execute, Decide
<1> QED BY <1>1, <1>3, <1>4, QuietBehind

\* Calls that begin to save the learner.
LEMMA SavingBehind ==
    ASSUME LoadedInv, NEW t \in Threads, NEW path,
           calls' = [calls EXCEPT ![t] = [step |-> "save learner", path |-> path]],
           UNCHANGED <<records, loaded, cleared, learner, residualLoaded, residuals>>
    PROVE  LoadedInv'
<1> DEFINE c == [step |-> "save learner", path |-> path]
<1>1. CallOK(c) /\ c.step = "save learner"
    BY DEF CallOK
<1>2. calls' = [calls EXCEPT ![t] = c]
    OBVIOUS
<1> HIDE DEF c
<1>3. /\ calls' = [u \in Threads |-> calls'[u]]
      /\ \A u \in Threads : CallOK(calls'[u])
      /\ calls'[t].step = "save learner"
      /\ \A u \in Threads \ {t} : calls'[u] = calls[u]
    BY <1>1, <1>2, CallsNext
<1> QED BY <1>3, QuietBehind

LEMMA CountBehind ==
    ASSUME LoadedInv, NEW t \in Threads, DirtyBefore(t)
    PROVE  LoadedInv'
<1> DEFINE c == [step |-> "save", before |-> dirty]
<1>1. CallOK(c) /\ c.step = "save"
    BY DEF CallOK
<1>2. calls' = [calls EXCEPT ![t] = c]
    BY DEF DirtyBefore
<1> HIDE DEF c
<1>3. /\ calls' = [u \in Threads |-> calls'[u]]
      /\ \A u \in Threads : CallOK(calls'[u])
      /\ calls'[t].step = "save"
      /\ \A u \in Threads \ {t} : calls'[u] = calls[u]
    BY <1>1, <1>2, CallsNext
<1>4. UNCHANGED <<records, loaded, cleared, learner, residualLoaded, residuals>>
    BY DEF DirtyBefore
<1> QED BY <1>3, <1>4, QuietBehind

LEMMA ClearsBehind ==
    ASSUME LoadedInv, NEW t \in Threads, ClearDatabase(t) \/ ClearLearner(t)
    PROVE  LoadedInv'
<1>1. CASE ClearDatabase(t)
    BY <1>1 DEF ClearDatabase, LoadedInv, LearnerBehind, DatabaseBehind
<1>2. CASE ClearLearner(t)
    <2>1. InMemory' = InMemory
        BY <1>2 DEF InMemory, Entries, ClearLearner
    <2>2. \A l \in Range(Layers) : learner'[l] = {}
        BY <1>2 DEF ClearLearner, Empty
    <2>3. UNCHANGED <<calls, residuals, residualLoaded, loaded, cleared>>
        BY <1>2 DEF ClearLearner
    <2>4. LearnerBehind'
        BY <2>2, <2>3 DEF LoadedInv, LearnerBehind
    <2>5. DatabaseBehind'
        BY <2>1, <2>3 DEF LoadedInv, DatabaseBehind
    <2> QED BY <2>3, <2>4, <2>5 DEF LoadedInv
<1> QED BY <1>1, <1>2

LEMMA CrashBehind ==
    ASSUME LoadedInv, Crash
    PROVE  LoadedInv'
<1>1. calls' = [t \in Threads |-> Idle] /\ records' = NoRecords /\ learner' = Empty
    BY DEF Crash
<1>2. \A t \in Threads : CallOK(calls'[t]) /\ calls'[t].step = "idle"
    BY <1>1 DEF CallOK, Idle
<1>3. residuals' = [path \in Paths |-> residuals'[path]]
    BY DEF Crash, LoadedInv
<1>4. InMemory' = {}
    BY <1>1, InMemoryIsNext DEF NoRecords
<1>5. \A l \in Range(Layers) : learner'[l] = {}
    BY <1>1 DEF Empty
<1>6. LearnerBehind' /\ DatabaseBehind'
    BY <1>2, <1>4, <1>5 DEF LearnerBehind, DatabaseBehind
<1> QED BY <1>1, <1>2, <1>3, <1>6 DEF LoadedInv

LEMMA LoadedStep ==
    ASSUME LoadedInv, [Next]_vars,
           [\A t \in Threads, path \in Paths : LoadExperience(t, path) => path = ConfigPath]_vars
    PROVE  LoadedInv'
<1>1. CASE UNCHANGED vars
    <2>1. InMemory' = InMemory
        BY <1>1 DEF InMemory, Entries
    <2> QED BY <1>1, <2>1 DEF LoadedInv, LearnerBehind, DatabaseBehind
<1>2. ASSUME NEW t \in Threads, Step(t)
      PROVE  LoadedInv'
    <2>1. CASE BestEntry(t) \/ AutosaveFails(t)
        <3>1. UNCHANGED <<records, loaded, cleared, learner, residualLoaded, residuals>> /\ Finish(t)
            BY <2>1 DEF BestEntry, AutosaveFails
        <3> QED BY <3>1, FinishNext, QuietBehind
    <2>2. CASE FindPlan(t)
        <3>1. UNCHANGED <<records, loaded, cleared, learner, residualLoaded, residuals>> /\ Goto(t, "count")
            BY <2>2 DEF FindPlan
        <3>2. /\ calls' = [u \in Threads |-> calls'[u]]
              /\ \A u \in Threads : CallOK(calls'[u])
              /\ calls'[t].step = "count"
              /\ \A u \in Threads \ {t} : calls'[u] = calls[u]
            BY <3>1, GotoNext
        <3> QED BY <3>1, <3>2, QuietBehind
    <2>3. CASE NotDue(t) \/ Autosave(t)
        <3>1. UNCHANGED <<records, loaded, cleared, learner, residualLoaded, residuals>> /\ Goto(t, "report")
            BY <2>3 DEF NotDue, Autosave
        <3>2. /\ calls' = [u \in Threads |-> calls'[u]]
              /\ \A u \in Threads : CallOK(calls'[u])
              /\ calls'[t].step = "report"
              /\ \A u \in Threads \ {t} : calls'[u] = calls[u]
            BY <3>1, GotoNext
        <3> QED BY <3>1, <3>2, QuietBehind
    <2>4. CASE Report(t)
        <3>1. UNCHANGED <<records, loaded, cleared, learner, residualLoaded, residuals>>
            BY <2>4 DEF Report
        <3>2. \/ Finish(t)
              \/ calls' = [calls EXCEPT ![t] = [step |-> "save learner", path |-> ConfigPath]]
            BY <2>4 DEF Report
        <3> QED BY <3>1, <3>2, FinishNext, SavingBehind, QuietBehind
    <2> QED BY <1>2, <2>1, <2>2, <2>3, <2>4, LoadOnceBehind, LoadOnceLearnerBehind,
               RecordBehind, CountBehind, SaveResidualBehind, RestoreBehind, MarkBehind DEF Step
<1>3. ASSUME NEW t \in Threads, NEW path \in Paths, SaveExperience(t, path)
      PROVE  LoadedInv'
    <2>1. /\ UNCHANGED <<records, loaded, cleared, learner, residualLoaded, residuals>>
          /\ calls' = [calls EXCEPT ![t] = [step |-> "save learner", path |-> path]]
        BY <1>3 DEF SaveExperience
    <2> QED BY <2>1, SavingBehind
<1>4. ASSUME NEW t \in Threads, NEW path \in Paths, LoadExperience(t, path)
      PROVE  LoadedInv'
    <2>1. CASE path = ConfigPath
        BY <1>4, <2>1, LoadBehind
    <2>2. CASE path # ConfigPath
        BY <1>1, <1>4, <2>2
    <2> QED BY <2>1, <2>2
<1> QED BY <1>1, <1>2, <1>3, <1>4, BeginBehind, LearnBehind, ClearsBehind, CrashBehind DEF Next

LEMMA LoadKeeps ==
    ASSUME LoadedInv, NEW t \in Threads
    PROVE  /\ LoadOnceLearner(t) => \A l \in Range(Layers) : learner[l] \subseteq learner'[l]
           /\ (LoadOnce(t) /\ ~cleared) => InMemory \subseteq InMemory'
<1>1. ASSUME LoadOnceLearner(t), NEW l \in Range(Layers)
      PROVE  learner[l] \subseteq learner'[l]
    <2>1. \/ learner' = learner
          \/ residualLoaded # ConfigPath /\ LoadLearner(ConfigPath)
        BY <1>1 DEF LoadOnceLearner
    <2> QED BY <2>1, LearnerGrows
<1>2. ASSUME LoadOnce(t), ~cleared
      PROVE  InMemory \subseteq InMemory'
    <2>1. CASE loaded = ConfigPath
        <3>1. records' = records
            BY <1>2, <2>1 DEF LoadOnce
        <3> QED BY <3>1 DEF InMemory, Entries
    <2>2. CASE loaded # ConfigPath
        BY <1>2, <2>2 DEF LoadedInv, DatabaseBehind
    <2> QED BY <2>1, <2>2
<1> QED BY <1>1, <1>2

\* ensure_experience_loaded: an application that loads its experience from the
\* configured file only, or never asks for a load, never loses a sample or a
\* residual it has learned to a load on demand, whatever is saved, torn,
\* cleared or missing meanwhile.
THEOREM LoadsProved == Spec /\ LoadsAtHome => LoadsLoseNothing
<1>1. Init => LoadedInv
    <2> SUFFICES ASSUME Init PROVE LoadedInv
        OBVIOUS
    <2>1. \A t \in Threads : CallOK(calls[t]) /\ calls[t].step = "idle"
        BY DEF Init, CallOK, Idle
    <2>2. InMemory = {}
        BY InMemoryIs DEF Init, NoRecords
    <2>3. \A l \in Range(Layers) : learner[l] = {}
        BY DEF Init, Empty
    <2>4. LearnerBehind /\ DatabaseBehind
        BY <2>1, <2>2, <2>3 DEF LearnerBehind, DatabaseBehind
    <2> QED BY <2>1, <2>4 DEF Init, LoadedInv
<1>2. LoadedInv /\ [Next]_vars
      /\ [\A t \in Threads, path \in Paths : LoadExperience(t, path) => path = ConfigPath]_vars
      => LoadedInv'
    BY LoadedStep
<1>3. LoadedInv =>
        [\A t \in Threads :
            /\ LoadOnceLearner(t) => \A l \in Range(Layers) : learner[l] \subseteq learner'[l]
            /\ LoadOnce(t) /\ ~cleared => InMemory \subseteq InMemory']_vars
    BY LoadKeeps
<1> QED BY <1>1, <1>2, <1>3, PTL DEF Spec, LoadsAtHome, LoadsLoseNothing

=============================================================================
