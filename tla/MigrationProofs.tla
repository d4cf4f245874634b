---------------------------- MODULE MigrationProofs ----------------------------
(***************************************************************************)
(* Theorems about Lifecycle, one life of the writer, for any finite sets   *)
(* of requests: the argument ties the counter of the tracker to the set of *)
(* running handlers by its cardinality.                                    *)
(*                                                                         *)
(* Theorems about Migration: the two locks keep the migration apart from   *)
(* the handlers of the writer and from the maintenance cycles, for any     *)
(* number of requests, starts and mishaps.  The invariant of Lifecycle is  *)
(* carried through every life of the writer, because the lock outlives the *)
(* handlers only if runArgs waits for them.                                *)
(***************************************************************************)
EXTENDS Migration, FiniteSetTheorems, TLAPS

-----------------------------------------------------------------------------
(* One life of the writer.                                                 *)

\* The requests of the process are finitely many, so the running ones are.
LEMMA RunningFinite ==
    /\ IsFiniteSet(Running)
    /\ Cardinality(Running) \in Nat
    /\ Cardinality(Running) = 0 <=> Running = {}
  <1>1. IsFiniteSet(Requests)
    BY LifecycleAssumption, FS_Union DEF Requests
  <1>2. Running \subseteq Requests
    BY DEF Running
  <1>. QED
    BY <1>1, <1>2, FS_Subset, FS_CardinalityType, FS_EmptySet

\* One handler more.
LEMMA OneMore ==
    ASSUME NEW r \in Requests, TypeOK, req[r] = "accepted",
           req' = [req EXCEPT ![r] = "running"]
    PROVE  Cardinality(Running') = Cardinality(Running) + 1
  <1>1. Running' = Running \cup {r} /\ r \notin Running
    BY DEF Running, TypeOK
  <1>. QED
    BY <1>1, RunningFinite, FS_AddElement

\* One handler less.
LEMMA OneLess ==
    ASSUME NEW r \in Requests, TypeOK, req[r] = "running",
           req' = [req EXCEPT ![r] = "ended"]
    PROVE  Cardinality(Running') = Cardinality(Running) - 1
  <1>1. Running' = Running \ {r} /\ r \in Running
    BY DEF Running, TypeOK
  <1>. QED
    BY <1>1, RunningFinite, FS_RemoveElement

\* A request that is neither admitted nor finished does not run.
LEMMA SameRunning ==
    ASSUME NEW r \in Requests, TypeOK, req[r] # "running",
           NEW s \in {"accepted", "ended"}, req' = [req EXCEPT ![r] = s]
    PROVE  Running' = Running
  BY DEF Running, TypeOK

LEMMA InitInductive == Init => Inductive
  <1>. SUFFICES ASSUME Init PROVE Inductive
    OBVIOUS
  <1>1. TypeOK
    <2>1. /\ stopping \in BOOLEAN /\ accepting \in BOOLEAN
          /\ served \in BOOLEAN /\ cancelled \in BOOLEAN
      BY Zenon DEF Init
    <2>2. req \in [Requests -> {"none", "accepted", "running", "ended"}]
      BY DEF Init
    <2>3. /\ active \in Nat /\ drained \in Nat /\ closed \subseteq Nat
          /\ open \in Nat /\ awaited \in Nat
      BY LifecycleAssumption DEF Init
    <2>. QED
      BY <2>1, <2>2, <2>3 DEF Init, TypeOK
  <1>2. Running = {}
    BY DEF Init, Running
  <1>. QED
    BY <1>1, <1>2, RunningFinite DEF Init, Inductive

\* Every step keeps the counter, the channels and Wait together.
LEMMA NextInductive == Inductive /\ [Next]_vars => Inductive'
  <1>. SUFFICES ASSUME Inductive, [Next]_vars PROVE Inductive'
    OBVIOUS
  <1>. USE DEF Inductive
  <1>1. ASSUME NEW r \in Requests, Accept(r) PROVE Inductive'
    <2>1. Running' = Running
      BY <1>1, SameRunning DEF Accept
    <2>. QED
      BY <1>1, <2>1 DEF Accept, TypeOK, tracker
  <1>2. ASSUME NEW r \in Requests, Enter(r) PROVE Inductive'
    <2>1. Cardinality(Running') = Cardinality(Running) + 1
      BY <1>2, OneMore DEF Enter
    <2>2. TypeOK'
      BY <1>2 DEF Enter, TypeOK
    <2>3. awaited = 0
      BY <1>2 DEF Enter
    <2>. QED
      BY <1>2, <2>1, <2>2, <2>3 DEF Enter, TypeOK
  <1>3. ASSUME NEW r \in Requests, Reject(r) \/ Hangup(r) PROVE Inductive'
    <2>1. Running' = Running
      BY <1>3, SameRunning DEF Reject, Hangup
    <2>. QED
      BY <1>3, <2>1 DEF Reject, Hangup, TypeOK, tracker
  <1>4. ASSUME NEW r \in Requests, Leave(r) PROVE Inductive'
    <2>1. Cardinality(Running') = Cardinality(Running) - 1
      BY <1>4, OneLess DEF Leave
    <2>2. r \in Running
      BY <1>4 DEF Leave, Running
    <2>3. active > 0
      BY <2>2, RunningFinite
    <2>4. TypeOK'
      BY <1>4, <2>3 DEF Leave, TypeOK
    <2>. QED
      BY <1>4, <2>1, <2>3, <2>4 DEF Leave, TypeOK
  <1>5. CASE ServeFails \/ Signal \/ LocalFails \/ LocalShutdown
    <2>1. Running' = Running
      BY <1>5 DEF ServeFails, Signal, LocalFails, LocalShutdown, Running, servers
    <2>2. /\ accepting' \in BOOLEAN /\ served' \in BOOLEAN
          /\ cancelled' \in BOOLEAN
      BY <1>5, Zenon DEF ServeFails, Signal, LocalFails, LocalShutdown, TypeOK,
                         servers
    <2>3. open' \in Nat
      BY <1>5 DEF ServeFails, Signal, LocalFails, LocalShutdown, TypeOK, servers
    <2>4. UNCHANGED <<tracker, req, pc, awaited>>
      BY <1>5 DEF ServeFails, Signal, LocalFails, LocalShutdown, servers
    <2>. QED
      BY <2>1, <2>2, <2>3, <2>4 DEF TypeOK, tracker
  <1>6. CASE Serve
    <2>1. CASE SelectFailed \/ SelectDone
      BY <1>6, <2>1 DEF SelectFailed, SelectDone, TypeOK, Running, tracker, servers
    <2>2. CASE Stop("failed", "close") \/ Stop("stop", "shutdown")
      BY <1>6, <2>2 DEF Stop, TypeOK, Running, servers
    <2>3. CASE ShutdownBegins \/ ShutdownReturns \/ GraceExpires \/ Close
      BY <1>6, <2>3 DEF ShutdownBegins, ShutdownReturns, GraceExpires, Close,
                        TypeOK, Running, tracker, servers
    <2>4. CASE WaitBegins
      BY <1>6, <2>4 DEF WaitBegins, TypeOK, Running, servers
    <2>5. CASE WaitReturns \/ Result \/ Cancel \/ LocalsDone
      BY <1>6, <2>5 DEF WaitReturns, Result, Cancel, LocalsDone, TypeOK, Running,
                        tracker, servers
    <2>. QED
      BY <1>6, <2>1, <2>2, <2>3, <2>4, <2>5 DEF Serve
  <1>7. CASE Finished \/ UNCHANGED vars
    BY <1>7 DEF Finished, vars, TypeOK, Running, tracker, servers
  <1>. QED
    BY <1>1, <1>2, <1>3, <1>4, <1>5, <1>6, <1>7 DEF Next

\* The counter, the drained channel and Wait agree in every reachable state.
THEOREM LifecycleInvariant == Spec => []Inductive
  BY InitInductive, NextInductive, PTL DEF Spec

\* runArgs closes the catalogue only when every admitted handler, of any of the
\* servers, has ended, for any number of requests arriving at any moment.
THEOREM CatalogueIsClosedLast == Spec => []CatalogueOutlivesHandlers
  <1>1. Inductive => CatalogueOutlivesHandlers
    BY RunningFinite DEF Inductive, CatalogueOutlivesHandlers
  <1>. QED
    BY <1>1, LifecycleInvariant, PTL

\* The panic in Leave is unreachable and no channel is closed twice.
THEOREM LeaveIsSafe == Spec => []LeaveNeverPanics
  <1>1. Inductive => LeaveNeverPanics
    BY RunningFinite DEF Inductive, TypeOK, LeaveNeverPanics
  <1>. QED
    BY <1>1, LifecycleInvariant, PTL

\* Wait waits for the last channel: nothing is admitted after it chose one.
THEOREM AdmissionEnds == Spec => NothingAdmittedLate
  <1>1. Inductive /\ [Next]_vars =>
          [awaited # 0 => \A r \in Requests :
             req'[r] = "running" => req[r] = "running"]_vars
    <2>. SUFFICES ASSUME Inductive, Next, awaited # 0, NEW r \in Requests,
                         req'[r] = "running"
                  PROVE  req[r] = "running"
      OBVIOUS
    <2>1. stopping /\ req \in [Requests -> {"none", "accepted", "running", "ended"}]
      BY DEF Inductive, TypeOK
    <2>2. ASSUME NEW q \in Requests,
                 Accept(q) \/ Enter(q) \/ Reject(q) \/ Hangup(q) \/ Leave(q)
          PROVE  req[r] = "running"
      BY <2>1, <2>2 DEF Accept, Enter, Reject, Hangup, Leave
    <2>3. CASE ServeFails \/ Signal \/ LocalFails \/ LocalShutdown \/ Finished
      BY <2>3 DEF ServeFails, Signal, LocalFails, LocalShutdown, Finished, vars,
                  servers
    <2>4. CASE Serve
      BY <2>4 DEF Serve, SelectFailed, SelectDone, Stop, ShutdownBegins,
                  ShutdownReturns, GraceExpires, Close, WaitBegins, WaitReturns,
                  Result, Cancel, LocalsDone, servers
    <2>. QED
      BY <2>2, <2>3, <2>4 DEF Next
  <1>. QED
    BY <1>1, LifecycleInvariant, PTL DEF Spec, NothingAdmittedLate

-----------------------------------------------------------------------------
(* Starts, exits and the migration.                                        *)

MTypeOK ==
    /\ dir \in [Names -> SUBSET Places] /\ disk \in [Names -> SUBSET Places]
    /\ writer \in {"off", "starting", "on"}
    /\ cycle \in BOOLEAN
    /\ step \in {"idle", "check", "move", "sync"}
    /\ sources \subseteq Names

\* A lock is held by one process, a writer that is not serving has no handler,
\* and a writer that serves has validated its layout.
Locks ==
    /\ step # "idle" => writer = "off" /\ ~cycle
    /\ writer = "on" => LayoutValid
    /\ writer # "on" => Running = {}

\* The plan of the migration: what is still to be moved is in the old place and
\* only there, but for the directory just moved and not yet synchronised.
Plan ==
    /\ step = "move" => \A n \in sources : dir[n] = {"old"}
    /\ step = "sync" => /\ sources # {}
                        /\ dir[First] = {"new"}
                        /\ \A n \in sources \ {First} : dir[n] = {"old"}

\* The archive is somewhere, also after a power loss.
ArchivePresent == dir["backups"] # {} /\ disk["backups"] # {}

MInductive == Inductive /\ MTypeOK /\ Locks /\ Plan /\ ArchivePresent

-----------------------------------------------------------------------------
LEMMA InitMInductive == MInit => MInductive
  <1>. SUFFICES ASSUME MInit PROVE MInductive
    OBVIOUS
  <1>1. Inductive
    BY InitInductive DEF MInit
  <1>2. MTypeOK
    <2>1. cycle \in BOOLEAN
      BY Zenon DEF MInit
    <2>. QED
      BY <2>1 DEF MInit, MTypeOK
  <1>3. Running = {}
    BY DEF MInit, Init, Running
  <1>. QED
    BY <1>1, <1>2, <1>3 DEF MInit, MInductive, Locks, Plan, ArchivePresent

\* The steps of a serving writer: what they do to requests is the business of
\* Lifecycle, and nothing else moves.
LEMMA ServingMInductive == MInductive /\ On(Next) => MInductive'
  <1>. SUFFICES ASSUME MInductive, On(Next) PROVE MInductive'
    OBVIOUS
  <1>1. Inductive'
    BY NextInductive DEF MInductive, On
  <1>. QED
    BY <1>1 DEF MInductive, On, MTypeOK, Locks, Plan, ArchivePresent, LayoutValid,
                First, layout, migration

\* The writer starts, validates and exits: it leaves as Lifecycle begins.
LEMMA WriterMInductive ==
    MInductive /\ (TakeWriterLock \/ Listen \/ Exit) => MInductive'
  <1>. SUFFICES ASSUME MInductive, TakeWriterLock \/ Listen \/ Exit
                PROVE  MInductive'
    OBVIOUS
  <1>. USE DEF MInductive, MTypeOK, Locks, Plan, ArchivePresent, LayoutValid,
               First, layout, migration
  <1>1. CASE TakeWriterLock \/ Listen
    <2>1. UNCHANGED vars
      BY <1>1 DEF TakeWriterLock, Listen
    <2>2. Inductive' /\ Running' = Running
      BY <2>1, NextInductive DEF vars, servers, Running
    <2>. QED
      BY <1>1, <2>2 DEF TakeWriterLock, Listen
  <1>2. CASE Exit
    <2>1. Init'
      BY <1>2 DEF Exit, Init
    <2>2. Inductive'
      BY <2>1, InitInductive, PTL
    <2>3. Running' = {}
      BY <1>2 DEF Exit, Running
    <2>. QED
      BY <1>2, <2>2, <2>3 DEF Exit
  <1>. QED
    BY <1>1, <1>2

\* Everything else leaves the variables of Lifecycle alone.
LEMMA MigrationMInductive ==
    ASSUME MInductive,
           \/ BeginCycle \/ EndCycle \/ TakeLocks \/ Migrating
           \/ MigrationStops \/ PowerLoss \/ UNCHANGED allVars
    PROVE  MInductive'
  <1>1. UNCHANGED vars
    BY DEF BeginCycle, EndCycle, TakeLocks, Migrating, Check, Move, Sync, Migrated,
           MigrationStops, PowerLoss, allVars
  <1>2. Inductive' /\ Running' = Running
    BY <1>1, NextInductive DEF MInductive, vars, servers, Running
  <1>. USE DEF MInductive, Locks, Plan, ArchivePresent, LayoutValid, First, layout,
               migration
  <1>3. CASE BeginCycle \/ EndCycle
    <2>1. cycle' \in BOOLEAN
      BY <1>3, Zenon DEF BeginCycle, EndCycle
    <2>. QED
      BY <1>2, <1>3, <2>1 DEF BeginCycle, EndCycle, MTypeOK
  <1>4. CASE TakeLocks
    BY <1>2, <1>4 DEF TakeLocks, MTypeOK
  <1>5. CASE Check
    <2>1. dir' \in [Names -> SUBSET Places] /\ sources' \subseteq Names
      BY <1>5 DEF Check, MTypeOK, Places, Names
    <2>2. dir'["backups"] # {}
      BY <1>5 DEF Check, MTypeOK, Names
    <2>3. Plan'
      BY <1>5, <2>1 DEF Check, Clear
    <2>4. step' \in {"move", "idle"}
      BY <1>5 DEF Check
    <2>. QED
      BY <1>2, <1>5, <2>1, <2>2, <2>3, <2>4 DEF Check, MTypeOK
  <1>6. CASE Move
    <2>1. First \in sources /\ First \in Names
      BY <1>6 DEF Move, MTypeOK, Names
    <2>2. dir' \in [Names -> SUBSET Places] /\ dir'["backups"] # {}
      BY <1>6, <2>1 DEF Move, MTypeOK, Places, Names
    <2>3. Plan'
      BY <1>6, <2>1 DEF Move, MTypeOK
    <2>. QED
      BY <1>2, <1>6, <2>2, <2>3 DEF Move, MTypeOK
  <1>7. CASE Sync
    BY <1>2, <1>7 DEF Sync, MTypeOK
  <1>8. CASE Migrated \/ MigrationStops
    BY <1>2, <1>8 DEF Migrated, MigrationStops, MTypeOK
  <1>9. CASE PowerLoss
    <2>1. cycle' \in BOOLEAN
      BY <1>9, Zenon DEF PowerLoss
    <2>2. dir' \in [Names -> SUBSET Places] /\ dir'["backups"] # {}
      BY <1>9 DEF PowerLoss, MTypeOK, Names
    <2>. QED
      BY <1>2, <1>9, <2>1, <2>2 DEF PowerLoss, MTypeOK
  <1>10. CASE UNCHANGED allVars
    BY <1>2, <1>10 DEF allVars, MTypeOK
  <1>. QED
    BY <1>3, <1>4, <1>5, <1>6, <1>7, <1>8, <1>9, <1>10 DEF Migrating

LEMMA NextMInductive == MInductive /\ [MNext]_allVars => MInductive'
  BY ServingMInductive, WriterMInductive, MigrationMInductive DEF MNext

\* Locks, directories and the plan of MigrateArchives agree in every reachable
\* state of writer, maintenance process and migration.
THEOREM MigrationInvariant == MSpec => []MInductive
  BY InitMInductive, NextMInductive, PTL DEF MSpec

\* While a handler of any server or a maintenance cycle runs no directory moves,
\* and the writer serves only from the new layout: for any requests, and however
\* often processes start, fail, die or lose power.
THEOREM ArchiveIsHeldStill == MSpec => []ArchiveHeldStill
  <1>1. MInductive => ArchiveHeldStill
    BY DEF MInductive, Locks, ArchiveHeldStill, MTypeOK
  <1>. QED
    BY <1>1, MigrationInvariant, PTL

\* In every life of the writer the catalogue is closed, and with it writer.lock
\* released to the migration, after the last handler.
THEOREM LockOutlivesHandlers == MSpec => []CatalogueOutlivesHandlers
  <1>1. Inductive => CatalogueOutlivesHandlers
    BY RunningFinite DEF Inductive, CatalogueOutlivesHandlers
  <1>. QED
    BY <1>1, MigrationInvariant, PTL DEF MInductive

\* No step takes the archive away: backups stays in at least one place, and so
\* does what a power loss would leave of it.
THEOREM ArchiveIsNeverLost == MSpec => []ArchivePresent
  BY MigrationInvariant, PTL DEF MInductive

\* A rename of the migration never meets RENAME_NOREPLACE: what Move takes is
\* in the old place alone, whatever a run before it left behind.
RenameTargetFree == step = "move" /\ sources # {} => dir[First] = {"old"}

\* renameat2 finds its target free in every migration, also one that repeats a
\* migration an error, a death or a power loss has stopped.
THEOREM RenamesAreNeverRefused == MSpec => []RenameTargetFree
  <1>1. MInductive => RenameTargetFree
    BY DEF MInductive, Plan, First, MTypeOK, Names, RenameTargetFree
  <1>. QED
    BY <1>1, MigrationInvariant, PTL

\* No directory changes its place, on disk or before the next synchronisation,
\* in the course of a handler or of a maintenance cycle that goes on.
DirectoriesStayPut ==
    [][Running # {} \/ (cycle /\ cycle') => UNCHANGED layout]_allVars

\* What a handler or a cycle has found when it resolved a path is still there
\* when it uses it.
THEOREM DirectoriesStay == MSpec => DirectoriesStayPut
  <1>1. MInductive /\ [MNext]_allVars =>
          [Running # {} \/ (cycle /\ cycle') => UNCHANGED layout]_allVars
    <2>. SUFFICES ASSUME MInductive, MNext, Running # {} \/ (cycle /\ cycle')
                  PROVE  UNCHANGED layout
      OBVIOUS
    <2>1. step = "idle"
      BY DEF MInductive, Locks
    <2>2. CASE \/ On(Next) \/ TakeWriterLock \/ Listen \/ Exit
               \/ BeginCycle \/ EndCycle \/ TakeLocks \/ MigrationStops
      BY <2>2 DEF On, TakeWriterLock, Listen, Exit, BeginCycle, EndCycle, TakeLocks,
                  MigrationStops
    <2>3. CASE Migrating
      BY <2>1, <2>3 DEF Migrating, Check, Move, Sync, Migrated, layout
    <2>4. CASE PowerLoss
      <3>1. writer # "on" /\ cycle' = FALSE
        BY <2>4 DEF PowerLoss
      <3>2. Running = {}
        BY <3>1 DEF MInductive, Locks
      <3>. QED
        BY <3>1, <3>2
    <2>. QED
      BY <2>2, <2>3, <2>4 DEF MNext
  <1>. QED
    BY <1>1, MigrationInvariant, PTL DEF MSpec, DirectoriesStayPut
=============================================================================
