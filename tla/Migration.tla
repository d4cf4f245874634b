------------------------------ MODULE Migration ------------------------------
(***************************************************************************)
(* The offline migration of the archive layout (MigrateArchives in         *)
(* internal/store/archive_layout.go) beside the processes it must not      *)
(* meet: the writer, from runArgs taking writer.lock to the last deferred  *)
(* call that releases it (its serving and shutdown are module Lifecycle),  *)
(* and the cycles of the maintenance process, each of which locks the      *)
(* directory maintenance.  Flocks end with their process.                  *)
(*                                                                         *)
(* The old layout has backups and quarantine in the state directory, the   *)
(* new one in its subdirectory archives.  A rename is one step of the file *)
(* system, durable once the directories are synchronised.                  *)
(***************************************************************************)
EXTENDS Lifecycle

CONSTANTS
    MaxStarts,      \* bound: starts of the writer
    MaxMishaps      \* bound: errors, deaths and power losses

Names  == {"backups", "quarantine"}
Places == {"old", "new"}

VARIABLES
    dir,        \* dir[n]: the places that have a directory called n
    disk,       \* the same, as a power loss leaves it
    writer,     \* "off", "starting" (writer.lock is held) or "on"
    cycle,      \* a maintenance cycle holds its lock
    step,       \* of MigrateArchives: "idle", "check", "move" or "sync"
    sources,    \* the directories it has still to move
    starts, mishaps

layout    == <<dir, disk>>
migration == <<step, sources>>
allVars == <<vars, layout, writer, cycle, migration, starts, mishaps>>

\* An installation of any earlier version: either layout, a migration that
\* stopped half-way, no quarantine yet, or a name in both places.
MInit ==
    /\ Init
    /\ dir \in [Names -> SUBSET Places] /\ dir["backups"] # {}
    /\ disk = dir
    /\ writer = "off" /\ cycle = FALSE
    /\ step = "idle" /\ sources = {}
    /\ starts = 0 /\ mishaps = 0

-----------------------------------------------------------------------------
(* The writer and the maintenance process.                                 *)

\* ValidateArchiveLayout and the directories of ValidateState.
LayoutValid == \A n \in Names : dir[n] = {"new"}

\* runArgs takes writer.lock ...
TakeWriterLock ==
    /\ writer = "off" /\ step = "idle" /\ starts < MaxStarts
    /\ writer' = "starting" /\ starts' = starts + 1
    /\ UNCHANGED <<vars, layout, cycle, migration, mishaps>>
\* ... and validates the state before it opens the catalogue and listens.
Listen ==
    /\ writer = "starting"
    /\ writer' = IF LayoutValid THEN "on" ELSE "off"
    /\ UNCHANGED <<vars, layout, cycle, migration, starts, mishaps>>

\* The life of the process is that of module Lifecycle.
On(A) == writer = "on" /\ A /\ UNCHANGED <<layout, writer, cycle, migration, starts, mishaps>>

\* The deferred calls have closed the catalogue and release the lock.  The next
\* process begins anew, and so do the requests.
Exit ==
    /\ writer = "on" /\ pc = "closed"
    /\ writer' = "off"
    /\ active' = 0 /\ stopping' = FALSE /\ drained' = 1 /\ closed' = {1}
    /\ req' = [r \in Requests |-> "none"] /\ accepting' = TRUE /\ open' = Servers
    /\ pc' = "serving" /\ awaited' = 0 /\ served' = FALSE /\ cancelled' = FALSE
    /\ UNCHANGED <<layout, cycle, migration, starts, mishaps>>

\* RunOnce: lockExecution, and the deferred Close.
BeginCycle ==
    /\ ~cycle /\ step = "idle"
    /\ cycle' = TRUE
    /\ UNCHANGED <<vars, layout, writer, migration, starts, mishaps>>
EndCycle ==
    /\ cycle /\ cycle' = FALSE
    /\ UNCHANGED <<vars, layout, writer, migration, starts, mishaps>>

-----------------------------------------------------------------------------
(* MigrateArchives.                                                        *)

TakeWriterLockOnly ==
    /\ step = "idle" /\ writer = "off"
    /\ step' = "check"
    /\ UNCHANGED <<vars, layout, writer, cycle, sources, starts, mishaps>>
\* Both locks, without waiting; then archives is created.
TakeLocks ==
    /\ step = "idle" /\ writer = "off" /\ ~cycle
    /\ step' = "check"
    /\ UNCHANGED <<vars, layout, writer, cycle, sources, starts, mishaps>>

\* A name must be in exactly one place.
ClearFromStart(places) == places = {"old"}
Clear(places) == places \in {{"old"}, {"new"}}

\* Both names are checked before either directory moves.  A quarantine that
\* never was is created in the old place.
Check ==
    /\ step = "check"
    /\ dir' = IF Clear(dir["backups"]) /\ dir["quarantine"] = {}
                THEN [dir EXCEPT !["quarantine"] = {"old"}] ELSE dir
    /\ IF \A n \in Names : Clear(dir'[n])
         THEN step' = "move" /\ sources' = {n \in Names : "old" \in dir'[n]}
         ELSE step' = "idle" /\ sources' = {}
    /\ UNCHANGED <<vars, disk, writer, cycle, starts, mishaps>>

\* renameat2 with RENAME_NOREPLACE, backups first; ...
First == IF "backups" \in sources THEN "backups" ELSE "quarantine"
Move ==
    /\ step = "move" /\ sources # {} /\ "new" \notin dir[First]
    /\ dir' = [dir EXCEPT ![First] = {"new"}]
    /\ step' = "sync"
    /\ UNCHANGED <<vars, disk, writer, cycle, sources, starts, mishaps>>
\* ... then both parents are synchronised.
Sync ==
    /\ step = "sync"
    /\ disk' = dir
    /\ sources' = sources \ {First}
    /\ step' = "move"
    /\ UNCHANGED <<vars, dir, writer, cycle, starts, mishaps>>

\* The final ValidateState decides the exit status only.
Migrated ==
    /\ step = "move" /\ sources = {}
    /\ step' = "idle"
    /\ UNCHANGED <<vars, layout, writer, cycle, sources, starts, mishaps>>

Mishap == mishaps < MaxMishaps /\ mishaps' = mishaps + 1

\* An error, or the death of the command.
MigrationStops ==
    /\ step # "idle" /\ Mishap
    /\ step' = "idle" /\ sources' = {}
    /\ UNCHANGED <<vars, layout, writer, cycle, starts>>

\* The machine stops before the writer listens (module Ingest has the failures of
\* a writer that does): of what was not synchronised any part may survive.
PowerLoss ==
    /\ writer # "on" /\ Mishap
    /\ \E kept \in SUBSET Names :
         dir' = [n \in Names |-> IF n \in kept THEN dir[n] ELSE disk[n]]
    /\ disk' = dir'
    /\ writer' = "off" /\ cycle' = FALSE
    /\ step' = "idle" /\ sources' = {}
    /\ UNCHANGED <<vars, starts>>

-----------------------------------------------------------------------------
Migrating == Check \/ Move \/ Sync \/ Migrated

MNext ==
    \/ On(Next)
    \/ TakeWriterLock \/ Listen \/ Exit
    \/ BeginCycle \/ EndCycle
    \/ TakeLocks \/ Migrating
    \/ MigrationStops \/ PowerLoss

\* Processes run and cycles end; the operator repeats the command until the locks
\* are free.  The fairness of Lifecycle is that of a running writer.
MSpec ==
    /\ MInit /\ [][MNext]_allVars
    /\ WF_allVars(Migrating) /\ SF_allVars(TakeLocks)
    /\ WF_allVars(Listen) /\ WF_allVars(EndCycle)
    /\ \A r \in Requests : WF_allVars(On(Leave(r)))
    /\ WF_allVars(On(Serve)) /\ WF_allVars(On(LocalShutdown))

-----------------------------------------------------------------------------
(* Properties.                                                             *)

\* MigrateArchives works alone and the writer only in the new layout: while a
\* handler of any server or a maintenance cycle runs no directory is moved, and
\* from the moment the writer listens until its last handler has ended both
\* directories are in archives and nowhere else.
ArchiveHeldStill ==
    /\ Running # {} \/ cycle => step = "idle"
    /\ writer = "on" => LayoutValid /\ step = "idle"

\* "A partially completed migration is safe to run again": unless a name is taken
\* in both places, repeating MigrateArchives reaches the new layout, wherever an
\* error, a death or a power loss has stopped it before.
MigrationResumes ==
    (\A n \in Names : dir[n] # Places) ~> LayoutValid
=============================================================================
