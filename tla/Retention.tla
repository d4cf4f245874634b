------------------------------- MODULE Retention -------------------------------
(***************************************************************************)
(* Retention operations: how a stored backup is quarantined, recovered and *)
(* purged by two processes that share a directory tree.                    *)
(*                                                                         *)
(* The writer owns the catalogue (internal/store/retention.go) and serves  *)
(* the maintenance socket (internal/localapi/api.go); the maintenance      *)
(* process (internal/maintenance/service.go) owns the file moves.  Each    *)
(* move is requested, authorised with a ticket, definitively permitted     *)
(* (execution_committed), performed, synchronised and confirmed.  Either   *)
(* process may die, an answer may be lost while its effect happens later,  *)
(* leases expire, keys are revoked, incidents block and power fails.       *)
(***************************************************************************)
EXTENDS Integers, FiniteSets, FiniteSetsExt

CONSTANTS
    Backups,        \* stored backups
    KeyOf,          \* KeyOf[b]: the credential that deposited b
    MaxOps,         \* bound: rows of retention_operations
    Gens,           \* lease generations that can be told apart at one time
    Renames,        \* how files move: "atomic" (renameat2) or "link" (its fallback)
    Events,         \* the administrative and external events of an instance
    MaxFaults       \* bound: timeouts, deaths, errors and losses

Keys   == {KeyOf[b] : b \in Backups}
OpIds  == 1 .. MaxOps
NoGen  == 0
\* deletion_blocked: not set, or set with a block_reason that names the incident
\* of an operation (its id), another incident, or no incident.
Free      == 0
Elsewhere == -1
Incident  == -2
Places == {"archive", "quarantine"}

ASSUME RetentionAssumption ==
    /\ IsFiniteSet(Backups) /\ Backups # {}
    /\ MaxOps \in Nat /\ MaxFaults \in Nat
    /\ KeyOf \in [Backups -> Keys]
    /\ Gens \subseteq Nat \ {NoGen}
    /\ Renames \subseteq {"atomic", "link"}

VARIABLES
    \* Catalogue: backups, keys, retention_operations.
    status, ops, ripe, missing, revoked,
    \* automation_state and anomalies.
    learned,    \* model_revision # 0
    regular,    \* monitoring_state = REGOLARE after a fresh check
    hold,       \* deletion_blocked, by whom block_reason was written
    barred,     \* an operation was cancelled since the hold was written
    holds,      \* manual_paused, activation_required, NOT mail_tested, NOT enabled
    pending,    \* resume_pending, activation_pending
    alarms,     \* open blocking anomalies that no operation owns
    checking,   \* the running row of monitoring_checks
    \* maintenance_leases.
    lease, held,
    \* The directories: as processes see them, and as a power loss leaves them.
    where, disk,
    \* The maintenance process and its calls to the writer.
    pc, phase, gen, todo, due, calls,
    \* History.
    owed,       \* a hold was set that only retention resume may lift
    faults

catalogue  == <<status, ops, ripe, missing, revoked>>
automation == <<learned, regular, hold, barred, holds, pending, alarms, checking,
                owed>>
leases     == <<lease, held>>
files      == <<where, disk>>
cycle      == <<pc, phase, gen, todo, due>>
vars == <<catalogue, automation, leases, files, cycle, calls, faults>>

-----------------------------------------------------------------------------
Stable   == {"complete", "deleting", "quarantined"}
Statuses == Stable \cup {"purging", "deleted"}
Kinds    == {"quarantine", "recover", "purge"}
States   == {"none", "requested", "authorized", "confirmed", "cancelled"}
Operation ==
    [backup : Backups, kind : Kinds, state : States,
     committed : BOOLEAN,           \* execution_committed
     ticket : Gens \cup {NoGen},    \* generation the ticket was issued under
     rev : BOOLEAN,                 \* requested under a learned model
     note : {"", "error", "intact"},
     checked : BOOLEAN,             \* a check completed since the last error
     err : BOOLEAN,                 \* open maintenance-operation incident
     unc : BOOLEAN]                 \* open operation-uncertain incident

Endpoints == {"reconcile", "authorize", "validate", "confirm", "report"}
Outcomes  == {"unread", "done", "intact", "unclear"}
Call == [type : Endpoints, op : OpIds, gen : Gens,
         seen : Outcomes,           \* what the writer read of the files
         cleared : BOOLEAN,         \* the lease was checked after reading
         live : BOOLEAN]            \* the client still waits

Phases == {"reconcile", "first", "second"}
PCs    == {"idle", "snapshot", "op", "wait", "verify", "move", "linked",
           "sync", "confirm", "report", "check", "clear", "purge", "end"}

TypeOK ==
    /\ status \in [Backups -> Statuses]
    /\ ops \in [OpIds -> Operation]
    /\ ripe \subseteq Backups /\ missing \subseteq Backups
    /\ revoked \subseteq Keys
    /\ learned \in BOOLEAN /\ regular \in BOOLEAN /\ barred \in BOOLEAN
    /\ checking \in BOOLEAN /\ owed \in BOOLEAN
    /\ holds \subseteq {"manual", "activation", "mail", "disabled"}
    /\ pending \subseteq {"resume", "activate"}
    /\ hold \in {Free, Elsewhere, Incident} \cup OpIds
    /\ alarms \subseteq Backups \cup {"catalog", "external", "operational"}
    /\ lease \in Gens \cup {NoGen} /\ held \in BOOLEAN
    /\ where \in [Backups -> SUBSET Places] /\ disk \in [Backups -> SUBSET Places]
    /\ pc \in PCs /\ phase \in Phases /\ gen \in Gens \cup {NoGen}
    /\ todo \subseteq OpIds /\ due \subseteq Backups
    /\ calls \subseteq Call
    /\ faults \in 0 .. MaxFaults

\* The place a status stands for; "deleted" has none.
PlaceOf(s) ==
    IF s \in {"complete", "deleting"} THEN {"archive"}
    ELSE IF s \in {"quarantined", "purging"} THEN {"quarantine"} ELSE {}

\* Some backups have been quarantined for 48 hours already; every key has a
\* complete copy.  Retention is in operation, or (with the event "first") it has
\* been set up and its mail tested, and the first check has yet to come.
Init ==
    /\ status \in [Backups -> {"complete", "quarantined"}]
    /\ \A k \in Keys : \E b \in Backups : KeyOf[b] = k /\ status[b] = "complete"
    /\ ops \in [OpIds -> {[backup |-> CHOOSE b \in Backups : TRUE,
                           kind |-> "recover", state |-> "none",
                           committed |-> FALSE, ticket |-> NoGen, rev |-> FALSE,
                           note |-> "", checked |-> TRUE,
                           err |-> FALSE, unc |-> FALSE]}]
    /\ ripe = {b \in Backups : status[b] = "quarantined"}
    /\ missing = {} /\ revoked = {}
    /\ learned \in {TRUE, "first" \notin Events} /\ regular = learned
    /\ hold = IF learned THEN Free ELSE Elsewhere
    /\ owed = ~learned
    /\ holds = IF learned THEN {} ELSE {"activation"}
    /\ pending = IF learned THEN {} ELSE {"activate"}
    /\ barred = FALSE /\ alarms = {} /\ checking = FALSE
    /\ lease = NoGen /\ held = FALSE
    /\ where = [b \in Backups |-> PlaceOf(status[b])] /\ disk = where
    /\ pc = "idle" /\ phase = "reconcile" /\ gen = NoGen
    /\ todo = {} /\ due = {} /\ calls = {} /\ faults = 0

-----------------------------------------------------------------------------
(* Catalogue predicates.                                                   *)

InState(s) == {o \in OpIds : ops[o].state = s}
ActiveOps(b) ==
    {o \in OpIds : /\ ops[o].state \in {"requested", "authorized"}
                   /\ ops[o].backup = b}
Committed == {o \in InState("authorized") : ops[o].committed}
KeyFor(o) == KeyOf[ops[o].backup]
Destructive(o) == ops[o].kind \in {"quarantine", "purge"}

Blocked == hold # Free \/ holds # {} \/ "resume" \in pending
Incidents == {o \in OpIds : ops[o].err}
Doubts    == {o \in OpIds : ops[o].unc}
Blocking  == Cardinality(Incidents) + Cardinality(Doubts) + Cardinality(alarms)

Copies(k, among) ==
    {b \in Backups : KeyOf[b] = k /\ status[b] \in among /\ b \notin missing}

\* canRetryReconciledOperationTx: an operation whose source was verified intact
\* may pass the block that its own error, and nothing else, has caused.
CanRetry(o) ==
    /\ ops[o].note = "intact" /\ ~ops[o].committed
    /\ holds = {} /\ "resume" \notin pending
    /\ hold = o /\ ops[o].checked
    /\ ops[o].err /\ Blocking = 1
    /\ InState("authorized") \subseteq {o}

Leased(g) == held /\ lease = g

\* Where an operation takes the file from and where it puts it.
Source(o)      == IF ops[o].kind = "quarantine" THEN "archive" ELSE "quarantine"
Destination(o) == IF ops[o].kind = "quarantine" THEN {"quarantine"}
                  ELSE IF ops[o].kind = "recover" THEN {"archive"} ELSE {}

\* The physical outcome as the writer reads it.
Outcome(o) ==
    LET at == where[ops[o].backup]
    IN  IF at = Destination(o) THEN "done"
        ELSE IF at = {Source(o)} THEN "intact" ELSE "unclear"

-----------------------------------------------------------------------------
(* Requests and administration.                                            *)

NewOp(b, kind) ==
    [backup |-> b, kind |-> kind, state |-> "requested", committed |-> FALSE,
     ticket |-> NoGen, rev |-> learned, note |-> "", checked |-> TRUE,
     err |-> FALSE, unc |-> FALSE]
Insert(b, kind) ==
    /\ InState("none") # {}
    /\ ops' = [ops EXCEPT ![Min(InState("none"))] = NewOp(b, kind)]

\* Store.RequestQuarantine, by an administrator or by scheduleAutomatic.
RequestQuarantine(b) ==
    /\ "request" \in Events
    /\ ~Blocked /\ KeyOf[b] \notin revoked
    /\ status[b] = "complete" /\ b \notin missing /\ ActiveOps(b) = {}
    /\ Cardinality(Copies(KeyOf[b], {"complete"})) > 1
    /\ status' = [status EXCEPT ![b] = "deleting"]
    /\ Insert(b, "quarantine")
    /\ UNCHANGED <<ripe, missing, revoked, automation, leases, files, cycle,
                   calls, faults>>

\* Store.RequestRecovery leaves the status alone until the file has moved.
RequestRecovery(b) ==
    /\ "recover" \in Events
    /\ status[b] = "quarantined" /\ ActiveOps(b) = {}
    /\ Insert(b, "recover")
    /\ UNCHANGED <<status, ripe, missing, revoked, automation, leases, files,
                   cycle, calls, faults>>

\* The status a cancelled destructive operation gives back.
Restored(o) == IF ops[o].kind = "quarantine" THEN "complete" ELSE "quarantined"
Cancelled(o) ==
    [ops[o] EXCEPT !.state = "cancelled", !.ticket = NoGen, !.note = "",
                   !.err = FALSE, !.unc = FALSE]

\* A hold that only a resume lifts; the hold of a blocking incident, which
\* also cancels a requested resume (blockForAnomalyTx).
HoldElsewhere == hold' = Elsewhere /\ barred' = FALSE /\ regular' = FALSE
                   /\ owed' = TRUE
BlockFor(h)   == hold' = h /\ barred' = FALSE /\ regular' = FALSE
                   /\ pending' = {}

\* Store.CancelQuarantineRequest also pauses retention.
CancelQuarantineRequest(o) ==
    /\ "cancel" \in Events
    /\ ops[o].state = "requested" /\ ops[o].kind = "quarantine"
    /\ ops' = [ops EXCEPT ![o] = Cancelled(o)]
    /\ status' = [status EXCEPT ![ops[o].backup] = "complete"]
    /\ HoldElsewhere /\ holds' = holds \cup {"manual"} /\ pending' = {}
    /\ UNCHANGED <<ripe, missing, revoked, learned, alarms, checking, leases,
                   files, cycle, calls, faults>>

\* Store.Revoke cancels what is only requested; authorised work is left to
\* physical reconciliation.
RevokeForgettingStatus(k) ==
    LET gone == {o \in InState("requested") : Destructive(o) /\ KeyFor(o) = k}
    IN  /\ "revoke" \in Events /\ k \notin revoked
        /\ revoked' = revoked \cup {k}
        /\ ops' = [o \in OpIds |-> IF o \in gone THEN Cancelled(o) ELSE ops[o]]
        /\ barred' = (hold \in OpIds /\ (barred \/ gone # {}))
        /\ UNCHANGED <<status, ripe, missing, learned, regular, hold, holds,
                       pending, alarms, checking, owed, leases, files, cycle,
                       calls, faults>>
RevokeCancellingAuthorized(k) ==
    LET gone == {o \in OpIds : /\ ops[o].state \in {"requested", "authorized"}
                              /\ Destructive(o) /\ KeyFor(o) = k}
    IN  /\ "revoke" \in Events /\ k \notin revoked
        /\ revoked' = revoked \cup {k}
        /\ status' = [b \in Backups |->
              IF \E o \in gone : ops[o].backup = b
                THEN Restored(CHOOSE o \in gone : ops[o].backup = b)
                ELSE status[b]]
        /\ ops' = [o \in OpIds |-> IF o \in gone THEN Cancelled(o) ELSE ops[o]]
        /\ UNCHANGED <<ripe, missing, automation, leases, files, cycle, calls,
                       faults>>
Revoke(k) ==
    LET gone == {o \in InState("requested") : Destructive(o) /\ KeyFor(o) = k}
    IN  /\ "revoke" \in Events /\ k \notin revoked
        /\ revoked' = revoked \cup {k}
        /\ status' = [b \in Backups |->
              IF \E o \in gone : ops[o].backup = b
                THEN Restored(CHOOSE o \in gone : ops[o].backup = b)
                ELSE status[b]]
        /\ ops' = [o \in OpIds |-> IF o \in gone THEN Cancelled(o) ELSE ops[o]]
        /\ barred' = (hold \in OpIds /\ (barred \/ gone # {}))
        /\ UNCHANGED <<ripe, missing, learned, regular, hold, holds, pending,
                       alarms, checking, owed, leases, files, cycle, calls,
                       faults>>

\* Store.PauseRetention.
Pause ==
    /\ "pause" \in Events
    /\ holds' = holds \cup {"manual"} /\ pending' = {}
    /\ UNCHANGED <<catalogue, learned, regular, hold, barred, alarms, checking,
                   owed, leases, files, cycle, calls, faults>>

\* Store.RequestRetentionResume: the next regular check will resume.
RequestResume ==
    /\ "resume" \in Events
    /\ holds' = holds \ {"disabled"} /\ pending' = pending \cup {"resume"}
    /\ hold' = IF hold = Free THEN Elsewhere ELSE hold
    /\ UNCHANGED <<catalogue, learned, regular, barred, alarms, checking, owed,
                   leases, files, cycle, calls, faults>>

\* Everything a resume lifts, immediate or deferred.
Release == /\ hold' = Free /\ holds' = {} /\ pending' = {}
           /\ barred' = FALSE /\ owed' = FALSE

ResumeIgnoringAuthorized ==
    /\ "resume" \in Events
    /\ {"mail", "disabled"} \cap holds = {}
    /\ learned /\ regular /\ Blocking = 0
    /\ Release
    /\ UNCHANGED <<catalogue, learned, regular, alarms, checking, leases, files,
                   cycle, calls, faults>>
\* Store.ResumeRetention.
Resume ==
    /\ "resume" \in Events
    /\ {"mail", "disabled"} \cap holds = {}
    /\ learned /\ regular /\ Blocking = 0 /\ InState("authorized") = {}
    /\ Release
    /\ UNCHANGED <<catalogue, learned, regular, alarms, checking, leases, files,
                   cycle, calls, faults>>

\* Another incident opens (blockForAnomalyTx) and is resolved (ResolveAnomaly).
\* An operational incident (upload, time, schedule_missing) blocks once a second
\* one of the credential is open; it is not resolved but excluded, or its
\* fortnight passes.
RaiseAlarm(a) ==
    /\ a \notin alarms
    /\ alarms' = alarms \cup {a}
    /\ BlockFor(Incident)
    /\ UNCHANGED <<catalogue, learned, holds, checking, owed, leases, files,
                   cycle, calls, faults>>
ResolveAlarm ==
    /\ "external" \in alarms
    /\ alarms' = alarms \ {"external"}
    /\ HoldElsewhere
    /\ UNCHANGED <<catalogue, learned, holds, pending, checking, leases, files,
                   cycle, calls, faults>>
AlarmAges ==
    /\ "operational" \in alarms
    /\ alarms' = alarms \ {"operational"}
    /\ UNCHANGED <<catalogue, learned, regular, hold, barred, holds, pending,
                   checking, owed, leases, files, cycle, calls, faults>>

\* Store.CreateAnomalyExclusion, for any incident ever recorded: open operational
\* incidents are resolved, and a hold whose reason names an incident is lifted
\* when nothing blocks and no operation is authorised.
ExclusionLifts ==
    /\ Incidents = {} /\ Doubts = {} /\ alarms \subseteq {"operational"}
    /\ InState("authorized") = {} /\ hold \in OpIds \cup {Incident}
CreateAnomalyExclusion ==
    /\ "exclude" \in Events
    /\ alarms' = alarms \ {"operational"}
    /\ IF ExclusionLifts
         THEN hold' = Free /\ barred' = FALSE /\ regular' = TRUE
         ELSE UNCHANGED <<hold, barred, regular>>
    /\ UNCHANGED <<catalogue, learned, holds, pending, checking, owed, leases,
                   files, cycle, calls, faults>>

\* Store.BeginRelearn: refused while an operation is pending.  A check that has
\* read its last snapshot is obsolete; the revision is no longer zero.
BeginRelearn ==
    /\ "relearn" \in Events
    /\ InState("requested") \cup InState("authorized") = {}
    /\ learned' = TRUE
    /\ checking' \in {checking, checking /\ pc # "check"}
    /\ HoldElsewhere
    /\ pending' = pending \ {"resume"}
    /\ UNCHANGED <<catalogue, holds, alarms, leases, files, cycle, calls, faults>>

\* Store.AcknowledgeMissingAnomaly.
AcknowledgeMissing(b) ==
    /\ b \in alarms
    /\ alarms' = alarms \ {b} /\ missing' = missing \cup {b}
    /\ HoldElsewhere /\ pending' = {}
    /\ UNCHANGED <<status, ops, ripe, revoked, learned, holds, checking, leases,
                   files, cycle, calls, faults>>

\* Store.SetupAutomationMode: refused while an operation is pending; it
\* invalidates the running check and forgets the model.  MarkMailTested and
\* EnableAutomation follow.
SetupAutomation(mode) ==
    /\ "setup" \in Events
    /\ InState("requested") \cup InState("authorized") = {}
    /\ learned' = FALSE /\ checking' = FALSE
    /\ HoldElsewhere
    /\ \/ mode = "auto" /\ holds' = (holds \ {"disabled"}) \cup {"activation", "mail"}
          /\ pending' = {"activate"}
       \/ mode = "manual" /\ holds' = holds \cup {"disabled", "activation", "mail"}
          /\ pending' = {}
       \/ mode = "" /\ holds' = holds \cup {"activation", "mail"}
          /\ pending' = pending \ {"resume"}
    /\ UNCHANGED <<catalogue, alarms, leases, files, cycle, calls, faults>>
MarkMailTested ==
    /\ "mail" \in holds
    /\ holds' = holds \ {"mail"}
    /\ UNCHANGED <<catalogue, learned, regular, hold, barred, pending, alarms,
                   checking, owed, leases, files, cycle, calls, faults>>
EnableAutomation ==
    /\ "disabled" \in holds /\ "mail" \notin holds
    /\ holds' = holds \ {"disabled"}
    /\ UNCHANGED <<catalogue, learned, regular, hold, barred, pending, alarms,
                   checking, owed, leases, files, cycle, calls, faults>>

\* purge_not_before is reached.
Ripen(b) ==
    /\ status[b] = "quarantined" /\ b \notin ripe
    /\ ripe' = ripe \cup {b}
    /\ UNCHANGED <<status, ops, missing, revoked, automation, leases, files,
                   cycle, calls, faults>>

Administration ==
    \/ \E b \in Backups : \/ RequestQuarantine(b) \/ RequestRecovery(b)
                          \/ AcknowledgeMissing(b) \/ Ripen(b)
    \/ \E o \in OpIds : CancelQuarantineRequest(o)
    \/ \E k \in Keys : Revoke(k)
    \/ Pause \/ RequestResume \/ Resume \/ ResolveAlarm
    \/ "alarm" \in Events /\ RaiseAlarm("external")
    \/ "exclude" \in Events /\ RaiseAlarm("operational")
    \/ AlarmAges \/ CreateAnomalyExclusion \/ BeginRelearn
    \/ \E mode \in {"auto", "manual", ""} : SetupAutomation(mode)
    \/ MarkMailTested \/ EnableAutomation

-----------------------------------------------------------------------------
(* The maintenance cycle (RunOnce); the flock admits one process at a time. *)

cur == Min(todo)    \* operations are taken in the order of their ids
file == ops[cur].backup

\* Continuations of the process: go on with this operation, take the next one,
\* or return from RunOnce with an error.
Proceed(to) == pc' = to /\ UNCHANGED <<phase, gen, todo, due>>
NextOp      == pc' = "op" /\ todo' = todo \ {cur} /\ UNCHANGED <<phase, gen, due>>
Abort       == pc' = "end" /\ todo' = {} /\ due' = {} /\ UNCHANGED <<phase, gen>>

Send(type) ==
    /\ calls' = calls \cup {[type |-> type, op |-> cur, gen |-> gen,
                             seen |-> "unread", cleared |-> FALSE,
                             live |-> TRUE]}
    /\ Proceed("wait")
    /\ UNCHANGED <<catalogue, automation, leases, files, faults>>

\* Generations only grow; only their equality is ever tested, so one that no
\* ticket and no call carries stands for a new one.
FreshGens ==
    Gens \ ({lease} \cup {ops[o].ticket : o \in OpIds} \cup {c.gen : c \in calls})

\* The execution lock, a new lease and a new monitoring check.
Begin ==
    /\ pc = "idle" /\ ~held /\ FreshGens # {}
    /\ gen' = Min(FreshGens) /\ lease' = gen' /\ held' = TRUE
    /\ checking' = TRUE
    /\ pc' = "snapshot" /\ phase' = "reconcile"
    /\ UNCHANGED <<catalogue, learned, regular, hold, barred, holds, pending,
                   alarms, owed, files, todo, due, calls, faults>>

TakeSnapshot ==
    /\ pc = "snapshot"
    /\ todo' = IF phase = "reconcile" THEN InState("authorized")
               ELSE IF phase = "first" THEN Committed
               ELSE InState("requested") \cup Committed
    /\ pc' = "op"
    /\ UNCHANGED <<catalogue, automation, leases, files, phase, gen, due, calls,
                   faults>>

PhaseDone ==
    /\ pc = "op" /\ todo = {}
    /\ \/ phase = "reconcile" /\ phase' = "first" /\ pc' = "snapshot"
       \/ phase = "first" /\ phase' = phase /\ pc' = "check"
       \/ phase = "second" /\ phase' = phase /\ pc' = "end"
    /\ UNCHANGED <<catalogue, automation, leases, files, gen, todo, due, calls,
                   faults>>

CallReconcile == pc = "op" /\ phase = "reconcile" /\ todo # {} /\ Send("reconcile")

\* guard.renew, then /v1/authorize.
CallAuthorize ==
    /\ pc = "op" /\ phase # "reconcile" /\ todo # {} /\ Leased(gen)
    /\ Send("authorize")

LeaseLost ==
    /\ \/ pc = "op" /\ phase # "reconcile" /\ todo # {}
       \/ pc = "verify"
    /\ ~Leased(gen)
    /\ Abort
    /\ UNCHANGED <<catalogue, automation, leases, files, calls, faults>>

\* verifyExclusiveSource, then the checkpoint: an operation that is not yet
\* committed needs the writer's final permission.
Verify ==
    /\ pc = "verify"
    /\ where[file] = {Source(cur)} /\ ops[cur].committed
    /\ Proceed("move")
    /\ UNCHANGED <<catalogue, automation, leases, files, calls, faults>>
CallValidateSkipped ==
    /\ pc = "verify" /\ Leased(gen)
    /\ where[file] = {Source(cur)} /\ ~ops[cur].committed
    /\ Proceed("move")
    /\ UNCHANGED <<catalogue, automation, leases, files, calls, faults>>
CallValidate ==
    /\ pc = "verify" /\ Leased(gen)
    /\ where[file] = {Source(cur)} /\ ~ops[cur].committed
    /\ Send("validate")

\* The source or the destination is not as it must be; checked before and
\* again after the permission.
SourceRejected ==
    /\ pc \in {"verify", "move"} /\ where[file] # {Source(cur)}
    /\ Proceed("report")
    /\ UNCHANGED <<catalogue, automation, leases, files, calls, faults>>

\* renameat2 without replacement, or unlink for a purge.
Move ==
    /\ pc = "move" /\ where[file] = {Source(cur)}
    /\ "atomic" \in Renames \/ ops[cur].kind = "purge"
    /\ where' = [where EXCEPT ![file] = Destination(cur)]
    /\ Proceed("sync")
    /\ UNCHANGED <<catalogue, automation, leases, disk, calls, faults>>

\* The fallback of renameNoReplace: link, sync the destination, remove.
RemoveFirst ==
    /\ pc = "move" /\ where[file] = {Source(cur)}
    /\ "link" \in Renames /\ ops[cur].kind # "purge"
    /\ where' = [where EXCEPT ![file] = {}]
    /\ Proceed("linked")
    /\ UNCHANGED <<catalogue, automation, leases, disk, calls, faults>>
MoveLink ==
    /\ pc = "move" /\ where[file] = {Source(cur)}
    /\ "link" \in Renames /\ ops[cur].kind # "purge"
    /\ where' = [where EXCEPT ![file] = @ \cup Destination(cur)]
    /\ Proceed("linked")
    /\ UNCHANGED <<catalogue, automation, leases, disk, calls, faults>>
MoveRemove ==
    /\ pc = "linked"
    /\ disk' = [disk EXCEPT ![file] = @ \cup (where[file] \cap Destination(cur))]
    /\ where' = [where EXCEPT ![file] = @ \ {Source(cur)}]
    /\ Proceed("sync")
    /\ UNCHANGED <<catalogue, automation, leases, calls, faults>>

\* syncDirectories.  A synchronised directory carries every earlier entry.
SyncMove ==
    /\ pc = "sync"
    /\ disk' = where
    /\ Proceed("confirm")
    /\ UNCHANGED <<catalogue, automation, leases, where, calls, faults>>

CallConfirm == pc = "confirm" /\ Send("confirm")
CallReport  == pc = "report" /\ Send("report")

\* fileFindings and CompleteMonitoringCheck.  A check invalidated by the
\* administrator is refused.
ActivatingOverPause ==
    /\ {"mail", "disabled"} \cap holds = {} /\ pending # {}
    /\ Keys \ revoked # {} /\ InState("authorized") = {}
Activating ==
    /\ {"mail", "disabled"} \cap holds = {}
    /\ "resume" \in pending \/ ("activate" \in pending /\ "manual" \notin holds)
    /\ Keys \ revoked # {} /\ InState("authorized") = {}
Misplaced == {b \in Backups : ~(where[b] \subseteq PlaceOf(status[b]))}
Absent ==
    {b \in Backups \ missing : ~(PlaceOf(status[b]) \subseteq where[b])}
Check ==
    LET found == Absent \cup (IF Misplaced = {} THEN {} ELSE {"catalog"})
        new   == found \ alarms
        open  == Incidents # {} \/ Doubts # {} \/ alarms' # {}
        ready == {b \in ripe \ missing : /\ status[b] = "quarantined"
                                         /\ KeyOf[b] \notin revoked}
    IN
    /\ pc = "check" /\ checking
    /\ alarms' = alarms \cup found
    /\ learned' = TRUE /\ checking' = FALSE
    /\ ops' = [o \in OpIds |-> [ops[o] EXCEPT !.checked = TRUE]]
    /\ \E reliable \in {TRUE, {"setup", "relearn"} \cap Events = {}} :
         /\ regular' = (reliable /\ ~open)
         /\ IF regular' /\ Activating THEN Release
            ELSE /\ IF new = {} /\ (reliable \/ open) THEN UNCHANGED <<hold, barred>>
                    ELSE /\ hold' = IF new # {} THEN Incident ELSE Elsewhere
                         /\ barred' = FALSE
                 /\ pending' = IF new = {} THEN pending ELSE {}
                 /\ owed' = (owed \/ (~reliable /\ ~open))
                 /\ UNCHANGED holds
    /\ pc' = "clear"
    /\ \E protected \in SUBSET ready : due' = ready \ protected
    /\ UNCHANGED <<status, ripe, missing, revoked, leases, files, phase, gen,
                   todo, calls, faults>>
CheckRefused ==
    /\ pc = "check" /\ ~checking
    /\ Abort
    /\ UNCHANGED <<catalogue, automation, leases, files, calls, faults>>

\* TryClearResolvedMaintenanceBlock for the operations of the snapshot: the
\* block of an operation whose incidents are all closed is lifted.
Clearable ==
    /\ hold \in OpIds /\ ~barred
    /\ "manual" \notin holds /\ "resume" \notin pending
    /\ regular /\ learned /\ Blocking = 0 /\ InState("authorized") = {}

\* The calls between the check and the scheduling of purges: the block is
\* cleared, catalogue findings that are gone are resolved (recordFindings), and
\* purges are scheduled only when nothing blocks.
ClearBlockAnyIncident ==
    /\ pc = "clear"
    /\ hold' = IF hold \in OpIds /\ holds = {} THEN Free ELSE hold
    /\ pc' = "purge"
    /\ UNCHANGED <<catalogue, learned, regular, barred, holds, pending, alarms,
                   checking, owed, leases, files, phase, gen, todo, calls, faults>>
    /\ due' = IF Blocked' \/ ~regular THEN {} ELSE due
ClearBlock ==
    /\ pc = "clear" /\ ~("catalog" \in alarms /\ Misplaced = {})
    /\ hold' = IF Clearable THEN Free ELSE hold
    /\ pc' = "purge"
    /\ UNCHANGED <<catalogue, learned, regular, barred, holds, pending, alarms,
                   checking, owed, leases, files, phase, gen, todo, calls, faults>>
    /\ due' = IF Blocked' \/ ~regular THEN {} ELSE due
ResolveCatalog ==
    /\ pc = "clear" /\ "catalog" \in alarms /\ Misplaced = {}
    /\ alarms' = alarms \ {"catalog"}
    /\ HoldElsewhere
    /\ due' = {} /\ pc' = "purge"
    /\ UNCHANGED <<catalogue, learned, holds, pending, checking, leases, files, phase,
                   gen, todo, calls, faults>>

\* schedulePurges: Store.RequestPurge for each backup that is due.
PurgeAllowedLastCopy(b) ==
    /\ ~Blocked /\ KeyOf[b] \notin revoked
    /\ status[b] = "quarantined" /\ b \in ripe \ missing
    /\ Cardinality(Copies(KeyOf[b], Stable)) >= 1
PurgeAllowed(b) ==
    /\ ~Blocked /\ KeyOf[b] \notin revoked
    /\ status[b] = "quarantined" /\ b \in ripe \ missing
    /\ Cardinality(Copies(KeyOf[b], Stable)) > 1
RequestPurge(b) ==
    /\ pc = "purge" /\ b \in due /\ PurgeAllowed(b) /\ ActiveOps(b) = {}
    /\ status' = [status EXCEPT ![b] = "purging"]
    /\ Insert(b, "purge")
    /\ due' = due \ {b}
    /\ UNCHANGED <<ripe, missing, revoked, automation, leases, files, pc, phase,
                   gen, todo, calls, faults>>
\* A UNIQUE violation (an operation is active) is skipped; so is a request
\* beyond the bound MaxOps.  Any other refusal ends the cycle.
PurgeSkipped(b) ==
    /\ pc = "purge" /\ b \in due /\ PurgeAllowed(b)
    /\ ActiveOps(b) # {} \/ InState("none") = {}
    /\ due' = due \ {b}
    /\ UNCHANGED <<catalogue, automation, leases, files, pc, phase, gen, todo,
                   calls, faults>>
PurgeRefused(b) ==
    /\ pc = "purge" /\ b \in due /\ ~PurgeAllowed(b)
    /\ Abort
    /\ UNCHANGED <<catalogue, automation, leases, files, calls, faults>>
PurgesScheduled ==
    /\ pc = "purge" /\ due = {}
    /\ phase' = "second" /\ pc' = "snapshot"
    /\ UNCHANGED <<catalogue, automation, leases, files, gen, todo, due, calls,
                   faults>>

\* The deferred calls: an unfinished check fails and the lease is released.
End ==
    /\ pc = "end"
    /\ held' = (held /\ lease # gen)
    /\ checking' = FALSE
    /\ pc' = "idle" /\ phase' = "reconcile" /\ gen' = NoGen
    /\ UNCHANGED <<catalogue, learned, regular, hold, barred, holds, pending,
                   alarms, owed, lease, files, todo, due, calls, faults>>

Maintenance ==
    \/ Begin \/ TakeSnapshot \/ PhaseDone
    \/ CallReconcile \/ CallAuthorize \/ LeaseLost
    \/ Verify \/ CallValidate \/ SourceRejected
    \/ Move \/ MoveLink \/ MoveRemove \/ SyncMove
    \/ CallConfirm \/ CallReport
    \/ Check \/ CheckRefused \/ ClearBlock \/ ResolveCatalog
    \/ \E b \in Backups : RequestPurge(b) \/ PurgeSkipped(b) \/ PurgeRefused(b)
    \/ PurgesScheduled \/ End

-----------------------------------------------------------------------------
(* The writer's endpoints.  A call whose client has given up is still      *)
(* served: its effect may happen at any later time.                        *)

\* c is answered; the continuation applies when the client still waits.
Answer(c, continue) ==
    /\ calls' = calls \ {c}
    /\ IF c.live THEN continue ELSE UNCHANGED cycle
Note(c, d) == calls' = (calls \ {c}) \cup {d} /\ UNCHANGED cycle

Refused(c) ==
    /\ Answer(c, IF c.type = "authorize" /\ ~ops[c.op].committed
                   THEN NextOp ELSE Abort)
    /\ UNCHANGED <<catalogue, automation, leases, files, faults>>

\* The status of a backup while an operation of a kind is active, and after it.
During(kind) == IF kind = "quarantine" THEN "deleting"
                ELSE IF kind = "purge" THEN "purging" ELSE "quarantined"
After(kind)  == IF kind = "quarantine" THEN "quarantined"
                ELSE IF kind = "purge" THEN "deleted" ELSE "complete"

\* The transition both confirmations make: the backup follows the file and the
\* incidents of the operation are closed.  The ticket of a settled operation is
\* never presented again, so it is dropped.
ConfirmRow(o) ==
    /\ status' = [status EXCEPT ![ops[o].backup] = After(ops[o].kind)]
    /\ ripe' = ripe \ {ops[o].backup}
    /\ ops' = [ops EXCEPT ![o].state = "confirmed", ![o].ticket = NoGen,
                          ![o].note = "", ![o].err = FALSE, ![o].unc = FALSE]
    /\ UNCHANGED <<missing, revoked>>
Coherent(o) == status[ops[o].backup] = During(ops[o].kind)

\* /v1/reconcile: the lease is checked, the files are read and hashed, the
\* lease is checked again, and then a transaction applies what was read.
ReconcileRead(c) ==
    /\ c.type = "reconcile" /\ c.seen = "unread"
    /\ Leased(c.gen) /\ ops[c.op].state = "authorized"
    /\ Note(c, [c EXCEPT !.seen = Outcome(c.op)])
    /\ UNCHANGED <<catalogue, automation, leases, files, faults>>
ReconcileCleared(c) ==
    /\ c.type = "reconcile" /\ c.seen # "unread" /\ ~c.cleared /\ Leased(c.gen)
    /\ Note(c, [c EXCEPT !.cleared = TRUE])
    /\ UNCHANGED <<catalogue, automation, leases, files, faults>>
ReconcileRefused(c) ==
    /\ c.type = "reconcile"
    /\ \/ ~c.cleared /\ ~Leased(c.gen)
       \/ (c.seen = "unread" \/ (c.cleared /\ c.seen # "unclear"))
            /\ ops[c.op].state # "authorized"
    /\ Refused(c)

\* Store.ReconcileAuthorized.
ReconcileAuthorized(c) ==
    /\ c.type = "reconcile" /\ c.cleared /\ c.seen = "done"
    /\ ops[c.op].state = "authorized" /\ Coherent(c.op)
    /\ ConfirmRow(c.op)
    /\ Answer(c, NextOp)
    /\ UNCHANGED <<automation, leases, files, faults>>

\* Store.ResetAuthorized: a final permission survives and only loses its
\* ticket; provisional work of a revoked key is cancelled, other provisional
\* work is requested again.
ResetDroppingPermission(c) ==
    LET o == c.op IN
    /\ c.type = "reconcile" /\ c.cleared /\ c.seen = "intact"
    /\ ops[o].state = "authorized"
    /\ ops' = [ops EXCEPT ![o].state = "requested", ![o].ticket = NoGen,
                          ![o].committed = FALSE, ![o].note = "intact",
                          ![o].unc = FALSE]
    /\ Answer(c, NextOp)
    /\ UNCHANGED <<status, ripe, missing, revoked, automation, leases, files,
                   faults>>
ResetForgettingRevocation(c) ==
    LET o == c.op IN
    /\ c.type = "reconcile" /\ c.cleared /\ c.seen = "intact"
    /\ ops[o].state = "authorized"
    /\ ops' = [ops EXCEPT ![o] = IF @.committed
            THEN [@ EXCEPT !.ticket = NoGen, !.unc = FALSE]
            ELSE [@ EXCEPT !.state = "requested", !.ticket = NoGen,
                           !.note = "intact", !.unc = FALSE]]
    /\ Answer(c, NextOp)
    /\ UNCHANGED <<status, ripe, missing, revoked, automation, leases, files,
                   faults>>
ResetAuthorized(c) ==
    LET o == c.op
        cancel == ~ops[o].committed /\ Destructive(o) /\ KeyFor(o) \in revoked
    IN
    /\ c.type = "reconcile" /\ c.cleared /\ c.seen = "intact"
    /\ ops[o].state = "authorized"
    /\ ops' = [ops EXCEPT ![o] =
          IF @.committed THEN [@ EXCEPT !.ticket = NoGen, !.unc = FALSE]
          ELSE IF cancel THEN Cancelled(o)
          ELSE [@ EXCEPT !.state = "requested", !.ticket = NoGen,
                         !.note = "intact", !.unc = FALSE]]
    /\ status' = IF cancel THEN [status EXCEPT ![ops[o].backup] = Restored(o)]
                           ELSE status
    /\ barred' = (barred \/ (cancel /\ hold \in OpIds))
    /\ Answer(c, NextOp)
    /\ UNCHANGED <<ripe, missing, revoked, learned, regular, hold, holds,
                   pending, alarms, checking, owed, leases, files, faults>>

\* Neither done nor intact: an incident blocks retention until repair.
ReconcileUncertain(c) ==
    LET o == c.op IN
    /\ c.type = "reconcile" /\ c.cleared /\ c.seen = "unclear"
    /\ ops' = [ops EXCEPT ![o].unc = TRUE]
    /\ IF ops[o].unc THEN UNCHANGED <<hold, barred, regular, pending>>
                     ELSE BlockFor(o)
    /\ Answer(c, Abort)
    /\ UNCHANGED <<status, ripe, missing, revoked, learned, holds, alarms,
                   checking, owed, leases, files, faults>>

\* Store.AuthorizeOperation.  An upload in progress or the key's minimum, which
\* are outside this module, may refuse any new destructive permission.
MayDestroy(o) ==
    /\ ~Blocked \/ CanRetry(o)
    /\ KeyFor(o) \notin revoked
AuthorizableAsDestructive(o) ==
    /\ ops[o].state = "requested" /\ ops[o].rev = learned
    /\ MayDestroy(o)
    /\ ops[o].kind = "purge" => Copies(KeyFor(o), Stable) # {}
Authorizable(o) ==
    /\ ops[o].state = "requested" /\ ops[o].rev = learned
    /\ Destructive(o) => MayDestroy(o)
    /\ ops[o].kind = "purge" => Copies(KeyFor(o), Stable) # {}
ReissuableUnrevoked(o) ==
    /\ ops[o].state = "authorized" /\ ops[o].committed
    /\ ops[o].ticket = NoGen /\ KeyFor(o) \notin revoked
Reissuable(o) ==
    ops[o].state = "authorized" /\ ops[o].committed /\ ops[o].ticket = NoGen
Authorize(c) ==
    /\ c.type = "authorize" /\ Leased(c.gen)
    /\ Authorizable(c.op) \/ Reissuable(c.op)
    /\ ops' = [ops EXCEPT ![c.op].state = "authorized", ![c.op].ticket = c.gen]
    /\ Answer(c, Proceed("verify"))
    /\ UNCHANGED <<status, ripe, missing, revoked, automation, leases, files,
                   faults>>
AuthorizeRefused(c) ==
    /\ c.type = "authorize"
    /\ \/ ~Leased(c.gen)
       \/ ~Authorizable(c.op) /\ ~Reissuable(c.op)
       \/ ops[c.op].state = "requested" /\ Destructive(c.op)
    /\ Refused(c)

\* Store.ValidateOperation: the final, durable permission.
Holds(c) == /\ Leased(c.gen)
            /\ ops[c.op].state = "authorized" /\ ops[c.op].ticket = c.gen
Validate(c) ==
    /\ c.type = "validate" /\ Holds(c)
    /\ ~ops[c.op].committed =>
          /\ ops[c.op].rev = learned
          /\ Destructive(c.op) => MayDestroy(c.op)
    /\ ops' = [ops EXCEPT ![c.op].committed = TRUE]
    /\ Answer(c, Proceed("move"))
    /\ UNCHANGED <<status, ripe, missing, revoked, automation, leases, files,
                   faults>>
ValidateRefused(c) ==
    /\ c.type = "validate"
    /\ \/ ~Holds(c)
       \/ /\ ~ops[c.op].committed
          /\ \/ ops[c.op].rev # learned
             \/ Destructive(c.op)
    /\ Refused(c)

\* /v1/confirm with done: the writer reads the files itself, then
\* Store.ConfirmOperation.
ConfirmRead(c) ==
    /\ c.type = "confirm" /\ c.seen = "unread" /\ Outcome(c.op) = "done"
    /\ Note(c, [c EXCEPT !.seen = "done"])
    /\ UNCHANGED <<catalogue, automation, leases, files, faults>>
Confirm(c) ==
    /\ c.type = "confirm" /\ c.seen = "done" /\ Holds(c) /\ Coherent(c.op)
    /\ ConfirmRow(c.op)
    /\ Answer(c, NextOp)
    /\ UNCHANGED <<automation, leases, files, faults>>
ConfirmRefused(c) ==
    /\ c.type = "confirm"
    /\ \/ c.seen = "unread" /\ Outcome(c.op) # "done"
       \/ c.seen = "done" /\ ~(Holds(c) /\ Coherent(c.op))
    /\ Refused(c)

\* /v1/confirm without done: the error is recorded and its incident blocks new
\* destructive work; an incident that is already open writes no new block.
ReportError(c) ==
    LET o == c.op IN
    /\ c.type = "report" /\ Holds(c)
    /\ ops' = [ops EXCEPT ![o].note = "error", ![o].err = TRUE,
                          ![o].checked = FALSE]
    /\ IF ops[o].err THEN UNCHANGED <<hold, barred, regular, pending>>
                     ELSE BlockFor(o)
    /\ Answer(c, Abort)
    /\ UNCHANGED <<status, ripe, missing, revoked, learned, holds, alarms,
                   checking, owed, leases, files, faults>>
ReportRefused(c) == c.type = "report" /\ ~Holds(c) /\ Refused(c)

Serve(c) ==
    \/ ReconcileRead(c) \/ ReconcileCleared(c) \/ ReconcileRefused(c)
    \/ ReconcileAuthorized(c) \/ ResetAuthorized(c) \/ ReconcileUncertain(c)
    \/ Authorize(c) \/ AuthorizeRefused(c)
    \/ Validate(c) \/ ValidateRefused(c)
    \/ ConfirmRead(c) \/ Confirm(c) \/ ConfirmRefused(c)
    \/ ReportError(c) \/ ReportRefused(c)

-----------------------------------------------------------------------------
(* Failures.                                                               *)

Fault == faults < MaxFaults /\ faults' = faults + 1

\* The client gives up on a call (deadline, STOP, writer restart); the writer
\* may have served it, may still serve it, or may never do so.
Timeout(c) ==
    /\ Fault /\ c.live
    /\ calls' = (calls \ {c}) \cup {[c EXCEPT !.live = FALSE]}
    /\ IF c.type = "authorize" /\ ~ops[c.op].committed THEN NextOp ELSE Abort
    /\ UNCHANGED <<catalogue, automation, leases, files>>
Drop(c) ==
    /\ ~c.live
    /\ calls' = calls \ {c}
    /\ UNCHANGED <<catalogue, automation, leases, files, cycle, faults>>

\* rename, link, remove, unlink or a directory sync returns an error.
MoveFails ==
    /\ Fault /\ pc \in {"move", "linked"} /\ Proceed("report")
    /\ UNCHANGED <<catalogue, automation, leases, files, calls>>
SyncFails ==
    /\ Fault /\ pc = "sync" /\ Proceed("report")
    /\ UNCHANGED <<catalogue, automation, leases, files, calls>>

\* A lease ends when it is not renewed in time: at any moment once its holder
\* is gone, by a fault while the holder is alive.
Expire ==
    /\ held /\ (gen = lease => Fault) /\ (gen # lease => UNCHANGED faults)
    /\ held' = FALSE
    /\ UNCHANGED <<catalogue, automation, lease, files, cycle, calls>>

Dead == pc' = "idle" /\ phase' = "reconcile" /\ gen' = NoGen
          /\ todo' = {} /\ due' = {}

\* The maintenance process is killed; its lease stays until it expires.
Kill ==
    /\ Fault /\ pc # "idle" /\ Dead
    /\ calls' = {[c EXCEPT !.live = FALSE] : c \in calls}
    /\ UNCHANGED <<catalogue, automation, leases, files>>

\* Both processes stop; an entry that was not synchronised may revert (a
\* rename is one journal transaction: it reverts whole).
PowerLoss ==
    /\ "power" \in Events /\ Fault /\ Dead /\ calls' = {}
    /\ \E back \in SUBSET {b \in Backups : where[b] # disk[b]} :
         where' = [b \in Backups |-> IF b \in back THEN disk[b] ELSE where[b]]
    /\ disk' = where'
    /\ UNCHANGED <<catalogue, automation, leases>>

\* A stored file disappears behind the program's back.
Lose(b) ==
    /\ "loss" \in Events /\ Fault /\ where[b] # {}
    /\ where' = [where EXCEPT ![b] = {}] /\ disk' = [disk EXCEPT ![b] = {}]
    /\ UNCHANGED <<catalogue, automation, leases, cycle, calls>>

Failure ==
    \/ \E c \in calls : Timeout(c) \/ Drop(c)
    \/ MoveFails \/ SyncFails \/ Expire \/ Kill \/ PowerLoss
    \/ \E b \in Backups : Lose(b)

Next ==
    \/ Administration
    \/ Maintenance
    \/ \E c \in calls : Serve(c)
    \/ Failure

\* The maintenance service runs a cycle every five minutes, the writer answers
\* calls that are waiting, and an unrenewed lease expires.  Administrators and
\* failures are not fair.
Fairness ==
    /\ WF_vars(Maintenance)
    /\ WF_vars(\E c \in calls : c.live /\ Serve(c))
    /\ WF_vars(pc = "idle" /\ Expire)

Spec     == Init /\ [][Next]_vars
FairSpec == Spec /\ Fairness

-----------------------------------------------------------------------------
(* Properties.                                                             *)

\* The status of a backup and its active operation never contradict each other,
\* through requests, cancellations, revocations, resets and late answers: at
\* most one operation is active, and only a granted one carries a permission.
StatusMatchesOperation ==
    /\ \A b \in Backups :
         /\ Cardinality(ActiveOps(b)) <= 1
         /\ status[b] = "deleting" <=> \E o \in ActiveOps(b) : ops[o].kind = "quarantine"
         /\ status[b] = "purging"  <=> \E o \in ActiveOps(b) : ops[o].kind = "purge"
         /\ (\E o \in ActiveOps(b) : ops[o].kind = "recover") => status[b] = "quarantined"
    /\ \A o \in OpIds : ops[o].committed => ops[o].state \in {"authorized", "confirmed"}

\* No file is moved or removed without the writer's durable permission for
\* exactly that move, however stale the lease, the ticket or the snapshot of
\* the maintenance process is.
MovesPermitted ==
    [][\A b \in Backups : where'[b] # where[b] /\ faults' = faults =>
         \E o \in Committed :
            /\ ops[o].backup = b
            /\ where'[b] \in {Destination(o), {Source(o)} \cup Destination(o)}]_vars

\* Without power loss the catalogue tells where each file is that nobody has
\* removed from outside, except while an authorised operation is moving it.
CatalogueMatchesFiles ==
    \A b \in Backups :
        (\A o \in ActiveOps(b) : ops[o].state # "authorized")
            => \/ where[b] = PlaceOf(status[b])
               \/ "loss" \in Events /\ where[b] = {}

\* A file exists somewhere until its purge is definitively permitted, through
\* every crash, power loss and repeated attempt.
FileNeverLost ==
    \A b \in Backups :
        \/ where[b] # {} /\ disk[b] # {}
        \/ status[b] = "deleted"
        \/ \E o \in Committed : ops[o].backup = b /\ ops[o].kind = "purge"

\* A final permission is never withdrawn: it ends only in confirmation.
PermissionIrrevocable ==
    [][\A o \in OpIds : o \in Committed =>
         ops'[o].committed /\ ops'[o].state \in {"authorized", "confirmed"}]_vars

\* Purging never takes the last copy of a key, whatever was lost, resumed,
\* recovered or purged before: only acknowledging a loss leaves a key without one.
LastCopyKept ==
    [][\A k \in Keys :
         Copies(k, Stable) # {} /\ Copies(k, Stable)' = {} => missing' # missing]_vars

\* An open blocking incident always holds retention: no resume, check or
\* clearing of another operation's block leaves one open unheld.
IncidentsHold == Blocking # 0 => hold # Free

\* Destructive work is released only by a state that is regular, has no open
\* incident and no authorised operation, whatever resume, check, setup or
\* clearing released it and whatever had been requested before.
UnblockedSafely ==
    [][Blocked /\ ~Blocked' =>
         regular' /\ learned' /\ Blocking' = 0 /\ InState("authorized") = {}]_vars

\* A manual pause is lifted by an administrative resume, immediate or requested
\* after it, and by nothing else: no activation that a setup has left pending, no
\* exclusion, resolution, regular check or relearning (PauseRetention,
\* activateRetentionAfterCheckTx).
PauseKept ==
    []["manual" \in holds /\ "manual" \notin holds' =>
         Resume \/ "resume" \in pending]_vars

\* What keeps operations waiting for ever.  A file that is under both names (a
\* death between link and remove) or gone makes reconciliation of its operation
\* uncertain, and every cycle ends there, before any other operation, until
\* someone repairs it (reconcileContext; docs/RETENTION.md:289).
AwaitsRepair == Doubts # {}

\* When the other copies of a key are missing, the purge of its last one is
\* requested and refused in every cycle, which ends there (schedulePurges).
PurgeStuck ==
    /\ ~Blocked
    /\ \E b \in ripe \ missing :
         /\ status[b] = "quarantined" /\ KeyOf[b] \notin revoked
         /\ Copies(KeyOf[b], Stable) = {b}

\* Every final permission ends in a confirmed operation, whichever way files are
\* renamed and whatever dies or times out, or an uncertain outcome, of this
\* operation or of another, is waiting for repair.
CommittedCompletes ==
    \A o \in OpIds :
        o \in Committed ~> (ops[o].state = "confirmed" \/ []AwaitsRepair)

\* Work of a revoked key does not stay pending: without a final permission it
\* is cancelled, with one it is completed, unless a repair is awaited.
RevokedSettles ==
    \A o \in OpIds :
        (ops[o].state \in {"requested", "authorized"} /\ Destructive(o)
            /\ KeyFor(o) \in revoked)
        ~> (ops[o].state \in {"cancelled", "confirmed"} \/ []AwaitsRepair)

\* A requested recovery is performed, blocked or not, once administrators have
\* stopped giving orders.  Three cases are excepted, in which the code never
\* serves it: a repair is awaited; the refused purge of a last copy ends every
\* cycle before it; or it was requested before the first check, under a model
\* revision that AuthorizeOperation no longer accepts.
RecoveryServed ==
    <>[][~Administration]_vars =>
        \A o \in OpIds :
            (ops[o].state = "requested" /\ ops[o].kind = "recover")
            ~> \/ ops[o].state = "confirmed"
               \/ [](AwaitsRepair \/ PurgeStuck \/ ops[o].rev # learned)

\* A hold that only a resume may lift is not lifted otherwise.
IndependentHoldKept == owed => Blocked
=============================================================================
