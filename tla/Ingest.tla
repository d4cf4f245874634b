-------------------------------- MODULE Ingest --------------------------------
(***************************************************************************)
(* The deposit path of the writer process (internal/ingest/writer.go with  *)
(* the catalogue operations it calls in internal/store/store.go).          *)
(*                                                                         *)
(* Concurrent HTTP handlers take a process-wide slot, reserve a catalogue  *)
(* row, write incoming/<ID>.part, publish it with a hard link as           *)
(* archives/backups/<ID>.backup and complete the row.  SQLite commits are  *)
(* durable (WAL, synchronous=FULL); directory entries and file contents    *)
(* are durable only once synchronised.  The process may be killed and the  *)
(* machine may lose power between any two steps; Reconcile runs before the *)
(* writer listens again.                                                   *)
(***************************************************************************)
EXTENDS Integers, FiniteSets, FiniteSetsExt

CONSTANTS
    Ids,            \* backup identifiers model.NewID can draw
    Handlers,       \* concurrent HTTP handler goroutines
    Keys,           \* client credentials
    Idems,          \* idempotency keys a client may send, NoIdem among them
    NoIdem,         \* the absent idempotency key of a v1 request
    None,           \* no request, no identifier
    Contents,       \* declared (size, SHA-256, metadata) triples
    Size,           \* Size[c]: declared length of content c
    Slots,          \* capacity of Writer.slots (32 in the code)
    Profiles,       \* profile names
    Limits,         \* Limits[p]: the limits an administrator may give p
    Offered,        \* bound: the requests clients make
    Revocable,      \* bound: the keys an administrator may revoke
    MaxCrashes,     \* bound: process or power failures in one behaviour
    MaxManaged      \* bound: backups retention ever touches in one behaviour

Request == [key : Keys, idem : Idems, content : Contents]
Limited == [total : Nat \ {0}, maxBackup : Nat \ {0},
            perDay : Nat \ {0}, concurrent : Nat \ {0}]      \* model.Profile

ASSUME IngestAssumption ==
    /\ Size \in [Contents -> Nat \ {0}]
    /\ Slots \in Nat \ {0} /\ MaxCrashes \in Nat /\ MaxManaged \in Nat
    \* Profile.Validate.
    /\ Limits \in [Profiles -> SUBSET Limited]
    /\ \A p \in Profiles : \A l \in Limits[p] : l.maxBackup <= l.total
    /\ None \notin Ids /\ None \notin Request /\ Offered \subseteq Request

VARIABLES
    \* The SQLite catalogue.
    status,     \* status[id]: backups.status, "none" when there is no row
    bound,      \* bound[id]: the key, idempotency key and content of the row
    attempts,   \* attempts[k]: upload_attempts of k in the last 24 hours
    revoked,    \* the keys with revoked=1
    profiles,   \* profiles[p]: the limits of a profile
    assigned,   \* assigned[k]: keys.profile
    managed,    \* the backups with a row in retention_operations
    \* The filesystem: what a process sees, and what a power loss leaves.
    part, partDisk,     \* entries of incoming/
    final, finalDisk,   \* entries of archives/backups/
    data,       \* data[id]: contents of the file behind id's names
    synced,     \* synced[id]: those contents are on the disk
    \* The writer process.
    mode,       \* "down", a step of Reconcile, or "up" (listening)
    cur,        \* the pending row Reconcile is at
    pc, req, job,   \* per handler: next step, its request, its backup id
    slots,      \* len(Writer.slots)
    \* History.
    receipts,   \* the (request, id) pairs answered with 201
    crashes

catalogue == <<status, bound, attempts, revoked, profiles, assigned, managed>>
files     == <<part, partDisk, final, finalDisk, data, synced>>
process   == <<mode, cur>>
handlers  == <<pc, req, job, slots>>
vars == <<catalogue, files, process, handlers, receipts, crashes>>

-----------------------------------------------------------------------------
Retired  == {"deleting", "quarantined", "purging", "deleted"}
Statuses == {"none", "receiving", "complete", "failed"} \cup Retired
Reserved == {"create", "copy", "save", "link"}          \* before publication
Publishing == {"syncFinal", "unlink", "syncIncoming", "complete"}
Steps    == {"idle", "reserve", "answer", "cleanup", "fail", "release"}
              \cup Reserved \cup Publishing
Startup  == {"scan", "sync", "settle", "rmtemp", "sweep"}
Modes    == {"down", "up"} \cup Startup
Contained == {"none", "partial", "full"}

TypeOK ==
    /\ status \in [Ids -> Statuses]
    /\ bound \in [Ids -> Request \cup {None}]
    /\ attempts \in [Keys -> Nat]
    /\ revoked \subseteq Keys
    /\ profiles \in [Profiles -> Limited]
    /\ assigned \in [Keys -> Profiles]
    /\ managed \subseteq Ids
    /\ part \subseteq Ids /\ partDisk \subseteq Ids
    /\ final \subseteq Ids /\ finalDisk \subseteq Ids
    /\ data \in [Ids -> Contained]
    /\ synced \in [Ids -> BOOLEAN]
    /\ mode \in Modes
    /\ cur \in Ids \cup {None}
    /\ pc \in [Handlers -> Steps]
    /\ req \in [Handlers -> Request \cup {None}]
    /\ job \in [Handlers -> Ids \cup {None}]
    /\ slots \in Int
    /\ receipts \subseteq (Request \X Ids)
    /\ crashes \in Nat

Init ==
    /\ status = [i \in Ids |-> "none"]
    /\ bound = [i \in Ids |-> None]
    /\ attempts = [k \in Keys |-> 0]
    /\ revoked = {} /\ managed = {}
    /\ profiles \in [Profiles -> UNION {Limits[p] : p \in Profiles}]
    /\ \A p \in Profiles : profiles[p] \in Limits[p]
    /\ assigned \in [Keys -> Profiles]
    /\ part = {} /\ partDisk = {} /\ final = {} /\ finalDisk = {}
    /\ data = [i \in Ids |-> "none"]
    /\ synced = [i \in Ids |-> FALSE]
    /\ mode = "down"
    /\ cur = None
    /\ pc = [h \in Handlers |-> "idle"]
    /\ req = [h \in Handlers |-> None]
    /\ job = [h \in Handlers |-> None]
    /\ slots = 0
    /\ receipts = {} /\ crashes = 0

-----------------------------------------------------------------------------
(* Admission: Writer.Admit and Store.ReserveIdempotentChecked.             *)

\* The row an idempotency key already names; a v1 request names none.
Existing(r) ==
    {i \in Ids : /\ status[i] # "none" /\ r.idem # NoIdem
                 /\ bound[i].key = r.key /\ bound[i].idem = r.idem}

\* Rows whose bytes count against the total quota of the key.
Charged(k) ==
    {i \in Ids : /\ status[i] \in {"receiving", "complete", "deleting",
                                   "quarantined", "purging"}
                 /\ bound[i].key = k}
Used(k)   == MapThenSumSet(LAMBDA i : Size[bound[i].content], Charged(k))
Active(k) == {i \in Ids : status[i] = "receiving" /\ bound[i].key = k}

\* The limits in force for a key: those of the profile it has now.
Limit(k) == profiles[assigned[k]]

WithinLimitsOffByOne(r) ==
    /\ Size[r.content] <= Limit(r.key).maxBackup
    /\ Used(r.key) + Size[r.content] <= Limit(r.key).total
    /\ Cardinality(Active(r.key)) <= Limit(r.key).concurrent
    /\ attempts[r.key] < Limit(r.key).perDay
WithinLimits(r) ==
    /\ Size[r.content] <= Limit(r.key).maxBackup
    /\ Used(r.key) + Size[r.content] <= Limit(r.key).total
    /\ Cardinality(Active(r.key)) < Limit(r.key).concurrent
    /\ attempts[r.key] < Limit(r.key).perDay

\* The identifier a reservation for r uses: the failed row of its idempotency
\* key when there is one, otherwise a fresh identifier.
ReservableAlwaysFresh(r) == {i \in Ids : status[i] = "none"}
ReservableIds(r) ==
    IF Existing(r) = {}
      THEN {i \in Ids : status[i] = "none"}
      ELSE {i \in Existing(r) : status[i] = "failed" /\ bound[i] = r}

Step(h, to) == pc' = [pc EXCEPT ![h] = to]

\* ServeHTTP returns: the locals of the handler are gone.
Return(h) ==
    /\ Step(h, "idle")
    /\ req' = [req EXCEPT ![h] = None]
    /\ job' = [job EXCEPT ![h] = None]

\* Admit gives the slot back and returns an error, which ServeHTTP only writes.
GiveUp(h) ==
    /\ slots' = slots - 1
    /\ Return(h)

\* Admit: take a slot (with no free slot the request is refused with 503).
TakeSlot(h, r) ==
    /\ mode = "up" /\ pc[h] = "idle" /\ slots < Slots
    /\ slots' = slots + 1
    /\ req' = [req EXCEPT ![h] = r]
    /\ Step(h, "reserve")
    /\ UNCHANGED <<catalogue, files, process, job, receipts, crashes>>

\* The reservation transaction commits.  When the commit is not acknowledged
\* Admit gives the slot back and answers with an error: the row stays.
Reserve(h, i, acked) ==
    LET r == req[h] IN
    /\ pc[h] = "reserve" /\ r.key \notin revoked
    /\ i \in ReservableIds(r) /\ WithinLimits(r)
    /\ status' = [status EXCEPT ![i] = "receiving"]
    /\ bound' = [bound EXCEPT ![i] = r]
    /\ attempts' = [attempts EXCEPT ![r.key] = @ + 1]
    /\ IF acked
         THEN /\ job' = [job EXCEPT ![h] = i]
              /\ Step(h, "create")
              /\ UNCHANGED <<req, slots>>
         ELSE GiveUp(h)
    /\ UNCHANGED <<revoked, profiles, assigned, managed, files, process,
                   receipts, crashes>>

\* Refusal: unknown or revoked key, a conflicting, pending or retired
\* idempotency key, a limit, no disk space, or a database error.  The last two
\* are outside the model, so a refusal is possible in every state.
RefuseKeepingSlot(h) ==
    /\ pc[h] = "reserve"
    /\ Return(h)
    /\ UNCHANGED <<catalogue, files, process, slots, receipts, crashes>>
Refuse(h) ==
    /\ pc[h] = "reserve"
    /\ GiveUp(h)
    /\ UNCHANGED <<catalogue, files, process, receipts, crashes>>

\* A completed deposit is replayed without a transfer: the slot is released
\* before the original receipt is written.
Replay(h, i) ==
    LET r == req[h] IN
    /\ pc[h] = "reserve" /\ r.key \notin revoked
    /\ i \in Existing(r) /\ bound[i] = r /\ status[i] = "complete"
    /\ slots' = slots - 1
    /\ job' = [job EXCEPT ![h] = i]
    /\ Step(h, "answer")
    /\ UNCHANGED <<catalogue, files, process, req, receipts, crashes>>

\* The receipt of a replayed deposit, by a handler that holds no slot any more.
Answer(h) ==
    /\ pc[h] = "answer"
    /\ receipts' = receipts \cup {<<req[h], job[h]>>}
    /\ Return(h)
    /\ UNCHANGED <<catalogue, files, process, slots, crashes>>

-----------------------------------------------------------------------------
(* Transfer: Writer.Receive.                                               *)

\* O_CREATE|O_EXCL: the name must be free.
Create(h) ==
    LET i == job[h] IN
    /\ pc[h] = "create" /\ i \notin part
    /\ part' = part \cup {i}
    /\ data' = [data EXCEPT ![i] = "partial"]
    /\ synced' = [synced EXCEPT ![i] = FALSE]
    /\ Step(h, "copy")
    /\ UNCHANGED <<catalogue, partDisk, final, finalDisk, process, req, job,
                   slots, receipts, crashes>>

\* copyAndHash read exactly the declared bytes with the declared digest.
Copy(h) ==
    /\ pc[h] = "copy"
    /\ data' = [data EXCEPT ![job[h]] = "full"]
    /\ Step(h, "save")
    /\ UNCHANGED <<catalogue, part, partDisk, final, finalDisk, synced,
                   process, req, job, slots, receipts, crashes>>

\* Chmod, fsync and close of the staging file.
SaveWithoutSync(h) ==
    /\ pc[h] = "save"
    /\ Step(h, "link")
    /\ UNCHANGED <<catalogue, files, process, req, job, slots, receipts, crashes>>
Save(h) ==
    /\ pc[h] = "save"
    /\ synced' = [synced EXCEPT ![job[h]] = TRUE]
    /\ Step(h, "link")
    /\ UNCHANGED <<catalogue, part, partDisk, final, finalDisk, data,
                   process, req, job, slots, receipts, crashes>>

\* Publication: a hard link that never replaces an existing name.
Link(h) ==
    LET i == job[h] IN
    /\ pc[h] = "link" /\ i \in part /\ i \notin final
    /\ final' = final \cup {i}
    /\ Step(h, "syncFinal")
    /\ UNCHANGED <<catalogue, part, partDisk, finalDisk, data, synced,
                   process, req, job, slots, receipts, crashes>>

\* Any error before publication (O_EXCL conflict, short or oversized body,
\* digest mismatch, failed write, fsync, close or link) leaves the main path;
\* the deferred function removes the staging file and then fails the row.
InterruptFailsRowFirst(h) ==
    /\ pc[h] \in Reserved
    /\ Step(h, "cleanup")
    /\ status' = [status EXCEPT ![job[h]] = "failed"]
    /\ UNCHANGED <<bound, attempts, revoked, profiles, assigned, managed, files,
                   process, req, job, slots, receipts, crashes>>
Interrupt(h) ==
    /\ pc[h] \in Reserved
    /\ Step(h, "cleanup")
    /\ UNCHANGED <<catalogue, files, process, req, job, slots, receipts, crashes>>

\* Files that keep a name other than their visible staging name.
Named == partDisk \cup final \cup finalDisk

\* The deferred os.Remove(staging); its error is only logged.
Cleanup(h, removed) ==
    /\ pc[h] = "cleanup"
    /\ part' = IF removed THEN part \ {job[h]} ELSE part
    /\ data' = [data EXCEPT ![job[h]] =
                  IF removed /\ job[h] \notin Named THEN "none" ELSE @]
    /\ Step(h, "fail")
    /\ UNCHANGED <<catalogue, partDisk, final, finalDisk, synced,
                   process, req, job, slots, receipts, crashes>>

\* Store.Fail: receiving -> failed.  The incident it opens in the same
\* transaction belongs to the automation state.
FailRow(i) ==
    /\ status' = [status EXCEPT ![i] = "failed"]
    /\ UNCHANGED <<bound, attempts, revoked, profiles, assigned, managed>>

\* The deferred Store.Fail; when the transaction is not committed the error is
\* only logged and the row stays "receiving" until the next start.
Fail(h, committed) ==
    LET i == job[h] IN
    /\ pc[h] = "fail"
    /\ IF committed /\ status[i] = "receiving"
         THEN FailRow(i)
         ELSE UNCHANGED catalogue
    /\ Step(h, "release")
    /\ UNCHANGED <<files, process, req, job, slots, receipts, crashes>>

SyncFinal(h) ==
    /\ pc[h] = "syncFinal"
    /\ finalDisk' = final
    /\ Step(h, "unlink")
    /\ UNCHANGED <<catalogue, part, partDisk, final, data, synced, process,
                   req, job, slots, receipts, crashes>>

Unlink(h) ==
    /\ pc[h] = "unlink" /\ job[h] \in part
    /\ part' = part \ {job[h]}
    /\ Step(h, "syncIncoming")
    /\ UNCHANGED <<catalogue, partDisk, final, finalDisk, data, synced,
                   process, req, job, slots, receipts, crashes>>

SyncIncoming(h) ==
    /\ pc[h] = "syncIncoming"
    /\ partDisk' = part
    /\ Step(h, "complete")
    /\ UNCHANGED <<catalogue, part, final, finalDisk, data, synced, process,
                   req, job, slots, receipts, crashes>>

\* Store.Complete: receiving -> complete.
CompleteRow(i) ==
    /\ status' = [status EXCEPT ![i] = "complete"]
    /\ UNCHANGED <<bound, attempts, revoked, profiles, assigned, managed>>

\* The row is completed; the receipt follows only if the commit is
\* acknowledged.
CompleteAnsweringFirst(h, acked) ==
    LET i == job[h] IN
    /\ pc[h] = "complete" /\ status[i] = "receiving"
    /\ IF acked THEN CompleteRow(i) ELSE UNCHANGED catalogue
    /\ receipts' = receipts \cup {<<req[h], i>>}
    /\ Step(h, "release")
    /\ UNCHANGED <<files, process, req, job, slots, crashes>>
Complete(h, acked) ==
    LET i == job[h] IN
    /\ pc[h] = "complete" /\ status[i] = "receiving"
    /\ CompleteRow(i)
    /\ receipts' = IF acked THEN receipts \cup {<<req[h], i>>} ELSE receipts
    /\ Step(h, "release")
    /\ UNCHANGED <<files, process, req, job, slots, crashes>>

\* An error after publication: the published file is never removed and the row
\* is left "receiving" for Reconcile.
Unconfirmed(h) ==
    /\ pc[h] \in Publishing
    /\ Step(h, "release")
    /\ UNCHANGED <<catalogue, files, process, req, job, slots, receipts, crashes>>

\* Admission.release, deferred first and so executed last.
Release(h) ==
    /\ pc[h] = "release"
    /\ slots' = slots - 1
    /\ Return(h)
    /\ UNCHANGED <<catalogue, files, process, receipts, crashes>>

-----------------------------------------------------------------------------
(* The rest of the system, as far as the deposit path can observe it.      *)

\* An attempt leaves the rolling 24-hour window.
ExpireAttempt(k) ==
    /\ attempts[k] > 0
    /\ attempts' = [attempts EXCEPT ![k] = @ - 1]
    /\ UNCHANGED <<status, bound, revoked, profiles, assigned, managed, files,
                   process, handlers, receipts, crashes>>

\* The administrator's commands open the catalogue themselves, whether or not
\* the writer runs.  Store.Revoke on a key:
RevokeKey(k) ==
    /\ k \in Revocable \ revoked
    /\ revoked' = revoked \cup {k}
    /\ UNCHANGED <<status, bound, attempts, profiles, assigned, managed, files,
                   process, handlers, receipts, crashes>>

\* Store.PutProfile, with the rows of its keys in place.
PutProfile(p, l) ==
    /\ profiles' = [profiles EXCEPT ![p] = l]
    /\ UNCHANGED <<status, bound, attempts, revoked, assigned, managed, files,
                   process, handlers, receipts, crashes>>

\* Store.Assign; the foreign key admits existing profiles only.
Assign(k, p) ==
    /\ assigned' = [assigned EXCEPT ![k] = p]
    /\ UNCHANGED <<status, bound, attempts, revoked, profiles, managed, files,
                   process, handlers, receipts, crashes>>

\* The statuses retention gives to a stored backup (module Retention).
RetentionMoves ==
    { <<"complete", "deleting">>, <<"deleting", "complete">>,
      <<"deleting", "quarantined">>, <<"quarantined", "complete">>,
      <<"quarantined", "purging">>, <<"purging", "quarantined">>,
      <<"purging", "deleted">> }

\* A commit of retention changes the row only.  The maintenance process
\* confirms a move once it sees the file in its new place, synchronised or not.
Retain(i, to) ==
    /\ mode = "up" /\ <<status[i], to>> \in RetentionMoves
    /\ i \in managed \/ Cardinality(managed) < MaxManaged
    /\ to = "quarantined" /\ status[i] = "deleting" => i \notin final
    /\ to = "complete" /\ status[i] = "quarantined" => i \in final
    /\ status' = [status EXCEPT ![i] = to]
    /\ managed' = managed \cup {i}
    /\ UNCHANGED <<bound, attempts, revoked, profiles, assigned, files, process,
                   handlers, receipts, crashes>>

\* The maintenance process takes a file out of the archive directory while its
\* row is still "deleting" and brings it back while it is "quarantined", in a
\* process of its own that outlives the writer.
Move(i) ==
    /\ \/ status[i] = "deleting" /\ i \in final /\ final' = final \ {i}
       \/ status[i] = "quarantined" /\ i \notin final /\ final' = final \cup {i}
    /\ UNCHANGED <<catalogue, part, partDisk, finalDisk, data, synced, process,
                   handlers, receipts, crashes>>

\* Its synchronisation of the archive directory, which may come after the
\* confirmation or, when it died, not at all.
SyncMoves ==
    /\ managed # {}
    /\ finalDisk' = final
    /\ UNCHANGED <<catalogue, part, partDisk, final, data, synced, process,
                   handlers, receipts, crashes>>

-----------------------------------------------------------------------------
(* Failures and restart.                                                   *)

Stopped ==
    /\ mode # "down" /\ crashes < MaxCrashes
    /\ mode' = "down" /\ crashes' = crashes + 1
    /\ cur' = None
    /\ pc' = [h \in Handlers |-> "idle"] /\ slots' = 0
    /\ req' = [h \in Handlers |-> None] /\ job' = [h \in Handlers |-> None]
    /\ UNCHANGED <<catalogue, receipts>>

\* The process dies (or Reconcile returns an error): page cache survives.
Crash == Stopped /\ UNCHANGED files

\* Power loss: an unsynchronised directory operation may or may not have
\* reached the disk, unsynchronised contents may be damaged.
PowerLoss ==
    /\ Stopped
    /\ \E p \in SUBSET ((part \cup partDisk) \ (part \cap partDisk)) :
         part' = (part \cap partDisk) \cup p
    /\ \E f \in SUBSET ((final \cup finalDisk) \ (final \cap finalDisk)) :
         final' = (final \cap finalDisk) \cup f
    /\ \E damaged \in SUBSET {i \in Ids : ~synced[i] /\ data[i] # "none"} :
         data' = [i \in Ids |-> IF i \in damaged THEN "partial" ELSE data[i]]
    /\ partDisk' = part' /\ finalDisk' = final'
    /\ synced' = [i \in Ids |-> TRUE]

\* main takes the exclusive writer lock and calls Reconcile.
Start ==
    /\ mode = "down"
    /\ mode' = "scan"
    /\ UNCHANGED <<catalogue, files, cur, handlers, receipts, crashes>>

Pending == {i \in Ids : status[i] = "receiving"}

\* Next pending row: a published file must be regular, have the declared size
\* and pass Verify, otherwise Reconcile returns an error and the writer does
\* not start (no step of this action).
ReconcileRow(i) ==
    /\ mode = "scan" /\ i \in Pending
    /\ i \in final => data[i] = "full"
    /\ cur' = i
    /\ mode' = IF i \in final THEN "sync" ELSE "settle"
    /\ UNCHANGED <<catalogue, files, handlers, receipts, crashes>>

ReconcileSync ==
    /\ mode = "sync"
    /\ finalDisk' = final
    /\ mode' = "settle"
    /\ UNCHANGED <<catalogue, part, partDisk, final, data, synced, cur,
                   handlers, receipts, crashes>>

\* Store.Complete when the final file exists, Store.Fail when it does not.
ReconcileSettle ==
    /\ mode = "settle"
    /\ IF cur \in final THEN CompleteRow(cur) ELSE FailRow(cur)
    /\ mode' = "rmtemp"
    /\ UNCHANGED <<files, cur, handlers, receipts, crashes>>

ReconcileRemoveTemp ==
    /\ mode = "rmtemp"
    /\ part' = part \ {cur}
    /\ mode' = "scan" /\ cur' = None
    /\ UNCHANGED <<catalogue, partDisk, final, finalDisk, data, synced,
                   handlers, receipts, crashes>>

\* The rows are settled: what is left in incoming/ is orphaned.
BeginSweepEarly ==
    /\ mode = "scan"
    /\ mode' = "sweep"
    /\ UNCHANGED <<catalogue, files, cur, handlers, receipts, crashes>>
BeginSweep ==
    /\ mode = "scan" /\ Pending = {}
    /\ mode' = "sweep"
    /\ UNCHANGED <<catalogue, files, cur, handlers, receipts, crashes>>

SweepOne(i) ==
    /\ mode = "sweep" /\ i \in part
    /\ part' = part \ {i}
    /\ UNCHANGED <<catalogue, partDisk, final, finalDisk, data, synced,
                   process, handlers, receipts, crashes>>

\* SyncDir(incoming), then the writer listens.
Listen ==
    /\ mode = "sweep" /\ part = {}
    /\ partDisk' = part
    /\ mode' = "up"
    /\ UNCHANGED <<catalogue, part, final, finalDisk, data, synced, cur,
                   handlers, receipts, crashes>>

-----------------------------------------------------------------------------
HandlerStep(h) ==
    \/ \E i \in Ids, acked \in BOOLEAN : Reserve(h, i, acked)
    \/ \E i \in Ids : Replay(h, i)
    \/ Refuse(h) \/ Answer(h)
    \/ Create(h) \/ Copy(h) \/ Save(h) \/ Link(h) \/ Interrupt(h)
    \/ \E removed \in BOOLEAN : Cleanup(h, removed)
    \/ \E committed \in BOOLEAN : Fail(h, committed)
    \/ SyncFinal(h) \/ Unlink(h) \/ SyncIncoming(h)
    \/ \E acked \in BOOLEAN : Complete(h, acked)
    \/ Unconfirmed(h)
    \/ Release(h)

Reconcile ==
    \/ Start
    \/ \E i \in Ids : ReconcileRow(i)
    \/ ReconcileSync \/ ReconcileSettle \/ ReconcileRemoveTemp
    \/ BeginSweep
    \/ \E i \in Ids : SweepOne(i)
    \/ Listen

Environment ==
    \/ \E k \in Keys : ExpireAttempt(k) \/ RevokeKey(k)
    \/ \E p \in Profiles : \E l \in Limits[p] : PutProfile(p, l)
    \/ \E k \in Keys, p \in Profiles : Assign(k, p)
    \/ \E i \in Ids, to \in Statuses : Retain(i, to)
    \/ \E i \in Ids : Move(i)
    \/ SyncMoves

Next ==
    \/ \E h \in Handlers, r \in Offered : TakeSlot(h, r)
    \/ \E h \in Handlers : HandlerStep(h)
    \/ Reconcile
    \/ Environment
    \/ Crash
    \/ PowerLoss

\* Each handler goroutine runs to its end (ReadTimeout and WriteTimeout bound
\* every read and write of the connection) and the service manager restarts a
\* stopped writer.  Clients, administrators and failures are not fair.
Fairness ==
    /\ \A h \in Handlers : WF_vars(HandlerStep(h))
    /\ WF_vars(Reconcile)

Spec     == Init /\ [][Next]_vars
FairSpec == Spec /\ Fairness
-----------------------------------------------------------------------------
(* Properties.                                                             *)

Stored == {"complete"} \cup Retired
Durable(i) == i \in final /\ i \in finalDisk /\ data[i] = "full" /\ synced[i]

\* Every complete row that retention has never touched, whether a handler or
\* Reconcile completed it, has its verified file on the disk: no order of link,
\* fsync, commit, crash and power loss separates the two, whatever becomes of
\* the files retention moves in the same directory.
StoredDurable ==
    \A i \in Ids \ managed : status[i] = "complete" => Durable(i)

\* A client holding a 201 receipt finds that very request behind its id, and
\* the row never falls back to "receiving" or "failed".
ReceiptsHonoured ==
    \A p \in receipts : bound[p[2]] = p[1] /\ status[p[2]] \in Stored

\* However often a client retries an operation, across lost answers, failed
\* attempts and restarts, all the receipts it gets name one backup, and an
\* idempotency key is never acknowledged for two different contents.
IdempotentReceipts ==
    \A p, q \in receipts :
        /\ p[1].idem # NoIdem
        /\ p[1].key = q[1].key /\ p[1].idem = q[1].idem
        => p = q

Working == Reserved \cup Publishing \cup {"cleanup", "fail"}

\* A transfer owns its identifier: until its own Store.Fail or Store.Complete
\* nobody else may reserve it, so its staging file is not removed, recreated or
\* published by the handler of a retry.
StagingExclusive ==
    \A h \in Handlers : pc[h] \in Working =>
        /\ status[job[h]] = "receiving"
        /\ pc[h] \in {"copy", "save", "link"} => job[h] \in part
        /\ \A g \in Handlers \ {h} : pc[g] \in Working => job[g] # job[h]

\* Whatever a crash or power loss leaves, the next start is not refused: a
\* pending row whose final name survived has complete, durable contents.
RestartNeverRefused ==
    \A i \in Pending : i \in final \cup finalDisk => data[i] = "full" /\ synced[i]

\* A failed row has no published file, neither visible nor on the disk, so a
\* retry under the same identifier can publish (the hard link never replaces).
FailedUnpublished ==
    \A i \in Ids : status[i] = "failed" => i \notin final \cup finalDisk

Grows(k) ==
    \/ Used(k)' > Used(k)
    \/ Cardinality(Active(k))' > Cardinality(Active(k))
    \/ attempts'[k] > attempts[k]
Exceeds(k) ==
    \/ Used(k) > Limit(k).total
    \/ Cardinality(Active(k)) > Limit(k).concurrent
    \/ attempts[k] > Limit(k).perDay

\* Bytes, open transfers and attempts of a key grow only within the limits in
\* force at that moment: a key gets past its limits only by an order of the
\* administrator that lowers them under the rows it already has, and then
\* nothing is admitted until it is within all of them again, whatever the
\* interleaving of reservations, retries of failed rows and restarts.
LimitsRespected ==
    [][\A k \in Keys : Grows(k) => ~Exceeds(k) /\ ~Exceeds(k)']_vars

\* When the writer starts to listen no reservation and no staging file of an
\* earlier process is left, visible or on the disk.
CleanStart ==
    [][mode # "up" /\ mode' = "up"
         => Pending' = {} /\ part' = {} /\ partDisk' = {}]_vars

\* Once a deposit is stored, the deposit path never takes it back.
StoredForever ==
    [][\A i \in Ids : status[i] \in Stored => status'[i] \in Stored]_vars

\* The handlers between Admit taking a slot and the one release that gives it
\* back.
Holders == {h \in Handlers : pc[h] \notin {"idle", "answer"}}

\* No slot is lost and none is given back twice, on any path out of Admit and
\* Receive: the counted slots are those of the handlers that still hold one.
SlotsCounted == slots = Cardinality(Holders)

\* Every request ends; each step changes the taken slots by as much as the
\* handlers holding one, so none is lost on the way (SlotsCounted), and a writer
\* whose slots are all taken admits again.
HandlersFinish ==
    /\ \A h \in Handlers : pc[h] # "idle" ~> pc[h] = "idle"
    /\ slots = Slots ~> slots < Slots
    /\ [][slots' - slots = Cardinality(Holders') - Cardinality(Holders)]_vars

\* After a stop, every interrupted reservation is decided.
RestartSettles ==
    \A i \in Ids : (mode = "down" /\ status[i] = "receiving")
                      ~> status[i] # "receiving"

\* The abstract deposit service: a complete row whose file is not durable,
\* although retention has not touched it, maps to no phase of the abstract
\* specification.
AbstractPhase(i) ==
    CASE status[i] = "none"      -> "free"
      [] status[i] = "receiving" -> "offered"
      [] status[i] = "failed"    -> "refused"
      [] status[i] = "complete"  -> IF i \in managed \/ Durable(i) THEN "stored"
                                                              ELSE "lost"
      [] OTHER                   -> "retired"

Abstract == INSTANCE Deposit WITH
    phase <- [i \in Ids |-> AbstractPhase(i)], of <- bound

\* Every step of the handlers, of Reconcile and of the failures is a step of
\* the abstract service or invisible to its clients.
ImplementsDeposit == Abstract!Spec
=============================================================================
