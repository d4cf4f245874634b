# A verification project for onlybackup

onlybackup receives encrypted backups from clients that may only deposit, keeps
them in an append-only archive, and lets a separate privileged process move old
copies to quarantine and, 48 hours later, remove them. The project models the
parts of the program where steps of several processes, crashes and lost answers
meet; TLC checks the modules on small instances and TLAPS proves theorems about
them for every value of their constants.

Paths below are relative to the repository (`src/`). Run a model with
`tlc -config X.cfg M` and check the proofs of a module with
`tlapm IngestProofs.tla`, likewise for `SetFacts` and the other six modules named
`*Proofs`.

## The system

| Component | State it keeps | Operations | Talks to |
|---|---|---|---|
| Writer, deposit path (`internal/ingest`, `internal/store/store.go`) | catalogue rows (`backups`, `upload_attempts`), `incoming/`, `archives/backups/`, 32 process slots | Admit, reserve, copy, publish, complete, fail, replay, Reconcile | gateway (Unix socket), SQLite, filesystem |
| Writer, retention catalogue and sockets (`internal/store/retention.go`, `internal/localapi`) | `retention_operations`, `automation_state`, `anomalies`, `monitoring_checks`, `maintenance_leases`, `mail_queue` | request, authorise, validate, confirm, reconcile, revoke, pause, resume, setup, checks, incidents, mail | administrators, maintenance process |
| Maintenance process (`internal/maintenance`) | the current cycle, its lease, local state files | one cycle every five minutes: reconcile, finish permitted work, check, schedule, perform, deliver mail | writer (local HTTP), archive files, SMTP |
| Policy (`internal/policy`) | none (pure) | learn schedules, find anomalies, select copies | maintenance process, catalogue |
| Lifecycle tracker (`internal/lifecycle`) | active handlers, stopping flag, drained channel | Enter, Leave, Stop, Wait, Serve | receiver and writer mains |
| Receiver gateway (`internal/gateway`, `internal/httpbody`) | 32 slots, one forwarded exchange per handler | relay an upload and its answer, interrupt a body that stalls | clients (TLS), writer |
| Client (`internal/client`, `cmd/onlybackup`, `cmd/onlybackup-recover`) | the idempotency key of a send | send with retries, recover | gateway |
| Encryption container (`internal/cryptfile`) | none | streaming encryption and decryption | client |
| Archive layout and migrations (`internal/store/archive_layout.go`, `migration_v*.go`) | directory layout, schema version | resumable offline migration, schema upgrades | writer and maintenance process (locks) |
| Command lines (`internal/localcli`, `cmd/*`) | none | parse, call, print | sockets |

What is hard here, and where a unit test hardly reaches:

* **Crash consistency.** A deposit is a file and a row. Publication is a hard
  link, two directory syncs, an unlink and a commit; a retention move is a
  rename (or link and remove), two syncs and a confirmation sent to another
  process. Each may be interrupted by a process death or a power loss.
* **Two processes, one archive.** The writer decides and records, the
  maintenance process acts. Between them are calls that time out while the
  writer still serves them, leases that expire during long hashes, tickets, and
  a revocation at any moment.
* **Idempotent retries.** A client that lost its answer retries against a row
  that may be receiving, complete, failed, quarantined or deleted.
* **Holds.** Destructive work is held by a flag with a free-text reason, a
  manual pause, an activation step, a mail proof and a deferred resume; many
  handlers set and clear them.
* **Monitoring.** A check reads, verifies files for minutes, plans and
  commits in separate calls; meanwhile copies arrive, models are relearned and
  exclusions are entered. Every instant must be judged once, by the model that
  was in force, against the copies that really arrived.
* **One send, several attempts.** A client may give up on an exchange that the
  gateway and the writer still carry on, and repeat it; a client may also stall
  for ever and keep both of them waiting.
* **Progress.** A cycle that returns early at the same error every time, a
  pending row that is refused for ever, a slot that is not given back.

## Modules

| Module | Models | Used by |
|---|---|---|
| `Deposit` | the abstract deposit service: what a client may rely on | refined by `Ingest`, used by `Send` |
| `Ingest` | deposit path and restart of the writer | `MCIngest`, `IngestProofs` |
| `IngestProofs` | theorems about `Ingest` | |
| `Retention` | retention operations of writer and maintenance process | `MCRetention`, `RetentionProofs` |
| `RetentionProofs` | theorems about `Retention` | |
| `Monitoring` | checks, models, coverage, findings, exclusions | `MCMonitoring`, `MonitoringProofs` |
| `MonitoringProofs` | theorems about `Monitoring` | |
| `Send` | client, gateway and writer, over `Deposit` | `MCSend`, `SendProofs` |
| `SendProofs` | theorems about `Send` | |
| `Migration` | offline layout migration beside `Lifecycle` | `MCLifecycle`, `MigrationProofs` |
| `MigrationProofs` | theorems about `Lifecycle` and `Migration` | |
| `MailQueue` | durable mail queue, delivery, mail proof, delivery incident | `MCMailQueue`, `MailQueueProofs` |
| `MailQueueProofs` | theorems about `MailQueue` | |
| `Selection` | candidate selection of an automatic cycle | `MCSelection`, `SelectionProofs` |
| `SelectionProofs` | theorems about `Selection` | |
| `Lifecycle` | request tracker and shutdown of the writer process | `Migration` |
| `SetFacts` | lemmas about least and greatest members, parts of finite sets and sums | `IngestProofs`, `MonitoringProofs`, `RetentionProofs`, `SelectionProofs` |
| `MC*` | instances for TLC | the `.cfg` files |

Mutated forms of an action or predicate stand directly before the definition
they vary, under a name that says what went wrong (`RevokeForgettingStatus`,
`WithinLimitsOffByOne`). No specification uses them; each is a plausible bug
that the property named for it in `PROJECT.json` detects.

### Ingest and Deposit

`Ingest` has one process slot counter, any number of handlers and the writer
process itself. Variables follow the code: `status`, `bound`, `attempts`,
`profiles` and `assigned` are the catalogue; `managed` are the backups that have
a row in `retention_operations`; `part` and `final` the entries of `incoming/` and
`archives/backups/`, `partDisk` and `finalDisk` the entries a power loss leaves;
`data` and `synced` the file contents. SQLite commits are durable (WAL with
`synchronous=FULL`), so the catalogue has one copy.

A handler goes through `reserve`, `create`, `copy`, `save`, `link`, `syncFinal`,
`unlink`, `syncIncoming`, `complete`, `release`; every error return of
`Writer.Receive` leads to `cleanup` and `fail` as the deferred functions do, and
an error after publication leaves the row to `Reconcile`. The slot is given back
where the code does it: by `Admit` on an error (`GiveUp`), by `Admit` before a
replayed receipt is written (`Replay`, then `Answer` without a slot), or by the
deferred `release`. `Admission.Abort` has no caller and is not modelled.
`Reserve`, `Fail` and `Complete` may commit although the handler sees an error
(`acked`, `committed`). `Reconcile` is modelled row by row, with a crash possible
between any two of its steps.

`PutProfile`, `Assign` and `RevokeKey` are commands of an administrator, at any
moment and under whatever rows exist. Of retention three things are visible
here: a commit that changes the row (`Retain`), the rename out of the archive
while the row is still `deleting` and back while it is `quarantined` (`Move`),
and the synchronisation of the directory (`SyncMoves`), which may come after the
confirmation or never (`internal/localapi/api.go:907`). `Retention` is the
detailed model of them. `Offered`, `Revocable` and `MaxManaged` bound the
requests, revocations and touched backups of an instance.

`Deposit` says what clients rely on: an identifier is offered, refused, stored
or retired; it is bound to one request; what is stored stays stored until it is
retired. `ImplementsDeposit` maps a complete row to `stored` only when its file
is durable or retention has touched it, so the refinement fails if the catalogue
ever runs ahead of the disk on the deposit path. An acknowledgement may come when
the deposit is already retired: retention may overtake the handler that writes a
replayed receipt.

Hashing, copying and metadata encoding are abstracted to whether the contents
are `none`, `partial` or `full`. Disk-space refusals and database failures
before a commit appear as refusals. Identifiers are drawn fresh
(`model.NewID`), so a collision is not modelled.

### Retention

The writer's half is the catalogue: `status` of backups, `ops` (the rows of
`retention_operations`), revoked keys, and the automation state (`learned`,
`regular`, `hold`, `holds`, `pending`, `alarms`). `hold` is `deletion_blocked`
together with who wrote `block_reason`, because
`TryClearResolvedMaintenanceBlock` decides by that text. The maintenance half is
`pc`, `phase`, `gen`, `todo`, `due`: one cycle of `RunOnce`. A call is a record
in `calls`; the writer serves it in one or more steps (the reads of
`reconcileContext` and of `/v1/confirm` come before the commit), the client may
give up on it at any time, and a call given up on may still be served, later, or
never. `where` and `disk` are the directory entries as processes see them and as
a power loss leaves them. `Events` selects which administrators' and external
events an instance has; it bounds the instance and changes no action.

The execution lock (`flock`) is the single maintenance process of the model. Its
death leaves the lease behind; `Expire` ends it. Times are abstracted to the
facts the code derives from them: `ripe` (48 hours passed), `regular` (a fresh
regular check). An alarm is an open incident that no operation owns and that
blocks: `external` until someone resolves it, a missing backup until it is
acknowledged, and `operational` (uploads, times, appointments), which blocks
while two of its kind are younger than fourteen days (`AlarmAges`) and which
`CreateAnomalyExclusion` resolves. `BeginRelearn` makes the running check
obsolete when that has read its last snapshot. The learned minimum of a key and the exclusion of running
uploads are outside this module and appear as refusals that may always happen.

### Monitoring

One active credential. `models` is `monitoring_models`, `rows` the sequence of
`monitoring_checks` with the scopes of `monitoring_check_models`, `revision` the
`model_revision` of `automation_state`. The worker goes through `scan`, `learn`,
`plan` and `complete`, the calls of `RunOnce` and `monitor`; a completion whose
caller has stopped waiting stays in `late`. `matchAppointments`, `checkWindow`
and the definitions from `Usable` to `Segments` follow the code line by line;
`Arrive` judges a copy at its receipt, as `evaluateCompletedInTransaction` does.

Instants are integers, an instant standing for the interval in which the code
compares seconds; a civil day has `Day` of them. Time passes between checks and
while files are verified, not between the short calls that follow the last
snapshot. Receipt and commit of a copy are one step, and a copy that arrives
after the start of a check is later than the start. A check has started at most
once per instant. What `Learn` infers is any schedule of `Schedules`, or an
unreliable model; an exclusion is for a civil day and one kind. Sizes,
forecasts, quotas and capacity produce findings of their own, which do not touch
coverage, and are left out. The timezone is configured; before that `monitor`
returns at once. `judged`, `anchor`, `alerts` and `again` are history.

`NoTime` stands for an absent time and lies before every instant. A revision
taken from the clock is `Stride` times the instant, because the code takes
nanoseconds while a relearning adds one: `MonitoringAssumption` says that there
are fewer relearnings than a stride has room for, that a tolerance is less than
half a day (overlapping windows reach no further than the neighbouring day, as
`Expected` assumes), and that copies from before the start are not in the future.

### Send

One exchange per attempt, with the gateway's handler (`gw`), its `RoundTrip`
(`rt`) and the writer's handler (`wr`), which all outlive the client's interest
in them. What the writer does to the catalogue is a step of `Deposit`, which
`Ingest` is proved to implement, so `ReportedIsSaved` composes the two. The
writer's concurrency limits, quotas and errors are refusals. As in `Ingest`, a
failed `Store.Fail` leaves the row in progress, and a `Complete` that reported an
error may have committed. The body is unread,
read in part or whole; a file that changes between the two parts arrives torn.
The transport waits for the writer's 100-continue before it sends the body, but
no longer than `ExpectContinueTimeout`, so the body may come before admission.
`net/http` is external: `RoundTrip` returns an error for a lost connection only
when its reader of the request body is through or has been interrupted, which is
what the comment at `internal/gateway/gateway.go:158` relies on.

### Migration

`dir` says for `backups` and `quarantine` in which of the two places a directory
of that name is, `disk` what is synchronised; a power loss keeps any part of the
difference. The writer takes
`writer.lock`, validates the layout, and then lives as module `Lifecycle` says
until its deferred calls have run; a maintenance cycle holds the directory lock.
Any mixture of old and new layout is an initial state, ambiguous ones included:
those the migration refuses. Modes, owners and the device check are left out; a
power loss is modelled while the writer is not listening, the rest is in
`Ingest`.

### MailQueue

`rows` is `mail_queue` in the order of its ids, `version`, `tested` and `report`
are `mail_config_version`, `mail_tested` and `next_report_at` of
`automation_state`, `incident` is the open row of the anomaly `smtp:delivery`.
The maintenance process goes through `plan`, `queue`, `refresh`, `due`, `send`,
`confirm` and `tell` as `RunOnce` and `deliverMail` do; an error before delivery
ends the cycle but not the delivery, which the deferred call still performs with
the settings it has. A call of the process is served and answered, or given up
on and then served later or never (`late`). SMTP may accept a mail and still
report an error.

Time is a clock in ticks of the backoff unit. Stable ids that hold a second, a
day or a 72-hour window are taken or free for the current and for the previous
one, which is as far as a call in flight reaches; `NewSecond` frees those of a
second. The writer's socket times out after two minutes
(`cmd/onlybackup-writer/main.go:149`), so no call outlasts the day after its
own, and none that queues a report the 72 hours until the next one; the guards
of `Tick` say that. A report whose call was lost is planned again by the next
cycle, and the lost call may still be served after its repetition. Bodies, addresses and the other kinds of incidents are left out: their
mails differ in text only.

### Selection

An initial state is one snapshot of the catalogue with one disk measure; the
loop of `Select` over the civil days is one action per day. Ages are days in the
configured zone, which is all that `Select` derives from times. `quarantined`
stands for every state of a copy that is on its way out. `Basis` is 10000 in the
code and 10 in the instance, so that the truncating divisions happen at small
sizes; the theorems hold for every basis.

`OldestDaysFirst` is the reference definition: it describes the chosen days
without counters and without a loop.

### Lifecycle

The channels that `Tracker` creates are numbered; `closed` is the set of closed
ones. A request is one-shot: accepted, admitted or rejected, ended. It may reach
`Enter` at any time after it was accepted, also after `Shutdown` returned, which
net/http does not exclude for connections that were new or idle. Net/http itself
is external and modelled by how `Serve` and `runArgs` use it. `pc` is the main
goroutine from `Serve` to the deferred calls that close the catalogue.

## Runs

| Run | Instance | Shows |
|---|---|---|
| `ingest` | 2 handlers, 2 identifiers, requests with and without idempotency key, 2 contents, a wide and a narrow profile to assign, 1 backup retention may touch, 1 crash, no revocation | durable stored rows, honoured and idempotent receipts, exclusive staging; bytes, open transfers and daily attempts grow only within the limits in force |
| `ingest_restart` | 3 handlers, 2 slots, 1 deposit under 1 idempotency key, a profile that is widened and narrowed, revocation, retention, 2 crashes, fair | restarts are never refused and the refinement of `Deposit` holds; no slot is lost, every request ends and every interrupted reservation is decided |
| `retention` | 2 backups of one key, 2 operations, 2 faults, power losses, rename and link fallback, requests, recoveries, revocation | status and operation agree, no move without permission, permission never withdrawn, no file is lost |
| `retention_holds` | 1 operation, 1 fault, pauses, resumes, incidents, exclusions, relearning, setup, lost and acknowledged files | incidents always hold; destructive work is released only from a safe state; a pause ends only by a resume; purging never takes the last copy |
| `retention_live` | 2 operations, 1 fault, no power loss, rename and link fallback, lost files, resumes, a start before or after the first model, fair | catalogue and files agree; permissions complete, revoked work settles, recoveries are served, each but for the exceptions it names |
| `monitoring` | no copies, 1 relearning or setup, 1 fault, 4 instants, retention of 1 instant, fair | every instant judged once and by the model in force; checks catch up |
| `monitoring_findings` | 3 copies (and one from before), 2 schedules, 1 order | announced is what all copies confirm, once; the pairing is maximal |
| `send` | 1 client, 3 attempts, 1 slot, 2 faults, fair | success is a stored backup of the hashed bytes; one backup per send; lost exchanges end |
| `mail` | 1 test, 2 setups, 1 report, 1 SMTP error, 1 lost call or death, fair | the mail proof is about the configuration in force, reports are not swallowed, every mail is delivered and the delivery incident closes |
| `selection` | 4 copies of 2 keys, 3 ages, 2 minima, 2 capacities, every state, revocation and forecast | last copy spared, agreement with the reference, return below the threshold |
| `lifecycle` | 2 deposit and 1 local request, 2 local servers, 2 starts, 2 mishaps of the migration, fair | the catalogue outlives the handlers, shutdown completes, directories move only while nobody uses them, a repeated migration gets there |
| `retention_overwritten_hold` | recoveries and incidents, 1 fault | the disagreement listed under "What the models found" |

Bounds. Two identifiers and one idempotency key are enough for a retry to meet
its own earlier row and for a second row to be reserved instead; two handlers
for a retry to overlap one that is cleaning up, and the third of
`ingest_restart` waits for a slot meanwhile. With one idempotency key every
request of `ingest_restart` is about one row, so one identifier is enough there.
The two profiles hold the same bytes, two units, but one or two transfers at a
time and one or two units per backup, and one attempt a day: each limit is met
exactly, and an assignment lowers limits under rows that exceed them. Two crashes are one of the transfer
and one of the `Reconcile` after it; the theorems cover any number. In
`Retention` two backups of one key are needed for the last-copy rule, and two
operations for an error of one to meet the hold of another. Two faults allow a
late answer combined with a death. Lease generations are recycled once no ticket
and no call carries them: four can be told apart at once, and the deadlock check
would report an instance that runs out. Symmetry is used for handlers and
identifiers in the run `ingest` and for the backups of one key in
`retention_holds`; neither checks liveness.

In `MailQueue` one mail of every kind can be pending at once and a batch of two
leaves some behind; two setups let a confirmation arrive under the next
configuration and the one after. Day and report window are one tick, so that
every order of backoff, reminder and report happens within few ticks and the
backoff is at its cap from the first error; the daily reminder is then what
closes an incident whose closing call was lost. A second SMTP error multiplies
the states beyond what a run can explore, since each adds an incident and its
mails. In `Selection` three copies of one key and one of another are spread over
three days, so that days hold several keys and a day can be skipped between two
that are taken; the measures lie below, exactly on and above the threshold, and
one forecast overflows. In `Lifecycle` two deposit requests and a local one let
the process become idle and busy again around every step of the shutdown, from
either kind of server; two starts put the migration before, between and after
two lives of the writer, and two mishaps are one of each rename.

In `monitoring` the schedule lies outside the run: coverage does not depend on
appointments or copies, and the instance spends its states on faults and orders.
Four instants are room for a failed first check, its retry, a relearning and the
cleanup of the first row. In `monitoring_findings` the appointments are one or
two per day of three instants with a tolerance of one, so that windows overlap
and cross midnight; the copies are enough for one to be displaced by another and
for a third to find no partner. `MaxTime` ends the run; `Horizon` excuses the
one check for which no later one is left.

In `send` two faults are a lost answer and a crash, or a change of the file and
a lost answer. One client suffices for its attempts to compete for the slot and
the row; two sends have different keys and meet only in the slots. Deadlock is
not checked in `send`, where everything may be over, nor where time ends.

Fairness. In `Ingest` each handler is weakly fair because `ReadTimeout` and
`WriteTimeout` end every read and write, and `Reconcile` because the service
manager restarts a stopped writer. In `Retention` the maintenance process runs a
cycle every five minutes, the writer answers calls whose client still waits, and
a lease that is not renewed expires. In `MailQueue` the process runs cycles,
time passes, and a call that was given up on is served or dropped within the
timeouts of the socket. In `Monitoring` checks run and time passes. In `Send`
the handlers of gateway and writer run, `RoundTrip` returns what it has, and the
service manager restarts the writer; no client is obliged to send another byte,
so `LostExchangesEnd` is about exchanges that were answered or lost. In
`Migration` commands, cycles and the writer run, and the operator repeats the
command until it meets free locks (strong fairness). In `Lifecycle` handlers end
because their connections have timeouts and `Close` cuts them, and the
goroutines of the process run. Administrators, clients, signals and failures are
never fair; failures are bounded.

## What the models found

One run violates a property that a comment of the repository states.

* `retention_overwritten_hold`: a hold that only a resume may lift is lifted
  without one. `TryClearResolvedMaintenanceBlock` recognises "its" hold by the
  text of `block_reason`, which `blockForAnomalyTx` overwrites unconditionally.
  The error of a recovery, which may run while blocked, thus takes the hold over,
  and the completed recovery removes it (`internal/store/retention.go:1141`
  against the comment at `:1099`).

Further observations. The first is kept out of the passing runs by their
`Events`; the others happen in the runs, and the property names them as an
exception.

* Unsynchronised confirmation. `reconcileContext` confirms a move that is visible
  and verified but whose directories were never synchronised; a power loss then
  reverts it (`internal/localapi/api.go:907` against `docs/RETENTION.md:339`).
  `CatalogueMatchesFiles` fails with `"power"` among the `Events` of
  `MCRetentionLive.cfg` and two faults; without power loss it holds
  (`retention_live`), and with it `FileNeverLost` does (`retention`): the file is
  misplaced, never gone.
* Both names. With the link fallback of `renameNoReplace` a death between link
  and remove leaves a file under both names. Every later reconciliation is then
  `uncertain` (`internal/localapi/api.go:921`) and ends the cycle, so a permitted
  operation, and every other one, waits for a repair by hand, which
  `docs/RETENTION.md:289` asks for. `CommittedCompletes`, `RevokedSettles` and
  `RecoveryServed` except it (`AwaitsRepair`); the same holds for a file that was
  removed from outside after its operation was authorised.
* First revision. A recovery requested between setup and the first check carries
  revision 0 and is refused in every later cycle
  (`internal/store/retention.go:469` against `docs/RETENTION.md:304`). It is the
  exception `ops[o].rev # learned` of `RecoveryServed`, and happens in
  `retention_live` from the initial states before the first model.
* Refused purge. When the other copies of a key were acknowledged as missing, the
  refused purge of its last copy ends every cycle at
  `internal/maintenance/service.go:680`, before the administrator's recovery of
  that copy is processed, also against `docs/RETENTION.md:304`. It is the
  exception `PurgeStuck` of `RecoveryServed`, and happens in `retention_live` by
  a loss, its acknowledgement and a resume.
* Limits lowered under existing rows. `PutProfile` and `Assign` look at no rows,
  so a key may hold more than its limits allow; it then admits nothing until it
  is within all of them again. `LimitsRespected` says that and no more.
* Exclusion and an independent hold. `CreateAnomalyExclusion` lifts any hold whose
  reason begins with `anomalia:` when nothing blocks any more
  (`internal/store/retention.go:1289`), also one that an incident wrote over the
  reason of an independent hold; this is the overwriting above by another way.
* First learning. The scope of a new model begins when it was learned
  (`internal/store/monitoring_checks.go:180`); between the end of the coverage by
  an older model and that instant no model may be in force, and nothing is
  judged. `CoverageTiles` allows instants at which no reliable model existed.
* Relearning at revision zero. `BeginRelearn` makes revision 1, which is smaller
  than the revisions that checks draw from the clock; a first attempt planned
  before it is then refused for ever
  (`internal/store/monitoring_checks.go:144` against `docs/RETENTION.md:200`).
  It happens in the run `monitoring`; `CoverageTiles`, `ModelInForce` and
  `CatchesUp` claim nothing after it (`RelearnedAtRevisionZero`).
* Incident mail. In `MailQueue` three deliveries of one batch that fail, succeed
  and fail within one second leave no open incident: the stable id of the second
  incident's mail is taken, its transaction fails and `deliverMail` ignores that
  (`internal/maintenance/service.go:1012`); the failed mail itself is retried.

## Proofs

`IngestProofs` proves, for any set of handlers, identifiers, keys and contents,
any limits and any number of crashes: type correctness, `StoredDurable`,
`ReceiptsHonoured`, `IdempotentReceipts`, `StagingExclusive`,
`RestartNeverRefused`, `FailedUnpublished`, `StoredForever`, `CleanStart`,
`LimitsRespected`, `SlotsCounted` and `ImplementsDeposit`. The only assumption is
`IngestAssumption`: sizes and limits are positive, a profile admits no backup
beyond its total (`Profile.Validate`), `None` is no identifier and no request.
`StoredDurable` and the refinement are about the deposit path: a row that
retention has touched may be confirmed before its move is synchronised.

None of the safety properties is inductive. `Inductive` adds what the code relies on
without saying it:

* `Owning`, `Exclusive`: a handler between reservation and settlement works on a
  row that is `receiving` and no other handler has;
* `Progress`: what is on disk at each step of a transfer (the contents are
  written before the link, the link is synchronised before the unlink);
* `Rows`: what each row status says of its files, the heart of
  `StoredDurable`; among it that a name on the disk is visible unless retention
  has taken the file, so that a power loss only removes names of the deposit
  path, and that only stored rows are `managed`;
* `OneRow`: an idempotency key has at most one row, which makes receipts
  idempotent although `Reserve` checks only at its own moment;
* `Settling`: what `Reconcile` knows of the row it is at;
* `ReceiptsHonoured` itself, which only the row facts preserve.

The proof has one step per action and one per conjunct the action disturbs. The
refinement is proved step by step from the same invariant: `Complete` and
`ReconcileSettle` are the only steps that store, and `Progress` and `Settling`
say that the file is durable by then.

`LimitsRespected` is an action property about a sum over the rows of a key, with
limits that change in other steps. `FiniteRows` adds that the catalogue has
finitely many rows, which gives the sum a meaning when there are infinitely many
identifiers. A reservation adds one row after comparing with the limits of its
own moment (`ReserveFits`); every other step keeps or shrinks the set of rows
that count (`FewerRows`), so it is not one in which anything grows.

`SlotsCounted` ties the counter to the handlers that hold a slot (`Holders`) by
cardinality, for any set of handlers, of which finitely many hold a slot at a
time: every step that takes or returns a slot moves exactly one handler in or
out of that set, and a stop of the process empties both.

About `Lifecycle`, `MigrationProofs` proves `TypeOK`, `CatalogueOutlivesHandlers`,
`LeaveNeverPanics` and `NothingAdmittedLate` for any finite sets of requests and
any number of local servers. The strengthening ties three things together: the
count is the cardinality of the running handlers; the current channel is closed
exactly when the count is zero; and from the moment `Wait` has chosen a channel,
admission has stopped and the channel is still the current one. Channels are
numbered in order of creation, and every closed one is no later than the current
one: hence a new channel is never closed already.

About `Migration` it proves `ArchiveHeldStill` for any number of requests, starts
and mishaps, and with it that the archive directory is always somewhere, after a
power loss too (`ArchivePresent`), that a planned rename finds its target free
(`RenameTargetFree`), that `CatalogueOutlivesHandlers` holds through every life
of the writer, and that no directory moves while a handler or a cycle runs
(`DirectoriesStayPut`). `MInductive` is the invariant of `Lifecycle` together
with `Locks` (a lock has one holder, and a writer that is not serving has no
handler) and `Plan` (what is still to be moved is in the old place and only
there). The invariant of `Lifecycle` is needed because the lock protects the
handlers only if `runArgs` gives it up after the last of them.

`SelectionProofs` proves `LastCopySpared`, `OldestDaysFirst` and
`ReturnsBelowThreshold` for every snapshot, configuration and disk measure. For
the first, `counts` is, per key, the number of complete
copies not yet chosen, and no copy of a day still ahead has been chosen. The
check of a day against `counts` is then a statement about cardinalities, and a
positive difference leaves a witness. For the second, `Progress` is the invariant
of the loop: the days left behind are older than those ahead, each was
taken exactly if `Chosen` says so of the days taken before it (`Decided`), and
`selected` is the sum of what was taken. `Chosen` looks at older days only
(`ChosenByOlder`), so what was decided stays decided. For the third, `NeededOf`
shows what the divisions of `Select` leave: a forecast reduced by `Needed` is
strictly below the threshold although target and measure are both truncated.

`SendProofs` proves `ReportedIsSaved` and `SentOnce` for any clients, attempts,
slots and crashes, and that `Send` implements `Deposit` (`SendUsesDeposit`): all
that clients, gateway and network do to the catalogue is what the abstract
service allows. `SendInductive` says that all attempts of a send ask for the
same row (`RowsOK`), that only one handler works on a row in progress
(`HandlersOK`), that a published file holds what the client hashed (`FilesOK`),
and that a 201 anywhere on its way, in the writer, in `RoundTrip` or at the
client, is about a row that was stored (`AnswersOK`). `ValuesAssumption` only
keeps `None` and the absent key apart from real values.

`MailQueueProofs` proves `TestedProven` and `ReportNotSwallowed` for any queue,
limits and numbers of orders and faults. The proof of a configuration travels
from the SMTP server to the catalogue in a confirmation that may be late, so
`ConfirmationsProven` is about every confirmation under way. For the reports,
`WindowTaken` ties the id of the current window to the time left until the next
report, and `OvertakenNotDue` says of a pending call whose id is taken that the
call which took it has also moved `next_report_at`. The proof attempt showed
that an earlier form of the model never repeated a report whose call was lost;
the repetition is now in the model and both properties hold with it.
`BackoffAssumption` is a fact of arithmetic (powers of two grow), which the
prover lacks; TLC evaluates it.

`MonitoringProofs` proves `CoverageTiles`, `ModelInForce`, `AnnouncedOnce`,
`MatchingMaximum`, `FindingsExact` and type correctness for every tolerance, day,
retention, set of schedules and copies, and for any number of checks, orders,
faults and late completions.

*Coverage.* `CoverageTiles` speaks of all that was ever judged, while the next
plan is made from the rows that the cleanup has left. `Frontier` connects the
two: the greatest recorded limit is the end of what was judged (`End`) or only a
time without a model lies between; while no check is completed, the first scope
of the first attempt resumes at `End`; and after a completion without scopes
every model is younger than `End`. The second alternative of each is needed: the
cleanup keeps the row with the greatest limit of the *current* revision, so a row
with an older and greater limit may go once a relearning has happened, and the
proof shows that no model was in force in between. `PlanFits` says of a plan that
it continues at `End` without gap or overlap and uses every model while it was in
force; it is kept for the worker's plan and for every completion that may still
be served late, because nothing else completes while their row is the running
one. Which model is in force is decided by revisions. `ModelsInOrder`,
`RevisionsBounded` and `SnapshotKept` say that greater revisions were learned
later and that `SaveModel` uses one greater than that of every reliable model,
so that it never replaces a model that was used. A relearning at revision zero
breaks that order; the invariant, as the two properties, claims nothing after it
(`RelearnedAtRevisionZero`).

*Pairing.* `matchAppointments` is a recursive function over the copies in the
order of their times. `PairingExists` shows that it is defined on every finite
set of copies, by a last copy that is left out; a copy takes the earliest
compatible appointment after those taken before it (`MatchTakes`), and every
earlier appointment that it could have taken has a partner among the copies
before it (`NothingSkipped`). `Exchange` turns any pairing,
copy by copy and without loss, into one that agrees with the greedy one, which
gives `MatchingMaximum`. `MatchStable` says that the choice of a copy depends on
nothing but the copies before it and the appointments near those, and
`MatchMonotone` that more copies leave an unpaired copy unpaired.

*Findings.* A period that ended a tolerance before the start of its check is
judged by the copies of that time exactly as by all copies of today
(`WindowExact`: neither the window of `Expected` nor the later copies matter),
and an excess copy found at its arrival has no partner among all copies
(`ArrivalExact`). `Ground` says that every planned, sent and judged period is of
that kind and that what a late completion carries is what it would find today;
`Findings` says of the announced incidents that today's copies confirm them, and
of what the judged periods leave over that it was announced or excluded. Neither
needs the order of the models, so `FindingsExact` holds after an early
relearning too; it needs that copies which arrive during a check are later than
its start, which is what stamping checks with the beginning of their second
achieves.

`RetentionProofs` proves, for any finite set of backups, any keys, operations,
lease generations, events and faults: type correctness, `IncidentsHold`,
`StatusMatchesOperation`, `PermissionIrrevocable`, `UnblockedSafely`,
`PauseKept`, `LastCopyKept` and `MovesPermitted`; if nothing outside the program
removes files, `FileNeverLost`; and if there is no power loss,
`CatalogueMatchesFiles`. Both hypotheses are about `Events` and are the
instances of the runs `retention` and `retention_live`: the first is what the
property means, and without the second the property fails (see "Unsynchronised
confirmation" above). `Inductive` adds:

* `OneActive`, `StatusFits`, `Granted`: a backup has at most one active
  operation, its status is the one that the operation's kind asks for, and a
  committed permission belongs to an operation that is still authorised or
  confirmed. Each handler checks a part of this at its own moment;
* `SetupHolds`, `OpenHolds`: whatever setup asks for keeps the activation step
  pending, and an open incident, doubt or alarm of any origin keeps the hold;
* `CallsOK`: the process waits for at most one call, about the operation at
  hand, and every call names a row that exists;
* `DoneOK`: a file read as moved does not return to its source while its
  operation is active. `reconcileContext` reads first and commits later, and
  this makes the late commit true;
* `MoveOK`: a process about to touch a file has the final permission or finds
  the file gone from its source, and between link and removal no call can
  confirm the move.

`CatalogueMatchesFiles` needs `Unmoved` besides: as long as no active operation
of a backup has the final permission, its file is where the status says. Every
step changes the status of a backup in one of few ways (`StatusStep`) and the
file of at most the backup at hand (`WhoTouches`, `FileMoves`); the action
properties and the two theorems about files share these lemmas.

Proved for every instance and not repeated in a run: `StoredForever`,
`SlotsCounted` (of which the run checks the steps, as part of `HandlersFinish`),
`NothingAdmittedLate`, `ArchivePresent`, `RenameTargetFree`,
`DirectoriesStayPut`, the refinement of `Deposit` by `Send`, type correctness,
and the inductive invariants. The runs check the properties themselves on the
small instances, where each has a mutated definition that violates it.

`SetFacts` holds the lemmas about data. The library's induction theorems take an
operator as a parameter, which the installed provers cannot instantiate;
induction over natural numbers is therefore used through its first-order form, a
least member of a set of counterexamples (`LeastOf`, `PartInduction`). The sum of
the community modules and the pairing are recursive functions, that is, a
`CHOOSE` among the functions that satisfy an equation: existence is proved by
building a table from smaller sets to larger ones, uniqueness by a least
disagreement, and only then does the equation hold of the function itself.

Only model-checked is liveness (`CatchesUp`, `LostExchangesEnd` and the like):
fairness and `ENABLED` are outside the prover's reach. All invariants and action
properties of the passing runs are proved.

## Not modelled, and why

* Learning and forecasts (`policy.Learn`, `Forecast*`): medians, growth rates and
  tolerances in floating point. Their result is a choice among schedules.
* Sizes: findings about them are independent of matching and coverage.
* Encryption container and `onlybackup-recover`: one process over one file and a
  cryptographic library.
* Writer outage notification: a local file that only the maintenance process
  uses and at most one mail a day.
* Command lines, peer credentials, modes and owners: no state that several steps
  share.
* Mail formatting: text.
* Schema migrations: single SQL transactions at start.
* Hash contents: `Verify` is modelled by its verdict, a digest by the content.
* Two writers on one archive: `flock` excludes them before anything is read.

## What is left

Every safety property of the passing runs has a theorem. Liveness stays with
TLC. Further components would be those listed as not modelled above; none of
them shares state between steps of several actors.
