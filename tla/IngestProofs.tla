----------------------------- MODULE IngestProofs -----------------------------
(***************************************************************************)
(* Proofs about the deposit path, for every number of identifiers,         *)
(* handlers, keys, contents, slots and failures.                           *)
(*                                                                         *)
(* None of the safety properties is inductive alone: that a published file *)
(* is complete and durable depends on which step every handler has         *)
(* reached, on nobody else holding the same row, and on where Reconcile    *)
(* stands after a crash.  Inductive collects exactly those facts.  What    *)
(* retention has touched (managed) is exempt from the facts about files:   *)
(* its names come and go on their own.                                     *)
(* The limits of a profile are sums over the rows of its key; that no      *)
(* reservation exceeds them needs what a row weighs (Weight) and that      *)
(* every step but a reservation leaves the sum or lowers it (FewerRows).   *)
(***************************************************************************)
EXTENDS Ingest, SetFacts

\* What a handler knows of its row: it is running in a listening process, and
\* from the reservation to its own Fail or Complete the row is "receiving" and
\* bound to its request; a replayed receipt is still to be written for a row that
\* was complete when it was read.
Owning ==
    \A h \in Handlers :
        /\ pc[h] # "idle" => mode = "up" /\ req[h] \in Request
        /\ pc[h] = "answer" =>
              /\ job[h] \in Ids
              /\ status[job[h]] \in Stored
              /\ bound[job[h]] = req[h]
        /\ pc[h] \in Working =>
              /\ job[h] \in Ids
              /\ status[job[h]] = "receiving"
              /\ bound[job[h]] = req[h]

Exclusive ==
    \A g, h \in Handlers :
        g # h /\ pc[g] \in Working /\ pc[h] \in Working => job[g] # job[h]

\* How far the file of a handler is at each step.
Progress ==
    \A h \in Handlers :
        /\ pc[h] \in {"copy", "save", "link"} => job[h] \in part
        /\ pc[h] \in {"save", "link"} => data[job[h]] = "full"
        /\ pc[h] = "link" => synced[job[h]]
        /\ pc[h] \in Reserved \cup {"cleanup", "fail"} => job[h] \notin final
        /\ pc[h] \in Publishing => job[h] \in final
        /\ pc[h] \in Publishing \ {"syncFinal"} => job[h] \in finalDisk

\* What the catalogue says of the files.  The disk never knows a name that is
\* not visible, but for the files retention takes out.
Rows ==
    \A i \in Ids :
        /\ status[i] # "none" => bound[i] \in Request
        /\ status[i] \in {"none", "failed"} => i \notin final
        /\ status[i] = "complete" /\ i \notin managed => i \in finalDisk
        /\ i \in finalDisk /\ i \notin managed => i \in final
        /\ i \in managed => status[i] \in Stored
        /\ status[i] \in Retired => i \in managed
        /\ status[i] \in Stored \/ i \in final => data[i] = "full" /\ synced[i]

\* An idempotency key names at most one row.
OneRow ==
    \A i, j \in Ids :
        /\ i # j /\ status[i] # "none" /\ status[j] # "none"
        /\ bound[i].idem # NoIdem /\ bound[i].idem = bound[j].idem
        => bound[i].key # bound[j].key

\* Where Reconcile stands.
Settling ==
    /\ mode \in {"sync", "settle", "rmtemp"} => cur \in Ids
    /\ mode \in {"sync", "settle"} => status[cur] = "receiving"
    /\ mode = "sync" => cur \in final
    /\ mode = "settle" /\ cur \in final => cur \in finalDisk
    /\ mode = "sweep" => Pending = {}

\* The inductive invariant of the deposit path.
Inductive ==
    /\ TypeOK
    /\ Owning /\ Exclusive /\ Progress /\ Rows /\ OneRow /\ Settling
    /\ ReceiptsHonoured

-----------------------------------------------------------------------------
USE IngestAssumption
USE DEF Retired, Statuses, Reserved, Publishing, Steps, Startup, Modes,
        Contained, Stored, Working, Request,
        catalogue, files, process, handlers, Step, Return, GiveUp

\* An empty archive with a stopped writer satisfies the invariant.
LEMMA InitInductive == Init => Inductive
BY DEF Init, Inductive, TypeOK, Owning, Exclusive, Progress, Rows, OneRow,
       Settling, ReceiptsHonoured


\* A reservation takes a row nobody holds: it is free, or it failed.
LEMMA ReservedRowIsFree ==
    ASSUME Inductive, NEW h \in Handlers, NEW i \in ReservableIds(req[h])
    PROVE  /\ i \in Ids
           /\ status[i] \in {"none", "failed"}
           /\ status[i] = "failed" => bound[i] = req[h]
           /\ i \notin final
           /\ \A g \in Handlers : pc[g] \in Working => job[g] # i
           /\ \A p \in receipts : p[2] # i
BY DEF Inductive, TypeOK, Owning, Rows, ReservableIds, Existing, ReceiptsHonoured

\* The reservation transaction, whether or not its commit is acknowledged.
LEMMA ReserveInductive ==
    ASSUME Inductive, NEW h \in Handlers, NEW i \in Ids,
           NEW acked \in BOOLEAN, Reserve(h, i, acked)
    PROVE  Inductive'
<1> DEFINE r == req[h]
<1>1. /\ r \in Request /\ mode = "up" /\ i \in ReservableIds(r)
      /\ pc[h] = "reserve"
  BY DEF Inductive, Owning, Reserve
<1>2. /\ status[i] \in {"none", "failed"} /\ i \notin final
      /\ \A g \in Handlers : pc[g] \in Working => job[g] # i
      /\ \A p \in receipts : p[2] # i
  BY <1>1, ReservedRowIsFree
<1>3. TypeOK'
  BY <1>1 DEF Inductive, TypeOK, Reserve
<1>4. Owning' /\ Exclusive'
  BY <1>1, <1>2 DEF Inductive, TypeOK, Owning, Exclusive, Reserve
<1>5. Progress' /\ Rows'
  BY <1>1, <1>2 DEF Inductive, TypeOK, Owning, Progress, Rows, Reserve
<1>6. OneRow'
  \* A fresh identifier is taken only when no row carries the idempotency key.
  BY <1>1, <1>2 DEF Inductive, TypeOK, OneRow, Rows, Reserve, ReservableIds,
                    Existing
<1>7. Settling' /\ ReceiptsHonoured'
  BY <1>1, <1>2 DEF Inductive, TypeOK, Settling, ReceiptsHonoured, Reserve
<1>8. QED
  BY <1>3, <1>4, <1>5, <1>6, <1>7 DEF Inductive

\* The deferred Store.Fail marks only a row that its own transfer never
\* published.
LEMMA FailInductive ==
    ASSUME Inductive, NEW h \in Handlers, NEW committed \in BOOLEAN,
           Fail(h, committed)
    PROVE  Inductive'
<1>1. /\ job[h] \in Ids /\ status[job[h]] = "receiving"
      /\ job[h] \notin final /\ mode = "up"
  BY DEF Inductive, Owning, Progress, Fail
<1>2. CASE committed
  <2>1. TypeOK'
    BY <1>1, <1>2 DEF Inductive, TypeOK, Fail, FailRow
  <2>2. Owning' /\ Exclusive' /\ Progress'
    BY <1>1, <1>2 DEF Inductive, TypeOK, Owning, Exclusive, Progress, Fail,
                      FailRow
  <2>3. Rows' /\ OneRow'
    BY <1>1, <1>2 DEF Inductive, TypeOK, Rows, OneRow, Fail, FailRow
  <2>4. Settling' /\ ReceiptsHonoured'
    BY <1>1, <1>2 DEF Inductive, TypeOK, Settling, ReceiptsHonoured, Fail,
                      FailRow
  <2>5. QED
    BY <2>1, <2>2, <2>3, <2>4 DEF Inductive
<1>3. CASE ~committed
  BY <1>3 DEF Inductive, TypeOK, Owning, Exclusive, Progress, Rows, OneRow,
         Settling, Pending, ReceiptsHonoured, Fail
<1>4. QED
  BY <1>2, <1>3

\* Taking a slot, refusing and replaying change no row and no file.
LEMMA AdmissionInductive ==
    ASSUME Inductive, NEW h \in Handlers,
           \/ \E r \in Request : TakeSlot(h, r)
           \/ Refuse(h)
           \/ \E i \in Ids : Replay(h, i)
           \/ Answer(h)
    PROVE  Inductive'
<1>1. CASE \E r \in Request : TakeSlot(h, r)
  BY <1>1 DEF Inductive, TypeOK, Owning, Exclusive, Progress, Rows, OneRow,
         Settling, Pending, ReceiptsHonoured, TakeSlot
<1>2. CASE Refuse(h)
  BY <1>2 DEF Inductive, TypeOK, Owning, Exclusive, Progress, Rows, OneRow,
         Settling, Pending, ReceiptsHonoured, Refuse
<1>3. CASE \E i \in Ids : Replay(h, i)
  BY <1>3 DEF Inductive, TypeOK, Owning, Exclusive, Progress, Rows, OneRow,
         Settling, Pending, ReceiptsHonoured, Replay, Existing
<1>4. CASE Answer(h)
  BY <1>4 DEF Inductive, TypeOK, Owning, Exclusive, Progress, Rows, OneRow,
         Settling, Pending, ReceiptsHonoured, Answer
<1>5. QED
  BY <1>1, <1>2, <1>3, <1>4

\* The staging file: nobody else has the row, so nobody else has the file.
LEMMA TransferInductive ==
    ASSUME Inductive, NEW h \in Handlers,
           \/ Create(h)
           \/ Copy(h)
           \/ Save(h)
           \/ Interrupt(h)
           \/ \E removed \in BOOLEAN : Cleanup(h, removed)
    PROVE  Inductive'
<1>1. CASE Create(h)
  <2>1. TypeOK' /\ Settling'
    BY <1>1 DEF Inductive, TypeOK, Owning, Rows, Settling, Pending, Create
  <2>2. Owning' /\ Exclusive'
    BY <1>1 DEF Inductive, TypeOK, Owning, Exclusive, Settling, Create
  <2>3. Progress'
    BY <1>1 DEF Inductive, TypeOK, Owning, Exclusive, Progress, Rows, Create
  <2>4. Rows'
    BY <1>1 DEF Inductive, TypeOK, Owning, Progress, Rows, Settling, Create
  <2>5. OneRow' /\ ReceiptsHonoured'
    BY <1>1 DEF Inductive, TypeOK, Owning, Rows, OneRow, Settling,
          ReceiptsHonoured, Create
  <2>6. QED
    BY <2>1, <2>2, <2>3, <2>4, <2>5 DEF Inductive
<1>2. CASE Copy(h)
  BY <1>2 DEF Inductive, TypeOK, Owning, Exclusive, Progress, Rows, OneRow,
         Settling, Pending, ReceiptsHonoured, Copy
<1>3. CASE Save(h)
  BY <1>3 DEF Inductive, TypeOK, Owning, Exclusive, Progress, Rows, OneRow,
         Settling, Pending, ReceiptsHonoured, Save
<1>4. CASE Interrupt(h)
  BY <1>4 DEF Inductive, TypeOK, Owning, Exclusive, Progress, Rows, OneRow,
         Settling, Pending, ReceiptsHonoured, Interrupt
<1>5. CASE \E removed \in BOOLEAN : Cleanup(h, removed)
  <2>1. TypeOK' /\ Settling'
    BY <1>5 DEF Inductive, TypeOK, Owning, Rows, Settling, Pending, Cleanup, Named
  <2>2. Owning' /\ Exclusive'
    BY <1>5 DEF Inductive, TypeOK, Owning, Exclusive, Settling, Cleanup, Named
  <2>3. Progress'
    BY <1>5 DEF Inductive, TypeOK, Owning, Exclusive, Progress, Rows, Cleanup,
          Named
  <2>4. Rows'
    BY <1>5 DEF Inductive, TypeOK, Owning, Progress, Rows, Settling, Cleanup,
          Named
  <2>5. OneRow' /\ ReceiptsHonoured'
    BY <1>5 DEF Inductive, TypeOK, Owning, Rows, OneRow, Settling,
          ReceiptsHonoured, Cleanup, Named
  <2>6. QED
    BY <2>1, <2>2, <2>3, <2>4, <2>5 DEF Inductive
<1>6. QED
  BY <1>1, <1>2, <1>3, <1>4, <1>5

\* From the hard link to the receipt.
LEMMA PublicationInductive ==
    ASSUME Inductive, NEW h \in Handlers,
           \/ Link(h)
           \/ SyncFinal(h)
           \/ Unlink(h)
           \/ SyncIncoming(h)
           \/ \E acked \in BOOLEAN : Complete(h, acked)
           \/ Unconfirmed(h)
           \/ Release(h)
    PROVE  Inductive'
<1>1. CASE Link(h)
  <2>1. TypeOK' /\ Settling'
    BY <1>1 DEF Inductive, TypeOK, Owning, Rows, Settling, Pending, Link
  <2>2. Owning' /\ Exclusive'
    BY <1>1 DEF Inductive, TypeOK, Owning, Exclusive, Settling, Link
  <2>3. Progress'
    BY <1>1 DEF Inductive, TypeOK, Owning, Exclusive, Progress, Rows, Link
  <2>4. Rows'
    BY <1>1 DEF Inductive, TypeOK, Owning, Progress, Rows, Settling, Link
  <2>5. OneRow' /\ ReceiptsHonoured'
    BY <1>1 DEF Inductive, TypeOK, Owning, Rows, OneRow, Settling,
          ReceiptsHonoured, Link
  <2>6. QED
    BY <2>1, <2>2, <2>3, <2>4, <2>5 DEF Inductive
<1>2. CASE SyncFinal(h)
  BY <1>2 DEF Inductive, TypeOK, Owning, Exclusive, Progress, Rows, OneRow,
         Settling, Pending, ReceiptsHonoured, SyncFinal
<1>3. CASE Unlink(h)
  BY <1>3 DEF Inductive, TypeOK, Owning, Exclusive, Progress, Rows, OneRow,
         Settling, Pending, ReceiptsHonoured, Unlink
<1>4. CASE SyncIncoming(h)
  BY <1>4 DEF Inductive, TypeOK, Owning, Exclusive, Progress, Rows, OneRow,
         Settling, Pending, ReceiptsHonoured, SyncIncoming
<1>5. CASE \E acked \in BOOLEAN : Complete(h, acked)
  <2>1. TypeOK' /\ Settling'
    BY <1>5 DEF Inductive, TypeOK, Owning, Rows, Settling, Pending, Complete,
          CompleteRow
  <2>2. Owning' /\ Exclusive'
    BY <1>5 DEF Inductive, TypeOK, Owning, Exclusive, Settling, Complete,
          CompleteRow
  <2>3. Progress'
    BY <1>5 DEF Inductive, TypeOK, Owning, Exclusive, Progress, Rows, Complete,
          CompleteRow
  <2>4. Rows'
    BY <1>5 DEF Inductive, TypeOK, Owning, Progress, Rows, Settling, Complete,
          CompleteRow
  <2>5. OneRow' /\ ReceiptsHonoured'
    BY <1>5 DEF Inductive, TypeOK, Owning, Rows, OneRow, Settling,
          ReceiptsHonoured, Complete, CompleteRow
  <2>6. QED
    BY <2>1, <2>2, <2>3, <2>4, <2>5 DEF Inductive
<1>6. CASE Unconfirmed(h)
  BY <1>6 DEF Inductive, TypeOK, Owning, Exclusive, Progress, Rows, OneRow,
         Settling, Pending, ReceiptsHonoured, Unconfirmed
<1>7. CASE Release(h)
  BY <1>7 DEF Inductive, TypeOK, Owning, Exclusive, Progress, Rows, OneRow,
         Settling, Pending, ReceiptsHonoured, Release
<1>8. QED
  BY <1>1, <1>2, <1>3, <1>4, <1>5, <1>6, <1>7

\* Retention moves only rows that no handler and no Reconcile step holds, and
\* only the files of those rows.
LEMMA EnvironmentInductive ==
    ASSUME Inductive,
           \/ \E k \in Keys : ExpireAttempt(k)
           \/ \E k \in Keys : RevokeKey(k)
           \/ \E p \in Profiles : \E l \in Limits[p] : PutProfile(p, l)
           \/ \E k \in Keys, p \in Profiles : Assign(k, p)
           \/ \E i \in Ids, to \in Statuses : Retain(i, to)
           \/ \E i \in Ids : Move(i)
           \/ SyncMoves
    PROVE  Inductive'
<1>1. CASE \E k \in Keys : ExpireAttempt(k)
  BY <1>1 DEF Inductive, TypeOK, Owning, Exclusive, Progress, Rows, OneRow,
         Settling, Pending, ReceiptsHonoured, ExpireAttempt
<1>2. CASE \E k \in Keys : RevokeKey(k)
  BY <1>2 DEF Inductive, TypeOK, Owning, Exclusive, Progress, Rows, OneRow,
         Settling, Pending, ReceiptsHonoured, RevokeKey
<1>3. CASE \E i \in Ids, to \in Statuses : Retain(i, to)
  <2>1. TypeOK' /\ Settling'
    BY <1>3 DEF Inductive, TypeOK, Owning, Rows, Settling, Pending, Retain,
          RetentionMoves
  <2>2. Owning' /\ Exclusive'
    BY <1>3 DEF Inductive, TypeOK, Owning, Exclusive, Settling, Retain,
          RetentionMoves
  <2>3. Progress'
    BY <1>3 DEF Inductive, TypeOK, Owning, Exclusive, Progress, Rows, Retain,
          RetentionMoves
  <2>4. Rows'
    BY <1>3 DEF Inductive, TypeOK, Owning, Progress, Rows, Settling, Retain,
          RetentionMoves
  <2>5. OneRow' /\ ReceiptsHonoured'
    BY <1>3 DEF Inductive, TypeOK, Owning, Rows, OneRow, Settling,
          ReceiptsHonoured, Retain, RetentionMoves
  <2>6. QED
    BY <2>1, <2>2, <2>3, <2>4, <2>5 DEF Inductive
<1>4. CASE \E p \in Profiles : \E l \in Limits[p] : PutProfile(p, l)
  BY <1>4 DEF Inductive, TypeOK, Owning, Exclusive, Progress, Rows, OneRow,
         Settling, Pending, ReceiptsHonoured, PutProfile
<1>5. CASE \E k \in Keys, p \in Profiles : Assign(k, p)
  BY <1>5 DEF Inductive, TypeOK, Owning, Exclusive, Progress, Rows, OneRow,
         Settling, Pending, ReceiptsHonoured, Assign
<1>6. CASE \E i \in Ids : Move(i)
  BY <1>6 DEF Inductive, TypeOK, Owning, Exclusive, Progress, Rows, OneRow,
         Settling, Pending, ReceiptsHonoured, Move
<1>7. CASE SyncMoves
  BY <1>7 DEF Inductive, TypeOK, Owning, Exclusive, Progress, Rows, OneRow,
         Settling, Pending, ReceiptsHonoured, SyncMoves
<1>8. QED
  BY <1>1, <1>2, <1>3, <1>4, <1>5, <1>6, <1>7

\* A stop forgets the handlers; a power loss undoes only what was not
\* synchronised, and every published file was.
LEMMA FailureInductive ==
    ASSUME Inductive,
           \/ Crash
           \/ PowerLoss
    PROVE  Inductive'
<1>1. CASE Crash
  BY <1>1 DEF Inductive, TypeOK, Owning, Exclusive, Progress, Rows, OneRow,
         Settling, Pending, ReceiptsHonoured, Crash, Stopped
<1>2. CASE PowerLoss
  <2>1. TypeOK' /\ Settling'
    BY <1>2 DEF Inductive, TypeOK, Owning, Rows, Settling, Pending, PowerLoss,
          Stopped
  <2>2. Owning' /\ Exclusive'
    BY <1>2 DEF Inductive, TypeOK, Owning, Exclusive, Settling, PowerLoss, Stopped
  <2>3. Progress'
    BY <1>2 DEF Inductive, TypeOK, Owning, Exclusive, Progress, Rows, PowerLoss,
          Stopped
  <2>4. Rows'
    BY <1>2 DEF Inductive, TypeOK, Owning, Progress, Rows, Settling, PowerLoss,
          Stopped
  <2>5. OneRow' /\ ReceiptsHonoured'
    BY <1>2 DEF Inductive, TypeOK, Owning, Rows, OneRow, Settling,
          ReceiptsHonoured, PowerLoss, Stopped
  <2>6. QED
    BY <2>1, <2>2, <2>3, <2>4, <2>5 DEF Inductive
<1>3. QED
  BY <1>1, <1>2

\* Reconcile decides each pending row by the file that is really there.
LEMMA StartupInductive ==
    ASSUME Inductive,
           \/ Start
           \/ \E i \in Ids : ReconcileRow(i)
           \/ ReconcileSync
           \/ ReconcileSettle
           \/ ReconcileRemoveTemp
           \/ BeginSweep
           \/ \E i \in Ids : SweepOne(i)
           \/ Listen
    PROVE  Inductive'
<1>1. CASE Start
  BY <1>1 DEF Inductive, TypeOK, Owning, Exclusive, Progress, Rows, OneRow,
         Settling, Pending, ReceiptsHonoured, Start
<1>2. CASE \E i \in Ids : ReconcileRow(i)
  BY <1>2 DEF Inductive, TypeOK, Owning, Exclusive, Progress, Rows, OneRow,
         Settling, Pending, ReceiptsHonoured, ReconcileRow
<1>3. CASE ReconcileSync
  BY <1>3 DEF Inductive, TypeOK, Owning, Exclusive, Progress, Rows, OneRow,
         Settling, Pending, ReceiptsHonoured, ReconcileSync
<1>4. CASE ReconcileSettle
  <2>1. TypeOK' /\ Settling'
    BY <1>4 DEF Inductive, TypeOK, Owning, Rows, Settling, Pending,
          ReconcileSettle, CompleteRow, FailRow
  <2>2. Owning' /\ Exclusive'
    BY <1>4 DEF Inductive, TypeOK, Owning, Exclusive, Settling, ReconcileSettle,
          CompleteRow, FailRow
  <2>3. Progress'
    BY <1>4 DEF Inductive, TypeOK, Owning, Exclusive, Progress, Rows,
          ReconcileSettle, CompleteRow, FailRow
  <2>4. Rows'
    BY <1>4 DEF Inductive, TypeOK, Owning, Progress, Rows, Settling,
          ReconcileSettle, CompleteRow, FailRow
  <2>5. OneRow' /\ ReceiptsHonoured'
    BY <1>4 DEF Inductive, TypeOK, Owning, Rows, OneRow, Settling,
          ReceiptsHonoured, ReconcileSettle, CompleteRow, FailRow
  <2>6. QED
    BY <2>1, <2>2, <2>3, <2>4, <2>5 DEF Inductive
<1>5. CASE ReconcileRemoveTemp
  BY <1>5 DEF Inductive, TypeOK, Owning, Exclusive, Progress, Rows, OneRow,
         Settling, Pending, ReceiptsHonoured, ReconcileRemoveTemp
<1>6. CASE BeginSweep
  BY <1>6 DEF Inductive, TypeOK, Owning, Exclusive, Progress, Rows, OneRow,
         Settling, Pending, ReceiptsHonoured, BeginSweep
<1>7. CASE \E i \in Ids : SweepOne(i)
  BY <1>7 DEF Inductive, TypeOK, Owning, Exclusive, Progress, Rows, OneRow,
         Settling, Pending, ReceiptsHonoured, SweepOne
<1>8. CASE Listen
  BY <1>8 DEF Inductive, TypeOK, Owning, Exclusive, Progress, Rows, OneRow,
         Settling, Pending, ReceiptsHonoured, Listen
<1>9. QED
  BY <1>1, <1>2, <1>3, <1>4, <1>5, <1>6, <1>7, <1>8

\* Every step preserves the invariant.
LEMMA NextInductive == Inductive /\ [Next]_vars => Inductive'
<1> SUFFICES ASSUME Inductive, [Next]_vars PROVE Inductive'
  OBVIOUS
<1>1. ASSUME NEW h \in Handlers, NEW r \in Offered, TakeSlot(h, r)
      PROVE  Inductive'
  BY <1>1, AdmissionInductive
<1>2. ASSUME NEW h \in Handlers, HandlerStep(h)
      PROVE  Inductive'
  <2>1. CASE \E i \in Ids, acked \in BOOLEAN : Reserve(h, i, acked)
    BY <2>1, ReserveInductive
  <2>2. CASE Refuse(h) \/ Answer(h) \/ \E i \in Ids : Replay(h, i)
    BY <2>2, AdmissionInductive
  <2>3. CASE \/ Create(h) \/ Copy(h) \/ Save(h) \/ Interrupt(h)
             \/ \E removed \in BOOLEAN : Cleanup(h, removed)
    BY <2>3, TransferInductive
  <2>4. CASE \E committed \in BOOLEAN : Fail(h, committed)
    BY <2>4, FailInductive
  <2>5. CASE \/ Link(h) \/ SyncFinal(h) \/ Unlink(h) \/ SyncIncoming(h)
             \/ \E acked \in BOOLEAN : Complete(h, acked)
             \/ Unconfirmed(h) \/ Release(h)
    BY <2>5, PublicationInductive
  <2>6. QED
    BY <1>2, <2>1, <2>2, <2>3, <2>4, <2>5 DEF HandlerStep
<1>3. CASE Reconcile
  BY <1>3, StartupInductive DEF Reconcile
<1>4. CASE Environment
  BY <1>4, EnvironmentInductive DEF Environment
<1>5. CASE Crash \/ PowerLoss
  BY <1>5, FailureInductive
<1>6. CASE UNCHANGED vars
  BY <1>6 DEF Inductive, TypeOK, Owning, Exclusive, Progress, Rows, OneRow,
         Settling, Pending, ReceiptsHonoured, vars
<1>7. QED
  BY <1>1, <1>2, <1>3, <1>4, <1>5, <1>6 DEF Next

\* The facts collected in Inductive hold in every reachable state.
THEOREM InductiveInvariant == Spec => []Inductive
BY InitInductive, NextInductive, PTL DEF Spec

-----------------------------------------------------------------------------
(* The results.                                                            *)

\* The catalogue, the files, the process and the handlers keep their types
\* whatever the interleaving and the failures.
THEOREM TypeCorrect == Spec => []TypeOK
<1>1. Inductive => TypeOK
  BY DEF Inductive
<1>2. QED
  BY <1>1, InductiveInvariant, PTL

\* Every complete row that retention has never touched has its verified file on
\* the disk.
THEOREM StoredIsDurable == Spec => []StoredDurable
<1>1. Inductive => StoredDurable
  BY DEF Inductive, TypeOK, Rows, StoredDurable, Durable
<1>2. QED
  BY <1>1, InductiveInvariant, PTL

\* A 201 receipt is kept: its identifier stays bound to that request and the
\* row never leaves the stored states.
THEOREM ReceiptsAreHonoured == Spec => []ReceiptsHonoured
<1>1. Inductive => ReceiptsHonoured
  BY DEF Inductive
<1>2. QED
  BY <1>1, InductiveInvariant, PTL

\* All receipts of one client operation name one backup.
THEOREM ReceiptsAreIdempotent == Spec => []IdempotentReceipts
<1>1. ASSUME Inductive, NEW p \in receipts, NEW q \in receipts,
             p[1].idem # NoIdem, p[1].key = q[1].key, p[1].idem = q[1].idem
      PROVE  p = q
  <2>1. /\ p[2] \in Ids /\ q[2] \in Ids
        /\ p = <<p[1], p[2]>> /\ q = <<q[1], q[2]>>
    BY <1>1 DEF Inductive, TypeOK
  <2>2. /\ bound[p[2]] = p[1] /\ bound[q[2]] = q[1]
        /\ status[p[2]] # "none" /\ status[q[2]] # "none"
    BY <1>1 DEF Inductive, ReceiptsHonoured
  <2>3. p[2] = q[2]
    BY <1>1, <2>1, <2>2 DEF Inductive, OneRow
  <2>4. QED
    BY <2>1, <2>2, <2>3
<1>2. Inductive => IdempotentReceipts
  BY <1>1 DEF IdempotentReceipts
<1>3. QED
  BY <1>2, InductiveInvariant, PTL

\* A transfer owns its identifier and its staging file.
THEOREM StagingIsExclusive == Spec => []StagingExclusive
<1>1. Inductive => StagingExclusive
  BY DEF Inductive, Owning, Exclusive, Progress, StagingExclusive
<1>2. QED
  BY <1>1, InductiveInvariant, PTL

\* No crash and no power loss leaves files with which Reconcile refuses to
\* start the writer.
THEOREM RestartIsNeverRefused == Spec => []RestartNeverRefused
<1>1. Inductive => RestartNeverRefused
  BY DEF Inductive, TypeOK, Rows, Pending, RestartNeverRefused
<1>2. QED
  BY <1>1, InductiveInvariant, PTL

\* A failed row has no published file.
THEOREM FailedIsUnpublished == Spec => []FailedUnpublished
<1>1. Inductive => FailedUnpublished
  BY DEF Inductive, Rows, FailedUnpublished
<1>2. QED
  BY <1>1, InductiveInvariant, PTL

\* Once a deposit is stored no handler, no retry and no restart takes it back.
THEOREM StoredIsForever == Spec => StoredForever
<1> DEFINE Keeps == \A i \in Ids : status[i] \in Stored => status'[i] \in Stored
<1>1. Inductive /\ [Next]_vars => Keeps
  <2> SUFFICES ASSUME Inductive, [Next]_vars, NEW i \in Ids,
                      status[i] \in Stored
               PROVE  status'[i] \in Stored
    OBVIOUS
  <2>1. ASSUME NEW h \in Handlers, HandlerStep(h)
        PROVE  status'[i] \in Stored
    <3>1. CASE \E j \in Ids, acked \in BOOLEAN : Reserve(h, j, acked)
      BY <3>1, ReservedRowIsFree DEF Inductive, TypeOK, Reserve
    <3>2. CASE \/ \E committed \in BOOLEAN : Fail(h, committed)
               \/ \E acked \in BOOLEAN : Complete(h, acked)
      BY <3>2 DEF Inductive, TypeOK, Owning, Fail, FailRow, Complete,
                  CompleteRow
    <3>3. CASE UNCHANGED status
      BY <3>3
    <3>4. QED
      BY <2>1, <3>1, <3>2, <3>3
         DEF HandlerStep, Refuse, Replay, Answer, Create, Copy, Save, Link, Interrupt,
             Cleanup, SyncFinal, Unlink, SyncIncoming, Unconfirmed, Release
  <2>2. CASE Reconcile
    BY <2>2 DEF Inductive, TypeOK, Settling, Reconcile, Start, ReconcileRow,
                ReconcileSync, ReconcileSettle, CompleteRow, FailRow,
                ReconcileRemoveTemp, BeginSweep, SweepOne, Listen
  <2>3. CASE Environment
    BY <2>3 DEF Inductive, TypeOK, Environment, ExpireAttempt, RevokeKey,
                PutProfile, Assign, Retain, RetentionMoves, Move, SyncMoves
  <2>4. QED
    BY <2>1, <2>2, <2>3 DEF Next, TakeSlot, Crash, PowerLoss, Stopped, vars
<1>2. Keeps => [\A i \in Ids : status[i] \in Stored => status'[i] \in Stored]_vars
  OBVIOUS
<1>3. QED
  BY <1>1, <1>2, InductiveInvariant, PTL DEF Spec, StoredForever

\* When the writer listens, nothing of an earlier process is left over.
THEOREM StartIsClean == Spec => CleanStart
<1> DEFINE Clean == mode # "up" /\ mode' = "up"
                      => Pending' = {} /\ part' = {} /\ partDisk' = {}
<1>1. Inductive /\ [Next]_vars => Clean
  <2> SUFFICES ASSUME Inductive, [Next]_vars, mode # "up", mode' = "up"
               PROVE  Pending' = {} /\ part' = {} /\ partDisk' = {}
    OBVIOUS
  <2>1. Listen
    BY ZenonT(40) DEF Inductive, Owning, Next, TakeSlot, HandlerStep, Reserve,
           Refuse, Replay, Answer, Create, Copy, Save, Link, Interrupt, Cleanup, Fail,
           SyncFinal, Unlink, SyncIncoming, Complete, Unconfirmed, Release,
           Reconcile, Start, ReconcileRow, ReconcileSync, ReconcileSettle,
           ReconcileRemoveTemp, BeginSweep, SweepOne, Environment,
           ExpireAttempt, RevokeKey, PutProfile, Assign, Retain, Move,
           SyncMoves, Crash, PowerLoss, Stopped, vars
  <2>2. QED
    BY <2>1 DEF Inductive, Settling, Listen, Pending
<1>2. Clean => [mode # "up" /\ mode' = "up"
                  => Pending' = {} /\ part' = {} /\ partDisk' = {}]_vars
  OBVIOUS
<1>3. QED
  BY <1>1, <1>2, InductiveInvariant, PTL DEF Spec, CleanStart

-----------------------------------------------------------------------------
(* The deposit path implements the abstract service.                       *)

\* A complete row has its durable file until retention takes it over, so the
\* abstract phase of an identifier is a function of its status.
PhaseOf(s) ==
    CASE s = "none"      -> "free"
      [] s = "receiving" -> "offered"
      [] s = "failed"    -> "refused"
      [] s = "complete"  -> "stored"
      [] OTHER           -> "retired"

phases == [i \in Ids |-> AbstractPhase(i)]

\* The refinement mapping under the invariant.
LEMMA PhaseIsStatus ==
    ASSUME Inductive
    PROVE  \A i \in Ids : phases[i] = PhaseOf(status[i])
BY DEF Inductive, TypeOK, Rows, phases, AbstractPhase, PhaseOf, Durable

\* A step that changes the status of one row changes the phase of one
\* identifier.
LEMMA PhaseStep ==
    ASSUME Inductive, Inductive', NEW i \in Ids, NEW s \in Statuses,
           status' = [status EXCEPT ![i] = s]
    PROVE  phases' = [phases EXCEPT ![i] = PhaseOf(s)]
<1>1. \A j \in Ids : phases[j] = PhaseOf(status[j])
  BY PhaseIsStatus
<1>2. \A j \in Ids : phases'[j] = PhaseOf(status'[j])
  BY DEF Inductive, TypeOK, Rows, phases, AbstractPhase, PhaseOf, Durable
<1>3. \A j \in Ids : status'[j] = IF j = i THEN s ELSE status[j]
  BY DEF Inductive, TypeOK
<1>4. \A j \in Ids : phases'[j] = IF j = i THEN PhaseOf(s) ELSE phases[j]
  BY <1>1, <1>2, <1>3
<1>5. QED
  BY <1>4 DEF phases

\* A step that changes no status is invisible in the phases.
LEMMA PhaseStutter ==
    ASSUME Inductive, Inductive', UNCHANGED status
    PROVE  UNCHANGED phases
<1>1. \A j \in Ids : phases'[j] = PhaseOf(status'[j])
  BY DEF Inductive, TypeOK, Rows, phases, AbstractPhase, PhaseOf, Durable
<1>2. \A j \in Ids : phases[j] = PhaseOf(status[j])
  BY PhaseIsStatus
<1>3. \A j \in Ids : phases'[j] = phases[j]
  BY <1>1, <1>2
<1>4. QED
  BY <1>3 DEF phases

\* Initial states map to initial states, and every step to a step of Deposit
\* or to a stutter.
THEOREM DepositImplemented == Spec => ImplementsDeposit
<1>1. Init => Abstract!Init
  BY DEF Init, Abstract!Init, AbstractPhase
<1>2. Inductive /\ Inductive' /\ [Next]_vars => [Abstract!Next]_(Abstract!vars)
  <2> SUFFICES ASSUME Inductive, Inductive', [Next]_vars
               PROVE  \/ Abstract!Next
                      \/ UNCHANGED <<phases, bound, receipts>>
    BY DEF Abstract!vars, phases
  <2>0. \A i \in Ids : phases[i] = PhaseOf(status[i])
    BY PhaseIsStatus
  <2>1. ASSUME NEW h \in Handlers, NEW i \in Ids, NEW acked \in BOOLEAN,
               Reserve(h, i, acked)
        PROVE  Abstract!Offer(i, req[h])
    <3>1. /\ i \in ReservableIds(req[h]) /\ req[h] \in Request
          /\ status' = [status EXCEPT ![i] = "receiving"]
          /\ bound' = [bound EXCEPT ![i] = req[h]]
          /\ receipts' = receipts
      BY <2>1 DEF Inductive, Owning, Reserve
    <3>2. phases' = [phases EXCEPT ![i] = "offered"]
      BY <3>1, PhaseStep DEF PhaseOf
    <3>3. \/ /\ phases[i] = "free"
             /\ \A j \in Ids : phases[j] # "free" =>
                    ~Abstract!SameDeposit(req[h], bound[j])
          \/ phases[i] = "refused" /\ bound[i] = req[h]
      BY <2>0, <3>1 DEF Inductive, TypeOK, ReservableIds, Existing, PhaseOf,
                        Abstract!SameDeposit
    <3>4. QED
      BY <3>1, <3>2, <3>3 DEF Abstract!Offer, phases
  <2>2. ASSUME NEW h \in Handlers, Answer(h)
        PROVE  job[h] \in Ids /\ Abstract!Acknowledge(job[h])
    <3>1. /\ job[h] \in Ids /\ status[job[h]] \in Stored
          /\ bound[job[h]] = req[h]
      BY <2>2 DEF Answer, Inductive, Owning
    <3>2. phases[job[h]] \in {"stored", "retired"} /\ UNCHANGED phases
      BY <2>0, <2>2, <3>1, PhaseStutter DEF Answer, PhaseOf
    <3>3. QED
      BY <2>2, <3>1, <3>2 DEF Answer, Abstract!Acknowledge, phases
  <2>3. ASSUME NEW h \in Handlers, NEW committed \in BOOLEAN,
               Fail(h, committed)
        PROVE  \/ Abstract!Decline(job[h])
               \/ UNCHANGED <<phases, bound, receipts>>
    <3>1. job[h] \in Ids /\ phases[job[h]] = "offered"
      BY <2>0, <2>3 DEF Inductive, Owning, Fail, PhaseOf
    <3>2. CASE status' = [status EXCEPT ![job[h]] = "failed"]
      <4>1. phases' = [phases EXCEPT ![job[h]] = "refused"]
        BY <3>1, <3>2, PhaseStep DEF PhaseOf
      <4>2. QED
        BY <2>3, <3>1, <4>1 DEF Fail, FailRow, Abstract!Decline, phases
    <3>3. CASE UNCHANGED <<status, bound>>
      BY <2>3, <3>3, PhaseStutter DEF Fail
    <3>4. QED
      BY <2>3, <3>2, <3>3 DEF Fail, FailRow
  <2>4. ASSUME NEW h \in Handlers, NEW acked \in BOOLEAN, Complete(h, acked)
        PROVE  Abstract!Store(job[h], acked)
    <3>1. /\ job[h] \in Ids /\ phases[job[h]] = "offered"
          /\ bound[job[h]] = req[h]
      BY <2>0, <2>4 DEF Inductive, Owning, Complete, PhaseOf
    <3>2. phases' = [phases EXCEPT ![job[h]] = "stored"]
      BY <2>4, <3>1, PhaseStep DEF Complete, CompleteRow, PhaseOf
    <3>3. QED
      BY <2>4, <3>1, <3>2 DEF Complete, CompleteRow, Abstract!Store, phases
  <2>5. ASSUME ReconcileSettle
        PROVE  Abstract!Decline(cur) \/ Abstract!Store(cur, FALSE)
    <3>1. cur \in Ids /\ phases[cur] = "offered"
      BY <2>0, <2>5 DEF Inductive, Settling, ReconcileSettle, PhaseOf
    <3>2. CASE cur \in final
      <4>1. phases' = [phases EXCEPT ![cur] = "stored"]
        BY <2>5, <3>1, <3>2, PhaseStep DEF ReconcileSettle, CompleteRow, PhaseOf
      <4>2. QED
        BY <2>5, <3>1, <3>2, <4>1
           DEF ReconcileSettle, CompleteRow, Abstract!Store, phases
    <3>3. CASE cur \notin final
      <4>1. phases' = [phases EXCEPT ![cur] = "refused"]
        BY <2>5, <3>1, <3>3, PhaseStep DEF ReconcileSettle, FailRow, PhaseOf
      <4>2. QED
        BY <2>5, <3>1, <3>3, <4>1
           DEF ReconcileSettle, FailRow, Abstract!Decline, phases
    <3>4. QED
      BY <3>2, <3>3
  <2>6. ASSUME NEW i \in Ids, NEW to \in Statuses, Retain(i, to)
        PROVE  \/ Abstract!Retire(i) \/ Abstract!Restore(i)
               \/ UNCHANGED <<phases, bound, receipts>>
    <3>1. phases' = [phases EXCEPT ![i] = PhaseOf(to)]
      BY <2>6, PhaseStep DEF Retain
    <3>2. \/ phases[i] = "stored" /\ PhaseOf(to) = "retired"
          \/ phases[i] = "retired" /\ PhaseOf(to) \in {"stored", "retired"}
      BY <2>0, <2>6 DEF Retain, RetentionMoves, PhaseOf
    <3>3. QED
      BY <2>6, <3>1, <3>2 DEF Retain, Abstract!Retire, Abstract!Restore, phases
  <2>7. CASE UNCHANGED <<status, bound, receipts>>
    BY <2>7, PhaseStutter
  <2>8. ASSUME NEW h \in Handlers, HandlerStep(h)
        PROVE  \/ Abstract!Next
               \/ UNCHANGED <<phases, bound, receipts>>
    <3>1. CASE \E i \in Ids, acked \in BOOLEAN : Reserve(h, i, acked)
      <4>1. req[h] \in Abstract!Request
        BY <3>1 DEF Inductive, Owning, Reserve, Abstract!Request
      <4>2. QED
        BY <2>1, <3>1, <4>1 DEF Abstract!Next
    <3>2. CASE Answer(h)
      BY <2>2, <3>2 DEF Abstract!Next
    <3>3. CASE \/ \E committed \in BOOLEAN : Fail(h, committed)
               \/ \E acked \in BOOLEAN : Complete(h, acked)
      <4>1. job[h] \in Ids
        BY <3>3 DEF Inductive, Owning, Fail, Complete
      <4>2. QED
        BY <2>3, <2>4, <3>3, <4>1 DEF Abstract!Next
    <3>4. QED
      BY <2>7, <2>8, <3>1, <3>2, <3>3
         DEF HandlerStep, Refuse, Replay, Create, Copy, Save, Link, Interrupt,
             Cleanup, SyncFinal, Unlink, SyncIncoming, Unconfirmed, Release
  <2>9. CASE Reconcile
    <3>1. CASE ReconcileSettle
      <4>1. cur \in Ids
        BY <3>1 DEF Inductive, Settling, ReconcileSettle
      <4>2. QED
        BY <2>5, <3>1, <4>1 DEF Abstract!Next
    <3>2. QED
      BY <2>7, <2>9, <3>1
         DEF Reconcile, Start, ReconcileRow, ReconcileSync,
             ReconcileRemoveTemp, BeginSweep, SweepOne, Listen
  <2>10. CASE Environment
    BY <2>6, <2>7, <2>10
       DEF Environment, ExpireAttempt, RevokeKey, PutProfile, Assign, Move,
           SyncMoves, Abstract!Next
  <2>11. QED
    BY <2>7, <2>8, <2>9, <2>10
       DEF Next, TakeSlot, Crash, PowerLoss, Stopped, vars
<1>3. QED
  BY <1>1, <1>2, InitInductive, NextInductive, InductiveInvariant, PTL
     DEF Spec, ImplementsDeposit, Abstract!Spec

-----------------------------------------------------------------------------
(* The slots of the process.                                               *)

Counted == IsFiniteSet(Holders) /\ SlotsCounted

\* Every step keeps the holders of a slot and the count together: it changes
\* neither, or both by one, or the process ends.
LEMMA NextCounted == Inductive /\ Counted /\ [Next]_vars => Counted'
  <1>. SUFFICES ASSUME Inductive, Counted, [Next]_vars PROVE Counted'
    OBVIOUS
  <1>0. pc \in [Handlers -> Steps]
    BY DEF Inductive, TypeOK
  <1>1. CASE Holders' = Holders /\ slots' = slots
    BY <1>1 DEF Counted, SlotsCounted
  <1>2. ASSUME NEW h \in Handlers, pc[h] = "idle", slots' = slots + 1,
               pc' = [pc EXCEPT ![h] = "reserve"]
        PROVE  Counted'
    <2>1. Holders' = Holders \cup {h} /\ h \notin Holders
      BY <1>0, <1>2 DEF Holders
    <2>2. /\ IsFiniteSet(Holders \cup {h})
          /\ Cardinality(Holders \cup {h}) = Cardinality(Holders) + 1
      BY <2>1, FS_AddElement DEF Counted
    <2>. QED
      BY <1>2, <2>1, <2>2 DEF Counted, SlotsCounted
  <1>3. ASSUME NEW h \in Handlers, pc[h] \in {"reserve", "release"},
               slots' = slots - 1, NEW to \in {"idle", "answer"},
               pc' = [pc EXCEPT ![h] = to]
        PROVE  Counted'
    <2>1. Holders' = Holders \ {h} /\ h \in Holders
      BY <1>0, <1>3 DEF Holders
    <2>2. /\ IsFiniteSet(Holders \ {h})
          /\ Cardinality(Holders \ {h}) = Cardinality(Holders) - 1
      BY <2>1, FS_RemoveElement DEF Counted
    <2>. QED
      BY <1>3, <2>1, <2>2 DEF Counted, SlotsCounted
  <1>4. ASSUME NEW h \in Handlers, pc[h] \notin {"idle", "answer"}, slots' = slots,
               NEW to \in Steps \ {"idle", "answer"}, pc' = [pc EXCEPT ![h] = to]
        PROVE  Counted'
    <2>1. Holders' = Holders
      BY <1>0, <1>4 DEF Holders
    <2>. QED
      BY <1>1, <1>4, <2>1
  <1>5. ASSUME NEW h \in Handlers, Answer(h) PROVE Counted'
    <2>1. Holders' = Holders
      BY <1>0, <1>5 DEF Holders, Answer
    <2>. QED
      BY <1>1, <1>5, <2>1 DEF Answer
  <1>6. ASSUME NEW h \in Handlers, HandlerStep(h) PROVE Counted'
    <2>1. CASE \/ \E i \in Ids : Replay(h, i)
               \/ Refuse(h) \/ Release(h)
      BY <1>3, <2>1 DEF Replay, Refuse, Release
    <2>2. CASE \E i \in Ids, acked \in BOOLEAN : Reserve(h, i, acked)
      BY <1>3, <1>4, <2>2 DEF Reserve
    <2>3. CASE \/ Create(h) \/ Copy(h) \/ Save(h) \/ Link(h) \/ Interrupt(h)
               \/ \E removed \in BOOLEAN : Cleanup(h, removed)
               \/ \E committed \in BOOLEAN : Fail(h, committed)
      BY <1>4, <2>3 DEF Create, Copy, Save, Link, Interrupt, Cleanup, Fail
    <2>4. CASE \/ SyncFinal(h) \/ Unlink(h) \/ SyncIncoming(h)
               \/ \E acked \in BOOLEAN : Complete(h, acked)
               \/ Unconfirmed(h)
      BY <1>4, <2>4 DEF SyncFinal, Unlink, SyncIncoming, Complete, Unconfirmed
    <2>. QED
      BY <1>5, <1>6, <2>1, <2>2, <2>3, <2>4 DEF HandlerStep
  <1>7. CASE Crash \/ PowerLoss
    <2>1. Holders' = {} /\ slots' = 0
      BY <1>7 DEF Crash, PowerLoss, Stopped, Holders
    <2>. QED
      BY <2>1, FS_EmptySet DEF Counted, SlotsCounted
  <1>8. CASE UNCHANGED <<pc, slots>>
    BY <1>1, <1>8 DEF Holders
  <1>9. CASE Reconcile \/ Environment \/ UNCHANGED vars
    BY <1>8, <1>9
       DEF Reconcile, Start, ReconcileRow, ReconcileSync, ReconcileSettle,
           ReconcileRemoveTemp, BeginSweep, SweepOne, Listen, Environment,
           ExpireAttempt, RevokeKey, PutProfile, Assign, Retain, Move,
           SyncMoves, vars
  <1>10. CASE \E h \in Handlers, r \in Offered : TakeSlot(h, r)
    BY <1>2, <1>10 DEF TakeSlot
  <1>. QED
    BY <1>6, <1>7, <1>9, <1>10 DEF Next

\* On every path out of Admit and Receive a slot is given back exactly once: the
\* count is always that of the handlers holding one.
THEOREM SlotsAreCounted == Spec => []SlotsCounted
  <1>1. Init => Counted
    <2>1. Init => Holders = {} /\ slots = 0
      BY DEF Init, Holders
    <2>. QED
      BY <2>1, FS_EmptySet DEF Counted, SlotsCounted
  <1>2. Counted => SlotsCounted
    BY DEF Counted
  <1>. QED
    BY <1>1, <1>2, NextCounted, InductiveInvariant, PTL DEF Spec

-----------------------------------------------------------------------------
(* The limits of a profile.                                                *)

\* The declared length of the content every row is bound to by b.
Weight(b) == [i \in Ids |-> Size[b[i].content]]

\* The bytes of the rows in S, as Used adds them up.
Bytes(b, S) == MapThenSumSet(LAMBDA i : Size[b[i].content], S)

\* The rows of the catalogue: finitely many, whatever the set of identifiers.
RowsIn == {i \in Ids : status[i] # "none"}

\* Finitely many rows give a sum and a count their meaning.
FiniteRows == IsFiniteSet(RowsIn)

\* What a step must not do to the limits of a key.
Fits(k) == Grows(k) => ~Exceeds(k) /\ ~Exceeds(k)'

\* The bytes of finitely many rows are the sum of their weights.
LEMMA BytesAreSum ==
    ASSUME NEW b, NEW S \in SUBSET Ids, IsFiniteSet(S), \A i \in S : b[i] \in Request
    PROVE  /\ Bytes(b, S) = Sum(Weight(b), S)
           /\ \A i \in S : Weight(b)[i] \in Nat /\ Weight(b)[i] = Size[b[i].content]
  <1>. DEFINE w == Weight(b)
              U(g, s) == IF s = {} THEN 0
                         ELSE LET x == CHOOSE x \in s : TRUE
                              IN  Size[b[x].content] + g[s \ {x}]
              T == CHOOSE g : g = [s \in SUBSET S |-> U(g, s)]
  <1>1. \A i \in S : w[i] \in Nat /\ w[i] = Size[b[i].content]
    BY DEF Weight
  <1>2. ASSUME NEW g, NEW s \in SUBSET S PROVE Unfold(w, g, s) = U(g, s)
    <2>1. CASE s = {}
      BY <2>1 DEF Unfold
    <2>2. CASE s # {}
      <3>. DEFINE x == CHOOSE x \in s : TRUE
      <3>1. x \in s
        BY <2>2
      <3>2. w[x] = Size[b[x].content]
        BY <1>1, <3>1
      <3>. HIDE DEF w
      <3>. QED
        BY <2>2, <3>2 DEF Unfold
    <2>. QED
      BY <2>1, <2>2
  <1>3. Bytes(b, S) = T[S]
    BY DEF Bytes, MapThenSumSet, MapThenFoldSet
  <1>. HIDE DEF w, U
  <1>4. \E g : g = [s \in SUBSET S |-> U(g, s)]
    <2>1. PICK g \in [SUBSET S -> Nat] : IsTable(w, g, S)
      BY <1>1, Tables
    <2>2. \A s \in SUBSET S : g[s] = U(g, s)
      BY <1>2, <2>1 DEF IsTable
    <2>3. g = [s \in SUBSET S |-> U(g, s)]
      BY <2>2
    <2>. QED
      BY <2>3
  <1>5. T = [s \in SUBSET S |-> U(T, s)]
    BY <1>4
  <1>. HIDE DEF T
  <1>6. IsTable(w, T, S)
    <2>1. \A s \in SUBSET S : T[s] = U(T, s)
      BY <1>5
    <2>. QED
      BY <1>2, <2>1 DEF IsTable
  <1>7. PICK h : IsTable(w, h, S) /\ Sum(w, S) = h[S]
    BY <1>1, SumTable
  <1>8. \A s \in SUBSET S : h[s] = T[s]
    BY <1>1, <1>6, <1>7, TablesAgree
  <1>. QED
    BY <1>1, <1>3, <1>7, <1>8 DEF w

\* The bytes charged to a key are the sum of the weights of its charged rows.
LEMMA UsedIsSum ==
    ASSUME Inductive, FiniteRows, NEW k \in Keys
    PROVE  /\ Charged(k) \subseteq RowsIn /\ IsFiniteSet(Charged(k))
           /\ Active(k) \subseteq Charged(k) /\ IsFiniteSet(Active(k))
           /\ \A i \in Charged(k) : bound[i] \in Request
           /\ Used(k) = Sum(Weight(bound), Charged(k))
           /\ \A i \in Charged(k) : Weight(bound)[i] \in Nat
  <1>1. Charged(k) \subseteq RowsIn /\ Active(k) \subseteq Charged(k)
    BY DEF Charged, Active, RowsIn
  <1>2. IsFiniteSet(Charged(k)) /\ IsFiniteSet(Active(k))
    BY <1>1, FS_Subset DEF FiniteRows
  <1>3. \A i \in Charged(k) : i \in Ids /\ bound[i] \in Request
    BY DEF Charged, Inductive, Rows
  <1>4. Charged(k) \in SUBSET Ids
    BY <1>3
  <1>. QED
    BY <1>1, <1>2, <1>3, <1>4, BytesAreSum DEF Used, Bytes


\* A step that binds no row anew, charges none and counts no attempt lets
\* nothing grow.
LEMMA FewerRows ==
    ASSUME Inductive, FiniteRows, bound' = bound, RowsIn' \subseteq RowsIn,
           \A k \in Keys : /\ Charged(k)' \subseteq Charged(k)
                           /\ Active(k)' \subseteq Active(k)
                           /\ attempts'[k] <= attempts[k],
           \A k \in Keys : attempts'[k] \in Nat /\ attempts[k] \in Nat
    PROVE  FiniteRows' /\ \A k \in Keys : Fits(k)
  <1>1. FiniteRows'
    BY FS_Subset DEF FiniteRows
  <1>2. ASSUME NEW k \in Keys PROVE ~Grows(k)
    <2>1. /\ IsFiniteSet(Charged(k)) /\ IsFiniteSet(Active(k))
          /\ \A i \in Charged(k) : bound[i] \in Request
          /\ Used(k) = Sum(Weight(bound), Charged(k))
          /\ \A i \in Charged(k) : Weight(bound)[i] \in Nat
      BY UsedIsSum
    <2>2. /\ Charged(k)' \in SUBSET Charged(k) /\ Charged(k)' \in SUBSET Ids
          /\ IsFiniteSet(Charged(k)')
      <3>1. Charged(k)' \subseteq Charged(k) /\ Charged(k) \subseteq Ids
        BY DEF Charged
      <3>. QED
        BY <2>1, <3>1, FS_Subset
    <2>3. Used(k)' = Sum(Weight(bound'), Charged(k)')
      <3>1. \A i \in Charged(k)' : bound'[i] \in Request
        BY <2>1, <2>2
      <3>2. Bytes(bound', Charged(k)') = Sum(Weight(bound'), Charged(k)')
        BY <2>2, <3>1, BytesAreSum
      <3>3. Used(k)' = Bytes(bound', Charged(k)')
        BY DEF Used, Bytes, MapThenSumSet, MapThenFoldSet
      <3>. QED
        BY <3>2, <3>3
    <2>4. /\ Sum(Weight(bound), Charged(k)) =
               Sum(Weight(bound), Charged(k)')
                 + Sum(Weight(bound), Charged(k) \ Charged(k)')
          /\ Sum(Weight(bound), Charged(k)') \in Nat
          /\ Sum(Weight(bound), Charged(k) \ Charged(k)') \in Nat
      BY <2>1, <2>2, SumUnion
    <2>5. Used(k)' = Sum(Weight(bound), Charged(k)')
      BY <2>3
    <2>6. ~(Used(k)' > Used(k))
      BY <2>1, <2>4, <2>5
    <2>7. /\ Cardinality(Active(k)') <= Cardinality(Active(k))
          /\ IsFiniteSet(Active(k)')
      BY <2>1, FS_Subset
    <2>8. Cardinality(Active(k)') \in Nat /\ Cardinality(Active(k)) \in Nat
      BY <2>1, <2>7, FS_CardinalityType
    <2>9. ~(Cardinality(Active(k))' > Cardinality(Active(k)))
      BY <2>7, <2>8
    <2>10. ~(attempts'[k] > attempts[k])
      OBVIOUS
    <2>. QED
      BY <2>6, <2>9, <2>10 DEF Grows
  <1>. QED
    BY <1>1, <1>2 DEF Fits

\* A reservation adds one row that was charged to nobody, within the limits of
\* the profile its key has in the same transaction.
LEMMA ReserveFits ==
    ASSUME Inductive, FiniteRows, NEW h \in Handlers, NEW i \in Ids,
           NEW acked \in BOOLEAN, Reserve(h, i, acked)
    PROVE  FiniteRows' /\ \A k \in Keys : Fits(k)
  <1>. DEFINE r == req[h]
  <1>1. /\ r \in Request /\ i \in ReservableIds(r) /\ WithinLimits(r)
        /\ status' = [status EXCEPT ![i] = "receiving"]
        /\ bound' = [bound EXCEPT ![i] = r]
        /\ attempts' = [attempts EXCEPT ![r.key] = @ + 1]
        /\ UNCHANGED <<profiles, assigned>>
    BY DEF Inductive, Owning, Reserve
  <1>2. status[i] \in {"none", "failed"}
    BY <1>1, ReservedRowIsFree
  <1>3. /\ status \in [Ids -> Statuses] /\ bound \in [Ids -> Request \cup {None}]
        /\ attempts \in [Keys -> Nat]
    BY DEF Inductive, TypeOK
  <1>4. RowsIn' = RowsIn \cup {i}
    BY <1>1, <1>3 DEF RowsIn
  <1>5. FiniteRows'
    BY <1>4, FS_AddElement DEF FiniteRows
  <1>6. ASSUME NEW k \in Keys PROVE Fits(k)
    <2>1. /\ IsFiniteSet(Charged(k)) /\ IsFiniteSet(Active(k))
          /\ \A j \in Charged(k) : bound[j] \in Request
          /\ Used(k) = Sum(Weight(bound), Charged(k))
          /\ \A j \in Charged(k) : Weight(bound)[j] \in Nat
      BY UsedIsSum
    <2>2. /\ Limit(k) \in Limited /\ Limit(k)' = Limit(k)
      BY <1>1 DEF Inductive, TypeOK, Limit
    <2>3. i \notin Charged(k) /\ i \notin Active(k) /\ Charged(k) \subseteq Ids
      BY <1>2 DEF Charged, Active
    <2>4. \A j \in Charged(k) : bound'[j] = bound[j] /\ bound'[j] \in Request
      BY <1>1, <1>3, <2>1, <2>3
    <2>5. Sum(Weight(bound'), Charged(k)) = Used(k) /\ Used(k) \in Nat
      <3>1. \A j \in Charged(k) : Weight(bound')[j] = Weight(bound)[j]
        BY <2>3, <2>4 DEF Weight
      <3>2. Sum(Weight(bound'), Charged(k)) = Sum(Weight(bound), Charged(k))
        BY <2>1, <3>1, SumSame
      <3>3. Sum(Weight(bound), Charged(k)) \in Nat
        BY <2>1, SumRemove
      <3>. QED
        BY <2>1, <3>2, <3>3
    <2>6. CASE k = r.key
      <3>1. /\ Charged(k)' = Charged(k) \cup {i}
            /\ Active(k)' = Active(k) \cup {i}
        BY <1>1, <1>2, <1>3, <2>6 DEF Charged, Active
      <3>2. /\ IsFiniteSet(Charged(k)') /\ IsFiniteSet(Active(k)')
            /\ Cardinality(Active(k)') = Cardinality(Active(k)) + 1
        <4>1. /\ IsFiniteSet(Charged(k) \cup {i})
              /\ IsFiniteSet(Active(k) \cup {i})
              /\ Cardinality(Active(k) \cup {i}) = Cardinality(Active(k)) + 1
          BY <2>1, <2>3, FS_AddElement
        <4>. QED
          BY <3>1, <4>1
      <3>3. Charged(k)' \in SUBSET Ids /\ \A j \in Charged(k)' : bound'[j] \in Request
        BY <1>1, <1>3, <2>3, <2>4, <3>1
      <3>4. /\ Bytes(bound', Charged(k)') = Sum(Weight(bound'), Charged(k)')
            /\ \A j \in Charged(k)' : Weight(bound')[j] \in Nat
        BY <3>2, <3>3, BytesAreSum
      <3>5. Used(k)' = Bytes(bound', Charged(k)')
        BY DEF Used, Bytes, MapThenSumSet, MapThenFoldSet
      <3>6. Weight(bound')[i] = Size[r.content]
        BY <1>1, <1>3 DEF Weight
      <3>7. Sum(Weight(bound'), Charged(k)') =
              Weight(bound')[i] + Sum(Weight(bound'), Charged(k)' \ {i})
        BY <3>1, <3>2, <3>4, SumRemove
      <3>8. Charged(k)' \ {i} = Charged(k)
        BY <2>3, <3>1
      <3>9. Used(k)' = Size[r.content] + Used(k)
        BY <2>5, <3>4, <3>5, <3>6, <3>7, <3>8
      <3>10. /\ Used(k) + Size[r.content] <= Limit(k).total
             /\ Cardinality(Active(k)) < Limit(k).concurrent
             /\ attempts[k] < Limit(k).perDay
        BY <1>1, <2>6 DEF WithinLimits
      <3>11. /\ Cardinality(Active(k)) \in Nat /\ Size[r.content] \in Nat
             /\ attempts[k] \in Nat /\ attempts'[k] = attempts[k] + 1
             /\ Limit(k).total \in Nat /\ Limit(k).concurrent \in Nat
             /\ Limit(k).perDay \in Nat
        BY <1>1, <1>3, <2>1, <2>2, <2>6, FS_CardinalityType DEF Limited
      <3>12. ~(Used(k) > Limit(k).total) /\ ~(Used(k)' > Limit(k).total)
        BY <2>5, <3>9, <3>10, <3>11
      <3>13. /\ ~(Cardinality(Active(k)) > Limit(k).concurrent)
             /\ ~(Cardinality(Active(k)') > Limit(k).concurrent)
             /\ ~(attempts[k] > Limit(k).perDay)
             /\ ~(attempts'[k] > Limit(k).perDay)
        BY <3>2, <3>10, <3>11
      <3>. QED
        BY <2>2, <3>12, <3>13 DEF Fits, Exceeds
    <2>7. CASE k # r.key
      <3>1. Charged(k)' = Charged(k) /\ Active(k)' = Active(k)
        BY <1>1, <1>2, <1>3, <2>7 DEF Charged, Active
      <3>2. Charged(k)' \in SUBSET Ids /\ \A j \in Charged(k)' : bound'[j] \in Request
        BY <2>3, <2>4, <3>1
      <3>3. Bytes(bound', Charged(k)') = Sum(Weight(bound'), Charged(k)')
        BY <2>1, <3>1, <3>2, BytesAreSum
      <3>4. Used(k)' = Bytes(bound', Charged(k)')
        BY DEF Used, Bytes, MapThenSumSet, MapThenFoldSet
      <3>5. Used(k)' = Used(k) /\ ~(Used(k)' > Used(k))
        BY <2>5, <3>1, <3>3, <3>4
      <3>6. Cardinality(Active(k))' = Cardinality(Active(k))
        BY <3>1
      <3>7. Cardinality(Active(k)) \in Nat
        BY <2>1, FS_CardinalityType
      <3>8. ~(Cardinality(Active(k))' > Cardinality(Active(k)))
        BY <3>6, <3>7
      <3>9. ~(attempts'[k] > attempts[k])
        BY <1>1, <1>3, <2>7
      <3>. QED
        BY <3>5, <3>8, <3>9 DEF Fits, Grows
    <2>. QED
      BY <2>6, <2>7
  <1>. QED
    BY <1>5, <1>6

\* Every step but a reservation only moves existing rows out of the charged
\* and the active ones: retention frees bytes, a failed transfer frees both.
LEMMA NextFits ==
    Inductive /\ Inductive' /\ FiniteRows /\ [Next]_vars
      => FiniteRows' /\ \A k \in Keys : Fits(k)
  <1>. SUFFICES ASSUME Inductive, Inductive', FiniteRows, [Next]_vars
                PROVE  FiniteRows' /\ \A k \in Keys : Fits(k)
    OBVIOUS
  <1>. DEFINE Goal == FiniteRows' /\ \A k \in Keys : Fits(k)
  <1>0. status \in [Ids -> Statuses]
    BY DEF Inductive, TypeOK
  <1>a. \A k \in Keys : attempts'[k] \in Nat /\ attempts[k] \in Nat
    BY DEF Inductive, TypeOK
  <1>1. CASE \E h \in Handlers, i \in Ids, acked \in BOOLEAN : Reserve(h, i, acked)
    BY <1>1, ReserveFits
  <1>2. ASSUME UNCHANGED <<status, bound>>,
               \A k \in Keys : attempts'[k] <= attempts[k]
        PROVE  Goal
    <2>1. /\ RowsIn' = RowsIn
          /\ \A k \in Keys : Charged(k)' = Charged(k) /\ Active(k)' = Active(k)
      BY <1>2 DEF RowsIn, Charged, Active
    <2>. QED
      BY <1>a, <1>2, <2>1, FewerRows
  <1>3. CASE UNCHANGED <<status, bound, attempts>>
    <2>1. \A k \in Keys : attempts'[k] <= attempts[k]
      BY <1>a, <1>3
    <2>. QED
      BY <1>2, <1>3, <2>1
  <1>4. ASSUME NEW i \in Ids, status[i] = "receiving",
               UNCHANGED <<bound, attempts>>,
               \/ status' = [status EXCEPT ![i] = "failed"]
               \/ status' = [status EXCEPT ![i] = "complete"]
        PROVE  Goal
    <2>1. /\ RowsIn' = RowsIn /\ bound' = bound
          /\ \A k \in Keys : Charged(k)' \subseteq Charged(k) /\ Active(k)' \subseteq Active(k)
      BY <1>0, <1>4 DEF RowsIn, Charged, Active
    <2>2. \A k \in Keys : attempts'[k] <= attempts[k]
      BY <1>a, <1>4
    <2>. QED
      BY <1>a, <2>1, <2>2, FewerRows
  <1>5. ASSUME NEW i \in Ids, NEW to \in Statuses, Retain(i, to)
        PROVE  Goal
    <2>1. /\ RowsIn' = RowsIn /\ bound' = bound
          /\ \A k \in Keys : Charged(k)' \subseteq Charged(k) /\ Active(k)' \subseteq Active(k)
      BY <1>0, <1>5 DEF RowsIn, Charged, Active, Retain, RetentionMoves
    <2>2. \A k \in Keys : attempts'[k] <= attempts[k]
      BY <1>a, <1>5 DEF Retain
    <2>. QED
      BY <1>a, <2>1, <2>2, FewerRows
  <1>6. ASSUME NEW k \in Keys, ExpireAttempt(k) PROVE Goal
    <2>1. attempts \in [Keys -> Nat] /\ attempts' = [attempts EXCEPT ![k] = @ - 1]
      BY <1>6 DEF Inductive, TypeOK, ExpireAttempt
    <2>2. \A l \in Keys : attempts'[l] <= attempts[l]
      BY <2>1
    <2>. QED
      BY <1>2, <1>6, <2>2 DEF ExpireAttempt
  <1>7. ASSUME NEW h \in Handlers, HandlerStep(h) PROVE Goal
    <2>1. CASE \E committed \in BOOLEAN : Fail(h, committed)
      <3>1. job[h] \in Ids /\ status[job[h]] = "receiving"
        BY <2>1 DEF Fail, Inductive, Owning
      <3>. QED
        BY <1>3, <1>4, <2>1, <3>1 DEF Fail, FailRow
    <2>2. CASE \E acked \in BOOLEAN : Complete(h, acked)
      <3>1. job[h] \in Ids /\ status[job[h]] = "receiving"
        BY <2>2 DEF Complete, Inductive, Owning
      <3>. QED
        BY <1>4, <2>2, <3>1 DEF Complete, CompleteRow
    <2>3. QED
      BY <1>1, <1>3, <1>7, <2>1, <2>2
         DEF HandlerStep, Replay, Refuse, Answer, Create, Copy, Save, Link,
             Interrupt, Cleanup, SyncFinal, Unlink, SyncIncoming, Unconfirmed,
             Release
  <1>8. CASE Reconcile
    <2>1. CASE ReconcileSettle
      <3>1. cur \in Ids /\ status[cur] = "receiving"
        BY <2>1 DEF ReconcileSettle, Inductive, Settling
      <3>. QED
        BY <1>4, <2>1, <3>1 DEF ReconcileSettle, CompleteRow, FailRow
    <2>2. QED
      BY <1>3, <1>8, <2>1
         DEF Reconcile, Start, ReconcileRow, ReconcileSync,
             ReconcileRemoveTemp, BeginSweep, SweepOne, Listen
  <1>9. CASE Environment
    BY <1>3, <1>5, <1>6, <1>9
       DEF Environment, RevokeKey, PutProfile, Assign, Move, SyncMoves
  <1>10. CASE \/ \E h \in Handlers, r \in Offered : TakeSlot(h, r)
              \/ Crash \/ PowerLoss \/ UNCHANGED vars
    BY <1>3, <1>10 DEF TakeSlot, Crash, PowerLoss, Stopped, vars
  <1>. QED
    BY <1>7, <1>8, <1>9, <1>10 DEF Next

\* Whatever profiles an administrator changes or assigns, no interleaving of
\* reservations, failed transfers, retries, retention and restarts lets a key
\* grow outside the limits in force.
THEOREM LimitsAreRespected == Spec => LimitsRespected
  <1>1. Init => FiniteRows
    <2>1. Init => RowsIn = {}
      BY DEF Init, RowsIn
    <2>. QED
      BY <2>1, FS_EmptySet DEF FiniteRows
  <1>2. (\A k \in Keys : Fits(k))
          => [\A k \in Keys : Grows(k) => ~Exceeds(k) /\ ~Exceeds(k)']_vars
    BY DEF Fits
  <1>. QED
    BY <1>1, <1>2, NextFits, InductiveInvariant, PTL DEF Spec, LimitsRespected
==============================================================================
