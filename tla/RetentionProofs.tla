---------------------------- MODULE RetentionProofs ----------------------------
(***************************************************************************)
(* Theorems about Retention, for any backups, keys, operations, lease      *)
(* generations, events and faults.  What may release destructive work is   *)
(* an invariant of the automation state and of the incidents of rows.      *)
(* What the files may do rests on the rows of retention_operations, on the *)
(* calls under way (the answer "done" of an earlier reading among them)    *)
(* and on the step the maintenance process has reached.                    *)
(***************************************************************************)
EXTENDS Retention, SetFacts

-----------------------------------------------------------------------------
(* The inductive invariant.                                                *)

\* Setup leaves the activation hold beside everything else it asks for.
SetupHolds ==
    ~learned \/ holds \cap {"mail", "disabled"} # {} => "activation" \in holds

Open == Incidents # {} \/ Doubts # {} \/ alarms # {}
OpenHolds == Open => hold # Free

\* The row of an active operation is the only one of its backup, and the status
\* of the backup is the one its kind asks for.
Active(o) == ops[o].state \in {"requested", "authorized"}
OneActive ==
    \A o, p \in OpIds : Active(o) /\ Active(p) /\ ops[o].backup = ops[p].backup => o = p
StatusFits ==
    /\ \A o \in OpIds : Active(o) => status[ops[o].backup] = During(ops[o].kind)
    /\ \A b \in Backups : status[b] \in {"deleting", "purging"} =>
         \E o \in OpIds : Active(o) /\ ops[o].backup = b /\ status[b] = During(ops[o].kind)
Granted == \A o \in OpIds : ops[o].committed => ops[o].state \in {"authorized", "confirmed"}

\* The process waits for at most one call, which is about the operation at hand.
AtWork == {"wait", "verify", "move", "linked", "sync", "confirm", "report"}
CallsOK ==
    /\ \A c \in calls : ops[c.op].state # "none"
    /\ \A o \in todo : ops[o].state # "none"
    /\ pc \in AtWork => todo # {}
    /\ pc # "idle" => gen \in Gens
    /\ \A c \in calls : c.live => pc = "wait" /\ c.op = cur
    /\ \A c, d \in calls : c.live /\ d.live => c = d

\* A file that was read as moved is not at its source again while the operation
\* is active, however late the answer is applied.
DoneOK ==
    \A c \in calls : c.seen = "done" /\ Active(c.op) =>
        where[ops[c.op].backup] \in {Destination(c.op), {}}

\* A process about to move a file holds the final permission, unless the file
\* is gone from its source; and between link and removal nobody can confirm.
MoveOK ==
    /\ pc = "verify" /\ where[file] = {Source(cur)} => ops[cur].state # "confirmed"
    /\ pc = "move" /\ where[file] = {Source(cur)} => cur \in Committed
    /\ pc = "linked" =>
         /\ cur \in Committed /\ ops[cur].kind # "purge"
         /\ where[file] \in {{Source(cur)} \cup Destination(cur), {}}
         /\ \A c \in calls : c.op = cur => c.seen # "done"

RowsTyped == status \in [Backups -> Statuses] /\ ops \in [OpIds -> Operation]
Rows == OneActive /\ StatusFits /\ Granted

AutomationOK ==
    /\ learned \in BOOLEAN /\ regular \in BOOLEAN /\ barred \in BOOLEAN
    /\ checking \in BOOLEAN /\ owed \in BOOLEAN
    /\ holds \subseteq {"manual", "activation", "mail", "disabled"}
    /\ pending \subseteq {"resume", "activate"}
    /\ hold \in {Free, Elsewhere, Incident} \cup OpIds
    /\ alarms \subseteq Backups \cup {"catalog", "external", "operational"}
Automation == AutomationOK /\ SetupHolds /\ OpenHolds

FilesTyped == where \in [Backups -> SUBSET Places] /\ disk \in [Backups -> SUBSET Places]
Ledger ==
    /\ ripe \subseteq Backups /\ missing \subseteq Backups /\ revoked \subseteq Keys
    /\ lease \in Gens \cup {NoGen} /\ held \in BOOLEAN
    /\ faults \in 0 .. MaxFaults

CycleOK ==
    /\ pc \in PCs /\ phase \in Phases /\ gen \in Gens \cup {NoGen}
    /\ todo \subseteq OpIds /\ due \subseteq Backups
Work == CycleOK /\ calls \subseteq Call /\ CallsOK /\ DoneOK /\ MoveOK

Inductive ==
    /\ RowsTyped /\ Rows
    /\ Automation
    /\ FilesTyped /\ Ledger
    /\ Work

-----------------------------------------------------------------------------
(* Constants, minima and cardinalities.                                    *)

LEMMA Constants ==
    /\ MaxOps \in Nat /\ MaxFaults \in Nat /\ Gens \subseteq Nat \ {0}
    /\ IsFiniteSet(Backups) /\ KeyOf \in [Backups -> Keys]
    /\ OpIds \subseteq Nat /\ IsFiniteSet(OpIds) /\ Free \notin OpIds
  <1>1. MaxOps \in Nat /\ 1 \in Int /\ MaxOps \in Int
    BY RetentionAssumption
  <1>2. IsFiniteSet(1 .. MaxOps)
    BY <1>1, FS_Interval
  <1>. QED
    BY <1>1, <1>2, RetentionAssumption DEF OpIds, Free, NoGen

LEMMA CurIn ==
    ASSUME RowsTyped, CycleOK, todo # {}
    PROVE  cur \in todo /\ cur \in OpIds /\ file \in Backups
  <1>1. todo \subseteq OpIds /\ ops \in [OpIds -> Operation]
    BY DEF RowsTyped, CycleOK
  <1>2. cur \in todo
    BY <1>1, Constants, MinOf DEF cur
  <1>. QED
    BY <1>1, <1>2 DEF file, Operation

\* Blocking counts the open incidents.
LEMMA BlockingZero ==
    ASSUME alarms \subseteq Backups \cup {"catalog", "external", "operational"}
    PROVE  Blocking = 0 <=> ~Open
  <1>1. IsFiniteSet(Incidents) /\ IsFiniteSet(Doubts)
    BY Constants, FS_Subset DEF Incidents, Doubts
  <1>2. IsFiniteSet(alarms)
    <2>1. IsFiniteSet(Backups \cup {"catalog"})
      BY Constants, FS_AddElement
    <2>2. IsFiniteSet((Backups \cup {"catalog"}) \cup {"external"})
      BY <2>1, FS_AddElement
    <2>3. IsFiniteSet(((Backups \cup {"catalog"}) \cup {"external"}) \cup {"operational"})
      BY <2>2, FS_AddElement
    <2>4. alarms \in SUBSET (((Backups \cup {"catalog"}) \cup {"external"}) \cup {"operational"})
      OBVIOUS
    <2>. QED
      BY <2>3, <2>4, FS_Subset
  <1>3. /\ Cardinality(Incidents) \in Nat /\ (Cardinality(Incidents) = 0 <=> Incidents = {})
        /\ Cardinality(Doubts) \in Nat /\ (Cardinality(Doubts) = 0 <=> Doubts = {})
        /\ Cardinality(alarms) \in Nat /\ (Cardinality(alarms) = 0 <=> alarms = {})
    BY <1>1, <1>2, FS_CardinalityType, FS_EmptySet
  <1>. QED
    BY <1>3 DEF Blocking, Open

-----------------------------------------------------------------------------
(* The rows of retention_operations and the status of backups.             *)

\* What a step may do to a row: it keeps what the operation is about, no settled
\* operation comes back, a final permission ends only in confirmation, and only
\* a call that has read the file as moved confirms.
OpsProgress ==
    \A o \in OpIds :
        /\ ops[o].state # "none" =>
              /\ ops'[o].backup = ops[o].backup /\ ops'[o].kind = ops[o].kind
              /\ ops'[o].state # "none"
        /\ Active(o)' => Active(o) \/ ops[o].state = "none"
        /\ o \in Committed =>
              ops'[o].committed /\ ops'[o].state \in {"authorized", "confirmed"}
        /\ ops'[o].state = "confirmed" =>
              \/ ops[o].state = "confirmed"
              \/ /\ ops[o].state = "authorized"
                 /\ \E c \in calls : c.op = o /\ c.seen = "done"

RowsKept == RowsTyped' /\ Rows' /\ OpsProgress

\* No incident of an operation is opened.
NoNewIncident ==
    \A o \in OpIds : (ops'[o].err => ops[o].err) /\ (ops'[o].unc => ops[o].unc)

LEMMA OpFields ==
    ASSUME RowsTyped, NEW o \in OpIds
    PROVE  /\ ops[o] \in Operation /\ ops[o].backup \in Backups /\ ops[o].kind \in Kinds
           /\ ops[o].state \in States /\ ops[o].ticket \in Gens \cup {NoGen}
  BY DEF RowsTyped, Operation

\* Nothing about the rows but their notes changes.
LEMMA RowsSame ==
    ASSUME RowsTyped, Rows, UNCHANGED status, ops' \in [OpIds -> Operation],
           \A o \in OpIds : /\ ops'[o].backup = ops[o].backup /\ ops'[o].kind = ops[o].kind
                            /\ ops'[o].state = ops[o].state
                            /\ ops'[o].committed = ops[o].committed
    PROVE  RowsKept
  <1>1. RowsTyped'
    BY DEF RowsTyped
  <1>2. Rows'
    BY DEF Rows, OneActive, StatusFits, Granted, Active
  <1>3. OpsProgress
    BY DEF OpsProgress, Active, Committed, InState
  <1>. QED
    BY <1>1, <1>2, <1>3 DEF RowsKept

LEMMA RowsUnchanged ==
    ASSUME RowsTyped, Rows, UNCHANGED <<status, ops>>
    PROVE  RowsKept /\ NoNewIncident
  <1>1. ops' \in [OpIds -> Operation]
    BY DEF RowsTyped
  <1>. QED
    BY <1>1, RowsSame DEF NoNewIncident

\* A new row.
LEMMA InsertKept ==
    ASSUME RowsTyped, Rows, learned \in BOOLEAN,
           NEW b \in Backups, NEW kind \in Kinds, Insert(b, kind),
           ActiveOps(b) = {}, status' = [status EXCEPT ![b] = During(kind)]
    PROVE  RowsKept /\ NoNewIncident
  <1>1. PICK n \in OpIds : ops[n].state = "none" /\ ops' = [ops EXCEPT ![n] = NewOp(b, kind)]
    <2>1. InState("none") # {} /\ InState("none") \subseteq OpIds
      BY DEF Insert, InState
    <2>2. Min(InState("none")) \in InState("none")
      BY <2>1, Constants, MinOf
    <2>. QED
      BY <2>1, <2>2 DEF Insert, InState
  <1>2. PICK r \in Operation : /\ r = NewOp(b, kind) /\ r.backup = b /\ r.kind = kind
                               /\ r.state = "requested" /\ ~r.committed /\ ~r.err /\ ~r.unc
    <2>1. ASSUME NEW l \in BOOLEAN, NEW t \in BOOLEAN, NEW f \in BOOLEAN
          PROVE  [backup |-> b, kind |-> kind, state |-> "requested", committed |-> f,
                  ticket |-> NoGen, rev |-> l, note |-> "", checked |-> t,
                  err |-> f, unc |-> f] \in Operation
      BY DEF Operation, States
    <2>2. NewOp(b, kind) \in Operation
      BY <2>1, Zenon DEF NewOp
    <2>. QED
      BY <2>2 DEF NewOp
  <1>3. /\ ops' \in [OpIds -> Operation] /\ ops'[n] = r
        /\ \A o \in OpIds \ {n} : ops'[o] = ops[o]
    BY <1>1, <1>2 DEF RowsTyped
  <1>4. status' \in [Backups -> Statuses] /\ status'[b] = During(kind)
        /\ \A a \in Backups \ {b} : status'[a] = status[a]
    BY DEF RowsTyped, During, Statuses, Stable
  <1>5. \A o \in OpIds : Active(o) => ops[o].backup # b
    BY DEF ActiveOps, Active
  <1>6. ~Active(n) /\ \A o \in OpIds : ops[o].backup \in Backups
    BY <1>1, OpFields DEF Active
  <1>7. OneActive'
    BY <1>2, <1>3, <1>5 DEF Rows, OneActive, Active
  <1>8. StatusFits'
    <2>1. \A o \in OpIds : Active(o)' => status'[ops'[o].backup] = During(ops'[o].kind)
      BY <1>2, <1>3, <1>4, <1>5, <1>6 DEF Rows, StatusFits, Active
    <2>2. \A a \in Backups : status'[a] \in {"deleting", "purging"} =>
            \E o \in OpIds : Active(o)' /\ ops'[o].backup = a /\ status'[a] = During(ops'[o].kind)
      <3>1. Active(n)' /\ ops'[n].backup = b /\ status'[b] = During(ops'[n].kind)
        BY <1>2, <1>3, <1>4 DEF Active
      <3>2. ASSUME NEW a \in Backups \ {b}, status'[a] \in {"deleting", "purging"}
            PROVE  \E o \in OpIds : Active(o)' /\ ops'[o].backup = a
                                    /\ status'[a] = During(ops'[o].kind)
        <4>1. PICK o \in OpIds : Active(o) /\ ops[o].backup = a /\ status[a] = During(ops[o].kind)
          BY <1>4, <3>2 DEF Rows, StatusFits
        <4>2. o # n
          BY <1>6, <4>1
        <4>. QED
          BY <1>3, <1>4, <4>1, <4>2 DEF Active
      <3>. QED
        BY <3>1, <3>2
    <2>. QED
      BY <2>1, <2>2 DEF StatusFits
  <1>9. Granted'
    BY <1>2, <1>3 DEF Rows, Granted
  <1>10. OpsProgress
    BY <1>1, <1>2, <1>3, <1>6 DEF OpsProgress, Active, Committed, InState
  <1>. QED
    BY <1>2, <1>3, <1>4, <1>7, <1>8, <1>9, <1>10
       DEF RowsKept, Rows, RowsTyped, NoNewIncident

\* Active operations, one or several, are settled, and each gives its backup a
\* status of its own.
LEMMA SettledKept ==
    ASSUME RowsTyped, Rows, NEW gone \in SUBSET OpIds,
           \A o \in gone : Active(o),
           ops' \in [OpIds -> Operation], \A o \in OpIds \ gone : ops'[o] = ops[o],
           \A o \in gone : /\ ops'[o].backup = ops[o].backup /\ ops'[o].kind = ops[o].kind
                           /\ ops'[o].state \in {"cancelled", "confirmed"}
                           /\ ops'[o].committed => ops'[o].state = "confirmed"
                           /\ o \in Committed => ops'[o].committed
                           /\ ops'[o].state = "confirmed" =>
                                /\ ops[o].state = "authorized"
                                /\ \E c \in calls : c.op = o /\ c.seen = "done",
           status' \in [Backups -> Statuses],
           \A o \in gone : status'[ops[o].backup] \notin {"deleting", "purging"},
           \A b \in Backups : (\A o \in gone : ops[o].backup # b) => status'[b] = status[b]
    PROVE  RowsKept
  <1>1. \A o \in OpIds : ops[o].backup \in Backups /\ ops'[o].backup \in Backups
    BY DEF RowsTyped, Operation
  <1>2. \A o \in OpIds : Active(o)' => o \notin gone /\ Active(o) /\ ops'[o] = ops[o]
    BY DEF Active
  <1>3. OneActive'
    BY <1>2 DEF Rows, OneActive
  <1>4. StatusFits'
    <2>1. ASSUME NEW o \in OpIds, Active(o)'
          PROVE  status'[ops'[o].backup] = During(ops'[o].kind)
      <3>1. o \notin gone /\ Active(o) /\ ops'[o] = ops[o]
        BY <1>2, <2>1
      <3>2. \A p \in gone : ops[p].backup # ops[o].backup
        BY <3>1 DEF Rows, OneActive
      <3>3. status'[ops[o].backup] = status[ops[o].backup]
        BY <1>1, <3>2
      <3>. QED
        BY <3>1, <3>3 DEF Rows, StatusFits
    <2>2. ASSUME NEW b \in Backups, status'[b] \in {"deleting", "purging"}
          PROVE  \E o \in OpIds : Active(o)' /\ ops'[o].backup = b
                                  /\ status'[b] = During(ops'[o].kind)
      <3>1. \A o \in gone : ops[o].backup # b
        BY <2>2
      <3>2. status'[b] = status[b]
        BY <3>1
      <3>3. PICK o \in OpIds : Active(o) /\ ops[o].backup = b /\ status[b] = During(ops[o].kind)
        BY <2>2, <3>2 DEF Rows, StatusFits
      <3>4. o \notin gone
        BY <3>1, <3>3
      <3>. QED
        BY <3>2, <3>3, <3>4 DEF Active
    <2>. QED
      BY <2>1, <2>2 DEF StatusFits
  <1>5. Granted'
    BY DEF Rows, Granted
  <1>6. OpsProgress
    <2>1. ASSUME NEW o \in OpIds \ gone
          PROVE  ops'[o] = ops[o]
      OBVIOUS
    <2>. QED
      BY <2>1 DEF OpsProgress, Active, Committed, InState
  <1>. QED
    BY <1>3, <1>4, <1>5, <1>6 DEF RowsKept, Rows, RowsTyped

\* An active operation goes on, with or without a permission.
LEMMA OngoingKept ==
    ASSUME RowsTyped, Rows, NEW o \in OpIds, Active(o), UNCHANGED status,
           NEW r \in Operation, ops' = [ops EXCEPT ![o] = r],
           r.backup = ops[o].backup, r.kind = ops[o].kind,
           r.state \in {"requested", "authorized"},
           r.committed => r.state = "authorized",
           o \in Committed => r.committed
    PROVE  RowsKept
  <1>1. /\ ops' \in [OpIds -> Operation] /\ ops'[o] = r
        /\ \A p \in OpIds \ {o} : ops'[p] = ops[p]
    BY DEF RowsTyped
  <1>2. \A p \in OpIds : /\ Active(p)' <=> Active(p)
                         /\ ops'[p].backup = ops[p].backup /\ ops'[p].kind = ops[p].kind
    BY <1>1 DEF Active
  <1>3. OneActive' /\ StatusFits'
    BY <1>2 DEF Rows, OneActive, StatusFits
  <1>4. Granted'
    BY <1>1 DEF Rows, Granted
  <1>5. OpsProgress
    BY <1>1, <1>2 DEF OpsProgress, Active, Committed, InState
  <1>. QED
    BY <1>1, <1>3, <1>4, <1>5 DEF RowsKept, Rows, RowsTyped

LEMMA CancelledOp ==
    ASSUME RowsTyped, NEW o \in OpIds
    PROVE  /\ Cancelled(o) \in Operation
           /\ Cancelled(o).backup = ops[o].backup /\ Cancelled(o).kind = ops[o].kind
           /\ Cancelled(o).state = "cancelled" /\ Cancelled(o).committed = ops[o].committed
           /\ ~Cancelled(o).err /\ ~Cancelled(o).unc
  <1>1. ops[o] \in Operation
    BY OpFields
  <1>2. ASSUME NEW f \in BOOLEAN
        PROVE  [ops[o] EXCEPT !.state = "cancelled", !.ticket = NoGen, !.note = "",
                              !.err = f, !.unc = f] \in Operation
    BY <1>1 DEF Operation, States
  <1>3. Cancelled(o) \in Operation
    BY <1>2, Zenon DEF Cancelled
  <1>. QED
    BY <1>1, <1>3 DEF Cancelled, Operation

\* The actions that change rows, one by one.
LEMMA RequestRows ==
    ASSUME RowsTyped, Rows, learned \in BOOLEAN, NEW b \in Backups,
           RequestQuarantine(b) \/ RequestRecovery(b) \/ RequestPurge(b)
    PROVE  RowsKept /\ NoNewIncident
  <1>1. CASE RequestQuarantine(b)
    BY <1>1, InsertKept DEF RequestQuarantine, During, Kinds
  <1>2. CASE RequestRecovery(b)
    <2>1. status' = [status EXCEPT ![b] = During("recover")]
      BY <1>2 DEF RequestRecovery, RowsTyped, During
    <2>. QED
      BY <1>2, <2>1, InsertKept DEF RequestRecovery, Kinds
  <1>3. CASE RequestPurge(b)
    BY <1>3, InsertKept DEF RequestPurge, During, Kinds
  <1>. QED
    BY <1>1, <1>2, <1>3

LEMMA CancelRows ==
    ASSUME RowsTyped, Rows, NEW o \in OpIds, CancelQuarantineRequest(o)
    PROVE  RowsKept /\ NoNewIncident
  <1>1. PICK r \in Operation : /\ r = Cancelled(o) /\ r.backup = ops[o].backup
                               /\ r.kind = ops[o].kind /\ r.state = "cancelled"
                               /\ r.committed = ops[o].committed /\ ~r.err /\ ~r.unc
    BY CancelledOp
  <1>2. /\ ops[o].state = "requested" /\ ops' = [ops EXCEPT ![o] = r]
        /\ status' = [status EXCEPT ![ops[o].backup] = "complete"]
    BY <1>1 DEF CancelQuarantineRequest
  <1>3. /\ ops' \in [OpIds -> Operation] /\ ops'[o] = r
        /\ \A p \in OpIds \ {o} : ops'[p] = ops[p]
    BY <1>2 DEF RowsTyped
  <1>4. /\ status' \in [Backups -> Statuses] /\ status'[ops[o].backup] = "complete"
        /\ \A b \in Backups : ops[o].backup # b => status'[b] = status[b]
    BY <1>2, OpFields DEF RowsTyped, Statuses, Stable
  <1>5. Active(o) /\ o \notin Committed /\ ~ops[o].committed
    BY <1>2 DEF Active, Committed, InState, Rows, Granted
  <1>6. {o} \in SUBSET OpIds
    OBVIOUS
  <1>7. RowsKept
    BY <1>1, <1>3, <1>4, <1>5, <1>6, SettledKept
  <1>. QED
    BY <1>1, <1>3, <1>7 DEF NoNewIncident

LEMMA RevokeRows ==
    ASSUME RowsTyped, Rows, NEW k \in Keys, Revoke(k)
    PROVE  RowsKept /\ NoNewIncident
  <1>. DEFINE gone == {o \in InState("requested") : Destructive(o) /\ KeyFor(o) = k}
  <1>1. /\ status' = [b \in Backups |->
              IF \E o \in gone : ops[o].backup = b
                THEN Restored(CHOOSE o \in gone : ops[o].backup = b) ELSE status[b]]
        /\ ops' = [o \in OpIds |-> IF o \in gone THEN Cancelled(o) ELSE ops[o]]
    BY DEF Revoke
  <1>2. gone \in SUBSET OpIds /\ \A o \in gone : ops[o].state = "requested"
    BY DEF InState
  <1>. HIDE DEF gone
  <1>3. \A o \in OpIds : Cancelled(o) \in Operation /\ ops[o] \in Operation
    BY CancelledOp, OpFields
  <1>4. /\ ops' \in [OpIds -> Operation] /\ \A o \in OpIds \ gone : ops'[o] = ops[o]
        /\ \A o \in gone : ops'[o] = Cancelled(o)
    BY <1>1, <1>2, <1>3
  <1>5. \A o \in gone : /\ ops'[o].backup = ops[o].backup /\ ops'[o].kind = ops[o].kind
                        /\ ops'[o].state = "cancelled"
                        /\ ops'[o].committed = ops[o].committed
                        /\ ~ops'[o].err /\ ~ops'[o].unc
    BY <1>2, <1>4, CancelledOp
  <1>6. \A o \in gone : Active(o) /\ o \notin Committed /\ ~ops[o].committed
    BY <1>2 DEF Active, Committed, InState, Rows, Granted
  <1>7. \A o \in OpIds : Restored(o) \in {"complete", "quarantined"}
    BY DEF Restored
  <1>8. ASSUME NEW b \in Backups
        PROVE  /\ (\A o \in gone : ops[o].backup # b) => status'[b] = status[b]
               /\ (\E o \in gone : ops[o].backup = b) => status'[b] \in {"complete", "quarantined"}
    <2>1. CASE \E o \in gone : ops[o].backup = b
      <3>1. PICK p \in gone : p = CHOOSE o \in gone : ops[o].backup = b
        BY <2>1
      <3>2. status'[b] = Restored(p)
        BY <1>1, <2>1, <3>1
      <3>. QED
        BY <1>2, <1>7, <2>1, <3>2
    <2>2. CASE \A o \in gone : ops[o].backup # b
      BY <1>1, <2>2
    <2>. QED
      BY <2>1, <2>2
  <1>9. status' \in [Backups -> Statuses]
    <2>1. \A b \in Backups : status'[b] \in Statuses
      BY <1>8 DEF RowsTyped, Statuses, Stable
    <2>2. status' = [b \in Backups |-> status'[b]]
      BY <1>1
    <2>. QED
      BY <2>1, <2>2
  <1>10. \A o \in gone : status'[ops[o].backup] \notin {"deleting", "purging"}
    BY <1>2, <1>8, OpFields
  <1>11. RowsKept
    BY <1>2, <1>4, <1>5, <1>6, <1>8, <1>9, <1>10, SettledKept
  <1>. QED
    BY <1>4, <1>5, <1>11 DEF NoNewIncident

\* Both confirmations, of an authorised operation by a call that has read "done".
LEMMA ConfirmRows ==
    ASSUME RowsTyped, Rows, NEW c \in calls, c.op \in OpIds, c.seen = "done",
           ops[c.op].state = "authorized", ConfirmRow(c.op)
    PROVE  RowsKept /\ NoNewIncident
  <1>1. PICK o \in OpIds : o = c.op
    OBVIOUS
  <1>2. PICK r \in Operation :
          /\ r = [ops[o] EXCEPT !.state = "confirmed", !.ticket = NoGen, !.note = "",
                                !.err = FALSE, !.unc = FALSE]
          /\ r.backup = ops[o].backup /\ r.kind = ops[o].kind /\ r.state = "confirmed"
          /\ r.committed = ops[o].committed /\ ~r.err /\ ~r.unc
    <2>1. ops[o] \in Operation
      BY OpFields
    <2>2. ASSUME NEW f \in BOOLEAN
          PROVE  [ops[o] EXCEPT !.state = "confirmed", !.ticket = NoGen, !.note = "",
                                !.err = f, !.unc = f] \in Operation
      BY <2>1 DEF Operation, States
    <2>3. [ops[o] EXCEPT !.state = "confirmed", !.ticket = NoGen, !.note = "",
                         !.err = FALSE, !.unc = FALSE] \in Operation
      BY <2>2, Zenon
    <2>. QED
      BY <2>1, <2>3 DEF Operation
  <1>3. /\ ops' = [ops EXCEPT ![o] = r]
        /\ status' = [status EXCEPT ![ops[o].backup] = After(ops[o].kind)]
    BY <1>1, <1>2 DEF ConfirmRow
  <1>4. /\ ops' \in [OpIds -> Operation] /\ ops'[o] = r
        /\ \A p \in OpIds \ {o} : ops'[p] = ops[p]
    BY <1>3 DEF RowsTyped
  <1>5. /\ status' \in [Backups -> Statuses]
        /\ status'[ops[o].backup] \notin {"deleting", "purging"}
        /\ \A b \in Backups : ops[o].backup # b => status'[b] = status[b]
    <2>1. After(ops[o].kind) \in {"quarantined", "deleted", "complete"}
      BY DEF After
    <2>. QED
      BY <1>3, <2>1, OpFields DEF RowsTyped, Statuses, Stable
  <1>6. Active(o) /\ (o \in Committed => ops[o].committed)
    BY <1>1 DEF Active, Committed
  <1>7. {o} \in SUBSET OpIds
    OBVIOUS
  <1>8. RowsKept
    <2>1. \A p \in {o} : /\ ops'[p].backup = ops[p].backup /\ ops'[p].kind = ops[p].kind
                         /\ ops'[p].state \in {"cancelled", "confirmed"}
                         /\ ops'[p].committed => ops'[p].state = "confirmed"
                         /\ p \in Committed => ops'[p].committed
                         /\ ops'[p].state = "confirmed" =>
                              /\ ops[p].state = "authorized"
                              /\ \E d \in calls : d.op = p /\ d.seen = "done"
      BY <1>1, <1>2, <1>4, <1>6
    <2>2. /\ \A p \in {o} : Active(p)
          /\ \A p \in {o} : status'[ops[p].backup] \notin {"deleting", "purging"}
          /\ \A b \in Backups : (\A p \in {o} : ops[p].backup # b) => status'[b] = status[b]
      BY <1>5, <1>6
    <2>. QED
      BY <1>4, <1>5, <1>7, <2>1, <2>2, SettledKept
  <1>. QED
    BY <1>2, <1>4, <1>8 DEF NoNewIncident

LEMMA ResetRows ==
    ASSUME RowsTyped, Rows, NEW c \in calls, c.op \in OpIds, ResetAuthorized(c)
    PROVE  RowsKept /\ NoNewIncident
  <1>1. PICK o \in OpIds : o = c.op
    OBVIOUS
  <1>. DEFINE cancel == ~ops[o].committed /\ Destructive(o) /\ KeyFor(o) \in revoked
  <1>2. /\ ops[o].state = "authorized"
        /\ ops' = [ops EXCEPT ![o] =
              IF ops[o].committed THEN [ops[o] EXCEPT !.ticket = NoGen, !.unc = FALSE]
              ELSE IF cancel THEN Cancelled(o)
              ELSE [ops[o] EXCEPT !.state = "requested", !.ticket = NoGen,
                                  !.note = "intact", !.unc = FALSE]]
        /\ status' = IF cancel THEN [status EXCEPT ![ops[o].backup] = Restored(o)] ELSE status
    BY <1>1 DEF ResetAuthorized
  <1>3. ops[o] \in Operation /\ Active(o) /\ ops[o].backup \in Backups
    BY <1>2, OpFields DEF Active
  <1>4. CASE cancel
    <2>1. PICK r \in Operation : /\ r = Cancelled(o) /\ r.backup = ops[o].backup
                                 /\ r.kind = ops[o].kind /\ r.state = "cancelled"
                                 /\ r.committed = ops[o].committed /\ ~r.err /\ ~r.unc
      BY CancelledOp
    <2>2. /\ ops' = [ops EXCEPT ![o] = r] /\ ~ops[o].committed
          /\ status' = [status EXCEPT ![ops[o].backup] = Restored(o)]
      BY <1>2, <1>4, <2>1
    <2>3. /\ ops' \in [OpIds -> Operation] /\ ops'[o] = r
          /\ \A p \in OpIds \ {o} : ops'[p] = ops[p]
      BY <2>2 DEF RowsTyped
    <2>4. /\ status' \in [Backups -> Statuses]
          /\ status'[ops[o].backup] \notin {"deleting", "purging"}
          /\ \A b \in Backups : ops[o].backup # b => status'[b] = status[b]
      BY <1>3, <2>2 DEF RowsTyped, Restored, Statuses, Stable
    <2>5. {o} \in SUBSET OpIds /\ o \notin Committed
      BY <2>2 DEF Committed
    <2>6. RowsKept
      <3>1. \A p \in {o} : /\ ops'[p].backup = ops[p].backup /\ ops'[p].kind = ops[p].kind
                           /\ ops'[p].state = "cancelled" /\ ~ops'[p].committed
                           /\ p \notin Committed /\ Active(p)
        BY <1>3, <2>1, <2>2, <2>3, <2>5
      <3>2. /\ \A p \in {o} : status'[ops[p].backup] \notin {"deleting", "purging"}
            /\ \A b \in Backups : (\A p \in {o} : ops[p].backup # b) => status'[b] = status[b]
        BY <2>4
      <3>. QED
        BY <2>3, <2>4, <2>5, <3>1, <3>2, SettledKept
    <2>. QED
      BY <2>1, <2>3, <2>6 DEF NoNewIncident
  <1>5. CASE ~cancel
    <2>1. PICK r \in Operation :
            /\ ops' = [ops EXCEPT ![o] = r]
            /\ r.backup = ops[o].backup /\ r.kind = ops[o].kind
            /\ r.committed = ops[o].committed /\ r.err = ops[o].err /\ ~r.unc
            /\ r.state = IF ops[o].committed THEN "authorized" ELSE "requested"
      <3>1. ASSUME NEW f \in BOOLEAN
            PROVE  /\ [ops[o] EXCEPT !.ticket = NoGen, !.unc = f] \in Operation
                   /\ [ops[o] EXCEPT !.state = "requested", !.ticket = NoGen,
                                     !.note = "intact", !.unc = f] \in Operation
        BY <1>3 DEF Operation, States
      <3>2. /\ [ops[o] EXCEPT !.ticket = NoGen, !.unc = FALSE] \in Operation
            /\ [ops[o] EXCEPT !.state = "requested", !.ticket = NoGen,
                              !.note = "intact", !.unc = FALSE] \in Operation
        BY <3>1, Zenon
      <3>3. CASE ops[o].committed
        BY <1>2, <1>3, <3>2, <3>3 DEF Operation
      <3>4. CASE ~ops[o].committed
        BY <1>2, <1>3, <1>5, <3>2, <3>4 DEF Operation
      <3>. QED
        BY <3>3, <3>4
    <2>2. UNCHANGED status
      BY <1>2, <1>5
    <2>3. /\ r.state \in {"requested", "authorized"} /\ (r.committed => r.state = "authorized")
          /\ (o \in Committed => r.committed)
      BY <2>1 DEF Committed
    <2>4. RowsKept
      BY <1>3, <2>1, <2>2, <2>3, OngoingKept
    <2>5. ops'[o] = r /\ \A p \in OpIds \ {o} : ops'[p] = ops[p]
      BY <2>1 DEF RowsTyped
    <2>. QED
      BY <2>1, <2>4, <2>5 DEF NoNewIncident
  <1>. QED
    BY <1>4, <1>5

\* A ticket is issued, or the final permission given.
LEMMA PermissionRows ==
    ASSUME RowsTyped, Rows, NEW c \in calls, c.op \in OpIds, c.gen \in Gens,
           Authorize(c) \/ Validate(c)
    PROVE  RowsKept /\ NoNewIncident /\ ops'[c.op].state = "authorized"
           /\ (Validate(c) => ops'[c.op].committed)
  <1>1. PICK o \in OpIds : o = c.op
    OBVIOUS
  <1>2. ops[o] \in Operation /\ UNCHANGED status
    BY OpFields DEF Authorize, Validate
  <1>3. CASE Authorize(c)
    <2>1. PICK r \in Operation :
            /\ ops' = [ops EXCEPT ![o] = r]
            /\ r.backup = ops[o].backup /\ r.kind = ops[o].kind /\ r.state = "authorized"
            /\ r.committed = ops[o].committed /\ r.err = ops[o].err /\ r.unc = ops[o].unc
      <3>1. [ops[o] EXCEPT !.state = "authorized", !.ticket = c.gen] \in Operation
        BY <1>2 DEF Operation, States
      <3>2. ops' = [ops EXCEPT ![o] = [ops[o] EXCEPT !.state = "authorized", !.ticket = c.gen]]
        BY <1>1, <1>3 DEF Authorize
      <3>. QED
        BY <1>2, <3>1, <3>2 DEF Operation
    <2>2. Active(o)
      BY <1>1, <1>3 DEF Authorize, Authorizable, Reissuable, Active
    <2>3. RowsKept
      BY <1>2, <2>1, <2>2, OngoingKept DEF Committed
    <2>4. ops'[o] = r /\ \A p \in OpIds \ {o} : ops'[p] = ops[p]
      BY <2>1 DEF RowsTyped
    <2>5. ~Validate(c)
      BY <1>3 DEF Authorize, Validate
    <2>. QED
      BY <1>1, <2>1, <2>3, <2>4, <2>5 DEF NoNewIncident
  <1>4. CASE Validate(c)
    <2>1. PICK r \in Operation :
            /\ ops' = [ops EXCEPT ![o] = r]
            /\ r.backup = ops[o].backup /\ r.kind = ops[o].kind /\ r.state = ops[o].state
            /\ r.committed /\ r.err = ops[o].err /\ r.unc = ops[o].unc
      <3>1. ASSUME NEW t \in BOOLEAN
            PROVE  [ops[o] EXCEPT !.committed = t] \in Operation
        BY <1>2 DEF Operation
      <3>2. [ops[o] EXCEPT !.committed = TRUE] \in Operation
        BY <3>1, Zenon
      <3>3. ops' = [ops EXCEPT ![o] = [ops[o] EXCEPT !.committed = TRUE]]
        BY <1>1, <1>4 DEF Validate
      <3>. QED
        BY <1>2, <3>2, <3>3 DEF Operation
    <2>2. Active(o) /\ ops[o].state = "authorized"
      BY <1>1, <1>4 DEF Validate, Holds, Active
    <2>3. RowsKept
      BY <1>2, <2>1, <2>2, OngoingKept, Zenon
    <2>4. ops'[o] = r /\ \A p \in OpIds \ {o} : ops'[p] = ops[p]
      BY <2>1 DEF RowsTyped
    <2>. QED
      BY <1>1, <2>1, <2>2, <2>3, <2>4 DEF NoNewIncident
  <1>. QED
    BY <1>3, <1>4

\* Notes and incidents of a row.
LEMMA NoteRows ==
    ASSUME RowsTyped, Rows,
           \/ Check
           \/ \E c \in calls : c.op \in OpIds /\ (ReconcileUncertain(c) \/ ReportError(c))
    PROVE  RowsKept
  <1>1. UNCHANGED status
    BY Zenon DEF Check, ReconcileUncertain, ReportError
  <1>2. CASE Check
    <2>1. ops' = [o \in OpIds |-> [ops[o] EXCEPT !.checked = TRUE]]
      BY <1>2 DEF Check
    <2>2. ASSUME NEW op \in Operation, NEW t \in BOOLEAN
          PROVE  /\ [op EXCEPT !.checked = t] \in Operation
                 /\ [op EXCEPT !.checked = t].backup = op.backup
                 /\ [op EXCEPT !.checked = t].kind = op.kind
                 /\ [op EXCEPT !.checked = t].state = op.state
                 /\ [op EXCEPT !.checked = t].committed = op.committed
      BY DEF Operation
    <2>3. \A o \in OpIds :
            /\ ops'[o] \in Operation
            /\ ops'[o].backup = ops[o].backup /\ ops'[o].kind = ops[o].kind
            /\ ops'[o].state = ops[o].state /\ ops'[o].committed = ops[o].committed
      BY <2>1, <2>2, OpFields
    <2>4. ops' \in [OpIds -> Operation]
      BY <2>1, <2>3
    <2>. QED
      BY <1>1, <2>3, <2>4, RowsSame
  <1>3. ASSUME NEW c \in calls, c.op \in OpIds, ReconcileUncertain(c) \/ ReportError(c)
        PROVE  RowsKept
    <2>1. PICK o \in OpIds : o = c.op
      BY <1>3
    <2>2. ops[o] \in Operation
      BY OpFields
    <2>3. PICK r \in Operation : /\ ops' = [ops EXCEPT ![o] = r]
                                 /\ r.backup = ops[o].backup /\ r.kind = ops[o].kind
                                 /\ r.state = ops[o].state /\ r.committed = ops[o].committed
      <3>1. ASSUME NEW t \in BOOLEAN, NEW f \in BOOLEAN
            PROVE  /\ [ops[o] EXCEPT !.unc = t] \in Operation
                   /\ [ops[o] EXCEPT !.note = "error", !.err = t, !.checked = f] \in Operation
        BY <2>2 DEF Operation
      <3>2. /\ [ops[o] EXCEPT !.unc = TRUE] \in Operation
            /\ [ops[o] EXCEPT !.note = "error", !.err = TRUE, !.checked = FALSE] \in Operation
        BY <3>1, Zenon
      <3>3. CASE ReconcileUncertain(c)
        <4>1. ops' = [ops EXCEPT ![o] = [ops[o] EXCEPT !.unc = TRUE]]
          BY <2>1, <3>3 DEF ReconcileUncertain
        <4>. QED
          BY <2>2, <3>2, <4>1 DEF Operation
      <3>4. CASE ReportError(c)
        <4>1. ops' = [ops EXCEPT ![o] = [ops[o] EXCEPT !.note = "error", !.err = TRUE,
                                                        !.checked = FALSE]]
          BY <2>1, <3>4 DEF ReportError
        <4>. QED
          BY <2>2, <3>2, <4>1 DEF Operation
      <3>. QED
        BY <1>3, <3>3, <3>4
    <2>4. ops' \in [OpIds -> Operation] /\ ops'[o] = r
          /\ \A p \in OpIds \ {o} : ops'[p] = ops[p]
      BY <2>3 DEF RowsTyped
    <2>. QED
      BY <1>1, <2>3, <2>4, RowsSame
  <1>. QED
    BY <1>2, <1>3

-----------------------------------------------------------------------------
(* What holds destructive work, and what releases it.                      *)

ReleasedSafely ==
    Blocked /\ ~Blocked' => regular' /\ learned' /\ ~Open' /\ InState("authorized") = {}
PauseStays == "manual" \in holds /\ "manual" \notin holds' => Resume \/ "resume" \in pending
HoldsKept == Automation' /\ ReleasedSafely /\ PauseStays

LEMMA NotFree == Elsewhere # Free /\ Incident # Free /\ \A o \in OpIds : o # Free
  BY Constants DEF Elsewhere, Incident, Free

LEMMA FewerOpen ==
    ASSUME NoNewIncident, alarms' \subseteq alarms, Open'
    PROVE  Open
  BY DEF NoNewIncident, Open, Incidents, Doubts

\* A step that leaves a hold in place releases nothing.
LEMMA HoldLeft ==
    ASSUME AutomationOK', SetupHolds', hold' # Free, PauseStays
    PROVE  HoldsKept
  BY DEF HoldsKept, Automation, OpenHolds, ReleasedSafely, Blocked

\* A step that leaves the holds alone and opens no incident.
LEMMA HoldsSame ==
    ASSUME Automation, AutomationOK', NoNewIncident, alarms' \subseteq alarms,
           UNCHANGED <<hold, holds, pending, learned>>
    PROVE  HoldsKept
  <1>1. SetupHolds' /\ PauseStays
    BY DEF Automation, SetupHolds, PauseStays
  <1>2. OpenHolds'
    BY FewerOpen DEF Automation, OpenHolds
  <1>3. ReleasedSafely
    BY DEF ReleasedSafely, Blocked
  <1>. QED
    BY <1>1, <1>2, <1>3 DEF HoldsKept, Automation

LEMMA HoldsUnchanged ==
    ASSUME Automation, UNCHANGED automation, NoNewIncident
    PROVE  HoldsKept
  <1>1. UNCHANGED <<learned, regular, hold, barred, holds, pending, alarms, checking, owed>>
    BY DEF automation
  <1>2. AutomationOK'
    BY <1>1, Zenon DEF Automation, AutomationOK
  <1>. QED
    BY <1>1, <1>2, HoldsSame

\* barred and checking hold nothing.
LEMMA MarksHolds ==
    ASSUME Automation, NoNewIncident,
           \/ \E k \in Keys : Revoke(k)
           \/ Begin \/ End
           \/ \E c \in calls : ResetAuthorized(c)
    PROVE  HoldsKept
  <1>1. UNCHANGED <<learned, regular, hold, holds, pending, alarms, owed>>
    BY Zenon DEF Revoke, Begin, End, ResetAuthorized
  <1>2. barred' \in BOOLEAN /\ checking' \in BOOLEAN
    BY Zenon DEF Automation, AutomationOK, Revoke, Begin, End, ResetAuthorized
  <1>3. AutomationOK'
    BY <1>1, <1>2, Zenon DEF Automation, AutomationOK
  <1>. QED
    BY <1>1, <1>3, HoldsSame, Zenon

\* Steps that set the hold, of whatever reason.
LEMMA HoldSet ==
    ASSUME Automation,
           \/ \E o \in OpIds : CancelQuarantineRequest(o)
           \/ \E a \in {"external", "operational"} : RaiseAlarm(a)
           \/ ResolveAlarm \/ BeginRelearn \/ ResolveCatalog
           \/ \E b \in Backups : AcknowledgeMissing(b)
           \/ \E mode \in {"auto", "manual", ""} : SetupAutomation(mode)
    PROVE  HoldsKept
  <1>1. hold' \in {Elsewhere, Incident}
    BY DEF CancelQuarantineRequest, RaiseAlarm, BlockFor, ResolveAlarm, BeginRelearn,
           ResolveCatalog, AcknowledgeMissing, SetupAutomation, HoldElsewhere
  <1>2. barred' = FALSE /\ regular' = FALSE
    BY DEF CancelQuarantineRequest, RaiseAlarm, BlockFor, ResolveAlarm, BeginRelearn,
           ResolveCatalog, AcknowledgeMissing, SetupAutomation, HoldElsewhere
  <1>3. owed' \in BOOLEAN
    BY Zenon DEF CancelQuarantineRequest, RaiseAlarm, BlockFor, ResolveAlarm, BeginRelearn,
           ResolveCatalog, AcknowledgeMissing, SetupAutomation, HoldElsewhere, Automation,
           AutomationOK
  <1>4. checking' \in BOOLEAN /\ learned' \in BOOLEAN
    <2>1. CASE BeginRelearn
      BY <2>1, Zenon DEF BeginRelearn, Automation, AutomationOK
    <2>2. CASE \E mode \in {"auto", "manual", ""} : SetupAutomation(mode)
      BY <2>2, Zenon DEF SetupAutomation
    <2>3. CASE UNCHANGED <<checking, learned>>
      BY <2>3, Zenon DEF Automation, AutomationOK
    <2>. QED
      BY <2>1, <2>2, <2>3 DEF CancelQuarantineRequest, RaiseAlarm, ResolveAlarm,
           ResolveCatalog, AcknowledgeMissing
  <1>5. /\ pending' \subseteq {"resume", "activate"}
        /\ alarms' \subseteq Backups \cup {"catalog", "external", "operational"}
    BY DEF CancelQuarantineRequest, RaiseAlarm, BlockFor, ResolveAlarm, BeginRelearn,
           ResolveCatalog, AcknowledgeMissing, SetupAutomation, HoldElsewhere, Automation,
           AutomationOK
  <1>6. /\ holds' \subseteq {"manual", "activation", "mail", "disabled"}
        /\ SetupHolds' /\ PauseStays
    <2>1. CASE \E mode \in {"auto", "manual", ""} : SetupAutomation(mode)
      BY <2>1 DEF SetupAutomation, Automation, AutomationOK, SetupHolds, PauseStays
    <2>2. CASE holds' \in {holds, holds \cup {"manual"}} /\ (learned' \/ UNCHANGED learned)
      <3>1. ~learned' => ~learned
        BY <2>2, Zenon
      <3>2. /\ ~learned => "activation" \in holds
            /\ holds \cap {"mail", "disabled"} # {} => "activation" \in holds
        BY DEF Automation, SetupHolds
      <3>3. /\ holds' \subseteq {"manual", "activation", "mail", "disabled"} /\ PauseStays
            /\ holds \subseteq holds'
            /\ holds' \cap {"mail", "disabled"} # {} => holds \cap {"mail", "disabled"} # {}
        BY <2>2 DEF Automation, AutomationOK, PauseStays
      <3>. QED
        BY <3>1, <3>2, <3>3 DEF SetupHolds
    <2>. QED
      BY <2>1, <2>2 DEF CancelQuarantineRequest, RaiseAlarm, ResolveAlarm, BeginRelearn,
           ResolveCatalog, AcknowledgeMissing
  <1>7. AutomationOK'
    <2>1. barred' \in BOOLEAN /\ regular' \in BOOLEAN
      BY <1>2, Zenon
    <2>2. hold' \in {Free, Elsewhere, Incident} \cup OpIds
      BY <1>1
    <2>. QED
      BY <1>3, <1>4, <1>5, <1>6, <2>1, <2>2 DEF AutomationOK
  <1>8. hold' # Free
    BY <1>1, NotFree
  <1>. QED
    BY <1>6, <1>7, <1>8, HoldLeft

\* Pauses and orders that leave something to resume.
LEMMA OrderHolds ==
    ASSUME Automation, NoNewIncident,
           Pause \/ RequestResume \/ AlarmAges \/ MarkMailTested \/ EnableAutomation
    PROVE  HoldsKept
  <1>1. UNCHANGED <<learned, regular, barred, checking, owed>>
    BY DEF Pause, RequestResume, AlarmAges, MarkMailTested, EnableAutomation
  <1>2. /\ holds' \subseteq {"manual", "activation", "mail", "disabled"}
        /\ pending' \subseteq {"resume", "activate"}
        /\ alarms' \subseteq alarms
        /\ hold' \in {hold, Elsewhere} /\ (hold' = Free => hold = Free)
    BY NotFree
       DEF Pause, RequestResume, AlarmAges, MarkMailTested, EnableAutomation, Automation,
           AutomationOK
  <1>3. AutomationOK'
    <2>1. /\ learned' \in BOOLEAN /\ regular' \in BOOLEAN /\ barred' \in BOOLEAN
          /\ checking' \in BOOLEAN /\ owed' \in BOOLEAN
      BY <1>1, Zenon DEF Automation, AutomationOK
    <2>2. /\ hold' \in {Free, Elsewhere, Incident} \cup OpIds
          /\ alarms' \subseteq Backups \cup {"catalog", "external", "operational"}
      BY <1>2 DEF Automation, AutomationOK
    <2>. QED
      BY <1>2, <2>1, <2>2 DEF AutomationOK
  <1>4. SetupHolds'
    <2>1. /\ ~learned => "activation" \in holds
          /\ holds \cap {"mail", "disabled"} # {} => "activation" \in holds
      BY DEF Automation, SetupHolds
    <2>2. /\ "activation" \in holds => "activation" \in holds'
          /\ holds' \cap {"mail", "disabled"} # {} => holds \cap {"mail", "disabled"} # {}
      BY DEF Pause, RequestResume, AlarmAges, MarkMailTested, EnableAutomation
    <2>. QED
      BY <1>1, <2>1, <2>2 DEF SetupHolds
  <1>5. OpenHolds'
    BY <1>2, FewerOpen DEF Automation, OpenHolds
  <1>6. Blocked => Blocked'
    <2>1. CASE Pause \/ RequestResume
      BY <2>1 DEF Pause, RequestResume, Blocked
    <2>2. CASE AlarmAges
      BY <2>2 DEF AlarmAges, Blocked
    <2>3. CASE MarkMailTested \/ EnableAutomation
      <3>1. "activation" \in holds
        BY <2>3 DEF MarkMailTested, EnableAutomation, Automation, SetupHolds
      <3>. QED
        BY <2>3, <3>1 DEF MarkMailTested, EnableAutomation, Blocked
    <2>. QED
      BY <2>1, <2>2, <2>3
  <1>7. PauseStays
    BY DEF PauseStays, Pause, RequestResume, AlarmAges, MarkMailTested, EnableAutomation
  <1>. QED
    BY <1>3, <1>4, <1>5, <1>6, <1>7 DEF HoldsKept, Automation, ReleasedSafely

\* The incident of an operation: its error, or a doubt about its files.
LEMMA IncidentHolds ==
    ASSUME RowsTyped, Automation, NEW c \in calls, c.op \in OpIds,
           ReconcileUncertain(c) \/ ReportError(c)
    PROVE  HoldsKept
  <1>1. UNCHANGED <<learned, holds, alarms, checking, owed>>
    BY DEF ReconcileUncertain, ReportError
  <1>2. \/ UNCHANGED <<hold, barred, regular, pending>> /\ (ops[c.op].unc \/ ops[c.op].err)
        \/ hold' = c.op /\ barred' = FALSE /\ regular' = FALSE /\ pending' = {}
    BY DEF ReconcileUncertain, ReportError, BlockFor
  <1>3. AutomationOK'
    <2>1. /\ learned' \in BOOLEAN /\ regular' \in BOOLEAN /\ barred' \in BOOLEAN
          /\ checking' \in BOOLEAN /\ owed' \in BOOLEAN
      BY <1>1, <1>2, Zenon DEF Automation, AutomationOK
    <2>2. /\ hold' \in {Free, Elsewhere, Incident} \cup OpIds
          /\ pending' \subseteq {"resume", "activate"}
      BY <1>2 DEF Automation, AutomationOK
    <2>. QED
      BY <1>1, <2>1, <2>2 DEF Automation, AutomationOK
  <1>4. hold' # Free
    <2>1. CASE hold' = c.op
      BY <2>1, NotFree
    <2>2. CASE UNCHANGED hold /\ (ops[c.op].unc \/ ops[c.op].err)
      <3>1. Open
        BY <2>2 DEF Open, Incidents, Doubts
      <3>. QED
        BY <2>2, <3>1 DEF Automation, OpenHolds
    <2>. QED
      BY <1>2, <2>1, <2>2
  <1>5. SetupHolds' /\ PauseStays
    BY <1>1 DEF Automation, SetupHolds, PauseStays
  <1>. QED
    BY <1>3, <1>4, <1>5, HoldLeft

\* A check opens the incidents of files, not those of operations.
LEMMA CheckIncidents ==
    ASSUME RowsTyped, Check
    PROVE  Incidents' = Incidents /\ Doubts' = Doubts
  <1>1. ops' = [o \in OpIds |-> [ops[o] EXCEPT !.checked = TRUE]]
    BY DEF Check
  <1>2. \A o \in OpIds : ops'[o].err = ops[o].err /\ ops'[o].unc = ops[o].unc
    BY <1>1, OpFields DEF Operation
  <1>. QED
    BY <1>2 DEF Incidents, Doubts

\* Store.ResumeRetention, CreateAnomalyExclusion and
\* TryClearResolvedMaintenanceBlock.
LEMMA ReleaseHolds ==
    ASSUME RowsTyped, Automation, NoNewIncident,
           Resume \/ CreateAnomalyExclusion \/ ClearBlock
    PROVE  HoldsKept
  <1>1. UNCHANGED <<learned, checking>> /\ alarms' \subseteq alarms
    BY DEF Resume, CreateAnomalyExclusion, ClearBlock
  <1>2. Blocking = 0 <=> ~Open
    BY BlockingZero DEF Automation, AutomationOK
  <1>3. /\ learned' \in BOOLEAN /\ regular' \in BOOLEAN /\ barred' \in BOOLEAN
        /\ checking' \in BOOLEAN /\ owed' \in BOOLEAN
    <2>1. regular' \in BOOLEAN
      BY Zenon DEF Resume, CreateAnomalyExclusion, ClearBlock, Automation, AutomationOK
    <2>2. barred' \in BOOLEAN /\ owed' \in BOOLEAN
      BY Zenon DEF Resume, Release, CreateAnomalyExclusion, ClearBlock, Automation, AutomationOK
    <2>. QED
      BY <1>1, <2>1, <2>2, Zenon DEF Automation, AutomationOK
  <1>4. AutomationOK'
    <2>1. /\ hold' \in {Free, hold} /\ holds' \in {holds, {}} /\ pending' \in {pending, {}}
      BY DEF Resume, Release, CreateAnomalyExclusion, ClearBlock
    <2>2. /\ hold' \in {Free, Elsewhere, Incident} \cup OpIds
          /\ holds' \subseteq {"manual", "activation", "mail", "disabled"}
          /\ pending' \subseteq {"resume", "activate"}
          /\ alarms' \subseteq Backups \cup {"catalog", "external", "operational"}
      BY <1>1, <2>1 DEF Automation, AutomationOK
    <2>. QED
      BY <1>3, <2>2 DEF AutomationOK
  <1>5. CASE Resume
    <2>1. /\ learned /\ regular /\ ~Open /\ InState("authorized") = {}
          /\ holds' = {} /\ UNCHANGED <<learned, regular>>
      BY <1>2, <1>5 DEF Resume, Release
    <2>2. ~Open'
      BY <1>1, <2>1, FewerOpen
    <2>3. SetupHolds'
      BY <2>1 DEF SetupHolds
    <2>. QED
      BY <1>4, <1>5, <2>1, <2>2, <2>3
         DEF HoldsKept, Automation, OpenHolds, ReleasedSafely, PauseStays
  <1>6. CASE CreateAnomalyExclusion
    <2>1. /\ UNCHANGED <<holds, pending, learned>> /\ alarms' = alarms \ {"operational"}
          /\ \/ UNCHANGED hold
             \/ ExclusionLifts /\ hold' = Free /\ regular' = TRUE
      BY <1>6 DEF CreateAnomalyExclusion
    <2>2. SetupHolds' /\ PauseStays
      BY <2>1 DEF Automation, SetupHolds, PauseStays
    <2>3. CASE UNCHANGED hold
      BY <1>4, <2>1, <2>3, HoldsSame
    <2>4. CASE ExclusionLifts /\ hold' = Free /\ regular' = TRUE
      <3>1. Incidents = {} /\ Doubts = {} /\ alarms' = {} /\ InState("authorized") = {}
        BY <2>1, <2>4 DEF ExclusionLifts
      <3>2. ~Open'
        BY <3>1 DEF NoNewIncident, Open, Incidents, Doubts
      <3>3. ~Blocked' => learned'
        BY <2>2 DEF Blocked, SetupHolds
      <3>. QED
        BY <1>4, <2>2, <2>4, <3>1, <3>2, <3>3
           DEF HoldsKept, Automation, OpenHolds, ReleasedSafely
    <2>. QED
      BY <2>1, <2>3, <2>4
  <1>7. CASE ClearBlock
    <2>1. /\ UNCHANGED <<holds, pending, learned, regular>>
          /\ UNCHANGED hold \/ (Clearable /\ hold' = Free)
      BY <1>7 DEF ClearBlock
    <2>2. SetupHolds' /\ PauseStays
      BY <2>1 DEF Automation, SetupHolds, PauseStays
    <2>3. CASE UNCHANGED hold
      BY <1>1, <1>4, <2>1, <2>3, HoldsSame
    <2>4. CASE Clearable /\ hold' = Free
      <3>1. learned /\ regular /\ ~Open /\ InState("authorized") = {}
        BY <1>2, <2>4 DEF Clearable
      <3>2. ~Open'
        BY <1>1, <3>1, FewerOpen
      <3>. QED
        BY <1>4, <2>1, <2>2, <3>1, <3>2
           DEF HoldsKept, Automation, OpenHolds, ReleasedSafely
    <2>. QED
      BY <2>1, <2>3, <2>4
  <1>. QED
    BY <1>5, <1>6, <1>7

\* CompleteMonitoringCheck, and the resume or activation it carries out.
LEMMA CheckHolds ==
    ASSUME RowsTyped, Automation, Check
    PROVE  HoldsKept
  <1>. DEFINE found == Absent \cup (IF Misplaced = {} THEN {} ELSE {"catalog"})
              new   == found \ alarms
              open  == Incidents # {} \/ Doubts # {} \/ alarms' # {}
  <1>1. alarms' = alarms \cup found /\ learned' = TRUE /\ checking' = FALSE
    BY DEF Check
  <1>2. PICK reliable \in BOOLEAN :
          /\ regular' = (reliable /\ ~open)
          /\ IF regular' /\ Activating THEN Release
             ELSE /\ IF new = {} /\ (reliable \/ open) THEN UNCHANGED <<hold, barred>>
                     ELSE /\ hold' = IF new # {} THEN Incident ELSE Elsewhere
                          /\ barred' = FALSE
                  /\ pending' = IF new = {} THEN pending ELSE {}
                  /\ owed' = (owed \/ (~reliable /\ ~open))
                  /\ UNCHANGED holds
    BY Zenon DEF Check
  <1>3. found \subseteq Backups \cup {"catalog"}
    BY DEF Absent
  <1>4. Open' <=> open
    BY CheckIncidents DEF Open
  <1>5. alarms' # alarms => new # {}
    BY <1>1
  <1>6. /\ regular' \in BOOLEAN /\ learned' \in BOOLEAN /\ checking' \in BOOLEAN
        /\ barred' \in BOOLEAN /\ owed' \in BOOLEAN
    BY <1>1, <1>2, Zenon DEF Automation, AutomationOK, Release
  <1>. HIDE DEF found, new
  <1>7. CASE regular' /\ Activating
    <2>1. Release /\ ~open
      BY <1>2, <1>7
    <2>2. /\ InState("authorized") = {}
          /\ "resume" \in pending \/ "manual" \notin holds
      BY <1>7 DEF Activating
    <2>3. AutomationOK'
      BY <1>1, <1>3, <1>6, <2>1 DEF Automation, AutomationOK, Release
    <2>4. SetupHolds' /\ PauseStays
      BY <1>1, <2>1, <2>2 DEF SetupHolds, PauseStays, Release
    <2>. QED
      BY <1>1, <1>4, <1>7, <2>1, <2>2, <2>3, <2>4
         DEF HoldsKept, Automation, OpenHolds, ReleasedSafely
  <1>8. CASE ~(regular' /\ Activating)
    <2>1. /\ UNCHANGED holds /\ pending' \in {pending, {}}
          /\ hold' \in {hold, Incident, Elsewhere}
          /\ new = {} => pending' = pending
          /\ new # {} => hold' = Incident
      BY <1>2, <1>8
    <2>2. AutomationOK'
      BY <1>1, <1>3, <1>6, <2>1 DEF Automation, AutomationOK
    <2>3. SetupHolds' /\ PauseStays
      BY <1>1, <2>1 DEF Automation, SetupHolds, PauseStays
    <2>4. CASE hold' # Free
      BY <2>2, <2>3, <2>4, HoldLeft
    <2>5. CASE hold' = Free
      <3>1. hold = Free /\ new = {} /\ pending' = pending /\ alarms' = alarms
        BY <1>5, <2>1, <2>5, NotFree
      <3>2. ~Open
        BY <3>1 DEF Automation, OpenHolds
      <3>3. ~Open'
        BY <3>1, <3>2, CheckIncidents DEF Open
      <3>. QED
        BY <2>1, <2>2, <2>3, <3>1, <3>3
           DEF HoldsKept, Automation, OpenHolds, ReleasedSafely, Blocked
    <2>. QED
      BY <2>4, <2>5
  <1>. QED
    BY <1>7, <1>8

-----------------------------------------------------------------------------
(* The process, its calls and the files.                                   *)

LEMMA Apart ==
    ASSUME NEW o \in OpIds, RowsTyped
    PROVE  /\ Destination(o) # {Source(o)}
           /\ Destination(o) # {Source(o)} \cup Destination(o)
           /\ ops[o].kind # "purge" => Destination(o) # {}
           /\ Source(o) \notin Destination(o)
           /\ Destination(o) \subseteq Places /\ Source(o) \in Places
  BY OpFields DEF Destination, Source, Kinds, Places

\* What an operation is about does not change while it is under way.
LEMMA AboutKept ==
    ASSUME OpsProgress, NEW o \in OpIds, ops[o].state # "none"
    PROVE  /\ ops'[o].backup = ops[o].backup /\ ops'[o].kind = ops[o].kind
           /\ Destination(o)' = Destination(o) /\ Source(o)' = Source(o)
           /\ Active(o)' => Active(o)
           /\ ops'[o].state # "none"
  BY DEF OpsProgress, Destination, Source

\* Calls that have read "done" have read it of the file as it is now, or had
\* done so before.
DoneTrue ==
    \A d \in calls' : d.seen = "done" =>
        \/ \E c \in calls : c.op = d.op /\ c.seen = "done"
        \/ /\ ops[d.op].state # "none"
           /\ where[ops[d.op].backup] = Destination(d.op)

LEMMA DoneStays ==
    ASSUME RowsTyped, Work, OpsProgress, UNCHANGED where, calls' \subseteq Call, DoneTrue
    PROVE  DoneOK'
  <1>1. SUFFICES ASSUME NEW d \in calls', d.seen = "done", Active(d.op)'
                 PROVE  where'[ops'[d.op].backup] \in {Destination(d.op)', {}}
    BY DEF DoneOK
  <1>2. d.op \in OpIds
    BY DEF Call
  <1>3. ops[d.op].state # "none"
    BY <1>1 DEF DoneTrue, Work, CallsOK
  <1>4. /\ ops'[d.op].backup = ops[d.op].backup /\ Destination(d.op)' = Destination(d.op)
        /\ Active(d.op)
    BY <1>1, <1>2, <1>3, AboutKept
  <1>5. where[ops[d.op].backup] \in {Destination(d.op), {}}
    BY <1>1, <1>4 DEF DoneTrue, Work, DoneOK
  <1>. QED
    BY <1>4, <1>5

\* While the process stays where it is, others may serve old calls and give
\* orders: its permission and the state of the file stay.
LEMMA MoveStays ==
    ASSUME RowsTyped, Work, OpsProgress, UNCHANGED <<where, pc, todo>>, DoneTrue
    PROVE  MoveOK'
  <1>1. CASE pc \notin {"verify", "move", "linked"}
    BY <1>1 DEF MoveOK
  <1>2. CASE pc \in {"verify", "move", "linked"}
    <2>1. todo # {}
      BY <1>2 DEF Work, CallsOK, AtWork
    <2>2. cur' = cur /\ cur \in todo /\ cur \in OpIds
      BY <2>1, CurIn DEF Work, cur
    <2>3. ops[cur].state # "none"
      BY <2>2 DEF Work, CallsOK
    <2>4. PICK o \in OpIds : o = cur
      BY <2>2
    <2>5. /\ ops'[o].backup = ops[o].backup /\ ops'[o].kind = ops[o].kind
          /\ Destination(o)' = Destination(o) /\ Source(o)' = Source(o)
      BY <2>3, <2>4, AboutKept
    <2>6. file' = file
      BY <2>2, <2>4, <2>5 DEF file
    <2>7. (\E c \in calls : c.op = o /\ c.seen = "done") /\ Active(o)
            => where[file] # {Source(o)}
      BY <2>4, Apart DEF Work, DoneOK, file
    <2>8. ops'[o].state = "confirmed" => ops[o].state = "confirmed" \/ where[file] # {Source(o)}
      BY <2>7 DEF OpsProgress, Active
    <2>9. CASE pc = "verify"
      BY <2>2, <2>4, <2>5, <2>6, <2>8, <2>9 DEF Work, MoveOK
    <2>10. CASE pc = "move"
      <3>1. o \in Committed /\ where[file] = {Source(o)} => o \in Committed'
        BY <2>8 DEF OpsProgress, Committed, InState
      <3>. QED
        BY <2>2, <2>4, <2>5, <2>6, <2>10, <3>1 DEF Work, MoveOK
    <2>11. CASE pc = "linked"
      <3>1. /\ o \in Committed /\ ops[o].kind # "purge"
            /\ where[file] \in {{Source(o)} \cup Destination(o), {}}
            /\ \A c \in calls : c.op = o => c.seen # "done"
        BY <2>4, <2>11 DEF Work, MoveOK
      <3>2. o \in Committed'
        BY <3>1 DEF OpsProgress, Committed, InState
      <3>3. where[ops[o].backup] # Destination(o)
        BY <2>4, <3>1, Apart DEF file
      <3>4. \A d \in calls' : d.op = o => d.seen # "done"
        BY <3>1, <3>3 DEF DoneTrue
      <3>. QED
        BY <2>2, <2>4, <2>5, <2>6, <2>11, <3>1, <3>2, <3>4 DEF MoveOK
    <2>. QED
      BY <1>2, <2>9, <2>10, <2>11
  <1>. QED
    BY <1>1, <1>2

\* Calls are withdrawn or advanced, none is added and none starts to wait.
CallsFollow ==
    /\ \A d \in calls' : \E c \in calls : c.op = d.op /\ (d.live => c.live)
    /\ \A d, e \in calls' : d.live /\ e.live => d = e

\* The process stays where it is and its file too.
LEMMA WorkStays ==
    ASSUME RowsTyped, Work, OpsProgress, UNCHANGED <<where, cycle>>,
           calls' \subseteq Call, CallsFollow, DoneTrue
    PROVE  Work'
  <1>1. CycleOK'
    BY DEF Work, CycleOK, cycle
  <1>2. UNCHANGED <<where, pc, todo>> /\ cur' = cur
    BY DEF cycle, cur
  <1>3. DoneOK' /\ MoveOK'
    BY <1>2, DoneStays, MoveStays
  <1>4. \A o \in OpIds : ops[o].state # "none" => ops'[o].state # "none"
    BY DEF OpsProgress
  <1>5. \A c \in calls' : c.op \in OpIds /\ ops[c.op].state # "none"
    BY DEF CallsFollow, Work, CallsOK, Call
  <1>6. \A o \in todo : o \in OpIds /\ ops[o].state # "none"
    BY DEF Work, CallsOK, CycleOK
  <1>7. CallsOK'
    <2>1. \A c \in calls' : ops'[c.op].state # "none"
      BY <1>4, <1>5
    <2>2. \A o \in todo' : ops'[o].state # "none"
      BY <1>2, <1>4, <1>6
    <2>3. (pc' \in AtWork => todo' # {}) /\ (pc' # "idle" => gen' \in Gens)
      BY DEF Work, CallsOK, cycle
    <2>4. \A c \in calls' : c.live => pc' = "wait" /\ c.op = cur'
      BY <1>2 DEF CallsFollow, Work, CallsOK
    <2>5. \A c, d \in calls' : c.live /\ d.live => c = d
      BY DEF CallsFollow
    <2>. QED
      BY <2>1, <2>2, <2>3, <2>4, <2>5 DEF CallsOK
  <1>. QED
    BY <1>1, <1>3, <1>7 DEF Work

\* The process goes on to a step that moves nothing, and waits for no call.
LEMMA WorkLeaves ==
    ASSUME RowsTyped, Work, OpsProgress, UNCHANGED where,
           calls' \subseteq Call, CallsFollow, DoneTrue, \A d \in calls' : ~d.live,
           CycleOK', pc' \notin {"verify", "move", "linked"},
           pc' \in AtWork => todo' # {}, pc' # "idle" => gen' \in Gens,
           \A o \in todo' : ops[o].state # "none"
    PROVE  Work'
  <1>1. DoneOK'
    BY DoneStays
  <1>2. MoveOK'
    BY DEF MoveOK
  <1>3. \A o \in OpIds : ops[o].state # "none" => ops'[o].state # "none"
    BY DEF OpsProgress
  <1>4. \A c \in calls' : c.op \in OpIds /\ ops[c.op].state # "none"
    BY DEF CallsFollow, Work, CallsOK, Call
  <1>5. \A o \in todo' : o \in OpIds
    BY DEF CycleOK
  <1>6. CallsOK'
    <2>1. (\A c \in calls' : ops'[c.op].state # "none") /\ \A o \in todo' : ops'[o].state # "none"
      BY <1>3, <1>4, <1>5
    <2>. QED
      BY <2>1 DEF CallsOK
  <1>. QED
    BY <1>1, <1>2, <1>6 DEF Work

LEMMA CallsSame ==
    ASSUME Work, UNCHANGED calls
    PROVE  calls' \subseteq Call /\ CallsFollow /\ DoneTrue
  BY DEF Work, CallsOK, CallsFollow, DoneTrue

\* A process that is not waiting has no call that waits for it.
LEMMA NoneWaits ==
    ASSUME Work, pc # "wait"
    PROVE  \A c \in calls : ~c.live
  BY DEF Work, CallsOK

-----------------------------------------------------------------------------
(* Steps.                                                                  *)

Step == RowsKept /\ HoldsKept /\ FilesTyped' /\ Ledger' /\ Work'

LEMMA FilesSame ==
    ASSUME FilesTyped, UNCHANGED files
    PROVE  FilesTyped'
  BY DEF FilesTyped, files

LEMMA LedgerSame ==
    ASSUME Ledger, UNCHANGED <<lease, held, faults>>, ripe' \subseteq Backups,
           missing' \subseteq Backups, revoked' \subseteq Keys
    PROVE  Ledger'
  <1>1. lease' \in Gens \cup {NoGen} /\ faults' \in 0 .. MaxFaults
    BY DEF Ledger
  <1>2. held' \in BOOLEAN
    BY Zenon DEF Ledger
  <1>. QED
    BY <1>1, <1>2 DEF Ledger

\* Administrators change rows and holds behind the back of the process.
LEMMA AdministrationStep ==
    ASSUME Inductive, Administration
    PROVE  Step
  <1>1. UNCHANGED <<leases, files, cycle, calls, faults>>
    BY DEF Administration, RequestQuarantine, RequestRecovery, AcknowledgeMissing, Ripen,
           CancelQuarantineRequest, Revoke, Pause, RequestResume, Resume, ResolveAlarm,
           RaiseAlarm, AlarmAges, CreateAnomalyExclusion, BeginRelearn, SetupAutomation,
           MarkMailTested, EnableAutomation
  <1>2. ripe' \subseteq Backups /\ missing' \subseteq Backups /\ revoked' \subseteq Keys
    BY DEF Administration, RequestQuarantine, RequestRecovery, AcknowledgeMissing, Ripen,
           CancelQuarantineRequest, Revoke, Pause, RequestResume, Resume, ResolveAlarm,
           RaiseAlarm, AlarmAges, CreateAnomalyExclusion, BeginRelearn, SetupAutomation,
           MarkMailTested, EnableAutomation, catalogue, Inductive, Ledger
  <1>3. Ledger' /\ FilesTyped'
    BY <1>1, <1>2, LedgerSame, FilesSame DEF Inductive, leases
  <1>4. ASSUME RowsKept
        PROVE  Work'
    BY <1>1, <1>4, CallsSame, WorkStays DEF Inductive, RowsKept, files
  <1>5. RowsKept /\ HoldsKept
    <2>. USE DEF Inductive
    <2>1. learned \in BOOLEAN
      BY Zenon DEF Automation, AutomationOK
    <2>2. ASSUME NEW b \in Backups, RequestQuarantine(b) \/ RequestRecovery(b)
          PROVE  RowsKept /\ HoldsKept
      <3>1. UNCHANGED automation
        BY <2>2 DEF RequestQuarantine, RequestRecovery
      <3>. QED
        BY <2>1, <2>2, <3>1, RequestRows, HoldsUnchanged
    <2>3. ASSUME NEW o \in OpIds, CancelQuarantineRequest(o)
          PROVE  RowsKept /\ HoldsKept
      BY <2>3, CancelRows, HoldSet
    <2>4. ASSUME NEW k \in Keys, Revoke(k)
          PROVE  RowsKept /\ HoldsKept
      BY <2>4, RevokeRows, MarksHolds
    <2>5. CASE UNCHANGED <<status, ops>>
      <3>1. RowsKept /\ NoNewIncident
        BY <2>5, RowsUnchanged
      <3>2. CASE \E b \in Backups : Ripen(b)
        <4>1. UNCHANGED automation
          BY <3>2 DEF Ripen
        <4>. QED
          BY <3>1, <4>1, HoldsUnchanged
      <3>3. CASE \/ ResolveAlarm \/ BeginRelearn
                 \/ \E a \in {"external", "operational"} : RaiseAlarm(a)
                 \/ \E b \in Backups : AcknowledgeMissing(b)
                 \/ \E mode \in {"auto", "manual", ""} : SetupAutomation(mode)
        BY <3>1, <3>3, HoldSet
      <3>4. CASE Pause \/ RequestResume \/ AlarmAges \/ MarkMailTested \/ EnableAutomation
        BY <3>1, <3>4, OrderHolds
      <3>5. CASE Resume \/ CreateAnomalyExclusion
        BY <3>1, <3>5, ReleaseHolds
      <3>6. CASE \E b \in Backups : RequestQuarantine(b) \/ RequestRecovery(b)
        BY <2>2, <3>6
      <3>7. CASE \E o \in OpIds : CancelQuarantineRequest(o)
        BY <2>3, <3>7
      <3>8. CASE \E k \in Keys : Revoke(k)
        BY <2>4, <3>8
      <3>. QED
        BY <3>2, <3>3, <3>4, <3>5, <3>6, <3>7, <3>8 DEF Administration
    <2>6. CASE ~UNCHANGED <<status, ops>>
      <3>1. \/ \E b \in Backups : RequestQuarantine(b) \/ RequestRecovery(b)
            \/ \E o \in OpIds : CancelQuarantineRequest(o)
            \/ \E k \in Keys : Revoke(k)
        BY <2>6 DEF Administration, AcknowledgeMissing, Ripen,
           Pause, RequestResume, Resume, ResolveAlarm,
           RaiseAlarm, AlarmAges, CreateAnomalyExclusion, BeginRelearn, SetupAutomation,
           MarkMailTested, EnableAutomation, catalogue
      <3>. QED
        BY <2>2, <2>3, <2>4, <3>1
    <2>. QED
      BY <2>5, <2>6
  <1>. QED
    BY <1>3, <1>4, <1>5 DEF Step

\* A step of the process that changes neither rows nor holds.
LEMMA PlainStep ==
    ASSUME Inductive, UNCHANGED <<status, ops, automation>>
    PROVE  RowsKept /\ HoldsKept
  BY RowsUnchanged, HoldsUnchanged DEF Inductive

\* Where the process may turn to, after any step but those that move a file.
Turning ==
    /\ pc' \in {"idle", "snapshot", "op", "sync", "confirm", "report", "check", "clear",
                "purge", "end"}
    /\ phase' \in Phases /\ gen' \in Gens \cup {NoGen} /\ (pc' # "idle" => gen' \in Gens)
    /\ todo' \subseteq OpIds /\ due' \subseteq Backups
    /\ pc' \in AtWork => todo' # {}
    /\ \A o \in todo' : ops[o].state # "none"

LEMMA TurnWork ==
    ASSUME RowsTyped, Work, OpsProgress, UNCHANGED <<where, calls>>, pc # "wait", Turning
    PROVE  Work'
  <1>1. CycleOK'
    BY DEF Turning, CycleOK, PCs
  <1>2. calls' \subseteq Call /\ CallsFollow /\ DoneTrue
    BY CallsSame
  <1>3. \A d \in calls' : ~d.live
    BY NoneWaits
  <1>4. /\ pc' \notin {"verify", "move", "linked"} /\ (pc' \in AtWork => todo' # {})
        /\ (pc' # "idle" => gen' \in Gens) /\ \A o \in todo' : ops[o].state # "none"
    BY DEF Turning
  <1>. QED
    BY <1>1, <1>2, <1>3, <1>4, WorkLeaves

\* The continuations of the process but those that go on to move a file.
LEMMA Turns ==
    ASSUME RowsTyped, Work, pc # "idle",
           \/ NextOp \/ Abort
           \/ pc \in AtWork /\ \E to \in {"sync", "confirm", "report"} : Proceed(to)
    PROVE  Turning
  <1>1. /\ phase \in Phases /\ gen \in Gens /\ todo \subseteq OpIds /\ due \subseteq Backups
        /\ \A o \in todo : ops[o].state # "none"
        /\ pc \in AtWork => todo # {}
    BY DEF Work, CycleOK, CallsOK
  <1>. QED
    BY <1>1 DEF Turning, NextOp, Abort, Proceed, AtWork

\* The steps of a cycle that touch neither the catalogue nor the directories.
LEMMA CycleStep ==
    ASSUME Inductive,
           \/ TakeSnapshot \/ PhaseDone \/ LeaseLost \/ SourceRejected \/ CheckRefused
           \/ \E b \in Backups : PurgeSkipped(b) \/ PurgeRefused(b)
           \/ PurgesScheduled
    PROVE  Step
  <1>1. UNCHANGED <<catalogue, automation, leases, files, calls, faults>> /\ pc # "wait"
        /\ pc # "idle"
    BY DEF TakeSnapshot, PhaseDone, LeaseLost, SourceRejected, CheckRefused, PurgeSkipped,
           PurgeRefused, PurgesScheduled
  <1>2. RowsKept /\ HoldsKept
    BY <1>1, PlainStep DEF catalogue
  <1>3. FilesTyped' /\ Ledger'
    BY <1>1, FilesSame, LedgerSame DEF Inductive, Ledger, catalogue, leases
  <1>4. Turning
    <2>1. /\ phase \in Phases /\ gen \in Gens /\ todo \subseteq OpIds /\ due \subseteq Backups
          /\ \A o \in todo : ops[o].state # "none"
          /\ pc \in AtWork => todo # {}
      BY <1>1 DEF Inductive, Work, CycleOK, CallsOK
    <2>2. CASE TakeSnapshot
      BY <2>1, <2>2 DEF TakeSnapshot, Turning, InState, Committed, AtWork
    <2>3. CASE PhaseDone
      BY <2>1, <2>3 DEF PhaseDone, Turning, Phases, AtWork
    <2>4. CASE LeaseLost \/ SourceRejected \/ CheckRefused \/ \E b \in Backups : PurgeRefused(b)
      <3>1. Abort \/ (pc \in AtWork /\ Proceed("report"))
        BY <2>4 DEF LeaseLost, SourceRejected, CheckRefused, PurgeRefused, AtWork
      <3>. QED
        BY <1>1, <3>1, Turns DEF Inductive
    <2>5. CASE PurgesScheduled \/ \E b \in Backups : PurgeSkipped(b)
      BY <2>1, <2>5 DEF PurgesScheduled, PurgeSkipped, Turning, Phases, AtWork
    <2>. QED
      BY <2>2, <2>3, <2>4, <2>5
  <1>5. Work'
    BY <1>1, <1>2, <1>4, TurnWork DEF Inductive, RowsKept, files
  <1>. QED
    BY <1>2, <1>3, <1>5 DEF Step

\* Taking the lease and giving it back.
LEMMA LeaseStep ==
    ASSUME Inductive, Begin \/ End
    PROVE  Step
  <1>1. UNCHANGED <<catalogue, files, calls, faults, todo, due>> /\ pc # "wait"
    BY DEF Begin, End
  <1>2. RowsKept /\ NoNewIncident
    BY <1>1, RowsUnchanged DEF Inductive, catalogue
  <1>3. HoldsKept
    BY <1>2, MarksHolds DEF Inductive
  <1>4. FilesTyped'
    BY <1>1, FilesSame DEF Inductive
  <1>5. CASE Begin
    <2>1. FreshGens \subseteq Nat /\ FreshGens \subseteq Gens
      BY Constants DEF FreshGens
    <2>2. Min(FreshGens) \in FreshGens
      BY <1>5, <2>1, MinOf DEF Begin
    <2>3. gen' \in Gens /\ lease' \in Gens
      BY <1>5, <2>1, <2>2 DEF Begin
    <2>4. Ledger'
      <3>1. held' \in BOOLEAN
        BY <1>5, Zenon DEF Begin
      <3>. QED
        BY <1>1, <2>3, <3>1 DEF Inductive, Ledger, catalogue
    <2>5. Turning
      BY <1>1, <1>5, <2>3 DEF Begin, Turning, Phases, AtWork, Inductive, Work, CycleOK, CallsOK
    <2>. QED
      BY <1>1, <1>2, <1>3, <1>4, <2>4, <2>5, TurnWork DEF Step, Inductive, RowsKept, files
  <1>6. CASE End
    <2>1. Ledger'
      <3>1. held' \in BOOLEAN
        BY <1>6, Zenon DEF End
      <3>. QED
        BY <1>1, <1>6, <3>1 DEF End, Inductive, Ledger, catalogue
    <2>2. Turning
      BY <1>1, <1>6 DEF End, Turning, Phases, AtWork, Inductive, Work, CycleOK, CallsOK
    <2>. QED
      BY <1>1, <1>2, <1>3, <1>4, <2>1, <2>2, TurnWork DEF Step, Inductive, RowsKept, files
  <1>. QED
    BY <1>5, <1>6

\* The check, the clearing of blocks and the scheduling of purges.
LEMMA CheckStep ==
    ASSUME Inductive,
           Check \/ ClearBlock \/ ResolveCatalog \/ \E b \in Backups : RequestPurge(b)
    PROVE  Step
  <1>1. UNCHANGED <<ripe, missing, revoked, leases, files, phase, gen, todo, calls, faults>>
    BY DEF Check, ClearBlock, ResolveCatalog, RequestPurge, catalogue
  <1>2. pc \in {"check", "clear", "purge"} /\ pc' \in {"clear", "purge"}
    BY DEF Check, ClearBlock, ResolveCatalog, RequestPurge
  <1>3. FilesTyped' /\ Ledger'
    BY <1>1, FilesSame, LedgerSame DEF Inductive, Ledger, leases
  <1>4. RowsKept /\ HoldsKept
    <2>1. CASE Check
      BY <2>1, NoteRows, CheckHolds DEF Inductive
    <2>2. CASE ClearBlock
      <3>1. RowsKept /\ NoNewIncident
        BY <2>2, RowsUnchanged DEF ClearBlock, Inductive, catalogue
      <3>. QED
        BY <2>2, <3>1, ReleaseHolds DEF Inductive
    <2>3. CASE ResolveCatalog
      <3>1. RowsKept /\ NoNewIncident
        BY <2>3, RowsUnchanged DEF ResolveCatalog, Inductive, catalogue
      <3>. QED
        BY <2>3, <3>1, HoldSet DEF Inductive
    <2>4. ASSUME NEW b \in Backups, RequestPurge(b)
          PROVE  RowsKept /\ HoldsKept
      <3>1. UNCHANGED automation
        BY <2>4 DEF RequestPurge
      <3>2. learned \in BOOLEAN
        BY Zenon DEF Inductive, Automation, AutomationOK
      <3>. QED
        BY <2>4, <3>1, <3>2, RequestRows, HoldsUnchanged DEF Inductive
    <2>. QED
      BY <2>1, <2>2, <2>3, <2>4
  <1>5. due' \subseteq Backups
    <2>1. ripe \subseteq Backups /\ due \subseteq Backups
      BY DEF Inductive, Ledger, Work, CycleOK
    <2>2. CASE Check
      BY <2>1, <2>2 DEF Check
    <2>. QED
      BY <2>1, <2>2 DEF ClearBlock, ResolveCatalog, RequestPurge
  <1>6. Turning
    BY <1>1, <1>2, <1>5 DEF Turning, Inductive, Work, CycleOK, CallsOK, AtWork
  <1>. QED
    BY <1>1, <1>2, <1>3, <1>4, <1>6, TurnWork DEF Step, Inductive, RowsKept, files

\* The process sends a call about the operation at hand and waits for it.
LEMMA SendStep ==
    ASSUME Inductive,
           CallReconcile \/ CallAuthorize \/ CallValidate \/ CallConfirm \/ CallReport
    PROVE  Step
  <1>1. PICK type \in Endpoints : Send(type)
    BY DEF CallReconcile, CallAuthorize, CallValidate, CallConfirm, CallReport, Endpoints
  <1>2. pc \notin {"idle", "wait"} /\ (todo # {} \/ pc \in AtWork)
    BY DEF CallReconcile, CallAuthorize, CallValidate, CallConfirm, CallReport, AtWork
  <1>3. todo # {} /\ gen \in Gens
    BY <1>2 DEF Inductive, Work, CallsOK
  <1>4. cur \in todo /\ cur \in OpIds
    BY <1>3, CurIn DEF Inductive, Work
  <1>5. PICK d \in Call : d.op = cur /\ d.seen = "unread" /\ calls' = calls \cup {d}
    <2>1. ASSUME NEW f \in BOOLEAN, NEW t \in BOOLEAN
          PROVE  [type |-> type, op |-> cur, gen |-> gen, seen |-> "unread",
                  cleared |-> f, live |-> t] \in Call
      BY <1>3, <1>4 DEF Call, Outcomes
    <2>2. [type |-> type, op |-> cur, gen |-> gen, seen |-> "unread",
           cleared |-> FALSE, live |-> TRUE] \in Call
      BY <2>1, Zenon
    <2>. QED
      BY <1>1, <2>2 DEF Send
  <1>6. UNCHANGED <<catalogue, automation, leases, files, faults, phase, gen, todo, due>>
        /\ pc' = "wait"
    BY <1>1 DEF Send, Proceed
  <1>7. RowsKept /\ HoldsKept
    BY <1>6, PlainStep DEF catalogue
  <1>8. FilesTyped' /\ Ledger'
    BY <1>6, FilesSame, LedgerSame DEF Inductive, Ledger, catalogue, leases
  <1>9. Work'
    <2>1. CycleOK' /\ calls' \subseteq Call /\ cur' = cur
      BY <1>5, <1>6 DEF Inductive, Work, CycleOK, PCs, cur
    <2>2. \A c \in calls : ~c.live
      BY <1>2, NoneWaits DEF Inductive
    <2>3. CallsOK'
      <3>1. ops' = ops /\ ops[cur].state # "none"
        BY <1>4, <1>6 DEF Inductive, Work, CallsOK, catalogue
      <3>2. /\ \A c \in calls' : ops'[c.op].state # "none"
            /\ \A o \in todo' : ops'[o].state # "none"
        BY <1>5, <1>6, <3>1 DEF Inductive, Work, CallsOK
      <3>3. \A c \in calls' : c.live => pc' = "wait" /\ c.op = cur'
        BY <1>5, <1>6, <2>1, <2>2
      <3>4. \A c, e \in calls' : c.live /\ e.live => c = e
        BY <1>5, <2>2
      <3>. QED
        BY <1>3, <1>6, <3>2, <3>3, <3>4 DEF CallsOK
    <2>4. DoneTrue
      BY <1>5 DEF DoneTrue
    <2>5. DoneOK'
      BY <1>6, <1>7, <2>1, <2>4, DoneStays DEF Inductive, RowsKept, files
    <2>6. MoveOK'
      BY <1>6 DEF MoveOK
    <2>. QED
      BY <2>1, <2>3, <2>5, <2>6 DEF Work
  <1>. QED
    BY <1>7, <1>8, <1>9 DEF Step

\* The source is verified and the permission is there already.
LEMMA VerifyStep ==
    ASSUME Inductive, Verify
    PROVE  Step
  <1>1. /\ UNCHANGED <<catalogue, automation, leases, files, faults, calls, phase, gen, todo, due>>
        /\ pc = "verify" /\ pc' = "move" /\ where[file] = {Source(cur)} /\ ops[cur].committed
    BY DEF Verify, Proceed
  <1>2. RowsKept /\ HoldsKept
    BY <1>1, PlainStep DEF catalogue
  <1>3. FilesTyped' /\ Ledger'
    BY <1>1, FilesSame, LedgerSame DEF Inductive, Ledger, catalogue, leases
  <1>4. todo # {} /\ cur \in OpIds
    BY <1>1, CurIn DEF Inductive, Work, CallsOK, AtWork
  <1>5. cur \in Committed
    BY <1>1, <1>4 DEF Inductive, Rows, Granted, Work, MoveOK, Committed, InState
  <1>6. cur' = cur /\ file' = file /\ Committed' = Committed /\ Source(cur)' = Source(cur)
    BY <1>1 DEF cur, file, Committed, InState, Source, catalogue
  <1>7. \A c \in calls : ~c.live
    BY <1>1, NoneWaits DEF Inductive
  <1>8. CycleOK' /\ calls' \subseteq Call /\ CallsOK'
    BY <1>1, <1>4, <1>7 DEF Inductive, Work, CycleOK, PCs, CallsOK, catalogue
  <1>9. DoneOK'
    BY <1>1, <1>2, CallsSame, DoneStays DEF Inductive, RowsKept, files
  <1>10. MoveOK'
    BY <1>1, <1>5, <1>6 DEF MoveOK
  <1>. QED
    BY <1>2, <1>3, <1>8, <1>9, <1>10 DEF Step, Work

\* The file of the operation at hand moves: no call has read it as moved, and no
\* other active operation is about it.
LEMMA MovedWork ==
    ASSUME RowsTyped, Rows, FilesTyped, Work, UNCHANGED <<ops, calls>>,
           pc \in {"move", "linked"},
           cur \in Committed, \A c \in calls : c.op = cur => c.seen # "done",
           NEW X \in SUBSET Places, where' = [where EXCEPT ![file] = X],
           \E to \in {"sync", "linked"} : Proceed(to), MoveOK'
    PROVE  Work'
  <1>1. todo # {}
    BY DEF Work, CallsOK, AtWork
  <1>2. cur \in OpIds /\ file \in Backups
    BY <1>1, CurIn DEF Work
  <1>3. UNCHANGED <<phase, gen, todo, due>> /\ pc' \in {"sync", "linked"} /\ cur' = cur
    BY DEF Proceed, cur
  <1>4. \A c \in calls : ~c.live
    BY NoneWaits
  <1>5. CycleOK' /\ calls' \subseteq Call
    BY <1>3 DEF Work, CycleOK, PCs
  <1>6. ASSUME NEW c \in calls, c.seen = "done", Active(c.op)
        PROVE  ops[c.op].backup # file /\ ops[c.op].backup \in Backups
    <2>1. c.op \in OpIds /\ c.op # cur /\ Active(cur)
      BY <1>6 DEF Work, Call, Committed, InState, Active
    <2>2. ops[c.op].backup # ops[cur].backup
      BY <1>2, <1>6, <2>1 DEF Rows, OneActive
    <2>. QED
      BY <2>1, <2>2, OpFields DEF file
  <1>7. DoneOK'
    <2>1. ASSUME NEW c \in calls, c.seen = "done", Active(c.op)
          PROVE  where'[ops[c.op].backup] \in {Destination(c.op), {}}
      <3>1. where'[ops[c.op].backup] = where[ops[c.op].backup]
        BY <1>6, <2>1 DEF FilesTyped
      <3>. QED
        BY <2>1, <3>1 DEF Work, DoneOK
    <2>2. \A o : Active(o)' = Active(o) /\ Destination(o)' = Destination(o)
      BY DEF Active, Destination
    <2>. QED
      BY <2>1, <2>2 DEF DoneOK
  <1>8. CallsOK'
    BY <1>1, <1>3, <1>4 DEF Work, CallsOK, AtWork
  <1>. QED
    BY <1>5, <1>7, <1>8 DEF Work

\* The rename or unlink, and the link and removal that stand for it.
LEMMA MoveStep ==
    ASSUME Inductive, Move \/ MoveLink \/ MoveRemove
    PROVE  Step
  <1>1. /\ UNCHANGED <<catalogue, automation, leases, calls, faults, phase, gen, todo, due>>
        /\ pc \in {"move", "linked"} /\ pc' \in {"sync", "linked"} /\ UNCHANGED ops
    BY DEF Move, MoveLink, MoveRemove, Proceed, catalogue
  <1>2. RowsKept /\ HoldsKept
    BY <1>1, PlainStep DEF catalogue
  <1>3. Ledger'
    BY <1>1, LedgerSame DEF Inductive, Ledger, catalogue, leases
  <1>4. cur \in OpIds /\ file \in Backups
    BY <1>1, CurIn DEF Inductive, Work, CallsOK, AtWork
  <1>5. cur \in Committed
    BY DEF Inductive, Work, MoveOK, Move, MoveLink, MoveRemove
  <1>6. /\ Destination(cur) # {Source(cur)} /\ {Source(cur)} # {}
        /\ Destination(cur) \subseteq Places /\ Source(cur) \in Places
    BY <1>4, Apart DEF Inductive
  <1>7. \A c \in calls : c.op = cur => c.seen # "done"
    <2>1. CASE pc = "linked"
      BY <2>1 DEF Inductive, Work, MoveOK
    <2>2. CASE where[file] = {Source(cur)}
      <3>1. Active(cur)
        BY <1>5 DEF Committed, InState, Active
      <3>2. where[ops[cur].backup] \notin {Destination(cur), {}}
        BY <1>6, <2>2 DEF file
      <3>. QED
        BY <3>1, <3>2 DEF Inductive, Work, DoneOK
    <2>. QED
      BY <2>1, <2>2 DEF Move, MoveLink, MoveRemove
  <1>8. PICK X \in SUBSET Places :
          /\ where' = [where EXCEPT ![file] = X]
          /\ MoveLink => X = {Source(cur)} \cup Destination(cur)
    <2>1. where[file] \in SUBSET Places
      BY <1>4 DEF Inductive, FilesTyped
    <2>2. CASE Move
      BY <1>6, <2>2 DEF Move, MoveLink, Proceed
    <2>3. CASE MoveLink
      BY <1>6, <2>1, <2>3 DEF MoveLink
    <2>4. CASE MoveRemove
      BY <2>1, <2>4 DEF MoveRemove, MoveLink
    <2>. QED
      BY <2>2, <2>3, <2>4
  <1>9. FilesTyped'
    <2>1. where' \in [Backups -> SUBSET Places]
      BY <1>8 DEF Inductive, FilesTyped
    <2>2. disk' \in [Backups -> SUBSET Places]
      BY <1>4, <1>6 DEF Inductive, FilesTyped, Move, MoveLink, MoveRemove
    <2>. QED
      BY <2>1, <2>2 DEF FilesTyped
  <1>10. MoveOK'
    <2>1. CASE pc' = "sync"
      BY <2>1 DEF MoveOK
    <2>2. CASE pc' = "linked"
      <3>1. MoveLink
        BY <2>2 DEF Move, MoveRemove, Proceed
      <3>2. /\ cur' = cur /\ file' = file /\ Committed' = Committed
            /\ Source(cur)' = Source(cur) /\ Destination(cur)' = Destination(cur)
        BY <1>1 DEF cur, file, Committed, InState, Source, Destination
      <3>3. where'[file] = {Source(cur)} \cup Destination(cur)
        BY <1>4, <1>8, <3>1 DEF Inductive, FilesTyped
      <3>4. ops[cur].kind # "purge"
        BY <3>1 DEF MoveLink
      <3>. QED
        BY <1>1, <1>5, <1>7, <2>2, <3>2, <3>3, <3>4 DEF MoveOK
    <2>. QED
      BY <1>1, <2>1, <2>2
  <1>11. \E to \in {"sync", "linked"} : Proceed(to)
    BY DEF Move, MoveLink, MoveRemove
  <1>12. Work'
    BY <1>1, <1>5, <1>7, <1>8, <1>10, <1>11, MovedWork DEF Inductive
  <1>. QED
    BY <1>2, <1>3, <1>9, <1>12 DEF Step

LEMMA SyncStep ==
    ASSUME Inductive, SyncMove
    PROVE  Step
  <1>1. /\ UNCHANGED <<catalogue, automation, leases, calls, faults, where>>
        /\ pc = "sync" /\ Proceed("confirm") /\ disk' = where
    BY DEF SyncMove
  <1>2. RowsKept /\ HoldsKept
    BY <1>1, PlainStep DEF catalogue
  <1>3. Ledger' /\ FilesTyped'
    BY <1>1, LedgerSame DEF Inductive, Ledger, catalogue, leases, FilesTyped
  <1>4. Turning
    <2>1. pc # "idle" /\ pc \in AtWork
      BY <1>1 DEF AtWork
    <2>. QED
      BY <1>1, <2>1, Turns DEF Inductive
  <1>5. Work'
    BY <1>1, <1>2, <1>4, TurnWork DEF Inductive, RowsKept
  <1>. QED
    BY <1>2, <1>3, <1>5 DEF Step

-----------------------------------------------------------------------------
(* Answers.                                                                *)

LEMMA CallFields ==
    ASSUME Inductive, NEW c \in calls
    PROVE  /\ c \in Call /\ c.op \in OpIds /\ c.gen \in Gens /\ ops[c.op].state # "none"
           /\ c.live => pc = "wait" /\ c.op = cur /\ \A d \in calls \ {c} : ~d.live
  BY DEF Inductive, Work, CallsOK, Call

LEMMA CallsWithout ==
    ASSUME Inductive, NEW c \in calls, calls' = calls \ {c}
    PROVE  calls' \subseteq Call /\ CallsFollow /\ DoneTrue
  BY DEF Inductive, Work, CallsOK, CallsFollow, DoneTrue

\* The process turns to another step once its call is over.
LEMMA TurnedWork ==
    ASSUME RowsTyped, Work, OpsProgress, UNCHANGED where,
           calls' \subseteq Call, CallsFollow, DoneTrue, \A d \in calls' : ~d.live, Turning
    PROVE  Work'
  <1>1. CycleOK'
    BY DEF Turning, CycleOK, PCs
  <1>2. /\ pc' \notin {"verify", "move", "linked"} /\ (pc' \in AtWork => todo' # {})
        /\ (pc' # "idle" => gen' \in Gens) /\ \A o \in todo' : ops[o].state # "none"
    BY DEF Turning
  <1>. QED
    BY <1>1, <1>2, WorkLeaves

\* An answer to which the process goes on to the next operation or gives up.
LEMMA AnswerWork ==
    ASSUME Inductive, OpsProgress, UNCHANGED where, NEW c \in calls, calls' = calls \ {c},
           (c.live /\ (NextOp \/ Abort)) \/ (~c.live /\ UNCHANGED cycle)
    PROVE  Work'
  <1>1. calls' \subseteq Call /\ CallsFollow /\ DoneTrue
    BY CallsWithout
  <1>2. CASE c.live /\ (NextOp \/ Abort)
    <2>1. pc = "wait" /\ \A d \in calls' : ~d.live
      BY <1>2, CallFields
    <2>2. Turning
      BY <1>2, <2>1, Turns DEF Inductive
    <2>. QED
      BY <1>1, <2>1, <2>2, TurnedWork DEF Inductive
  <1>3. CASE ~c.live /\ UNCHANGED cycle
    BY <1>1, <1>3, WorkStays DEF Inductive
  <1>. QED
    BY <1>2, <1>3

\* An answer that grants a permission.
LEMMA GrantWork ==
    ASSUME Inductive, RowsKept, UNCHANGED where, NEW c \in calls, calls' = calls \ {c},
           ops'[c.op].state = "authorized",
           \/ c.live /\ Proceed("verify")
           \/ c.live /\ Proceed("move") /\ ops'[c.op].committed
           \/ ~c.live /\ UNCHANGED cycle
    PROVE  Work'
  <1>1. calls' \subseteq Call /\ CallsFollow /\ DoneTrue
    BY CallsWithout
  <1>2. CASE ~c.live /\ UNCHANGED cycle
    BY <1>1, <1>2, WorkStays DEF Inductive, RowsKept
  <1>3. CASE /\ c.live /\ (Proceed("verify") \/ Proceed("move"))
             /\ Proceed("move") => ops'[c.op].committed
    <2>1. /\ pc = "wait" /\ c.op = cur /\ (\A d \in calls' : ~d.live) /\ c.op \in OpIds
      BY <1>3, CallFields
    <2>2. UNCHANGED <<phase, gen, todo, due>> /\ pc' \in {"verify", "move"} /\ cur' = cur
      BY <1>3 DEF Proceed, cur
    <2>3. pc' = "move" => cur \in Committed'
      BY <1>3, <2>1 DEF Proceed, Committed, InState
    <2>4. CycleOK'
      BY <2>2 DEF Inductive, Work, CycleOK, PCs
    <2>5. todo # {} /\ gen \in Gens
      BY <2>1 DEF Inductive, Work, CallsOK, AtWork
    <2>6. CallsOK'
      <3>1. \A o \in OpIds : ops[o].state # "none" => ops'[o].state # "none"
        BY DEF RowsKept, OpsProgress
      <3>2. /\ \A d \in calls' : d.op \in OpIds /\ ops[d.op].state # "none"
            /\ \A o \in todo' : o \in OpIds /\ ops[o].state # "none"
        BY <2>2 DEF Inductive, Work, CallsOK, CycleOK, Call
      <3>3. /\ \A d \in calls' : ops'[d.op].state # "none"
            /\ \A o \in todo' : ops'[o].state # "none"
        BY <3>1, <3>2
      <3>. QED
        BY <2>1, <2>2, <2>5, <3>3 DEF CallsOK
    <2>7. DoneOK'
      BY <1>1, DoneStays DEF Inductive, RowsKept
    <2>8. MoveOK'
      BY <2>1, <2>2, <2>3 DEF MoveOK
    <2>. QED
      BY <1>1, <2>4, <2>6, <2>7, <2>8 DEF Work
  <1>. QED
    BY <1>2, <1>3 DEF Proceed

\* The writer has read the files or checked the lease; nobody is told yet.
LEMMA NoteStep ==
    ASSUME Inductive, NEW c \in calls, ReconcileRead(c) \/ ReconcileCleared(c) \/ ConfirmRead(c)
    PROVE  Step
  <1>1. UNCHANGED <<catalogue, automation, leases, files, faults, cycle>>
    BY DEF ReconcileRead, ReconcileCleared, ConfirmRead, Note
  <1>2. RowsKept /\ HoldsKept
    BY <1>1, PlainStep DEF catalogue
  <1>3. FilesTyped' /\ Ledger'
    BY <1>1, FilesSame, LedgerSame DEF Inductive, Ledger, catalogue, leases
  <1>4. c \in Call /\ c.op \in OpIds /\ ops[c.op].state # "none"
    BY CallFields
  <1>5. /\ Outcome(c.op) \in Outcomes
        /\ Outcome(c.op) = "done" => where[ops[c.op].backup] = Destination(c.op)
    BY DEF Outcome, Outcomes
  <1>6. PICK d \in Call : /\ calls' = (calls \ {c}) \cup {d} /\ d.op = c.op
                          /\ d.live => c.live
                          /\ d.seen = "done" =>
                                c.seen = "done" \/ where[ops[c.op].backup] = Destination(c.op)
    <2>1. ASSUME NEW x \in Outcomes
          PROVE  /\ [c EXCEPT !.seen = x] \in Call /\ [c EXCEPT !.seen = x].op = c.op
                 /\ [c EXCEPT !.seen = x].live = c.live
                 /\ [c EXCEPT !.seen = x].seen = x
      BY <1>4 DEF Call
    <2>2. ASSUME NEW t \in BOOLEAN
          PROVE  /\ [c EXCEPT !.cleared = t] \in Call /\ [c EXCEPT !.cleared = t].op = c.op
                 /\ [c EXCEPT !.cleared = t].live = c.live
                 /\ [c EXCEPT !.cleared = t].seen = c.seen
      BY <1>4 DEF Call
    <2>3. CASE ReconcileRead(c) \/ ConfirmRead(c)
      <3>1. PICK x \in Outcomes : calls' = (calls \ {c}) \cup {[c EXCEPT !.seen = x]}
                                  /\ x = Outcome(c.op)
        BY <1>5, <2>3 DEF ReconcileRead, ConfirmRead, Note
      <3>2. PICK d : d = [c EXCEPT !.seen = x]
        OBVIOUS
      <3>3. d \in Call /\ d.op = c.op /\ d.live = c.live /\ d.seen = x
        BY <2>1, <3>2
      <3>. QED
        BY <1>5, <3>1, <3>2, <3>3
    <2>4. CASE ReconcileCleared(c)
      <3>1. /\ [c EXCEPT !.cleared = TRUE] \in Call /\ [c EXCEPT !.cleared = TRUE].op = c.op
            /\ [c EXCEPT !.cleared = TRUE].live = c.live
            /\ [c EXCEPT !.cleared = TRUE].seen = c.seen
        BY <2>2, Zenon
      <3>2. calls' = (calls \ {c}) \cup {[c EXCEPT !.cleared = TRUE]}
        BY <2>4 DEF ReconcileCleared, Note
      <3>3. PICK d : d = [c EXCEPT !.cleared = TRUE]
        OBVIOUS
      <3>4. d \in Call /\ d.op = c.op /\ (d.live => c.live) /\ d.seen = c.seen
            /\ calls' = (calls \ {c}) \cup {d}
        BY <3>1, <3>2, <3>3, Zenon
      <3>. QED
        BY <3>4
    <2>. QED
      BY <2>3, <2>4
  <1>7. calls' \subseteq Call /\ CallsFollow /\ DoneTrue
    <2>1. \A e \in calls' : e = d \/ e \in calls \ {c}
      BY <1>6
    <2>2. calls' \subseteq Call
      BY <1>6 DEF Inductive, Work
    <2>3. c.live => \A e \in calls \ {c} : ~e.live
      BY CallFields
    <2>4. CallsFollow
      BY <1>6, <2>1, <2>3 DEF CallsFollow, Inductive, Work, CallsOK
    <2>5. DoneTrue
      BY <1>4, <1>6, <2>1 DEF DoneTrue
    <2>. QED
      BY <2>2, <2>4, <2>5
  <1>8. Work'
    BY <1>1, <1>2, <1>7, WorkStays DEF Inductive, RowsKept, files
  <1>. QED
    BY <1>2, <1>3, <1>8 DEF Step

\* A call is refused.
LEMMA RefusedStep ==
    ASSUME Inductive, NEW c \in calls, Refused(c)
    PROVE  Step
  <1>1. UNCHANGED <<catalogue, automation, leases, files, faults>> /\ calls' = calls \ {c}
    BY DEF Refused, Answer
  <1>2. RowsKept /\ HoldsKept
    BY <1>1, PlainStep DEF catalogue
  <1>3. FilesTyped' /\ Ledger'
    BY <1>1, FilesSame, LedgerSame DEF Inductive, Ledger, catalogue, leases
  <1>4. (c.live /\ (NextOp \/ Abort)) \/ (~c.live /\ UNCHANGED cycle)
    <2>1. CASE c.live
      BY <2>1, Zenon DEF Refused, Answer
    <2>2. CASE ~c.live
      BY <2>2, Zenon DEF Refused, Answer
    <2>. QED
      BY <2>1, <2>2
  <1>5. Work'
    BY <1>1, <1>2, <1>4, AnswerWork DEF RowsKept, files
  <1>. QED
    BY <1>2, <1>3, <1>5 DEF Step

\* A row is confirmed, reset, granted or noted, and the call is answered.
LEMMA AppliedStep ==
    ASSUME Inductive, NEW c \in calls,
           \/ ReconcileAuthorized(c) \/ ResetAuthorized(c) \/ ReconcileUncertain(c)
           \/ Authorize(c) \/ Validate(c) \/ Confirm(c) \/ ReportError(c)
    PROVE  Step
  <1>1. c.op \in OpIds /\ c.gen \in Gens
    BY CallFields
  <1>2. UNCHANGED <<missing, revoked, leases, files, faults>> /\ calls' = calls \ {c}
    BY DEF ReconcileAuthorized, ResetAuthorized, ReconcileUncertain, Authorize, Validate,
           Confirm, ReportError, ConfirmRow, Answer
  <1>3. ripe' \subseteq ripe
    BY DEF ReconcileAuthorized, ResetAuthorized, ReconcileUncertain, Authorize, Validate,
           Confirm, ReportError, ConfirmRow
  <1>4. FilesTyped' /\ Ledger'
    BY <1>2, <1>3, FilesSame, LedgerSame DEF Inductive, Ledger, leases
  <1>5. RowsKept /\ HoldsKept
    <2>. USE DEF Inductive
    <2>1. CASE ReconcileAuthorized(c) \/ Confirm(c)
      <3>1. /\ c.seen = "done" /\ ops[c.op].state = "authorized" /\ ConfirmRow(c.op)
            /\ UNCHANGED automation
        BY <2>1 DEF ReconcileAuthorized, Confirm, Holds
      <3>2. RowsKept /\ NoNewIncident
        BY <1>1, <3>1, ConfirmRows
      <3>. QED
        BY <3>1, <3>2, HoldsUnchanged
    <2>2. CASE ResetAuthorized(c)
      <3>1. RowsKept /\ NoNewIncident
        BY <1>1, <2>2, ResetRows
      <3>. QED
        BY <2>2, <3>1, MarksHolds
    <2>3. CASE ReconcileUncertain(c) \/ ReportError(c)
      BY <1>1, <2>3, NoteRows, IncidentHolds
    <2>4. CASE Authorize(c) \/ Validate(c)
      <3>1. UNCHANGED automation
        BY <2>4 DEF Authorize, Validate
      <3>2. RowsKept /\ NoNewIncident
        BY <1>1, <2>4, PermissionRows
      <3>. QED
        BY <3>1, <3>2, HoldsUnchanged
    <2>. QED
      BY <2>1, <2>2, <2>3, <2>4
  <1>6. Work'
    <2>1. CASE Authorize(c) \/ Validate(c)
      <3>1. ops'[c.op].state = "authorized" /\ (Validate(c) => ops'[c.op].committed)
        BY <1>1, <2>1, PermissionRows DEF Inductive
      <3>2. \/ c.live /\ Proceed("verify")
            \/ c.live /\ Proceed("move") /\ ops'[c.op].committed
            \/ ~c.live /\ UNCHANGED cycle
        <4>1. CASE Authorize(c)
          BY <4>1, Zenon DEF Authorize, Answer
        <4>2. CASE Validate(c)
          BY <3>1, <4>2, Zenon DEF Validate, Answer
        <4>. QED
          BY <2>1, <4>1, <4>2
      <3>. QED
        BY <1>2, <1>5, <3>1, <3>2, GrantWork DEF files
    <2>2. CASE \/ ReconcileAuthorized(c) \/ ResetAuthorized(c) \/ ReconcileUncertain(c)
               \/ Confirm(c) \/ ReportError(c)
      <3>1. Answer(c, NextOp) \/ Answer(c, Abort)
        BY <2>2 DEF ReconcileAuthorized, ResetAuthorized, ReconcileUncertain, Confirm, ReportError
      <3>2. (c.live /\ (NextOp \/ Abort)) \/ (~c.live /\ UNCHANGED cycle)
        BY <3>1, Zenon DEF Answer
      <3>. QED
        BY <1>2, <1>5, <3>2, AnswerWork DEF RowsKept, files
    <2>. QED
      BY <2>1, <2>2
  <1>. QED
    BY <1>4, <1>5, <1>6 DEF Step

LEMMA ServeStep ==
    ASSUME Inductive, NEW c \in calls, Serve(c)
    PROVE  Step
  <1>1. CASE \/ ReconcileRefused(c) \/ AuthorizeRefused(c) \/ ValidateRefused(c)
             \/ ConfirmRefused(c) \/ ReportRefused(c)
    <2>1. Refused(c)
      BY <1>1, Zenon DEF ReconcileRefused, AuthorizeRefused, ValidateRefused, ConfirmRefused,
           ReportRefused
    <2>. QED
      BY <2>1, RefusedStep
  <1>. QED
    BY <1>1, NoteStep, AppliedStep DEF Serve

LEMMA MaintenanceStep ==
    ASSUME Inductive, Maintenance
    PROVE  Step
  BY CycleStep, LeaseStep, CheckStep, SendStep, VerifyStep, MoveStep, SyncStep DEF Maintenance

-----------------------------------------------------------------------------
(* Failures.                                                               *)

LEMMA FaultCounted ==
    ASSUME Ledger, Fault
    PROVE  faults' \in 0 .. MaxFaults /\ faults' # faults
  BY Constants DEF Ledger, Fault

\* A call that its client has given up stays what it was.
LEMMA Forgotten ==
    ASSUME NEW c \in Call
    PROVE  /\ [c EXCEPT !.live = FALSE] \in Call /\ [c EXCEPT !.live = FALSE].op = c.op
           /\ [c EXCEPT !.live = FALSE].seen = c.seen /\ ~[c EXCEPT !.live = FALSE].live
  <1>1. ASSUME NEW f \in BOOLEAN
        PROVE  /\ [c EXCEPT !.live = f] \in Call /\ [c EXCEPT !.live = f].op = c.op
               /\ [c EXCEPT !.live = f].seen = c.seen /\ [c EXCEPT !.live = f].live = f
    BY DEF Call
  <1>. QED
    BY <1>1, Zenon

\* Failures that leave the rows and the files alone.
LEMMA FailureWork ==
    ASSUME Inductive, RowsKept, UNCHANGED where,
           \/ \E c \in calls : Timeout(c) \/ Drop(c)
           \/ MoveFails \/ SyncFails \/ Kill
    PROVE  Work'
  <1>1. ASSUME NEW c \in calls, Timeout(c)
        PROVE  Work'
    <2>1. c \in Call /\ c.live /\ pc = "wait" /\ \A d \in calls \ {c} : ~d.live
      BY <1>1, CallFields DEF Timeout
    <2>2. PICK e \in Call : /\ e.op = c.op /\ e.seen = c.seen /\ ~e.live
                            /\ calls' = (calls \ {c}) \cup {e}
      BY <1>1, <2>1, Forgotten DEF Timeout
    <2>3. calls' \subseteq Call /\ \A d \in calls' : ~d.live
      BY <2>1, <2>2 DEF Inductive, Work
    <2>4. \A d \in calls' : \E a \in calls : a.op = d.op /\ a.seen = d.seen
      BY <2>2
    <2>5. CallsFollow /\ DoneTrue
      BY <2>3, <2>4 DEF CallsFollow, DoneTrue
    <2>6. NextOp \/ Abort
      BY <1>1, Zenon DEF Timeout
    <2>7. Turning
      BY <2>1, <2>6, Turns DEF Inductive
    <2>. QED
      BY <2>3, <2>5, <2>7, TurnedWork DEF Inductive, RowsKept
  <1>2. ASSUME NEW c \in calls, Drop(c)
        PROVE  Work'
    BY <1>2, AnswerWork DEF Drop, RowsKept
  <1>3. CASE MoveFails \/ SyncFails
    <2>1. pc \in AtWork /\ pc \notin {"idle", "wait"} /\ Proceed("report") /\ UNCHANGED calls
      BY <1>3 DEF MoveFails, SyncFails, AtWork
    <2>2. Turning
      BY <2>1, Turns DEF Inductive
    <2>. QED
      BY <2>1, <2>2, TurnWork DEF Inductive, RowsKept
  <1>4. CASE Kill
    <2>1. calls' = {[c EXCEPT !.live = FALSE] : c \in calls} /\ calls \subseteq Call
      BY <1>4 DEF Kill, Inductive, Work
    <2>2. ASSUME NEW d \in calls'
          PROVE  d \in Call /\ ~d.live /\ \E a \in calls : a.op = d.op /\ a.seen = d.seen
      <3>1. PICK a \in calls : d = [a EXCEPT !.live = FALSE]
        BY <2>1, <2>2
      <3>. QED
        BY <2>1, <3>1, Forgotten
    <2>3. CallsFollow /\ DoneTrue /\ calls' \subseteq Call
      BY <2>2 DEF CallsFollow, DoneTrue
    <2>4. Turning
      BY <1>4 DEF Kill, Dead, Turning, Phases, AtWork
    <2>. QED
      BY <2>2, <2>3, <2>4, TurnedWork DEF Inductive, RowsKept
  <1>. QED
    BY <1>1, <1>2, <1>3, <1>4

LEMMA FailureStep ==
    ASSUME Inductive, Failure
    PROVE  Step
  <1>1. UNCHANGED <<catalogue, automation, lease>>
    BY DEF Failure, Timeout, Drop, MoveFails, SyncFails, Expire, Kill, PowerLoss, Lose, leases
  <1>2. RowsKept /\ HoldsKept
    BY <1>1, PlainStep DEF catalogue
  <1>3. Ledger'
    <2>1. faults' \in 0 .. MaxFaults
      <3>1. Fault \/ UNCHANGED faults
        BY DEF Failure, Timeout, Drop, MoveFails, SyncFails, Expire, Kill, PowerLoss, Lose
      <3>. QED
        BY <3>1, FaultCounted DEF Inductive, Ledger
    <2>2. held' \in BOOLEAN
      <3>1. held' = FALSE \/ UNCHANGED held
        BY DEF Failure, Timeout, Drop, MoveFails, SyncFails, Expire, Kill, PowerLoss, Lose, leases
      <3>. QED
        BY <3>1, Zenon DEF Inductive, Ledger
    <2>. QED
      BY <1>1, <2>1, <2>2 DEF Inductive, Ledger, catalogue
  <1>4. CASE (\E c \in calls : Timeout(c) \/ Drop(c)) \/ MoveFails \/ SyncFails \/ Kill
    <2>1. UNCHANGED files
      BY <1>4 DEF Timeout, Drop, MoveFails, SyncFails, Kill
    <2>2. Work'
      BY <1>2, <1>4, <2>1, FailureWork DEF files
    <2>. QED
      BY <1>2, <1>3, <2>1, <2>2, FilesSame DEF Step, Inductive
  <1>5. CASE Expire
    <2>1. UNCHANGED <<files, cycle, calls>>
      BY <1>5 DEF Expire
    <2>2. Work'
      BY <1>2, <2>1, CallsSame, WorkStays DEF Inductive, RowsKept, files
    <2>. QED
      BY <1>2, <1>3, <2>1, <2>2, FilesSame DEF Step, Inductive
  <1>6. CASE PowerLoss
    <2>1. FilesTyped'
      BY <1>6 DEF PowerLoss, Inductive, FilesTyped
    <2>2. Work'
      BY <1>6 DEF PowerLoss, Dead, Work, CycleOK, CallsOK, DoneOK, MoveOK, PCs, Phases, AtWork
    <2>. QED
      BY <1>2, <1>3, <2>1, <2>2 DEF Step
  <1>7. ASSUME NEW b \in Backups, Lose(b)
        PROVE  Step
    <2>1. FilesTyped' /\ where'[b] = {} /\ \A a \in Backups : where'[a] \in {where[a], {}}
      BY <1>7 DEF Lose, Inductive, FilesTyped
    <2>2. UNCHANGED <<ops, cycle, calls>> /\ UNCHANGED <<pc, phase, gen, todo, due>>
      BY <1>1, <1>7 DEF Lose, catalogue, cycle
    <2>3. CycleOK' /\ calls' \subseteq Call /\ CallsOK'
      BY <2>2 DEF Inductive, Work, CycleOK, CallsOK, cur
    <2>4. DoneOK'
      <3>1. ASSUME NEW c \in calls, c.seen = "done", Active(c.op)
            PROVE  where'[ops[c.op].backup] \in {Destination(c.op), {}}
        <4>1. ops[c.op].backup \in Backups
          BY OpFields, CallFields DEF Inductive
        <4>. QED
          BY <2>1, <3>1, <4>1 DEF Inductive, Work, DoneOK
      <3>2. \A o : Active(o)' = Active(o) /\ Destination(o)' = Destination(o)
        BY <2>2 DEF Active, Destination
      <3>. QED
        BY <2>2, <3>1, <3>2 DEF DoneOK
    <2>5. MoveOK'
      <3>1. CASE pc \notin {"verify", "move", "linked"}
        BY <2>2, <3>1 DEF MoveOK
      <3>2. CASE pc \in {"verify", "move", "linked"}
        <4>1. file \in Backups
          BY <3>2, CurIn DEF Inductive, Work, CallsOK, AtWork
        <4>2. where'[file] \in {where[file], {}}
          BY <2>1, <4>1
        <4>3. /\ cur' = cur /\ file' = file /\ Committed' = Committed
              /\ Source(cur)' = Source(cur) /\ Destination(cur)' = Destination(cur)
          BY <2>2 DEF cur, file, Committed, InState, Source, Destination
        <4>. QED
          BY <2>2, <4>2, <4>3 DEF Inductive, Work, MoveOK
      <3>. QED
        BY <3>1, <3>2
    <2>. QED
      BY <1>2, <1>3, <2>1, <2>3, <2>4, <2>5 DEF Step, Work
  <1>. QED
    BY <1>4, <1>5, <1>6, <1>7 DEF Failure

-----------------------------------------------------------------------------
(* The invariant.                                                          *)

LEMMA InitInductive == Init => Inductive
  <1>1. SUFFICES ASSUME Init
                 PROVE  Inductive
    OBVIOUS
  <1>2. PICK r : /\ r = [backup |-> CHOOSE b \in Backups : TRUE,
                         kind |-> "recover", state |-> "none",
                         committed |-> FALSE, ticket |-> NoGen, rev |-> FALSE,
                         note |-> "", checked |-> TRUE, err |-> FALSE, unc |-> FALSE]
                 /\ ops \in [OpIds -> {r}]
    BY <1>1 DEF Init
  <1>3. r \in Operation /\ r.state = "none" /\ ~r.committed /\ ~r.err /\ ~r.unc
    <2>1. (CHOOSE b \in Backups : TRUE) \in Backups
      BY RetentionAssumption
    <2>2. ASSUME NEW f \in BOOLEAN, NEW t \in BOOLEAN, NEW b \in Backups
          PROVE  [backup |-> b, kind |-> "recover", state |-> "none",
                  committed |-> f, ticket |-> NoGen, rev |-> f, note |-> "",
                  checked |-> t, err |-> f, unc |-> f] \in Operation
      BY DEF Operation, Kinds, States
    <2>3. r \in Operation
      BY <1>2, <2>1, <2>2, Zenon
    <2>. QED
      BY <1>2, <2>3
  <1>4. \A o \in OpIds : ops[o] = r
    BY <1>2
  <1>5. RowsTyped
    <2>1. ops \in [OpIds -> Operation]
      BY <1>2, <1>3
    <2>. QED
      BY <1>1, <2>1 DEF Init, RowsTyped, Statuses, Stable
  <1>6. Rows
    BY <1>1, <1>3, <1>4 DEF Init, Rows, OneActive, StatusFits, Granted, Active
  <1>7. Automation
    <2>1. AutomationOK
      <3>1. /\ learned \in BOOLEAN /\ regular \in BOOLEAN /\ barred \in BOOLEAN
            /\ checking \in BOOLEAN /\ owed \in BOOLEAN
        BY <1>1, Zenon DEF Init
      <3>. QED
        BY <1>1, <3>1 DEF Init, AutomationOK
    <2>2. SetupHolds
      BY <1>1 DEF Init, SetupHolds
    <2>3. ~Open
      BY <1>1, <1>3, <1>4 DEF Init, Open, Incidents, Doubts
    <2>. QED
      BY <2>1, <2>2, <2>3 DEF Automation, OpenHolds
  <1>8. FilesTyped
    BY <1>1 DEF Init, FilesTyped, PlaceOf, Places
  <1>9. Ledger
    <2>1. held \in BOOLEAN
      BY <1>1, Zenon DEF Init
    <2>2. ripe \subseteq Backups /\ missing \subseteq Backups /\ revoked \subseteq Keys
      BY <1>1 DEF Init
    <2>3. lease \in Gens \cup {NoGen} /\ faults \in 0 .. MaxFaults
      <3>1. lease = NoGen /\ faults = 0
        BY <1>1 DEF Init
      <3>. QED
        BY <3>1, Constants
    <2>. QED
      BY <2>1, <2>2, <2>3 DEF Ledger
  <1>10. Work
    BY <1>1 DEF Init, Work, CycleOK, CallsOK, DoneOK, MoveOK, PCs, Phases, AtWork
  <1>. QED
    BY <1>5, <1>6, <1>7, <1>8, <1>9, <1>10 DEF Inductive

LEMMA NextStep ==
    ASSUME Inductive, Next
    PROVE  Step
  BY AdministrationStep, MaintenanceStep, ServeStep, FailureStep DEF Next

\* Every step of the specification, stuttering included.
LEMMA BoxStep ==
    ASSUME Inductive, [Next]_vars
    PROVE  Inductive' /\ RowsKept /\ HoldsKept
  <1>1. CASE Next
    BY <1>1, NextStep DEF Step, RowsKept, HoldsKept, Inductive
  <1>2. CASE UNCHANGED vars
    <2>1. UNCHANGED <<catalogue, automation, leases, files, cycle, calls, faults>>
      BY <1>2 DEF vars
    <2>2. RowsKept /\ HoldsKept
      BY <2>1, PlainStep DEF catalogue
    <2>3. FilesTyped' /\ Ledger'
      BY <2>1, FilesSame, LedgerSame DEF Inductive, Ledger, catalogue, leases
    <2>4. Work'
      BY <2>1, <2>2, CallsSame, WorkStays DEF Inductive, RowsKept, files
    <2>. QED
      BY <2>2, <2>3, <2>4 DEF RowsKept, HoldsKept, Inductive
  <1>. QED
    BY <1>1, <1>2

\* The rows, the automation state, the calls under way, the files and the step of
\* the maintenance process fit together at all times, whichever of them a death,
\* a lost answer, a late answer or an administrator has overtaken.
THEOREM RetentionInvariant == Spec => []Inductive
  <1>1. Inductive /\ [Next]_vars => Inductive'
    BY BoxStep
  <1>. QED
    BY <1>1, InitInductive, PTL DEF Spec

\* Type correctness (retention_operations, automation_state, the lease, the
\* directories, the maintenance process and its calls).
THEOREM RetentionTypeCorrect == Spec => []TypeOK
  <1>1. Inductive => TypeOK
    BY DEF Inductive, RowsTyped, Automation, AutomationOK, FilesTyped, Ledger, Work, CycleOK, TypeOK
  <1>. QED
    BY <1>1, RetentionInvariant, PTL

\* An open blocking incident always holds retention: no resume, deferred resume,
\* check, exclusion or clearing of another operation's block leaves one unheld
\* (blockForAnomalyTx, TryClearResolvedMaintenanceBlock, CreateAnomalyExclusion).
THEOREM OpenIncidentsHold == Spec => []IncidentsHold
  <1>1. Inductive => IncidentsHold
    <2>1. SUFFICES ASSUME Inductive, Blocking # 0
                   PROVE  hold # Free
      BY DEF IncidentsHold
    <2>2. Open
      BY <2>1, BlockingZero DEF Inductive, Automation, AutomationOK
    <2>. QED
      BY <2>1, <2>2 DEF Inductive, Automation, OpenHolds
  <1>. QED
    BY <1>1, RetentionInvariant, PTL

\* The status of a backup and its active operation never contradict each other,
\* and only an authorised or confirmed operation carries a final permission
\* (Store.RequestQuarantine, Revoke, ResetAuthorized, ConfirmOperation).
THEOREM StatusesMatch == Spec => []StatusMatchesOperation
  <1>1. Inductive => StatusMatchesOperation
    <2>1. SUFFICES ASSUME Inductive
                   PROVE  StatusMatchesOperation
      OBVIOUS
    <2>2. \A o \in OpIds : ops[o].kind \in Kinds
      BY <2>1, OpFields DEF Inductive
    <2>3. ASSUME NEW b \in Backups
          PROVE  /\ Cardinality(ActiveOps(b)) <= 1
                 /\ status[b] = "deleting" <=> \E o \in ActiveOps(b) : ops[o].kind = "quarantine"
                 /\ status[b] = "purging"  <=> \E o \in ActiveOps(b) : ops[o].kind = "purge"
                 /\ (\E o \in ActiveOps(b) : ops[o].kind = "recover") => status[b] = "quarantined"
      <3>1. \A o : o \in ActiveOps(b) <=> o \in OpIds /\ Active(o) /\ ops[o].backup = b
        BY DEF ActiveOps, Active
      <3>2. Cardinality(ActiveOps(b)) <= 1
        <4>1. CASE ActiveOps(b) = {}
          BY <4>1, FS_EmptySet
        <4>2. CASE ActiveOps(b) # {}
          <5>1. PICK o \in OpIds : o \in ActiveOps(b)
            BY <3>1, <4>2
          <5>2. ActiveOps(b) = {o}
            BY <2>1, <3>1, <5>1 DEF Inductive, Rows, OneActive
          <5>. QED
            BY <5>2, FS_Singleton
        <4>. QED
          BY <4>1, <4>2
      <3>3. \A o \in ActiveOps(b) : status[b] = During(ops[o].kind)
        BY <2>1, <3>1 DEF Inductive, Rows, StatusFits
      <3>4. status[b] \in {"deleting", "purging"} =>
              \E o \in ActiveOps(b) : status[b] = During(ops[o].kind)
        BY <2>1, <3>1 DEF Inductive, Rows, StatusFits
      <3>. QED
        BY <2>2, <3>1, <3>2, <3>3, <3>4 DEF During, Kinds
    <2>. QED
      BY <2>1, <2>3 DEF StatusMatchesOperation, Inductive, Rows, Granted
  <1>. QED
    BY <1>1, RetentionInvariant, PTL

\* A final permission is never withdrawn: it ends only in confirmation
\* (execution_committed in Store.ResetAuthorized and Store.Revoke).
THEOREM PermissionsLast == Spec => PermissionIrrevocable
  <1>1. Inductive /\ [Next]_vars =>
          [\A o \in OpIds : o \in Committed =>
             ops'[o].committed /\ ops'[o].state \in {"authorized", "confirmed"}]_vars
    BY BoxStep DEF RowsKept, OpsProgress
  <1>. QED
    BY <1>1, RetentionInvariant, PTL DEF Spec, PermissionIrrevocable

\* Destructive work is released only by a state that is regular, has no open
\* incident and no authorised operation (Store.ResumeRetention,
\* activateRetentionAfterCheckTx, TryClearResolvedMaintenanceBlock,
\* CreateAnomalyExclusion).
THEOREM ReleasesAreSafe == Spec => UnblockedSafely
  <1>1. Inductive => (Blocking = 0 <=> ~Open)
    BY BlockingZero DEF Inductive, Automation, AutomationOK
  <1>2. (Inductive => (Blocking = 0 <=> ~Open))'
    BY <1>1, PTL
  <1>3. Inductive /\ [Next]_vars =>
          [Blocked /\ ~Blocked' =>
             regular' /\ learned' /\ Blocking' = 0 /\ InState("authorized") = {}]_vars
    <2>1. SUFFICES ASSUME Inductive, [Next]_vars, Blocked, ~Blocked'
                   PROVE  regular' /\ learned' /\ Blocking' = 0 /\ InState("authorized") = {}
      OBVIOUS
    <2>2. Inductive' /\ ReleasedSafely
      BY <2>1, BoxStep DEF HoldsKept
    <2>3. regular' /\ learned' /\ ~Open' /\ InState("authorized") = {}
      BY <2>1, <2>2, Zenon DEF ReleasedSafely
    <2>4. Blocking' = 0
      BY <1>2, <2>2, <2>3
    <2>. QED
      BY <2>3, <2>4
  <1>. QED
    BY <1>3, RetentionInvariant, PTL DEF Spec, UnblockedSafely

\* A manual pause is lifted by an administrative resume, immediate or requested
\* after it, and by nothing else (PauseRetention, activateRetentionAfterCheckTx).
THEOREM PausesLast == Spec => PauseKept
  <1>1. Inductive /\ [Next]_vars =>
          ["manual" \in holds /\ "manual" \notin holds' => Resume \/ "resume" \in pending]_vars
    BY BoxStep DEF HoldsKept, PauseStays
  <1>. QED
    BY <1>1, RetentionInvariant, PTL DEF Spec, PauseKept

-----------------------------------------------------------------------------
(* How the status of a backup changes.                                     *)

Unconfirmed == \A o \in OpIds : ops'[o].state = "confirmed" => ops[o].state = "confirmed"

\* Without a confirmation a status only follows a request, or goes back to what
\* it was when an operation without final permission is cancelled.
StatusMoves(b) ==
    \/ status'[b] = status[b]
    \/ status[b] = "complete" /\ status'[b] = "deleting"
    \/ RequestPurge(b)
    \/ \E o \in OpIds : /\ Active(o) /\ ~ops[o].committed /\ Destructive(o)
                        /\ ops[o].backup = b /\ status'[b] = Restored(o)

Confirmation(c) ==
    /\ c.seen = "done" /\ ops[c.op].state = "authorized" /\ Coherent(c.op)
    /\ ConfirmRow(c.op)

LEMMA StatusStep ==
    ASSUME Inductive, Next
    PROVE  \/ Unconfirmed /\ \A b \in Backups : StatusMoves(b)
           \/ \E c \in calls : Confirmation(c)
  <1>. DEFINE Moved == Unconfirmed /\ \A b \in Backups : StatusMoves(b)
  <1>1. ASSUME UNCHANGED <<status, ops>>
        PROVE  Moved
    BY <1>1 DEF Unconfirmed, StatusMoves
  <1>2. RowsTyped /\ \A o \in OpIds : ops[o] \in Operation
    BY OpFields DEF Inductive
  <1>3. ASSUME NEW b \in Backups, NEW kind \in Kinds, Insert(b, kind)
        PROVE  Unconfirmed
    <2>1. PICK n : ops' = [ops EXCEPT ![n] = NewOp(b, kind)]
      BY <1>3 DEF Insert
    <2>2. NewOp(b, kind).state = "requested"
      BY DEF NewOp
    <2>. QED
      BY <1>2, <2>1, <2>2 DEF Unconfirmed, RowsTyped
  <1>4. ASSUME NEW b \in Backups,
               RequestQuarantine(b) \/ RequestRecovery(b) \/ RequestPurge(b)
        PROVE  Moved
    <2>1. Unconfirmed
      BY <1>3, <1>4 DEF RequestQuarantine, RequestRecovery, RequestPurge, Kinds
    <2>2. \A a \in Backups : StatusMoves(a)
      BY <1>2, <1>4 DEF RequestQuarantine, RequestRecovery, RequestPurge, StatusMoves, RowsTyped
    <2>. QED
      BY <2>1, <2>2
  <1>5. \A o \in OpIds : ops[o].state = "requested" => Active(o) /\ ~ops[o].committed
    BY DEF Inductive, Rows, Granted, Active
  <1>6. \A o \in OpIds : Cancelled(o).state = "cancelled"
    BY CancelledOp DEF Inductive
  <1>7. ASSUME NEW o \in OpIds, CancelQuarantineRequest(o)
        PROVE  Moved
    <2>1. /\ ops[o].state = "requested" /\ ops[o].kind = "quarantine"
          /\ ops' = [ops EXCEPT ![o] = Cancelled(o)]
          /\ status' = [status EXCEPT ![ops[o].backup] = "complete"]
      BY <1>7 DEF CancelQuarantineRequest
    <2>2. Unconfirmed
      BY <1>2, <1>6, <2>1 DEF Unconfirmed, RowsTyped
    <2>3. Restored(o) = "complete" /\ Destructive(o)
      BY <2>1 DEF Restored, Destructive
    <2>. QED
      BY <1>2, <1>5, <2>1, <2>2, <2>3 DEF StatusMoves, RowsTyped
  <1>8. ASSUME NEW k \in Keys, Revoke(k)
        PROVE  Moved
    <2>. DEFINE gone == {o \in InState("requested") : Destructive(o) /\ KeyFor(o) = k}
    <2>1. /\ status' = [b \in Backups |->
                IF \E o \in gone : ops[o].backup = b
                  THEN Restored(CHOOSE o \in gone : ops[o].backup = b) ELSE status[b]]
          /\ ops' = [o \in OpIds |-> IF o \in gone THEN Cancelled(o) ELSE ops[o]]
      BY <1>8 DEF Revoke
    <2>2. \A o \in gone : o \in OpIds /\ Active(o) /\ ~ops[o].committed /\ Destructive(o)
      BY <1>5 DEF InState
    <2>. HIDE DEF gone
    <2>3. Unconfirmed
      BY <1>6, <2>1 DEF Unconfirmed
    <2>4. ASSUME NEW b \in Backups
          PROVE  StatusMoves(b)
      <3>1. CASE \E o \in gone : ops[o].backup = b
        <4>1. PICK o : o = CHOOSE p \in gone : ops[p].backup = b
          OBVIOUS
        <4>2. o \in gone /\ ops[o].backup = b
          BY <3>1, <4>1
        <4>3. status'[b] = Restored(o)
          BY <2>1, <3>1, <4>1
        <4>. QED
          BY <2>2, <4>2, <4>3 DEF StatusMoves
      <3>2. CASE ~(\E o \in gone : ops[o].backup = b)
        BY <2>1, <3>2 DEF StatusMoves
      <3>. QED
        BY <3>1, <3>2
    <2>. QED
      BY <2>3, <2>4
  <1>9. ASSUME Check
        PROVE  Moved
    <2>1. UNCHANGED status /\ ops' = [o \in OpIds |-> [ops[o] EXCEPT !.checked = TRUE]]
      BY <1>9 DEF Check
    <2>2. Unconfirmed
      BY <1>2, <2>1 DEF Unconfirmed, Operation
    <2>. QED
      BY <2>1, <2>2 DEF StatusMoves
  <1>10. ASSUME NEW c \in calls, c.op \in OpIds,
                ReconcileUncertain(c) \/ ReportError(c) \/ Authorize(c) \/ Validate(c)
         PROVE  Moved
    <2>1. UNCHANGED status
      BY <1>10 DEF ReconcileUncertain, ReportError, Authorize, Validate
    <2>2. PICK o \in OpIds : o = c.op
      BY <1>10
    <2>3. CASE Authorize(c)
      <3>1. ops' = [ops EXCEPT ![o] = [ops[o] EXCEPT !.state = "authorized", !.ticket = c.gen]]
        BY <2>2, <2>3 DEF Authorize
      <3>. QED
        BY <1>2, <2>1, <3>1 DEF Unconfirmed, StatusMoves, RowsTyped, Operation
    <2>4. CASE Validate(c)
      <3>1. ops' = [ops EXCEPT ![o] = [ops[o] EXCEPT !.committed = TRUE]]
        BY <2>2, <2>4 DEF Validate
      <3>. QED
        BY <1>2, <2>1, <3>1 DEF Unconfirmed, StatusMoves, RowsTyped, Operation
    <2>5. CASE ReconcileUncertain(c)
      <3>1. ops' = [ops EXCEPT ![o] = [ops[o] EXCEPT !.unc = TRUE]]
        BY <2>2, <2>5 DEF ReconcileUncertain
      <3>. QED
        BY <1>2, <2>1, <3>1 DEF Unconfirmed, StatusMoves, RowsTyped, Operation
    <2>6. CASE ReportError(c)
      <3>1. ops' = [ops EXCEPT ![o] = [ops[o] EXCEPT !.note = "error", !.err = TRUE,
                                                      !.checked = FALSE]]
        BY <2>2, <2>6 DEF ReportError
      <3>. QED
        BY <1>2, <2>1, <3>1 DEF Unconfirmed, StatusMoves, RowsTyped, Operation
    <2>. QED
      BY <1>10, <2>3, <2>4, <2>5, <2>6
  <1>11. ASSUME NEW c \in calls, c.op \in OpIds, ResetAuthorized(c)
         PROVE  Moved
    <2>1. PICK o \in OpIds : o = c.op
      BY <1>11
    <2>. DEFINE cancel == ~ops[o].committed /\ Destructive(o) /\ KeyFor(o) \in revoked
    <2>2. /\ ops[o].state = "authorized"
          /\ ops' = [ops EXCEPT ![o] =
                IF ops[o].committed THEN [ops[o] EXCEPT !.ticket = NoGen, !.unc = FALSE]
                ELSE IF cancel THEN Cancelled(o)
                ELSE [ops[o] EXCEPT !.state = "requested", !.ticket = NoGen,
                                    !.note = "intact", !.unc = FALSE]]
          /\ status' = IF cancel THEN [status EXCEPT ![ops[o].backup] = Restored(o)] ELSE status
      BY <1>11, <2>1 DEF ResetAuthorized
    <2>3. Unconfirmed
      BY <1>2, <1>6, <2>2 DEF Unconfirmed, RowsTyped, Operation
    <2>4. cancel => Active(o) /\ ~ops[o].committed /\ Destructive(o)
      BY <2>2 DEF Active
    <2>5. \A b \in Backups : StatusMoves(b)
      <3>1. CASE cancel
        BY <1>2, <2>2, <2>4, <3>1 DEF StatusMoves, RowsTyped
      <3>2. CASE ~cancel
        BY <2>2, <3>2 DEF StatusMoves
      <3>. QED
        BY <3>1, <3>2
    <2>. QED
      BY <2>3, <2>5
  <1>12. ASSUME NEW c \in calls, ReconcileAuthorized(c) \/ Confirm(c)
         PROVE  Confirmation(c)
    BY <1>12 DEF ReconcileAuthorized, Confirm, Confirmation, Holds
  <1>13. CASE Administration
    <2>1. \/ UNCHANGED <<status, ops>>
          \/ \E b \in Backups : RequestQuarantine(b) \/ RequestRecovery(b)
          \/ \E o \in OpIds : CancelQuarantineRequest(o)
          \/ \E k \in Keys : Revoke(k)
      BY <1>13 DEF Administration, AcknowledgeMissing, Ripen, Pause, RequestResume, Resume,
         ResolveAlarm, RaiseAlarm, AlarmAges, CreateAnomalyExclusion, BeginRelearn,
         SetupAutomation, MarkMailTested, EnableAutomation, catalogue
    <2>. QED
      BY <1>1, <1>4, <1>7, <1>8, <2>1
  <1>14. CASE Maintenance
    <2>1. UNCHANGED <<status, ops>> \/ Check \/ \E b \in Backups : RequestPurge(b)
      BY <1>14 DEF Maintenance, Begin, TakeSnapshot, PhaseDone, CallReconcile, CallAuthorize,
         LeaseLost, Verify, CallValidate, SourceRejected, Move, MoveLink, MoveRemove, SyncMove,
         CallConfirm, CallReport, CheckRefused, ClearBlock, ResolveCatalog, PurgeSkipped,
         PurgeRefused, PurgesScheduled, End, Send, catalogue
    <2>. QED
      BY <1>1, <1>4, <1>9, <2>1
  <1>15. ASSUME NEW c \in calls, Serve(c)
         PROVE  Moved \/ Confirmation(c)
    <2>1. \/ UNCHANGED <<status, ops>>
          \/ ReconcileUncertain(c) \/ ReportError(c) \/ Authorize(c) \/ Validate(c)
          \/ ResetAuthorized(c) \/ ReconcileAuthorized(c) \/ Confirm(c)
      BY <1>15 DEF Serve, ReconcileRead, ReconcileCleared, ReconcileRefused, AuthorizeRefused,
         ValidateRefused, ConfirmRead, ConfirmRefused, ReportRefused, Refused, catalogue
    <2>2. c.op \in OpIds
      BY CallFields
    <2>. QED
      BY <1>1, <1>10, <1>11, <1>12, <2>1, <2>2
  <1>16. CASE Failure
    <2>1. UNCHANGED <<status, ops>>
      BY <1>16 DEF Failure, Timeout, Drop, MoveFails, SyncFails, Expire, Kill, PowerLoss, Lose,
         catalogue
    <2>. QED
      BY <1>1, <2>1
  <1>. QED
    BY <1>13, <1>14, <1>15, <1>16 DEF Next

\* A confirmation gives one backup the status its kind leads to.
LEMMA ConfirmationMoves ==
    ASSUME Inductive, NEW c \in calls, Confirmation(c)
    PROVE  /\ c.op \in OpIds /\ Active(c.op) /\ ops[c.op].backup \in Backups
           /\ status[ops[c.op].backup] = During(ops[c.op].kind)
           /\ status'[ops[c.op].backup] = After(ops[c.op].kind)
           /\ \A b \in Backups : b # ops[c.op].backup => status'[b] = status[b]
           /\ \A o \in OpIds : o # c.op => ops'[o] = ops[o]
           /\ ops'[c.op].state = "confirmed"
  <1>1. PICK o \in OpIds : o = c.op
    BY CallFields
  <1>2. ops[o].backup \in Backups /\ ops[o] \in Operation
    BY OpFields DEF Inductive
  <1>3. /\ ops[o].state = "authorized" /\ status[ops[o].backup] = During(ops[o].kind)
        /\ status' = [status EXCEPT ![ops[o].backup] = After(ops[o].kind)]
        /\ ops' = [ops EXCEPT ![o] = [ops[o] EXCEPT !.state = "confirmed", !.ticket = NoGen,
                                        !.note = "", !.err = FALSE, !.unc = FALSE]]
    BY <1>1 DEF Confirmation, ConfirmRow, Coherent
  <1>4. ops'[o].state = "confirmed" /\ \A p \in OpIds : p # o => ops'[p] = ops[p]
    BY <1>2, <1>3 DEF Inductive, RowsTyped, Operation
  <1>5. /\ status'[ops[o].backup] = After(ops[o].kind)
        /\ \A b \in Backups : b # ops[o].backup => status'[b] = status[b]
    BY <1>2, <1>3 DEF Inductive, RowsTyped
  <1>. QED
    BY <1>1, <1>2, <1>3, <1>4, <1>5 DEF Active

\* Purging never takes the last copy of a key: only acknowledging a loss leaves a
\* key without one (Store.RequestPurge, Store.AcknowledgeMissingAnomaly).
THEOREM LastCopiesStay == Spec => LastCopyKept
  <1>1. Inductive /\ [Next]_vars =>
          [\A k \in Keys :
             Copies(k, Stable) # {} /\ Copies(k, Stable)' = {} => missing' # missing]_vars
    <2>1. SUFFICES ASSUME Inductive, Next, NEW k \in Keys, Copies(k, Stable) # {},
                          missing' = missing
                   PROVE  Copies(k, Stable)' # {}
      OBVIOUS
    <2>2. PICK a \in Backups : KeyOf[a] = k /\ status[a] \in Stable /\ a \notin missing
      BY <2>1 DEF Copies
    <2>3. ASSUME NEW b \in Backups, KeyOf[b] = k, b \notin missing, status'[b] \in Stable
          PROVE  Copies(k, Stable)' # {}
      BY <2>1, <2>3 DEF Copies
    <2>4. ASSUME NEW c \in calls, Confirmation(c)
          PROVE  status'[a] \in Stable
      BY <2>1, <2>2, <2>4, ConfirmationMoves DEF During, After, Stable
    <2>5. ASSUME NEW b \in Backups, RequestPurge(b)
          PROVE  Copies(k, Stable)' # {}
      <3>1. /\ \A e \in Backups : e # b => status'[e] = status[e]
            /\ Cardinality(Copies(KeyOf[b], Stable)) > 1
        BY <2>1, <2>5 DEF RequestPurge, PurgeAllowed, Inductive, RowsTyped
      <3>2. CASE KeyOf[b] # k
        BY <2>2, <2>3, <3>1, <3>2
      <3>3. CASE KeyOf[b] = k
        <4>1. Copies(k, Stable) # {b} /\ Copies(k, Stable) # {}
          <5>1. Cardinality({b}) = 1
            BY FS_Singleton
          <5>. QED
            BY <2>1, <3>1, <3>3, <5>1
        <4>2. PICK e \in Copies(k, Stable) : e # b
          BY <4>1
        <4>. QED
          BY <2>3, <3>1, <4>2 DEF Copies
      <3>. QED
        BY <3>2, <3>3
    <2>6. CASE status'[a] \in Stable
      BY <2>2, <2>3, <2>6
    <2>7. CASE StatusMoves(a)
      BY <2>2, <2>3, <2>5, <2>7 DEF StatusMoves, Stable, Restored
    <2>. QED
      BY <2>1, <2>4, <2>6, <2>7, StatusStep
  <1>. QED
    BY <1>1, RetentionInvariant, PTL DEF Spec, LastCopyKept

-----------------------------------------------------------------------------
(* What moves files.                                                       *)

\* The three moves: which file, under which permission, and to where.
LEMMA FileMoves ==
    ASSUME Inductive, Move \/ MoveLink \/ MoveRemove
    PROVE  /\ cur \in Committed /\ file \in Backups /\ cur \in OpIds
           /\ UNCHANGED <<status, ops>>
           /\ \A b \in Backups : b # file => where'[b] = where[b] /\ disk'[b] = disk[b]
           /\ \/ where'[file] \in {Destination(cur), {Source(cur)} \cup Destination(cur)}
              \/ where'[file] = {} /\ where[file] = {} /\ ops[cur].kind # "purge"
           /\ disk[file] \subseteq disk'[file]
  <1>1. UNCHANGED <<status, ops>> /\ pc \in {"move", "linked"}
    BY DEF Move, MoveLink, MoveRemove, catalogue
  <1>2. cur \in OpIds /\ file \in Backups
    BY <1>1, CurIn DEF Inductive, Work, CallsOK, AtWork
  <1>3. cur \in Committed
    BY DEF Inductive, Work, MoveOK, Move, MoveLink, MoveRemove
  <1>4. Source(cur) \notin Destination(cur)
    BY <1>2, Apart DEF Inductive
  <1>5. \A b \in Backups : b # file => where'[b] = where[b] /\ disk'[b] = disk[b]
    BY <1>2 DEF Move, MoveLink, MoveRemove, Inductive, FilesTyped
  <1>6. disk[file] \subseteq disk'[file]
    BY <1>2 DEF Move, MoveLink, MoveRemove, Inductive, FilesTyped
  <1>7. CASE Move \/ MoveLink
    <2>1. where'[file] \in {Destination(cur), {Source(cur)} \cup Destination(cur)}
      BY <1>2, <1>7 DEF Move, MoveLink, Inductive, FilesTyped
    <2>. QED
      BY <1>1, <1>2, <1>3, <1>5, <1>6, <2>1
  <1>8. CASE MoveRemove
    <2>1. /\ where[file] \in {{Source(cur)} \cup Destination(cur), {}}
          /\ ops[cur].kind # "purge"
      BY <1>8 DEF MoveRemove, Inductive, Work, MoveOK
    <2>2. where'[file] = where[file] \ {Source(cur)}
      BY <1>2, <1>8 DEF MoveRemove, Inductive, FilesTyped
    <2>3. \/ where'[file] = Destination(cur)
          \/ where'[file] = {} /\ where[file] = {}
      BY <1>4, <2>1, <2>2
    <2>. QED
      BY <1>1, <1>2, <1>3, <1>5, <1>6, <2>1, <2>3
  <1>. QED
    BY <1>7, <1>8

\* The steps that touch the directories.
LEMMA WhoTouches ==
    ASSUME Next
    PROVE  \/ UNCHANGED files
           \/ Move \/ MoveLink \/ MoveRemove \/ SyncMove
           \/ PowerLoss \/ \E b \in Backups : Lose(b)
  <1>1. CASE Administration
    BY <1>1 DEF Administration, RequestQuarantine, RequestRecovery, AcknowledgeMissing, Ripen,
       CancelQuarantineRequest, Revoke, Pause, RequestResume, Resume, ResolveAlarm,
       RaiseAlarm, AlarmAges, CreateAnomalyExclusion, BeginRelearn, SetupAutomation,
       MarkMailTested, EnableAutomation
  <1>2. CASE Maintenance
    BY <1>2 DEF Maintenance, Begin, TakeSnapshot, PhaseDone, CallReconcile, CallAuthorize,
       LeaseLost, Verify, CallValidate, SourceRejected, CallConfirm, CallReport, Check,
       CheckRefused, ClearBlock, ResolveCatalog, RequestPurge, PurgeSkipped, PurgeRefused,
       PurgesScheduled, End, Send
  <1>3. ASSUME NEW c \in calls, Serve(c)
        PROVE  UNCHANGED files
    BY <1>3 DEF Serve, ReconcileRead, ReconcileCleared, ReconcileRefused, ReconcileAuthorized,
       ResetAuthorized, ReconcileUncertain, Authorize, AuthorizeRefused, Validate,
       ValidateRefused, ConfirmRead, Confirm, ConfirmRefused, ReportError, ReportRefused, Refused
  <1>4. CASE Failure
    BY <1>4 DEF Failure, Timeout, Drop, MoveFails, SyncFails, Expire, Kill
  <1>. QED
    BY <1>1, <1>2, <1>3, <1>4 DEF Next

\* No file is moved or removed without the writer's durable permission for exactly
\* that move, however stale the lease, the ticket or the snapshot of the
\* maintenance process is (verifyExclusiveSource, Store.ValidateOperation).
THEOREM MovesArePermitted == Spec => MovesPermitted
  <1>1. Inductive /\ [Next]_vars =>
          [\A b \in Backups : where'[b] # where[b] /\ faults' = faults =>
             \E o \in Committed :
                /\ ops[o].backup = b
                /\ where'[b] \in {Destination(o), {Source(o)} \cup Destination(o)}]_vars
    <2>1. SUFFICES ASSUME Inductive, Next, NEW b \in Backups, where'[b] # where[b],
                          faults' = faults
                   PROVE  \E o \in Committed :
                            /\ ops[o].backup = b
                            /\ where'[b] \in {Destination(o), {Source(o)} \cup Destination(o)}
      OBVIOUS
    <2>2. ~Fault
      BY <2>1, FaultCounted DEF Inductive
    <2>3. Move \/ MoveLink \/ MoveRemove
      BY <2>1, <2>2, WhoTouches DEF files, SyncMove, PowerLoss, Lose
    <2>4. /\ cur \in Committed /\ b = file
          /\ where'[file] \in {Destination(cur), {Source(cur)} \cup Destination(cur)}
      BY <2>1, <2>3, FileMoves
    <2>. QED
      BY <2>4 DEF file
  <1>. QED
    BY <1>1, RetentionInvariant, PTL DEF Spec, MovesPermitted

-----------------------------------------------------------------------------
(* Where the files are.                                                    *)

\* A purge of the backup has the final permission.
PurgePermitted(b) == \E o \in Committed : ops[o].backup = b /\ ops[o].kind = "purge"

\* A file is gone only for a reason that stays one.
LEMMA GoneStaysExplained ==
    ASSUME Inductive, RowsKept, Next, NEW b \in Backups,
           status[b] = "deleted" \/ PurgePermitted(b)
    PROVE  status'[b] = "deleted" \/ PurgePermitted(b)'
  <1>1. \A o \in OpIds : Active(o) /\ ops[o].backup = b => status[b] = During(ops[o].kind)
    BY DEF Inductive, Rows, StatusFits
  <1>2. CASE status[b] = "deleted"
    <2>1. \A o \in OpIds : Active(o) => ops[o].backup # b
      BY <1>1, <1>2 DEF During
    <2>2. ASSUME NEW c \in calls, Confirmation(c)
          PROVE  status'[b] = status[b]
      BY <2>1, <2>2, ConfirmationMoves
    <2>3. StatusMoves(b) => status'[b] = status[b]
      BY <1>2, <2>1 DEF StatusMoves, RequestPurge, PurgeAllowed
    <2>. QED
      BY <1>2, <2>2, <2>3, StatusStep
  <1>3. ASSUME NEW o \in Committed, ops[o].backup = b, ops[o].kind = "purge"
        PROVE  status'[b] = "deleted" \/ PurgePermitted(b)'
    <2>1. o \in OpIds /\ Active(o) /\ ops[o].state = "authorized"
      BY DEF Committed, InState, Active
    <2>2. /\ ops'[o].backup = b /\ ops'[o].kind = "purge"
          /\ ops'[o].committed /\ ops'[o].state \in {"authorized", "confirmed"}
      BY <1>3, <2>1 DEF RowsKept, OpsProgress
    <2>3. CASE ops'[o].state = "authorized"
      BY <2>1, <2>2, <2>3 DEF PurgePermitted, Committed, InState
    <2>4. CASE ops'[o].state = "confirmed"
      <3>1. PICK c \in calls : Confirmation(c)
        BY <2>1, <2>4, StatusStep DEF Unconfirmed
      <3>2. c.op = o
        BY <2>1, <2>4, <3>1, ConfirmationMoves
      <3>. QED
        BY <1>3, <3>1, <3>2, ConfirmationMoves DEF After
    <2>. QED
      BY <2>2, <2>3, <2>4
  <1>. QED
    BY <1>2, <1>3 DEF PurgePermitted

\* No step empties both what processes see and what a power loss leaves: a move
\* has its destination, a link keeps the source, and syncing copies what is there.
LEMMA FilesKept ==
    ASSUME "loss" \notin Events, Inductive, RowsKept, FileNeverLost, Next
    PROVE  FileNeverLost'
  <1>1. SUFFICES ASSUME NEW b \in Backups
                 PROVE  \/ where'[b] # {} /\ disk'[b] # {}
                        \/ status'[b] = "deleted" \/ PurgePermitted(b)'
    BY DEF FileNeverLost, PurgePermitted
  <1>2. CASE status[b] = "deleted" \/ PurgePermitted(b)
    BY <1>2, GoneStaysExplained
  <1>3. CASE ~(status[b] = "deleted" \/ PurgePermitted(b))
    <2>1. where[b] # {} /\ disk[b] # {}
      BY <1>3 DEF FileNeverLost, PurgePermitted
    <2>2. CASE UNCHANGED files
      BY <2>1, <2>2 DEF files
    <2>3. CASE SyncMove
      BY <2>1, <2>3 DEF SyncMove
    <2>4. CASE PowerLoss
      BY <2>1, <2>4 DEF PowerLoss
    <2>5. CASE Move \/ MoveLink \/ MoveRemove
      <3>1. CASE b # file
        BY <2>1, <2>5, <3>1, FileMoves
      <3>2. CASE b = file
        <4>1. ops[cur].kind # "purge" /\ cur \in OpIds
          BY <1>3, <2>5, <3>2, FileMoves DEF PurgePermitted, file
        <4>2. Destination(cur) # {}
          BY <4>1, Apart DEF Inductive
        <4>. QED
          BY <2>1, <2>5, <3>2, <4>2, FileMoves
      <3>. QED
        BY <3>1, <3>2
    <2>. QED
      BY <2>2, <2>3, <2>4, <2>5, WhoTouches DEF Lose
  <1>. QED
    BY <1>2, <1>3

LEMMA FilesAtFirst == Init => FileNeverLost
  <1>1. SUFFICES ASSUME Init, NEW b \in Backups
                 PROVE  where[b] # {} /\ disk[b] # {}
    BY DEF FileNeverLost
  <1>2. status[b] \in {"complete", "quarantined"} /\ where[b] = PlaceOf(status[b])
        /\ disk[b] = where[b]
    BY <1>1 DEF Init
  <1>3. PlaceOf("complete") # {} /\ PlaceOf("quarantined") # {}
    BY DEF PlaceOf
  <1>. QED
    BY <1>2, <1>3

\* A file exists somewhere, before and after a power loss, until its purge is
\* definitively permitted, unless something outside the program removes it
\* (renameNoReplace, syncDirectories, Store.ValidateOperation).
THEOREM FilesAreNeverLost ==
    ASSUME "loss" \notin Events
    PROVE  Spec => []FileNeverLost
  <1>1. Inductive /\ FileNeverLost /\ [Next]_vars => FileNeverLost'
    <2>1. ASSUME Inductive, FileNeverLost, Next
          PROVE  FileNeverLost'
      BY <2>1, BoxStep, FilesKept
    <2>2. ASSUME FileNeverLost, UNCHANGED vars
          PROVE  FileNeverLost'
      BY <2>2 DEF FileNeverLost, vars, catalogue, files, Committed, InState
    <2>. QED
      BY <2>1, <2>2
  <1>. QED
    BY <1>1, RetentionInvariant, FilesAtFirst, PTL DEF Spec

\* Something outside the program has removed the file.
Removed(b) == "loss" \in Events /\ where[b] = {}
NoneRemoved == "loss" \notin Events => FileNeverLost

\* A file has not left its place while no active operation of its backup has the
\* final permission.
Unmoved ==
    \A b \in Backups :
        (\A o \in OpIds : Active(o) /\ ops[o].backup = b => ~ops[o].committed)
            => where[b] = PlaceOf(status[b]) \/ Removed(b)

\* What is confirmed has moved: what a call has read is still so.
LEMMA ConfirmedMoved ==
    ASSUME Inductive, NoneRemoved, NEW c \in calls, Confirmation(c)
    PROVE  \/ where[ops[c.op].backup] = PlaceOf(After(ops[c.op].kind))
           \/ Removed(ops[c.op].backup)
  <1>1. PICK o \in OpIds : o = c.op /\ Active(o) /\ ops[o].backup \in Backups /\ ops[o].kind \in Kinds
    BY ConfirmationMoves, OpFields DEF Inductive
  <1>2. where[ops[o].backup] \in {Destination(o), {}}
    BY <1>1 DEF Confirmation, Inductive, Work, DoneOK
  <1>3. status[ops[o].backup] # "deleted"
    BY <1>1 DEF Inductive, Rows, StatusFits, During
  <1>4. where[ops[o].backup] = {} => ops[o].kind = "purge" \/ "loss" \in Events
    <2>1. SUFFICES ASSUME where[ops[o].backup] = {}, "loss" \notin Events
                   PROVE  ops[o].kind = "purge"
      OBVIOUS
    <2>2. PICK p \in Committed : ops[p].backup = ops[o].backup /\ ops[p].kind = "purge"
      BY <1>1, <1>3, <2>1 DEF FileNeverLost, NoneRemoved
    <2>3. p = o
      BY <1>1, <2>2 DEF Committed, InState, Active, Inductive, Rows, OneActive
    <2>. QED
      BY <2>2, <2>3
  <1>5. Destination(o) = PlaceOf(After(ops[o].kind)) /\ (ops[o].kind = "purge" => Destination(o) = {})
    BY <1>1 DEF Destination, PlaceOf, After, Kinds
  <1>. QED
    BY <1>1, <1>2, <1>4, <1>5 DEF Removed

LEMMA UnmovedKept ==
    ASSUME "power" \notin Events, Inductive, RowsKept, NoneRemoved, Unmoved, Next
    PROVE  Unmoved'
  <1>1. SUFFICES ASSUME NEW b \in Backups,
                        \A o \in OpIds : Active(o)' /\ ops'[o].backup = b => ~ops'[o].committed
                 PROVE  where'[b] = PlaceOf(status'[b]) \/ Removed(b)'
    BY DEF Unmoved
  <1>2. CASE Move \/ MoveLink \/ MoveRemove
    <2>1. b # file /\ UNCHANGED <<status, ops>>
      BY <1>1, <1>2, FileMoves DEF Committed, InState, Active, file
    <2>2. where'[b] = where[b]
      BY <1>2, <2>1, FileMoves
    <2>. QED
      BY <1>1, <2>1, <2>2 DEF Unmoved, Active, Removed
  <1>3. CASE UNCHANGED where /\ ~Removed(b)
    <2>1. \A o \in OpIds : Active(o) /\ ops[o].backup = b => status[b] = During(ops[o].kind)
      BY DEF Inductive, Rows, StatusFits
    <2>2. ASSUME NEW c \in calls, Confirmation(c), ops[c.op].backup = b
          PROVE  where[b] = PlaceOf(status'[b])
      BY <1>3, <2>2, ConfirmedMoved, ConfirmationMoves
    <2>3. CASE status'[b] = status[b] /\ \A o \in OpIds : ops[o].backup = b /\ ops[o].state = "authorized"
                                            => ops'[o].state # "confirmed"
      <3>1. ASSUME NEW o \in OpIds, Active(o), ops[o].backup = b, ops[o].committed
            PROVE  FALSE
        <4>1. o \in Committed /\ ops[o].state = "authorized"
          BY <3>1 DEF Inductive, Rows, Granted, Active, Committed, InState
        <4>2. ops'[o].committed /\ ops'[o].state = "authorized" /\ ops'[o].backup = b
          BY <2>3, <3>1, <4>1 DEF RowsKept, OpsProgress
        <4>. QED
          BY <1>1, <4>2 DEF Active
      <3>2. where[b] = PlaceOf(status[b])
        BY <1>3, <3>1 DEF Unmoved
      <3>. QED
        BY <1>3, <2>3, <3>2
    <2>4. CASE status[b] = "complete" /\ status'[b] = "deleting"
      <3>1. where[b] = PlaceOf(status[b])
        BY <1>3, <2>1, <2>4 DEF Unmoved, During
      <3>. QED
        BY <1>3, <2>4, <3>1 DEF PlaceOf
    <2>5. CASE RequestPurge(b)
      <3>1. ActiveOps(b) = {} /\ status[b] = "quarantined" /\ status'[b] = "purging"
        BY <2>5 DEF RequestPurge, PurgeAllowed, Inductive, RowsTyped
      <3>2. where[b] = PlaceOf(status[b])
        BY <1>3, <3>1 DEF Unmoved, ActiveOps, Active
      <3>. QED
        BY <1>3, <3>1, <3>2 DEF PlaceOf
    <2>6. ASSUME NEW o \in OpIds, Active(o), ~ops[o].committed, Destructive(o),
                 ops[o].backup = b, status'[b] = Restored(o)
          PROVE  where'[b] = PlaceOf(status'[b])
      <3>1. \A p \in OpIds : Active(p) /\ ops[p].backup = b => p = o
        BY <2>6 DEF Inductive, Rows, OneActive
      <3>2. where[b] = PlaceOf(status[b]) /\ status[b] = During(ops[o].kind)
        BY <1>3, <2>1, <2>6, <3>1 DEF Unmoved
      <3>. QED
        BY <1>3, <2>6, <3>2 DEF PlaceOf, During, Restored, Destructive
    <2>7. ASSUME NEW c \in calls, Confirmation(c), ops[c.op].backup # b
          PROVE  where'[b] = PlaceOf(status'[b])
      <3>1. status'[b] = status[b] /\ \A o \in OpIds : ops[o].backup = b => ops'[o] = ops[o]
        BY <2>7, ConfirmationMoves
      <3>. QED
        BY <1>3, <2>3, <3>1 DEF Removed
    <2>8. CASE Unconfirmed /\ StatusMoves(b)
      <3>1. \A o \in OpIds : ops[o].state = "authorized" => ops'[o].state # "confirmed"
        BY <2>8 DEF Unconfirmed
      <3>. QED
        BY <2>3, <2>4, <2>5, <2>6, <2>8, <3>1 DEF StatusMoves
    <2>. QED
      BY <1>3, <2>2, <2>7, <2>8, StatusStep
  <1>4. CASE UNCHANGED where /\ Removed(b)
    BY <1>4 DEF Removed
  <1>5. ASSUME NEW x \in Backups, Lose(x)
        PROVE  where'[b] = PlaceOf(status'[b]) \/ Removed(b)'
    <2>1. UNCHANGED <<status, ops>> /\ "loss" \in Events
      BY <1>5 DEF Lose, catalogue
    <2>2. where'[b] = where[b] \/ where'[b] = {}
      BY <1>5 DEF Lose, Inductive, Work
    <2>3. where[b] = PlaceOf(status[b]) \/ Removed(b)
      BY <1>1, <2>1 DEF Unmoved, Active
    <2>. QED
      BY <2>1, <2>2, <2>3 DEF Removed
  <1>. QED
    BY <1>2, <1>3, <1>4, <1>5, WhoTouches DEF files, SyncMove, PowerLoss

LEMMA UnmovedAtFirst == Init => Unmoved
  BY DEF Init, Unmoved

\* Without power loss the catalogue tells where each file is that nobody has
\* removed from outside, except while an authorised operation is moving it
\* (Store.ConfirmOperation, Store.ReconcileAuthorized, Store.ResetAuthorized).
THEOREM CatalogueIsTrue ==
    ASSUME "power" \notin Events
    PROVE  Spec => []CatalogueMatchesFiles
  <1>1. Inductive /\ NoneRemoved /\ Unmoved /\ [Next]_vars => Unmoved'
    <2>1. ASSUME Inductive, NoneRemoved, Unmoved, Next
          PROVE  Unmoved'
      BY <2>1, BoxStep, UnmovedKept
    <2>2. ASSUME Unmoved, UNCHANGED vars
          PROVE  Unmoved'
      BY <2>2 DEF Unmoved, Removed, vars, catalogue, files, Active
    <2>. QED
      BY <2>1, <2>2
  <1>2. Inductive /\ Unmoved => CatalogueMatchesFiles
    BY DEF Inductive, Rows, Granted, Unmoved, Removed, Active, CatalogueMatchesFiles,
           ActiveOps
  <1>3. Spec => []NoneRemoved
    <2>1. CASE "loss" \in Events
      <3>1. NoneRemoved
        BY <2>1 DEF NoneRemoved
      <3>. QED
        BY <3>1, PTL
    <2>2. CASE "loss" \notin Events
      <3>1. Spec => []FileNeverLost
        BY <2>2, FilesAreNeverLost
      <3>2. FileNeverLost => NoneRemoved
        BY DEF NoneRemoved
      <3>. QED
        BY <3>1, <3>2, PTL
    <2>. QED
      BY <2>1, <2>2
  <1>. QED
    BY <1>1, <1>2, <1>3, RetentionInvariant, UnmovedAtFirst, PTL DEF Spec
=============================================================================
