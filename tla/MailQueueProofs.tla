---------------------------- MODULE MailQueueProofs ----------------------------
(***************************************************************************)
(* Theorems about MailQueue, for any queue, limits, backoff and numbers of *)
(* orders and faults.  The proof of a configuration travels from the SMTP  *)
(* server to the catalogue in a confirmation, possibly a late one, so the  *)
(* invariant is about every confirmation under way; and the id of a report *)
(* is tied to the time left until the next one by the clock.               *)
(***************************************************************************)
EXTENDS MailQueue, SequenceTheorems, TLAPS

\* A confirmation of a test mail carries a version with which SMTP accepted it.
Genuine(c) ==
    c.type = "confirm" =>
        /\ c.id \in 1 .. Len(rows)
        /\ c.ok /\ rows[c.id].kind = "test" => c.version \in proven
Confirming ==
    pc = "confirm" /\ outcome =>
        \A id \in batch : Turn(id) /\ rows[id].kind = "test" => settings \in proven
ConfirmationsProven == Confirming /\ \A c \in late : Genuine(c)

\* Mail is sent only with settings that were read.
SettingsRead == pc \in {"send", "confirm", "tell"} => settings \in Versions

\* The id of the current window is taken only with a report queued in it, from
\* which 72 hours are counted.
WindowTaken == "report" \in used => report >= Period - clock

\* A pending call whose id is taken has been overtaken by the one that queued it.
OvertakenNotDue == PendingReports \cap used # {} => report > 0

MailInductive ==
    /\ TypeOK /\ SettingsRead
    /\ TestedProven /\ ConfirmationsProven
    /\ WindowTaken /\ OvertakenNotDue

\* The parts of the type invariant that concern the process and the bounds.
ProcessOK ==
    /\ pc \in {"idle", "plan", "queue", "refresh", "due", "send", "confirm", "tell"}
    /\ settings \in {0} \cup Versions /\ SettingsRead
    /\ plan \subseteq Planned /\ batch \subseteq 1 .. Len(rows)
    /\ outcome \in BOOLEAN
BoundsOK ==
    tests \in 0 .. MaxTests /\ refusals \in 0 .. MaxRefusals /\ faults \in 0 .. MaxFaults

\* Rows are appended and updated, and keep their kind.
KindsKept ==
    /\ Len(rows') >= Len(rows)
    /\ \A i \in 1 .. Len(rows) : rows'[i].kind = rows[i].kind

\* What an order or a served call leaves behind in the catalogue.
CatalogueServed ==
    /\ rows' \in Seq(Row) /\ KindsKept
    /\ used' \subseteq StableIds /\ version' \in Versions /\ report' \in Unset .. Period
    /\ tested' \in BOOLEAN /\ incident' \in BOOLEAN /\ since' \in 0 .. Day
    /\ tested' => version' \in proven
    /\ "report" \in used' => report' >= Period - clock
    /\ \A x \in Reports : x \in used' => report' > 0 \/ (x \in used /\ report' = report)

-----------------------------------------------------------------------------
(* The queue.                                                              *)

LEMMA Constants ==
    /\ Limit \in Nat \ {0} /\ Day \in Nat \ {0} /\ Period \in Nat \ {0}
    /\ BackoffCap \in Nat /\ MaxTests \in Nat /\ MaxSetups \in Nat /\ MaxReports \in Nat
    /\ MaxRefusals \in Nat /\ MaxFaults \in Nat
  BY MailAssumption

LEMMA NewIsRow == \A kind \in Kinds : New(kind) \in Row /\ New(kind).kind = kind
  <1>1. 0 \in 0 .. 2 ^ BackoffCap
    <2>1. 2 ^ BackoffCap \in 0 .. 2 ^ BackoffCap
      BY Constants, BackoffAssumption
    <2>. QED
      BY <2>1
  <1>2. FALSE \in BOOLEAN
    OBVIOUS
  <1>. QED
    BY <1>1, <1>2, Constants DEF New, Row

\* Replacing one row by a row of the same kind.
LEMMA RowReplaced ==
    ASSUME TypeOK, NEW id \in 1 .. Len(rows), NEW r \in Row, r.kind = rows[id].kind,
           rows' = [rows EXCEPT ![id] = r]
    PROVE  rows' \in Seq(Row) /\ Len(rows') = Len(rows) /\ KindsKept
  <1>1. rows \in Seq(Row)
    BY DEF TypeOK
  <1>2. /\ rows' \in Seq(Row) /\ Len(rows') = Len(rows)
        /\ \A j \in 1 .. Len(rows) : rows'[j] = IF j = id THEN r ELSE rows[j]
    BY <1>1, ExceptSeq
  <1>3. Len(rows) \in Nat
    BY <1>1, LenProperties
  <1>. QED
    BY <1>2, <1>3 DEF KindsKept

LEMMA RowInserted ==
    ASSUME TypeOK, NEW kind \in Kinds, rows' = Append(rows, New(kind))
    PROVE  rows' \in Seq(Row) /\ KindsKept
  <1>1. rows \in Seq(Row) /\ New(kind) \in Row
    BY NewIsRow DEF TypeOK
  <1>2. /\ rows' \in Seq(Row) /\ Len(rows') = Len(rows) + 1
        /\ \A i \in 1 .. Len(rows) : rows'[i] = rows[i]
    BY <1>1, AppendProperties
  <1>3. Len(rows) \in Nat
    BY <1>1, LenProperties
  <1>. QED
    BY <1>2, <1>3 DEF KindsKept

LEMMA RowsUnchanged ==
    ASSUME TypeOK, UNCHANGED rows
    PROVE  rows' \in Seq(Row) /\ Len(rows') = Len(rows) /\ KindsKept
  <1>1. rows \in Seq(Row) /\ Len(rows) \in Nat
    BY LenProperties DEF TypeOK
  <1>. QED
    BY <1>1 DEF KindsKept

\* What an INSERT OR IGNORE does.
LEMMA Inserted ==
    ASSUME TypeOK, NEW kind \in Kinds, NEW stable \in StableIds,
           InsertOrIgnore(kind, stable)
    PROVE  rows' \in Seq(Row) /\ KindsKept /\ used' = used \cup {stable}
  <1>1. CASE stable \in used
    <2>1. UNCHANGED rows /\ UNCHANGED used
      BY <1>1 DEF InsertOrIgnore, queue
    <2>. QED
      BY <1>1, <2>1, RowsUnchanged
  <1>2. CASE stable \notin used
    BY <1>2, RowInserted DEF InsertOrIgnore, Insert
  <1>. QED
    BY <1>1, <1>2

LEMMA RecordedIsRow ==
    ASSUME NEW row \in Row, NEW ok \in BOOLEAN
    PROVE  Recorded(row, ok) \in Row /\ Recorded(row, ok).kind = row.kind
  <1>1. CASE ok
    <2>1. TRUE \in BOOLEAN
      OBVIOUS
    <2>2. Recorded(row, ok) = [row EXCEPT !.sent = TRUE]
      BY <1>1 DEF Recorded
    <2>. QED
      BY <2>1, <2>2 DEF Row
  <1>2. CASE ~ok
    <2>. DEFINE more == IF row.attempts < BackoffCap THEN row.attempts + 1 ELSE row.attempts
                wait == 2 ^ row.attempts
    <2>1. row.attempts \in 0 .. BackoffCap
      BY DEF Row
    <2>2. more \in 0 .. BackoffCap
      BY <2>1, Constants
    <2>3. wait \in 0 .. 2 ^ BackoffCap
      BY <2>1, BackoffAssumption
    <2>4. Recorded(row, ok) = [row EXCEPT !.attempts = more, !.wait = wait]
      BY <1>2 DEF Recorded
    <2>. HIDE DEF more, wait
    <2>. QED
      BY <2>2, <2>3, <2>4 DEF Row
  <1>. QED
    BY <1>1, <1>2

LEMMA ConfirmedRow ==
    ASSUME TypeOK, NEW id \in 1 .. Len(rows), NEW ok \in BOOLEAN,
           NEW v, ConfirmMail(id, ok, v)
    PROVE  rows' \in Seq(Row) /\ KindsKept
  <1>1. rows[id] \in Row
    BY ElementOfSeq DEF TypeOK
  <1>2. CASE rows[id].sent
    <2>1. UNCHANGED rows
      BY <1>2 DEF ConfirmMail
    <2>. QED
      BY <2>1, RowsUnchanged
  <1>3. CASE ~rows[id].sent
    <2>1. rows' = [rows EXCEPT ![id] = Recorded(rows[id], ok)]
      BY <1>3 DEF ConfirmMail
    <2>2. PICK r \in Row : r = Recorded(rows[id], ok) /\ r.kind = rows[id].kind
      BY <1>1, RecordedIsRow
    <2>. QED
      BY <2>1, <2>2, RowReplaced
  <1>. QED
    BY <1>2, <1>3


-----------------------------------------------------------------------------
(* Served calls.                                                           *)

LEMMA Stables ==
    /\ Planned = {"reminder", "report", "old reminder", "old report"}
    /\ Reports \subseteq Planned /\ Planned \subseteq StableIds
    /\ "anomaly" \in StableIds /\ "resolution" \in StableIds /\ "test" \in StableIds
  BY DEF Planned, Dated, Old, Reports, StableIds

LEMMA ConfirmServed ==
    ASSUME MailInductive, NEW id \in 1 .. Len(rows), NEW ok \in BOOLEAN, NEW v,
           ok /\ rows[id].kind = "test" => v \in proven,
           ConfirmMail(id, ok, v)
    PROVE  CatalogueServed
  <1>. USE DEF MailInductive
  <1>1. rows' \in Seq(Row) /\ KindsKept
    BY ConfirmedRow
  <1>2. UNCHANGED <<used, version, incident, since>>
    BY DEF ConfirmMail
  <1>3. \/ UNCHANGED <<tested, report>>
        \/ /\ ok /\ rows[id].kind = "test" /\ v = version
           /\ tested' = TRUE /\ report' = IF report = Unset THEN Period ELSE report
    BY Zenon DEF ConfirmMail
  <1>4. report' = report \/ report' = Period
    BY <1>3
  <1>5. tested' \in BOOLEAN /\ (tested' => version' \in proven)
    <2>1. CASE UNCHANGED <<tested, report>>
      BY <1>2, <2>1, Zenon DEF TypeOK, TestedProven
    <2>2. CASE ok /\ rows[id].kind = "test" /\ v = version /\ tested' = TRUE
      BY <1>2, <2>2, Zenon
    <2>. QED
      BY <1>3, <2>1, <2>2, Zenon
  <1>6. report' \in Unset .. Period
    BY <1>4, Constants DEF TypeOK, Unset
  <1>7. "report" \in used' => report' >= Period - clock
    BY <1>2, <1>4, Constants DEF WindowTaken, TypeOK
  <1>8. \A x \in Reports : x \in used' => report' > 0 \/ (x \in used /\ report' = report)
    BY <1>2, <1>4, Constants
  <1>9. used' \subseteq StableIds /\ version' \in Versions
        /\ incident' \in BOOLEAN /\ since' \in 0 .. Day
    BY <1>2, Zenon DEF TypeOK
  <1>. QED
    BY <1>1, <1>5, <1>6, <1>7, <1>8, <1>9 DEF CatalogueServed

\* The incident is opened or resolved with its mail, or nothing happens.
LEMMA IncidentServed ==
    ASSUME MailInductive, Open \/ Resolve
    PROVE  CatalogueServed
  <1>. USE DEF MailInductive
  <1>1. UNCHANGED <<version, tested, report>>
    BY DEF Open, Resolve
  <1>2. \/ UNCHANGED <<rows, used, incident, since>>
        \/ /\ incident' \in BOOLEAN /\ since' = 0
           /\ \E kind \in {"anomaly", "resolution"} : Insert(kind, kind)
    <2>1. CASE Open
      <3>1. CASE incident \/ "anomaly" \in used
        BY <2>1, <3>1 DEF Open, queue
      <3>2. CASE ~(incident \/ "anomaly" \in used)
        <4>1. incident' = TRUE /\ since' = 0 /\ Insert("anomaly", "anomaly")
          BY <2>1, <3>2 DEF Open
        <4>. QED
          BY <4>1, Zenon
      <3>. QED
        BY <3>1, <3>2
    <2>2. CASE Resolve
      <3>1. CASE ~incident \/ "resolution" \in used
        BY <2>2, <3>1 DEF Resolve, queue
      <3>2. CASE ~(~incident \/ "resolution" \in used)
        <4>1. incident' = FALSE /\ since' = 0 /\ Insert("resolution", "resolution")
          BY <2>2, <3>2 DEF Resolve
        <4>. QED
          BY <4>1, Zenon
      <3>. QED
        BY <3>1, <3>2
    <2>. QED
      BY <2>1, <2>2
  <1>3. /\ rows' \in Seq(Row) /\ KindsKept
        /\ used' \subseteq used \cup {"anomaly", "resolution"}
    <2>1. CASE UNCHANGED <<rows, used>>
      BY <2>1, RowsUnchanged
    <2>2. ASSUME NEW kind \in {"anomaly", "resolution"}, Insert(kind, kind)
          PROVE  /\ rows' \in Seq(Row) /\ KindsKept
                 /\ used' \subseteq used \cup {"anomaly", "resolution"}
      BY <2>2, RowInserted DEF Insert, Kinds
    <2>. QED
      BY <1>2, <2>1, <2>2
  <1>4. incident' \in BOOLEAN
    BY <1>2, Zenon DEF TypeOK
  <1>5. since' \in 0 .. Day
    BY <1>2, Constants DEF TypeOK
  <1>6. used' \subseteq StableIds /\ used' \cap Reports \subseteq used
    BY <1>3, Stables DEF TypeOK, Reports
  <1>7. tested' \in BOOLEAN /\ (tested' => version' \in proven)
    BY <1>1, Zenon DEF TypeOK, TestedProven
  <1>8. "report" \in used' => report' >= Period - clock
    BY <1>1, <1>6 DEF WindowTaken, Reports
  <1>. QED
    BY <1>1, <1>3, <1>4, <1>5, <1>6, <1>7, <1>8 DEF CatalogueServed, TypeOK

\* A reminder or report is queued, and a report arms the next one.
LEMMA DatedServed ==
    ASSUME MailInductive, NEW stable \in Planned, QueueDated(stable)
    PROVE  CatalogueServed
  <1>. USE DEF MailInductive
  <1>1. UNCHANGED <<version, tested, incident, since>>
    BY DEF QueueDated
  <1>2. /\ rows' \in Seq(Row) /\ KindsKept /\ used' = used \cup {stable}
        /\ IF stable \in Reports THEN report' = Period ELSE report' = report
    BY Inserted, Stables DEF QueueDated, Kinds
  <1>3. report' \in Unset .. Period
    BY <1>2, Constants DEF TypeOK, Unset
  <1>4. "report" \in used' => report' >= Period - clock
    <2>1. clock \in 0 .. Period - 1
      BY DEF TypeOK
    <2>2. CASE stable \in Reports
      BY <1>2, <2>1, <2>2, Constants
    <2>3. CASE stable \notin Reports
      BY <1>2, <2>3 DEF WindowTaken, Reports
    <2>. QED
      BY <2>2, <2>3
  <1>5. \A x \in Reports : x \in used' => report' > 0 \/ (x \in used /\ report' = report)
    BY <1>2, Constants
  <1>6. used' \subseteq StableIds
    BY <1>2, Stables DEF TypeOK
  <1>7. /\ tested' \in BOOLEAN /\ incident' \in BOOLEAN /\ since' \in 0 .. Day
        /\ tested' => version' \in proven
        /\ version' \in Versions
    BY <1>1, Zenon DEF TypeOK, TestedProven
  <1>. QED
    BY <1>1, <1>2, <1>3, <1>4, <1>5, <1>6, <1>7 DEF CatalogueServed

LEMMA CallServed ==
    ASSUME MailInductive, NEW c \in Call, Genuine(c), Effect(c)
    PROVE  CatalogueServed
  <1>1. CASE c.type = "confirm" /\ ConfirmMail(c.id, c.ok, c.version)
    <2>1. c.ok \in BOOLEAN
      BY Zenon DEF Call
    <2>2. c.id \in 1 .. Len(rows) /\ (c.ok /\ rows[c.id].kind = "test" => c.version \in proven)
      BY <1>1 DEF Genuine
    <2>. QED
      BY <1>1, <2>1, <2>2, ConfirmServed
  <1>2. CASE Open \/ Resolve
    BY <1>2, IncidentServed
  <1>3. CASE c.type \in Planned /\ QueueDated(c.type)
    BY <1>3, DatedServed
  <1>. QED
    BY <1>1, <1>2, <1>3 DEF Effect

LEMMA CatalogueUnchanged ==
    ASSUME MailInductive, UNCHANGED <<queue, state>>
    PROVE  CatalogueServed
  <1>. USE DEF MailInductive
  <1>1. UNCHANGED <<rows, used, version, tested, report, incident, since>>
    BY DEF queue, state
  <1>2. rows' \in Seq(Row) /\ KindsKept
    BY <1>1, RowsUnchanged
  <1>3. /\ used' \subseteq StableIds /\ version' \in Versions
        /\ tested' \in BOOLEAN /\ incident' \in BOOLEAN /\ since' \in 0 .. Day
        /\ tested' => version' \in proven
    BY <1>1, Zenon DEF TypeOK, TestedProven
  <1>4. report' \in Unset .. Period
    BY <1>1 DEF TypeOK
  <1>. QED
    BY <1>1, <1>2, <1>3, <1>4 DEF CatalogueServed, WindowTaken

-----------------------------------------------------------------------------
(* Steps that leave the clock alone.                                       *)

LEMMA GenuineKept ==
    ASSUME MailInductive, CatalogueServed, proven \subseteq proven',
           NEW c \in Call, Genuine(c)
    PROVE  Genuine(c)'
  <1>1. Len(rows) \in Nat /\ Len(rows') \in Nat
    BY LenProperties DEF MailInductive, TypeOK, CatalogueServed
  <1>2. CASE c.type = "confirm"
    <2>1. c.id \in 1 .. Len(rows) /\ (c.ok /\ rows[c.id].kind = "test" => c.version \in proven)
      BY <1>2 DEF Genuine
    <2>2. c.id \in 1 .. Len(rows') /\ rows'[c.id].kind = rows[c.id].kind
      BY <1>1, <2>1 DEF CatalogueServed, KindsKept
    <2>. QED
      BY <2>1, <2>2, Zenon DEF Genuine
  <1>3. CASE c.type # "confirm"
    BY <1>3 DEF Genuine
  <1>. QED
    BY <1>2, <1>3

\* Such a step preserves the invariant when what it leaves in the process does.
LEMMA StepKept ==
    ASSUME MailInductive, CatalogueServed, ProcessOK', BoundsOK', Confirming',
           UNCHANGED clock, proven \subseteq proven', proven' \subseteq Versions,
           late' \subseteq Call, \A c \in late' : c \in late \/ Genuine(c)',
           \A x \in PendingReports' : x \in PendingReports \/ x \notin used'
    PROVE  MailInductive'
  <1>1. TypeOK' /\ SettingsRead'
    <2>1. clock' \in 0 .. Period - 1
      BY DEF MailInductive, TypeOK
    <2>. QED
      BY <2>1, Zenon DEF CatalogueServed, ProcessOK, BoundsOK, TypeOK
  <1>2. TestedProven'
    BY Zenon DEF CatalogueServed, TestedProven
  <1>3. ConfirmationsProven'
    <2>1. \A c \in late : c \in Call /\ Genuine(c)
      BY DEF MailInductive, TypeOK, ConfirmationsProven
    <2>2. \A c \in late' : Genuine(c)'
      BY <2>1, GenuineKept
    <2>. QED
      BY <2>2 DEF ConfirmationsProven
  <1>4. WindowTaken'
    BY DEF CatalogueServed, WindowTaken
  <1>5. OvertakenNotDue'
    <2>1. SUFFICES ASSUME NEW x \in PendingReports', x \in used'
                   PROVE  report' > 0
      BY DEF OvertakenNotDue
    <2>2. x \in PendingReports /\ x \in Reports
      BY <2>1 DEF PendingReports
    <2>3. report' > 0 \/ (x \in used /\ report' = report)
      BY <2>1, <2>2 DEF CatalogueServed
    <2>4. x \in used => report > 0
      BY <2>2 DEF MailInductive, OvertakenNotDue
    <2>. QED
      BY <2>3, <2>4
  <1>. QED
    BY <1>1, <1>2, <1>3, <1>4, <1>5 DEF MailInductive

LEMMA ProcessTyped ==
    ASSUME MailInductive
    PROVE  /\ ProcessOK /\ BoundsOK /\ proven \subseteq Versions /\ late \subseteq Call
           /\ Len(rows) \in Nat
  BY LenProperties DEF MailInductive, TypeOK, ProcessOK, BoundsOK

\* The process is elsewhere, or at rest.
LEMMA ProcessUnchanged ==
    ASSUME MailInductive, CatalogueServed, UNCHANGED process, UNCHANGED proven
    PROVE  ProcessOK' /\ Confirming'
  <1>1. UNCHANGED <<pc, settings, plan, batch, outcome>>
    BY DEF process
  <1>2. Len(rows) \in Nat /\ Len(rows') \in Nat
    BY LenProperties DEF MailInductive, TypeOK, CatalogueServed
  <1>3. batch \subseteq 1 .. Len(rows)
    BY DEF MailInductive, TypeOK
  <1>4. batch' \subseteq 1 .. Len(rows') /\ \A i \in batch' : rows'[i].kind = rows[i].kind
    BY <1>1, <1>2, <1>3 DEF CatalogueServed, KindsKept
  <1>5. ProcessOK'
    BY <1>1, <1>4, Zenon DEF MailInductive, TypeOK, ProcessOK, SettingsRead
  <1>6. Confirming'
    BY <1>1, <1>4 DEF MailInductive, ConfirmationsProven, Confirming, Turn
  <1>. QED
    BY <1>5, <1>6

LEMMA IdleOK ==
    ASSUME Idle
    PROVE  ProcessOK' /\ Confirming' /\ plan' = {}
  <1>1. outcome' \in BOOLEAN
    BY Zenon DEF Idle
  <1>2. SettingsRead' /\ Confirming'
    BY DEF Idle, SettingsRead, Confirming
  <1>. QED
    BY <1>1, <1>2 DEF Idle, ProcessOK

LEMMA PendingFewer ==
    ASSUME plan' \subseteq plan, NEW c, late' \subseteq late \cup {c},
           c.type \in Reports => c.type \in PendingReports
    PROVE  PendingReports' \subseteq PendingReports
  BY DEF PendingReports

\* Nothing becomes pending when plan and late stay or shrink.
LEMMA PendingSame ==
    ASSUME plan' \subseteq plan, late' \subseteq late
    PROVE  PendingReports' \subseteq PendingReports
  BY DEF PendingReports

LEMMA SetupKept ==
    ASSUME MailInductive, Setup
    PROVE  MailInductive'
  <1>1. UNCHANGED <<rows, used, incident, since, clock, pc, settings, plan, batch, outcome,
                    late, proven, tests, refusals, faults>>
    BY DEF Setup, queue, process, bounds
  <1>2. version' = version + 1 /\ tested' = FALSE /\ report' = Period
        /\ version - Unconfigured < MaxSetups
    BY DEF Setup
  <1>3. CatalogueServed
    <2>1. rows' \in Seq(Row) /\ KindsKept
      BY <1>1, RowsUnchanged DEF MailInductive
    <2>2. version' \in Versions
      BY <1>2, Constants DEF MailInductive, TypeOK, Versions, Unconfigured
    <2>3. tested' \in BOOLEAN /\ incident' \in BOOLEAN /\ (tested' => version' \in proven)
      BY <1>1, <1>2, Zenon DEF MailInductive, TypeOK
    <2>4. used' \subseteq StableIds /\ since' \in 0 .. Day
      BY <1>1 DEF MailInductive, TypeOK
    <2>5. report' \in Unset .. Period /\ report' > 0 /\ report' >= Period - clock
      BY <1>2, Constants DEF MailInductive, TypeOK, Unset
    <2>. QED
      BY <2>1, <2>2, <2>3, <2>4, <2>5 DEF CatalogueServed
  <1>4. ProcessOK' /\ Confirming'
    BY <1>1, <1>3, ProcessUnchanged DEF process
  <1>5. BoundsOK' /\ proven' \subseteq Versions /\ late' \subseteq Call
    BY <1>1, ProcessTyped DEF BoundsOK
  <1>6. PendingReports' \subseteq PendingReports
    BY <1>1, PendingSame
  <1>. QED
    BY <1>1, <1>3, <1>4, <1>5, <1>6, StepKept

LEMMA QueueTestKept ==
    ASSUME MailInductive, QueueTest
    PROVE  MailInductive'
  <1>1. UNCHANGED <<version, tested, report, incident, since, clock, pc, settings, plan, batch,
                    outcome, late, proven, refusals, faults>>
    BY DEF QueueTest, state, process
  <1>2. rows' \in Seq(Row) /\ KindsKept /\ used' = used \cup {"test"}
    BY Inserted, Stables DEF QueueTest, Kinds, MailInductive
  <1>3. CatalogueServed
    <2>1. /\ version' \in Versions /\ tested' \in BOOLEAN /\ incident' \in BOOLEAN
          /\ since' \in 0 .. Day /\ (tested' => version' \in proven)
      BY <1>1, Zenon DEF MailInductive, TypeOK, TestedProven
    <2>2. used' \subseteq StableIds /\ used' \cap Reports \subseteq used
      BY <1>2, Stables DEF MailInductive, TypeOK, Reports
    <2>3. report' \in Unset .. Period
      BY <1>1 DEF MailInductive, TypeOK
    <2>. QED
      BY <1>1, <1>2, <2>1, <2>2, <2>3 DEF CatalogueServed, MailInductive, WindowTaken, Reports
  <1>4. ProcessOK' /\ Confirming'
    BY <1>1, <1>3, ProcessUnchanged DEF process
  <1>5. BoundsOK' /\ proven' \subseteq Versions /\ late' \subseteq Call
    BY <1>1, ProcessTyped, Constants DEF BoundsOK, QueueTest
  <1>6. PendingReports' \subseteq PendingReports
    BY <1>1, PendingSame
  <1>. QED
    BY <1>1, <1>3, <1>4, <1>5, <1>6, StepKept

\* Steps of a cycle that call nobody, or whose call fails outright.
LEMMA CycleKept ==
    ASSUME MailInductive, Cycle \/ Queued \/ Refresh \/ CycleFails \/ Die \/ FetchDue
    PROVE  MailInductive'
  <1>1. UNCHANGED <<queue, state, clock, late, proven, tests, refusals>>
    BY DEF Cycle, Queued, Refresh, CycleFails, Die, FetchDue, bounds
  <1>2. CatalogueServed
    BY <1>1, CatalogueUnchanged
  <1>3. BoundsOK' /\ proven' \subseteq Versions /\ late' \subseteq Call
    <2>1. UNCHANGED faults \/ (faults < MaxFaults /\ faults' = faults + 1)
      BY DEF Cycle, Queued, Refresh, CycleFails, Die, FetchDue, bounds
    <2>. QED
      BY <1>1, <2>1, ProcessTyped, Constants DEF BoundsOK
  <1>4. ProcessOK' /\ Confirming' /\ plan' \subseteq plan
    <2>1. ProcessOK /\ UNCHANGED rows
      BY <1>1, ProcessTyped DEF queue
    <2>2. CASE Idle
      BY <2>2, IdleOK
    <2>3. CASE Cycle \/ Refresh
      <3>1. /\ pc' \in {"plan", "due"} /\ settings' \in {0, version}
            /\ UNCHANGED <<plan, batch, outcome>>
        BY <2>3 DEF Cycle, Refresh
      <3>2. version \in Versions
        BY DEF MailInductive, TypeOK
      <3>3. settings' \in {0} \cup Versions /\ SettingsRead' /\ Confirming'
        BY <3>1, <3>2 DEF SettingsRead, Confirming
      <3>. QED
        BY <2>1, <3>1, <3>3, Zenon DEF ProcessOK
    <2>4. CASE /\ pc' \in {"refresh", "due"} /\ plan' = {}
               /\ UNCHANGED <<settings, batch, outcome>>
      <3>1. SettingsRead' /\ Confirming'
        BY <2>4 DEF SettingsRead, Confirming
      <3>. QED
        BY <2>1, <2>4, <3>1, Zenon DEF ProcessOK
    <2>5. CASE FetchDue /\ ~(settings = 0 \/ Due = {})
      <3>1. /\ pc' = "send" /\ UNCHANGED <<settings, plan, outcome>>
            /\ batch' = {i \in Due : Cardinality({j \in Due : j <= i}) <= Limit}
        BY <2>5 DEF FetchDue
      <3>2. batch' \subseteq 1 .. Len(rows')
        BY <2>1, <3>1 DEF Due
      <3>3. SettingsRead' /\ Confirming'
        BY <2>1, <2>5, <3>1 DEF SettingsRead, Confirming, ProcessOK
      <3>. QED
        BY <2>1, <3>1, <3>2, <3>3, Zenon DEF ProcessOK
    <2>. QED
      <3>1. CASE Queued
        BY <2>4, <3>1 DEF Queued
      <3>2. CASE CycleFails
        BY <2>2, <2>4, <3>2 DEF CycleFails
      <3>3. CASE FetchDue
        BY <2>2, <2>5, <3>3 DEF FetchDue
      <3>4. CASE Die
        BY <2>2, <3>4 DEF Die
      <3>. QED
        BY <2>3, <3>1, <3>2, <3>3, <3>4
  <1>5. PendingReports' \subseteq PendingReports
    BY <1>1, <1>4, PendingSame
  <1>. QED
    BY <1>1, <1>2, <1>3, <1>4, <1>5, StepKept

\* A report is planned when it is due, and then its id is free.
LEMMA PlanKept ==
    ASSUME MailInductive, Plan
    PROVE  MailInductive'
  <1>1. /\ UNCHANGED <<queue, state, clock, settings, batch, outcome, late, proven,
                       tests, refusals, faults>>
        /\ pc' = "queue"
        /\ plan' \subseteq {"reminder", "report"} /\ ("report" \in plan' => report <= 0)
    BY DEF Plan, bounds
  <1>2. CatalogueServed
    BY <1>1, CatalogueUnchanged
  <1>3. UNCHANGED <<rows, used, report>>
    BY <1>1 DEF queue, state
  <1>4. BoundsOK' /\ proven' \subseteq Versions /\ late' \subseteq Call
    BY <1>1, ProcessTyped DEF BoundsOK
  <1>5. ProcessOK' /\ Confirming'
    <2>1. SettingsRead' /\ Confirming' /\ plan' \subseteq Planned
      BY <1>1, Stables DEF SettingsRead, Confirming
    <2>. QED
      BY <1>1, <1>3, <2>1, ProcessTyped, Zenon DEF ProcessOK
  <1>6. "report" \in plan' => "report" \notin used'
    <2>1. "report" \in used => report > 0
      BY Constants DEF MailInductive, WindowTaken, TypeOK
    <2>. QED
      BY <1>1, <1>3, <2>1 DEF MailInductive, TypeOK, Unset
  <1>7. \A x \in PendingReports' : x \in PendingReports \/ x \notin used'
    BY <1>1, <1>6 DEF PendingReports, Reports
  <1>. QED
    BY <1>1, <1>2, <1>4, <1>5, <1>7, StepKept

-----------------------------------------------------------------------------
(* Calls of the process, served at once, late or never.                    *)

\* A call the process makes leaves a good catalogue and a genuine late call.
LEMMA CallMade ==
    ASSUME MailInductive, NEW c \in Call, Genuine(c), Served(c) \/ Lost(c),
           UNCHANGED <<proven, tests, refusals>>
    PROVE  /\ CatalogueServed /\ BoundsOK' /\ proven' \subseteq Versions
           /\ late' \subseteq late \cup {c} /\ late' \subseteq Call
           /\ \A d \in late' : d \in late \/ Genuine(d)'
  <1>1. CatalogueServed
    BY CallServed, CatalogueUnchanged DEF Served, Lost
  <1>2. BoundsOK'
    BY ProcessTyped, Constants DEF Served, Lost, BoundsOK
  <1>3. late' \subseteq late \cup {c} /\ late' \subseteq Call /\ proven' \subseteq Versions
    BY ProcessTyped DEF Served, Lost
  <1>4. Genuine(c)'
    BY <1>1, GenuineKept
  <1>. QED
    BY <1>1, <1>2, <1>3, <1>4

LEMMA PlainCall ==
    ASSUME NEW type \in CallType \ {"confirm"}
    PROVE  Plain(type) \in Call /\ Plain(type).type = type /\ Genuine(Plain(type))
  <1>1. TRUE \in BOOLEAN
    OBVIOUS
  <1>. QED
    BY <1>1 DEF Plain, Call, Genuine

LEMMA QueueOneKept ==
    ASSUME MailInductive, NEW x \in plan, QueueOne(x)
    PROVE  MailInductive'
  <1>1. x \in Planned /\ x \in CallType \ {"confirm"}
    BY Stables DEF MailInductive, TypeOK, CallType
  <1>2. PICK c \in Call : c = Plain(x) /\ c.type = x /\ Genuine(c)
    BY <1>1, PlainCall
  <1>3. /\ Served(c) \/ Lost(c)
        /\ UNCHANGED <<clock, settings, batch, outcome, proven, tests, refusals>>
        /\ plan' \subseteq plan /\ pc' \in {"queue", "due"}
    BY <1>2 DEF QueueOne
  <1>4. /\ CatalogueServed /\ BoundsOK' /\ proven' \subseteq Versions
        /\ late' \subseteq late \cup {c} /\ late' \subseteq Call
        /\ \A d \in late' : d \in late \/ Genuine(d)'
    BY <1>2, <1>3, CallMade
  <1>5. ProcessOK' /\ Confirming'
    <2>1. SettingsRead' /\ Confirming'
      BY <1>3 DEF SettingsRead, Confirming
    <2>2. Len(rows') \in Nat /\ Len(rows) \in Nat /\ Len(rows') >= Len(rows)
      BY <1>4, LenProperties, ProcessTyped DEF CatalogueServed, KindsKept
    <2>3. batch' \subseteq 1 .. Len(rows')
      BY <1>3, <2>2, ProcessTyped DEF ProcessOK
    <2>. QED
      BY <1>3, <2>1, <2>3, ProcessTyped, Zenon DEF ProcessOK
  <1>6. PendingReports' \subseteq PendingReports
    <2>1. c.type \in Reports => c.type \in PendingReports
      BY <1>2 DEF PendingReports
    <2>. QED
      BY <1>3, <1>4, <2>1, PendingFewer
  <1>. QED
    BY <1>3, <1>4, <1>5, <1>6, StepKept

\* A test mail that is accepted proves the settings it was sent with.
LEMMA AcceptedMail ==
    ASSUME MailInductive, NEW id \in batch, Accepted(id), settings \in Versions
    PROVE  /\ rows' \in Seq(Row) /\ Len(rows') = Len(rows) /\ KindsKept
           /\ proven \subseteq proven' /\ proven' \subseteq Versions
           /\ rows[id].kind = "test" => settings \in proven'
  <1>1. id \in 1 .. Len(rows) /\ rows \in Seq(Row)
    BY DEF MailInductive, TypeOK
  <1>2. rows[id] \in Row
    BY <1>1, ElementOfSeq
  <1>3. PICK r \in Row : r = [rows[id] EXCEPT !.times = @ + 1] /\ r.kind = rows[id].kind
    <2>1. rows[id].times + 1 \in Nat
      BY <1>2 DEF Row
    <2>2. ASSUME NEW row \in Row, NEW n \in Nat
          PROVE  [row EXCEPT !.times = n] \in Row /\ [row EXCEPT !.times = n].kind = row.kind
      BY DEF Row
    <2>3. [rows[id] EXCEPT !.times = @ + 1] = [rows[id] EXCEPT !.times = rows[id].times + 1]
      OBVIOUS
    <2>. QED
      BY <1>2, <2>1, <2>2, <2>3
  <1>4. rows' = [rows EXCEPT ![id] = r]
    BY <1>3 DEF Accepted
  <1>5. rows' \in Seq(Row) /\ Len(rows') = Len(rows) /\ KindsKept
    BY <1>1, <1>3, <1>4, RowReplaced DEF MailInductive
  <1>. QED
    BY <1>5 DEF Accepted, MailInductive, TypeOK

LEMMA SendKept ==
    ASSUME MailInductive, NEW id \in batch, Send(id)
    PROVE  MailInductive'
  <1>1. /\ UNCHANGED <<used, state, clock, settings, plan, batch, late, tests, faults>>
        /\ pc = "send" /\ pc' = "confirm" /\ Turn(id)
    BY DEF Send
  <1>2. settings \in Versions
    BY <1>1 DEF MailInductive, SettingsRead
  <1>3. /\ Accepted(id) \/ UNCHANGED <<rows, proven>>
        /\ outcome' => Accepted(id)
        /\ outcome' \in BOOLEAN
    BY Zenon DEF Send
  <1>4. /\ rows' \in Seq(Row) /\ Len(rows') = Len(rows) /\ KindsKept
        /\ proven \subseteq proven' /\ proven' \subseteq Versions
    <2>1. CASE Accepted(id)
      BY <1>2, <2>1, AcceptedMail
    <2>2. CASE UNCHANGED <<rows, proven>>
      BY <2>2, RowsUnchanged, ProcessTyped DEF MailInductive
    <2>. QED
      BY <1>3, <2>1, <2>2
  <1>5. outcome' => (rows[id].kind = "test" => settings \in proven')
    BY <1>2, <1>3, AcceptedMail
  <1>6. CatalogueServed
    <2>1. UNCHANGED <<used, version, tested, report, incident, since>>
      BY <1>1 DEF state
    <2>2. /\ version' \in Versions /\ tested' \in BOOLEAN /\ incident' \in BOOLEAN
          /\ used' \subseteq StableIds
          /\ since' \in 0 .. Day /\ (tested' => version' \in proven)
      BY <2>1, Zenon DEF MailInductive, TypeOK, TestedProven
    <2>3. report' \in Unset .. Period
      BY <2>1 DEF MailInductive, TypeOK
    <2>. QED
      BY <1>4, <2>1, <2>2, <2>3 DEF CatalogueServed, MailInductive, WindowTaken
  <1>7. ProcessOK'
    <2>1. SettingsRead' /\ settings' \in {0} \cup Versions
      BY <1>1, <1>2 DEF SettingsRead
    <2>2. batch' \subseteq 1 .. Len(rows')
      BY <1>1, <1>4, ProcessTyped DEF ProcessOK
    <2>3. plan' \subseteq Planned
      BY <1>1, ProcessTyped DEF ProcessOK
    <2>. QED
      BY <1>1, <1>3, <2>1, <2>2, <2>3, Zenon DEF ProcessOK
  <1>8. Confirming'
    <2>1. SUFFICES ASSUME outcome', NEW j \in batch, Turn(j)', rows'[j].kind = "test"
                   PROVE  settings \in proven'
      BY <1>1 DEF Confirming
    <2>2. j \in 1 .. Len(rows) /\ batch \subseteq 1 .. Len(rows) /\ Len(rows) \in Nat
      BY ProcessTyped DEF ProcessOK
    <2>3. j = id
      BY <1>1, <2>1, <2>2 DEF Turn
    <2>4. rows[id].kind = "test"
      BY <1>4, <2>1, <2>2, <2>3 DEF KindsKept
    <2>. QED
      BY <1>5, <2>1, <2>4
  <1>9. BoundsOK' /\ late' \subseteq Call
    <2>1. UNCHANGED refusals \/ (refusals < MaxRefusals /\ refusals' = refusals + 1)
      BY DEF Send
    <2>. QED
      BY <1>1, <2>1, ProcessTyped, Constants DEF BoundsOK
  <1>10. PendingReports' \subseteq PendingReports
    BY <1>1, PendingSame
  <1>. QED
    BY <1>1, <1>4, <1>6, <1>7, <1>8, <1>9, <1>10, StepKept

LEMMA ConfirmKept ==
    ASSUME MailInductive, NEW id \in batch, Confirm(id)
    PROVE  MailInductive'
  <1>1. id \in 1 .. Len(rows) /\ Len(rows) \in Nat /\ outcome \in BOOLEAN
        /\ settings \in {0} \cup Versions
    BY ProcessTyped, Zenon DEF ProcessOK
  <1>2. pc = "confirm" /\ Turn(id) /\ UNCHANGED <<clock, proven, tests, refusals>>
    BY DEF Confirm
  <1>3. PICK c \in Call : c = [type |-> "confirm", id |-> id, ok |-> outcome,
                               version |-> settings]
    <2>1. ASSUME NEW ok \in BOOLEAN, NEW n \in Nat, NEW v \in {0} \cup Versions
          PROVE  [type |-> "confirm", id |-> n, ok |-> ok, version |-> v] \in Call
      BY DEF Call, CallType
    <2>2. id \in Nat
      BY <1>1
    <2>. QED
      BY <1>1, <2>1, <2>2, Zenon
  <1>4. c.type = "confirm" /\ Genuine(c)
    <2>1. c.type = "confirm" /\ c.id = id /\ c.version = settings
      BY <1>3
    <2>2. c.ok = outcome
      BY <1>3, Zenon
    <2>3. outcome /\ rows[id].kind = "test" => settings \in proven
      BY <1>2 DEF MailInductive, ConfirmationsProven, Confirming
    <2>. QED
      BY <1>1, <2>1, <2>2, <2>3, Zenon DEF Genuine
  <1>5. \/ Served(c) /\ pc' = "tell" /\ UNCHANGED <<settings, plan, batch, outcome>>
        \/ Lost(c) /\ Idle
    BY <1>3 DEF Confirm
  <1>6. /\ CatalogueServed /\ BoundsOK' /\ proven' \subseteq Versions
        /\ late' \subseteq late \cup {c} /\ late' \subseteq Call
        /\ \A d \in late' : d \in late \/ Genuine(d)'
    BY <1>2, <1>4, <1>5, CallMade
  <1>7. ProcessOK' /\ Confirming' /\ plan' \subseteq plan
    <2>1. CASE Idle
      BY <2>1, IdleOK
    <2>2. CASE pc' = "tell" /\ UNCHANGED <<settings, plan, batch, outcome>>
      <3>1. SettingsRead' /\ Confirming'
        BY <1>2, <2>2 DEF MailInductive, SettingsRead, Confirming
      <3>2. Len(rows') \in Nat /\ Len(rows') >= Len(rows)
        BY <1>6, LenProperties DEF CatalogueServed, KindsKept
      <3>3. batch' \subseteq 1 .. Len(rows')
        BY <1>1, <2>2, <3>2, ProcessTyped DEF ProcessOK
      <3>. QED
        BY <2>2, <3>1, <3>3, ProcessTyped, Zenon DEF ProcessOK
    <2>. QED
      BY <1>5, <2>1, <2>2
  <1>8. PendingReports' \subseteq PendingReports
    <2>1. c.type \notin Reports
      BY <1>4 DEF Reports
    <2>. QED
      BY <1>6, <1>7, <2>1, PendingFewer
  <1>. QED
    BY <1>2, <1>6, <1>7, <1>8, StepKept

LEMMA TellKept ==
    ASSUME MailInductive, NEW id \in batch, Tell(id)
    PROVE  MailInductive'
  <1>1. pc = "tell" /\ UNCHANGED <<clock, proven, tests, refusals>>
    BY DEF Tell
  <1>2. PICK type \in {"resolve", "open"} : Served(Plain(type)) \/ Lost(Plain(type))
    BY DEF Tell
  <1>3. type \in CallType \ {"confirm"} /\ type \notin Reports
    BY DEF CallType, Reports
  <1>4. PICK c \in Call : c = Plain(type) /\ c.type = type /\ Genuine(c)
    BY <1>3, PlainCall
  <1>5. /\ CatalogueServed /\ BoundsOK' /\ proven' \subseteq Versions
        /\ late' \subseteq late \cup {c} /\ late' \subseteq Call
        /\ \A d \in late' : d \in late \/ Genuine(d)'
    BY <1>1, <1>2, <1>4, CallMade
  <1>6. ProcessOK' /\ Confirming' /\ plan' \subseteq plan
    <2>1. CASE Idle
      BY <2>1, IdleOK
    <2>2. CASE /\ pc' = "send" /\ batch' = batch \ {id} /\ outcome' = TRUE
               /\ UNCHANGED <<settings, plan>>
      <3>1. SettingsRead' /\ Confirming'
        BY <1>1, <2>2 DEF MailInductive, SettingsRead, Confirming
      <3>2. Len(rows') \in Nat /\ Len(rows) \in Nat /\ Len(rows') >= Len(rows)
        BY <1>5, LenProperties, ProcessTyped DEF CatalogueServed, KindsKept
      <3>3. batch' \subseteq 1 .. Len(rows')
        BY <2>2, <3>2, ProcessTyped DEF ProcessOK
      <3>. QED
        BY <2>2, <3>1, <3>3, ProcessTyped, Zenon DEF ProcessOK
    <2>. QED
      BY <2>1, <2>2 DEF Tell
  <1>7. PendingReports' \subseteq PendingReports
    BY <1>3, <1>4, <1>5, <1>6, PendingFewer
  <1>. QED
    BY <1>1, <1>5, <1>6, <1>7, StepKept

LEMMA LateKept ==
    ASSUME MailInductive, NEW c \in late, ServeLate(c) \/ DropLate(c)
    PROVE  MailInductive'
  <1>1. /\ late' = late \ {c} /\ UNCHANGED <<clock, process, proven, bounds>>
        /\ Effect(c) \/ UNCHANGED <<queue, state>>
    BY DEF ServeLate, DropLate
  <1>2. c \in Call /\ Genuine(c)
    BY DEF MailInductive, TypeOK, ConfirmationsProven
  <1>3. CatalogueServed
    BY <1>1, <1>2, CallServed, CatalogueUnchanged
  <1>4. ProcessOK' /\ Confirming'
    BY <1>1, <1>3, ProcessUnchanged
  <1>5. BoundsOK' /\ proven' \subseteq Versions /\ late' \subseteq Call
    BY <1>1, ProcessTyped DEF BoundsOK, bounds
  <1>6. PendingReports' \subseteq PendingReports
    BY <1>1, PendingSame DEF process
  <1>. QED
    BY <1>1, <1>3, <1>4, <1>5, <1>6, StepKept

LEMMA NewSecondKept ==
    ASSUME MailInductive, NewSecond
    PROVE  MailInductive'
  <1>1. /\ UNCHANGED <<rows, state, clock, process, late, proven, bounds>>
        /\ used' \subseteq used
    BY DEF NewSecond
  <1>2. CatalogueServed
    <2>1. UNCHANGED <<version, tested, report, incident, since>>
      BY <1>1 DEF state
    <2>2. rows' \in Seq(Row) /\ KindsKept
      BY <1>1, RowsUnchanged DEF MailInductive
    <2>3. /\ version' \in Versions /\ tested' \in BOOLEAN /\ incident' \in BOOLEAN
          /\ since' \in 0 .. Day /\ (tested' => version' \in proven)
      BY <2>1, Zenon DEF MailInductive, TypeOK, TestedProven
    <2>4. used' \subseteq StableIds /\ report' \in Unset .. Period
      BY <1>1, <2>1 DEF MailInductive, TypeOK
    <2>. QED
      BY <1>1, <2>1, <2>2, <2>3, <2>4 DEF CatalogueServed, MailInductive, WindowTaken
  <1>3. ProcessOK' /\ Confirming'
    BY <1>1, <1>2, ProcessUnchanged
  <1>4. BoundsOK' /\ proven' \subseteq Versions /\ late' \subseteq Call
    BY <1>1, ProcessTyped DEF BoundsOK, bounds
  <1>5. PendingReports' \subseteq PendingReports
    BY <1>1, PendingSame DEF process
  <1>. QED
    BY <1>1, <1>2, <1>3, <1>4, <1>5, StepKept

-----------------------------------------------------------------------------
(* Time.                                                                   *)

LEMMA NextTick ==
    ASSUME NEW c \in 0 .. Period - 1
    PROVE  (c + 1) % Period = IF c = Period - 1 THEN 0 ELSE c + 1
  BY Constants

\* Waits run down, and nothing else about a mail changes.
LEMMA TickRows ==
    ASSUME TypeOK, Tick
    PROVE  rows' \in Seq(Row) /\ Len(rows') = Len(rows) /\ KindsKept
  <1>. DEFINE Down(n) == IF n > 0 THEN n - 1 ELSE n
  <1>1. rows \in Seq(Row) /\ DOMAIN rows = 1 .. Len(rows) /\ Len(rows) \in Nat
    BY LenProperties DEF TypeOK
  <1>2. rows' = [i \in 1 .. Len(rows) |-> [rows[i] EXCEPT !.wait = Down(rows[i].wait)]]
    BY <1>1 DEF Tick
  <1>3. ASSUME NEW i \in 1 .. Len(rows)
        PROVE  rows'[i] \in Row /\ rows'[i].kind = rows[i].kind
    <2>1. rows[i] \in Row
      BY <1>1, ElementOfSeq
    <2>2. Down(rows[i].wait) \in 0 .. 2 ^ BackoffCap
      <3>1. rows[i].wait \in 0 .. 2 ^ BackoffCap
        BY <2>1 DEF Row
      <3>2. 2 ^ BackoffCap \in Int
        BY Constants, BackoffAssumption
      <3>. QED
        BY <3>1, <3>2
    <2>3. ASSUME NEW row \in Row, NEW w \in 0 .. 2 ^ BackoffCap
          PROVE  [row EXCEPT !.wait = w] \in Row /\ [row EXCEPT !.wait = w].kind = row.kind
      BY DEF Row
    <2>4. rows'[i] = [rows[i] EXCEPT !.wait = Down(rows[i].wait)]
      BY <1>2
    <2>. HIDE DEF Down
    <2>. QED
      BY <2>1, <2>2, <2>3, <2>4
  <1>4. DOMAIN rows' = 1 .. Len(rows)
    BY <1>2
  <1>5. rows' \in [1 .. Len(rows) -> Row]
    BY <1>2, <1>3
  <1>6. rows' \in Seq(Row) /\ Len(rows') = Len(rows)
    BY <1>1, <1>5
  <1>. QED
    BY <1>1, <1>3, <1>6 DEF KindsKept

\* How a tick moves the ids and the calls under way.
LEMMA TickAges ==
    ASSUME MailInductive, Tick
    PROVE  LET over == clock = Period - 1 IN
           /\ used' \subseteq StableIds /\ plan' \subseteq Planned
           /\ "report" \in used' => "report" \in used /\ ~over
           /\ "old report" \in used' =>
                \/ over /\ "report" \in used
                \/ ~over /\ "old report" \in used
           /\ PendingReports' # {} => PendingReports # {}
           /\ ~over /\ "old report" \in PendingReports' => "old report" \in PendingReports
           /\ \A c \in late' :
                /\ c \in Call
                /\ c \in late \/ c.type # "confirm"
  <1>. DEFINE now  == (clock + 1) % Period
              over == clock = Period - 1
              ends == (IF now % Day = 0 THEN {"reminder"} ELSE {})
                        \cup (IF now = 0 THEN {"report"} ELSE {})
              Aged(S) == {IF x \in ends THEN Old(x) ELSE x : x \in S}
  <1>1. now = 0 <=> over
    BY NextTick, Constants DEF MailInductive, TypeOK
  <1>2. ends \subseteq {"reminder", "report"} /\ ("report" \in ends <=> over)
    BY <1>1
  <1>3. /\ used' = Aged((used \cap Planned) \ {Old(x) : x \in ends})
        /\ plan' = Aged(plan)
        /\ late' = {[c EXCEPT !.type = IF c.type \in ends THEN Old(c.type) ELSE c.type] : c \in late}
    BY DEF Tick
  <1>. HIDE DEF now, over, ends
  <1>4. used' \subseteq StableIds /\ plan' \subseteq Planned
    BY <1>2, <1>3, Stables DEF Old, MailInductive, TypeOK
  <1>5. "report" \in used' => "report" \in used /\ ~over
    BY <1>2, <1>3 DEF Old
  <1>6. "old report" \in used' =>
          \/ over /\ "report" \in used
          \/ ~over /\ "old report" \in used
    BY <1>2, <1>3 DEF Old
  <1>7. ASSUME NEW d \in late'
        PROVE  \E c \in late :
                 /\ d \in Call
                 /\ d = c \/ d.type # "confirm"
                 /\ d.type = c.type \/ (c.type \in ends /\ d.type = Old(c.type))
    <2>1. PICK c \in late : d = [c EXCEPT !.type = IF c.type \in ends THEN Old(c.type) ELSE c.type]
      BY <1>3
    <2>2. c \in Call
      BY DEF MailInductive, TypeOK
    <2>3. CASE c.type \in ends
      <3>1. Old(c.type) \in Planned /\ Old(c.type) \in CallType /\ Old(c.type) # "confirm"
        BY <1>2, <2>3, Stables DEF Old, CallType
      <3>2. ASSUME NEW t \in CallType
            PROVE  [c EXCEPT !.type = t] \in Call /\ [c EXCEPT !.type = t].type = t
        BY <2>2 DEF Call
      <3>3. d = [c EXCEPT !.type = Old(c.type)]
        BY <2>1, <2>3
      <3>. QED
        BY <2>3, <3>1, <3>2, <3>3
    <2>4. CASE c.type \notin ends
      <3>1. d = c
        BY <2>1, <2>2, <2>4 DEF Call
      <3>. QED
        BY <2>2, <3>1
    <2>. QED
      BY <2>3, <2>4
  <1>8. PendingReports' # {} => PendingReports # {}
    <2>1. ASSUME NEW x \in Reports, x \in plan'
          PROVE  \E y \in Reports : y \in plan
      BY <1>2, <1>3, <2>1 DEF Old, Reports
    <2>2. ASSUME NEW d \in late', d.type \in Reports
          PROVE  \E c \in late : c.type \in Reports
      <3>1. PICK c \in late : d.type = c.type \/ (c.type \in ends /\ d.type = Old(c.type))
        BY <1>7, Zenon
      <3>. QED
        BY <1>2, <2>2, <3>1 DEF Old, Reports
    <2>. QED
      BY <2>1, <2>2 DEF PendingReports
  <1>9. ~over /\ "old report" \in PendingReports' => "old report" \in PendingReports
    <2>1. SUFFICES ASSUME ~over, "old report" \in PendingReports'
                   PROVE  "old report" \in PendingReports
      OBVIOUS
    <2>2. "old report" \in plan' => "old report" \in plan
      BY <1>2, <1>3, <2>1 DEF Old
    <2>3. ASSUME NEW d \in late', d.type = "old report"
          PROVE  \E c \in late : c.type = "old report"
      <3>1. PICK c \in late : d.type = c.type \/ (c.type \in ends /\ d.type = Old(c.type))
        BY <1>7, Zenon
      <3>. QED
        BY <1>2, <2>1, <2>3, <3>1 DEF Old
    <2>. QED
      BY <2>1, <2>2, <2>3 DEF PendingReports
  <1>. QED
    BY <1>4, <1>5, <1>6, <1>7, <1>8, <1>9 DEF over

LEMMA TickKept ==
    ASSUME MailInductive, Tick
    PROVE  MailInductive'
  <1>1. /\ UNCHANGED <<version, tested, incident, pc, settings, batch, outcome, proven, bounds>>
        /\ clock' = (clock + 1) % Period
        /\ report' = IF report > 0 THEN report - 1 ELSE report
        /\ since' = IF incident /\ since < Day THEN since + 1 ELSE since
        /\ PendingReports # {} => report # 1
    BY DEF Tick
  <1>2. clock' = IF clock = Period - 1 THEN 0 ELSE clock + 1
    BY <1>1, NextTick DEF MailInductive, TypeOK
  <1>3. clock' \in 0 .. Period - 1 /\ report' \in Unset .. Period
    BY <1>1, <1>2, Constants DEF MailInductive, TypeOK, Unset
  <1>4. since' \in 0 .. Day
    BY <1>1, Constants DEF MailInductive, TypeOK
  <1>5. rows' \in Seq(Row) /\ Len(rows') = Len(rows) /\ KindsKept
    BY TickRows DEF MailInductive
  <1>6. /\ used' \subseteq StableIds /\ plan' \subseteq Planned
        /\ \A c \in late' : c \in Call /\ (c \in late \/ c.type # "confirm")
    BY TickAges
  <1>7. TypeOK'
    <2>1. version' \in Versions /\ tested' \in BOOLEAN /\ incident' \in BOOLEAN
          /\ outcome' \in BOOLEAN /\ settings' \in {0} \cup Versions /\ proven' \subseteq Versions
          /\ pc' \in {"idle", "plan", "queue", "refresh", "due", "send", "confirm", "tell"}
      BY <1>1, Zenon DEF MailInductive, TypeOK
    <2>2. batch' \subseteq 1 .. Len(rows') /\ late' \subseteq Call
      BY <1>1, <1>5, <1>6 DEF MailInductive, TypeOK
    <2>3. /\ tests' \in 0 .. MaxTests /\ refusals' \in 0 .. MaxRefusals
          /\ faults' \in 0 .. MaxFaults
      BY <1>1 DEF MailInductive, TypeOK, bounds
    <2>. QED
      BY <1>3, <1>4, <1>5, <1>6, <2>1, <2>2, <2>3, Zenon DEF TypeOK
  <1>8. SettingsRead' /\ TestedProven'
    BY <1>1, Zenon DEF MailInductive, SettingsRead, TestedProven
  <1>9. ConfirmationsProven'
    <2>1. Confirming'
      <3>1. \A i \in batch : rows'[i].kind = rows[i].kind
        BY <1>5, ProcessTyped DEF KindsKept, ProcessOK
      <3>. QED
        BY <1>1, <3>1 DEF MailInductive, ConfirmationsProven, Confirming, Turn
    <2>2. ASSUME NEW c \in late'
          PROVE  Genuine(c)'
      <3>1. CASE c.type # "confirm"
        BY <3>1 DEF Genuine
      <3>2. CASE c.type = "confirm"
        <4>1. c \in late /\ Genuine(c)
          BY <1>6, <3>2 DEF MailInductive, ConfirmationsProven
        <4>2. c.id \in 1 .. Len(rows) /\ rows'[c.id].kind = rows[c.id].kind
          BY <1>5, <3>2, <4>1 DEF Genuine, KindsKept
        <4>3. UNCHANGED proven
          BY <1>1
        <4>. QED
          BY <1>5, <3>2, <4>1, <4>2, <4>3, Zenon DEF Genuine
      <3>. QED
        BY <3>1, <3>2
    <2>. QED
      BY <2>1, <2>2 DEF ConfirmationsProven
  <1>10. WindowTaken'
    <2>1. "report" \in used' => "report" \in used /\ clock # Period - 1
      BY TickAges
    <2>. QED
      BY <1>1, <1>2, <2>1, Constants DEF MailInductive, TypeOK, WindowTaken, Unset
  <1>11. "report" \in used' => report' > 0
    <2>1. report' \in Int /\ clock' \in Int /\ clock' <= Period - 1
      BY <1>3, Constants DEF Unset
    <2>2. "report" \in used' => report' >= Period - clock'
      BY <1>10 DEF WindowTaken
    <2>3. ASSUME NEW r \in Int, NEW c \in Int, c <= Period - 1, r >= Period - c
          PROVE  r > 0
      BY <2>3, Constants
    <2>. QED
      BY <2>1, <2>2, <2>3
  <1>12. "report" \in used /\ clock = Period - 1 /\ report # 1 => report' > 0
    <2>1. report \in Int
      BY DEF MailInductive, TypeOK, Unset
    <2>. QED
      BY <1>1, <2>1, Constants DEF MailInductive, WindowTaken
  <1>13. OvertakenNotDue'
    <2>1. SUFFICES ASSUME NEW x \in PendingReports', x \in used'
                   PROVE  report' > 0
      BY DEF OvertakenNotDue
    <2>2. x \in {"report", "old report"}
      BY DEF PendingReports, Reports
    <2>3. report # 1
      BY <1>1, TickAges
    <2>4. CASE x = "report"
      BY <1>11, <2>1, <2>4
    <2>5. CASE x = "old report" /\ clock = Period - 1
      <3>1. "report" \in used
        BY <2>1, <2>5, TickAges
      <3>. QED
        BY <1>12, <2>3, <2>5, <3>1
    <2>6. CASE x = "old report" /\ clock # Period - 1
      <3>1. "old report" \in used /\ "old report" \in PendingReports
        BY <2>1, <2>6, TickAges
      <3>2. report > 0
        BY <3>1 DEF MailInductive, OvertakenNotDue
      <3>. QED
        BY <1>1, <2>3, <3>2 DEF MailInductive, TypeOK, Unset
    <2>. QED
      BY <2>2, <2>4, <2>5, <2>6
  <1>. QED
    BY <1>7, <1>8, <1>9, <1>10, <1>13 DEF MailInductive

-----------------------------------------------------------------------------
(* The theorems.                                                           *)

LEMMA InitMailInductive == Init => MailInductive
  <1>. SUFFICES ASSUME Init
                PROVE  MailInductive
    OBVIOUS
  <1>1. rows \in Seq(Row) /\ Len(rows) = 0 /\ batch \subseteq 1 .. Len(rows)
    BY DEF Init
  <1>2. tested \in BOOLEAN /\ incident \in BOOLEAN /\ outcome \in BOOLEAN
    BY Zenon DEF Init
  <1>3. version \in Versions /\ report \in Unset .. Period /\ since \in 0 .. Day
        /\ clock \in 0 .. Period - 1
    BY Constants DEF Init, Versions, Unconfigured, Unset
  <1>4. /\ tests \in 0 .. MaxTests /\ refusals \in 0 .. MaxRefusals
        /\ faults \in 0 .. MaxFaults
    BY Constants DEF Init
  <1>5. TypeOK
    BY <1>1, <1>2, <1>3, <1>4 DEF Init, TypeOK
  <1>6. SettingsRead /\ TestedProven /\ ConfirmationsProven
    BY DEF Init, SettingsRead, TestedProven, ConfirmationsProven, Confirming
  <1>7. WindowTaken /\ OvertakenNotDue
    BY DEF Init, WindowTaken, OvertakenNotDue
  <1>. QED
    BY <1>5, <1>6, <1>7 DEF MailInductive

LEMMA NextMailInductive == MailInductive /\ [Next]_vars => MailInductive'
  <1>. SUFFICES ASSUME MailInductive, [Next]_vars
                PROVE  MailInductive'
    OBVIOUS
  <1>1. CASE UNCHANGED vars
    <2>1. UNCHANGED <<queue, state, clock, process, late, proven, bounds>>
      BY <1>1 DEF vars
    <2>2. CatalogueServed
      BY <2>1, CatalogueUnchanged
    <2>3. ProcessOK' /\ Confirming'
      BY <2>1, <2>2, ProcessUnchanged
    <2>4. BoundsOK' /\ proven' \subseteq Versions /\ late' \subseteq Call
      BY <2>1, ProcessTyped DEF BoundsOK, bounds
    <2>5. PendingReports' \subseteq PendingReports
      BY <2>1, PendingSame DEF process
    <2>. QED
      BY <2>1, <2>2, <2>3, <2>4, <2>5, StepKept
  <1>2. CASE Setup
    BY <1>2, SetupKept
  <1>3. CASE QueueTest
    BY <1>3, QueueTestKept
  <1>4. CASE Maintenance
    <2>1. CASE Cycle \/ Queued \/ Refresh \/ FetchDue
      BY <2>1, CycleKept
    <2>2. CASE Plan
      BY <2>2, PlanKept
    <2>3. ASSUME NEW x \in plan, QueueOne(x)
          PROVE  MailInductive'
      BY <2>3, QueueOneKept
    <2>4. ASSUME NEW id \in batch, Send(id) \/ Confirm(id) \/ Tell(id)
          PROVE  MailInductive'
      BY <2>4, SendKept, ConfirmKept, TellKept
    <2>. QED
      BY <1>4, <2>1, <2>2, <2>3, <2>4 DEF Maintenance
  <1>5. CASE CycleFails \/ Die
    BY <1>5, CycleKept
  <1>6. CASE NewSecond
    BY <1>6, NewSecondKept
  <1>7. CASE Tick
    BY <1>7, TickKept
  <1>8. CASE LateCalls
    BY <1>8, LateKept DEF LateCalls
  <1>. QED
    BY <1>1, <1>2, <1>3, <1>4, <1>5, <1>6, <1>7, <1>8 DEF Next

\* The inductive invariant holds in every reachable state of the queue, the
\* automation state and the maintenance process.
THEOREM MailInvariant == Spec => []MailInductive
  BY InitMailInductive, NextMailInductive, PTL DEF Spec

\* Store.ConfirmMail sets mail_tested only for a configuration with which SMTP
\* accepted a test mail, and every later setup clears it: whatever setups, deaths
\* and late confirmations happen in between.
THEOREM TestedIsProven == Spec => []TestedProven
  BY MailInvariant, PTL DEF MailInductive

\* When a report is due, Store.QueuePeriodicReport finds its stable id free, for
\* the window of today and for every call still under way.
THEOREM ReportsAreNotSwallowed == Spec => []ReportNotSwallowed
  <1>1. MailInductive => ReportNotSwallowed
    <2>1. SUFFICES ASSUME MailInductive, report <= 0
                   PROVE  ({"report"} \cup PendingReports) \cap used = {}
      BY DEF ReportNotSwallowed
    <2>2. "report" \notin used
      BY <2>1, Constants DEF MailInductive, WindowTaken, TypeOK, Unset
    <2>3. PendingReports \cap used = {}
      BY <2>1 DEF MailInductive, OvertakenNotDue, TypeOK, Unset
    <2>. QED
      BY <2>2, <2>3
  <1>. QED
    BY <1>1, MailInvariant, PTL
=============================================================================
