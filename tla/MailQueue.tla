------------------------------- MODULE MailQueue -------------------------------
(***************************************************************************)
(* The durable mail queue (internal/store/retention.go) and its delivery   *)
(* by the maintenance process (internal/maintenance/service.go).           *)
(*                                                                         *)
(* The writer queues test mails, periodic reports, daily reminders of open *)
(* incidents and the mails of the incident smtp:delivery.  A cycle of the  *)
(* maintenance process reads the configuration, queues what is due, sends  *)
(* the due mails and reports each result to the writer.  Calls to the      *)
(* writer may be lost or take effect later, SMTP may fail after it has     *)
(* accepted a mail, the process may die, and the administrator may change  *)
(* the configuration at any moment.                                        *)
(***************************************************************************)
EXTENDS Integers, Sequences, FiniteSets

CONSTANTS
    Limit,          \* mails fetched per cycle (20)
    BackoffCap,     \* largest exponent of the backoff (8)
    Day, Period,    \* 24 and 72 hours, in ticks of the backoff unit
    MaxTests, MaxSetups, MaxReports,    \* bounds on orders and queued reports
    MaxRefusals,    \* bound: SMTP errors
    MaxFaults       \* bound: lost calls, deaths and failed cycles

ASSUME MailAssumption ==
    /\ {Limit, Day, Period} \subseteq Nat \ {0} /\ Period % Day = 0
    /\ {BackoffCap, MaxTests, MaxSetups, MaxReports, MaxRefusals, MaxFaults}
         \subseteq Nat

\* A fact of arithmetic: the backoff grows up to its cap.
ASSUME BackoffAssumption == \A n \in 0 .. BackoffCap : 2 ^ n \in 0 .. 2 ^ BackoffCap

Unset == -1
Unconfigured == 1       \* mail_config_version before the first setup

VARIABLES
    \* mail_queue, in the order of its ids; times is history.
    rows,
    used,       \* stable ids that are taken, where it matters
    \* automation_state and the incident smtp:delivery.
    version, tested,
    report,     \* ticks until next_report_at, Unset when it is 0
    incident, since,    \* open, and for how many ticks (at most Day)
    clock,      \* ticks since the current 72-hour window began
    \* The maintenance process.
    pc, settings, plan, batch, outcome,
    late,       \* calls the process gave up on, which the writer may still serve
    \* History and bounds.
    proven,     \* versions with which SMTP accepted a test mail
    tests, refusals, faults

queue   == <<rows, used>>
state   == <<version, tested, report, incident, since>>
process == <<pc, settings, plan, batch, outcome>>
bounds  == <<tests, refusals, faults>>
vars == <<queue, state, clock, process, late, proven, bounds>>

Kinds == {"test", "report", "reminder", "anomaly", "resolution"}
Row == [kind : Kinds, attempts : 0 .. BackoffCap, wait : 0 .. 2 ^ BackoffCap,
        sent : BOOLEAN, times : Nat]

\* Ids with a second, a day or a 72-hour window in them: of the current one, or
\* of the one before.
Dated   == {"reminder", "report"}
Old(x)  == IF x = "reminder" THEN "old reminder" ELSE "old report"
StableIds == {"test", "anomaly", "resolution"} \cup Dated \cup {Old(x) : x \in Dated}
Planned == Dated \cup {Old(x) : x \in Dated}
Reports == {"report", "old report"}

Versions == Unconfigured .. (Unconfigured + MaxSetups)
CallType == {"confirm", "open", "resolve"} \cup Planned
Call == [type : CallType, id : Nat, ok : BOOLEAN, version : {0} \cup Versions]

TypeOK ==
    /\ rows \in Seq(Row)
    /\ used \subseteq StableIds
    /\ version \in Versions /\ tested \in BOOLEAN
    /\ report \in Unset .. Period
    /\ incident \in BOOLEAN /\ since \in 0 .. Day
    /\ clock \in 0 .. Period - 1
    /\ pc \in {"idle", "plan", "queue", "refresh", "due", "send", "confirm", "tell"}
    /\ settings \in {0} \cup Versions
    /\ plan \subseteq Planned /\ batch \subseteq 1 .. Len(rows)
    /\ outcome \in BOOLEAN
    /\ late \subseteq Call /\ proven \subseteq Versions
    /\ tests \in 0 .. MaxTests /\ refusals \in 0 .. MaxRefusals /\ faults \in 0 .. MaxFaults

Init ==
    /\ rows = <<>> /\ used = {}
    /\ version = Unconfigured /\ tested = FALSE /\ report = Unset
    /\ incident = FALSE /\ since = 0 /\ clock = 0
    /\ pc = "idle" /\ settings = 0 /\ plan = {} /\ batch = {} /\ outcome = TRUE
    /\ late = {} /\ proven = {}
    /\ tests = 0 /\ refusals = 0 /\ faults = 0

-----------------------------------------------------------------------------
(* The writer.                                                             *)

New(kind) == [kind |-> kind, attempts |-> 0, wait |-> 0, sent |-> FALSE, times |-> 0]
Insert(kind, stable) ==
    /\ rows' = Append(rows, New(kind)) /\ used' = used \cup {stable}

\* INSERT OR IGNORE.
InsertOrIgnore(kind, stable) ==
    IF stable \in used THEN UNCHANGED queue ELSE Insert(kind, stable)

\* Store.SetupAutomationMode, as far as mail is concerned.
SetupDueAtOnce ==
    /\ version - Unconfigured < MaxSetups
    /\ version' = version + 1 /\ tested' = FALSE /\ report' = 0
    /\ UNCHANGED <<queue, incident, since, clock, process, late, proven, bounds>>
Setup ==
    /\ version - Unconfigured < MaxSetups
    /\ version' = version + 1 /\ tested' = FALSE /\ report' = Period
    /\ UNCHANGED <<queue, incident, since, clock, process, late, proven, bounds>>

\* /v1/mail/test.
QueueTest ==
    /\ tests < MaxTests /\ tests' = tests + 1
    /\ InsertOrIgnore("test", "test")
    /\ UNCHANGED <<state, clock, process, late, proven, refusals, faults>>

\* The row with its result: sent, or due again after a backoff.
Recorded(row, ok) ==
    IF ok THEN [row EXCEPT !.sent = TRUE]
          ELSE [row EXCEPT !.attempts = IF row.attempts < BackoffCap THEN @ + 1 ELSE @,
                           !.wait = 2 ^ row.attempts]

\* Store.ConfirmMail.
ConfirmAnyVersion(id, ok, v) ==
    /\ UNCHANGED <<used, version, incident, since>>
    /\ IF rows[id].sent THEN UNCHANGED <<rows, tested, report>>
       ELSE /\ rows' = [rows EXCEPT ![id] = Recorded(rows[id], ok)]
            /\ IF ok /\ rows[id].kind = "test"
                 THEN tested' = TRUE /\ report' = IF report = Unset THEN Period ELSE report
                 ELSE UNCHANGED <<tested, report>>
ConfirmGivingUp(id, ok, v) ==
    /\ UNCHANGED <<used, version, incident, since>>
    /\ IF rows[id].sent THEN UNCHANGED <<rows, tested, report>>
       ELSE /\ rows' = [rows EXCEPT ![id] =
                 IF ok \/ @.attempts + 1 >= BackoffCap THEN [@ EXCEPT !.sent = TRUE]
                 ELSE [@ EXCEPT !.attempts = @ + 1, !.wait = 2 ^ rows[id].attempts]]
            /\ UNCHANGED <<tested, report>>
ConfirmMail(id, ok, v) ==
    /\ UNCHANGED <<used, version, incident, since>>
    /\ IF rows[id].sent THEN UNCHANGED <<rows, tested, report>>
       ELSE /\ rows' = [rows EXCEPT ![id] = Recorded(rows[id], ok)]
            /\ IF ok /\ rows[id].kind = "test" /\ v = version
                 THEN tested' = TRUE /\ report' = IF report = Unset THEN Period ELSE report
                 ELSE UNCHANGED <<tested, report>>

\* Store.OpenAnomalyAt and Store.ResolveAnomaly for smtp:delivery.  The stable id
\* of the mail holds the second: when it is taken the transaction fails.
Open ==
    /\ UNCHANGED <<version, tested, report>>
    /\ IF incident \/ "anomaly" \in used THEN UNCHANGED <<queue, incident, since>>
       ELSE incident' = TRUE /\ since' = 0 /\ Insert("anomaly", "anomaly")
Resolve ==
    /\ UNCHANGED <<version, tested, report>>
    /\ IF ~incident \/ "resolution" \in used THEN UNCHANGED <<queue, incident, since>>
       ELSE incident' = FALSE /\ since' = 0 /\ Insert("resolution", "resolution")

\* Store.QueueReport for reminders, Store.QueuePeriodicReport for reports.
QueueDated(stable) ==
    /\ UNCHANGED <<version, tested, incident, since>>
    /\ IF stable \in Reports
         THEN InsertOrIgnore("report", stable) /\ report' = Period
         ELSE InsertOrIgnore("reminder", stable) /\ UNCHANGED report

\* What a served call does to the catalogue.
Effect(c) ==
    \/ c.type = "confirm" /\ ConfirmMail(c.id, c.ok, c.version)
    \/ c.type = "open" /\ Open
    \/ c.type = "resolve" /\ Resolve
    \/ c.type \in Planned /\ QueueDated(c.type)

-----------------------------------------------------------------------------
(* The maintenance process.                                                *)

\* A call is served and answered, or given up on; then it is served later or
\* never.
Served(c) == Effect(c) /\ UNCHANGED <<late, faults>>
Lost(c)   == /\ faults < MaxFaults /\ faults' = faults + 1
             /\ late' = late \cup {c} /\ UNCHANGED <<queue, state>>
Plain(type) == [type |-> type, id |-> 0, ok |-> TRUE, version |-> 0]

\* The variables of a cycle end with it.
Idle == /\ pc' = "idle" /\ settings' = 0 /\ plan' = {} /\ batch' = {}
        /\ outcome' = TRUE

\* RunOnce reads the settings at its start ...
Cycle ==
    /\ pc = "idle" /\ pc' = "plan"
    /\ settings' = IF version = Unconfigured THEN 0 ELSE version
    /\ UNCHANGED <<queue, state, clock, plan, batch, outcome, late, proven, bounds>>

ReportsQueued == Len(SelectSeq(rows, LAMBDA r : r.kind = "report"))

\* ... and decides after the check what there is to queue.
Plan ==
    /\ pc = "plan" /\ pc' = "queue"
    /\ plan' = (IF incident /\ since = Day THEN {"reminder"} ELSE {})
                 \cup (IF report <= 0 /\ ReportsQueued < MaxReports THEN {"report"} ELSE {})
    /\ UNCHANGED <<queue, state, clock, settings, batch, outcome, late, proven,
                   bounds>>

\* Reminder first, then report; an error ends the cycle and goes to delivery.
QueueOne(x) ==
    /\ pc = "queue" /\ x \in plan
    /\ x \in Reports => plan = {x}
    /\ \/ Served(Plain(x)) /\ plan' = plan \ {x} /\ pc' = "queue"
       \/ Lost(Plain(x)) /\ plan' = {} /\ pc' = "due"
    /\ UNCHANGED <<clock, settings, batch, outcome, proven, tests, refusals>>
Queued ==
    /\ pc = "queue" /\ plan = {} /\ pc' = "refresh"
    /\ UNCHANGED <<queue, state, clock, settings, plan, batch, outcome, late,
                   proven, bounds>>
Refresh ==
    /\ pc = "refresh" /\ pc' = "due"
    /\ settings' = IF version = Unconfigured THEN 0 ELSE version
    /\ UNCHANGED <<queue, state, clock, plan, batch, outcome, late, proven, bounds>>

\* An error elsewhere in the cycle; mail is delivered all the same.  An error of
\* DueMail ends the delivery.
CycleFails ==
    /\ faults < MaxFaults /\ faults' = faults + 1
    /\ \/ /\ pc \in {"plan", "queue", "refresh"} /\ pc' = "due" /\ plan' = {}
          /\ UNCHANGED <<settings, batch, outcome>>
       \/ pc = "due" /\ Idle
    /\ UNCHANGED <<queue, state, clock, late, proven, tests, refusals>>

\* deliverMail: DueMail, oldest first.
Due == {i \in 1 .. Len(rows) : ~rows[i].sent /\ rows[i].wait = 0}
FetchDue ==
    /\ pc = "due"
    /\ IF settings = 0 \/ Due = {}
         THEN Idle
         ELSE /\ pc' = "send"
              /\ batch' = {i \in Due : Cardinality({j \in Due : j <= i}) <= Limit}
              /\ UNCHANGED <<settings, plan, outcome>>
    /\ UNCHANGED <<queue, state, clock, late, proven, bounds>>

\* The mail whose turn it is.
Turn(id) == id \in batch /\ \A j \in batch : id <= j

\* SMTP.Send.  A mail may be accepted although an error is returned.
Accepted(id) ==
    /\ rows' = [rows EXCEPT ![id].times = @ + 1]
    /\ proven' = IF rows[id].kind = "test" THEN proven \cup {settings} ELSE proven
Send(id) ==
    /\ pc = "send" /\ pc' = "confirm" /\ Turn(id)
    /\ \/ Accepted(id) /\ outcome' = TRUE /\ UNCHANGED refusals
       \/ /\ refusals < MaxRefusals /\ refusals' = refusals + 1 /\ outcome' = FALSE
          /\ Accepted(id) \/ UNCHANGED <<rows, proven>>
    /\ UNCHANGED <<used, state, clock, settings, plan, batch, late, tests, faults>>

\* The result is recorded; when that fails the delivery ends.
Confirm(id) ==
    LET c == [type |-> "confirm", id |-> id, ok |-> outcome, version |-> settings] IN
    /\ pc = "confirm" /\ Turn(id)
    /\ \/ Served(c) /\ pc' = "tell" /\ UNCHANGED <<settings, plan, batch, outcome>>
       \/ Lost(c) /\ Idle
    /\ UNCHANGED <<clock, proven, tests, refusals>>

\* The incident is opened or resolved, whether or not the call succeeds.
Tell(id) ==
    LET c == Plain(IF outcome THEN "resolve" ELSE "open") IN
    /\ pc = "tell" /\ Turn(id)
    /\ Served(c) \/ Lost(c)
    /\ IF batch = {id}
         THEN Idle
         ELSE /\ pc' = "send" /\ batch' = batch \ {id} /\ outcome' = TRUE
              /\ UNCHANGED <<settings, plan>>
    /\ UNCHANGED <<clock, proven, tests, refusals>>

Maintenance ==
    \/ Cycle \/ Plan \/ Queued \/ Refresh \/ FetchDue
    \/ \E x \in plan : QueueOne(x)
    \/ \E id \in batch : Send(id) \/ Confirm(id) \/ Tell(id)

-----------------------------------------------------------------------------
(* Late calls, deaths and time.                                            *)

ServeLate(c) ==
    /\ Effect(c) /\ late' = late \ {c}
    /\ UNCHANGED <<clock, process, proven, bounds>>
DropLate(c) ==
    /\ late' = late \ {c}
    /\ UNCHANGED <<queue, state, clock, process, proven, bounds>>

Die ==
    /\ pc # "idle" /\ faults < MaxFaults /\ faults' = faults + 1
    /\ Idle
    /\ UNCHANGED <<queue, state, clock, late, proven, tests, refusals>>

NewSecond ==
    /\ used \cap {"test", "anomaly", "resolution"} # {}
    /\ used' = used \ {"test", "anomaly", "resolution"}
    /\ UNCHANGED <<rows, state, clock, process, late, proven, bounds>>

\* The reports a call is about to queue, or may still queue late.
PendingReports == (plan \cup {c.type : c \in late}) \cap Reports

\* A tick passes.  At the end of a day or window its ids become old ones.  Calls
\* time out after two minutes: none lasts beyond the next day, nor the 72 hours
\* until a report that was queued meanwhile is due again.
Tick ==
    LET now  == (clock + 1) % Period
        ends == (IF now % Day = 0 THEN {"reminder"} ELSE {})
                  \cup (IF now = 0 THEN {"report"} ELSE {})
        Aged(S) == {IF x \in ends THEN Old(x) ELSE x : x \in S}
        Down(n) == IF n > 0 THEN n - 1 ELSE n
    IN
    /\ \A x \in ends : Old(x) \notin plan \cup {c.type : c \in late}
    /\ PendingReports # {} => report # 1
    /\ clock' = now
    /\ rows' = [i \in DOMAIN rows |-> [rows[i] EXCEPT !.wait = Down(@)]]
    /\ report' = Down(report)
    /\ since' = IF incident /\ since < Day THEN since + 1 ELSE since
    /\ used' = Aged((used \cap Planned) \ {Old(x) : x \in ends})
    /\ plan' = Aged(plan)
    /\ late' = {[c EXCEPT !.type = IF @ \in ends THEN Old(@) ELSE @] : c \in late}
    /\ UNCHANGED <<version, tested, incident, pc, settings, batch, outcome, proven,
                   bounds>>

LateCalls == \E c \in late : ServeLate(c) \/ DropLate(c)

Next ==
    \/ Setup \/ QueueTest
    \/ Maintenance
    \/ CycleFails \/ Die \/ NewSecond \/ Tick
    \/ LateCalls

\* The service runs a cycle every five minutes, time passes, and the writer serves
\* or drops a call within its timeouts.  Orders, refusals and faults are bounded
\* and never obliged to happen.
Fairness == WF_vars(Maintenance) /\ WF_vars(Tick) /\ WF_vars(LateCalls)

Spec     == Init /\ [][Next]_vars
FairSpec == Spec /\ Fairness
-----------------------------------------------------------------------------
(* Properties.                                                             *)

\* mail_tested means that a test mail was accepted with the configuration now
\* in force, whatever setups happened between fetch, send and confirmation and
\* however late or often a confirmation arrives.
TestedProven == tested => version \in proven

\* A report that is due is not swallowed by INSERT OR IGNORE while next_report_at
\* moves on: its stable id is free, also for a call that was planned or given up
\* on before the window ended.  An id is found taken only by the repetition of a
\* call whose report was queued after all.
ReportNotSwallowed == report <= 0 => ({"report"} \cup PendingReports) \cap used = {}

\* Once there is a configuration deliverMail reaches, again and again, a state
\* where the server has accepted every queued mail and the incident
\* smtp:delivery, which holds retention, is closed: whatever failed before, and
\* even when the call that should have closed the incident was lost.
MailRecovers ==
    []<>(version = Unconfigured \/ (~incident /\ \A i \in DOMAIN rows : rows[i].times > 0))
=============================================================================
