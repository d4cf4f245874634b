------------------------------ MODULE Monitoring ------------------------------
(***************************************************************************)
(* Monitoring of one active credential: which appointments are judged, by  *)
(* which learned model, against which copies, and how often.               *)
(*                                                                         *)
(* A check (internal/maintenance/service.go) is started, planned and       *)
(* completed by three calls to the writer, which keeps the rows            *)
(* (internal/store/monitoring_checks.go); between the calls time passes,   *)
(* copies arrive (evaluateCompletedInTransaction in store.go), an          *)
(* administrator relearns, sets up or excludes, and either process stops.  *)
(* The matching of copies to appointments is policy.matchAppointments.     *)
(***************************************************************************)
EXTENDS Integers, FiniteSets, FiniteSetsExt, Sequences, SequencesExt

CONSTANTS
    Schedules,      \* the sets of appointments that learning may produce
    Tolerance,      \* policy.ScheduleTolerance
    Day,            \* length of a civil day
    Retained,       \* monitoringCheckRetention
    Copies,         \* backup IDs, compared as integers
    Imported,       \* the schedule of a model that an upgrade has found
    Before,         \* sets of copies that may have been stored before the start
    NoTime,         \* the absent time, earlier than every instant
    Stride,         \* distance between revisions taken from two instants
    MaxTime,        \* bound: the clock
    MaxOrders,      \* bound: setups, relearnings and exclusions together
    MaxFaults       \* bound: failed calls, deaths and lost answers

ASSUME MonitoringAssumption ==
    /\ Tolerance \in Nat /\ Day \in Nat /\ Retained \in Nat
    /\ Day > 2 * Tolerance
    /\ Copies \subseteq Nat /\ IsFiniteSet(Copies)
    /\ MaxTime \in Nat /\ MaxFaults \in Nat
    /\ NoTime \in Int /\ NoTime < -(2 * Day + 1)
    /\ \A s \in UNION (Schedules \cup Imported) : s \in Int /\ NoTime < s
    /\ \A b \in Before : b \subseteq [id : Copies, at : Int] /\ IsFiniteSet(b)
    /\ \A o \in UNION Before : NoTime < o.at /\ o.at <= 0
    \* Fewer relearnings than nanoseconds between the starts of two checks.
    /\ Stride \in Nat /\ MaxOrders \in 0 .. Stride - 2

VARIABLES
    clock,
    copies,         \* complete copies: their ID and received_at
    models,         \* monitoring_models
    revision,       \* automation_state.model_revision
    rows,           \* monitoring_checks with their monitoring_check_models
    incidents,      \* open anomalies
    exclusions,     \* anomaly_exclusions
    pc, snap, plan, \* the worker: its step, its snapshot and its planned scopes
    late,           \* completions whose caller has stopped waiting
    orders, faults, disturbed,  \* how many so far, and when the last
    \* History.
    judged,         \* the scopes of completed checks, with the model used
    anchor,         \* where the first planned scope begins
    alerts, again,  \* incidents announced, and whether one was announced twice
    early           \* a relearning was requested at revision zero

vars == <<clock, copies, models, revision, rows, incidents, exclusions,
          pc, snap, plan, late, orders, faults, disturbed, judged, anchor, alerts, again, early>>
worker  == <<pc, snap, plan>>
history == <<judged, anchor, alerts, again, early>>

Midnight(t) == t - (t % Day)

-----------------------------------------------------------------------------
(* Matching (internal/policy/policy.go).                                   *)

Earlier(o, p) == o.at < p.at \/ (o.at = p.at /\ o.id < p.id)

\* The appointments that take part: a day before the first copy or the period,
\* whichever is earlier, to a day after the period, as far as they are due.
Expected(schedule, obs, from, to, now) ==
    LET first == Min({Midnight(from)} \cup {Midnight(o.at) : o \in obs}) - Day
    IN  {s \in schedule : first <= s /\ s < Midnight(to) + 2 * Day
                          /\ s - Tolerance <= now}

matchLatest(slots, obs) ==
    LET slot[o \in obs] ==
            LET taken == {slot[p] : p \in {q \in obs : Earlier(q, o)}}
                near  == {s \in slots : /\ s - Tolerance <= o.at
                                       /\ o.at <= s + Tolerance} \ taken
            IN  IF near # {} THEN Max(near) ELSE NoTime
    IN  slot

\* The earliest copy takes the earliest compatible appointment left.
matchAppointments(slots, obs) ==
    LET slot[o \in obs] ==
            LET last == Max({NoTime} \cup
                            {slot[p] : p \in {q \in obs : Earlier(q, o)}})
                free == {s \in slots : last < s /\ o.at <= s + Tolerance}
            IN  IF free # {} /\ o.at >= Min(free) - Tolerance
                  THEN Min(free) ELSE NoTime
    IN  slot

Incident(kind, of, at) == [kind |-> kind, of |-> of, at |-> at]

\* checkWindow: the appointments and copies of the period (from, to] that have
\* no partner.
checkWindow(schedule, all, from, to, now) ==
    LET obs   == {o \in all : o.at <= now}
        slots == Expected(schedule, obs, from, to, now)
        match == matchAppointments(slots, obs)
        Inside(t) == from < t /\ t <= to
    IN  {Incident("missing", s, s) : s \in
            {s \in slots : /\ Inside(s) /\ s + Tolerance <= now
                           /\ \A o \in obs : match[o] # s}}
        \cup
        {Incident("extra", o.id, o.at) : o \in
            {o \in obs : Inside(o.at) /\ match[o] = NoTime}}

-----------------------------------------------------------------------------
(* The catalogue.                                                          *)

Row(t) == [started |-> t, finished |-> NoTime, status |-> "running", scopes |-> {}]
Scope  == [rev : Nat, from : Int, to : Int]

Completed == {r \in DOMAIN rows : rows[r].status = "completed"}
Running   == rows # <<>> /\ Last(rows).status = "running"

\* What the worker holds between two checks.
Nothing == [copies |-> {}, rev |-> 0, known |-> {}]

Fail(t) == IF Running THEN [rows EXCEPT ![Len(rows)].status = "failed",
                                        ![Len(rows)].finished = t]
                      ELSE rows

Revision(r, t) == IF r = 0 THEN Stride * (t + 1) ELSE r     \* now.UnixNano()

ExcludedNow(i) == \E e \in exclusions : /\ i.kind \in e.kinds
                                        /\ e.from <= clock /\ clock <= e.to
Excluded(i) == \E e \in exclusions : /\ i.kind \in e.kinds
                                     /\ e.from <= i.at /\ i.at <= e.to

\* openAnomalyAtTx: an excluded event is recorded as resolved, an open one is
\* updated, a new one is announced by mail.
Open(found) ==
    LET new == {i \in found : ~Excluded(i)} \ incidents
    IN  /\ incidents' = incidents \cup new
        /\ again' = (again \/ new \cap alerts # {})
        /\ alerts' = alerts \cup new

Init ==
    /\ clock = 0
    /\ copies \in Before
    \* A new archive, or one that comes from a schema without recorded checks.
    /\ \/ revision = 0 /\ models = {}
       \/ \E s \in Imported :
            /\ revision = 1
            /\ models = {[rev |-> 1, at |-> -Day, schedule |-> s, reliable |-> TRUE]}
    /\ rows = <<>> /\ incidents = {} /\ exclusions = {}
    /\ pc = "idle" /\ snap = Nothing /\ plan = {}
    /\ late = {} /\ orders = 0 /\ faults = 0 /\ disturbed = NoTime
    /\ judged = {} /\ anchor = NoTime /\ alerts = {} /\ again = FALSE
    /\ early = FALSE

\* Time passes between two checks and while a check verifies the files; the calls
\* that follow its last snapshot take less than an instant.
Tick ==
    /\ clock < MaxTime
    /\ pc \in {"idle", "scan"}
    /\ clock' = clock + 1
    /\ UNCHANGED <<copies, models, revision, rows, incidents, exclusions, worker,
                   late, orders, faults, disturbed, history>>

\* Store.Complete.  A check is stamped with the beginning of its second, so a
\* copy that arrives after its start has a later time.
Arrive(id) ==
    /\ id \notin {o.id : o \in copies}
    /\ rows # <<>> => Last(rows).started < clock
    /\ copies' = copies \cup {[id |-> id, at |-> clock]}
    /\ LET today == Midnight(clock)
           now   == {m \in models : m.rev = revision /\ m.reliable}
           Near(m) == \E s \in m.schedule :
                         /\ today - Day <= s /\ s < today + 2 * Day
                         /\ s - Tolerance <= clock /\ clock <= s + Tolerance
       IN  Open(UNION {IF Near(m)
                         THEN {i \in checkWindow(m.schedule, copies', today - Day - 1,
                                                 today + Day - 1, clock) :
                                 i.kind = "extra"}
                         ELSE {Incident("time", id, clock)} : m \in now})
    /\ UNCHANGED <<clock, models, revision, rows, exclusions, worker, late, orders,
                   faults, disturbed, judged, anchor, early>>

-----------------------------------------------------------------------------
(* A check (RunOnce, monitor and the endpoints /v1/check).                 *)

\* Store.StartMonitoringCheck: a row left running by a dead process has failed.
Start ==
    /\ pc = "idle"
    /\ rows # <<>> => Last(rows).started < clock
    /\ rows' = Append(Fail(clock), Row(clock))
    /\ pc' = "scan"
    /\ UNCHANGED <<clock, copies, models, revision, incidents, exclusions, snap,
                   plan, late, orders, faults, disturbed, history>>

\* The last snapshot before the evaluation, after the files were verified;
\* LoadModels gives the reliable model of the current revision.  Copies later
\* than the start take no part in the evaluation.
Snapshot ==
    /\ pc = "scan"
    /\ snap' = [copies |-> {o \in copies : o.at <= Last(rows).started},
                rev |-> revision,
                known |-> {m \in models : m.rev = revision /\ m.reliable}]
    /\ pc' = IF snap'.known = {} THEN "learn" ELSE "plan"
    /\ UNCHANGED <<clock, copies, models, revision, rows, incidents, exclusions,
                   plan, late, orders, faults, disturbed, history>>

\* policy.Learn and Store.SaveModel, which replaces a model of the same revision.
\* The schedule of a model that is not reliable is never used.
SaveModel ==
    /\ pc = "learn"
    /\ \E learned \in Schedules \cup {{}} :
         LET rev == Revision(snap.rev, Last(rows).started)
         IN  models' = {m \in models : m.rev # rev} \cup
                       {[rev |-> rev, at |-> clock, schedule |-> learned,
                         reliable |-> learned # {}]}
    /\ pc' = "plan"
    /\ UNCHANGED <<clock, copies, revision, rows, incidents, exclusions, snap,
                   plan, late, orders, faults, disturbed, history>>

Younger(m, n) == m.at < n.at \/ (m.at = n.at /\ m.rev < n.rev)
Oldest(ms) == CHOOSE m \in ms : \A n \in ms \ {m} : Younger(m, n)

\* The limits that completed checks of the credential have reached.
LimitsOfAttempts == UNION {{s.to : s \in rows[r].scopes} : r \in DOMAIN rows \ {Len(rows)}}
Limits == UNION {{s.to : s \in rows[r].scopes} : r \in Completed}

\* The first scope an earlier attempt has planned.
Attempts == {r \in DOMAIN rows \ {Len(rows)} : rows[r].scopes # {}}
Initial  == LET scopes == rows[Min(Attempts)].scopes
            IN  CHOOSE s \in scopes : \A t \in scopes \ {s} :
                    s.from < t.from \/ (s.from = t.from /\ s.rev < t.rev)

\* Store.PlanMonitoringCheck: the models that may be used, the one to begin
\* with when nothing is covered yet, and the instant to begin at.
Usable ==
    LET current == IF revision = 0 THEN Max({0} \cup {m.rev : m \in models})
                                   ELSE revision
    IN  {m \in models : m.reliable /\ m.rev <= current}
LostAfterRelearn == Limits = {} /\ Attempts # {} /\ Usable # {}
                      /\ revision \notin {0, Initial.rev}
Lost == Limits = {} /\ Attempts # {} /\ Usable # {}
          /\ \A m \in Usable : m.rev # Initial.rev
FirstModel ==
    IF Attempts # {} THEN CHOOSE m \in Usable : m.rev = Initial.rev
    ELSE IF Completed # {} THEN Oldest(Usable)
    ELSE LET first == rows[1].started
             known == {m \in Usable : m.at <= first}
         IN  IF known = {} THEN Oldest(Usable)
             ELSE CHOOSE m \in known : \A n \in known \ {m} : Younger(n, m)
StartOfCoverage ==
    LET first == rows[1].started IN
    IF Limits # {} THEN Max(Limits)
    ELSE IF Attempts # {} THEN Initial.from
    ELSE IF Completed # {} \/ FirstModel.at > first THEN FirstModel.at
    ELSE Midnight(first) - Day - 1

\* Only appointments whose tolerance had elapsed at the start are covered.
CoverageEndAtPlanning == clock - Tolerance
CoverageEnd == Last(rows).started - Tolerance

\* A model is in force until the next one was learned.
SegmentUnsplit(m, ms) == CoverageEnd
SegmentEnd(m, ms) ==
    LET later == {n \in ms : Younger(m, n)}
    IN  IF later = {} THEN CoverageEnd ELSE Min({CoverageEnd, Oldest(later).at})

Segments ==
    LET ms   == IF Limits # {} THEN Usable
                ELSE {m \in Usable : m = FirstModel \/ Younger(FirstModel, m)}
        From(m) == IF Limits # {} \/ m # FirstModel
                     THEN Max({StartOfCoverage, m.at}) ELSE StartOfCoverage
    IN  IF Usable = {} \/ StartOfCoverage > CoverageEnd THEN {}
        ELSE {[model |-> m, from |-> From(m), to |-> SegmentEnd(m, ms)] :
                m \in {n \in ms : From(n) <= SegmentEnd(n, ms)}}

Plan ==
    /\ pc = "plan" /\ Running /\ ~Lost
    /\ plan' = Segments
    /\ rows' = [rows EXCEPT ![Len(rows)].scopes =
          {[rev |-> s.model.rev, from |-> s.from, to |-> s.to] : s \in plan'}]
    /\ anchor' = IF anchor = NoTime /\ plan' # {} THEN StartOfCoverage ELSE anchor
    /\ pc' = "complete"
    /\ UNCHANGED <<clock, copies, models, revision, incidents, exclusions, snap,
                   late, orders, faults, disturbed, judged, alerts, again, early>>

\* A call is refused, fails or is never made: the worker gives the check up.
GiveUp == pc' = "idle" /\ plan' = {} /\ snap' = Nothing
Refused ==
    /\ \/ pc = "plan" /\ (~Running \/ Lost)
       \/ pc = "complete" /\ ~Running
       \/ pc = "complete" /\ revision \notin {0, Revision(snap.rev, Last(rows).started)}
    /\ rows' = Fail(clock)
    /\ GiveUp
    /\ UNCHANGED <<clock, copies, models, revision, incidents, exclusions, late,
                   orders, faults, disturbed, history>>

\* What a completion carries; the appointments are judged with the snapshot,
\* at the time of the start.
Completion == [started |-> Last(rows).started,
               rev |-> Revision(snap.rev, Last(rows).started),
               plan |-> plan,
               found |-> UNION {checkWindow(s.model.schedule, snap.copies, s.from,
                                    s.to, Last(rows).started) : s \in plan}]

\* cleanupMonitoringChecksTx.
Kept(all, rev) ==
    LET done  == {r \in DOMAIN all : all[r].status = "completed"}
        own   == UNION {{[row |-> r, to |-> s.to] :
                            s \in {s \in all[r].scopes : s.rev = rev}} : r \in done}
        last  == {w.row : w \in {w \in own : \A v \in own : v.to <= w.to}}
        Old(r) == all[r].finished # NoTime /\ all[r].finished < clock - Retained
        keep  == {r \in DOMAIN all : ~Old(r) \/ r \in last}
    IN  [i \in 1 .. Cardinality(keep) |->
            all[CHOOSE r \in keep : Cardinality({q \in keep : q <= r}) = i]]

\* Store.CompleteMonitoringCheck: findings, revision, coverage and cleanup are
\* one transaction.
Commit(c) ==
    /\ Running /\ Last(rows).started = c.started
    /\ revision \in {0, c.rev}
    /\ Open(c.found)
    /\ revision' = c.rev
    /\ rows' = Kept([rows EXCEPT ![Len(rows)].status = "completed",
                                 ![Len(rows)].finished = clock], c.rev)
    /\ judged' = judged \cup {s \in c.plan : s.from < s.to}
    /\ UNCHANGED <<anchor, early>>

Complete ==
    /\ pc = "complete"
    /\ Commit(Completion)
    /\ GiveUp
    /\ UNCHANGED <<clock, copies, models, exclusions, late, orders, faults, disturbed>>

-----------------------------------------------------------------------------
(* Administration and failures.                                            *)

Order == orders < MaxOrders /\ orders' = orders + 1 /\ disturbed' = clock
Fault == faults < MaxFaults /\ faults' = faults + 1 /\ disturbed' = clock

\* Store.BeginRelearn.
BeginRelearn ==
    /\ Order
    /\ revision' = revision + 1
    /\ early' = (early \/ revision = 0)
    /\ UNCHANGED <<clock, copies, models, rows, incidents, exclusions, worker,
                   late, faults, judged, anchor, alerts, again>>

\* Store.SetupAutomationMode also fails the running check.
SetupAutomation ==
    /\ Order
    /\ revision' = 0
    /\ rows' = Fail(clock)
    /\ UNCHANGED <<clock, copies, models, incidents, exclusions, worker, late,
                   faults, history>>

\* Store.CreateAnomalyExclusion for the civil day of a recorded incident.
CreateAnomalyExclusion(i) ==
    /\ Order
    /\ \E kinds \in {{"missing"}, {"extra"}} :
         LET e == [kinds |-> kinds, from |-> Midnight(i.at),
                   to |-> Midnight(i.at) + Day - 1]
         IN  /\ exclusions' = exclusions \cup {e}
             /\ incidents' = {j \in incidents : ~(/\ j.kind \in kinds
                                                  /\ e.from <= j.at /\ j.at <= e.to)}
    /\ UNCHANGED <<clock, copies, models, revision, rows, worker, late, faults,
                   history>>

\* A call of the worker fails; the answer of a completion is lost and its
\* request may still be served; the worker dies and its row stays.
CallFails ==
    /\ Fault /\ pc # "idle"
    /\ rows' = Fail(clock) /\ GiveUp
    /\ UNCHANGED <<clock, copies, models, revision, incidents, exclusions, late,
                   orders, history>>
AnswerLost ==
    /\ Fault /\ pc = "complete" /\ Running
    /\ late' = late \cup {Completion}
    /\ rows' \in {rows, Fail(clock)} /\ GiveUp
    /\ UNCHANGED <<clock, copies, models, revision, incidents, exclusions, orders,
                   history>>
LateCompletion(c) ==
    /\ Commit(c)
    /\ late' = late \ {c}
    /\ UNCHANGED <<clock, copies, models, exclusions, worker, orders, faults, disturbed>>
LateRefused(c) ==
    /\ ~(Running /\ Last(rows).started = c.started /\ revision \in {0, c.rev})
    /\ late' = late \ {c}
    /\ UNCHANGED <<clock, copies, models, revision, rows, incidents, exclusions,
                   worker, orders, faults, disturbed, history>>
Die ==
    /\ Fault /\ pc # "idle"
    /\ GiveUp
    /\ UNCHANGED <<clock, copies, models, revision, rows, incidents, exclusions,
                   late, orders, history>>

Check == Start \/ Snapshot \/ SaveModel \/ Plan \/ Refused \/ Complete

Next ==
    \/ Tick
    \/ \E id \in Copies : Arrive(id)
    \/ Check
    \/ BeginRelearn \/ SetupAutomation
    \/ \E i \in alerts : CreateAnomalyExclusion(i)
    \/ CallFails \/ AnswerLost \/ Die
    \/ \E c \in late : LateCompletion(c) \/ LateRefused(c)

Spec == Init /\ [][Next]_vars
\* Maintenance runs a check at its start and every five minutes, and time passes.
FairSpec == Spec /\ WF_vars(Check) /\ WF_vars(Tick)

-----------------------------------------------------------------------------
(* Properties.                                                             *)

Judge(c, x) == c.from < x /\ x <= c.to

\* Type correctness.
TypeOK ==
    /\ clock \in 0 .. MaxTime
    /\ \A o \in copies : o.id \in Copies /\ o.at \in Int /\ o.at <= clock
    /\ revision \in Nat
    /\ \A r \in DOMAIN rows : /\ rows[r].scopes \subseteq Scope
                             /\ rows[r].status \in {"running", "completed", "failed"}
    /\ pc \in {"idle", "scan", "learn", "plan", "complete"}
    /\ orders \in 0 .. MaxOrders /\ faults \in 0 .. MaxFaults

\* The exception that the next properties name: an administrator asks for a
\* relearning while the revision is zero, which makes it one, less than the
\* revisions that checks draw from the clock.  If the first check was planned and
\* interrupted before, PlanMonitoringCheck does not find its model any more and
\* refuses every later plan (monitoring_checks.go:144), although
\* docs/RETENTION.md:200-205 has the retry reuse the boundary of that attempt and
\* the next cycle go on with the new revision.
RelearnedAtRevisionZero == early

\* PlanMonitoringCheck and CompleteMonitoringCheck lose no instant at which a
\* model was in force and judge none twice, and no retry, crash, late completion
\* or cleanup moves the boundary of the first attempt.  Nothing is claimed after
\* a relearning at revision zero.
CoverageTiles ==
    RelearnedAtRevisionZero \/ judged = {} \/
        LET end == Max({c.to : c \in judged})
            Judges(x) == Cardinality({c \in judged : Judge(c, x)})
        IN  /\ \A x \in anchor + 1 .. end :
                  \/ Judges(x) = 1
                  \/ Judges(x) = 0 /\ \A m \in models : m.reliable => x <= m.at
            /\ \A c \in judged : c.from >= anchor

\* PlanMonitoringCheck judges an instant by the model that was in force: no other
\* reliable model was learned between this one and the instant, and only the
\* initial window is judged by a model learned later.  Nothing is claimed after a
\* relearning at revision zero.
ModelInForce ==
    RelearnedAtRevisionZero \/ \A c \in judged :
        /\ c.from < c.model.at => c.from = anchor
        /\ \A n \in models : n.reliable => ~(c.model.at < n.at /\ n.at < c.to)

Partner(schedule) ==
    matchAppointments({s \in schedule : s - Tolerance <= clock}, copies)

\* The incidents that CompleteMonitoringCheck and evaluateCompletedInTransaction
\* announce are the ones that all the copies known today confirm: a judged
\* appointment or copy without a partner was announced or excluded, and nothing
\* was announced of which a later copy, check or model shows the contrary.
FindingsExact ==
    /\ \A c \in judged :
         LET match == Partner(c.model.schedule)
             lost  == {Incident("missing", s, s) : s \in {s \in c.model.schedule :
                          Judge(c, s) /\ \A o \in copies : match[o] # s}}
             extra == {Incident("extra", o.id, o.at) : o \in {o \in copies :
                          Judge(c, o.at) /\ match[o] = NoTime}}
         IN  \A i \in (lost \cup extra) \ alerts : Excluded(i)
    /\ \A i \in alerts :
         \/ /\ i.kind = "missing"
            /\ \E c \in judged : /\ i.of \in c.model.schedule /\ Judge(c, i.of)
                                 /\ \A o \in copies : Partner(c.model.schedule)[o] # i.of
         \/ /\ i.kind = "extra"
            /\ \E m \in models, o \in copies : /\ m.reliable /\ o.id = i.of
                                               /\ Partner(m.schedule)[o] = NoTime
         \/ i.kind = "time"

\* openAnomalyAtTx announces no incident twice, although an arrival and a check
\* both find an excess copy, a check is repeated and an exclusion closes it.
AnnouncedOnce == ~again

\* The chronological pairing of matchAppointments satisfies as many appointments
\* as any pairing.  It depends on copies and schedule only, and every set of
\* copies is reached before the first check.
MatchingMaximum ==
    rows = <<>> => \A schedule \in Schedules :
        LET match == Partner(schedule)
            Matching(f) == \A o \in copies : f[o] # NoTime =>
                               /\ f[o] - Tolerance <= o.at /\ o.at <= f[o] + Tolerance
                               /\ \A p \in copies \ {o} : f[p] # f[o]
            Size(f) == Cardinality({o \in copies : f[o] # NoTime})
        IN  /\ Matching(match)
            /\ \A f \in [copies -> schedule \cup {NoTime}] :
                  Matching(f) => Size(f) <= Size(match)

\* The last check that the bound on time leaves room for was disturbed.
Horizon == /\ rows # <<>> /\ Last(rows).started = MaxTime
           /\ Last(rows).status # "completed" /\ disturbed = MaxTime

\* Once a period was planned, RunOnce catches up again and again: after any
\* failure or setup, and after any relearning that replaces a learned model, a
\* completed check reaches the present.  After a relearning at revision zero it
\* need not: the code may refuse every later plan.
CatchesUp ==
    []<>(\/ RelearnedAtRevisionZero \/ Horizon \/ anchor = NoTime
         \/ Limits # {} /\ Max(Limits) >= clock - Tolerance)
=============================================================================
