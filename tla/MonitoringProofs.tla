--------------------------- MODULE MonitoringProofs ---------------------------
(***************************************************************************)
(* What monitoring promises, for every tolerance, length of a day,         *)
(* retention of check rows, set of schedules and copies, and any number of *)
(* checks, relearnings, setups, faults and late completions:               *)
(*   - the completed checks judge every instant from the beginning of the  *)
(*     first plan to the present once, as far as a model was in force;     *)
(*   - every period was judged by the model in force;                      *)
(*   - no incident is announced twice;                                     *)
(*   - the pairing of copies with appointments is one, and no pairing      *)
(*     satisfies more appointments;                                        *)
(*   - the incidents announced are those that the copies of today confirm. *)
(*                                                                         *)
(* The first two are not inductive.  A plan continues at the greatest      *)
(* limit that the completed rows in the catalogue still record, or, while  *)
(* there is none, at the first scope of the first attempt; what was judged *)
(* is a matter of the past, of which cleanupMonitoringChecksTx deletes the *)
(* rows.  The invariant therefore says where the next plan begins          *)
(* (Frontier), that a plan under way fits what was judged when it was made *)
(* and will still fit when its completion is served, in time or late       *)
(* (PlanFits), and that the revisions the models are saved for, which      *)
(* decide which of them is used, grow with the time they were learned at   *)
(* (ModelsInOrder, RevisionsBounded, SnapshotKept).                        *)
(*                                                                         *)
(* A relearning that is requested at revision zero takes revision one,     *)
(* which is less than every revision taken from a clock: from then on      *)
(* nothing is claimed of coverage (RelearnedAtRevisionZero).               *)
(*                                                                         *)
(* The pairing is greedy and looks at copies in the order of their times.  *)
(* What it decides about a copy depends only on the copies before it and   *)
(* on the appointments within the tolerance of those (MatchStable), so a   *)
(* period that ended a tolerance before the start of its check is judged   *)
(* by that check's copies as it is by all later ones (WindowExact), and a  *)
(* copy without a partner never finds one (StaysUnpaired).  The invariant  *)
(* that keeps the findings exact (Ground, Findings) therefore says that    *)
(* only such periods are planned, and that no copy is stored before the    *)
(* start of a check under way; it does not need the order of the models,   *)
(* and holds after an early relearning too.                                *)
(***************************************************************************)
EXTENDS Monitoring, SetFacts, SequenceTheorems

\* The models that a plan may use.
Reliable == {m \in models : m.reliable}

\* The instant up to which the judged periods reach.
End == Max({anchor} \cup {c.to : c \in judged})

\* Records: a learned model, a row of monitoring_checks and a judged period.
Model == [rev : Nat \ {0}, at : Int,
          schedule : Schedules \cup Imported \cup {{}}, reliable : BOOLEAN]
CheckRow == [started : Nat, finished : Nat \cup {NoTime},
             status : {"running", "completed", "failed"}, scopes : SUBSET Scope]
Segment == [model : Model, from : Int, to : Int]

\* No model was learned in the future.
ModelsTyped ==
    /\ clock \in Nat /\ revision \in Nat /\ orders \in 0 .. MaxOrders
    /\ models \subseteq Model
    /\ \A m \in models : -Day <= m.at /\ m.at <= clock
\* A row is finished when it is no longer running, and not before its start.
RowsTyped ==
    /\ rows \in Seq(CheckRow)
    /\ \A i \in DOMAIN rows :
          /\ rows[i].started <= clock /\ rows[i].finished <= clock
          /\ rows[i].finished = NoTime <=> rows[i].status = "running"
          /\ rows[i].finished # NoTime => rows[i].started <= rows[i].finished
\* Checks are stamped with different seconds, and one ends before the next begins.
RowsInOrder ==
    \A i, j \in DOMAIN rows : i < j =>
        /\ rows[i].started < rows[j].started
        /\ rows[i].finished # NoTime /\ rows[i].finished <= rows[j].started

\* The start of the latest check, and a revision before those it may take: a
\* check that began at t takes Stride * (t + 1) when there is none.
Latest == Last(rows).started
Base == Stride * (IF rows = <<>> THEN 0
                  ELSE IF pc \in {"scan", "learn"} THEN Latest ELSE Latest + 1)
\* SaveModel replaces the model of a revision, and a greater revision was learned
\* later.
ModelsInOrder ==
    \A m, n \in models : /\ m.rev = n.rev => m = n
                         /\ m.rev < n.rev => m.at <= n.at
\* No revision in use is greater than the one the latest check may have taken
\* and the relearnings since; at revision zero every model is one of the past.
RevisionsBounded ==
    /\ revision <= Base + orders + 1
    /\ \A m \in models : m.rev <= Base + orders + 1
    /\ revision # 0 => \A m \in models : m.rev <= revision
    /\ Running /\ revision = 0 => \A m \in models : m.rev <= Stride * (Latest + 1)
\* What the worker has read stays good enough for what it does next: a model is
\* saved for a revision greater than that of every reliable one.
SnapshotKept ==
    /\ pc # "idle" => rows # <<>>
    /\ pc \in {"scan", "learn", "plan"} => Last(rows).scopes = {}
    /\ pc \in {"learn", "plan", "complete"} =>
          /\ snap.rev \in Nat /\ snap.rev <= Base + orders + 1
          /\ Running /\ revision = 0 => snap.rev = 0
    /\ pc = "learn" =>
          /\ snap.rev = 0 => revision = 0
          /\ snap.rev # 0 => revision = 0 \/ snap.rev <= revision
          /\ \A m \in models : LET r == Revision(snap.rev, Latest) IN
                m.rev <= r /\ (m.reliable => m.rev < r)

\* A planned scope is a period before the start of its check and names a reliable
\* model.
ScopesOK ==
    \A r \in DOMAIN rows : \A s \in rows[r].scopes :
        /\ s.from <= s.to /\ s.to <= rows[r].started - Tolerance
        /\ anchor # NoTime
        /\ \E m \in Reliable : m.rev = s.rev
\* Once a completed check has a scope, later plans begin no model before it was
\* learned.
ScopesLater ==
    \A p, q \in DOMAIN rows :
        p < q /\ p \in Completed /\ rows[p].scopes # {} =>
            \A s \in rows[q].scopes, m \in Reliable : m.rev = s.rev => m.at <= s.from

\* Judged periods are not empty, do not begin before the anchor and end in the
\* past.
JudgedTyped ==
    /\ judged \subseteq Segment /\ anchor \in Int /\ anchor <= clock
    /\ \A c \in judged : c.from < c.to /\ c.to <= clock /\ anchor <= c.from
    /\ anchor = NoTime => judged = {}
    /\ rows = <<>> => anchor = NoTime
\* CoverageTiles, up to End.
Tiles ==
    \A x \in anchor + 1 .. End :
        \/ \E c \in judged : Judge(c, x) /\ \A d \in judged : Judge(d, x) => d = c
        \/ (\A c \in judged : ~Judge(c, x)) /\ \A m \in Reliable : x <= m.at
\* ModelInForce of one period.
InForce(c) ==
    /\ c.from < c.model.at => c.from = anchor
    /\ \A n \in Reliable : ~(c.model.at < n.at /\ n.at < c.to)

\* The rows with a plan, and the first scope of one.
Planned == {r \in DOMAIN rows : rows[r].scopes # {}}
FirstScope(s, scopes) ==
    \A t \in scopes \ {s} : s.from < t.from \/ (s.from = t.from /\ s.rev < t.rev)
\* A plan that begins where the scope s does leaves out no instant at which a
\* model was in force and repeats none.
Resumes(s) ==
    \E m \in Reliable :
        /\ m.rev = s.rev
        /\ End <= s.from
        /\ End = s.from \/ \A n \in Reliable : s.from <= n.at
        /\ s.from < m.at => s.from = anchor
        /\ \A n \in Reliable : m.rev < n.rev => s.from <= n.at
\* Where the next plan begins.  It continues where the judged periods end, also
\* when the row that has reached the greatest limit was dropped: a gap is one in
\* which no model was in force.
Frontier ==
    anchor # NoTime =>
        /\ Limits # {} =>
             \/ Max(Limits) = End
             \/ \A m \in Reliable : Max(Limits) <= m.at /\ End <= m.at
        /\ Limits = {} /\ Planned # {} =>
             \E s \in rows[Min(Planned)].scopes :
                FirstScope(s, rows[Min(Planned)].scopes) /\ Resumes(s)
        /\ Limits = {} /\ Planned = {} =>
             /\ Completed # {} /\ Reliable # {}
             /\ \A m \in Reliable : End <= m.at

\* A plan is the one recorded in the running row; it begins at or after End,
\* leaves no gap in which a model was in force, overlaps nothing, and uses every
\* model only while it was in force.
ScopeOf(s) == [rev |-> s.model.rev, from |-> s.from, to |-> s.to]
PlanFits(p) ==
    /\ p \subseteq Segment
    /\ Last(rows).scopes = {ScopeOf(s) : s \in p}
    /\ \A s \in p : /\ s.model \in Reliable
                    /\ End <= s.from /\ s.from <= s.to /\ s.to <= CoverageEnd
                    /\ \A l \in Limits : l <= s.from
                    /\ InForce(s)
    /\ \A s, t \in p : s = t \/ s.to <= t.from \/ t.to <= s.from
    /\ \A s \in p : \A x \in End + 1 .. s.to :
          (\E t \in p : Judge(t, x)) \/ \A n \in Reliable : x <= n.at
    /\ p = {} => /\ Limits = {} => Planned = {}
                 /\ Limits # {} => \A n \in Reliable : CoverageEnd < n.at
\* The plan the worker is about to complete, and those of completions that may
\* still be served, fit while their row is running.
CallsOK ==
    /\ pc = "complete" /\ Running => PlanFits(plan)
    /\ \A c \in late :
          /\ c.started \in Nat /\ c.rev \in Nat \ {0} /\ rows # <<>> /\ c.started <= Latest
          /\ pc # "idle" => c.started < Latest
          /\ Running /\ c.started = Latest =>
                PlanFits(c.plan) /\ (revision = 0 => c.rev = Stride * (Latest + 1))

\* The invariant.
CatalogueOK ==
    /\ ModelsTyped /\ RowsTyped /\ RowsInOrder
    /\ ModelsInOrder /\ RevisionsBounded /\ SnapshotKept
HistoryOK ==
    /\ ScopesOK /\ ScopesLater
    /\ JudgedTyped /\ Tiles /\ (\A c \in judged : InForce(c))
    /\ Frontier

Inv == early \/ (CatalogueOK /\ HistoryOK /\ CallsOK)

-----------------------------------------------------------------------------
(* The rows that a cleanup keeps.                                          *)

\* The members of a set of indices in ascending order (cleanup of rows).
Rank(keep, r) == Cardinality({q \in keep : q <= r})
\* Ranks number the members of a set of indices without gaps.
LEMMA Ranks ==
    ASSUME NEW n \in Nat, NEW keep \in SUBSET (1 .. n)
    PROVE  /\ IsFiniteSet(keep) /\ Cardinality(keep) \in Nat
           /\ \A r \in keep : Rank(keep, r) \in 1 .. Cardinality(keep) /\ Rank(keep, r) \in Int
           /\ \A q, r \in keep : q < r => Rank(keep, q) < Rank(keep, r)
           /\ \A i \in 1 .. Cardinality(keep) : \E r \in keep : Rank(keep, r) = i
  <1>0. \A x \in keep : x \in Int /\ 1 <= x /\ x <= n
    OBVIOUS
  <1>1. IsFiniteSet(keep) /\ Cardinality(keep) \in Nat
    <2>1. IsFiniteSet(1 .. n)
      BY FS_Interval
    <2>. QED
      BY <2>1, FS_Subset, FS_CardinalityType
  <1>2. \A r \in keep : /\ IsFiniteSet({q \in keep : q <= r})
                        /\ Rank(keep, r) \in 1 .. Cardinality(keep) /\ Rank(keep, r) \in Int
    <2>. TAKE r \in keep
    <2>1. {q \in keep : q <= r} \in SUBSET keep
      OBVIOUS
    <2>2. IsFiniteSet({q \in keep : q <= r}) /\ Rank(keep, r) <= Cardinality(keep)
      BY <2>1, <1>1, FS_Subset DEF Rank
    <2>3. r \in {q \in keep : q <= r}
      OBVIOUS
    <2>4. Rank(keep, r) \in Nat /\ Rank(keep, r) # 0
      BY <2>2, <2>3, FS_CardinalityType, FS_EmptySet DEF Rank
    <2>. QED
      BY <2>2, <2>4, <1>1
  <1>3. \A q, r \in keep : q < r => Rank(keep, q) < Rank(keep, r)
    <2>. TAKE q, r \in keep
    <2>. HAVE q < r
    <2>. DEFINE Q == {x \in keep : x <= q}
                W == {x \in keep : x <= r}
    <2>0. (\A x \in keep : x <= q => x <= r) /\ ~(r <= q) /\ r <= r
      BY <1>0
    <2>1. Q \in SUBSET W /\ r \in W /\ r \notin Q
      BY <2>0
    <2>2. IsFiniteSet(W) /\ Cardinality(Q) = Rank(keep, q) /\ Cardinality(W) = Rank(keep, r)
      BY <1>2 DEF Rank
    <2>. HIDE DEF Q, W
    <2>3. Cardinality(Q) <= Cardinality(W) /\ (Cardinality(W) = Cardinality(Q) => W = Q)
      BY <2>1, <2>2, FS_Subset
    <2>4. Cardinality(Q) # Cardinality(W)
      BY <2>1, <2>3
    <2>5. Rank(keep, q) \in Int /\ Rank(keep, r) \in Int
      BY <1>2
    <2>. QED
      BY <2>2, <2>3, <2>4, <2>5
  <1>4. \A i \in 1 .. Cardinality(keep) : \E r \in keep : Rank(keep, r) = i
    <2>. DEFINE k == Cardinality(keep)
                f == [r \in keep |-> Rank(keep, r)]
    <2>1. f \in [keep -> 1 .. k]
      BY <1>2
    <2>2. \A q, r \in keep : f[q] = f[r] => q = r
      <3>. SUFFICES ASSUME NEW q \in keep, NEW r \in keep, f[q] = f[r] PROVE q = r
        OBVIOUS
      <3>1. Rank(keep, q) = Rank(keep, r)
        OBVIOUS
      <3>2. Rank(keep, q) \in Int /\ q \in Int /\ r \in Int
        BY <1>0, <1>2
      <3>3. (q < r => Rank(keep, q) < Rank(keep, r)) /\ (r < q => Rank(keep, r) < Rank(keep, q))
        BY <1>3
      <3>. HIDE DEF f
      <3>. QED
        BY <3>1, <3>2, <3>3
    <2>3. f \in Injection(keep, 1 .. k)
      BY <2>1, <2>2 DEF Injection, IsInjective
    <2>4. IsFiniteSet(1 .. k) /\ Cardinality(1 .. k) = k
      BY <1>1, FS_Interval
    <2>5. f \in Surjection(keep, 1 .. k)
      BY <2>3, <2>4, FS_Injection
    <2>6. \A i \in 1 .. k : \E r \in keep : f[r] = i
      BY <2>5 DEF Surjection
    <2>. QED
      BY <2>6
  <1>. QED
    BY <1>1, <1>2, <1>3, <1>4

\* cleanupMonitoringChecksTx keeps the remaining rows in their order.
LEMMA Picks ==
    ASSUME NEW n \in Nat, NEW keep \in SUBSET (1 .. n), n \in keep
    PROVE  LET k == Cardinality(keep)
               pick == [i \in 1 .. k |-> CHOOSE r \in keep : Cardinality({q \in keep : q <= r}) = i]
           IN  /\ k \in Nat /\ k > 0
               /\ pick \in [1 .. k -> keep] /\ pick[k] = n
               /\ \A i, j \in 1 .. k : i < j => pick[i] < pick[j]
               /\ \A r \in keep : \E i \in 1 .. k : pick[i] = r
  <1>. DEFINE k == Cardinality(keep)
              pick == [i \in 1 .. k |-> CHOOSE r \in keep : Rank(keep, r) = i]
  <1>0. \A x \in keep : x \in Int /\ 1 <= x /\ x <= n
    OBVIOUS
  <1>1. k \in Nat /\ k > 0
    BY Ranks
  <1>2. \A i \in 1 .. k : pick[i] \in keep /\ Rank(keep, pick[i]) = i
    BY Ranks
  <1>3. \A i, j \in 1 .. k : i < j => pick[i] < pick[j]
    <2>. SUFFICES ASSUME NEW i \in 1 .. k, NEW j \in 1 .. k, i < j
                  PROVE  pick[i] < pick[j]
      OBVIOUS
    <2>1. pick[i] \in keep /\ pick[j] \in keep /\ Rank(keep, pick[i]) = i /\ Rank(keep, pick[j]) = j
      BY <1>2
    <2>. HIDE DEF pick
    <2>2. pick[j] < pick[i] => Rank(keep, pick[j]) < Rank(keep, pick[i])
      BY <2>1, Ranks
    <2>3. i \in Int /\ j \in Int
      BY <1>1
    <2>4. pick[i] \in Int /\ pick[j] \in Int
      BY <1>0, <2>1
    <2>5. pick[i] # pick[j]
      BY <2>1, <2>3
    <2>. HIDE DEF k
    <2>. QED
      BY <2>1, <2>2, <2>3, <2>4, <2>5
  <1>4. \A r \in keep : \E i \in 1 .. k : pick[i] = r
    <2>. SUFFICES ASSUME NEW r \in keep PROVE pick[Rank(keep, r)] = r /\ Rank(keep, r) \in 1 .. k
      OBVIOUS
    <2>1. Rank(keep, r) \in 1 .. k
      BY Ranks
    <2>2. pick[Rank(keep, r)] \in keep /\ Rank(keep, pick[Rank(keep, r)]) = Rank(keep, r)
      BY <2>1, <1>2
    <2>. HIDE DEF pick
    <2>. DEFINE s == pick[Rank(keep, r)]
    <2>3. (s < r => Rank(keep, s) < Rank(keep, r)) /\ (r < s => Rank(keep, r) < Rank(keep, s))
      BY <2>2, Ranks
    <2>4. s \in Int /\ r \in Int /\ Rank(keep, r) \in Int /\ Rank(keep, s) = Rank(keep, r)
      BY <1>0, <2>2, Ranks
    <2>5. s = r
      <3>. HIDE DEF s
      <3>. QED
        BY <2>3, <2>4
    <2>. QED
      BY <2>1, <2>5
  <1>5. pick[k] = n
    <2>1. PICK i \in 1 .. k : pick[i] = n
      BY <1>4
    <2>2. k \in 1 .. k
      BY <1>1
    <2>5. pick[k] \in keep
      BY <2>2, <1>2
    <2>. HIDE DEF pick
    <2>3. i < k => pick[i] < pick[k]
      BY <2>2, <1>3
    <2>4. pick[k] \in Int /\ pick[k] <= n
      BY <2>5, <1>0
    <2>. QED
      BY <2>1, <2>3, <2>4, <1>1
  <1>6. pick = [i \in 1 .. k |-> CHOOSE r \in keep : Cardinality({q \in keep : q <= r}) = i]
    BY DEF Rank
  <1>7. pick \in [1 .. k -> keep]
    BY <1>2
  <1>. QED
    BY <1>1, <1>3, <1>4, <1>5, <1>6, <1>7

-----------------------------------------------------------------------------
(* Models and rows.                                                        *)

\* What the proofs use of the constants.
LEMMA Constants ==
    /\ Tolerance \in Nat /\ Day \in Nat /\ Day > 0 /\ Retained \in Nat
    /\ NoTime \in Int /\ NoTime < -(Day + 1) /\ NoTime < 0
    /\ Stride \in Nat /\ MaxOrders \in Nat /\ MaxOrders + 1 < Stride
  BY MonitoringAssumption

\* Fields of models.
LEMMA ModelFields ==
    ASSUME ModelsTyped
    PROVE  /\ \A m \in models : /\ m \in Model /\ m.rev \in Nat /\ m.rev > 0 /\ m.at \in Int
                                /\ m.at <= clock /\ m.reliable \in BOOLEAN
           /\ Reliable \subseteq models
  BY DEF ModelsTyped, Model, Reliable

\* Fields of rows.
LEMMA RowFields ==
    ASSUME RowsTyped, NEW i \in DOMAIN rows
    PROVE  /\ i \in Nat /\ i >= 1 /\ i <= Len(rows)
           /\ rows[i].started \in Nat /\ rows[i].started <= clock
           /\ rows[i].finished \in Int /\ rows[i].finished \in Nat \cup {NoTime}
           /\ rows[i].scopes \subseteq Scope
           /\ \A s \in rows[i].scopes : s.rev \in Nat /\ s.from \in Int /\ s.to \in Int
  <1>1. rows \in Seq(CheckRow) /\ rows[i] \in CheckRow
    BY DEF RowsTyped
  <1>. QED
    BY <1>1, Constants DEF RowsTyped, CheckRow, Scope

\* The latest row.
LEMMA LastRow ==
    ASSUME RowsTyped, rows # <<>>
    PROVE  /\ Len(rows) \in DOMAIN rows /\ Len(rows) \in Nat /\ Len(rows) >= 1
           /\ Latest \in Nat /\ Latest <= clock
           /\ Latest = rows[Len(rows)].started
           /\ CoverageEnd \in Int /\ CoverageEnd = Latest - Tolerance
           /\ \A s \in Last(rows).scopes : s.rev \in Nat /\ s.from \in Int /\ s.to \in Int
  <1>1. Len(rows) \in DOMAIN rows /\ Len(rows) \in Nat /\ Len(rows) >= 1
    BY DEF RowsTyped
  <1>2. Latest = rows[Len(rows)].started /\ CoverageEnd = Latest - Tolerance
    BY DEF Latest, Last, CoverageEnd
  <1>. QED
    BY <1>1, <1>2, RowFields, Constants DEF Last

\* By the order of revisions a model is younger when its revision is greater.
LEMMA YoungerIsGreater ==
    ASSUME ModelsTyped, ModelsInOrder, NEW m \in models, NEW n \in models
    PROVE  /\ Younger(m, n) <=> m.rev < n.rev
           /\ m.rev < n.rev => m.at <= n.at
           /\ m.rev = n.rev => m = n
  BY ModelFields DEF ModelsInOrder, Younger

\* Oldest is the model of the least revision.
LEMMA OldestOf ==
    ASSUME ModelsTyped, ModelsInOrder, NEW ms \in SUBSET models, ms # {}
    PROVE  /\ Oldest(ms) \in ms
           /\ \A n \in ms : Oldest(ms).rev <= n.rev /\ Oldest(ms).at <= n.at
  <1>1. {m.rev : m \in ms} \in SUBSET Nat /\ {m.rev : m \in ms} # {}
    BY ModelFields
  <1>2. PICK m \in ms : \A n \in ms : m.rev <= n.rev
    <2>1. PICK r \in {m.rev : m \in ms} : \A x \in {m.rev : m \in ms} : r <= x
      BY <1>1, LeastOf
    <2>. QED
      BY <2>1
  <1>3. \A n \in ms \ {m} : Younger(m, n)
    <2>. TAKE n \in ms \ {m}
    <2>1. m \in models /\ n \in models /\ m.rev \in Nat /\ n.rev \in Nat
      BY ModelFields
    <2>2. m.rev < n.rev
      BY <1>2, <2>1, YoungerIsGreater
    <2>. QED
      BY <2>1, <2>2, YoungerIsGreater
  <1>4. Oldest(ms) \in ms /\ \A n \in ms \ {Oldest(ms)} : Younger(Oldest(ms), n)
    BY <1>3 DEF Oldest
  <1>5. ASSUME NEW n \in ms
        PROVE  Oldest(ms).rev <= n.rev /\ Oldest(ms).at <= n.at
    <2>1. Oldest(ms) \in models /\ n \in models
      BY <1>4
    <2>2. CASE n = Oldest(ms)
      BY <2>1, <2>2, ModelFields
    <2>3. CASE n # Oldest(ms)
      BY <2>1, <2>3, <1>4, YoungerIsGreater, ModelFields
    <2>. QED
      BY <2>2, <2>3
  <1>. QED
    BY <1>4, <1>5

\* A model of the greatest revision.
LEMMA YoungestOf ==
    ASSUME ModelsTyped, ModelsInOrder, NEW ms \in SUBSET models, ms # {},
           NEW b \in Int, \A m \in models : m.rev <= b
    PROVE  \E m \in ms : \A n \in ms : n.rev <= m.rev
  <1>1. {m.rev : m \in ms} \in SUBSET Int /\ {m.rev : m \in ms} # {}
    BY ModelFields
  <1>2. \A x \in {m.rev : m \in ms} : x <= b
    OBVIOUS
  <1>3. Max({m.rev : m \in ms}) \in {m.rev : m \in ms}
        /\ \A x \in {m.rev : m \in ms} : x <= Max({m.rev : m \in ms})
    BY <1>1, <1>2, MaxOf
  <1>4. PICK m \in ms : m.rev = Max({n.rev : n \in ms})
    BY <1>3
  <1>. QED
    BY <1>3, <1>4

\* Rows are appended without scopes, and a running row is closed.
RowsKept ==
    /\ DOMAIN rows \subseteq DOMAIN rows'
    /\ \A i \in DOMAIN rows :
          /\ rows'[i].started = rows[i].started /\ rows'[i].scopes = rows[i].scopes
          /\ rows'[i].status = "completed" <=> rows[i].status = "completed"
    /\ \A i \in DOMAIN rows' \ DOMAIN rows :
          rows'[i].scopes = {} /\ rows'[i].status # "completed"

\* Limits and plans do not change with rows that are kept.
LEMMA ScopesSame ==
    ASSUME RowsKept
    PROVE  /\ Completed' = Completed /\ Limits' = Limits /\ Planned' = Planned
           /\ \A i \in Planned : i \in DOMAIN rows /\ rows'[i].scopes = rows[i].scopes
  <1>1. Completed' = Completed /\ Planned' = Planned
    BY DEF RowsKept, Completed, Planned
  <1>2. \A i \in Completed : rows'[i].scopes = rows[i].scopes
    BY DEF RowsKept, Completed
  <1>3. Limits' = Limits
    BY <1>1, <1>2 DEF Limits
  <1>. QED
    BY <1>1, <1>3 DEF RowsKept, Planned

\* A limit is the end of a scope of a completed row.
LEMMA LimitIn ==
    ASSUME NEW l
    PROVE  l \in Limits <=> \E r \in Completed : \E s \in rows[r].scopes : l = s.to
  BY DEF Limits

\* Closing a row.
LEMMA RowClosed ==
    ASSUME NEW r \in CheckRow, NEW t \in Nat, NEW st \in {"completed", "failed"}
    PROVE  LET q == [r EXCEPT !.status = st, !.finished = t]
           IN  /\ q \in CheckRow /\ q.started = r.started /\ q.scopes = r.scopes
               /\ q.status = st /\ q.finished = t
  BY DEF CheckRow

\* Fail closes the running row and leaves the others alone.
LEMMA FailRows ==
    ASSUME ModelsTyped, RowsTyped, RowsInOrder, rows' = Fail(clock), clock' = clock
    PROVE  /\ RowsTyped' /\ RowsInOrder' /\ RowsKept /\ ~Running'
           /\ Len(rows') = Len(rows)
           /\ rows # <<>> => /\ rows' # <<>> /\ Latest' = Latest
                             /\ Last(rows').scopes = Last(rows).scopes
                             /\ CoverageEnd' = CoverageEnd
  <1>0. clock \in Nat /\ rows \in Seq(CheckRow)
    BY DEF ModelsTyped, RowsTyped
  <1>1. CASE ~Running
    <2>1. rows' = rows
      BY <1>1 DEF Fail
    <2>. QED
      BY <2>1, <1>1 DEF RowsTyped, RowsInOrder, RowsKept, Running, Latest, CoverageEnd
  <1>2. CASE Running
    <2>. DEFINE n == Len(rows)
                r == [rows[n] EXCEPT !.status = "failed", !.finished = clock]
    <2>1. rows # <<>> /\ n \in Nat /\ n >= 1 /\ n \in DOMAIN rows /\ rows[n].status = "running"
      BY <1>0, <1>2 DEF Running, Last
    <2>2. rows' = [rows EXCEPT ![n] = r]
      BY <1>0, <1>2, <2>1 DEF Fail, CheckRow
    <2>3. /\ r \in CheckRow /\ r.started = rows[n].started /\ r.scopes = rows[n].scopes
          /\ r.status = "failed" /\ r.finished = clock
      <3>1. rows[n] \in CheckRow
        BY <1>0, <2>1
      <3>. QED
        BY <1>0, <3>1, RowClosed
    <2>. HIDE DEF r
    <2>4. /\ rows' \in Seq(CheckRow) /\ DOMAIN rows' = DOMAIN rows /\ Len(rows') = n
          /\ rows'[n] = r /\ \A i \in DOMAIN rows : i # n => rows'[i] = rows[i]
      BY <1>0, <2>1, <2>2, <2>3
    <2>5. RowsTyped'
      <3>1. ASSUME NEW i \in DOMAIN rows'
            PROVE  /\ rows'[i].started <= clock' /\ rows'[i].finished <= clock'
                   /\ rows'[i].finished = NoTime <=> rows'[i].status = "running"
                   /\ rows'[i].finished # NoTime => rows'[i].started <= rows'[i].finished
        <4>1. CASE i = n
          BY <4>1, <2>1, <2>3, <2>4, <1>0, Constants DEF RowsTyped
        <4>2. CASE i # n
          BY <4>2, <2>4 DEF RowsTyped
        <4>. QED
          BY <4>1, <4>2
      <3>. QED
        BY <3>1, <2>4 DEF RowsTyped
    <2>6. RowsInOrder'
      <3>. SUFFICES ASSUME NEW i \in DOMAIN rows, NEW j \in DOMAIN rows, i < j
                    PROVE  /\ rows'[i].started < rows'[j].started
                           /\ rows'[i].finished # NoTime
                           /\ rows'[i].finished <= rows'[j].started
        BY <2>4 DEF RowsInOrder
      <3>1. i # n
        BY <1>0
      <3>2. rows'[i] = rows[i] /\ rows'[j].started = rows[j].started
        BY <3>1, <2>3, <2>4
      <3>. QED
        BY <3>2 DEF RowsInOrder
    <2>7. RowsKept
      BY <2>1, <2>3, <2>4 DEF RowsKept
    <2>8. /\ ~Running' /\ rows' # <<>> /\ Latest' = Latest
          /\ Last(rows').scopes = Last(rows).scopes
      BY <2>1, <2>3, <2>4 DEF Running, Latest, Last
    <2>. QED
      BY <2>4, <2>5, <2>6, <2>7, <2>8 DEF CoverageEnd, Latest
  <1>. QED
    BY <1>1, <1>2

\* Time does no harm to rows.
LEMMA RowsUnchanged ==
    ASSUME RowsTyped, RowsInOrder, UNCHANGED rows, clock \in Nat, clock' \in Nat, clock <= clock'
    PROVE  RowsTyped' /\ RowsInOrder' /\ RowsKept
  <1>1. RowsInOrder' /\ RowsKept
    BY DEF RowsInOrder, RowsKept
  <1>2. ASSUME NEW i \in DOMAIN rows
        PROVE  rows[i].started <= clock' /\ rows[i].finished <= clock'
    BY RowFields DEF RowsTyped
  <1>. QED
    BY <1>1, <1>2 DEF RowsTyped

\* StartMonitoringCheck appends a running row without scopes.
LEMMA StartRows ==
    ASSUME ModelsTyped, RowsTyped, RowsInOrder, clock' = clock,
           rows' = Append(Fail(clock), Row(clock)),
           rows # <<>> => Latest < clock
    PROVE  /\ RowsTyped' /\ RowsInOrder' /\ RowsKept /\ Running'
           /\ rows' # <<>> /\ Latest' = clock /\ Last(rows').scopes = {}
  <1>. DEFINE f == Fail(clock)
              n == Len(f)
  <1>0. clock \in Nat /\ rows \in Seq(CheckRow)
    BY DEF ModelsTyped, RowsTyped
  <1>1. /\ f \in Seq(CheckRow) /\ n = Len(rows) /\ DOMAIN f = DOMAIN rows
        /\ \A i \in DOMAIN rows :
             /\ f[i].started = rows[i].started /\ f[i].scopes = rows[i].scopes
             /\ f[i].status = "completed" <=> rows[i].status = "completed"
             /\ f[i].started < clock /\ f[i].finished <= clock /\ f[i].finished # NoTime
             /\ f[i].finished = NoTime <=> f[i].status = "running"
             /\ f[i].finished # NoTime => f[i].started <= f[i].finished
        /\ \A i, j \in DOMAIN rows : i < j =>
             f[i].finished <= f[j].started /\ f[i].started < f[j].started
    <2>1. ASSUME NEW i \in DOMAIN rows PROVE rows[i].started < clock
      <3>1. i \in Nat /\ rows[i].started \in Nat /\ i <= Len(rows) /\ rows # <<>>
        BY <1>0, RowFields
      <3>2. CASE i = Len(rows)
        BY <3>1, <3>2, LastRow
      <3>3. CASE i < Len(rows)
        <4>1. Len(rows) \in DOMAIN rows /\ Latest = rows[Len(rows)].started /\ Latest \in Nat
          BY <3>1, LastRow
        <4>2. rows[i].started < rows[Len(rows)].started
          BY <4>1, <3>3 DEF RowsInOrder
        <4>. QED
          BY <3>1, <4>1, <4>2, <1>0
      <3>. QED
        BY <3>1, <3>2, <3>3, <1>0
    <2>2. CASE ~Running
      <3>1. f = rows
        BY <2>2 DEF Fail
      <3>2. ASSUME NEW i \in DOMAIN rows PROVE rows[i].finished # NoTime
        <4>1. i \in Nat /\ i <= Len(rows) /\ rows # <<>> /\ Len(rows) \in Nat
          BY <1>0, RowFields
        <4>2. CASE i = Len(rows)
          BY <4>1, <4>2, <2>2 DEF Running, Last, RowsTyped
        <4>3. CASE i < Len(rows)
          BY <4>1, <4>3, LastRow DEF RowsInOrder
        <4>. QED
          BY <4>1, <4>2, <4>3
      <3>. QED
        BY <1>0, <2>1, <3>1, <3>2 DEF RowsTyped, RowsInOrder
    <2>3. CASE Running
      <3>. DEFINE r == [rows[Len(rows)] EXCEPT !.status = "failed", !.finished = clock]
                  k == Len(rows)
      <3>1. rows # <<>> /\ k \in Nat /\ k >= 1 /\ k \in DOMAIN rows /\ rows[k].status = "running"
        BY <1>0, <2>3 DEF Running, Last
      <3>2. f = [rows EXCEPT ![k] = r]
        BY <1>0, <2>3, <3>1 DEF Fail, CheckRow
      <3>3. /\ r \in CheckRow /\ r.started = rows[k].started /\ r.scopes = rows[k].scopes
            /\ r.status = "failed" /\ r.finished = clock
        <4>1. rows[k] \in CheckRow
          BY <1>0, <3>1
        <4>. QED
          BY <1>0, <4>1, RowClosed
      <3>. HIDE DEF r
      <3>4. /\ f \in Seq(CheckRow) /\ DOMAIN f = DOMAIN rows /\ Len(f) = k
            /\ f[k] = r /\ \A i \in DOMAIN rows : i # k => f[i] = rows[i]
        BY <1>0, <3>1, <3>2, <3>3
      <3>. HIDE DEF f
      <3>5. ASSUME NEW i \in DOMAIN rows
            PROVE  /\ f[i].started = rows[i].started /\ f[i].scopes = rows[i].scopes
                   /\ f[i].status = "completed" <=> rows[i].status = "completed"
                   /\ f[i].started < clock /\ f[i].finished <= clock /\ f[i].finished # NoTime
                   /\ f[i].finished = NoTime <=> f[i].status = "running"
                   /\ f[i].finished # NoTime => f[i].started <= f[i].finished
        <4>1. CASE i = k
          BY <4>1, <2>1, <3>1, <3>3, <3>4, <1>0, Constants DEF RowsTyped
        <4>2. CASE i # k
          <5>1. i \in Nat /\ i < k
            BY <1>0, <4>2
          <5>2. rows[i].finished # NoTime
            BY <5>1, <3>1 DEF RowsInOrder
          <5>. QED
            BY <4>2, <5>2, <2>1, <3>4 DEF RowsTyped
        <4>. QED
          BY <4>1, <4>2
      <3>6. ASSUME NEW i \in DOMAIN rows, NEW j \in DOMAIN rows, i < j
            PROVE  f[i].finished <= f[j].started /\ f[i].started < f[j].started
        <4>1. i # k
          BY <1>0, <3>6, RowFields
        <4>2. f[i] = rows[i] /\ f[j].started = rows[j].started
          BY <4>1, <3>4, <3>5
        <4>3. rows[i].finished <= rows[j].started /\ rows[i].started < rows[j].started
          BY <3>6 DEF RowsInOrder
        <4>. QED
          BY <4>2, <4>3
      <3>. QED
        BY <3>4, <3>5, <3>6
    <2>. QED
      BY <2>2, <2>3
  <1>2. Row(clock) \in CheckRow
    BY <1>0, Constants DEF Row, CheckRow, Scope
  <1>. HIDE DEF f
  <1>3. /\ rows' \in Seq(CheckRow) /\ Len(rows') = n + 1 /\ n \in Nat
        /\ DOMAIN rows' = DOMAIN rows \cup {n + 1} /\ n + 1 \notin DOMAIN rows
        /\ rows'[n + 1] = Row(clock) /\ \A i \in DOMAIN rows : rows'[i] = f[i]
    BY <1>0, <1>1, <1>2 DEF f
  <1>4. /\ Row(clock).started = clock /\ Row(clock).finished = NoTime
        /\ Row(clock).status = "running" /\ Row(clock).scopes = {}
    BY DEF Row
  <1>5. RowsTyped'
    <2>1. ASSUME NEW i \in DOMAIN rows'
          PROVE  /\ rows'[i].started <= clock' /\ rows'[i].finished <= clock'
                 /\ rows'[i].finished = NoTime <=> rows'[i].status = "running"
                 /\ rows'[i].finished # NoTime => rows'[i].started <= rows'[i].finished
      <3>1. CASE i = n + 1
        BY <3>1, <1>0, <1>3, <1>4, Constants
      <3>2. CASE i \in DOMAIN rows
        <4>1. f[i] \in CheckRow
          BY <3>2, <1>1
        <4>2. f[i].started \in Nat
          BY <4>1 DEF CheckRow
        <4>. QED
          BY <3>2, <4>2, <1>0, <1>1, <1>3
      <3>. QED
        BY <3>1, <3>2, <1>3
    <2>. QED
      BY <2>1, <1>3 DEF RowsTyped
  <1>6. RowsInOrder'
    <2>. SUFFICES ASSUME NEW i \in DOMAIN rows', NEW j \in DOMAIN rows', i < j
                  PROVE  /\ rows'[i].started < rows'[j].started
                         /\ rows'[i].finished # NoTime
                         /\ rows'[i].finished <= rows'[j].started
      BY DEF RowsInOrder
    <2>1. i \in DOMAIN rows
      BY <1>0, <1>1, <1>3
    <2>2. CASE j = n + 1
      BY <2>1, <2>2, <1>1, <1>3, <1>4
    <2>3. CASE j \in DOMAIN rows
      BY <2>1, <2>3, <1>1, <1>3
    <2>. QED
      BY <2>2, <2>3, <1>3
  <1>7. RowsKept
    BY <1>1, <1>3, <1>4 DEF RowsKept
  <1>8. Running' /\ rows' # <<>> /\ Latest' = clock /\ Last(rows').scopes = {}
    BY <1>0, <1>3, <1>4 DEF Running, Latest, Last
  <1>. QED
    BY <1>5, <1>6, <1>7, <1>8

-----------------------------------------------------------------------------
(* What was judged, and where the next plan begins.                        *)

\* End is the anchor or the end of a judged period.
LEMMA EndOf ==
    ASSUME JudgedTyped, clock \in Nat
    PROVE  /\ End \in Int /\ anchor <= End /\ End <= clock
           /\ \A c \in judged : c.to <= End
           /\ End = anchor \/ \E c \in judged : End = c.to
           /\ judged = {} => End = anchor
  <1>. DEFINE S == {anchor} \cup {c.to : c \in judged}
  <1>1. \A c \in judged : c.to \in Int /\ c.to <= clock
    BY DEF JudgedTyped, Segment
  <1>2. anchor \in Int /\ anchor <= clock
    BY DEF JudgedTyped
  <1>3. S \in SUBSET Int /\ S # {} /\ \A x \in S : x <= clock
    BY <1>1, <1>2
  <1>4. Max(S) \in S /\ Max(S) \in Int /\ \A x \in S : x <= Max(S)
    <2>. HIDE DEF S
    <2>1. clock \in Int
      OBVIOUS
    <2>. QED
      BY <2>1, <1>3, MaxOf
  <1>5. End = Max(S)
    BY DEF End
  <1>. HIDE DEF S
  <1>6. Max(S) <= clock /\ End \in S
    BY <1>3, <1>4, <1>5
  <1>7. anchor \in S /\ \A c \in judged : c.to \in S
    BY DEF S
  <1>8. End = anchor \/ \E c \in judged : End = c.to
    BY <1>6 DEF S
  <1>. QED
    BY <1>4, <1>5, <1>6, <1>7, <1>8

\* Limits lie before the end of the coverage that a check may reach.
LEMMA LimitBounds ==
    ASSUME ModelsTyped, RowsTyped, RowsInOrder, ScopesOK, rows # <<>>
    PROVE  /\ Limits \subseteq Int /\ \A l \in Limits : l <= CoverageEnd
           /\ Limits # {} => /\ Max(Limits) \in Limits /\ Max(Limits) \in Int
                             /\ \A l \in Limits : l <= Max(Limits)
                             /\ Reliable # {} /\ Planned # {} /\ anchor # NoTime
           /\ \A r \in DOMAIN rows : \A s \in rows[r].scopes :
                 s.from \in Int /\ s.to \in Int /\ s.from <= s.to /\ s.to <= CoverageEnd
  <1>1. ASSUME NEW r \in DOMAIN rows
        PROVE  rows[r].started \in Int /\ rows[r].started <= Latest
    <2>1. r \in Nat /\ r <= Len(rows) /\ rows[r].started \in Nat
      BY RowFields
    <2>2. Len(rows) \in DOMAIN rows /\ Latest = rows[Len(rows)].started /\ Latest \in Nat
          /\ Len(rows) \in Nat
      BY LastRow
    <2>3. CASE r = Len(rows)
      BY <2>1, <2>2, <2>3
    <2>4. CASE r < Len(rows)
      <3>1. rows[r].started < rows[Len(rows)].started
        BY <2>2, <2>4 DEF RowsInOrder
      <3>. QED
        BY <2>1, <2>2, <3>1
    <2>. QED
      BY <2>1, <2>2, <2>3, <2>4
  <1>2. ASSUME NEW r \in DOMAIN rows, NEW s \in rows[r].scopes
        PROVE  /\ s.from \in Int /\ s.to \in Int /\ s.from <= s.to /\ s.to <= CoverageEnd
               /\ Reliable # {} /\ anchor # NoTime
    <2>1. s.from \in Int /\ s.to \in Int
      BY RowFields
    <2>2. s.from <= s.to /\ s.to <= rows[r].started - Tolerance /\ Reliable # {} /\ anchor # NoTime
      BY DEF ScopesOK
    <2>3. rows[r].started \in Int /\ rows[r].started <= Latest
      BY <1>1
    <2>4. CoverageEnd = Latest - Tolerance /\ Latest \in Nat
      BY LastRow
    <2>. QED
      BY <2>1, <2>2, <2>3, <2>4, Constants
  <1>3. ASSUME NEW l \in Limits
        PROVE  /\ l \in Int /\ l <= CoverageEnd /\ Reliable # {} /\ Planned # {}
               /\ anchor # NoTime
    <2>1. PICK r \in Completed : \E s \in rows[r].scopes : l = s.to
      BY LimitIn
    <2>2. r \in DOMAIN rows /\ rows[r].scopes # {}
      BY <2>1 DEF Completed
    <2>. QED
      BY <2>1, <2>2, <1>2 DEF Planned
  <1>4. CoverageEnd \in Int
    BY LastRow
  <1>5. Limits # {} => /\ Max(Limits) \in Limits /\ Max(Limits) \in Int
                       /\ \A l \in Limits : l <= Max(Limits)
    BY <1>3, <1>4, MaxOf
  <1>. QED
    BY <1>2, <1>3, <1>5

\* Learning adds models that are no older than the present, and never takes a
\* reliable one away.
ModelsGrow ==
    /\ Reliable \subseteq Reliable'
    /\ \A m \in Reliable' \ Reliable :
          /\ clock <= m.at
          /\ \A n \in Reliable : n.rev # m.rev

\* Rows that are kept and models that grow leave the history as it is.
LEMMA HistoryStays ==
    ASSUME ModelsTyped, ModelsTyped', RowsTyped, RowsInOrder, RowsKept, ModelsGrow,
           ModelsInOrder, HistoryOK, UNCHANGED <<judged, anchor>>, clock <= clock'
    PROVE  HistoryOK'
  <1>0. /\ clock \in Nat /\ clock' \in Nat
        /\ \A m \in Reliable' : m.at \in Int /\ m.rev \in Nat
        /\ \A m \in Reliable : m.at \in Int /\ m.rev \in Nat
    BY DEF ModelsTyped, Reliable, Model
  <1>1. /\ Completed' = Completed /\ Limits' = Limits /\ Planned' = Planned
        /\ \A i \in Planned : i \in DOMAIN rows /\ rows'[i].scopes = rows[i].scopes
    BY ScopesSame
  <1>2. End' = End /\ End \in Int /\ End <= clock
    BY <1>0, EndOf DEF HistoryOK, End
  <1>3. ScopesOK'
    <2>. SUFFICES ASSUME NEW r \in DOMAIN rows', NEW s \in rows'[r].scopes
                  PROVE  /\ s.from <= s.to /\ s.to <= rows'[r].started - Tolerance
                         /\ anchor # NoTime
                         /\ \E m \in Reliable' : m.rev = s.rev
      BY DEF ScopesOK
    <2>1. r \in DOMAIN rows /\ s \in rows[r].scopes /\ rows'[r].started = rows[r].started
      BY DEF RowsKept
    <2>. QED
      BY <2>1 DEF HistoryOK, ScopesOK, ModelsGrow
  <1>4. ScopesLater'
    <2>. SUFFICES ASSUME NEW p \in DOMAIN rows', NEW q \in DOMAIN rows',
                         p < q, p \in Completed', rows'[p].scopes # {},
                         NEW s \in rows'[q].scopes, NEW m \in Reliable', m.rev = s.rev
                  PROVE  m.at <= s.from
      BY DEF ScopesLater
    <2>1. p \in DOMAIN rows /\ q \in DOMAIN rows /\ p \in Completed /\ rows[p].scopes # {}
          /\ s \in rows[q].scopes
      BY <1>1 DEF RowsKept
    <2>2. PICK n \in Reliable : n.rev = s.rev
      BY <2>1 DEF HistoryOK, ScopesOK
    <2>3. m \in Reliable
      BY <2>2 DEF ModelsGrow
    <2>. QED
      BY <2>1, <2>3 DEF HistoryOK, ScopesLater
  <1>5. JudgedTyped'
    <2>1. \A c \in judged : c.to \in Int
      BY DEF HistoryOK, JudgedTyped, Segment
    <2>2. rows' = <<>> => rows = <<>>
      BY DEF RowsKept, RowsTyped
    <2>. QED
      BY <2>1, <2>2, <1>0 DEF HistoryOK, JudgedTyped
  <1>6. Tiles'
    <2>. SUFFICES ASSUME NEW x \in anchor + 1 .. End,
                         \A c \in judged : ~Judge(c, x), \A m \in Reliable : x <= m.at
                  PROVE  \A m \in Reliable' : x <= m.at
      BY <1>2 DEF HistoryOK, Tiles, Judge
    <2>. TAKE m \in Reliable'
    <2>1. anchor \in Int /\ x \in Int /\ x <= clock
      BY <1>0, <1>2 DEF HistoryOK, JudgedTyped
    <2>2. CASE m \in Reliable
      BY <2>2
    <2>3. CASE m \notin Reliable
      BY <2>1, <2>3, <1>0 DEF ModelsGrow
    <2>. QED
      BY <2>2, <2>3
  <1>7. \A c \in judged' : InForce(c)'
    <2>. SUFFICES ASSUME NEW c \in judged PROVE InForce(c)'
      OBVIOUS
    <2>1. c.to \in Int /\ c.to <= clock /\ InForce(c)
      BY DEF HistoryOK, JudgedTyped, Segment
    <2>2. ASSUME NEW n \in Reliable', c.model.at < n.at, n.at < c.to
          PROVE  FALSE
      <3>1. CASE n \in Reliable
        BY <3>1, <2>1, <2>2 DEF InForce
      <3>2. CASE n \notin Reliable
        BY <3>2, <2>1, <2>2, <1>0 DEF ModelsGrow
      <3>. QED
        BY <3>1, <3>2
    <2>. QED
      BY <2>1, <2>2 DEF InForce
  <1>8. Frontier'
    <2>. SUFFICES ASSUME anchor # NoTime
                  PROVE  /\ Limits # {} =>
                              \/ Max(Limits) = End
                              \/ \A m \in Reliable' : Max(Limits) <= m.at /\ End <= m.at
                         /\ Limits = {} /\ Planned # {} =>
                              \E s \in rows'[Min(Planned)].scopes :
                                 /\ FirstScope(s, rows'[Min(Planned)].scopes)
                                 /\ Resumes(s)'
                         /\ Limits = {} /\ Planned = {} =>
                              /\ Completed # {} /\ Reliable' # {}
                              /\ \A m \in Reliable' : End <= m.at
      BY <1>1, <1>2 DEF Frontier, FirstScope
    <2>1. ASSUME NEW m \in Reliable' \ Reliable PROVE clock <= m.at /\ m.at \in Int /\ End <= m.at
      BY <1>0, <1>2 DEF ModelsGrow
    <2>2. rows # <<>>
      BY DEF HistoryOK, JudgedTyped
    <2>3. CASE Limits # {}
      <3>1. /\ Max(Limits) \in Int /\ Max(Limits) <= CoverageEnd
            /\ CoverageEnd <= clock /\ CoverageEnd \in Int
        BY <2>2, <2>3, LimitBounds, LastRow, Constants, <1>0 DEF HistoryOK
      <3>2. ASSUME NEW m \in Reliable' \ Reliable PROVE Max(Limits) <= m.at
        BY <3>1, <2>1, <1>0
      <3>. QED
        BY <2>1, <2>3, <3>2 DEF HistoryOK, Frontier
    <2>4. CASE Limits = {} /\ Planned # {}
      <3>1. PICK s \in rows[Min(Planned)].scopes :
                FirstScope(s, rows[Min(Planned)].scopes) /\ Resumes(s)
        BY <2>4 DEF HistoryOK, Frontier
      <3>2. Min(Planned) \in Planned
        <4>1. Planned \in SUBSET Nat
          BY DEF Planned, RowsTyped
        <4>. QED
          BY <4>1, <2>4, MinOf
      <3>3. rows'[Min(Planned)].scopes = rows[Min(Planned)].scopes
            /\ Min(Planned) \in DOMAIN rows
        BY <3>2, <1>1
      <3>4. s.from \in Int /\ s.from <= clock
        <4>1. s.from \in Int /\ s.to \in Int /\ s.from <= s.to /\ s.to <= CoverageEnd
          BY <3>3, <2>2, LimitBounds DEF HistoryOK
        <4>. QED
          BY <4>1, <2>2, LastRow, <1>0, Constants
      <3>5. ASSUME NEW m \in Reliable' \ Reliable PROVE s.from <= m.at
        BY <3>4, <2>1, <1>0
      <3>6. Resumes(s)'
        <4>1. PICK m \in Reliable :
                /\ m.rev = s.rev
                /\ End <= s.from
                /\ End = s.from \/ \A n \in Reliable : s.from <= n.at
                /\ s.from < m.at => s.from = anchor
                /\ \A n \in Reliable : m.rev < n.rev => s.from <= n.at
          BY <3>1 DEF Resumes
        <4>2. m \in Reliable'
          BY DEF ModelsGrow
        <4>. QED
          BY <4>1, <4>2, <3>5, <1>2 DEF Resumes
      <3>. QED
        BY <2>4, <3>1, <3>3, <3>6
    <2>5. CASE Limits = {} /\ Planned = {}
      BY <2>1, <2>5 DEF HistoryOK, Frontier, ModelsGrow
    <2>. QED
      BY <2>3, <2>4, <2>5
  <1>. QED
    BY <1>3, <1>4, <1>5, <1>6, <1>7, <1>8 DEF HistoryOK

\* A plan goes on fitting while nothing it depends on changes.
LEMMA PlanStays ==
    ASSUME NEW p, PlanFits(p), UNCHANGED <<models, rows, judged, anchor>>
    PROVE  PlanFits(p)'
  <1>1. /\ Reliable' = Reliable /\ End' = End /\ Limits' = Limits /\ Planned' = Planned
        /\ CoverageEnd' = CoverageEnd /\ Last(rows') = Last(rows)
    BY DEF Reliable, End, Limits, Completed, CoverageEnd, Planned
  <1>2. \A s : InForce(s)' = InForce(s)
    BY <1>1 DEF InForce
  <1>. QED
    BY <1>1, <1>2 DEF PlanFits, Judge, ScopeOf

-----------------------------------------------------------------------------
(* Planning.                                                               *)

\* A segment ends when the next model was learned, or where the coverage ends.
LEMMA SegmentEnds ==
    ASSUME ModelsTyped, ModelsInOrder, RowsTyped, rows # <<>>,
           NEW ms \in SUBSET models, NEW m \in ms
    PROVE  /\ SegmentEnd(m, ms) \in Int /\ SegmentEnd(m, ms) <= CoverageEnd
           /\ \A n \in ms : m.rev < n.rev => SegmentEnd(m, ms) <= n.at
           /\ \A x \in Int : x <= CoverageEnd /\ (\A n \in ms : m.rev < n.rev => x <= n.at)
                 => x <= SegmentEnd(m, ms)
  <1>. DEFINE after == {n \in ms : Younger(m, n)}
  <1>1. after = {n \in ms : m.rev < n.rev}
    BY YoungerIsGreater
  <1>2. CoverageEnd \in Int /\ \A n \in ms : n.at \in Int
    BY LastRow, ModelFields
  <1>3. CASE after = {}
    <2>1. SegmentEnd(m, ms) = CoverageEnd
      BY <1>3 DEF SegmentEnd
    <2>. QED
      BY <2>1, <1>1, <1>2, <1>3
  <1>4. CASE after # {}
    <2>1. SegmentEnd(m, ms) = Min({CoverageEnd, Oldest(after).at})
      BY <1>4 DEF SegmentEnd
    <2>2. after \in SUBSET models
      OBVIOUS
    <2>. HIDE DEF after
    <2>3. Oldest(after) \in after /\ \A n \in after : Oldest(after).at <= n.at
      BY <1>4, <2>2, OldestOf
    <2>4. Oldest(after) \in ms /\ m.rev < Oldest(after).rev
      BY <1>1, <2>3
    <2>5. Oldest(after).at \in Int
      BY <1>2, <2>4
    <2>. DEFINE a == Oldest(after).at
    <2>6. SegmentEnd(m, ms) = IF CoverageEnd <= a THEN CoverageEnd ELSE a
      BY <2>1, <2>5, <1>2, MaxPair
    <2>7. \A n \in ms : m.rev < n.rev => a <= n.at
      BY <1>1, <2>3
    <2>8. \A x \in Int : (\A n \in ms : m.rev < n.rev => x <= n.at) => x <= a
      BY <2>4
    <2>. HIDE DEF a
    <2>9. a \in Int
      BY <2>5 DEF a
    <2>10. SegmentEnd(m, ms) \in Int /\ SegmentEnd(m, ms) <= CoverageEnd /\ SegmentEnd(m, ms) <= a
           /\ (SegmentEnd(m, ms) = CoverageEnd \/ SegmentEnd(m, ms) = a)
      BY <2>6, <2>9, <1>2
    <2>11. ASSUME NEW n \in ms, m.rev < n.rev PROVE SegmentEnd(m, ms) <= n.at
      BY <2>7, <2>9, <2>10, <2>11, <1>2
    <2>12. ASSUME NEW x \in Int, x <= CoverageEnd, \A n \in ms : m.rev < n.rev => x <= n.at
           PROVE  x <= SegmentEnd(m, ms)
      BY <2>8, <2>10, <2>12
    <2>. QED
      BY <2>10, <2>11, <2>12
  <1>. QED
    BY <1>3, <1>4

\* The segments of the models ms when every one begins at f.
PlanOf(ms, f) ==
    {[model |-> m, from |-> f[m], to |-> SegmentEnd(m, ms)] :
        m \in {n \in ms : f[n] <= SegmentEnd(n, ms)}}

\* Every model but the first begins when it was learned or when the coverage
\* begins, whichever is later.
Begins(ms, f, start) ==
    /\ f \in [ms -> Int]
    /\ \A m \in ms : start <= f[m] /\ (f[m] = start \/ f[m] = m.at)
    /\ \A m, n \in ms : m.rev < n.rev => n.at <= f[n]

\* The segments of models that begin like this tile the coverage.
LEMMA Tiling ==
    ASSUME ModelsTyped, ModelsInOrder, RowsTyped, rows # <<>>,
           NEW b \in Int, \A m \in models : m.rev <= b,
           NEW ms \in SUBSET Reliable, NEW f, NEW start \in Int, Begins(ms, f, start)
    PROVE  /\ PlanOf(ms, f) \subseteq Segment
           /\ \A s \in PlanOf(ms, f) :
                 /\ s.model \in ms /\ s.from = f[s.model] /\ s.from \in Int /\ s.to \in Int
                 /\ s.from <= s.to /\ s.to <= CoverageEnd
                 /\ \A n \in ms : s.model.rev < n.rev => s.to <= n.at
                 /\ \A n \in ms : ~(s.model.at < n.at /\ n.at < s.to)
           /\ \A s, t \in PlanOf(ms, f) : s = t \/ s.to <= t.from \/ t.to <= s.from
           /\ \A x \in Int : start < x /\ x <= CoverageEnd =>
                 (\E t \in PlanOf(ms, f) : Judge(t, x)) \/ \A m \in ms : x <= f[m]
           /\ PlanOf(ms, f) = {} => \A m \in ms : CoverageEnd < f[m]
  <1>0. /\ ms \in SUBSET models /\ CoverageEnd \in Int
        /\ \A m \in ms : m \in Model /\ m.at \in Int /\ m.rev \in Nat /\ f[m] \in Int
    BY ModelFields, LastRow DEF Begins, Reliable
  <1>1. ASSUME NEW s \in PlanOf(ms, f)
        PROVE  /\ s \in Segment
               /\ s.model \in ms /\ s.from = f[s.model] /\ s.from \in Int /\ s.to \in Int
               /\ s.from <= s.to /\ s.to <= CoverageEnd
               /\ s.to = SegmentEnd(s.model, ms)
               /\ s = [model |-> s.model, from |-> f[s.model], to |-> SegmentEnd(s.model, ms)]
               /\ \A n \in ms : s.model.rev < n.rev => s.to <= n.at
               /\ \A n \in ms : ~(s.model.at < n.at /\ n.at < s.to)
    <2>1. PICK m \in ms : /\ f[m] <= SegmentEnd(m, ms)
                          /\ s = [model |-> m, from |-> f[m], to |-> SegmentEnd(m, ms)]
      BY DEF PlanOf
    <2>2. /\ SegmentEnd(m, ms) \in Int /\ SegmentEnd(m, ms) <= CoverageEnd
          /\ \A n \in ms : m.rev < n.rev => SegmentEnd(m, ms) <= n.at
      BY <1>0, SegmentEnds
    <2>3. s.model = m /\ s.from = f[m] /\ s.to = SegmentEnd(m, ms)
      BY <2>1
    <2>4. s \in Segment
      BY <2>1, <2>2, <1>0 DEF Segment
    <2>5. ASSUME NEW n \in ms, m.at < n.at, n.at < s.to PROVE FALSE
      <3>1. m \in models /\ n \in models
        BY <1>0
      <3>2. m.rev < n.rev
        BY <3>1, <2>5, <1>0, YoungerIsGreater
      <3>. QED
        BY <3>2, <2>2, <2>3, <2>5, <1>0
    <2>. QED
      BY <2>1, <2>2, <2>3, <2>4, <2>5, <1>0
  <1>2. ASSUME NEW s \in PlanOf(ms, f), NEW t \in PlanOf(ms, f)
        PROVE  s = t \/ s.to <= t.from \/ t.to <= s.from
    <2>1. s.model \in ms /\ t.model \in ms /\ s.model.rev \in Nat /\ t.model.rev \in Nat
      BY <1>0, <1>1
    <2>2. CASE s.model = t.model
      BY <1>1, <2>2
    <2>3. CASE s.model.rev < t.model.rev
      <3>1. s.to <= t.model.at /\ t.model.at <= f[t.model] /\ t.from = f[t.model]
        BY <2>1, <2>3, <1>1 DEF Begins
      <3>. QED
        BY <3>1, <2>1, <1>0, <1>1
    <2>4. CASE t.model.rev < s.model.rev
      <3>1. t.to <= s.model.at /\ s.model.at <= f[s.model] /\ s.from = f[s.model]
        BY <2>1, <2>4, <1>1 DEF Begins
      <3>. QED
        BY <3>1, <2>1, <1>0, <1>1
    <2>5. s.model.rev = t.model.rev => s.model = t.model
      BY <2>1, <1>0, YoungerIsGreater
    <2>. QED
      BY <2>1, <2>2, <2>3, <2>4, <2>5
  <1>3. ASSUME NEW x \in Int, start < x, x <= CoverageEnd, NEW m0 \in ms, f[m0] < x
        PROVE  \E t \in PlanOf(ms, f) : Judge(t, x)
    <2>. DEFINE B == {m \in ms : f[m] < x}
    <2>1. B \in SUBSET models /\ B # {}
      BY <1>0, <1>3
    <2>2. PICK m \in B : \A n \in B : n.rev <= m.rev
      <3>. HIDE DEF B
      <3>. QED
        BY <2>1, YoungestOf
    <2>3. ASSUME NEW n \in ms, m.rev < n.rev PROVE x <= n.at
      <3>1. n \notin B
        BY <2>2, <2>3, <1>0
      <3>2. f[n] \in Int /\ x <= f[n]
        BY <3>1, <1>0
      <3>3. f[n] = start \/ f[n] = n.at
        BY DEF Begins
      <3>. QED
        BY <3>2, <3>3, <1>3
    <2>4. m \in ms /\ f[m] < x
      OBVIOUS
    <2>5. x <= SegmentEnd(m, ms) /\ SegmentEnd(m, ms) \in Int
      BY <2>3, <2>4, <1>0, <1>3, SegmentEnds
    <2>6. f[m] <= SegmentEnd(m, ms)
      BY <2>4, <2>5, <1>0
    <2>. DEFINE t == [model |-> m, from |-> f[m], to |-> SegmentEnd(m, ms)]
    <2>7. t \in PlanOf(ms, f)
      BY <2>4, <2>6 DEF PlanOf
    <2>8. Judge(t, x)
      BY <2>4, <2>5 DEF Judge
    <2>. QED
      BY <2>7, <2>8
  <1>4. ASSUME NEW x \in Int, start < x, x <= CoverageEnd
        PROVE  (\E t \in PlanOf(ms, f) : Judge(t, x)) \/ \A m \in ms : x <= f[m]
    BY <1>0, <1>3, <1>4
  <1>5. ASSUME PlanOf(ms, f) = {}, NEW m0 \in ms, ~(CoverageEnd < f[m0])
        PROVE  FALSE
    <2>. DEFINE B == {m \in ms : f[m] <= CoverageEnd}
    <2>1. B \in SUBSET models /\ B # {}
      BY <1>0, <1>5
    <2>2. PICK m \in B : \A n \in B : n.rev <= m.rev
      <3>. HIDE DEF B
      <3>. QED
        BY <2>1, YoungestOf
    <2>3. m \in ms /\ f[m] <= CoverageEnd /\ start <= f[m]
      BY DEF Begins
    <2>4. ASSUME NEW n \in ms, m.rev < n.rev PROVE CoverageEnd <= n.at
      <3>1. n \notin B
        BY <2>2, <2>4, <1>0
      <3>2. f[n] \in Int /\ CoverageEnd < f[n]
        BY <3>1, <1>0
      <3>3. f[n] = start \/ f[n] = n.at
        BY DEF Begins
      <3>. QED
        BY <3>2, <3>3, <2>3, <1>0
    <2>5. CoverageEnd <= SegmentEnd(m, ms) /\ SegmentEnd(m, ms) \in Int
      <3>1. /\ SegmentEnd(m, ms) \in Int
            /\ \A x \in Int : x <= CoverageEnd /\ (\A n \in ms : m.rev < n.rev => x <= n.at)
                 => x <= SegmentEnd(m, ms)
        BY <2>3, <1>0, SegmentEnds
      <3>2. CoverageEnd \in Int /\ CoverageEnd <= CoverageEnd
        BY <1>0
      <3>. QED
        BY <3>1, <3>2, <2>4
    <2>6. f[m] <= SegmentEnd(m, ms)
      BY <2>3, <2>5, <1>0
    <2>. QED
      BY <2>3, <2>6, <1>5 DEF PlanOf
  <1>. QED
    BY <1>1, <1>2, <1>4, <1>5

\* All reliable models may be used.
LEMMA UsableIsReliable ==
    ASSUME ModelsTyped, NEW b \in Int, \A m \in models : m.rev <= b,
           revision # 0 => \A m \in models : m.rev <= revision
    PROVE  Usable = Reliable
  <1>. DEFINE revs == {0} \cup {m.rev : m \in models}
              current == IF revision = 0 THEN Max(revs) ELSE revision
  <1>1. \A m \in models : m.rev \in Nat /\ m.rev <= b
    BY ModelFields
  <1>2. \A m \in models : m.rev <= current
    <2>1. CASE revision = 0
      <3>. DEFINE c == IF 0 <= b THEN b ELSE 0
      <3>1. c \in Int /\ 0 <= c /\ b <= c
        OBVIOUS
      <3>2. revs \in SUBSET Int /\ revs # {}
        BY <1>1
      <3>3. \A x \in revs : x <= c
        <4>. HIDE DEF c
        <4>. QED
          BY <1>1, <3>1
      <3>. HIDE DEF revs, c
      <3>4. \A x \in revs : x <= Max(revs)
        BY <3>1, <3>2, <3>3, MaxOf
      <3>. QED
        BY <3>4, <2>1 DEF revs
    <2>2. CASE revision # 0
      BY <2>2
    <2>. QED
      BY <2>1, <2>2
  <1>3. Usable = {m \in models : m.reliable /\ m.rev <= current}
    BY DEF Usable
  <1>. HIDE DEF current
  <1>. QED
    BY <1>2, <1>3 DEF Reliable

\* A plan that goes on where completed checks have stopped.
LEMMA PlanAfterLimits ==
    ASSUME ModelsTyped, ModelsInOrder, RowsTyped, RowsInOrder, HistoryOK,
           rows # <<>>, NEW b \in Int, \A m \in models : m.rev <= b,
           Usable = Reliable, Limits # {}
    PROVE  LET p == Segments
           IN  /\ p \subseteq Segment
               /\ \A s \in p : /\ s.model \in Reliable /\ s.model.at <= s.from
                               /\ End <= s.from /\ s.from <= s.to /\ s.to <= CoverageEnd
                               /\ \A l \in Limits : l <= s.from
                               /\ InForce(s)
               /\ \A s, t \in p : s = t \/ s.to <= t.from \/ t.to <= s.from
               /\ \A s \in p : \A x \in End + 1 .. s.to :
                     (\E t \in p : Judge(t, x)) \/ \A n \in Reliable : x <= n.at
               /\ p = {} => \A n \in Reliable : CoverageEnd < n.at
  <1>. DEFINE S == Max(Limits)
              f == [m \in Reliable |-> Max({S, m.at})]
              p == PlanOf(Reliable, f)
  <1>1. /\ S \in Int /\ (\A l \in Limits : l <= S) /\ S <= CoverageEnd /\ Reliable # {}
        /\ CoverageEnd \in Int /\ anchor # NoTime
    BY LimitBounds, LastRow DEF HistoryOK
  <1>2. StartOfCoverage = S
    BY DEF StartOfCoverage
  <1>3. \A m \in Reliable : m.at \in Int /\ m \in models
    BY ModelFields DEF Reliable
  <1>4. \A m \in Reliable : f[m] = IF S <= m.at THEN m.at ELSE S
    BY <1>1, <1>3, MaxPair
  <1>5. Segments = p
    <2>1. ~(Usable = {} \/ StartOfCoverage > CoverageEnd)
      BY <1>1, <1>2
    <2>2. Segments =
            {[model |-> m, from |-> Max({S, m.at}), to |-> SegmentEnd(m, Reliable)] :
               m \in {n \in Reliable : Max({S, n.at}) <= SegmentEnd(n, Reliable)}}
      BY <2>1, <1>2 DEF Segments
    <2>. QED
      BY <2>2 DEF PlanOf
  <1>. HIDE DEF S
  <1>6. Begins(Reliable, f, S)
    <2>1. \A m \in Reliable : f[m] \in Int
      BY <1>1, <1>3, <1>4
    <2>2. \A m \in Reliable : S <= f[m] /\ (f[m] = S \/ f[m] = m.at) /\ m.at <= f[m]
      BY <1>1, <1>3, <1>4
    <2>. QED
      BY <2>1, <2>2 DEF Begins
  <1>. HIDE DEF f, p
  <1>7. End \in Int /\ (S = End \/ \A m \in Reliable : S <= m.at /\ End <= m.at)
    <2>1. clock \in Nat
      BY DEF ModelsTyped
    <2>. QED
      BY <1>1, <2>1, EndOf DEF HistoryOK, Frontier, S
  <1>8. /\ p \subseteq Segment
        /\ \A s \in p :
              /\ s.model \in Reliable /\ s.from = f[s.model] /\ s.from \in Int /\ s.to \in Int
              /\ s.from <= s.to /\ s.to <= CoverageEnd
              /\ \A n \in Reliable : ~(s.model.at < n.at /\ n.at < s.to)
        /\ \A s, t \in p : s = t \/ s.to <= t.from \/ t.to <= s.from
        /\ \A x \in Int : S < x /\ x <= CoverageEnd =>
              (\E t \in p : Judge(t, x)) \/ \A m \in Reliable : x <= f[m]
        /\ p = {} => \A m \in Reliable : CoverageEnd < f[m]
    BY <1>1, <1>6, Tiling DEF p
  <1>9. ASSUME NEW s \in p
        PROVE  s.model.at <= s.from /\ End <= s.from /\ (\A l \in Limits : l <= s.from) /\ InForce(s)
    <2>1. s.model \in Reliable /\ s.from = f[s.model] /\ s.model.at \in Int
      BY <1>3, <1>8
    <2>2. S <= s.from /\ s.model.at <= s.from /\ s.from \in Int
      BY <2>1, <1>1, <1>4
    <2>3. End <= s.from
      BY <2>1, <2>2, <1>1, <1>7
    <2>4. \A l \in Limits : l <= s.from
      <3>1. Limits \subseteq Int
        BY LimitBounds DEF HistoryOK
      <3>. QED
        BY <3>1, <2>2, <1>1
    <2>. QED
      BY <2>1, <2>2, <2>3, <2>4, <1>8 DEF InForce
  <1>10. ASSUME NEW s \in p, NEW x \in End + 1 .. s.to
         PROVE  (\E t \in p : Judge(t, x)) \/ \A n \in Reliable : x <= n.at
    <2>1. x \in Int /\ End < x /\ x <= CoverageEnd
      BY <1>1, <1>7, <1>8
    <2>2. CASE S < x
      <3>1. (\E t \in p : Judge(t, x)) \/ \A m \in Reliable : x <= f[m]
        BY <2>1, <2>2, <1>8
      <3>2. ASSUME \A m \in Reliable : x <= f[m], NEW n \in Reliable PROVE x <= n.at
        BY <3>2, <2>1, <2>2, <1>1, <1>3, <1>4
      <3>. QED
        BY <3>1, <3>2
    <2>3. CASE ~(S < x)
      BY <2>1, <2>3, <1>1, <1>3, <1>7
    <2>. QED
      BY <2>2, <2>3
  <1>11. ASSUME p = {}, NEW n \in Reliable PROVE CoverageEnd < n.at
    BY <1>11, <1>1, <1>3, <1>4, <1>8
  <1>. QED
    BY <1>5, <1>8, <1>9, <1>10, <1>11

\* Midnight is at most a day ago.
LEMMA MidnightBounds ==
    ASSUME NEW t \in Nat
    PROVE  Midnight(t) \in Int /\ Midnight(t) <= t /\ -Day < Midnight(t)
  <1>1. t % Day \in 0 .. Day - 1
    BY Constants
  <1>. QED
    BY <1>1, Constants DEF Midnight

\* Where a plan begins while no completed check has a limit.
LEMMA FirstPlanBegins ==
    ASSUME ModelsTyped, ModelsInOrder, RowsTyped, RowsInOrder, HistoryOK,
           rows # <<>>, Last(rows).scopes = {},
           NEW b \in Int, \A m \in models : m.rev <= b,
           Usable = Reliable, Reliable # {}, Limits = {}
    PROVE  LET M == FirstModel
               S == StartOfCoverage
           IN  /\ M \in Reliable /\ S \in Int
               /\ \A n \in Reliable : M.rev < n.rev => S <= n.at
               /\ anchor = NoTime => NoTime < S
               /\ anchor # NoTime => /\ End <= S
                                     /\ End = S \/ \A n \in Reliable : S <= n.at
                                     /\ S < M.at => S = anchor
               /\ Planned # {} => S <= CoverageEnd
  <1>. DEFINE M == FirstModel
              S == StartOfCoverage
  <1>0. /\ Reliable \in SUBSET models
        /\ \A m \in Reliable : m.at \in Int /\ m.rev \in Nat /\ -Day <= m.at
    BY ModelFields DEF Reliable, ModelsTyped
  <1>1. Attempts = Planned
    <2>1. rows[Len(rows)].scopes = {}
      BY DEF Last
    <2>. QED
      BY <2>1 DEF Attempts, Planned
  <1>2. CASE Planned # {}
    <2>. DEFINE scopes == rows[Min(Planned)].scopes
    <2>1. Min(Planned) \in Planned
      <3>1. Planned \in SUBSET Nat
        BY DEF Planned, RowsTyped
      <3>. QED
        BY <3>1, <1>2, MinOf
    <2>2. Min(Planned) \in DOMAIN rows /\ scopes # {}
      BY <2>1 DEF Planned
    <2>3. \A s \in scopes : s.rev \in Nat /\ s.from \in Int /\ s.from <= CoverageEnd
      <3>1. \A s \in scopes : s.rev \in Nat /\ s.from \in Int
        BY <2>2, RowFields
      <3>2. \A s \in scopes : s.to \in Int /\ s.from <= s.to /\ s.to <= CoverageEnd
        BY <2>2, LimitBounds DEF HistoryOK
      <3>3. CoverageEnd \in Int
        BY LastRow
      <3>. QED
        BY <3>1, <3>2, <3>3
    <2>4. anchor # NoTime
      BY <2>2 DEF HistoryOK, ScopesOK
    <2>5. PICK s \in scopes : FirstScope(s, scopes) /\ Resumes(s)
      BY <2>4, <1>2 DEF HistoryOK, Frontier
    <2>6. Initial = CHOOSE t \in scopes : FirstScope(t, scopes)
      BY <1>1 DEF Initial, FirstScope
    <2>. HIDE DEF scopes
    <2>7. Initial \in scopes /\ FirstScope(Initial, scopes)
      BY <2>5, <2>6
    <2>8. Initial = s
      <3>. SUFFICES ASSUME Initial # s PROVE FALSE
        OBVIOUS
      <3>1. s.from < Initial.from \/ (s.from = Initial.from /\ s.rev < Initial.rev)
        BY <2>5, <2>7 DEF FirstScope
      <3>2. Initial.from < s.from \/ (Initial.from = s.from /\ Initial.rev < s.rev)
        BY <2>5, <2>7 DEF FirstScope
      <3>3. s.from \in Int /\ s.rev \in Nat /\ Initial.from \in Int /\ Initial.rev \in Nat
        BY <2>3, <2>5, <2>7
      <3>. QED
        BY <3>1, <3>2, <3>3
    <2>9. PICK m \in Reliable :
            /\ m.rev = s.rev
            /\ End <= s.from
            /\ End = s.from \/ \A n \in Reliable : s.from <= n.at
            /\ s.from < m.at => s.from = anchor
            /\ \A n \in Reliable : m.rev < n.rev => s.from <= n.at
      BY <2>5 DEF Resumes
    <2>10. M = CHOOSE n \in Reliable : n.rev = s.rev
      BY <1>1, <1>2, <2>8 DEF FirstModel
    <2>11. M \in Reliable /\ M.rev = s.rev
      BY <2>9, <2>10
    <2>12. M = m
      BY <2>9, <2>11, <1>0, YoungerIsGreater
    <2>13. S = s.from
      BY <1>1, <1>2, <2>8 DEF StartOfCoverage
    <2>. QED
      BY <2>3, <2>4, <2>5, <2>9, <2>12, <2>13
  <1>3. CASE Planned = {} /\ Completed # {}
    <2>1. M = Oldest(Reliable) /\ S = M.at
      BY <1>1, <1>3 DEF FirstModel, StartOfCoverage
    <2>2. M \in Reliable /\ \A n \in Reliable : M.at <= n.at
      BY <2>1, <1>0, OldestOf
    <2>3. anchor # NoTime => End <= M.at
      BY <1>3, <2>2 DEF HistoryOK, Frontier
    <2>4. M.at \in Int /\ NoTime < M.at
      BY <2>2, <1>0, Constants
    <2>. QED
      BY <1>3, <2>1, <2>2, <2>3, <2>4
  <1>4. CASE Planned = {} /\ Completed = {}
    <2>. DEFINE first == rows[1].started
                known == {m \in Reliable : m.at <= first}
    <2>1. anchor = NoTime
      BY <1>4 DEF HistoryOK, Frontier
    <2>2. first \in Nat
      <3>1. 1 \in DOMAIN rows
        BY DEF RowsTyped
      <3>. QED
        BY <3>1, RowFields
    <2>3. Midnight(first) \in Int /\ Midnight(first) <= first /\ -Day < Midnight(first)
      BY <2>2, MidnightBounds
    <2>4. S = IF M.at > first THEN M.at ELSE Midnight(first) - Day - 1
      BY <1>1, <1>4 DEF StartOfCoverage
    <2>5. M = IF known = {} THEN Oldest(Reliable)
              ELSE CHOOSE m \in known : \A n \in known \ {m} : Younger(n, m)
      BY <1>1, <1>4 DEF FirstModel
    <2>6. CASE known = {}
      <3>1. M \in Reliable /\ \A n \in Reliable : M.at <= n.at
        BY <2>5, <2>6, <1>0, OldestOf
      <3>2. M.at \in Int /\ NoTime < M.at /\ M.at > first
        BY <3>1, <2>2, <2>6, <1>0, Constants
      <3>. QED
        BY <1>4, <2>1, <2>4, <3>1, <3>2
    <2>7. CASE known # {}
      <3>. HIDE DEF known
      <3>1. known \in SUBSET models /\ known \in SUBSET Reliable
        BY <1>0 DEF known
      <3>2. PICK m \in known : \A n \in known : n.rev <= m.rev
        BY <2>7, <3>1, YoungestOf
      <3>3. \A n \in known \ {m} : Younger(n, m)
        <4>. TAKE n \in known \ {m}
        <4>1. n \in models /\ m \in models /\ n.rev \in Nat /\ m.rev \in Nat /\ n.rev <= m.rev
          BY <3>1, <3>2, <1>0
        <4>. QED
          BY <4>1, YoungerIsGreater
      <3>4. M \in known /\ \A n \in known \ {M} : Younger(n, M)
        BY <2>5, <2>7, <3>3
      <3>5. M \in Reliable /\ M.at <= first
        BY <3>4 DEF known
      <3>6. S = Midnight(first) - Day - 1 /\ S \in Int /\ S <= first /\ NoTime < S
        <4>1. M.at \in Int /\ ~(M.at > first)
          BY <3>5, <1>0, <2>2
        <4>2. S = Midnight(first) - Day - 1
          BY <2>4, <4>1
        <4>. HIDE DEF S
        <4>. QED
          BY <4>2, <2>2, <2>3, Constants, MonitoringAssumption
      <3>7. ASSUME NEW n \in Reliable, M.rev < n.rev PROVE S <= n.at
        <4>1. n \notin known
          <5>. SUFFICES ASSUME n \in known PROVE FALSE
            OBVIOUS
          <5>1. n # M /\ M.rev \in Nat /\ n.rev \in Nat
            BY <3>5, <3>7, <1>0
          <5>2. n.rev < M.rev
            BY <5>1, <3>1, <3>4, YoungerIsGreater
          <5>. QED
            BY <5>1, <5>2, <3>7
        <4>2. n.at \in Int /\ first < n.at
          BY <4>1, <1>0, <2>2 DEF known
        <4>. HIDE DEF S
        <4>. QED
          BY <4>2, <3>6, <2>2
      <3>. QED
        BY <1>4, <2>1, <3>5, <3>6, <3>7
    <2>. QED
      BY <2>6, <2>7
  <1>. QED
    BY <1>2, <1>3, <1>4

\* A plan made while no completed check has a limit, when A is where the first
\* plan begins and E where the judged periods end.
FirstPlan(p, A, E) ==
    /\ p \subseteq Segment
    /\ \A s \in p : /\ s.model \in Reliable
                    /\ E <= s.from /\ s.from <= s.to /\ s.to <= CoverageEnd
                    /\ s.from < s.model.at => s.from = A
                    /\ \A n \in Reliable : ~(s.model.at < n.at /\ n.at < s.to)
    /\ \A s, t \in p : s = t \/ s.to <= t.from \/ t.to <= s.from
    /\ \A s \in p : \A x \in E + 1 .. s.to :
          (\E t \in p : Judge(t, x)) \/ \A n \in Reliable : x <= n.at
    /\ p = {} => Planned = {}
    /\ p # {} => /\ StartOfCoverage \in Int /\ StartOfCoverage <= CoverageEnd
                 /\ anchor = NoTime => NoTime < StartOfCoverage
                 /\ E <= StartOfCoverage
                 /\ \E s \in p :
                       /\ FirstScope(ScopeOf(s), {ScopeOf(t) : t \in p})
                       /\ s.from = StartOfCoverage
                       /\ E = s.from \/ \A n \in Reliable : s.from <= n.at
                       /\ s.from < s.model.at => s.from = A
                       /\ \A n \in Reliable : s.model.rev < n.rev => s.from <= n.at

\* A plan made while no completed check has a limit: it begins at the instant
\* that the first attempt has chosen, or chooses it.
LEMMA PlanFirst ==
    ASSUME ModelsTyped, ModelsInOrder, RowsTyped, RowsInOrder, HistoryOK,
           rows # <<>>, Last(rows).scopes = {},
           NEW b \in Int, \A m \in models : m.rev <= b,
           Usable = Reliable, Limits = {},
           NEW A, A = IF anchor = NoTime THEN StartOfCoverage ELSE anchor,
           NEW E, E = IF anchor = NoTime THEN StartOfCoverage ELSE End
    PROVE  FirstPlan(Segments, A, E)
  <1>. USE DEF FirstPlan
  <1>0. /\ Reliable \in SUBSET models /\ CoverageEnd \in Int
        /\ \A m \in Reliable : m.at \in Int /\ m.rev \in Nat /\ m \in Model
    BY ModelFields, LastRow DEF Reliable, ModelsTyped
  <1>1. CASE Reliable = {}
    <2>1. Segments = {}
      BY <1>1 DEF Segments
    <2>2. Planned = {}
      BY <1>1 DEF HistoryOK, ScopesOK, Planned
    <2>. QED
      BY <2>1, <2>2
  <1>2. CASE Reliable # {}
    <2>. DEFINE M == FirstModel
                S == StartOfCoverage
                ms == {m \in Reliable : m = M \/ M.rev < m.rev}
                f == [m \in ms |-> IF m = M THEN S ELSE Max({S, m.at})]
                p == PlanOf(ms, f)
    <2>1. /\ M \in Reliable /\ S \in Int
          /\ \A n \in Reliable : M.rev < n.rev => S <= n.at
          /\ anchor = NoTime => NoTime < S
          /\ anchor # NoTime => /\ End <= S
                                /\ End = S \/ \A n \in Reliable : S <= n.at
                                /\ S < M.at => S = anchor
          /\ Planned # {} => S <= CoverageEnd
      BY <1>2, FirstPlanBegins
    <2>2. E \in Int /\ E <= S /\ (E = S \/ \A n \in Reliable : S <= n.at) /\ (S < M.at => S = A)
      <3>1. End \in Int
        BY EndOf DEF HistoryOK, ModelsTyped
      <3>. HIDE DEF S, M
      <3>. QED
        BY <2>1, <3>1 DEF S
    <2>3. ms = {m \in Reliable : m = M \/ Younger(M, m)}
      BY <1>0, <2>1, YoungerIsGreater
    <2>4. M \in ms /\ ms \in SUBSET Reliable /\ \A m \in ms : m = M \/ M.rev < m.rev
      BY <2>1
    <2>5. ~(S > CoverageEnd) => Segments = p
      <3>. SUFFICES ASSUME ~(S > CoverageEnd) PROVE Segments = p
        OBVIOUS
      <3>1. Segments =
              LET From(m) == IF m # M THEN Max({S, m.at}) ELSE S
              IN  {[model |-> m, from |-> From(m), to |-> SegmentEnd(m, ms)] :
                     m \in {n \in ms : From(n) <= SegmentEnd(n, ms)}}
        BY <1>2, <2>3 DEF Segments
      <3>. QED
        BY <3>1 DEF PlanOf
    <2>6. S > CoverageEnd => Segments = {}
      BY DEF Segments
    <2>. HIDE DEF ms, M, S
    <2>7. f[M] = S /\ \A m \in ms : m # M => f[m] = m.at /\ S <= m.at
      <3>1. ASSUME NEW m \in ms, m # M PROVE f[m] = m.at /\ S <= m.at
        <4>1. S <= m.at /\ m.at \in Int
          BY <3>1, <2>1, <2>4, <1>0
        <4>2. Max({S, m.at}) = m.at
          BY <4>1, <2>1, MaxPair
        <4>. QED
          BY <3>1, <4>1, <4>2
      <3>. QED
        BY <3>1, <2>4
    <2>8. Begins(ms, f, S)
      <3>1. \A m \in ms : f[m] \in Int /\ S <= f[m] /\ (f[m] = S \/ f[m] = m.at)
        BY <2>1, <2>4, <2>7, <1>0
      <3>2. ASSUME NEW m \in ms, NEW n \in ms, m.rev < n.rev PROVE n.at <= f[n]
        <4>1. n # M
          BY <3>2, <2>4, <1>0
        <4>. QED
          BY <4>1, <2>4, <2>7, <1>0
      <3>3. f \in [ms -> Int]
        BY <3>1
      <3>. HIDE DEF f
      <3>. QED
        BY <3>1, <3>2, <3>3 DEF Begins
    <2>. HIDE DEF f, p
    <2>9. /\ p \subseteq Segment
          /\ \A s \in p :
                /\ s.model \in ms /\ s.from = f[s.model] /\ s.from \in Int /\ s.to \in Int
                /\ s.from <= s.to /\ s.to <= CoverageEnd
                /\ \A n \in ms : ~(s.model.at < n.at /\ n.at < s.to)
          /\ \A s, t \in p : s = t \/ s.to <= t.from \/ t.to <= s.from
          /\ \A x \in Int : S < x /\ x <= CoverageEnd =>
                (\E t \in p : Judge(t, x)) \/ \A m \in ms : x <= f[m]
          /\ p = {} => \A m \in ms : CoverageEnd < f[m]
      <3>1. S \in Int
        BY <2>1
      <3>2. ms \in SUBSET Reliable
        BY <2>4
      <3>3. /\ PlanOf(ms, f) \subseteq Segment
            /\ \A s \in PlanOf(ms, f) :
                 /\ s.model \in ms /\ s.from = f[s.model] /\ s.from \in Int /\ s.to \in Int
                 /\ s.from <= s.to /\ s.to <= CoverageEnd
                 /\ \A n \in ms : s.model.rev < n.rev => s.to <= n.at
                 /\ \A n \in ms : ~(s.model.at < n.at /\ n.at < s.to)
            /\ \A s, t \in PlanOf(ms, f) : s = t \/ s.to <= t.from \/ t.to <= s.from
            /\ \A x \in Int : S < x /\ x <= CoverageEnd =>
                 (\E t \in PlanOf(ms, f) : Judge(t, x)) \/ \A m \in ms : x <= f[m]
            /\ PlanOf(ms, f) = {} => \A m \in ms : CoverageEnd < f[m]
        BY <3>1, <3>2, <2>8, Tiling, Zenon
      <3>. QED
        BY <3>3 DEF p
    <2>10. ASSUME NEW s \in p
           PROVE  /\ s.model \in Reliable /\ S <= s.from /\ E <= s.from
                  /\ s.from < s.model.at => s.from = A
                  /\ \A n \in Reliable : ~(s.model.at < n.at /\ n.at < s.to)
      <3>1. s.model \in ms /\ s.from = f[s.model] /\ s.model \in Reliable
            /\ s.model.at \in Int /\ s.to \in Int /\ s.from \in Int
        BY <1>0, <2>4, <2>9
      <3>2. S <= s.from /\ E <= s.from
        BY <3>1, <2>1, <2>2, <2>7
      <3>3. s.from < s.model.at => s.from = A
        BY <3>1, <2>1, <2>2, <2>7
      <3>4. ASSUME NEW n \in Reliable, s.model.at < n.at, n.at < s.to PROVE FALSE
        <4>1. n \notin ms
          BY <3>4, <2>9
        <4>2. M.rev \in Nat /\ n.rev \in Nat /\ M \in models /\ n \in models /\ s.model \in models
              /\ M.at \in Int /\ n.at \in Int /\ s.model.rev \in Nat
          BY <3>1, <2>1, <1>0
        <4>3. n # M /\ ~(M.rev < n.rev)
          BY <4>1 DEF ms
        <4>4. n.rev < M.rev
          BY <4>2, <4>3, YoungerIsGreater
        <4>5. n.at <= M.at
          BY <4>2, <4>4, YoungerIsGreater
        <4>6. M.at <= s.model.at
          <5>1. CASE s.model = M
            BY <5>1, <4>2
          <5>2. CASE s.model # M
            BY <5>2, <3>1, <2>4, <4>2, YoungerIsGreater
          <5>. QED
            BY <5>1, <5>2
        <4>. QED
          BY <3>1, <3>4, <4>2, <4>5, <4>6
      <3>. QED
        BY <3>1, <3>2, <3>3, <3>4
    <2>11. ASSUME NEW s \in p, NEW x \in E + 1 .. s.to
           PROVE  (\E t \in p : Judge(t, x)) \/ \A n \in Reliable : x <= n.at
      <3>1. x \in Int /\ E < x /\ x <= CoverageEnd
        BY <1>0, <2>2, <2>9
      <3>2. CASE S < x
        <4>1. (\E t \in p : Judge(t, x)) \/ x <= f[M]
          BY <3>1, <3>2, <2>4, <2>9
        <4>. QED
          BY <4>1, <3>1, <3>2, <2>1, <2>7
      <3>3. CASE ~(S < x)
        BY <3>1, <3>3, <2>1, <2>2, <1>0
      <3>. QED
        BY <3>2, <3>3
    <2>12. CASE S > CoverageEnd
      <3>1. Planned = {}
        BY <2>1, <2>12, <1>0
      <3>. QED
        BY <3>1, <2>6, <2>12
    <2>13. CASE ~(S > CoverageEnd)
      <3>1. Segments = p /\ S <= CoverageEnd
        BY <2>1, <2>5, <2>13, <1>0
      <3>. DEFINE s == [model |-> M, from |-> f[M], to |-> SegmentEnd(M, ms)]
      <3>2. s \in p
        <4>1. S <= SegmentEnd(M, ms)
          <5>1. \A n \in ms : M.rev < n.rev => S <= n.at
            BY <2>1, <2>4
          <5>. QED
            BY <5>1, <3>1, <2>1, <2>4, <1>0, SegmentEnds
        <4>. QED
          BY <4>1, <2>4, <2>7 DEF p, PlanOf
      <3>3. s.model = M /\ s.from = S
        BY <2>7
      <3>. HIDE DEF s
      <3>4. FirstScope(ScopeOf(s), {ScopeOf(t) : t \in p})
        <4>. SUFFICES ASSUME NEW t \in p, ScopeOf(t) # ScopeOf(s)
                      PROVE  \/ ScopeOf(s).from < ScopeOf(t).from
                             \/ /\ ScopeOf(s).from = ScopeOf(t).from
                                /\ ScopeOf(s).rev < ScopeOf(t).rev
          BY DEF FirstScope
        <4>1. /\ ScopeOf(s).from = S /\ ScopeOf(s).rev = M.rev
              /\ ScopeOf(t).from = t.from /\ ScopeOf(t).rev = t.model.rev
          BY <3>3 DEF ScopeOf
        <4>2. S <= t.from /\ t.from \in Int /\ t.model \in ms
          BY <2>9, <2>10
        <4>3. t.model # M
          <5>. SUFFICES ASSUME t.model = M PROVE FALSE
            OBVIOUS
          <5>1. t = s
            <6>1. \E m \in ms : t = [model |-> m, from |-> f[m], to |-> SegmentEnd(m, ms)]
              BY DEF p, PlanOf
            <6>. QED
              BY <6>1 DEF s
          <5>. QED
            BY <5>1
        <4>4. M.rev < t.model.rev
          BY <4>2, <4>3, <2>4
        <4>. QED
          BY <4>1, <4>2, <4>4, <2>1
      <3>5. /\ s.from < s.model.at => s.from = A
            /\ \A n \in Reliable : s.model.rev < n.rev => s.from <= n.at
            /\ E = s.from \/ \A n \in Reliable : s.from <= n.at
        BY <3>3, <2>1, <2>2
      <3>6. /\ \A t \in p : /\ t.model \in Reliable
                            /\ E <= t.from /\ t.from <= t.to /\ t.to <= CoverageEnd
                            /\ t.from < t.model.at => t.from = A
                            /\ \A n \in Reliable : ~(t.model.at < n.at /\ n.at < t.to)
            /\ \A t, u \in p : t = u \/ t.to <= u.from \/ u.to <= t.from
            /\ p \subseteq Segment
        BY <2>9, <2>10
      <3>7. \E t \in p : /\ FirstScope(ScopeOf(t), {ScopeOf(u) : u \in p})
                         /\ t.from = S
                         /\ E = t.from \/ \A n \in Reliable : t.from <= n.at
                         /\ t.from < t.model.at => t.from = A
                         /\ \A n \in Reliable : t.model.rev < n.rev => t.from <= n.at
        BY <3>2, <3>3, <3>4, <3>5
      <3>. QED
        BY <3>1, <3>2, <3>6, <3>7, <2>1, <2>2, <2>11 DEF S
    <2>. QED
      BY <2>12, <2>13
  <1>. QED
    BY <1>1, <1>2

\* Recording the scopes of a plan in a row.
LEMMA RowPlanned ==
    ASSUME NEW r \in CheckRow, NEW Q \in SUBSET Scope
    PROVE  LET q == [r EXCEPT !.scopes = Q]
           IN  /\ q \in CheckRow /\ q.started = r.started /\ q.scopes = Q
               /\ q.status = r.status /\ q.finished = r.finished
  BY DEF CheckRow

\* PlanMonitoringCheck changes the scopes of the running row only.
LEMMA PlanRows ==
    ASSUME RowsTyped, RowsInOrder, Running, UNCHANGED clock,
           NEW Q \in SUBSET Scope,
           rows' = [rows EXCEPT ![Len(rows)].scopes = Q]
    PROVE  /\ RowsTyped' /\ RowsInOrder' /\ Running' /\ rows # <<>> /\ rows' # <<>>
           /\ Latest' = Latest /\ CoverageEnd' = CoverageEnd /\ Last(rows').scopes = Q
           /\ DOMAIN rows' = DOMAIN rows /\ Len(rows') = Len(rows)
           /\ rows'[Len(rows)].scopes = Q /\ Len(rows) \in DOMAIN rows
           /\ \A i \in DOMAIN rows :
                 /\ rows'[i].started = rows[i].started /\ rows'[i].status = rows[i].status
                 /\ i # Len(rows) => rows'[i].scopes = rows[i].scopes
           /\ Completed' = Completed /\ Len(rows) \notin Completed /\ Limits' = Limits
  <1>. DEFINE n == Len(rows)
              r == [rows[n] EXCEPT !.scopes = Q]
  <1>1. /\ rows \in Seq(CheckRow) /\ rows # <<>> /\ n \in Nat /\ n >= 1 /\ n \in DOMAIN rows
        /\ rows[n].status = "running" /\ rows[n] \in CheckRow
    BY DEF RowsTyped, Running, Last
  <1>2. rows' = [rows EXCEPT ![n] = r]
    BY <1>1 DEF CheckRow
  <1>3. /\ r \in CheckRow /\ r.started = rows[n].started /\ r.scopes = Q
        /\ r.status = rows[n].status /\ r.finished = rows[n].finished
    BY <1>1, RowPlanned
  <1>. HIDE DEF r
  <1>4. /\ rows' \in Seq(CheckRow) /\ DOMAIN rows' = DOMAIN rows /\ Len(rows') = n
        /\ rows'[n] = r /\ \A i \in DOMAIN rows : i # n => rows'[i] = rows[i]
    BY <1>1, <1>2, <1>3
  <1>5. \A i \in DOMAIN rows :
            /\ rows'[i].started = rows[i].started /\ rows'[i].status = rows[i].status
            /\ rows'[i].finished = rows[i].finished
            /\ i # n => rows'[i].scopes = rows[i].scopes
    BY <1>3, <1>4
  <1>6. RowsTyped'
    BY <1>4, <1>5 DEF RowsTyped
  <1>7. RowsInOrder'
    BY <1>4, <1>5 DEF RowsInOrder
  <1>8. Running' /\ rows' # <<>> /\ Latest' = Latest /\ Last(rows').scopes = Q
    BY <1>1, <1>3, <1>4 DEF Running, Latest, Last
  <1>9. CoverageEnd' = CoverageEnd
    BY <1>8 DEF CoverageEnd, Latest
  <1>10. Completed' = Completed /\ n \notin Completed
    BY <1>1, <1>4, <1>5 DEF Completed
  <1>11. \A i \in Completed : rows'[i].scopes = rows[i].scopes
    BY <1>5, <1>10 DEF Completed
  <1>12. Limits' = Limits
    BY <1>10, <1>11 DEF Limits
  <1>. QED
    BY <1>1, <1>3, <1>4, <1>5, <1>6, <1>7, <1>8, <1>9, <1>10, <1>12

\* What a plan is, whatever was completed before.
LEMMA PlanMade ==
    ASSUME ModelsTyped, ModelsInOrder, RowsTyped, RowsInOrder, HistoryOK,
           rows # <<>>, Last(rows).scopes = {},
           NEW b \in Int, \A m \in models : m.rev <= b, Usable = Reliable,
           judged' = judged,
           anchor' = IF anchor = NoTime /\ Segments # {} THEN StartOfCoverage ELSE anchor
    PROVE  LET p == Segments
           IN  /\ p \subseteq Segment
               /\ \A s \in p : /\ s.model \in Reliable
                               /\ End' <= s.from /\ s.from <= s.to /\ s.to <= CoverageEnd
                               /\ \A l \in Limits : l <= s.from
                               /\ s.from < s.model.at => s.from = anchor'
                               /\ \A n \in Reliable : ~(s.model.at < n.at /\ n.at < s.to)
               /\ \A s, t \in p : s = t \/ s.to <= t.from \/ t.to <= s.from
               /\ \A s \in p : \A x \in End' + 1 .. s.to :
                     (\E t \in p : Judge(t, x)) \/ \A n \in Reliable : x <= n.at
               /\ p = {} => /\ Limits = {} => Planned = {}
                            /\ Limits # {} => \A n \in Reliable : CoverageEnd < n.at
               /\ Limits # {} => \A s \in p : s.model.at <= s.from
               /\ p # {} => anchor' # NoTime
               /\ anchor # NoTime => anchor' = anchor /\ End' = End
               /\ anchor = NoTime /\ p # {} =>
                     /\ anchor' = StartOfCoverage /\ anchor' \in Int /\ anchor' <= CoverageEnd
                     /\ End' = anchor'
               /\ Limits = {} /\ p # {} =>
                     \E s \in p : /\ FirstScope(ScopeOf(s), {ScopeOf(t) : t \in p})
                                  /\ End' = s.from \/ \A n \in Reliable : s.from <= n.at
                                  /\ s.from < s.model.at => s.from = anchor'
                                  /\ \A n \in Reliable : s.model.rev < n.rev => s.from <= n.at
  <1>1. anchor # NoTime => anchor' = anchor /\ End' = End
    BY DEF End
  <1>2. CASE Limits # {}
    <2>1. anchor # NoTime
      BY <1>2, LimitBounds DEF HistoryOK
    <2>2. anchor' = anchor /\ End' = End
      BY <1>1, <2>1
    <2>. QED
      BY <1>2, <2>1, <2>2, PlanAfterLimits DEF InForce
  <1>3. CASE Limits = {}
    <2>. DEFINE A == IF anchor = NoTime THEN StartOfCoverage ELSE anchor
                E == IF anchor = NoTime THEN StartOfCoverage ELSE End
                p == Segments
    <2>1. FirstPlan(p, A, E)
      <3>1. /\ A = IF anchor = NoTime THEN StartOfCoverage ELSE anchor
            /\ E = IF anchor = NoTime THEN StartOfCoverage ELSE End
        OBVIOUS
      <3>. HIDE DEF A, E
      <3>. QED
        BY <1>3, <3>1, PlanFirst
    <2>. USE DEF FirstPlan
    <2>2. CASE p = {}
      BY <1>1, <1>3, <2>1, <2>2
    <2>3. CASE p # {}
      <3>1. anchor' = A
        BY <2>3
      <3>2. End' = E
        <4>1. CASE anchor # NoTime
          BY <4>1, <1>1
        <4>2. CASE anchor = NoTime
          <5>1. judged = {} /\ StartOfCoverage \in Int /\ anchor' = StartOfCoverage
            BY <4>2, <2>1, <2>3 DEF HistoryOK, JudgedTyped
          <5>2. End' = Max({anchor', anchor'})
            <6>1. {anchor'} \cup {c.to : c \in judged'} = {anchor', anchor'}
              BY <5>1
            <6>. QED
              BY <6>1 DEF End
          <5>. QED
            BY <4>2, <5>1, <5>2, MaxPair
        <4>. QED
          BY <4>1, <4>2
      <3>3. anchor' # NoTime
        BY <2>1, <2>3, <3>1, Constants
      <3>4. anchor = NoTime => /\ anchor' = StartOfCoverage /\ anchor' \in Int
                               /\ anchor' <= CoverageEnd /\ End' = anchor'
        BY <2>1, <2>3, <3>1, <3>2
      <3>. HIDE DEF A, E, p
      <3>5. \E s \in p : /\ FirstScope(ScopeOf(s), {ScopeOf(t) : t \in p})
                         /\ End' = s.from \/ \A n \in Reliable : s.from <= n.at
                         /\ s.from < s.model.at => s.from = anchor'
                         /\ \A n \in Reliable : s.model.rev < n.rev => s.from <= n.at
        BY <2>1, <2>3, <3>1, <3>2
      <3>6. \A s \in p : \A l \in Limits : l <= s.from
        BY <1>3
      <3>. QED
        BY <1>1, <1>3, <2>1, <2>3, <3>1, <3>2, <3>3, <3>4, <3>5, <3>6 DEF p
    <2>. QED
      BY <2>2, <2>3
  <1>. QED
    BY <1>2, <1>3

\* PlanMonitoringCheck keeps what is known of the history, and its plan fits it.
LEMMA PlanStep ==
    ASSUME ModelsTyped, ModelsInOrder, RowsTyped, RowsInOrder, HistoryOK,
           Last(rows).scopes = {},
           NEW b \in Int, \A m \in models : m.rev <= b, Usable = Reliable, Plan
    PROVE  /\ RowsTyped' /\ RowsInOrder' /\ HistoryOK' /\ PlanFits(plan)'
           /\ Running' /\ rows # <<>> /\ rows' # <<>> /\ Latest' = Latest
  <1>. DEFINE p == Segments
              Q == {ScopeOf(s) : s \in p}
              n == Len(rows)
  <1>0. /\ Running /\ plan' = p /\ judged' = judged /\ Reliable' = Reliable
        /\ anchor' = (IF anchor = NoTime /\ p # {} THEN StartOfCoverage ELSE anchor)
        /\ clock' = clock /\ clock \in Nat
        /\ rows' = [rows EXCEPT ![Len(rows)].scopes = Q]
    BY DEF Plan, ScopeOf, Reliable, ModelsTyped
  <1>1. rows # <<>> /\ n \in Nat
    BY <1>0 DEF Running, RowsTyped
  <1>2. /\ p \subseteq Segment
        /\ \A s \in p : /\ s.model \in Reliable
                        /\ End' <= s.from /\ s.from <= s.to /\ s.to <= CoverageEnd
                        /\ \A l \in Limits : l <= s.from
                        /\ s.from < s.model.at => s.from = anchor'
                        /\ \A m \in Reliable : ~(s.model.at < m.at /\ m.at < s.to)
        /\ \A s, t \in p : s = t \/ s.to <= t.from \/ t.to <= s.from
        /\ \A s \in p : \A x \in End' + 1 .. s.to :
              (\E t \in p : Judge(t, x)) \/ \A m \in Reliable : x <= m.at
        /\ p = {} => /\ Limits = {} => Planned = {}
                     /\ Limits # {} => \A m \in Reliable : CoverageEnd < m.at
        /\ Limits # {} => \A s \in p : s.model.at <= s.from
        /\ p # {} => anchor' # NoTime
        /\ anchor # NoTime => anchor' = anchor /\ End' = End
        /\ anchor = NoTime /\ p # {} =>
              /\ anchor' = StartOfCoverage /\ anchor' \in Int /\ anchor' <= CoverageEnd
              /\ End' = anchor'
        /\ Limits = {} /\ p # {} =>
              \E s \in p : /\ FirstScope(ScopeOf(s), {ScopeOf(t) : t \in p})
                           /\ End' = s.from \/ \A m \in Reliable : s.from <= m.at
                           /\ s.from < s.model.at => s.from = anchor'
                           /\ \A m \in Reliable : s.model.rev < m.rev => s.from <= m.at
    BY <1>0, <1>1, PlanMade, Zenon
  <1>. HIDE DEF p
  <1>3. Q \in SUBSET Scope /\ (Q = {} <=> p = {}) /\ \A q \in Q : \E s \in p : q = ScopeOf(s)
    <2>1. \A s \in p : ScopeOf(s) \in Scope
      BY <1>2 DEF ScopeOf, Scope, Segment, Model
    <2>. QED
      BY <2>1
  <1>31. \A s : ScopeOf(s).rev = s.model.rev /\ ScopeOf(s).from = s.from /\ ScopeOf(s).to = s.to
    BY DEF ScopeOf
  <1>4. /\ RowsTyped' /\ RowsInOrder' /\ Running' /\ rows # <<>> /\ rows' # <<>>
        /\ Latest' = Latest /\ CoverageEnd' = CoverageEnd /\ Last(rows').scopes = Q
        /\ DOMAIN rows' = DOMAIN rows /\ Len(rows') = n
        /\ rows'[n].scopes = Q /\ n \in DOMAIN rows
        /\ \A i \in DOMAIN rows :
              /\ rows'[i].started = rows[i].started /\ rows'[i].status = rows[i].status
              /\ i # n => rows'[i].scopes = rows[i].scopes
        /\ Completed' = Completed /\ n \notin Completed /\ Limits' = Limits
    <2>. HIDE DEF Q
    <2>. QED
      BY <1>0, <1>3, PlanRows
  <1>5. rows[n].scopes = {}
    BY DEF Last
  <1>. HIDE DEF n
  <1>6. Planned' = Planned \cup (IF p = {} THEN {} ELSE {n}) /\ n \notin Planned
        /\ \A i \in Planned : i \in Nat /\ i < n
    <2>1. \A i \in DOMAIN rows : i \in Nat /\ i <= n
      BY DEF RowsTyped, n
    <2>2. n \notin Planned /\ \A i \in Planned : i \in DOMAIN rows /\ i # n
      BY <1>5 DEF Planned
    <2>3. Planned' = Planned \cup (IF p = {} THEN {} ELSE {n})
      <3>. HIDE DEF Q
      <3>. QED
        BY <1>3, <1>4, <1>5 DEF Planned
    <2>. QED
      BY <2>1, <2>2, <2>3, <1>1
  <1>7. /\ \A m \in Reliable : m.rev \in Nat /\ m.at \in Int /\ m \in models
        /\ CoverageEnd \in Int /\ CoverageEnd <= clock /\ CoverageEnd = rows[n].started - Tolerance
    BY <1>0, <1>1, ModelFields, LastRow, Constants DEF Reliable, n
  <1>8. ScopesOK'
    <2>. SUFFICES ASSUME NEW r \in DOMAIN rows, NEW s \in rows'[r].scopes
                  PROVE  /\ s.from <= s.to /\ s.to <= rows[r].started - Tolerance
                         /\ anchor' # NoTime
                         /\ \E m \in Reliable : m.rev = s.rev
      BY <1>0, <1>4 DEF ScopesOK
    <2>1. CASE r # n
      <3>1. s \in rows[r].scopes
        BY <2>1, <1>4
      <3>. QED
        BY <3>1, <1>2 DEF HistoryOK, ScopesOK
    <2>2. CASE r = n
      <3>1. PICK t \in p : s = ScopeOf(t)
        BY <2>2, <1>3, <1>4
      <3>2. s.rev = t.model.rev /\ s.from = t.from /\ s.to = t.to
        BY <3>1, <1>31
      <3>3. t.model \in Reliable /\ t.from <= t.to /\ t.to <= CoverageEnd /\ anchor' # NoTime
        BY <3>1, <1>2
      <3>. QED
        BY <3>2, <3>3, <1>7, <2>2
    <2>. QED
      BY <2>1, <2>2
  <1>9. ScopesLater'
    <2>. SUFFICES ASSUME NEW i \in DOMAIN rows, NEW j \in DOMAIN rows, i < j,
                         i \in Completed, rows'[i].scopes # {},
                         NEW s \in rows'[j].scopes, NEW m \in Reliable, m.rev = s.rev
                  PROVE  m.at <= s.from
      BY <1>0, <1>4 DEF ScopesLater
    <2>1. i # n /\ rows[i].scopes # {}
      BY <1>4
    <2>2. CASE j # n
      <3>1. s \in rows[j].scopes
        BY <2>2, <1>4
      <3>. QED
        BY <2>1, <3>1 DEF HistoryOK, ScopesLater
    <2>3. CASE j = n
      <3>1. PICK t \in p : s = ScopeOf(t)
        BY <2>3, <1>3, <1>4
      <3>2. s.rev = t.model.rev /\ s.from = t.from
        BY <3>1, <1>31
      <3>3. t.model \in Reliable /\ t.model \in models /\ m \in models
        BY <3>1, <1>2, <1>7
      <3>4. t.model = m
        BY <3>2, <3>3, YoungerIsGreater
      <3>5. Limits # {}
        BY <2>1, LimitIn
      <3>. QED
        BY <3>1, <3>2, <3>4, <3>5, <1>2
    <2>. QED
      BY <2>2, <2>3
  <1>10. anchor = NoTime => judged = {}
    BY DEF HistoryOK, JudgedTyped
  <1>11. JudgedTyped'
    <2>1. CASE anchor # NoTime
      BY <2>1, <1>0, <1>2, <1>4 DEF HistoryOK, JudgedTyped
    <2>2. CASE anchor = NoTime /\ p = {}
      BY <2>2, <1>0, <1>4 DEF HistoryOK, JudgedTyped
    <2>3. CASE anchor = NoTime /\ p # {}
      <3>1. anchor' \in Int /\ anchor' <= clock' /\ judged' = {}
        BY <2>3, <1>0, <1>2, <1>7, <1>10
      <3>. QED
        BY <2>3, <3>1, <1>2, <1>4 DEF HistoryOK, JudgedTyped
    <2>. QED
      BY <2>1, <2>2, <2>3
  <1>12. Tiles'
    <2>1. CASE anchor # NoTime
      BY <2>1, <1>0, <1>2 DEF HistoryOK, Tiles, Judge
    <2>2. CASE anchor = NoTime
      <3>1. judged' = {} /\ anchor' \in Int /\ End' = anchor'
        <4>1. judged' = {}
          BY <2>2, <1>0, <1>10
        <4>2. anchor' \in Int
          BY <1>11 DEF JudgedTyped
        <4>3. {anchor'} \cup {c.to : c \in judged'} = {anchor', anchor'}
          BY <4>1
        <4>4. End' = Max({anchor', anchor'})
          BY <4>3 DEF End
        <4>. QED
          BY <4>1, <4>2, <4>4, MaxPair
      <3>. QED
        BY <3>1 DEF Tiles
    <2>. QED
      BY <2>1, <2>2
  <1>13. \A c \in judged' : InForce(c)'
    BY <1>0, <1>2, <1>10 DEF HistoryOK, InForce
  <1>14. Frontier'
    <2>. SUFFICES ASSUME anchor' # NoTime
                  PROVE  /\ Limits # {} =>
                              \/ Max(Limits) = End'
                              \/ \A m \in Reliable : Max(Limits) <= m.at /\ End' <= m.at
                         /\ Limits = {} /\ Planned' # {} =>
                              \E s \in rows'[Min(Planned')].scopes :
                                 /\ FirstScope(s, rows'[Min(Planned')].scopes)
                                 /\ Resumes(s)'
                         /\ Limits = {} /\ Planned' = {} =>
                              /\ Completed # {} /\ Reliable # {}
                              /\ \A m \in Reliable : End' <= m.at
      BY <1>0, <1>4 DEF Frontier, FirstScope
    <2>1. CASE Limits # {}
      <3>1. anchor # NoTime
        BY <1>1, <2>1, LimitBounds DEF HistoryOK
      <3>. QED
        BY <2>1, <3>1, <1>2 DEF HistoryOK, Frontier
    <2>2. CASE Limits = {} /\ Planned # {}
      <3>1. Planned \in SUBSET Nat /\ Planned' \in SUBSET Nat /\ Planned' # {}
        BY <2>2, <1>1, <1>6 DEF n
      <3>2. Min(Planned) \in Planned /\ \A x \in Planned : Min(Planned) <= x
        BY <2>2, <3>1, MinOf
      <3>3. Min(Planned') \in Planned' /\ \A x \in Planned' : Min(Planned') <= x
        BY <3>1, MinOf
      <3>4. Min(Planned') = Min(Planned)
        <4>1. Min(Planned) \in Planned' /\ Min(Planned) < n /\ Min(Planned) \in Nat
          BY <3>2, <1>6
        <4>2. Min(Planned') <= Min(Planned) /\ Min(Planned') \in Nat
          BY <3>1, <3>3, <4>1
        <4>3. Min(Planned') # n
          BY <4>1, <4>2
        <4>4. Min(Planned') \in Planned
          BY <4>3, <3>3, <1>6
        <4>5. Min(Planned) <= Min(Planned')
          BY <4>4, <3>2
        <4>. QED
          BY <4>1, <4>2, <4>5
      <3>5. Min(Planned) \in DOMAIN rows /\ Min(Planned) # n /\ rows[Min(Planned)].scopes # {}
        BY <3>2, <1>6 DEF Planned
      <3>6. rows'[Min(Planned')].scopes = rows[Min(Planned)].scopes
        BY <3>4, <3>5, <1>4
      <3>7. anchor # NoTime
        BY <3>5 DEF HistoryOK, ScopesOK
      <3>8. anchor' = anchor /\ End' = End
        BY <3>7, <1>2
      <3>9. \A s : Resumes(s) => Resumes(s)'
        BY <3>8, <1>0 DEF Resumes
      <3>10. \E s \in rows[Min(Planned)].scopes :
                FirstScope(s, rows[Min(Planned)].scopes) /\ Resumes(s)
        BY <2>2, <3>7 DEF HistoryOK, Frontier
      <3>. QED
        BY <2>2, <3>6, <3>9, <3>10, <1>6
    <2>3. CASE Limits = {} /\ Planned = {} /\ p = {}
      <3>1. anchor # NoTime
        BY <2>3, <1>0
      <3>2. Planned' = {}
        BY <2>3, <1>6
      <3>. QED
        BY <2>3, <3>1, <3>2, <1>2 DEF HistoryOK, Frontier
    <2>4. CASE Limits = {} /\ Planned = {} /\ p # {}
      <3>1. Planned' = {n} /\ n \in Nat
        BY <2>4, <1>1, <1>6 DEF n
      <3>2. Min(Planned') = n
        <4>1. Min({n, n}) = n
          BY <3>1, MaxPair
        <4>. QED
          BY <3>1, <4>1
      <3>3. PICK s \in p : /\ FirstScope(ScopeOf(s), {ScopeOf(t) : t \in p})
                           /\ End' = s.from \/ \A m \in Reliable : s.from <= m.at
                           /\ s.from < s.model.at => s.from = anchor'
                           /\ \A m \in Reliable : s.model.rev < m.rev => s.from <= m.at
        BY <2>4, <1>2
      <3>4. ScopeOf(s) \in Q /\ FirstScope(ScopeOf(s), Q)
        BY <3>3
      <3>5. Resumes(ScopeOf(s))'
        <4>1. s.model \in Reliable' /\ End' <= s.from
          BY <1>0, <1>2
        <4>. QED
          BY <4>1, <3>3, <1>0, <1>31 DEF Resumes
      <3>. HIDE DEF Q
      <3>. QED
        BY <2>4, <3>2, <3>4, <3>5, <1>4, <3>1
    <2>. QED
      BY <2>1, <2>2, <2>3, <2>4
  <1>15. PlanFits(plan)'
    <2>1. \A s \in p : InForce(s)'
      BY <1>0, <1>2 DEF InForce
    <2>2. p = {} => Planned' = Planned
      BY <1>6
    <2>. QED
      BY <2>1, <2>2, <1>0, <1>2, <1>4 DEF PlanFits, Judge, ScopeOf
  <1>. QED
    BY <1>4, <1>8, <1>9, <1>11, <1>12, <1>13, <1>14, <1>15 DEF HistoryOK

-----------------------------------------------------------------------------
(* Completion and cleanup.                                                 *)

\* The rows of before that are left, in their order; the last one is closed.
Survive(pick) ==
    LET k == Len(rows')
        n == Len(rows)
        Old(r) == rows[r].finished # NoTime /\ rows[r].finished < clock - Retained
    IN  /\ k \in Nat /\ k >= 1 /\ DOMAIN rows' = 1 .. k /\ rows' \in Seq(CheckRow)
        /\ pick \in [1 .. k -> DOMAIN rows] /\ pick[k] = n
        /\ \A i, j \in 1 .. k : i < j => pick[i] < pick[j]
        /\ \A i \in 1 .. k :
              /\ rows'[i].started = rows[pick[i]].started
              /\ rows'[i].scopes = rows[pick[i]].scopes
              /\ rows'[i].status = "completed" <=> pick[i] \in Completed \cup {n}
              /\ pick[i] # n => rows'[i] = rows[pick[i]]
              /\ pick[i] \in Completed \cup {n} \/ ~Old(pick[i])
        /\ rows'[k].status = "completed" /\ rows'[k].finished = clock
        /\ \A r \in DOMAIN rows : (\E i \in 1 .. k : pick[i] = r) \/ (r # n /\ Old(r))

\* The rows that completion leaves are some of the earlier ones.
LEMMA KeptRows ==
    ASSUME ModelsTyped, RowsTyped, RowsInOrder, Running, NEW rev,
           rows' = Kept([rows EXCEPT ![Len(rows)].status = "completed",
                                     ![Len(rows)].finished = clock], rev)
    PROVE  \E pick : Survive(pick)
  <1>. DEFINE n == Len(rows)
              all == [rows EXCEPT ![Len(rows)].status = "completed",
                                  ![Len(rows)].finished = clock]
              done == {r \in DOMAIN all : all[r].status = "completed"}
              own == UNION {{[row |-> r, to |-> s.to] :
                               s \in {s \in all[r].scopes : s.rev = rev}} : r \in done}
              last == {w.row : w \in {w \in own : \A v \in own : v.to <= w.to}}
              Old(r) == all[r].finished # NoTime /\ all[r].finished < clock - Retained
              keep == {r \in DOMAIN all : ~Old(r) \/ r \in last}
              r0 == [rows[n] EXCEPT !.status = "completed", !.finished = clock]
              k == Cardinality(keep)
              pick == [i \in 1 .. k |-> CHOOSE r \in keep : Cardinality({q \in keep : q <= r}) = i]
  <1>0. /\ rows \in Seq(CheckRow) /\ rows # <<>> /\ n \in Nat /\ n >= 1 /\ n \in DOMAIN rows
        /\ rows[n].status = "running" /\ rows[n] \in CheckRow /\ clock \in Nat /\ DOMAIN rows = 1 .. n
    <2>. HIDE DEF all, done, own, last, Old, keep, r0, k, pick
    <2>1. /\ rows \in Seq(CheckRow) /\ rows # <<>> /\ clock \in Nat
          /\ Last(rows).status = "running"
      BY DEF RowsTyped, Running, ModelsTyped
    <2>2. n \in Nat /\ n >= 1 /\ DOMAIN rows = 1 .. n
      BY <2>1
    <2>3. n \in DOMAIN rows /\ rows[n] \in CheckRow /\ rows[n].status = "running"
      BY <2>1, <2>2 DEF Last
    <2>. QED
      BY <2>1, <2>2, <2>3
  <1>1. rows' = [i \in 1 .. k |-> all[pick[i]]]
    <2>1. rows' = [i \in 1 .. k |-> all[CHOOSE r \in keep : Cardinality({q \in keep : q <= r}) = i]]
      BY Zenon DEF Kept
    <2>. HIDE DEF keep, all, k
    <2>. QED
      BY <2>1, Zenon
  <1>2. all = [rows EXCEPT ![n] = r0]
    BY <1>0 DEF CheckRow
  <1>3. /\ r0 \in CheckRow /\ r0.started = rows[n].started /\ r0.scopes = rows[n].scopes
        /\ r0.status = "completed" /\ r0.finished = clock
    BY <1>0, RowClosed
  <1>4. \A w \in own : w.row \in done
    <2>. HIDE DEF done, all
    <2>. QED
      OBVIOUS
  <1>5. \A r \in last : r \in done
    <2>. HIDE DEF done, own
    <2>. QED
      BY <1>4
  <1>. HIDE DEF r0, last, all
  <1>6. /\ all \in Seq(CheckRow) /\ DOMAIN all = 1 .. n
        /\ all[n] = r0 /\ \A i \in 1 .. n : i # n => all[i] = rows[i]
    BY <1>0, <1>2, <1>3
  <1>7. \A r \in 1 .. n : r \in done <=> r \in Completed \cup {n}
    BY <1>0, <1>3, <1>6 DEF Completed
  <1>8. n \in keep /\ keep \in SUBSET (1 .. n)
    <2>1. ~Old(n)
      BY <1>0, <1>3, <1>6, Constants
    <2>2. n \in DOMAIN all
      BY <1>0, <1>6
    <2>. HIDE DEF Old
    <2>. QED
      BY <2>1, <2>2, <1>6
  <1>9. /\ \A r \in keep : r \in Completed \cup {n} \/ ~Old(r)
        /\ \A r \in 1 .. n : r \in keep \/ Old(r)
    <2>. HIDE DEF Old, done
    <2>. QED
      BY <1>5, <1>6, <1>7
  <1>. HIDE DEF keep, done
  <1>10. /\ k \in Nat /\ k > 0
         /\ pick \in [1 .. k -> keep] /\ pick[k] = n
         /\ \A i, j \in 1 .. k : i < j => pick[i] < pick[j]
         /\ \A r \in keep : \E i \in 1 .. k : pick[i] = r
    BY <1>0, <1>8, Picks
  <1>. HIDE DEF k, pick
  <1>11. \A i \in 1 .. k : pick[i] \in keep /\ pick[i] \in 1 .. n
    BY <1>8, <1>10
  <1>12. /\ rows' \in Seq(CheckRow) /\ Len(rows') = k /\ DOMAIN rows' = 1 .. k
         /\ \A i \in 1 .. k : rows'[i] = all[pick[i]]
    <2>1. \A i \in 1 .. k : all[pick[i]] \in CheckRow
      BY <1>6, <1>11
    <2>2. \A i \in 1 .. k : rows'[i] = all[pick[i]] /\ rows'[i] \in CheckRow
      BY <2>1, <1>1
    <2>3. DOMAIN rows' = 1 .. k /\ rows' \in [1 .. k -> CheckRow]
      BY <2>1, <1>1
    <2>4. k \in Nat
      BY <1>10
    <2>5. rows' \in Seq(CheckRow)
      <3>1. \E j \in Nat : rows' \in [1 .. j -> CheckRow]
        BY <2>3, <2>4
      <3>. QED
        BY <3>1, SeqDef
    <2>6. Len(rows') = k
      BY <2>3, <2>4, <2>5
    <2>. QED
      BY <2>2, <2>3, <2>5, <2>6
  <1>13. ASSUME NEW i \in 1 .. k
         PROVE  /\ rows'[i].started = rows[pick[i]].started
                /\ rows'[i].scopes = rows[pick[i]].scopes
                /\ rows'[i].status = "completed" <=> pick[i] \in Completed \cup {n}
                /\ pick[i] # n => rows'[i] = rows[pick[i]]
                /\ pick[i] \in Completed \cup {n} \/
                     ~(rows[pick[i]].finished # NoTime /\ rows[pick[i]].finished < clock - Retained)
    <2>1. pick[i] \in keep /\ pick[i] \in 1 .. n /\ rows'[i] = all[pick[i]]
      BY <1>11, <1>12
    <2>2. CASE pick[i] = n
      BY <2>1, <2>2, <1>3, <1>6
    <2>3. CASE pick[i] # n
      <3>1. rows'[i] = rows[pick[i]] /\ all[pick[i]] = rows[pick[i]]
        BY <2>1, <2>3, <1>6
      <3>2. pick[i] \in Completed \/ ~Old(pick[i])
        BY <2>1, <2>3, <1>9
      <3>3. rows'[i].status = "completed" <=> pick[i] \in Completed \cup {n}
        BY <2>1, <2>3, <3>1, <1>0 DEF Completed
      <3>. QED
        BY <3>1, <3>2, <3>3
    <2>. QED
      BY <2>2, <2>3
  <1>14. rows'[k].status = "completed" /\ rows'[k].finished = clock
    <2>1. k \in 1 .. k /\ pick[k] = n
      BY <1>10
    <2>2. rows'[k] = all[pick[k]]
      BY <2>1, <1>12
    <2>. QED
      BY <2>1, <2>2, <1>3, <1>6
  <1>15. ASSUME NEW r \in DOMAIN rows
         PROVE  \/ \E i \in 1 .. k : pick[i] = r
                \/ r # n /\ rows[r].finished # NoTime /\ rows[r].finished < clock - Retained
    <2>1. CASE r \in keep
      BY <2>1, <1>10
    <2>2. CASE r \notin keep
      <3>1. r # n /\ Old(r)
        BY <2>2, <1>0, <1>8, <1>9
      <3>2. all[r] = rows[r]
        BY <3>1, <1>0, <1>6
      <3>. QED
        BY <3>1, <3>2
    <2>. QED
      BY <2>1, <2>2
  <1>16. pick \in [1 .. k -> DOMAIN rows]
    BY <1>0, <1>10, <1>11
  <1>17. k \in Nat /\ k >= 1 /\ pick[k] = n /\ \A i, j \in 1 .. k : i < j => pick[i] < pick[j]
    BY <1>10
  <1>18. Survive(pick)
    <2>1. Len(rows') = k
      BY <1>12
    <2>. QED
      BY <2>1, <1>12, <1>13, <1>14, <1>15, <1>16, <1>17 DEF Survive
  <1>. QED
    BY <1>18

\* What completion and cleanup keep of rows, scopes and limits.
LEMMA SurvivingRows ==
    ASSUME ModelsTyped, RowsTyped, RowsInOrder, clock' = clock, rows # <<>>,
           NEW pick, Survive(pick)
    PROVE  /\ RowsTyped' /\ RowsInOrder' /\ ~Running' /\ rows' # <<>> /\ Latest' = Latest
           /\ \A i \in DOMAIN rows' :
                 /\ pick[i] \in DOMAIN rows /\ i \in Nat /\ pick[i] \in Nat /\ pick[i] <= Len(rows)
                 /\ rows'[i].started = rows[pick[i]].started
                 /\ rows'[i].scopes = rows[pick[i]].scopes
           /\ Completed' = {i \in DOMAIN rows' : pick[i] \in Completed \cup {Len(rows)}}
           /\ Completed' # {}
           /\ \A l : l \in Limits' => \/ l \in Limits
                                      \/ \E s \in Last(rows).scopes : l = s.to
           /\ \A s \in Last(rows).scopes : s.to \in Limits'
  <1>. DEFINE k == Len(rows')
              n == Len(rows)
  <1>1. /\ k \in Nat /\ k >= 1 /\ DOMAIN rows' = 1 .. k /\ rows' \in Seq(CheckRow)
        /\ pick \in [1 .. k -> DOMAIN rows] /\ pick[k] = n
        /\ \A i, j \in 1 .. k : i < j => pick[i] < pick[j]
        /\ \A i \in 1 .. k :
              /\ rows'[i].started = rows[pick[i]].started
              /\ rows'[i].scopes = rows[pick[i]].scopes
              /\ rows'[i].status = "completed" <=> pick[i] \in Completed \cup {n}
              /\ pick[i] # n => rows'[i] = rows[pick[i]]
        /\ rows'[k].status = "completed" /\ rows'[k].finished = clock
    BY DEF Survive
  <1>2. n \in DOMAIN rows /\ n \in Nat /\ Latest = rows[n].started /\ clock \in Nat
        /\ Latest \in Nat /\ Latest <= clock
    BY LastRow DEF ModelsTyped
  <1>. HIDE DEF k, n
  <1>3. \A i \in 1 .. k : /\ pick[i] \in DOMAIN rows /\ i \in Nat /\ pick[i] \in Nat
                          /\ pick[i] <= n /\ i <= k
                          /\ pick[i] = n => i = k
    <2>. TAKE i \in 1 .. k
    <2>1. pick[i] \in DOMAIN rows /\ i \in Nat /\ i <= k /\ k \in 1 .. k
      BY <1>1
    <2>2. pick[i] \in Nat /\ pick[i] <= n
      BY <2>1, RowFields DEF n
    <2>3. i < k => pick[i] < n
      BY <2>1, <1>1
    <2>. QED
      BY <2>1, <2>2, <2>3, <1>1, <1>2
  <1>4. RowsTyped'
    <2>. SUFFICES ASSUME NEW i \in 1 .. k
                  PROVE  /\ rows'[i].started <= clock /\ rows'[i].finished <= clock
                         /\ rows'[i].finished = NoTime <=> rows'[i].status = "running"
                         /\ rows'[i].finished # NoTime => rows'[i].started <= rows'[i].finished
      BY <1>1 DEF RowsTyped
    <2>1. CASE pick[i] = n
      <3>1. i = k /\ rows'[k].started = Latest
        BY <2>1, <1>1, <1>2, <1>3
      <3>. QED
        BY <3>1, <1>1, <1>2, Constants
    <2>2. CASE pick[i] # n
      <3>1. rows'[i] = rows[pick[i]] /\ pick[i] \in DOMAIN rows
        BY <2>2, <1>1, <1>3
      <3>. QED
        BY <3>1 DEF RowsTyped
    <2>. QED
      BY <2>1, <2>2
  <1>5. RowsInOrder'
    <2>. SUFFICES ASSUME NEW i \in 1 .. k, NEW j \in 1 .. k, i < j
                  PROVE  /\ rows'[i].started < rows'[j].started
                         /\ rows'[i].finished # NoTime /\ rows'[i].finished <= rows'[j].started
      BY <1>1 DEF RowsInOrder
    <2>1. pick[i] < pick[j] /\ pick[i] \in DOMAIN rows /\ pick[j] \in DOMAIN rows
      BY <1>1, <1>3
    <2>2. pick[i] # n
      BY <2>1, <1>2, <1>3
    <2>3. rows'[i] = rows[pick[i]] /\ rows'[j].started = rows[pick[j]].started
      BY <2>2, <1>1
    <2>. QED
      BY <2>1, <2>3 DEF RowsInOrder
  <1>6. k \in 1 .. k
    BY <1>1
  <1>7. ~Running' /\ rows' # <<>> /\ Latest' = Latest
    <2>1. Last(rows') = rows'[k] /\ rows' # <<>>
      BY <1>1, <1>6 DEF Last, k
    <2>2. rows'[k].started = rows[n].started
      BY <1>1, <1>6
    <2>. QED
      BY <2>1, <2>2, <1>1, <1>2 DEF Running, Latest
  <1>8. Completed' = {i \in 1 .. k : pick[i] \in Completed \cup {n}} /\ k \in Completed'
    <2>1. Completed' = {i \in 1 .. k : rows'[i].status = "completed"}
      BY <1>1 DEF Completed
    <2>. QED
      BY <2>1, <1>1, <1>6
  <1>9. ASSUME NEW l \in Limits' PROVE l \in Limits \/ \E s \in Last(rows).scopes : l = s.to
    <2>1. PICK i \in Completed' : \E s \in rows'[i].scopes : l = s.to
      BY <1>9 DEF Limits
    <2>2. i \in 1 .. k /\ pick[i] \in Completed \cup {n}
      BY <2>1, <1>8
    <2>3. PICK s \in rows[pick[i]].scopes : l = s.to
      BY <2>1, <2>2, <1>1
    <2>4. CASE pick[i] \in Completed
      BY <2>3, <2>4, LimitIn
    <2>5. CASE pick[i] = n
      BY <2>3, <2>5 DEF Last, n
    <2>. QED
      BY <2>2, <2>4, <2>5
  <1>10. ASSUME NEW s \in Last(rows).scopes PROVE s.to \in Limits'
    <2>1. rows'[k].scopes = rows[n].scopes
      BY <1>1, <1>6
    <2>2. s \in rows'[k].scopes
      BY <2>1 DEF Last, n
    <2>. QED
      BY <2>2, <1>8 DEF Limits
  <1>11. DOMAIN rows' = 1 .. k
    BY <1>1
  <1>12. \A i \in DOMAIN rows' :
            /\ pick[i] \in DOMAIN rows /\ i \in Nat /\ pick[i] \in Nat /\ pick[i] <= Len(rows)
            /\ rows'[i].started = rows[pick[i]].started
            /\ rows'[i].scopes = rows[pick[i]].scopes
    BY <1>1, <1>3 DEF n
  <1>. QED
    BY <1>4, <1>5, <1>7, <1>8, <1>9, <1>10, <1>11, <1>12 DEF n

\* CompleteMonitoringCheck with a plan that fits keeps what is known of the
\* history, whatever rows the cleanup has dropped.
LEMMA CommitStep ==
    ASSUME ModelsTyped, ModelsInOrder, RowsTyped, RowsInOrder, HistoryOK, Running,
           NEW p, PlanFits(p), NEW rev, UNCHANGED <<clock, models, anchor>>,
           rows' = Kept([rows EXCEPT ![Len(rows)].status = "completed",
                                     ![Len(rows)].finished = clock], rev),
           judged' = judged \cup {s \in p : s.from < s.to}
    PROVE  /\ RowsTyped' /\ RowsInOrder' /\ HistoryOK'
           /\ ~Running' /\ rows # <<>> /\ rows' # <<>> /\ Latest' = Latest
  <1>. DEFINE n == Len(rows)
              T == {s \in p : s.from < s.to}
  <1>0. /\ rows # <<>> /\ clock \in Nat /\ Reliable' = Reliable /\ n \in DOMAIN rows /\ n \in Nat
        /\ CoverageEnd \in Int /\ CoverageEnd <= clock /\ Last(rows) = rows[n]
        /\ \A m \in Reliable : m.at \in Int
    <2>1. rows # <<>> /\ clock \in Nat /\ Reliable' = Reliable /\ Last(rows) = rows[n]
      BY DEF Running, ModelsTyped, Reliable, Last
    <2>2. /\ n \in DOMAIN rows /\ n \in Nat /\ CoverageEnd \in Int
          /\ CoverageEnd = Latest - Tolerance /\ Latest \in Nat /\ Latest <= clock
      BY <2>1, LastRow
    <2>3. CoverageEnd <= clock
      BY <2>1, <2>2, Constants
    <2>4. \A m \in Reliable : m.at \in Int
      BY ModelFields
    <2>. QED
      BY <2>1, <2>2, <2>3, <2>4
  <1>1. PICK pick : Survive(pick)
    BY KeptRows
  <1>2. /\ RowsTyped' /\ RowsInOrder' /\ ~Running' /\ rows' # <<>> /\ Latest' = Latest
        /\ \A i \in DOMAIN rows' :
              /\ pick[i] \in DOMAIN rows /\ i \in Nat /\ pick[i] \in Nat /\ pick[i] <= n
              /\ rows'[i].started = rows[pick[i]].started
              /\ rows'[i].scopes = rows[pick[i]].scopes
        /\ Completed' = {i \in DOMAIN rows' : pick[i] \in Completed \cup {n}}
        /\ Completed' # {}
        /\ \A l : l \in Limits' => l \in Limits \/ \E s \in Last(rows).scopes : l = s.to
        /\ \A s \in Last(rows).scopes : s.to \in Limits'
    BY <1>0, <1>1, SurvivingRows
  <1>3. /\ \A i, j \in DOMAIN rows' : i < j => pick[i] < pick[j]
        /\ \A i \in DOMAIN rows' :
              \/ pick[i] \in Completed \cup {n}
              \/ ~(rows[pick[i]].finished # NoTime /\ rows[pick[i]].finished < clock - Retained)
        /\ \A r \in DOMAIN rows :
              \/ \E i \in DOMAIN rows' : pick[i] = r
              \/ r # n /\ rows[r].finished # NoTime /\ rows[r].finished < clock - Retained
    BY <1>1 DEF Survive
  <1>. HIDE DEF n
  <1>4. /\ p \subseteq Segment
        /\ rows[n].scopes = {ScopeOf(s) : s \in p}
        /\ \A s \in p : /\ s.model \in Reliable /\ s.from \in Int /\ s.to \in Int
                        /\ End <= s.from /\ s.from <= s.to /\ s.to <= CoverageEnd
                        /\ \A l \in Limits : l <= s.from
                        /\ InForce(s)
        /\ \A s, t \in p : s = t \/ s.to <= t.from \/ t.to <= s.from
        /\ \A s \in p : \A x \in End + 1 .. s.to :
              (\E t \in p : Judge(t, x)) \/ \A m \in Reliable : x <= m.at
        /\ p = {} => /\ Limits = {} => Planned = {}
                     /\ Limits # {} => \A m \in Reliable : CoverageEnd < m.at
    BY <1>0 DEF PlanFits, Segment
  <1>5. /\ End \in Int /\ anchor <= End /\ End <= clock /\ anchor \in Int
        /\ \A c \in judged : c.to <= End /\ c.to \in Int /\ c.from \in Int
        /\ End = anchor \/ \E c \in judged : End = c.to
    BY <1>0, EndOf DEF HistoryOK, JudgedTyped, Segment
  <1>6. /\ \A s \in p : [rev |-> s.model.rev, from |-> s.from, to |-> s.to] \in Last(rows).scopes
        /\ \A s \in Last(rows).scopes : \E t \in p : s.to = t.to
    BY <1>0, <1>4 DEF ScopeOf
  <1>7. p # {} => anchor # NoTime
    BY <1>0, <1>6 DEF HistoryOK, ScopesOK
  <1>8. JudgedTyped'
    <2>1. ASSUME NEW c \in T
          PROVE  c \in Segment /\ c.from < c.to /\ c.to <= clock /\ anchor <= c.from
      BY <1>0, <1>4, <1>5
    <2>2. T # {} => anchor # NoTime
      BY <1>7
    <2>3. judged' = judged \cup T
      OBVIOUS
    <2>. HIDE DEF T
    <2>. QED
      BY <2>1, <2>2, <2>3, <1>2 DEF HistoryOK, JudgedTyped
  <1>9. /\ End' \in Int /\ End <= End' /\ \A s \in T : s.to <= End'
        /\ End' = End \/ \E s \in T : End' = s.to
    <2>. DEFINE X == {anchor'} \cup {c.to : c \in judged'}
    <2>1. X \in SUBSET Int /\ X # {} /\ \A x \in X : x <= clock
      BY <1>0, <1>8 DEF JudgedTyped, Segment
    <2>2. End' = Max(X)
      BY DEF End
    <2>. HIDE DEF X
    <2>3. End' \in X /\ End' \in Int /\ \A x \in X : x <= End'
      <3>1. clock \in Int
        BY <1>0
      <3>. QED
        BY <2>1, <2>2, <3>1, MaxOf
    <2>4. /\ anchor \in X /\ (\A c \in judged : c.to \in X) /\ (\A c \in T : c.to \in X)
          /\ \A x \in X : x = anchor \/ (\E c \in judged : x = c.to) \/ \E c \in T : x = c.to
      BY DEF X
    <2>5. End \in X /\ End <= End'
      BY <2>3, <2>4, <1>5
    <2>6. ASSUME ~(\E s \in T : End' = s.to) PROVE End' = End
      <3>1. End' = anchor \/ \E c \in judged : End' = c.to
        BY <2>3, <2>4, <2>6
      <3>2. End' <= End
        BY <3>1, <1>5
      <3>. QED
        BY <3>2, <2>3, <2>5, <1>5
    <2>. QED
      BY <2>3, <2>4, <2>5, <2>6
  <1>10. Tiles'
    <2>. SUFFICES ASSUME NEW x \in anchor + 1 .. End'
                  PROVE  \/ \E c \in judged' : Judge(c, x) /\ \A d \in judged' : Judge(d, x) => d = c
                         \/ (\A c \in judged' : ~Judge(c, x)) /\ \A m \in Reliable : x <= m.at
      BY <1>0 DEF Tiles, Judge
    <2>1. x \in Int /\ anchor < x /\ x <= End'
      BY <1>5, <1>9
    <2>2. CASE x <= End
      <3>1. \A d \in T : ~Judge(d, x)
        BY <2>1, <2>2, <1>4, <1>5 DEF Judge
      <3>2. \/ \E c \in judged : Judge(c, x) /\ \A d \in judged : Judge(d, x) => d = c
            \/ (\A c \in judged : ~Judge(c, x)) /\ \A m \in Reliable : x <= m.at
        <4>1. x \in anchor + 1 .. End
          BY <2>1, <2>2, <1>5
        <4>. QED
          BY <4>1 DEF HistoryOK, Tiles
      <3>. QED
        BY <3>1, <3>2
    <2>3. CASE ~(x <= End)
      <3>1. PICK s \in T : End' = s.to
        BY <2>1, <2>3, <1>5, <1>9
      <3>2. x \in End + 1 .. s.to /\ s \in p
        BY <2>1, <2>3, <3>1, <1>5, <1>9
      <3>3. \A d \in judged : ~Judge(d, x)
        BY <2>1, <2>3, <1>5 DEF Judge
      <3>4. CASE \E t \in p : Judge(t, x)
        <4>1. PICK t \in p : Judge(t, x)
          BY <3>4
        <4>2. t \in T
          BY <4>1, <2>1, <1>4 DEF Judge
        <4>3. ASSUME NEW d \in T, Judge(d, x) PROVE d = t
          <5>1. d \in p /\ (d = t \/ d.to <= t.from \/ t.to <= d.from)
            BY <4>1, <1>4
          <5>2. d.from \in Int /\ d.to \in Int /\ t.from \in Int /\ t.to \in Int
            BY <4>1, <5>1, <1>4
          <5>. QED
            BY <4>1, <4>3, <5>1, <5>2, <2>1 DEF Judge
        <4>. QED
          BY <4>1, <4>2, <4>3, <3>3
      <3>5. CASE \A t \in p : ~Judge(t, x)
        <4>1. \A m \in Reliable : x <= m.at
          BY <3>2, <3>5, <1>4
        <4>. QED
          BY <4>1, <3>3, <3>5
      <3>. QED
        BY <3>4, <3>5
    <2>. QED
      BY <2>2, <2>3
  <1>11. \A c \in judged' : InForce(c)'
    <2>1. \A c \in judged' : InForce(c)
      BY <1>4 DEF HistoryOK
    <2>. QED
      BY <2>1, <1>0 DEF InForce
  <1>12. ScopesOK'
    <2>. SUFFICES ASSUME NEW i \in DOMAIN rows', NEW s \in rows'[i].scopes
                  PROVE  /\ s.from <= s.to /\ s.to <= rows'[i].started - Tolerance
                         /\ anchor # NoTime
                         /\ \E m \in Reliable : m.rev = s.rev
      BY <1>0 DEF ScopesOK
    <2>1. pick[i] \in DOMAIN rows /\ s \in rows[pick[i]].scopes
          /\ rows'[i].started = rows[pick[i]].started
      BY <1>2
    <2>. QED
      BY <2>1 DEF HistoryOK, ScopesOK
  <1>13. ScopesLater'
    <2>. SUFFICES ASSUME NEW i \in DOMAIN rows', NEW j \in DOMAIN rows', i < j,
                         i \in Completed', rows'[i].scopes # {},
                         NEW s \in rows'[j].scopes, NEW m \in Reliable, m.rev = s.rev
                  PROVE  m.at <= s.from
      BY <1>0 DEF ScopesLater
    <2>1. /\ pick[i] \in DOMAIN rows /\ pick[j] \in DOMAIN rows /\ pick[i] < pick[j]
          /\ rows[pick[i]].scopes # {} /\ s \in rows[pick[j]].scopes
          /\ pick[i] \in Completed \cup {n} /\ pick[i] \in Nat /\ pick[j] \in Nat /\ pick[j] <= n
      BY <1>2, <1>3
    <2>2. pick[i] \in Completed
      BY <2>1, <1>0
    <2>. QED
      BY <2>1, <2>2 DEF HistoryOK, ScopesLater
  <1>14. Frontier'
    <2>. SUFFICES ASSUME anchor # NoTime
                  PROVE  /\ Limits' # {} =>
                              \/ Max(Limits') = End'
                              \/ \A m \in Reliable : Max(Limits') <= m.at /\ End' <= m.at
                         /\ Limits' = {} =>
                              /\ Planned' = {} /\ Reliable # {}
                              /\ \A m \in Reliable : End' <= m.at
      BY <1>0, <1>2 DEF Frontier
    <2>0. Limits \subseteq Int /\ \A l \in Limits : l <= CoverageEnd
      BY <1>0, LimitBounds DEF HistoryOK
    <2>1. Limits' \subseteq Int /\ \A l \in Limits' : l <= CoverageEnd
      BY <2>0, <1>2, <1>4, <1>6
    <2>2. Limits' # {} => Max(Limits') \in Limits' /\ Max(Limits') \in Int
                          /\ \A l \in Limits' : l <= Max(Limits')
      BY <2>1, <1>0, MaxOf
    <2>3. CASE p # {}
      <3>. DEFINE X == Max(Limits')
      <3>1. PICK s0 \in p : s0.to \in Limits'
        <4>1. PICK s0 \in p : TRUE
          BY <2>3
        <4>. DEFINE q == [rev |-> s0.model.rev, from |-> s0.from, to |-> s0.to]
        <4>2. q \in Last(rows).scopes /\ q.to = s0.to
          BY <4>1, <1>6
        <4>3. q.to \in Limits'
          BY <4>2, <1>2
        <4>. QED
          BY <4>1, <4>2, <4>3
      <3>2. X \in Limits' /\ X \in Int /\ \A l \in Limits' : l <= X
        BY <3>1, <2>2
      <3>3. \A s \in p : s.to <= X
        <4>. TAKE s \in p
        <4>. DEFINE q == [rev |-> s.model.rev, from |-> s.from, to |-> s.to]
        <4>1. q \in Last(rows).scopes /\ q.to = s.to
          BY <1>6
        <4>. QED
          BY <4>1, <3>2, <1>2
      <3>. HIDE DEF X
      <3>4. PICK s \in p : s.to = X
        <4>1. CASE X \in Limits
          <5>1. X <= s0.from /\ s0.from <= s0.to /\ s0.to <= X /\ s0.from \in Int /\ s0.to \in Int
            BY <4>1, <3>1, <3>3, <1>4
          <5>2. s0.to = X
            BY <5>1, <3>2
          <5>. QED
            BY <5>2, <3>1
        <4>2. CASE \E q \in Last(rows).scopes : X = q.to
          BY <4>2, <1>6
        <4>. QED
          BY <4>1, <4>2, <3>2, <1>2
      <3>5. End <= X
        BY <3>2, <3>4, <1>4, <1>5
      <3>6. End' <= X
        BY <3>2, <3>3, <3>5, <1>9
      <3>7. CASE X = End
        BY <3>6, <3>7, <3>2, <3>1, <1>5, <1>9 DEF X
      <3>8. CASE X # End
        <4>1. X \in End + 1 .. s.to
          BY <3>2, <3>4, <3>5, <3>8, <1>5
        <4>2. CASE \E t \in p : Judge(t, X)
          <5>1. PICK t \in p : Judge(t, X)
            BY <4>2
          <5>2. t \in T /\ X <= t.to
            BY <5>1, <3>2, <1>4 DEF Judge
          <5>3. X <= End'
            BY <5>1, <5>2, <3>2, <1>4, <1>9
          <5>4. X = End'
            BY <5>3, <3>2, <3>6, <1>9
          <5>. QED
            BY <5>4, <3>1 DEF X
        <4>3. CASE \A m \in Reliable : X <= m.at
          <5>1. \A m \in Reliable : X <= m.at /\ End' <= m.at
            BY <4>3, <3>2, <3>6, <1>0, <1>9
          <5>. QED
            BY <5>1, <3>1 DEF X
        <4>. QED
          BY <4>1, <4>2, <4>3, <1>4
      <3>. QED
        BY <3>7, <3>8
    <2>4. CASE p = {}
      <3>1. End' = End /\ Limits' \subseteq Limits /\ rows[n].scopes = {}
        <4>1. T = {}
          BY <2>4
        <4>2. Last(rows).scopes = {}
          BY <2>4, <1>0, <1>4
        <4>. QED
          BY <4>1, <4>2, <1>0, <1>2, <1>9
      <3>2. CASE Limits = {}
        <4>1. Planned = {} /\ Limits' = {}
          BY <2>4, <3>1, <3>2, <1>4
        <4>2. Planned' = {}
          <5>1. \A i \in DOMAIN rows' : rows'[i].scopes = rows[pick[i]].scopes /\ pick[i] \in DOMAIN rows
            BY <1>2
          <5>. QED
            BY <4>1, <5>1 DEF Planned
        <4>3. Reliable # {} /\ \A m \in Reliable : End <= m.at
          BY <3>2, <4>1 DEF HistoryOK, Frontier
        <4>. QED
          BY <3>1, <4>1, <4>2, <4>3
      <3>3. CASE Limits # {}
        <4>1. \A m \in Reliable : CoverageEnd < m.at
          BY <2>4, <3>3, <1>4
        <4>2. Reliable # {} /\ Max(Limits) \in Int /\ Max(Limits) <= CoverageEnd
          BY <3>3, <1>0, LimitBounds DEF HistoryOK
        <4>3. \A m \in Reliable : End <= m.at
          <5>1. Max(Limits) = End \/ \A m \in Reliable : End <= m.at
            BY <3>3 DEF HistoryOK, Frontier
          <5>. QED
            BY <5>1, <4>1, <4>2, <1>0, <1>5
        <4>4. ASSUME Limits' # {} PROVE \A m \in Reliable : Max(Limits') <= m.at
          BY <4>4, <4>1, <2>1, <2>2, <1>0
        <4>45. ASSUME Limits' = {}, NEW j \in Completed' PROVE rows'[j].scopes = {}
          <5>. SUFFICES ASSUME NEW s \in rows'[j].scopes PROVE FALSE
            OBVIOUS
          <5>1. s.to \in {t.to : t \in rows'[j].scopes}
            OBVIOUS
          <5>2. {t.to : t \in rows'[j].scopes} \in {{t.to : t \in rows'[i].scopes} : i \in Completed'}
            BY <4>45
          <5>3. s.to \in Limits'
            BY <5>1, <5>2 DEF Limits
          <5>. QED
            BY <5>3, <4>45
        <4>5. ASSUME Limits' = {}, NEW i \in DOMAIN rows', rows'[i].scopes # {} PROVE FALSE
          <5>. DEFINE r == pick[i]
          <5>1. r \in DOMAIN rows /\ rows[r].scopes # {} /\ r # n /\ r \in Nat
            BY <4>5, <3>1, <1>2
          <5>2. r \notin Completed
            <6>1. r \in Completed => i \in Completed'
              BY <1>2
            <6>. QED
              BY <6>1, <4>45, <4>5
          <5>3. ~(rows[r].finished # NoTime /\ rows[r].finished < clock - Retained)
            BY <5>1, <5>2, <1>3
          <5>4. PICK q \in Completed : rows[q].scopes # {}
            BY <3>3 DEF Limits
          <5>. HIDE DEF r
          <5>5. q \in DOMAIN rows /\ q # r /\ q \in Nat
            BY <5>2, <5>4, RowFields DEF Completed
          <5>6. ~(\E j \in DOMAIN rows' : pick[j] = q)
            <6>. SUFFICES ASSUME NEW j \in DOMAIN rows', pick[j] = q PROVE FALSE
              OBVIOUS
            <6>1. j \in Completed' /\ rows'[j].scopes # {}
              BY <5>4, <1>2
            <6>. QED
              BY <6>1, <4>45, <4>5
          <5>7. rows[q].finished # NoTime /\ rows[q].finished < clock - Retained
            BY <5>5, <5>6, <1>3
          <5>8. CASE q < r
            <6>1. PICK s \in rows[r].scopes : TRUE
              BY <5>1
            <6>2. PICK m \in Reliable : m.rev = s.rev
              BY <5>1, <6>1 DEF HistoryOK, ScopesOK
            <6>3. m.at <= s.from
              BY <5>1, <5>4, <5>5, <5>8, <6>1, <6>2 DEF HistoryOK, ScopesLater
            <6>4. s.from \in Int /\ s.to \in Int /\ s.from <= s.to /\ s.to <= CoverageEnd
              BY <5>1, <6>1, <1>0, LimitBounds DEF HistoryOK
            <6>. QED
              BY <6>2, <6>3, <6>4, <4>1, <1>0
          <5>9. CASE r < q
            <6>1. rows[r].finished # NoTime /\ rows[r].finished <= rows[q].started
              BY <5>1, <5>5, <5>9 DEF RowsInOrder
            <6>2. rows[q].started <= rows[q].finished
              BY <5>5, <5>7 DEF RowsTyped
            <6>3. rows[r].finished \in Int /\ rows[q].started \in Int /\ rows[q].finished \in Int
              BY <5>1, <5>5, RowFields
            <6>4. clock - Retained \in Int
              BY <1>0, Constants
            <6>5. rows[r].finished < clock - Retained
              BY <6>1, <6>2, <6>3, <6>4, <5>7
            <6>. QED
              BY <6>1, <6>5, <5>3
          <5>. QED
            BY <5>1, <5>5, <5>8, <5>9
        <4>6. Limits' = {} => Planned' = {}
          BY <4>5 DEF Planned
        <4>. QED
          BY <3>1, <4>2, <4>3, <4>4, <4>6
      <3>. QED
        BY <3>2, <3>3
    <2>. QED
      BY <2>3, <2>4
  <1>. QED
    BY <1>0, <1>2, <1>8, <1>10, <1>11, <1>12, <1>13, <1>14 DEF HistoryOK

-----------------------------------------------------------------------------
(* The steps.                                                              *)

\* Revisions taken from different instants are a stride apart.
LEMMA Strides ==
    ASSUME NEW x \in Nat, NEW y \in Nat
    PROVE  /\ Stride * x \in Nat /\ Stride * (x + 1) = Stride * x + Stride
           /\ x < y => Stride * (x + 1) <= Stride * y
  <1>1. Stride \in Nat /\ Stride * x \in Nat /\ Stride * (x + 1) = Stride * x + Stride
    BY Constants
  <1>2. ASSUME x < y PROVE Stride * (x + 1) <= Stride * y
    <2>. DEFINE d == y - (x + 1)
    <2>1. d \in Nat /\ y = (x + 1) + d
      BY <1>2
    <2>. HIDE DEF d
    <2>2. Stride * d \in Nat
      BY <1>1, <2>1
    <2>3. Stride * y = Stride * (x + 1) + Stride * d
      BY <1>1, <2>1
    <2>. QED
      BY <1>1, <2>2, <2>3
  <1>. QED
    BY <1>1, <1>2

\* The instants before and after the revision that a check may take.
Floor == Stride * Latest
Ceiling == Stride * (Latest + 1)

\* Base lies between the two.
LEMMA BaseOf ==
    ASSUME RowsTyped
    PROVE  /\ Base \in Nat
           /\ rows = <<>> => Base = 0
           /\ rows # <<>> =>
                /\ Floor \in Nat /\ Ceiling \in Nat /\ Ceiling = Floor + Stride
                /\ Base = IF pc \in {"scan", "learn"} THEN Floor ELSE Ceiling
  <1>1. CASE rows = <<>>
    BY <1>1, Constants DEF Base
  <1>2. CASE rows # <<>>
    <2>1. Latest \in Nat
      BY <1>2, LastRow
    <2>2. Floor \in Nat /\ Ceiling = Floor + Stride
      BY <2>1, Strides DEF Floor, Ceiling
    <2>3. Base = IF pc \in {"scan", "learn"} THEN Floor ELSE Ceiling
      BY <1>2 DEF Base, Floor, Ceiling
    <2>. HIDE DEF Floor, Ceiling
    <2>. QED
      BY <1>2, <2>2, <2>3, Constants
  <1>. QED
    BY <1>1, <1>2

\* Sums of integers.
LEMMA Sums ==
    ASSUME NEW a \in Nat, NEW b \in Nat, a <= b, NEW c \in Nat, NEW d \in Nat, c <= d
    PROVE  0 <= b + d + 1 /\ \A x \in Int : x <= a + c + 1 => x <= b + d + 1
  OBVIOUS

\* Steps of others that leave the catalogue's models and rows alone; the worker
\* goes on or stops.
LEMMA QuietStep ==
    ASSUME CatalogueOK, HistoryOK, CallsOK,
           UNCHANGED <<models, revision, rows, judged, anchor>>,
           clock' \in Nat, clock <= clock', orders' \in 0 .. MaxOrders, orders <= orders',
           pc' = "idle" \/ UNCHANGED <<pc, snap, plan>>,
           \A c \in late' \ late :
              /\ c.started \in Nat /\ c.rev \in Nat \ {0} /\ rows # <<>>
              /\ c.started <= Latest /\ pc' = "idle" /\ PlanFits(c.plan)
              /\ revision = 0 => c.rev = Stride * (Latest + 1)
    PROVE  CatalogueOK' /\ HistoryOK' /\ CallsOK'
  <1>0. /\ ModelsTyped /\ RowsTyped /\ RowsInOrder /\ ModelsInOrder /\ RevisionsBounded
        /\ SnapshotKept /\ clock \in Nat /\ orders \in Nat /\ orders' \in Nat /\ revision \in Nat
        /\ Reliable' = Reliable /\ Latest' = Latest /\ Running' = Running
    BY Constants DEF CatalogueOK, ModelsTyped, Reliable, Latest, Running
  <1>1. ModelsTyped' /\ ModelsInOrder'
    BY <1>0, ModelFields DEF ModelsTyped, ModelsInOrder
  <1>2. RowsTyped' /\ RowsInOrder' /\ RowsKept
    BY <1>0, RowsUnchanged
  <1>3. HistoryOK'
    <2>1. ModelsGrow
      BY <1>0 DEF ModelsGrow
    <2>. QED
      BY <2>1, <1>0, <1>1, <1>2, HistoryStays
  <1>4. Base' \in Nat /\ Base \in Nat /\ Base <= Base'
    <2>1. Base' = Stride * (IF rows = <<>> THEN 0
                            ELSE IF pc' \in {"scan", "learn"} THEN Latest ELSE Latest + 1)
      BY <1>0 DEF Base
    <2>2. CASE rows = <<>>
      BY <2>1, <2>2, <1>0, BaseOf, Constants
    <2>3. CASE rows # <<>>
      <3>1. Base' = Ceiling \/ (Base' = Base /\ pc' = pc)
        BY <2>1, <2>3 DEF Base, Ceiling
      <3>. QED
        BY <2>3, <3>1, <1>0, BaseOf, Constants
    <2>. QED
      BY <2>2, <2>3
  <1>5. RevisionsBounded'
    <2>0. orders \in Nat /\ orders' \in Nat
      BY <1>0
    <2>1. 0 <= Base' + orders' + 1 /\ \A x \in Int : x <= Base + orders + 1 => x <= Base' + orders' + 1
      BY <2>0, <1>4, Sums, Zenon
    <2>2. revision <= Base' + orders' + 1 /\ \A m \in models : m.rev <= Base' + orders' + 1
      BY <2>1, <1>0, ModelFields DEF RevisionsBounded
    <2>. QED
      BY <2>2, <1>0 DEF RevisionsBounded
  <1>6. SnapshotKept'
    <2>1. CASE pc' = "idle"
      BY <2>1 DEF SnapshotKept
    <2>2. CASE UNCHANGED <<pc, snap, plan>>
      <3>1. ASSUME snap.rev \in Nat, snap.rev <= Base + orders + 1
            PROVE  snap.rev <= Base' + orders' + 1
        BY <3>1, <1>0, <1>4
      <3>. QED
        BY <3>1, <2>2, <1>0 DEF SnapshotKept
    <2>. QED
      BY <2>1, <2>2
  <1>7. CallsOK'
    <2>1. \A p : PlanFits(p) => PlanFits(p)'
      BY PlanStays
    <2>2. pc' = "complete" /\ Running => PlanFits(plan)'
      BY <2>1 DEF CallsOK
    <2>3. ASSUME NEW c \in late'
          PROVE  /\ c.started \in Nat /\ c.rev \in Nat \ {0} /\ rows # <<>> /\ c.started <= Latest
                 /\ pc' # "idle" => c.started < Latest
                 /\ Running /\ c.started = Latest =>
                       PlanFits(c.plan)' /\ (revision = 0 => c.rev = Stride * (Latest + 1))
      BY <2>1 DEF CallsOK
    <2>. QED
      BY <2>2, <2>3, <1>0 DEF CallsOK
  <1>. QED
    BY <1>1, <1>2, <1>3, <1>5, <1>6, <1>7 DEF CatalogueOK

\* Steps that close the row of the running check as failed.
LEMMA ClosingStep ==
    ASSUME CatalogueOK, HistoryOK, CallsOK,
           rows' = Fail(clock), UNCHANGED <<clock, models, judged, anchor>>,
           revision' \in {revision, 0}, orders' \in 0 .. MaxOrders, orders <= orders',
           pc' = "idle" \/ UNCHANGED <<pc, snap>>,
           \A c \in late' \ late : /\ c.started \in Nat /\ c.rev \in Nat \ {0} /\ rows # <<>>
                                   /\ c.started <= Latest /\ pc' = "idle"
    PROVE  CatalogueOK' /\ HistoryOK' /\ CallsOK'
  <1>0. /\ ModelsTyped /\ RowsTyped /\ RowsInOrder /\ ModelsInOrder /\ RevisionsBounded
        /\ SnapshotKept /\ clock \in Nat /\ orders \in Nat /\ orders' \in Nat /\ revision \in Nat
        /\ Reliable' = Reliable
    BY Constants DEF CatalogueOK, ModelsTyped, Reliable
  <1>1. ModelsTyped' /\ ModelsInOrder'
    BY <1>0, ModelFields DEF ModelsTyped, ModelsInOrder
  <1>2. /\ RowsTyped' /\ RowsInOrder' /\ RowsKept /\ ~Running'
        /\ Len(rows') = Len(rows)
        /\ rows # <<>> => /\ rows' # <<>> /\ Latest' = Latest
                          /\ Last(rows').scopes = Last(rows).scopes
    BY <1>0, FailRows
  <1>3. HistoryOK'
    <2>1. ModelsGrow
      BY <1>0 DEF ModelsGrow
    <2>2. clock <= clock'
      BY <1>0
    <2>. QED
      BY <2>1, <2>2, <1>0, <1>1, <1>2, HistoryStays
  <1>4. Base' \in Nat /\ Base \in Nat /\ Base <= Base'
    <2>1. CASE rows = <<>>
      <3>1. Base = 0
        BY <2>1, <1>0, BaseOf
      <3>2. rows' = <<>>
        BY <2>1 DEF Fail, Running
      <3>. QED
        BY <3>1, <3>2, Constants DEF Base
    <2>2. CASE rows # <<>>
      <3>1. Base' = Ceiling \/ (Base' = Base /\ pc' = pc)
        BY <2>2, <1>2 DEF Base, Ceiling
      <3>. QED
        BY <2>2, <3>1, <1>0, BaseOf, Constants
    <2>. QED
      BY <2>1, <2>2
  <1>5. RevisionsBounded'
    <2>0. orders \in Nat /\ orders' \in Nat
      BY <1>0
    <2>1. 0 <= Base' + orders' + 1 /\ \A x \in Int : x <= Base + orders + 1 => x <= Base' + orders' + 1
      BY <2>0, <1>4, Sums, Zenon
    <2>2. revision <= Base' + orders' + 1 /\ \A m \in models : m.rev <= Base' + orders' + 1
      BY <2>1, <1>0, ModelFields DEF RevisionsBounded
    <2>. QED
      BY <2>1, <2>2, <1>0, <1>2 DEF RevisionsBounded
  <1>6. SnapshotKept'
    <2>1. CASE pc' = "idle"
      BY <2>1 DEF SnapshotKept
    <2>2. CASE UNCHANGED <<pc, snap>>
      <3>1. ASSUME snap.rev \in Nat, snap.rev <= Base + orders + 1
            PROVE  snap.rev <= Base' + orders' + 1
        BY <3>1, <1>0, <1>4
      <3>. QED
        BY <3>1, <2>2, <1>0, <1>2 DEF SnapshotKept
    <2>. QED
      BY <2>1, <2>2
  <1>7. CallsOK'
    BY <1>2 DEF CallsOK
  <1>. QED
    BY <1>1, <1>2, <1>3, <1>5, <1>6, <1>7 DEF CatalogueOK

\* What every step may use.
LEMMA Facts ==
    ASSUME CatalogueOK
    PROVE  /\ ModelsTyped /\ RowsTyped /\ RowsInOrder /\ ModelsInOrder /\ RevisionsBounded
           /\ SnapshotKept /\ clock \in Nat /\ revision \in Nat
           /\ orders \in Nat /\ orders <= MaxOrders /\ orders + 1 < Stride
           /\ Base \in Nat /\ Base + orders + 1 \in Int
           /\ \A m \in models : m.rev \in Nat /\ m.rev <= Base + orders + 1
  <1>1. /\ ModelsTyped /\ RowsTyped /\ RowsInOrder /\ ModelsInOrder /\ RevisionsBounded
        /\ SnapshotKept
    BY DEF CatalogueOK
  <1>2. /\ clock \in Nat /\ revision \in Nat /\ orders \in Nat /\ orders <= MaxOrders
        /\ orders + 1 < Stride
    BY <1>1, Constants DEF ModelsTyped
  <1>3. Base \in Nat
    BY <1>1, BaseOf
  <1>. QED
    BY <1>1, <1>2, <1>3, ModelFields DEF RevisionsBounded

\* StartMonitoringCheck.
LEMMA StartStep ==
    ASSUME CatalogueOK, HistoryOK, CallsOK, Start
    PROVE  CatalogueOK' /\ HistoryOK' /\ CallsOK'
  <1>0. /\ pc = "idle" /\ pc' = "scan" /\ (rows # <<>> => Latest < clock)
        /\ rows' = Append(Fail(clock), Row(clock))
        /\ UNCHANGED <<clock, models, revision, judged, anchor, orders, late, snap>>
        /\ Reliable' = Reliable
    BY DEF Start, history, Latest, Reliable
  <1>1. /\ ModelsTyped /\ RowsTyped /\ RowsInOrder /\ ModelsInOrder /\ RevisionsBounded
        /\ SnapshotKept /\ clock \in Nat /\ revision \in Nat /\ orders \in Nat
        /\ orders + 1 < Stride /\ Base \in Nat
        /\ \A m \in models : m.rev \in Nat /\ m.rev <= Base + orders + 1
    BY Facts
  <1>2. ModelsTyped' /\ ModelsInOrder'
    BY <1>0, <1>1 DEF ModelsTyped, ModelsInOrder
  <1>3. /\ RowsTyped' /\ RowsInOrder' /\ RowsKept /\ Running'
        /\ rows' # <<>> /\ Latest' = clock /\ Last(rows').scopes = {}
    BY <1>0, <1>1, StartRows
  <1>4. HistoryOK'
    <2>1. ModelsGrow
      BY <1>0 DEF ModelsGrow
    <2>2. clock <= clock'
      BY <1>0, <1>1
    <2>. QED
      BY <2>1, <2>2, <1>0, <1>1, <1>2, <1>3, HistoryStays
  <1>5. Base' = Stride * clock /\ Base' \in Nat /\ Base <= Base'
        /\ Stride * (Latest' + 1) = Base' + Stride
    <2>1. Base' = Stride * clock
      BY <1>0, <1>3 DEF Base
    <2>2. Stride * clock \in Nat /\ Stride * (clock + 1) = Stride * clock + Stride
      BY <1>1, Strides
    <2>3. Base <= Stride * clock
      <3>1. CASE rows = <<>>
        BY <3>1, <2>2, <1>1, BaseOf
      <3>2. CASE rows # <<>>
        <4>1. Latest \in Nat /\ Latest < clock
          BY <3>2, <1>0, <1>1, LastRow
        <4>2. Base = Stride * (Latest + 1)
          BY <3>2, <1>0 DEF Base
        <4>. QED
          BY <4>1, <4>2, <1>1, Strides
      <3>. QED
        BY <3>1, <3>2
    <2>. QED
      BY <2>1, <2>2, <2>3, <1>3
  <1>6. RevisionsBounded'
    <2>1. \A x \in Int : x <= Base + orders + 1 => x <= Base' + orders + 1
      <3>1. orders <= orders
        BY <1>1
      <3>. QED
        BY <3>1, <1>1, <1>5, Sums, Zenon
    <2>2. revision <= Base' + orders + 1 /\ \A m \in models : m.rev <= Base' + orders + 1
      BY <2>1, <1>1 DEF RevisionsBounded
    <2>3. \A m \in models : m.rev <= Stride * (Latest' + 1)
      <3>. SUFFICES ASSUME NEW m \in models PROVE m.rev <= Base' + Stride
        BY <1>5
      <3>1. m.rev \in Nat /\ m.rev <= Base' + orders + 1 /\ Stride \in Nat
        BY <2>2, <1>1, Constants
      <3>2. orders \in Nat /\ Base' \in Nat /\ orders + 1 < Stride
        BY <1>1, <1>5
      <3>. QED
        BY <3>1, <3>2
    <2>. QED
      BY <2>2, <2>3, <1>0, <1>1 DEF RevisionsBounded
  <1>7. SnapshotKept'
    BY <1>0, <1>3 DEF SnapshotKept
  <1>8. CallsOK'
    <2>1. ASSUME NEW c \in late
          PROVE  c.started \in Nat /\ c.rev \in Nat \ {0} /\ c.started < Latest'
      <3>1. c.started \in Nat /\ c.rev \in Nat \ {0} /\ rows # <<>> /\ c.started <= Latest
        BY DEF CallsOK
      <3>2. Latest \in Nat /\ Latest < clock
        BY <3>1, <1>0, <1>1, LastRow
      <3>. QED
        BY <3>1, <3>2, <1>1, <1>3
    <2>2. Latest' \in Nat
      BY <1>1, <1>3
    <2>. QED
      BY <2>1, <2>2, <1>0, <1>3 DEF CallsOK
  <1>. QED
    BY <1>2, <1>3, <1>4, <1>6, <1>7, <1>8 DEF CatalogueOK

\* The snapshot: when no reliable model of the revision is known, the revision
\* that the worker will save one for is greater than every reliable one.
LEMMA SnapshotStep ==
    ASSUME CatalogueOK, HistoryOK, CallsOK, Snapshot
    PROVE  CatalogueOK' /\ HistoryOK' /\ CallsOK'
  <1>0. /\ pc = "scan" /\ pc' = (IF snap'.known = {} THEN "learn" ELSE "plan")
        /\ snap'.rev = revision
        /\ snap'.known = {m \in models : m.rev = revision /\ m.reliable}
        /\ UNCHANGED <<clock, models, revision, rows, judged, anchor, orders, late>>
        /\ Reliable' = Reliable /\ Latest' = Latest /\ Running' = Running
    BY DEF Snapshot, history, Latest, Reliable, Running
  <1>1. /\ ModelsTyped /\ RowsTyped /\ RowsInOrder /\ ModelsInOrder /\ RevisionsBounded
        /\ SnapshotKept /\ clock \in Nat /\ revision \in Nat /\ orders \in Nat
        /\ orders + 1 < Stride /\ Base \in Nat
        /\ \A m \in models : m.rev \in Nat /\ m.rev <= Base + orders + 1
    BY Facts
  <1>2. ModelsTyped' /\ ModelsInOrder'
    BY <1>0, <1>1 DEF ModelsTyped, ModelsInOrder
  <1>3. RowsTyped' /\ RowsInOrder' /\ RowsKept
    BY <1>0, <1>1, RowsUnchanged
  <1>4. HistoryOK'
    <2>1. ModelsGrow
      BY <1>0 DEF ModelsGrow
    <2>2. clock <= clock'
      BY <1>0, <1>1
    <2>. QED
      BY <2>1, <2>2, <1>0, <1>1, <1>2, <1>3, HistoryStays
  <1>5. /\ rows # <<>> /\ Base = Floor /\ Ceiling = Floor + Stride /\ Floor \in Nat
        /\ Base' = (IF pc' \in {"scan", "learn"} THEN Floor ELSE Ceiling)
    <2>1. rows # <<>>
      BY <1>0, <1>1 DEF SnapshotKept
    <2>2. Base' = IF pc' \in {"scan", "learn"} THEN Floor ELSE Ceiling
      BY <2>1, <1>0 DEF Base, Floor, Ceiling
    <2>. QED
      BY <2>1, <2>2, <1>0, <1>1, BaseOf
  <1>6. Base' \in Nat /\ Base <= Base'
    BY <1>5, Constants
  <1>7. \A x \in Int : x <= Base + orders + 1 => x <= Base' + orders + 1
    <2>1. orders <= orders
      BY <1>1
    <2>. QED
      BY <2>1, <1>1, <1>6, Sums, Zenon
  <1>8. RevisionsBounded'
    <2>1. revision <= Base' + orders + 1 /\ \A m \in models : m.rev <= Base' + orders + 1
      BY <1>1, <1>7 DEF RevisionsBounded
    <2>. QED
      BY <2>1, <1>0, <1>1 DEF RevisionsBounded
  <1>9. SnapshotKept'
    <2>1. revision <= Base' + orders + 1
      BY <1>1, <1>7 DEF RevisionsBounded
    <2>2. ASSUME snap'.known = {}, NEW m \in models
          PROVE  LET r == Revision(revision, Latest) IN m.rev <= r /\ (m.reliable => m.rev < r)
      <3>1. CASE revision = 0
        <4>1. Revision(revision, Latest) = Ceiling
          BY <3>1 DEF Revision, Ceiling
        <4>2. m.rev \in Nat /\ m.rev <= Floor + orders + 1 /\ Stride \in Nat
          BY <1>1, <1>5, Constants
        <4>3. m.rev < Ceiling
          BY <4>2, <1>1, <1>5
        <4>4. Ceiling \in Nat
          BY <1>5, Constants
        <4>. QED
          BY <4>1, <4>2, <4>3, <4>4
      <3>2. CASE revision # 0
        <4>1. Revision(revision, Latest) = revision /\ m.rev <= revision /\ m.rev \in Nat
          BY <3>2, <1>1 DEF Revision, RevisionsBounded
        <4>2. m.reliable => m.rev # revision
          BY <2>2, <1>0
        <4>. QED
          BY <4>1, <4>2, <1>1
      <3>. QED
        BY <3>1, <3>2
    <2>3. Last(rows).scopes = {}
      BY <1>0, <1>1 DEF SnapshotKept
    <2>4. pc' = "learn" => \A m \in models : LET r == Revision(snap'.rev, Latest') IN
                              m.rev <= r /\ (m.reliable => m.rev < r)
      BY <2>2, <1>0
    <2>5. pc' = "learn" => snap'.rev <= revision
      BY <1>0, <1>1
    <2>. QED
      BY <2>1, <2>3, <2>4, <2>5, <1>0, <1>1, <1>5 DEF SnapshotKept
  <1>10. CallsOK'
    BY <1>0, <1>1, LastRow DEF CallsOK
  <1>. QED
    BY <1>2, <1>3, <1>4, <1>8, <1>9, <1>10 DEF CatalogueOK

\* SaveModel: the model is the youngest one, and replaces none that was used.
LEMMA SaveModelStep ==
    ASSUME CatalogueOK, HistoryOK, CallsOK, SaveModel
    PROVE  CatalogueOK' /\ HistoryOK' /\ CallsOK'
  <1>. DEFINE rev == Revision(snap.rev, Last(rows).started)
              new(l) == [rev |-> rev, at |-> clock, schedule |-> l, reliable |-> l # {}]
  <1>0. /\ pc = "learn" /\ pc' = "plan"
        /\ UNCHANGED <<clock, revision, rows, judged, anchor, orders, late, snap>>
        /\ Latest' = Latest /\ Running' = Running
    BY DEF SaveModel, history, Latest, Running
  <1>1. /\ ModelsTyped /\ RowsTyped /\ RowsInOrder /\ ModelsInOrder /\ RevisionsBounded
        /\ SnapshotKept /\ clock \in Nat /\ revision \in Nat /\ orders \in Nat
        /\ orders + 1 < Stride /\ Base \in Nat
        /\ \A m \in models : m.rev \in Nat /\ m.rev <= Base + orders + 1
    BY Facts
  <1>2. PICK l \in Schedules \cup {{}} : models' = {m \in models : m.rev # rev} \cup {new(l)}
    BY DEF SaveModel
  <1>. DEFINE N == new(l)
  <1>3. N.rev = rev /\ N.at = clock /\ N.schedule = l /\ N.reliable = (l # {})
    OBVIOUS
  <1>4. /\ rows # <<>> /\ Base = Floor /\ Ceiling = Floor + Stride /\ Floor \in Nat
        /\ Base' = Ceiling /\ Ceiling \in Nat
    <2>1. rows # <<>>
      BY <1>0, <1>1 DEF SnapshotKept
    <2>2. Base' = Ceiling
      BY <2>1, <1>0 DEF Base, Ceiling
    <2>. QED
      BY <2>1, <2>2, <1>0, <1>1, BaseOf
  <1>5. /\ rev \in Nat /\ rev # 0 /\ rev <= Ceiling + orders + 1
        /\ Running /\ revision = 0 => rev = Ceiling
        /\ revision # 0 => rev <= revision
        /\ \A m \in models : m.rev <= rev /\ (m.reliable => m.rev < rev)
    <2>1. /\ snap.rev \in Nat /\ snap.rev <= Base + orders + 1
          /\ Running /\ revision = 0 => snap.rev = 0
          /\ snap.rev = 0 => revision = 0
          /\ snap.rev # 0 => revision = 0 \/ snap.rev <= revision
          /\ \A m \in models : m.rev <= rev /\ (m.reliable => m.rev < rev)
      BY <1>0, <1>1 DEF SnapshotKept, Latest
    <2>2. CASE snap.rev = 0
      <3>1. rev = Ceiling
        BY <2>2 DEF Revision, Ceiling, Latest
      <3>. HIDE DEF rev
      <3>. QED
        BY <2>1, <2>2, <3>1, <1>1, <1>4, Constants
    <2>3. CASE snap.rev # 0
      <3>1. rev = snap.rev
        BY <2>3 DEF Revision
      <3>2. snap.rev <= Ceiling + orders + 1
        <4>1. Stride \in Nat
          BY Constants
        <4>. QED
          BY <4>1, <2>1, <1>1, <1>4
      <3>. HIDE DEF rev
      <3>. QED
        BY <2>1, <2>3, <3>1, <3>2
    <2>. QED
      BY <2>2, <2>3
  <1>. HIDE DEF rev
  <1>6. N \in Model
    BY <1>1, <1>5 DEF Model
  <1>. HIDE DEF N
  <1>7. ModelsTyped'
    <2>1. models' \subseteq Model
      BY <1>1, <1>2, <1>6 DEF ModelsTyped, N
    <2>2. ASSUME NEW m \in models' PROVE -Day <= m.at /\ m.at <= clock
      <3>1. CASE m = N
        BY <3>1, <1>1, <1>3, Constants
      <3>2. CASE m # N
        BY <3>2, <1>1, <1>2 DEF ModelsTyped, N
      <3>. QED
        BY <3>1, <3>2
    <2>. QED
      BY <2>1, <2>2, <1>0, <1>1 DEF ModelsTyped
  <1>8. ModelsInOrder'
    <2>. SUFFICES ASSUME NEW m \in models', NEW n \in models'
                  PROVE  (m.rev = n.rev => m = n) /\ (m.rev < n.rev => m.at <= n.at)
      BY DEF ModelsInOrder
    <2>1. (m = N \/ (m \in models /\ m.rev # rev)) /\ (n = N \/ (n \in models /\ n.rev # rev))
      BY <1>2 DEF N
    <2>2. CASE m = N /\ n = N
      BY <2>2, <1>1, <1>3
    <2>3. CASE m = N /\ n # N
      <3>1. n \in models /\ n.rev # rev /\ n.rev <= rev /\ n.rev \in Nat
        BY <2>1, <2>3, <1>1, <1>5
      <3>. QED
        BY <3>1, <2>3, <1>3, <1>5
    <2>4. CASE m # N /\ n = N
      <3>1. m \in models /\ m.rev # rev /\ m.at <= clock
        BY <2>1, <2>4, <1>1, ModelFields
      <3>. QED
        BY <3>1, <2>4, <1>3
    <2>5. CASE m # N /\ n # N
      BY <2>1, <2>5, <1>1 DEF ModelsInOrder
    <2>. QED
      BY <2>2, <2>3, <2>4, <2>5
  <1>9. RowsTyped' /\ RowsInOrder' /\ RowsKept
    BY <1>0, <1>1, RowsUnchanged
  <1>10. HistoryOK'
    <2>1. ModelsGrow
      <3>1. ASSUME NEW m \in Reliable PROVE m \in Reliable' /\ m.rev # rev
        <4>1. m \in models /\ m.reliable /\ m.rev < rev /\ m.rev \in Nat
          BY <1>1, <1>5 DEF Reliable
        <4>. QED
          BY <4>1, <1>2, <1>5 DEF Reliable
      <3>2. ASSUME NEW m \in Reliable' \ Reliable PROVE m = N
        BY <1>2 DEF Reliable, N
      <3>. QED
        BY <3>1, <3>2, <1>1, <1>3 DEF ModelsGrow
    <2>2. clock <= clock'
      BY <1>0, <1>1
    <2>. QED
      BY <2>1, <2>2, <1>0, <1>1, <1>7, <1>9, HistoryStays
  <1>11. \A x \in Int : x <= Base + orders + 1 => x <= Base' + orders + 1
    <2>1. orders <= orders /\ Base <= Base' /\ Base' \in Nat
      BY <1>1, <1>4, Constants
    <2>. QED
      BY <2>1, <1>1, Sums, Zenon
  <1>12. RevisionsBounded'
    <2>1. revision <= Base' + orders + 1
      BY <1>1, <1>11 DEF RevisionsBounded
    <2>2. ASSUME NEW m \in models'
          PROVE  /\ m.rev <= Base' + orders + 1
                 /\ revision # 0 => m.rev <= revision
                 /\ Running /\ revision = 0 => m.rev <= Stride * (Latest + 1)
      <3>1. CASE m = N
        BY <3>1, <1>3, <1>4, <1>5 DEF Ceiling
      <3>2. CASE m # N
        <4>1. m \in models
          BY <3>2, <1>2 DEF N
        <4>. QED
          BY <4>1, <1>1, <1>11 DEF RevisionsBounded
      <3>. QED
        BY <3>1, <3>2
    <2>. QED
      BY <2>1, <2>2, <1>0 DEF RevisionsBounded
  <1>13. SnapshotKept'
    <2>1. /\ snap.rev \in Nat /\ snap.rev <= Base + orders + 1
          /\ Running /\ revision = 0 => snap.rev = 0
          /\ Last(rows).scopes = {}
      BY <1>0, <1>1 DEF SnapshotKept
    <2>2. snap.rev <= Base' + orders + 1
      BY <2>1, <1>11
    <2>. QED
      BY <2>1, <2>2, <1>0, <1>4 DEF SnapshotKept
  <1>14. CallsOK'
    BY <1>0, <1>1, LastRow DEF CallsOK
  <1>. QED
    BY <1>7, <1>8, <1>9, <1>10, <1>12, <1>13, <1>14 DEF CatalogueOK

\* PlanMonitoringCheck.
LEMMA PlanAction ==
    ASSUME CatalogueOK, HistoryOK, CallsOK, Plan
    PROVE  CatalogueOK' /\ HistoryOK' /\ CallsOK'
  <1>0. /\ pc = "plan" /\ pc' = "complete" /\ Running
        /\ UNCHANGED <<clock, models, revision, orders, late, snap>>
    BY DEF Plan
  <1>1. /\ ModelsTyped /\ RowsTyped /\ RowsInOrder /\ ModelsInOrder /\ RevisionsBounded
        /\ SnapshotKept /\ Base \in Nat /\ Base + orders + 1 \in Int
        /\ \A m \in models : m.rev \in Nat /\ m.rev <= Base + orders + 1
    BY Facts
  <1>2. Usable = Reliable
    <2>1. revision # 0 => \A m \in models : m.rev <= revision
      BY <1>1 DEF RevisionsBounded
    <2>. QED
      BY <2>1, <1>1, UsableIsReliable
  <1>3. Last(rows).scopes = {}
    BY <1>0, <1>1 DEF SnapshotKept
  <1>4. /\ RowsTyped' /\ RowsInOrder' /\ HistoryOK' /\ PlanFits(plan)'
        /\ Running' /\ rows # <<>> /\ rows' # <<>> /\ Latest' = Latest
    BY <1>1, <1>2, <1>3, PlanStep
  <1>5. ModelsTyped' /\ ModelsInOrder'
    BY <1>0, <1>1 DEF ModelsTyped, ModelsInOrder
  <1>6. Base' = Base
    BY <1>0, <1>4 DEF Base
  <1>7. RevisionsBounded'
    BY <1>0, <1>1, <1>4, <1>6 DEF RevisionsBounded
  <1>8. SnapshotKept'
    BY <1>0, <1>1, <1>4, <1>6 DEF SnapshotKept
  <1>9. CallsOK'
    <2>1. ASSUME NEW c \in late
          PROVE  c.started \in Nat /\ c.rev \in Nat \ {0} /\ c.started <= Latest /\ c.started < Latest
      BY <1>0 DEF CallsOK
    <2>2. Latest \in Nat
      BY <1>1, <1>4, LastRow
    <2>. QED
      BY <2>1, <2>2, <1>0, <1>4 DEF CallsOK
  <1>. QED
    BY <1>4, <1>5, <1>7, <1>8, <1>9 DEF CatalogueOK

\* BeginRelearn after a first revision was taken.
LEMMA RelearnStep ==
    ASSUME CatalogueOK, HistoryOK, CallsOK, BeginRelearn, revision # 0
    PROVE  CatalogueOK' /\ HistoryOK' /\ CallsOK'
  <1>0. /\ revision' = revision + 1 /\ orders' = orders + 1 /\ orders < MaxOrders
        /\ UNCHANGED <<clock, models, rows, judged, anchor, late, pc, snap, plan>>
        /\ Reliable' = Reliable /\ Latest' = Latest /\ Running' = Running
    BY DEF BeginRelearn, Order, worker, Reliable, Latest, Running
  <1>1. /\ ModelsTyped /\ RowsTyped /\ RowsInOrder /\ ModelsInOrder /\ RevisionsBounded
        /\ SnapshotKept /\ clock \in Nat /\ revision \in Nat /\ orders \in Nat
        /\ Base \in Nat
        /\ \A m \in models : m.rev \in Nat /\ m.rev <= Base + orders + 1
    BY Facts
  <1>2. ModelsTyped' /\ ModelsInOrder'
    BY <1>0, <1>1, Constants DEF ModelsTyped, ModelsInOrder
  <1>3. RowsTyped' /\ RowsInOrder' /\ RowsKept
    BY <1>0, <1>1, RowsUnchanged
  <1>4. HistoryOK'
    <2>1. ModelsGrow
      BY <1>0 DEF ModelsGrow
    <2>2. clock <= clock'
      BY <1>0, <1>1
    <2>. QED
      BY <2>1, <2>2, <1>0, <1>1, <1>2, <1>3, HistoryStays
  <1>5. Base' = Base
    BY <1>0 DEF Base
  <1>6. RevisionsBounded'
    <2>1. revision' <= Base + orders' + 1
      BY <1>0, <1>1 DEF RevisionsBounded
    <2>2. \A m \in models : m.rev <= Base + orders' + 1 /\ m.rev <= revision'
      BY <1>0, <1>1 DEF RevisionsBounded
    <2>3. revision' # 0
      BY <1>0, <1>1
    <2>. QED
      BY <2>1, <2>2, <2>3, <1>0, <1>5 DEF RevisionsBounded
  <1>7. SnapshotKept'
    <2>1. revision' # 0
      BY <1>0, <1>1
    <2>2. pc \in {"learn", "plan", "complete"} => snap.rev \in Nat /\ snap.rev <= Base + orders' + 1
      BY <1>0, <1>1 DEF SnapshotKept
    <2>3. pc = "learn" => snap.rev # 0 /\ snap.rev <= revision'
      BY <2>2, <1>0, <1>1 DEF SnapshotKept
    <2>. QED
      BY <2>1, <2>2, <2>3, <1>0, <1>1, <1>5 DEF SnapshotKept
  <1>8. CallsOK'
    <2>1. \A p : PlanFits(p) => PlanFits(p)'
      BY <1>0, PlanStays
    <2>2. revision' # 0
      BY <1>0, <1>1
    <2>3. pc' = "complete" /\ Running' => PlanFits(plan)'
      BY <2>1, <1>0 DEF CallsOK
    <2>4. ASSUME NEW c \in late
          PROVE  /\ c.started \in Nat /\ c.rev \in Nat \ {0} /\ rows # <<>> /\ c.started <= Latest
                 /\ pc # "idle" => c.started < Latest
                 /\ Running /\ c.started = Latest => PlanFits(c.plan)'
      BY <2>1 DEF CallsOK
    <2>. QED
      BY <2>2, <2>3, <2>4, <1>0 DEF CallsOK
  <1>. QED
    BY <1>2, <1>3, <1>4, <1>6, <1>7, <1>8 DEF CatalogueOK

\* CompleteMonitoringCheck, in time or after its caller has stopped waiting.
LEMMA CommitAction ==
    ASSUME CatalogueOK, HistoryOK, CallsOK, NEW c, Commit(c), PlanFits(c.plan),
           c.rev \in Nat \ {0}, revision = 0 => c.rev = Stride * (Latest + 1),
           c.rev <= Base + orders + 1, pc \in {"idle", "complete"}, pc' = "idle",
           late' \subseteq late, UNCHANGED <<clock, models, orders>>
    PROVE  CatalogueOK' /\ HistoryOK' /\ CallsOK'
  <1>0. /\ Running /\ revision \in {0, c.rev} /\ revision' = c.rev /\ UNCHANGED anchor
        /\ rows' = Kept([rows EXCEPT ![Len(rows)].status = "completed",
                                     ![Len(rows)].finished = clock], c.rev)
        /\ judged' = judged \cup {s \in c.plan : s.from < s.to}
    BY DEF Commit
  <1>1. /\ ModelsTyped /\ RowsTyped /\ RowsInOrder /\ ModelsInOrder /\ RevisionsBounded
        /\ SnapshotKept /\ Base \in Nat
        /\ \A m \in models : m.rev \in Nat /\ m.rev <= Base + orders + 1
    BY Facts
  <1>2. /\ RowsTyped' /\ RowsInOrder' /\ HistoryOK'
        /\ ~Running' /\ rows # <<>> /\ rows' # <<>> /\ Latest' = Latest
    BY <1>0, <1>1, CommitStep
  <1>3. ModelsTyped' /\ ModelsInOrder'
    BY <1>0, <1>1 DEF ModelsTyped, ModelsInOrder
  <1>4. Base' = Base
    BY <1>2 DEF Base
  <1>5. \A m \in models : m.rev <= c.rev
    BY <1>0, <1>1 DEF RevisionsBounded
  <1>6. RevisionsBounded'
    BY <1>0, <1>1, <1>2, <1>4, <1>5 DEF RevisionsBounded
  <1>7. SnapshotKept'
    BY DEF SnapshotKept
  <1>8. CallsOK'
    BY <1>2 DEF CallsOK
  <1>. QED
    BY <1>2, <1>3, <1>6, <1>7, <1>8 DEF CatalogueOK

\* The completion that the worker sends.
LEMMA CompletionOK ==
    ASSUME CatalogueOK, CallsOK, pc = "complete", Running
    PROVE  /\ PlanFits(Completion.plan) /\ Completion.started = Latest
           /\ Completion.started \in Nat
           /\ Completion.rev \in Nat \ {0} /\ Completion.rev <= Base + orders + 1
           /\ revision = 0 => Completion.rev = Stride * (Latest + 1)
  <1>1. /\ RowsTyped /\ SnapshotKept /\ orders \in Nat /\ Base \in Nat
    BY Facts
  <1>2. rows # <<>> /\ Latest \in Nat
    BY <1>1, LastRow DEF Running
  <1>3. Base = Ceiling /\ Ceiling \in Nat /\ Ceiling = Floor + Stride /\ Floor \in Nat
    BY <1>1, <1>2, BaseOf
  <1>4. /\ Completion.plan = plan /\ Completion.started = Latest
        /\ Completion.rev = (IF snap.rev = 0 THEN Ceiling ELSE snap.rev)
    BY DEF Completion, Latest, Revision, Ceiling
  <1>5. snap.rev \in Nat /\ snap.rev <= Base + orders + 1 /\ (revision = 0 => snap.rev = 0)
    BY <1>1 DEF SnapshotKept
  <1>6. Ceiling # 0 /\ Ceiling <= Base + orders + 1
    BY <1>1, <1>3, Constants
  <1>7. PlanFits(plan)
    BY DEF CallsOK
  <1>8. revision = 0 => Completion.rev = Stride * (Latest + 1)
    BY <1>4, <1>5 DEF Ceiling
  <1>. QED
    BY <1>2, <1>3, <1>4, <1>5, <1>6, <1>7, <1>8

-----------------------------------------------------------------------------
(* The theorems.                                                           *)

\* A new archive, and one with an imported model.
LEMMA InitInv == Init => Inv
  <1>. SUFFICES ASSUME Init PROVE CatalogueOK /\ HistoryOK /\ CallsOK
    BY DEF Inv
  <1>0. /\ clock = 0 /\ rows = <<>> /\ pc = "idle" /\ late = {} /\ orders = 0
        /\ judged = {} /\ anchor = NoTime
    BY DEF Init
  <1>1. Base = 0 /\ DOMAIN rows = {} /\ ~Running
    BY <1>0, Constants DEF Base, Running
  <1>2. \/ revision = 0 /\ models = {}
        \/ \E s \in Imported :
             /\ revision = 1
             /\ models = {[rev |-> 1, at |-> -Day, schedule |-> s, reliable |-> TRUE]}
    BY DEF Init
  <1>3. ModelsTyped /\ ModelsInOrder /\ RevisionsBounded
    <2>1. CASE revision = 0 /\ models = {}
      BY <2>1, <1>0, <1>1, Constants DEF ModelsTyped, ModelsInOrder, RevisionsBounded
    <2>2. ASSUME NEW s \in Imported, revision = 1,
                 models = {[rev |-> 1, at |-> -Day, schedule |-> s, reliable |-> TRUE]}
          PROVE  ModelsTyped /\ ModelsInOrder /\ RevisionsBounded
      <3>. DEFINE m == [rev |-> 1, at |-> -Day, schedule |-> s, reliable |-> TRUE]
      <3>1. m \in Model /\ m.rev = 1 /\ m.at = -Day
        BY Constants DEF Model
      <3>2. models = {m}
        BY <2>2
      <3>. HIDE DEF m
      <3>3. -Day <= 0 /\ -Day \in Int
        BY Constants
      <3>4. ModelsTyped
        BY <3>1, <3>2, <3>3, <2>2, <1>0, Constants DEF ModelsTyped
      <3>5. ModelsInOrder
        BY <3>1, <3>2 DEF ModelsInOrder
      <3>6. RevisionsBounded
        BY <3>1, <3>2, <2>2, <1>0, <1>1 DEF RevisionsBounded
      <3>. QED
        BY <3>4, <3>5, <3>6
    <2>. QED
      BY <2>1, <2>2, <1>2
  <1>4. RowsTyped /\ RowsInOrder /\ SnapshotKept
    BY <1>0, <1>1 DEF RowsTyped, RowsInOrder, SnapshotKept
  <1>5. ScopesOK /\ ScopesLater /\ JudgedTyped /\ Frontier
    BY <1>0, <1>1, Constants DEF ScopesOK, ScopesLater, JudgedTyped, Frontier
  <1>6. Tiles
    <2>1. End = NoTime
      BY <1>0, <1>5, EndOf
    <2>. QED
      BY <2>1, <1>0, Constants DEF Tiles
  <1>. QED
    BY <1>0, <1>1, <1>3, <1>4, <1>5, <1>6 DEF CatalogueOK, HistoryOK, CallsOK

\* The answer of a completion is lost.
LEMMA AnswerLostStep ==
    ASSUME CatalogueOK, HistoryOK, CallsOK, AnswerLost
    PROVE  CatalogueOK' /\ HistoryOK' /\ CallsOK'
  <1>0. /\ pc = "complete" /\ Running /\ pc' = "idle" /\ late' = late \cup {Completion}
        /\ UNCHANGED <<clock, models, revision, orders, judged, anchor>>
        /\ rows' = rows \/ rows' = Fail(clock)
    BY DEF AnswerLost, GiveUp, history
  <1>1. /\ clock \in Nat /\ orders \in 0 .. MaxOrders /\ orders <= orders /\ clock <= clock
        /\ RowsTyped /\ rows # <<>>
    BY <1>0, Facts DEF CatalogueOK, ModelsTyped, Running
  <1>2. /\ PlanFits(Completion.plan) /\ Completion.started = Latest
        /\ Completion.started \in Nat /\ Completion.started <= Latest
        /\ Completion.rev \in Nat \ {0}
        /\ revision = 0 => Completion.rev = Stride * (Latest + 1)
    BY <1>0, <1>1, CompletionOK
  <1>3. CASE rows' = rows
    BY <1>0, <1>1, <1>2, <1>3, QuietStep
  <1>4. CASE rows' = Fail(clock)
    BY <1>0, <1>1, <1>2, <1>4, ClosingStep
  <1>. QED
    BY <1>0, <1>3, <1>4

\* Every step preserves the invariant.
LEMMA NextInv == Inv /\ [Next]_vars => Inv'
  <1>. SUFFICES ASSUME Inv, [Next]_vars PROVE Inv'
    OBVIOUS
  <1>. USE DEF history, worker
  <1>1. early => early'
    BY DEF Next, Check, Tick, Arrive, Start, Snapshot, SaveModel, Plan, Refused, Complete,
           Commit, BeginRelearn, SetupAutomation, CreateAnomalyExclusion, CallFails,
           AnswerLost, Die, LateCompletion, LateRefused, vars
  <1>2. CASE early
    BY <1>1, <1>2 DEF Inv
  <1>3. CASE ~early
    <2>0. CatalogueOK /\ HistoryOK /\ CallsOK
      BY <1>3 DEF Inv
    <2>1. /\ clock \in Nat /\ orders \in 0 .. MaxOrders /\ orders \in Nat /\ orders <= orders
          /\ clock <= clock /\ RowsTyped /\ MaxOrders \in Nat
      BY <2>0, Facts, Constants DEF CatalogueOK, ModelsTyped
    <2>. SUFFICES (CatalogueOK' /\ HistoryOK' /\ CallsOK') \/ early'
      BY DEF Inv
    <2>2. CASE Tick
      <3>1. clock' \in Nat /\ clock <= clock'
        BY <2>1, <2>2 DEF Tick
      <3>. QED
        BY <3>1, <2>0, <2>1, <2>2, QuietStep DEF Tick
    <2>3. ASSUME NEW id \in Copies, Arrive(id)
          PROVE  CatalogueOK' /\ HistoryOK' /\ CallsOK'
      <3>1. UNCHANGED <<clock, models, revision, rows, pc, snap, plan, late, orders, judged, anchor>>
        BY <2>3 DEF Arrive
      <3>. QED
        BY <3>1, <2>0, <2>1, QuietStep
    <2>4. CASE Start
      BY <2>0, <2>4, StartStep
    <2>5. CASE Snapshot
      BY <2>0, <2>5, SnapshotStep
    <2>6. CASE SaveModel
      BY <2>0, <2>6, SaveModelStep
    <2>7. CASE Plan
      BY <2>0, <2>7, PlanAction
    <2>8. CASE Refused
      <3>1. /\ rows' = Fail(clock) /\ pc' = "idle"
            /\ UNCHANGED <<clock, models, revision, late, orders, judged, anchor>>
        BY <2>8 DEF Refused, GiveUp
      <3>. QED
        BY <3>1, <2>0, <2>1, ClosingStep
    <2>9. CASE Complete
      <3>1. /\ pc = "complete" /\ Commit(Completion) /\ pc' = "idle" /\ Running
            /\ UNCHANGED <<clock, models, late, orders>>
        BY <2>9 DEF Complete, GiveUp, Commit
      <3>2. /\ PlanFits(Completion.plan)
            /\ Completion.rev \in Nat \ {0} /\ Completion.rev <= Base + orders + 1
            /\ revision = 0 => Completion.rev = Stride * (Latest + 1)
        BY <3>1, <2>0, CompletionOK
      <3>. QED
        BY <3>1, <3>2, <2>0, CommitAction
    <2>10. CASE BeginRelearn
      <3>1. CASE revision = 0
        BY <2>10, <3>1 DEF BeginRelearn
      <3>2. CASE revision # 0
        BY <2>0, <2>10, <3>2, RelearnStep
      <3>. QED
        BY <3>1, <3>2
    <2>11. CASE SetupAutomation
      <3>1. /\ rows' = Fail(clock) /\ revision' = 0 /\ orders' = orders + 1 /\ orders < MaxOrders
            /\ UNCHANGED <<clock, models, late, judged, anchor, pc, snap>>
        BY <2>11 DEF SetupAutomation, Order
      <3>2. orders' \in 0 .. MaxOrders /\ orders <= orders'
        BY <3>1, <2>1
      <3>. QED
        BY <3>1, <3>2, <2>0, ClosingStep
    <2>12. ASSUME NEW i \in alerts, CreateAnomalyExclusion(i)
           PROVE  CatalogueOK' /\ HistoryOK' /\ CallsOK'
      <3>1. /\ orders' = orders + 1 /\ orders < MaxOrders
            /\ UNCHANGED <<clock, models, revision, rows, pc, snap, plan, late, judged, anchor>>
        BY <2>12 DEF CreateAnomalyExclusion, Order
      <3>2. orders' \in 0 .. MaxOrders /\ orders <= orders'
        BY <3>1, <2>1
      <3>. QED
        BY <3>1, <3>2, <2>0, <2>1, QuietStep
    <2>13. CASE CallFails
      <3>1. /\ rows' = Fail(clock) /\ pc' = "idle"
            /\ UNCHANGED <<clock, models, revision, late, orders, judged, anchor>>
        BY <2>13 DEF CallFails, GiveUp
      <3>. QED
        BY <3>1, <2>0, <2>1, ClosingStep
    <2>14. CASE AnswerLost
      BY <2>0, <2>14, AnswerLostStep
    <2>15. CASE Die
      <3>1. pc' = "idle" /\ UNCHANGED <<clock, models, revision, rows, late, orders, judged, anchor>>
        BY <2>15 DEF Die, GiveUp
      <3>. QED
        BY <3>1, <2>0, <2>1, QuietStep
    <2>16. ASSUME NEW c \in late, LateCompletion(c)
           PROVE  CatalogueOK' /\ HistoryOK' /\ CallsOK'
      <3>1. /\ Commit(c) /\ Running /\ Latest = c.started /\ revision \in {0, c.rev}
            /\ UNCHANGED <<clock, models, orders, pc>> /\ late' \subseteq late
        BY <2>16 DEF LateCompletion, Commit, Latest
      <3>2. /\ c.started \in Nat /\ c.rev \in Nat \ {0} /\ rows # <<>>
            /\ pc # "idle" => c.started < Latest
            /\ PlanFits(c.plan) /\ (revision = 0 => c.rev = Stride * (Latest + 1))
        BY <3>1, <2>0 DEF CallsOK
      <3>3. pc = "idle"
        BY <3>1, <3>2
      <3>4. c.rev <= Base + orders + 1
        <4>1. CASE revision # 0
          BY <4>1, <3>1, <2>0, Facts DEF RevisionsBounded
        <4>2. CASE revision = 0
          <5>1. c.rev = Base
            BY <4>2, <3>2, <3>3 DEF Base
          <5>. QED
            BY <5>1, <2>0, <2>1, Facts
        <4>. QED
          BY <4>1, <4>2
      <3>. QED
        BY <3>1, <3>2, <3>3, <3>4, <2>0, CommitAction
    <2>17. ASSUME NEW c \in late, LateRefused(c)
           PROVE  CatalogueOK' /\ HistoryOK' /\ CallsOK'
      <3>1. /\ late' \subseteq late
            /\ UNCHANGED <<clock, models, revision, rows, pc, snap, plan, orders, judged, anchor>>
        BY <2>17 DEF LateRefused
      <3>. QED
        BY <3>1, <2>0, <2>1, QuietStep
    <2>18. CASE UNCHANGED vars
      <3>1. UNCHANGED <<clock, models, revision, rows, pc, snap, plan, late, orders, judged, anchor>>
        BY <2>18 DEF vars
      <3>. QED
        BY <3>1, <2>0, <2>1, QuietStep
    <2>. QED
      BY <2>2, <2>3, <2>4, <2>5, <2>6, <2>7, <2>8, <2>9, <2>10, <2>11, <2>12, <2>13,
         <2>14, <2>15, <2>16, <2>17, <2>18 DEF Next, Check
  <1>. QED
    BY <1>2, <1>3

\* Theorem: the rows of monitoring_checks, the models and revisions, the plan of
\* the worker and the completions under way fit what was judged, through any
\* StartMonitoringCheck, SaveModel, PlanMonitoringCheck, CompleteMonitoringCheck,
\* relearning, setup, death, failed call and late completion.
THEOREM MonitoringInvariant == Spec => []Inv
  BY InitInv, NextInv, PTL DEF Spec

\* Coverage, in the words of the property.
LEMMA TilesCovers == Inv => CoverageTiles
  <1>. SUFFICES ASSUME Inv, ~early, judged # {} PROVE CoverageTiles
    BY DEF CoverageTiles, RelearnedAtRevisionZero
  <1>. DEFINE tos == {c.to : c \in judged}
              end == Max(tos)
              Judges(x) == Cardinality({c \in judged : Judge(c, x)})
  <1>0. JudgedTyped /\ Tiles /\ clock \in Nat
    BY Facts DEF Inv, HistoryOK
  <1>1. /\ End \in Int /\ anchor \in Int /\ anchor <= End
        /\ \A c \in judged : c.to <= End /\ c.to \in Int /\ anchor < c.to /\ anchor <= c.from
        /\ End = anchor \/ \E c \in judged : End = c.to
    BY <1>0, EndOf DEF JudgedTyped, Segment
  <1>2. \E c \in judged : End = c.to
    BY <1>1
  <1>3. end = End
    <2>1. tos \in SUBSET Int /\ tos # {} /\ End \in tos /\ \A x \in tos : x <= End
      BY <1>1, <1>2
    <2>. HIDE DEF tos
    <2>2. end \in tos /\ end \in Int /\ \A x \in tos : x <= end
      BY <2>1, <1>1, MaxOf
    <2>. QED
      BY <2>1, <2>2, <1>1
  <1>4. ASSUME NEW x \in anchor + 1 .. End
        PROVE  Judges(x) = 1 \/ (Judges(x) = 0 /\ \A m \in models : m.reliable => x <= m.at)
    <2>1. CASE \E c \in judged : Judge(c, x) /\ \A d \in judged : Judge(d, x) => d = c
      <3>1. PICK c \in judged : Judge(c, x) /\ \A d \in judged : Judge(d, x) => d = c
        BY <2>1
      <3>2. {d \in judged : Judge(d, x)} = {c}
        BY <3>1
      <3>. QED
        BY <3>2, FS_Singleton
    <2>2. CASE (\A c \in judged : ~Judge(c, x)) /\ \A m \in Reliable : x <= m.at
      <3>1. {c \in judged : Judge(c, x)} = {}
        BY <2>2
      <3>. QED
        BY <3>1, <2>2, FS_EmptySet DEF Reliable
    <2>. QED
      BY <2>1, <2>2, <1>0 DEF Tiles
  <1>5. \A c \in judged : c.from >= anchor
    BY <1>0, <1>1 DEF JudgedTyped, Segment
  <1>. HIDE DEF Judges
  <1>6. \A x \in anchor + 1 .. end :
           Judges(x) = 1 \/ (Judges(x) = 0 /\ \A m \in models : m.reliable => x <= m.at)
    BY <1>3, <1>4
  <1>. QED
    BY <1>5, <1>6 DEF CoverageTiles, Judges

\* Theorem: PlanMonitoringCheck and CompleteMonitoringCheck judge every instant of
\* the coverage once, or not at all when no model was in force; no retry, death,
\* late completion or cleanup of rows makes a gap or repeats a period.
THEOREM CoverageIsTiled == Spec => []CoverageTiles
  BY MonitoringInvariant, TilesCovers, PTL

\* InForce is the property of every judged period.
LEMMA InForceJudges == Inv => ModelInForce
  <1>. SUFFICES ASSUME Inv, ~early, NEW c \in judged
                PROVE  /\ c.from < c.model.at => c.from = anchor
                       /\ \A n \in models : n.reliable => ~(c.model.at < n.at /\ n.at < c.to)
    BY DEF ModelInForce, RelearnedAtRevisionZero
  <1>1. InForce(c)
    BY DEF Inv, HistoryOK
  <1>. QED
    BY <1>1 DEF InForce, Reliable

\* Theorem: PlanMonitoringCheck judges every period by the reliable model that was
\* in force in it; only the initial window may precede its model.
THEOREM JudgedByTheModelInForce == Spec => []ModelInForce
  BY MonitoringInvariant, InForceJudges, PTL

\* An announced incident stays open until an exclusion covers it.
Announced == ~again /\ \A i \in alerts : i \in incidents \/ Excluded(i)

\* openAnomalyAtTx announces what is neither open nor excluded.
LEMMA OpenAnnounces ==
    ASSUME Announced, NEW found, Open(found), UNCHANGED exclusions
    PROVE  Announced'
  <1>. DEFINE new == {i \in found : ~Excluded(i)} \ incidents
  <1>1. new \cap alerts = {}
    BY DEF Announced
  <1>2. /\ incidents' = incidents \cup new /\ again' = (again \/ new \cap alerts # {})
        /\ alerts' = alerts \cup new
    BY DEF Open
  <1>3. \A i : Excluded(i)' = Excluded(i)
    BY DEF Excluded
  <1>. HIDE DEF new
  <1>. QED
    BY <1>1, <1>2, <1>3 DEF Announced

\* Theorem: openAnomalyAtTx announces no incident twice, whether an arrival or a
\* check finds it again, in any order with exclusions and repeated checks.
THEOREM NoIncidentAnnouncedTwice == Spec => []AnnouncedOnce
  <1>1. Init => Announced
    BY DEF Init, Announced
  <1>2. Announced /\ [Next]_vars => Announced'
    <2>. SUFFICES ASSUME Announced, [Next]_vars PROVE Announced'
      OBVIOUS
    <2>1. ASSUME UNCHANGED <<incidents, exclusions, alerts, again>> PROVE Announced'
      BY <2>1 DEF Announced, Excluded
    <2>2. ASSUME NEW id \in Copies, Arrive(id) PROVE Announced'
      <3>1. \E found : Open(found) /\ UNCHANGED exclusions
        BY <2>2 DEF Arrive
      <3>. QED
        BY <3>1, OpenAnnounces
    <2>3. ASSUME NEW c, Commit(c), UNCHANGED exclusions PROVE Announced'
      BY <2>3, OpenAnnounces DEF Commit
    <2>4. ASSUME NEW i \in alerts, CreateAnomalyExclusion(i) PROVE Announced'
      <3>1. alerts' = alerts /\ again' = again
        BY <2>4 DEF CreateAnomalyExclusion, history
      <3>2. PICK kinds \in {{"missing"}, {"extra"}} :
              LET e == [kinds |-> kinds, from |-> Midnight(i.at), to |-> Midnight(i.at) + Day - 1]
              IN  /\ exclusions' = exclusions \cup {e}
                  /\ incidents' = {j \in incidents : ~(/\ j.kind \in kinds
                                                       /\ e.from <= j.at /\ j.at <= e.to)}
        BY <2>4 DEF CreateAnomalyExclusion
      <3>. DEFINE e == [kinds |-> kinds, from |-> Midnight(i.at), to |-> Midnight(i.at) + Day - 1]
      <3>3. e \in exclusions' /\ exclusions \subseteq exclusions' /\ e.kinds = kinds
        BY <3>2
      <3>4. incidents' = {j \in incidents : ~(/\ j.kind \in kinds
                                              /\ e.from <= j.at /\ j.at <= e.to)}
        BY <3>2
      <3>. HIDE DEF e
      <3>5. ASSUME NEW j \in alerts PROVE j \in incidents' \/ Excluded(j)'
        <4>1. CASE j \in incidents
          BY <4>1, <3>3, <3>4 DEF Excluded
        <4>2. CASE Excluded(j)
          BY <4>2, <3>3 DEF Excluded
        <4>. QED
          BY <4>1, <4>2 DEF Announced
      <3>. QED
        BY <3>1, <3>5 DEF Announced
    <2>5. CASE Complete
      BY <2>3, <2>5 DEF Complete
    <2>6. ASSUME NEW c \in late, LateCompletion(c) PROVE Announced'
      BY <2>3, <2>6 DEF LateCompletion
    <2>7. CASE Tick \/ Start \/ Snapshot \/ SaveModel \/ Plan \/ Refused
      BY <2>1, <2>7 DEF Tick, Start, Snapshot, SaveModel, Plan, Refused, history
    <2>8. CASE BeginRelearn \/ SetupAutomation \/ CallFails \/ AnswerLost \/ Die \/ UNCHANGED vars
      BY <2>1, <2>8 DEF BeginRelearn, SetupAutomation, CallFails, AnswerLost, Die, history, vars
    <2>9. ASSUME NEW c \in late, LateRefused(c) PROVE Announced'
      BY <2>1, <2>9 DEF LateRefused, history
    <2>. QED
      BY <2>2, <2>4, <2>5, <2>6, <2>7, <2>8, <2>9 DEF Next, Check
  <1>3. Announced => AnnouncedOnce
    BY DEF Announced, AnnouncedOnce
  <1>. QED
    BY <1>1, <1>2, <1>3, PTL DEF Spec

-----------------------------------------------------------------------------
(* Pairing copies with appointments.                                       *)

\* Copies and appointments come after NoTime.
Stored(obs)  == \A o \in obs : o \in [id : Copies, at : Int] /\ NoTime < o.at
Instants(slots) == \A s \in slots : s \in Int /\ NoTime < s
Near(o, s)   == s - Tolerance <= o.at /\ o.at <= s + Tolerance

\* matchAppointments, one copy at a time: the appointment that the copies before
\* o have reached, and the choice o makes from there.
Ahead(obs, o) == {q \in obs : Earlier(q, o)}
Reached(g, obs, o) == Max({NoTime} \cup {g[p] : p \in Ahead(obs, o)})
Choice(slots, last, o) ==
    LET free == {s \in slots : last < s /\ o.at <= s + Tolerance}
    IN  IF free # {} /\ o.at >= Min(free) - Tolerance THEN Min(free) ELSE NoTime
Pairs(slots, obs, g) == \A o \in obs : g[o] = Choice(slots, Reached(g, obs, o), o)
Within(g, obs) == \A o \in obs : /\ g[o] \in Int /\ NoTime <= g[o]
                                 /\ g[o] # NoTime => g[o] <= o.at + Tolerance

\* Earlier is a linear order of copies.
LEMMA EarlierOrder ==
    ASSUME NEW obs, Stored(obs), NEW o \in obs, NEW p \in obs
    PROVE  /\ o.at \in Int /\ o.id \in Nat
           /\ ~Earlier(o, o)
           /\ Earlier(o, p) => ~Earlier(p, o) /\ o.at <= p.at
           /\ o = p \/ Earlier(o, p) \/ Earlier(p, o)
           /\ \A q \in obs : Earlier(o, p) /\ Earlier(p, q) => Earlier(o, q)
  <1>1. \A q \in obs : q.at \in Int /\ q.id \in Nat /\ q = [id |-> q.id, at |-> q.at]
    BY MonitoringAssumption DEF Stored
  <1>2. o = p \/ Earlier(o, p) \/ Earlier(p, o)
    BY <1>1 DEF Earlier
  <1>. QED
    BY <1>1, <1>2 DEF Earlier

\* Every set of copies has a first one.
LEMMA FirstCopy ==
    ASSUME NEW obs, Stored(obs), obs # {}
    PROVE  \E x \in obs : \A y \in obs : x = y \/ Earlier(x, y)
  <1>. DEFINE ats == {o.at - NoTime : o \in obs}
  <1>0. \A o \in obs : o.at \in Int /\ o.id \in Nat /\ o.at - NoTime \in Nat
    <2>. TAKE o \in obs
    <2>1. o.at \in Int /\ o.id \in Nat /\ NoTime < o.at
      BY EarlierOrder DEF Stored
    <2>. QED
      BY <2>1, Constants
  <1>1. ats \in SUBSET Nat /\ ats # {}
    BY <1>0
  <1>2. PICK a \in ats : \A b \in ats : a <= b
    BY <1>1, LeastOf
  <1>3. PICK o \in obs : a = o.at - NoTime
    BY <1>2
  <1>4. \A y \in obs : o.at <= y.at
    <2>. TAKE y \in obs
    <2>1. a <= y.at - NoTime
      BY <1>2
    <2>. HIDE DEF ats
    <2>. QED
      BY <1>0, <1>3, <2>1, Constants
  <1>. DEFINE ids == {y.id : y \in {z \in obs : z.at = o.at}}
  <1>5. ids \in SUBSET Nat /\ ids # {}
    BY <1>0
  <1>6. PICK i \in ids : \A j \in ids : i <= j
    BY <1>5, LeastOf
  <1>7. PICK x \in obs : x.at = o.at /\ x.id = i
    BY <1>6
  <1>8. ASSUME NEW y \in obs, Earlier(y, x) PROVE FALSE
    <2>1. y.at = o.at /\ y.id < i
      BY <1>0, <1>4, <1>7, <1>8 DEF Earlier
    <2>2. y.id \in ids
      BY <2>1
    <2>3. y.id \in Nat /\ i \in Nat
      BY <1>0, <1>5, <1>6
    <2>. HIDE DEF ids, ats
    <2>4. i <= y.id
      BY <1>6, <2>2
    <2>. QED
      BY <2>1, <2>3, <2>4
  <1>. QED
    BY <1>7, <1>8, EarlierOrder

\* A finite set of copies has a last one.
LEMMA LastCopy ==
    ASSUME NEW obs, Stored(obs), IsFiniteSet(obs), obs # {}
    PROVE  \E x \in obs : \A y \in obs : x = y \/ Earlier(y, x)
  <1>. DEFINE P == {s \in SUBSET obs : s = {} \/ \E x \in s : \A y \in s : x = y \/ Earlier(y, x)}
  <1>1. ASSUME NEW s \in SUBSET obs, \A t \in SUBSET s : t # s => t \in P
        PROVE  s \in P
    <2>1. CASE s = {}
      BY <2>1
    <2>2. CASE s # {}
      <3>1. PICK x \in s : TRUE
        BY <2>2
      <3>2. s \ {x} \in SUBSET s /\ s \ {x} # s
        BY <3>1
      <3>3. s \ {x} \in P
        BY <1>1, <3>2
      <3>4. CASE s \ {x} = {}
        BY <3>1, <3>4
      <3>5. CASE \E y \in s \ {x} : \A z \in s \ {x} : y = z \/ Earlier(z, y)
        <4>1. PICK y \in s \ {x} : \A z \in s \ {x} : y = z \/ Earlier(z, y)
          BY <3>5
        <4>2. CASE Earlier(x, y)
          BY <3>1, <4>1, <4>2
        <4>3. CASE Earlier(y, x)
          <5>1. \A z \in s : x = z \/ Earlier(z, x)
            BY <3>1, <4>1, <4>3, EarlierOrder
          <5>. QED
            BY <3>1, <5>1
        <4>. QED
          BY <3>1, <4>1, <4>2, <4>3, EarlierOrder
      <3>. QED
        BY <3>3, <3>4, <3>5
    <2>. QED
      BY <2>1, <2>2
  <1>2. P \in SUBSET (SUBSET obs)
    OBVIOUS
  <1>. HIDE DEF P
  <1>3. P = SUBSET obs
    BY <1>1, <1>2, PartInduction
  <1>. QED
    BY <1>3 DEF P

\* What the copies before o have reached.
LEMMA ReachedIs ==
    ASSUME NEW obs, Stored(obs), NEW o \in obs, NEW g, Within(g, Ahead(obs, o))
    PROVE  /\ Reached(g, obs, o) \in Int /\ NoTime <= Reached(g, obs, o)
           /\ \A p \in Ahead(obs, o) : g[p] <= Reached(g, obs, o)
           /\ \/ Reached(g, obs, o) = NoTime
              \/ \E p \in Ahead(obs, o) : Reached(g, obs, o) = g[p]
  <1>. DEFINE S == {NoTime} \cup {g[p] : p \in Ahead(obs, o)}
              b == IF NoTime <= o.at + Tolerance THEN o.at + Tolerance ELSE NoTime
  <1>1. \A p \in Ahead(obs, o) : p \in obs /\ p.at \in Int /\ o.at \in Int /\ p.at <= o.at
    BY EarlierOrder DEF Ahead
  <1>2. b \in Int /\ NoTime <= b /\ o.at \in Int /\ o.at + Tolerance <= b
    BY EarlierOrder, Constants
  <1>3. \A p \in Ahead(obs, o) : g[p] \in Int /\ g[p] <= b
    <2>. TAKE p \in Ahead(obs, o)
    <2>1. g[p] \in Int /\ (g[p] # NoTime => g[p] <= p.at + Tolerance)
      BY DEF Within
    <2>. HIDE DEF b
    <2>. QED
      BY <1>1, <1>2, <2>1, Constants
  <1>. HIDE DEF b
  <1>4. S \in SUBSET Int /\ S # {} /\ \A x \in S : x <= b
    BY <1>2, <1>3, Constants
  <1>5. NoTime \in S /\ \A p \in Ahead(obs, o) : g[p] \in S
    OBVIOUS
  <1>6. \A x \in S : x = NoTime \/ \E p \in Ahead(obs, o) : x = g[p]
    OBVIOUS
  <1>7. Reached(g, obs, o) = Max(S)
    BY DEF Reached
  <1>. HIDE DEF S
  <1>8. Max(S) \in S /\ Max(S) \in Int /\ \A x \in S : x <= Max(S)
    BY <1>2, <1>4, MaxOf
  <1>. QED
    BY <1>5, <1>6, <1>7, <1>8

\* A copy takes the earliest appointment near it that is left.
LEMMA ChoiceIs ==
    ASSUME NEW slots, Instants(slots), NEW last \in Int, NoTime <= last,
           NEW o, o.at \in Int
    PROVE  /\ Choice(slots, last, o) \in Int /\ NoTime <= Choice(slots, last, o)
           /\ \/ /\ Choice(slots, last, o) = NoTime
                 /\ \A s \in slots : last < s => ~Near(o, s)
              \/ /\ Choice(slots, last, o) \in slots /\ last < Choice(slots, last, o)
                 /\ Near(o, Choice(slots, last, o))
                 /\ Choice(slots, last, o) # NoTime
                 /\ Choice(slots, last, o) <= o.at + Tolerance
                 /\ \A s \in slots : last < s /\ o.at <= s + Tolerance
                                       => Choice(slots, last, o) <= s
  <1>. DEFINE free == {s \in slots : last < s /\ o.at <= s + Tolerance}
              low  == {s - NoTime : s \in free}
  <1>0. \A s \in slots : s \in Int /\ NoTime < s
    BY DEF Instants
  <1>1. Choice(slots, last, o) = IF free # {} /\ o.at >= Min(free) - Tolerance THEN Min(free) ELSE NoTime
    BY DEF Choice
  <1>2. CASE free = {}
    <2>1. \A s \in slots : last < s => ~Near(o, s)
      BY <1>2 DEF Near
    <2>. QED
      BY <1>1, <1>2, <2>1, Constants
  <1>3. CASE free # {}
    <2>1. low \in SUBSET Nat /\ low # {}
      BY <1>0, <1>3, Constants
    <2>2. PICK l \in low : \A m \in low : l <= m
      BY <2>1, LeastOf
    <2>3. PICK f \in free : l = f - NoTime
      BY <2>2
    <2>4. \A s \in free : f <= s
      <3>. TAKE s \in free
      <3>1. l <= s - NoTime /\ f \in slots /\ s \in slots
        BY <2>2
      <3>. QED
        BY <1>0, <2>3, <3>1, Constants
    <2>. HIDE DEF free, low
    <2>5. Min(free) \in free /\ \A s \in free : Min(free) <= s
      BY <2>4 DEF Min
    <2>6. /\ Min(free) \in slots /\ last < Min(free) /\ o.at <= Min(free) + Tolerance
          /\ Min(free) \in Int
          /\ \A s \in slots : last < s /\ o.at <= s + Tolerance => Min(free) <= s
      BY <1>0, <2>5 DEF free
    <2>7. CASE o.at >= Min(free) - Tolerance
      BY <1>1, <1>3, <2>6, <2>7, Constants DEF Near
    <2>8. CASE ~(o.at >= Min(free) - Tolerance)
      <3>1. ASSUME NEW s \in slots, last < s, Near(o, s) PROVE FALSE
        BY <1>0, <2>6, <2>8, <3>1, Constants DEF Near
      <3>. QED
        BY <1>1, <2>8, <3>1, Constants
    <2>. QED
      BY <2>7, <2>8
  <1>. QED
    BY <1>2, <1>3

\* Reached depends on the copies ahead and their partners only.
LEMMA ReachedSame ==
    ASSUME NEW A, NEW B, NEW g, NEW h, NEW o, Ahead(A, o) = Ahead(B, o),
           \A p \in Ahead(A, o) : g[p] = h[p]
    PROVE  Reached(g, A, o) = Reached(h, B, o)
  <1>1. {g[p] : p \in Ahead(A, o)} = {h[p] : p \in Ahead(B, o)}
    OBVIOUS
  <1>. QED
    BY <1>1 DEF Reached

\* A pairing exists: the last copy chooses after the others.
LEMMA PairingExists ==
    ASSUME NEW slots, Instants(slots), NEW obs, Stored(obs), IsFiniteSet(obs)
    PROVE  \E g \in [obs -> Int] : Pairs(slots, obs, g) /\ Within(g, obs)
  <1>. DEFINE Has(s) == \E g \in [s -> Int] : Pairs(slots, s, g) /\ Within(g, s)
              P == {s \in SUBSET obs : Has(s)}
  <1>1. ASSUME NEW s \in SUBSET obs, \A t \in SUBSET s : t # s => Has(t)
        PROVE  Has(s)
    <2>1. CASE s = {}
      <3>1. [o \in s |-> 0] \in [s -> Int] /\ Pairs(slots, s, [o \in s |-> 0])
            /\ Within([o \in s |-> 0], s)
        BY <2>1 DEF Pairs, Within
      <3>. QED
        BY <3>1
    <2>2. CASE s # {}
      <3>0. Stored(s) /\ IsFiniteSet(s)
        BY FS_Subset DEF Stored
      <3>1. PICK x \in s : \A y \in s : x = y \/ Earlier(y, x)
        BY <2>2, <3>0, LastCopy
      <3>. DEFINE t == s \ {x}
      <3>2. PICK f \in [t -> Int] : Pairs(slots, t, f) /\ Within(f, t)
        <4>1. t \in SUBSET s /\ t # s
          BY <3>1
        <4>. QED
          BY <1>1, <4>1
      <3>. DEFINE c == Choice(slots, Reached(f, s, x), x)
                  g == [o \in s |-> IF o = x THEN c ELSE f[o]]
      <3>3. \A o \in t : Ahead(s, o) = Ahead(t, o) /\ o \in s /\ o # x /\ g[o] = f[o]
        <4>1. \A o \in t : ~Earlier(x, o)
          BY <3>0, <3>1, EarlierOrder
        <4>. QED
          BY <4>1 DEF Ahead
      <3>4. Ahead(s, x) \subseteq t
        BY <3>0, <3>1, EarlierOrder DEF Ahead
      <3>5. Within(f, Ahead(s, x))
        BY <3>2, <3>4 DEF Within
      <3>6. Reached(f, s, x) \in Int /\ NoTime <= Reached(f, s, x) /\ x.at \in Int
        BY <3>0, <3>1, <3>5, ReachedIs, EarlierOrder
      <3>7. c \in Int /\ NoTime <= c /\ (c # NoTime => c <= x.at + Tolerance)
        BY <3>6, ChoiceIs
      <3>8. g[x] = c /\ g \in [s -> Int]
        BY <3>1, <3>7
      <3>9. Within(g, s)
        BY <3>2, <3>3, <3>7, <3>8 DEF Within
      <3>. HIDE DEF g, c
      <3>10. ASSUME NEW o \in s PROVE g[o] = Choice(slots, Reached(g, s, o), o)
        <4>1. CASE o = x
          <5>1. Reached(g, s, x) = Reached(f, s, x)
            BY <3>3, <3>4, ReachedSame
          <5>. QED
            BY <3>8, <4>1, <5>1 DEF c
        <4>2. CASE o # x
          <5>1. o \in t /\ Ahead(t, o) \subseteq t
            BY <4>2 DEF Ahead
          <5>2. Reached(g, s, o) = Reached(f, t, o)
            BY <3>3, <5>1, ReachedSame
          <5>. QED
            BY <3>2, <3>3, <5>1, <5>2 DEF Pairs
        <4>. QED
          BY <4>1, <4>2
      <3>. QED
        BY <3>8, <3>9, <3>10 DEF Pairs
    <2>. QED
      BY <2>1, <2>2
  <1>. HIDE DEF Has
  <1>2. P \in SUBSET (SUBSET obs)
    OBVIOUS
  <1>3. ASSUME NEW s \in SUBSET obs, \A t \in SUBSET s : t # s => t \in P
        PROVE  s \in P
    <2>1. \A t \in SUBSET s : t # s => Has(t)
      BY <1>3
    <2>. QED
      BY <1>1, <2>1
  <1>. HIDE DEF P
  <1>4. P = SUBSET obs
    BY <1>2, <1>3, PartInduction
  <1>5. obs \in P
    BY <1>4
  <1>. QED
    BY <1>5 DEF P, Has

\* matchAppointments is such a pairing.
LEMMA MatchIs ==
    ASSUME NEW slots, Instants(slots), NEW obs, Stored(obs), IsFiniteSet(obs)
    PROVE  /\ matchAppointments(slots, obs) \in [obs -> Int]
           /\ Pairs(slots, obs, matchAppointments(slots, obs))
           /\ Within(matchAppointments(slots, obs), obs)
  <1>. DEFINE M == CHOOSE g : g = [o \in obs |-> Choice(slots, Reached(g, obs, o), o)]
  <1>1. matchAppointments(slots, obs) = M
    BY DEF matchAppointments, Choice, Reached, Ahead
  <1>2. PICK g \in [obs -> Int] : Pairs(slots, obs, g) /\ Within(g, obs)
    BY PairingExists
  <1>3. g = [o \in obs |-> Choice(slots, Reached(g, obs, o), o)]
    BY <1>2 DEF Pairs
  <1>4. M = [o \in obs |-> Choice(slots, Reached(M, obs, o), o)]
    BY <1>3
  <1>. HIDE DEF M
  <1>5. \A o \in obs : M[o] = Choice(slots, Reached(M, obs, o), o)
    BY <1>4
  <1>6. \A o \in obs : M[o] = g[o]
    <2>. DEFINE bad == {o \in obs : M[o] # g[o]}
    <2>. SUFFICES ASSUME bad # {} PROVE FALSE
      OBVIOUS
    <2>1. Stored(bad)
      BY DEF Stored
    <2>2. PICK x \in bad : \A y \in bad : x = y \/ Earlier(x, y)
      BY <2>1, FirstCopy
    <2>3. \A p \in Ahead(obs, x) : M[p] = g[p]
      BY <2>2, EarlierOrder DEF Ahead
    <2>4. Reached(M, obs, x) = Reached(g, obs, x)
      BY <2>3, ReachedSame
    <2>. QED
      BY <1>2, <1>5, <2>2, <2>4 DEF Pairs
  <1>7. M \in [obs -> Int]
    <2>1. \A o \in obs : Choice(slots, Reached(M, obs, o), o) \in Int
      BY <1>2, <1>5, <1>6
    <2>. QED
      BY <1>4, <2>1
  <1>8. M = g
    BY <1>2, <1>6, <1>7
  <1>. QED
    BY <1>1, <1>2, <1>8

\* What one copy of the pairing g takes, and what it leaves.
Taking(slots, obs, g, o) ==
    /\ Reached(g, obs, o) \in Int /\ NoTime <= Reached(g, obs, o)
    /\ \A p \in Ahead(obs, o) : g[p] <= Reached(g, obs, o)
    /\ \/ Reached(g, obs, o) = NoTime
       \/ \E p \in Ahead(obs, o) : Reached(g, obs, o) = g[p]
    /\ g[o] \in Int /\ NoTime <= g[o]
    /\ \/ /\ g[o] = NoTime
          /\ \A s \in slots : Reached(g, obs, o) < s => ~Near(o, s)
       \/ /\ g[o] \in slots /\ Reached(g, obs, o) < g[o] /\ Near(o, g[o])
          /\ g[o] # NoTime
          /\ \A s \in slots : Reached(g, obs, o) < s /\ o.at <= s + Tolerance => g[o] <= s

\* Every copy takes so.
LEMMA MatchTakes ==
    ASSUME NEW slots, Instants(slots), NEW obs, Stored(obs), IsFiniteSet(obs)
    PROVE  \A o \in obs : Taking(slots, obs, matchAppointments(slots, obs), o)
  <1>. DEFINE g == matchAppointments(slots, obs)
  <1>1. Pairs(slots, obs, g) /\ Within(g, obs)
    BY MatchIs
  <1>. HIDE DEF g
  <1>. SUFFICES ASSUME NEW o \in obs PROVE Taking(slots, obs, g, o)
    BY DEF g
  <1>2. Within(g, Ahead(obs, o))
    BY <1>1 DEF Within, Ahead
  <1>3. /\ Reached(g, obs, o) \in Int /\ NoTime <= Reached(g, obs, o)
        /\ \A p \in Ahead(obs, o) : g[p] <= Reached(g, obs, o)
        /\ \/ Reached(g, obs, o) = NoTime
           \/ \E p \in Ahead(obs, o) : Reached(g, obs, o) = g[p]
    BY <1>2, ReachedIs
  <1>4. o.at \in Int /\ g[o] = Choice(slots, Reached(g, obs, o), o)
    BY <1>1, EarlierOrder DEF Pairs
  <1>5. \/ /\ g[o] = NoTime
           /\ \A s \in slots : Reached(g, obs, o) < s => ~Near(o, s)
        \/ /\ g[o] \in slots /\ Reached(g, obs, o) < g[o] /\ Near(o, g[o])
           /\ g[o] # NoTime
           /\ \A s \in slots : Reached(g, obs, o) < s /\ o.at <= s + Tolerance => g[o] <= s
    BY <1>3, <1>4, ChoiceIs
  <1>. QED
    BY <1>1, <1>3, <1>5 DEF Taking, Within

\* The partner of a copy depends on the copies before it and the appointments
\* near those: later copies and distant appointments change nothing.
LEMMA MatchStable ==
    ASSUME NEW A, Stored(A), IsFiniteSet(A), NEW B, Stored(B), IsFiniteSet(B),
           NEW S, Instants(S), NEW T, Instants(T),
           NEW I, I \subseteq A, I \subseteq B,
           \A o \in I, q \in A \cup B : Earlier(q, o) => q \in I,
           \A o \in I, s \in S \cup T : Near(o, s) => s \in S /\ s \in T
    PROVE  \A o \in I : matchAppointments(S, A)[o] = matchAppointments(T, B)[o]
  <1>. DEFINE g == matchAppointments(S, A)
              h == matchAppointments(T, B)
              bad == {o \in I : g[o] # h[o]}
  <1>. SUFFICES ASSUME bad # {} PROVE FALSE
    OBVIOUS
  <1>1. Stored(bad) /\ Stored(I)
    BY DEF Stored
  <1>2. PICK x \in bad : \A y \in bad : x = y \/ Earlier(x, y)
    BY <1>1, FirstCopy
  <1>3. x \in A /\ x \in B /\ x \in I /\ g[x] # h[x]
    BY <1>2
  <1>4. Taking(S, A, g, x) /\ Taking(T, B, h, x)
    BY <1>3, MatchTakes
  <1>5. Ahead(A, x) = Ahead(B, x) /\ Ahead(A, x) \subseteq I
    BY <1>3 DEF Ahead
  <1>6. \A p \in Ahead(A, x) : g[p] = h[p]
    BY <1>1, <1>2, <1>5, EarlierOrder DEF Ahead
  <1>. HIDE DEF g, h
  <1>7. Reached(g, A, x) = Reached(h, B, x)
    BY <1>5, <1>6, ReachedSame
  <1>8. \A s \in S \cup T : s \in Int
    BY DEF Instants
  <1>9. x.at \in Int
    BY <1>1, <1>3, EarlierOrder
  <1>10. CASE g[x] = NoTime /\ h[x] # NoTime
    BY <1>3, <1>4, <1>7, <1>10 DEF Taking
  <1>11. CASE g[x] # NoTime /\ h[x] = NoTime
    BY <1>3, <1>4, <1>7, <1>11 DEF Taking
  <1>12. CASE g[x] # NoTime /\ h[x] # NoTime
    <2>1. /\ g[x] \in S /\ g[x] \in T /\ h[x] \in S /\ h[x] \in T
          /\ Near(x, g[x]) /\ Near(x, h[x])
          /\ Reached(g, A, x) < g[x] /\ Reached(g, A, x) < h[x]
      BY <1>3, <1>4, <1>7, <1>12 DEF Taking
    <2>2. g[x] <= h[x] /\ h[x] <= g[x]
      BY <1>4, <1>7, <1>12, <2>1 DEF Taking, Near
    <2>. QED
      BY <1>3, <1>8, <2>1, <2>2
  <1>. QED
    BY <1>3, <1>10, <1>11, <1>12

\* More copies take nothing back: a copy without a partner has none when others
\* are added, before or after it.
LEMMA MatchMonotone ==
    ASSUME NEW A, Stored(A), NEW B, Stored(B), IsFiniteSet(B), A \subseteq B,
           NEW S, Instants(S), NEW T, Instants(T),
           \A o \in A, s \in S \cup T : Near(o, s) => s \in S /\ s \in T
    PROVE  \A o \in A : matchAppointments(S, A)[o] = NoTime
                          => matchAppointments(T, B)[o] = NoTime
  <1>. DEFINE g == matchAppointments(S, A)
              h == matchAppointments(T, B)
              G(o) == Reached(g, A, o)
              H(o) == Reached(h, B, o)
              bad == {o \in A : ~(G(o) <= H(o))}
  <1>0. IsFiniteSet(A)
    BY FS_Subset
  <1>1. \A o \in A : o \in B /\ Taking(S, A, g, o)
    BY <1>0, MatchTakes
  <1>2. \A o \in B : Taking(T, B, h, o)
    BY MatchTakes
  <1>. HIDE DEF g, h
  <1>3. \A o \in A : G(o) <= H(o)
    <2>. SUFFICES ASSUME bad # {} PROVE FALSE
      OBVIOUS
    <2>1. Stored(bad)
      BY DEF Stored
    <2>2. PICK x \in bad : \A y \in bad : x = y \/ Earlier(x, y)
      BY <2>1, FirstCopy
    <2>3. /\ x \in A /\ x \in B /\ G(x) \in Int /\ H(x) \in Int /\ NoTime <= H(x) /\ H(x) < G(x)
      BY <1>1, <1>2, <2>2 DEF Taking
    <2>4. PICK p \in Ahead(A, x) : G(x) = g[p]
      BY <1>1, <2>3, Constants DEF Taking
    <2>5. p \in A /\ p \in B /\ Earlier(p, x)
      BY <2>4 DEF Ahead
    <2>6. G(p) <= H(p)
      BY <2>2, <2>3, <2>5, EarlierOrder
    <2>7. H(p) <= H(x)
      <3>1. Ahead(B, p) \subseteq Ahead(B, x)
        BY <2>3, <2>5, EarlierOrder DEF Ahead
      <3>. QED
        BY <1>2, <2>3, <2>5, <3>1 DEF Taking
    <2>8. h[p] <= H(x)
      BY <1>2, <2>3, <2>5 DEF Taking, Ahead
    <2>9. /\ G(p) \in Int /\ H(p) \in Int /\ g[p] \in Int /\ h[p] \in Int /\ p.at \in Int
      BY <1>1, <1>2, <2>5, EarlierOrder DEF Taking
    <2>10. g[p] # NoTime /\ g[p] \in S /\ G(p) < g[p] /\ Near(p, g[p]) /\ g[p] \in T
           /\ \A s \in S : G(p) < s /\ p.at <= s + Tolerance => g[p] <= s
      BY <1>1, <2>3, <2>4, <2>5, Constants DEF Taking
    <2>11. CASE h[p] = NoTime
      <3>1. ~(H(p) < g[p])
        BY <1>2, <2>5, <2>10, <2>11 DEF Taking
      <3>. QED
        BY <2>3, <2>4, <2>7, <2>9, <3>1
    <2>12. CASE h[p] # NoTime
      <3>1. h[p] \in T /\ H(p) < h[p] /\ Near(p, h[p])
        BY <1>2, <2>5, <2>12 DEF Taking
      <3>2. h[p] \in S
        BY <2>5, <3>1
      <3>3. G(p) < h[p] /\ p.at <= h[p] + Tolerance
        BY <2>6, <2>9, <3>1 DEF Near
      <3>4. g[p] <= h[p]
        BY <2>10, <3>2, <3>3
      <3>. QED
        BY <2>3, <2>4, <2>8, <2>9, <3>4
    <2>. QED
      BY <2>11, <2>12
  <1>. SUFFICES ASSUME NEW o \in A, g[o] = NoTime, h[o] # NoTime PROVE FALSE
    BY DEF g, h
  <1>4. h[o] \in T /\ H(o) < h[o] /\ Near(o, h[o]) /\ h[o] \in Int /\ H(o) \in Int
    BY <1>1, <1>2 DEF Taking
  <1>5. h[o] \in S /\ G(o) \in Int
    BY <1>1, <1>4 DEF Taking
  <1>6. G(o) < h[o]
    BY <1>3, <1>4, <1>5
  <1>. QED
    BY <1>1, <1>4, <1>5, <1>6 DEF Taking

\* Up to where the copies before o have reached, every appointment that o could
\* still take has a partner among them.
LEMMA NothingSkipped ==
    ASSUME NEW slots, Instants(slots), NEW obs, Stored(obs), IsFiniteSet(obs),
           NEW g, \A o \in obs : Taking(slots, obs, g, o)
    PROVE  \A o \in obs, s \in slots :
              s <= Reached(g, obs, o) /\ o.at <= s + Tolerance
                => \E p \in Ahead(obs, o) : g[p] = s
  <1>. DEFINE Skips(o, s) == /\ s <= Reached(g, obs, o) /\ o.at <= s + Tolerance
                             /\ \A p \in Ahead(obs, o) : g[p] # s
              bad == {o \in obs : \E s \in slots : Skips(o, s)}
  <1>. SUFFICES ASSUME bad # {} PROVE FALSE
    OBVIOUS
  <1>1. Stored(bad)
    BY DEF Stored
  <1>2. PICK x \in bad : \A y \in bad : x = y \/ Earlier(x, y)
    BY <1>1, FirstCopy
  <1>3. PICK s \in slots : Skips(x, s)
    BY <1>2
  <1>4. s \in Int /\ NoTime < s /\ x \in obs /\ x.at \in Int
    BY <1>2, EarlierOrder DEF Instants
  <1>5. PICK p \in Ahead(obs, x) : Reached(g, obs, x) = g[p]
    BY <1>3, <1>4, Constants DEF Taking
  <1>6. p \in obs /\ Earlier(p, x) /\ p.at <= x.at /\ p.at \in Int
    BY <1>4, <1>5, EarlierOrder DEF Ahead
  <1>7. Taking(slots, obs, g, p)
    BY <1>6
  <1>8. s < g[p] /\ p.at <= s + Tolerance /\ g[p] # NoTime
    BY <1>3, <1>4, <1>5, <1>6, <1>7, Constants DEF Taking
  <1>9. s <= Reached(g, obs, p)
    BY <1>4, <1>7, <1>8 DEF Taking
  <1>10. p \notin bad
    BY <1>2, <1>4, <1>6, EarlierOrder
  <1>11. PICK q \in Ahead(obs, p) : g[q] = s
    BY <1>6, <1>8, <1>9, <1>10
  <1>12. q \in Ahead(obs, x)
    BY <1>4, <1>6, <1>11, EarlierOrder DEF Ahead
  <1>. QED
    BY <1>3, <1>11, <1>12

\* A pairing as an administrator could draw it: every copy near its appointment,
\* and no appointment with two copies.
Drawn(slots, obs) ==
    {f \in [obs -> slots \cup {NoTime}] :
        \A o \in obs : f[o] # NoTime =>
            /\ Near(o, f[o])
            /\ \A p \in obs \ {o} : f[p] # f[o]}
Paired(obs, f) == {o \in obs : f[o] # NoTime}

\* Any pairing that agrees with matchAppointments before x can be changed to
\* agree at x too, and satisfies no fewer appointments: the copies that have
\* taken each other's appointments exchange them.
LEMMA Exchange ==
    ASSUME NEW slots, Instants(slots), NEW obs, Stored(obs), IsFiniteSet(obs),
           NEW g, \A o \in obs : Taking(slots, obs, g, o),
           NEW x \in obs, NEW f \in Drawn(slots, obs),
           \A p \in Ahead(obs, x) : f[p] = g[p]
    PROVE  \E h \in Drawn(slots, obs) :
              /\ Cardinality(Paired(obs, f)) <= Cardinality(Paired(obs, h))
              /\ h[x] = g[x] /\ \A p \in Ahead(obs, x) : h[p] = g[p]
  <1>. DEFINE m == g[x]
              last == Reached(g, obs, x)
  <1>0. /\ f \in [obs -> slots \cup {NoTime}]
        /\ \A o \in obs : f[o] # NoTime =>
              f[o] \in slots /\ Near(o, f[o]) /\ \A p \in obs \ {o} : f[p] # f[o]
    BY DEF Drawn
  <1>1. /\ x.at \in Int /\ m \in Int /\ last \in Int /\ Taking(slots, obs, g, x)
        /\ \A s \in slots : s \in Int /\ s # NoTime /\ NoTime < s
    BY EarlierOrder, Constants DEF Taking, Instants
  <1>2. Cardinality(Paired(obs, f)) \in Nat /\ IsFiniteSet(Paired(obs, f))
    BY FS_Subset, FS_CardinalityType DEF Paired
  <1>3. \A p \in Ahead(obs, x) : p \in obs /\ p # x
    BY EarlierOrder DEF Ahead
  <1>4. f[x] # NoTime => last < f[x]
    <2>. SUFFICES ASSUME f[x] # NoTime, ~(last < f[x]) PROVE FALSE
      OBVIOUS
    <2>1. f[x] \in slots /\ f[x] <= last /\ x.at <= f[x] + Tolerance
      BY <1>0, <1>1 DEF Near
    <2>2. PICK p \in Ahead(obs, x) : g[p] = f[x]
      BY <2>1, NothingSkipped
    <2>. QED
      BY <1>0, <1>3, <2>2
  <1>5. CASE f[x] = m
    BY <1>2, <1>5
  <1>6. CASE f[x] # m
    <2>1. m # NoTime /\ m \in slots /\ last < m /\ Near(x, m)
      <3>1. CASE m = NoTime
        BY <1>0, <1>1, <1>4, <1>6, <3>1 DEF Taking
      <3>. QED
        BY <1>1, <3>1 DEF Taking
    <2>2. f[x] # NoTime => m < f[x]
      <3>. SUFFICES ASSUME f[x] # NoTime PROVE m < f[x]
        OBVIOUS
      <3>1. m <= f[x] /\ f[x] \in Int
        BY <1>0, <1>1, <1>4, <2>1 DEF Taking, Near
      <3>. QED
        BY <1>1, <1>6, <3>1
    <2>3. \A p \in Ahead(obs, x) : f[p] # m
      BY <1>1, <2>1 DEF Taking
    <2>4. CASE \E y \in obs : f[y] = m
      <3>1. PICK y \in obs : f[y] = m
        BY <2>4
      <3>2. y # x /\ x.at <= y.at /\ y.at \in Int /\ y \notin Ahead(obs, x)
        <4>1. y # x /\ y \notin Ahead(obs, x)
          BY <1>6, <2>3, <3>1
        <4>. QED
          BY <4>1, EarlierOrder DEF Ahead
      <3>. DEFINE h == [o \in obs |-> IF o = x THEN m ELSE IF o = y THEN f[x] ELSE f[o]]
      <3>3. h[x] = m /\ h[y] = f[x] /\ \A o \in obs : o # x /\ o # y => h[o] = f[o]
        BY <3>1, <3>2
      <3>4. h \in [obs -> slots \cup {NoTime}]
        BY <1>0, <2>1
      <3>. HIDE DEF h
      <3>5. f[x] # NoTime => Near(y, f[x])
        BY <1>0, <1>1, <2>1, <2>2, <3>1, <3>2, Constants DEF Near
      <3>6. ASSUME NEW o \in obs, h[o] # NoTime
            PROVE  Near(o, h[o]) /\ \A p \in obs \ {o} : h[p] # h[o]
        <4>1. CASE o = x
          BY <1>0, <2>1, <3>1, <3>2, <3>3, <1>6, <4>1
        <4>2. CASE o = y
          BY <1>0, <1>6, <3>1, <3>2, <3>3, <3>5, <3>6, <4>2
        <4>3. CASE o # x /\ o # y
          BY <1>0, <3>1, <3>2, <3>3, <3>6, <4>3
        <4>. QED
          BY <4>1, <4>2, <4>3
      <3>7. h \in Drawn(slots, obs)
        BY <3>4, <3>6 DEF Drawn
      <3>8. Cardinality(Paired(obs, f)) <= Cardinality(Paired(obs, h))
        <4>1. CASE f[x] # NoTime
          <5>1. Paired(obs, h) = Paired(obs, f)
            BY <2>1, <3>1, <3>2, <3>3, <4>1 DEF Paired
          <5>. QED
            BY <1>2, <5>1
        <4>2. CASE f[x] = NoTime
          <5>1. /\ Paired(obs, h) = (Paired(obs, f) \ {y}) \cup {x}
                /\ y \in Paired(obs, f) /\ x \notin Paired(obs, f) \ {y}
            BY <2>1, <3>1, <3>2, <3>3, <4>2 DEF Paired
          <5>2. /\ Cardinality(Paired(obs, f) \ {y}) = Cardinality(Paired(obs, f)) - 1
                /\ IsFiniteSet(Paired(obs, f) \ {y})
            BY <1>2, <5>1, FS_RemoveElement
          <5>3. Cardinality(Paired(obs, h)) = Cardinality(Paired(obs, f) \ {y}) + 1
            BY <5>1, <5>2, FS_AddElement
          <5>. QED
            BY <1>2, <5>2, <5>3
        <4>. QED
          BY <4>1, <4>2
      <3>9. \A p \in Ahead(obs, x) : h[p] = g[p]
        BY <1>3, <3>2, <3>3
      <3>. QED
        BY <3>3, <3>7, <3>8, <3>9
    <2>5. CASE \A y \in obs : f[y] # m
      <3>. DEFINE h == [o \in obs |-> IF o = x THEN m ELSE f[o]]
      <3>1. h[x] = m /\ \A o \in obs : o # x => h[o] = f[o]
        OBVIOUS
      <3>2. h \in [obs -> slots \cup {NoTime}]
        BY <1>0, <2>1
      <3>. HIDE DEF h
      <3>3. ASSUME NEW o \in obs, h[o] # NoTime
            PROVE  Near(o, h[o]) /\ \A p \in obs \ {o} : h[p] # h[o]
        BY <1>0, <2>1, <2>5, <3>1, <3>3
      <3>4. h \in Drawn(slots, obs)
        BY <3>2, <3>3 DEF Drawn
      <3>5. Paired(obs, f) \subseteq Paired(obs, h) /\ IsFiniteSet(Paired(obs, h))
        BY <2>1, <3>1, FS_Subset DEF Paired
      <3>6. Cardinality(Paired(obs, f)) <= Cardinality(Paired(obs, h))
        BY <3>5, FS_Subset
      <3>7. \A p \in Ahead(obs, x) : h[p] = g[p]
        BY <1>3, <3>1
      <3>. QED
        BY <3>1, <3>4, <3>6, <3>7
    <2>. QED
      BY <2>4, <2>5
  <1>. QED
    BY <1>5, <1>6

\* matchAppointments draws a pairing, and none satisfies more appointments.
LEMMA MatchIsMaximum ==
    ASSUME NEW slots, Instants(slots), NEW obs, Stored(obs), IsFiniteSet(obs)
    PROVE  /\ matchAppointments(slots, obs) \in Drawn(slots, obs)
           /\ \A f \in Drawn(slots, obs) :
                 Cardinality(Paired(obs, f))
                   <= Cardinality(Paired(obs, matchAppointments(slots, obs)))
  <1>. DEFINE g == matchAppointments(slots, obs)
  <1>1. g \in [obs -> Int] /\ \A o \in obs : Taking(slots, obs, g, o)
    BY MatchIs, MatchTakes
  <1>. HIDE DEF g
  <1>2. g \in Drawn(slots, obs)
    <2>1. g \in [obs -> slots \cup {NoTime}]
      BY <1>1 DEF Taking
    <2>2. ASSUME NEW o \in obs, NEW p \in obs, Earlier(p, o), g[o] # NoTime
          PROVE  g[p] # g[o]
      BY <1>1, <2>2 DEF Taking, Ahead
    <2>3. ASSUME NEW o \in obs, g[o] # NoTime
          PROVE  Near(o, g[o]) /\ \A p \in obs \ {o} : g[p] # g[o]
      BY <1>1, <2>2, <2>3, EarlierOrder DEF Taking
    <2>. QED
      BY <2>1, <2>3 DEF Drawn
  <1>. DEFINE Opens(s) == \A o \in s, q \in obs : Earlier(q, o) => q \in s
              Improves(s) == \A f \in Drawn(slots, obs) : \E h \in Drawn(slots, obs) :
                                /\ Cardinality(Paired(obs, f)) <= Cardinality(Paired(obs, h))
                                /\ \A p \in s : h[p] = g[p]
              P == {s \in SUBSET obs : Opens(s) => Improves(s)}
  <1>3. \A f \in Drawn(slots, obs) : Cardinality(Paired(obs, f)) \in Nat
    BY FS_Subset, FS_CardinalityType DEF Paired
  <1>4. ASSUME NEW s \in SUBSET obs, \A t \in SUBSET s : t # s => t \in P
        PROVE  s \in P
    <2>. SUFFICES ASSUME Opens(s) PROVE Improves(s)
      OBVIOUS
    <2>1. CASE s = {}
      BY <1>3, <2>1
    <2>2. CASE s # {}
      <3>1. Stored(s) /\ IsFiniteSet(s)
        BY FS_Subset DEF Stored
      <3>2. PICK x \in s : \A y \in s : x = y \/ Earlier(y, x)
        BY <2>2, <3>1, LastCopy
      <3>. DEFINE t == s \ {x}
      <3>3. t \in SUBSET s /\ t # s /\ t = Ahead(obs, x) /\ x \in obs
        BY <3>1, <3>2, EarlierOrder DEF Ahead
      <3>4. Opens(t)
        BY <3>1, <3>2, EarlierOrder
      <3>5. Improves(t)
        BY <1>4, <3>3, <3>4
      <3>6. ASSUME NEW f \in Drawn(slots, obs)
            PROVE  \E h \in Drawn(slots, obs) :
                      /\ Cardinality(Paired(obs, f)) <= Cardinality(Paired(obs, h))
                      /\ \A p \in s : h[p] = g[p]
        <4>1. PICK e \in Drawn(slots, obs) :
                 /\ Cardinality(Paired(obs, f)) <= Cardinality(Paired(obs, e))
                 /\ \A p \in t : e[p] = g[p]
          BY <3>5
        <4>2. PICK h \in Drawn(slots, obs) :
                 /\ Cardinality(Paired(obs, e)) <= Cardinality(Paired(obs, h))
                 /\ h[x] = g[x] /\ \A p \in Ahead(obs, x) : h[p] = g[p]
          BY <1>1, <3>3, <4>1, Exchange
        <4>3. \A p \in s : h[p] = g[p]
          BY <3>3, <4>2
        <4>4. Cardinality(Paired(obs, f)) <= Cardinality(Paired(obs, h))
          BY <1>3, <4>1, <4>2
        <4>. QED
          BY <4>3, <4>4
      <3>. QED
        BY <3>6
    <2>. QED
      BY <2>1, <2>2
  <1>5. P \in SUBSET (SUBSET obs)
    OBVIOUS
  <1>. HIDE DEF P
  <1>6. P = SUBSET obs
    BY <1>4, <1>5, PartInduction
  <1>7. obs \in P
    BY <1>6
  <1>8. Opens(obs)
    OBVIOUS
  <1>9. Improves(obs)
    BY <1>7, <1>8 DEF P
  <1>10. ASSUME NEW f \in Drawn(slots, obs)
         PROVE  Cardinality(Paired(obs, f)) <= Cardinality(Paired(obs, g))
    <2>1. PICK h \in Drawn(slots, obs) :
             /\ Cardinality(Paired(obs, f)) <= Cardinality(Paired(obs, h))
             /\ \A p \in obs : h[p] = g[p]
      BY <1>9
    <2>2. Paired(obs, h) = Paired(obs, g)
      BY <2>1 DEF Paired
    <2>. QED
      BY <2>1, <2>2
  <1>. QED
    BY <1>2, <1>10 DEF g
-----------------------------------------------------------------------------
(* Findings.                                                               *)

\* The pairing of the copies with the appointments due, and what it leaves over
\* in the period of c.
PartnerIn(schedule, cps, now) ==
    matchAppointments({s \in schedule : s - Tolerance <= now}, cps)
Unpaired(c, cps, now) ==
    LET match == PartnerIn(c.model.schedule, cps, now)
    IN  {Incident("missing", s, s) : s \in {s \in c.model.schedule :
            Judge(c, s) /\ \A o \in cps : match[o] # s}}
        \cup
        {Incident("extra", o.id, o.at) : o \in {o \in cps :
            Judge(c, o.at) /\ match[o] = NoTime}}
Until(cps, t) == {o \in cps : o.at <= t}

\* Midnight is less than a day ago.
LEMMA MidnightOf ==
    ASSUME NEW t \in Int
    PROVE  Midnight(t) \in Int /\ Midnight(t) <= t /\ t < Midnight(t) + Day
  <1>1. t % Day \in 0 .. Day - 1
    BY Constants
  <1>. QED
    BY <1>1, Constants DEF Midnight

\* The appointments that take part are the ones due near some copy or in the
\* period.
LEMMA ExpectedIs ==
    ASSUME NEW schedule, Instants(schedule), NEW obs, Stored(obs),
           NEW from \in Int, NEW to \in Int, NEW now \in Int
    PROVE  /\ Expected(schedule, obs, from, to, now) \subseteq
                {s \in schedule : s - Tolerance <= now}
           /\ \A s \in schedule :
                 /\ s - Tolerance <= now
                 /\ s <= to + 2 * Tolerance
                 /\ from < s \/ \E o \in obs : Near(o, s)
                 => s \in Expected(schedule, obs, from, to, now)
  <1>. DEFINE S == {Midnight(from)} \cup {Midnight(o.at) : o \in obs}
              b == IF NoTime - Day <= Midnight(from) THEN NoTime - Day ELSE Midnight(from)
  <1>1. \A o \in obs : o.at \in Int /\ NoTime < o.at
    BY DEF Stored
  <1>2. Midnight(from) \in Int /\ \A o \in obs : Midnight(o.at) \in Int /\ NoTime - Day <= Midnight(o.at)
    <2>1. Midnight(from) \in Int
      BY MidnightOf
    <2>2. ASSUME NEW o \in obs PROVE Midnight(o.at) \in Int /\ NoTime - Day <= Midnight(o.at)
      BY <1>1, MidnightOf, Constants
    <2>. QED
      BY <2>1, <2>2
  <1>3. b \in Int /\ b <= Midnight(from) /\ b <= NoTime - Day
    BY <1>2, Constants
  <1>. HIDE DEF b
  <1>4. S \in SUBSET Int /\ S # {} /\ \A x \in S : b <= x
    BY <1>2, <1>3, Constants
  <1>5. Midnight(from) \in S /\ \A o \in obs : Midnight(o.at) \in S
    OBVIOUS
  <1>6. Expected(schedule, obs, from, to, now) =
          {s \in schedule : /\ Min(S) - Day <= s /\ s < Midnight(to) + 2 * Day
                            /\ s - Tolerance <= now}
    BY DEF Expected
  <1>. HIDE DEF S
  <1>7. Min(S) \in Int /\ \A x \in S : Min(S) <= x
    BY <1>3, <1>4, MinAbove
  <1>8. ASSUME NEW s \in schedule, s - Tolerance <= now, s <= to + 2 * Tolerance,
               from < s \/ \E o \in obs : Near(o, s)
        PROVE  Min(S) - Day <= s /\ s < Midnight(to) + 2 * Day
    <2>1. s \in Int /\ Day > 2 * Tolerance /\ Day \in Nat /\ Tolerance \in Nat
      BY Constants, MonitoringAssumption DEF Instants
    <2>2. Midnight(to) \in Int /\ to < Midnight(to) + Day
      BY MidnightOf
    <2>3. CASE from < s
      <3>1. Midnight(from) <= from /\ Min(S) <= Midnight(from)
        BY <1>5, <1>7, MidnightOf
      <3>. QED
        BY <1>2, <1>7, <1>8, <2>1, <2>2, <2>3, <3>1
    <2>4. ASSUME NEW o \in obs, Near(o, s) PROVE Min(S) - Day <= s
      <3>1. Midnight(o.at) <= o.at /\ Min(S) <= Midnight(o.at)
        BY <1>1, <1>5, <1>7, MidnightOf
      <3>. QED
        BY <1>1, <1>2, <1>7, <2>1, <2>4, <3>1 DEF Near
    <2>. QED
      BY <1>8, <2>1, <2>2, <2>3, <2>4
  <1>. QED
    BY <1>6, <1>8

\* What checkWindow finds in a period that ended a tolerance ago is what all the
\* copies leave unpaired, also those that were stored since.
LEMMA WindowExact ==
    ASSUME NEW c, Instants(c.model.schedule), c.from \in Int, c.to \in Int,
           NEW cps, Stored(cps), IsFiniteSet(cps),
           NEW now \in Int, \A o \in cps : o.at <= now,
           NEW t \in Int, c.to + Tolerance <= t, t <= now
    PROVE  Unpaired(c, cps, now) =
             checkWindow(c.model.schedule, Until(cps, t), c.from, c.to, t)
  <1>. DEFINE sch == c.model.schedule
              obs == Until(cps, t)
              slots == Expected(sch, obs, c.from, c.to, t)
              due == {s \in sch : s - Tolerance <= now}
              g == matchAppointments(slots, obs)
              h == matchAppointments(due, cps)
              I == {o \in cps : o.at <= c.to + Tolerance}
  <1>0. \A o \in cps : o.at \in Int
    BY DEF Stored
  <1>1. /\ Stored(obs) /\ IsFiniteSet(obs) /\ obs \subseteq cps
        /\ \A s \in sch : s \in Int
    BY FS_Subset DEF Until, Stored, Instants
  <1>2. /\ slots \subseteq {s \in sch : s - Tolerance <= t}
        /\ \A s \in sch : /\ s - Tolerance <= t /\ s <= c.to + 2 * Tolerance
                          /\ c.from < s \/ \E o \in obs : Near(o, s)
                          => s \in slots
    BY <1>1, ExpectedIs
  <1>3. Instants(slots) /\ Instants(due)
    BY <1>2 DEF Instants
  <1>. HIDE DEF slots
  <1>4. I \subseteq obs /\ I \subseteq cps
    BY <1>0, Constants DEF Until
  <1>5. \A o \in I, q \in obs \cup cps : Earlier(q, o) => q \in I
    BY <1>0, <1>1, Constants DEF Earlier
  <1>6. \A o \in I, s \in slots \cup due : Near(o, s) => s \in slots /\ s \in due
    <2>. SUFFICES ASSUME NEW o \in I, NEW s \in slots \cup due, Near(o, s)
                  PROVE  s \in slots /\ s \in due
      OBVIOUS
    <2>1. s \in sch /\ s \in Int /\ o \in obs /\ o.at \in Int /\ o.at <= c.to + Tolerance
      BY <1>0, <1>1, <1>2, <1>4
    <2>2. s - Tolerance <= t /\ s - Tolerance <= now /\ s <= c.to + 2 * Tolerance
      BY <2>1, Constants DEF Near
    <2>. QED
      BY <1>2, <2>1, <2>2
  <1>7. \A o \in I : g[o] = h[o]
    <2>. HIDE DEF obs, due, I, sch
    <2>. QED
      BY <1>1, <1>3, <1>4, <1>5, <1>6, MatchStable
  <1>8. (\A o \in obs : Taking(slots, obs, g, o)) /\ \A o \in cps : Taking(due, cps, h, o)
    BY <1>1, <1>3, MatchTakes
  <1>. HIDE DEF g, h, I
  <1>9. ASSUME NEW s \in sch, s <= c.to, NEW o \in cps, o \notin I
        PROVE  h[o] # s /\ (o \in obs => g[o] # s)
    <2>1. ~Near(o, s) /\ s # NoTime
      <3>1. s \in Int /\ NoTime < s /\ o.at \in Int /\ ~(o.at <= c.to + Tolerance)
        BY <1>0, <1>9 DEF Instants, I
      <3>. QED
        BY <1>9, <3>1, Constants DEF Near
    <2>. QED
      BY <1>8, <2>1 DEF Taking
  <1>10. ASSUME NEW s
         PROVE  (s \in slots /\ (c.from < s /\ s <= c.to) /\ s + Tolerance <= t /\ \A o \in obs : g[o] # s)
                <=> (s \in sch /\ Judge(c, s) /\ \A o \in cps : h[o] # s)
    <2>1. ASSUME s \in sch, c.from < s, s <= c.to
          PROVE  s \in slots /\ s + Tolerance <= t
      <3>1. s \in Int
        BY <1>1, <2>1
      <3>2. s - Tolerance <= t /\ s <= c.to + 2 * Tolerance /\ s + Tolerance <= t
        BY <2>1, <3>1, Constants
      <3>. QED
        BY <1>2, <2>1, <3>2
    <2>2. ASSUME s \in sch, s <= c.to
          PROVE  (\A o \in obs : g[o] # s) <=> (\A o \in cps : h[o] # s)
      BY <1>1, <1>4, <1>7, <1>9, <2>2
    <2>3. s \in slots => s \in sch
      BY <1>2
    <2>. QED
      BY <2>1, <2>2, <2>3 DEF Judge
  <1>11. ASSUME NEW o
         PROVE  (o \in obs /\ (c.from < o.at /\ o.at <= c.to) /\ g[o] = NoTime)
                <=> (o \in cps /\ Judge(c, o.at) /\ h[o] = NoTime)
    <2>1. ASSUME o \in cps, o.at <= c.to PROVE o \in I /\ o \in obs
      BY <1>0, <1>4, <2>1, Constants DEF I
    <2>. QED
      BY <1>1, <1>7, <2>1 DEF Judge
  <1>12. {o \in obs : o.at <= t} = obs
    BY DEF Until
  <1>13. /\ {s \in slots : /\ c.from < s /\ s <= c.to /\ s + Tolerance <= t
                           /\ \A o \in obs : g[o] # s}
            = {s \in sch : Judge(c, s) /\ \A o \in cps : h[o] # s}
         /\ {o \in obs : c.from < o.at /\ o.at <= c.to /\ g[o] = NoTime}
            = {o \in cps : Judge(c, o.at) /\ h[o] = NoTime}
    BY <1>10, <1>11
  <1>14. checkWindow(sch, obs, c.from, c.to, t) =
           {Incident("missing", s, s) : s \in
               {s \in slots : /\ c.from < s /\ s <= c.to /\ s + Tolerance <= t
                              /\ \A o \in obs : g[o] # s}}
           \cup {Incident("extra", o.id, o.at) : o \in
               {o \in obs : c.from < o.at /\ o.at <= c.to /\ g[o] = NoTime}}
    <2>. HIDE DEF obs, sch
    <2>. QED
      BY <1>12 DEF checkWindow, slots, g
  <1>15. Unpaired(c, cps, now) =
           {Incident("missing", s, s) : s \in {s \in sch : Judge(c, s) /\ \A o \in cps : h[o] # s}}
           \cup {Incident("extra", o.id, o.at) : o \in {o \in cps : Judge(c, o.at) /\ h[o] = NoTime}}
    BY DEF Unpaired, PartnerIn, h
  <1>. QED
    BY <1>13, <1>14, <1>15

\* An excess copy that evaluateCompletedInTransaction finds is one without a
\* partner among all the copies.
LEMMA ArrivalExact ==
    ASSUME NEW schedule, Instants(schedule), NEW cps, Stored(cps), IsFiniteSet(cps),
           NEW now \in Int, \A o \in cps : o.at <= now,
           NEW i \in checkWindow(schedule, cps, Midnight(now) - Day - 1,
                                 Midnight(now) + Day - 1, now),
           i.kind = "extra"
    PROVE  \E o \in cps : o.id = i.of /\ PartnerIn(schedule, cps, now)[o] = NoTime
  <1>. DEFINE from == Midnight(now) - Day - 1
              to == Midnight(now) + Day - 1
              slots == Expected(schedule, cps, from, to, now)
              due == {s \in schedule : s - Tolerance <= now}
              g == matchAppointments(slots, cps)
              h == matchAppointments(due, cps)
  <1>1. from \in Int /\ to \in Int /\ now <= to
    BY MidnightOf, Constants
  <1>2. {o \in cps : o.at <= now} = cps
    OBVIOUS
  <1>3. checkWindow(schedule, cps, from, to, now) =
           {Incident("missing", s, s) : s \in
               {s \in slots : /\ from < s /\ s <= to /\ s + Tolerance <= now
                              /\ \A o \in cps : g[o] # s}}
           \cup {Incident("extra", o.id, o.at) : o \in
               {o \in cps : from < o.at /\ o.at <= to /\ g[o] = NoTime}}
    <2>. HIDE DEF from, to
    <2>. QED
      BY <1>2 DEF checkWindow
  <1>. HIDE DEF g
  <1>4. PICK o \in cps : i = Incident("extra", o.id, o.at) /\ g[o] = NoTime
    BY <1>3 DEF Incident
  <1>. HIDE DEF from, to
  <1>5. /\ slots \subseteq due
        /\ \A s \in schedule : /\ s - Tolerance <= now /\ s <= to + 2 * Tolerance
                               /\ from < s \/ \E q \in cps : Near(q, s)
                               => s \in slots
    BY <1>1, ExpectedIs
  <1>. HIDE DEF slots
  <1>6. Instants(slots) /\ Instants(due)
    BY <1>5 DEF Instants
  <1>7. \A q \in cps, s \in slots \cup due : Near(q, s) => s \in slots /\ s \in due
    <2>. SUFFICES ASSUME NEW q \in cps, NEW s \in slots \cup due, Near(q, s)
                  PROVE  s \in slots /\ s \in due
      OBVIOUS
    <2>1. s \in schedule /\ s \in Int /\ q.at \in Int /\ q.at <= now
      BY <1>5 DEF Instants, Stored
    <2>2. s - Tolerance <= now /\ s <= to + 2 * Tolerance
      BY <1>1, <2>1, Constants DEF Near
    <2>. QED
      BY <1>5, <2>1, <2>2
  <1>. HIDE DEF due
  <1>8. g[o] = h[o]
    <2>1. \A q \in cps, r \in cps \cup cps : Earlier(r, q) => r \in cps
      OBVIOUS
    <2>. QED
      BY <1>6, <1>7, <2>1, MatchStable DEF g
  <1>. QED
    BY <1>4, <1>8 DEF PartnerIn, due, Incident

\* A copy without a partner stays without one.
LEMMA StaysUnpaired ==
    ASSUME NEW schedule, Instants(schedule),
           NEW more, Stored(more), IsFiniteSet(more), NEW cps, cps \subseteq more,
           NEW now \in Int, NEW next \in Int, now <= next, \A o \in cps : o.at <= now,
           NEW o \in cps, PartnerIn(schedule, cps, now)[o] = NoTime
    PROVE  PartnerIn(schedule, more, next)[o] = NoTime
  <1>. DEFINE S == {s \in schedule : s - Tolerance <= now}
              T == {s \in schedule : s - Tolerance <= next}
  <1>1. Instants(S) /\ Instants(T) /\ Stored(cps)
    BY DEF Instants, Stored
  <1>2. \A q \in cps, s \in S \cup T : Near(q, s) => s \in S /\ s \in T
    <2>. SUFFICES ASSUME NEW q \in cps, NEW s \in S \cup T, Near(q, s)
                  PROVE  s \in S /\ s \in T
      OBVIOUS
    <2>1. s \in schedule /\ s \in Int /\ q.at \in Int /\ q.at <= now
      BY <1>1 DEF Instants, Stored
    <2>2. s - Tolerance <= now /\ s - Tolerance <= next
      BY <2>1, Constants DEF Near
    <2>. QED
      BY <2>1, <2>2
  <1>. HIDE DEF S, T
  <1>. QED
    BY <1>1, <1>2, MatchMonotone DEF PartnerIn, S, T

-----------------------------------------------------------------------------
(* Copies.                                                                 *)

\* The copies are finitely many and none is later than the present.
CopiesOK ==
    /\ clock \in 0 .. MaxTime
    /\ Stored(copies) /\ IsFiniteSet(copies)
    /\ \A o \in copies : o.at <= clock

\* The schedules of models, and those that learning may produce.
LEMMA Schedule ==
    ASSUME NEW sch \in Schedules \cup Imported \cup {{}}
    PROVE  Instants(sch)
  BY MonitoringAssumption DEF Instants

\* Initially.
LEMMA InitCopies == Init => CopiesOK
  <1>. SUFFICES ASSUME Init PROVE CopiesOK
    OBVIOUS
  <1>1. clock = 0 /\ copies \in Before
    BY DEF Init
  <1>2. copies \subseteq [id : Copies, at : Int] /\ IsFiniteSet(copies)
        /\ \A o \in copies : NoTime < o.at /\ o.at <= 0
    BY <1>1, MonitoringAssumption
  <1>. QED
    BY <1>1, <1>2, MonitoringAssumption DEF CopiesOK, Stored

\* Store.Complete adds one copy, with the present time.
LEMMA NextCopies == CopiesOK /\ [Next]_vars => CopiesOK'
  <1>. SUFFICES ASSUME CopiesOK, [Next]_vars PROVE CopiesOK'
    OBVIOUS
  <1>1. CASE UNCHANGED <<clock, copies>>
    BY <1>1 DEF CopiesOK
  <1>2. CASE Tick
    <2>1. clock' = clock + 1 /\ clock < MaxTime /\ copies' = copies
      BY <1>2 DEF Tick
    <2>2. \A o \in copies : o.at \in Int
      BY DEF CopiesOK, Stored
    <2>. QED
      BY <2>1, <2>2, MonitoringAssumption DEF CopiesOK
  <1>3. ASSUME NEW id \in Copies, Arrive(id) PROVE CopiesOK'
    <2>. DEFINE new == [id |-> id, at |-> clock]
    <2>1. copies' = copies \cup {new} /\ clock' = clock
      BY <1>3 DEF Arrive
    <2>2. new \in [id : Copies, at : Int] /\ new.at = clock /\ NoTime < new.at
      BY Constants DEF CopiesOK
    <2>3. IsFiniteSet(copies')
      BY <2>1, FS_AddElement DEF CopiesOK
    <2>. HIDE DEF new
    <2>. QED
      BY <2>1, <2>2, <2>3 DEF CopiesOK, Stored
  <1>. QED
    BY <1>1, <1>2, <1>3
       DEF Next, Check, Start, Snapshot, SaveModel, Plan, Refused, Complete,
           BeginRelearn, SetupAutomation, CreateAnomalyExclusion, CallFails,
           AnswerLost, Die, LateCompletion, LateRefused, vars

\* The chronological pairing is one, and none satisfies more appointments.
LEMMA PairingIsMaximum == CopiesOK => MatchingMaximum
  <1>. SUFFICES ASSUME CopiesOK PROVE MatchingMaximum
    OBVIOUS
  <1>. SUFFICES ASSUME NEW schedule \in Schedules
       PROVE  LET match == Partner(schedule)
                  Matching(f) == \A o \in copies : f[o] # NoTime =>
                               /\ f[o] - Tolerance <= o.at /\ o.at <= f[o] + Tolerance
                               /\ \A p \in copies \ {o} : f[p] # f[o]
                  Size(f) == Cardinality({o \in copies : f[o] # NoTime})
              IN  /\ Matching(match)
                  /\ \A f \in [copies -> schedule \cup {NoTime}] :
                        Matching(f) => Size(f) <= Size(match)
    BY DEF MatchingMaximum
  <1>. DEFINE due == {s \in schedule : s - Tolerance <= clock}
              match == Partner(schedule)
              Matching(f) == \A o \in copies : f[o] # NoTime =>
                               /\ f[o] - Tolerance <= o.at /\ o.at <= f[o] + Tolerance
                               /\ \A p \in copies \ {o} : f[p] # f[o]
  <1>1. Instants(schedule) /\ Instants(due)
    BY Schedule DEF Instants
  <1>2. match = matchAppointments(due, copies)
    BY DEF Partner
  <1>3. Stored(copies) /\ IsFiniteSet(copies) /\ \A o \in copies : o.at <= clock /\ o.at \in Int
    BY DEF CopiesOK, Stored
  <1>. HIDE DEF match
  <1>4. /\ match \in Drawn(due, copies)
        /\ \A f \in Drawn(due, copies) :
              Cardinality(Paired(copies, f)) <= Cardinality(Paired(copies, match))
    <2>. HIDE DEF due
    <2>. QED
      BY <1>1, <1>2, <1>3, MatchIsMaximum
  <1>5. Matching(match)
    BY <1>4 DEF Drawn, Near
  <1>6. ASSUME NEW f \in [copies -> schedule \cup {NoTime}], Matching(f)
        PROVE  Cardinality(Paired(copies, f)) <= Cardinality(Paired(copies, match))
    <2>1. \A o \in copies : f[o] # NoTime => f[o] \in due /\ Near(o, f[o])
      <3>. SUFFICES ASSUME NEW o \in copies, f[o] # NoTime PROVE f[o] \in due /\ Near(o, f[o])
        OBVIOUS
      <3>1. f[o] \in schedule /\ f[o] \in Int /\ Near(o, f[o])
        BY <1>1, <1>6 DEF Instants, Near
      <3>2. clock \in Int
        BY DEF CopiesOK
      <3>. QED
        BY <1>3, <3>1, <3>2, Constants DEF Near
    <2>2. f \in [copies -> due \cup {NoTime}]
      BY <2>1
    <2>3. f \in Drawn(due, copies)
      BY <1>6, <2>1, <2>2 DEF Drawn
    <2>. QED
      BY <1>4, <2>3
  <1>. QED
    BY <1>5, <1>6 DEF Paired, match

\* Theorem: the pairing that matchAppointments makes in one chronological pass
\* satisfies as many appointments as any pairing of the copies within the
\* tolerance, for every schedule and every set of copies that can be stored.
THEOREM PairingSatisfiesMost == Spec => []MatchingMaximum
  BY InitCopies, NextCopies, PairingIsMaximum, PTL DEF Spec

-----------------------------------------------------------------------------
(* What holds of the catalogue whatever was relearned.                     *)

\* A period that a reliable model judges, a tolerance or more before t.
Sound(s, t) == s \in Segment /\ s.model \in Reliable /\ s.to + Tolerance <= t
\* What the copies stored until t leave over in the periods of a plan.
Found(p, t) == UNION {checkWindow(s.model.schedule, Until(copies, t), s.from, s.to, t) : s \in p}

\* A revision has one model, and revisions stay below the next instant's.
GroundModels ==
    /\ ModelsTyped
    /\ \A m, n \in models : m.rev = n.rev => m = n
    /\ revision <= Base + orders + 1
    /\ \A m \in models : m.rev <= Base + orders + 1
\* Scopes end in the past, and those of a row have a first one.
GroundRows ==
    /\ RowsTyped /\ RowsInOrder
    /\ \A r \in DOMAIN rows :
          /\ \A s \in rows[r].scopes : s.to <= clock
          /\ rows[r].scopes # {} => \E s \in rows[r].scopes : FirstScope(s, rows[r].scopes)
\* The copies of the snapshot are those stored until the start, and the model that
\* the worker is about to save replaces no reliable one.
GroundWorker ==
    /\ pc # "idle" => rows # <<>>
    /\ pc \in {"learn", "plan", "complete"} =>
          /\ snap.rev \in Nat /\ snap.rev <= Base + orders + 1
          /\ snap.copies = Until(copies, Latest)
    /\ pc = "learn" => \A m \in Reliable : m.rev # Revision(snap.rev, Latest)
    /\ pc = "complete" => \A s \in plan : Sound(s, Latest)
\* A late completion carries what it would find today.
GroundCall(c) ==
    /\ rows # <<>> /\ c.started \in Nat /\ c.started <= Latest
    /\ c.rev \in Nat /\ c.rev <= Base + orders + 1
    /\ \A s \in c.plan : Sound(s, c.started)
    /\ c.found = Found(c.plan, c.started)
GroundJudged(c) == rows # <<>> /\ Sound(c, Latest)
Ground ==
    /\ CopiesOK /\ GroundModels /\ GroundRows /\ GroundWorker
    /\ \A c \in late : GroundCall(c)
    /\ \A c \in judged : GroundJudged(c)

\* An announced incident is one that the copies of today confirm.
Confirmed(i) ==
    \/ i.kind = "missing" /\ \E c \in judged : i \in Unpaired(c, copies, clock)
    \/ /\ i.kind = "extra"
       /\ \E m \in Reliable, o \in copies :
             o.id = i.of /\ PartnerIn(m.schedule, copies, clock)[o] = NoTime
    \/ i.kind = "time"
Findings ==
    /\ incidents \subseteq alerts
    /\ \A c \in judged : \A i \in Unpaired(c, copies, clock) \ alerts : Excluded(i)
    /\ \A i \in alerts : Confirmed(i)

\* What the proofs use of Ground.
LEMMA GroundFacts ==
    ASSUME Ground
    PROVE  /\ CopiesOK /\ ModelsTyped /\ RowsTyped /\ RowsInOrder
           /\ clock \in Nat /\ revision \in Nat /\ orders \in Nat /\ orders <= MaxOrders
           /\ orders + 1 < Stride /\ Base \in Nat
           /\ revision <= Base + orders + 1
           /\ \A m \in models : m.rev \in Nat /\ m.rev <= Base + orders + 1
           /\ rows # <<>> => Latest \in Nat /\ Latest <= clock
  <1>1. CopiesOK /\ ModelsTyped /\ RowsTyped /\ RowsInOrder
    BY DEF Ground, GroundModels, GroundRows
  <1>2. /\ clock \in Nat /\ revision \in Nat /\ orders \in Nat /\ orders <= MaxOrders
        /\ orders + 1 < Stride
    BY <1>1, Constants DEF ModelsTyped
  <1>3. Base \in Nat
    BY <1>1, BaseOf
  <1>. QED
    BY <1>1, <1>2, <1>3, ModelFields, LastRow DEF Ground, GroundModels

\* Base grows while the latest check goes on.
LEMMA BaseGrows ==
    ASSUME RowsTyped, rows # <<>> => rows' # <<>> /\ Latest' = Latest,
           rows = <<>> => rows' = <<>>,
           pc' \in {"scan", "learn"} => pc \in {"scan", "learn"}
    PROVE  Base \in Nat /\ Base' \in Nat /\ Base <= Base'
  <1>1. CASE rows = <<>>
    <2>1. Base = 0 /\ Base' = 0
      BY <1>1, Constants DEF Base
    <2>. QED
      BY <2>1
  <1>2. CASE rows # <<>>
    <2>1. Base' = IF pc' \in {"scan", "learn"} THEN Floor ELSE Ceiling
      BY <1>2 DEF Base, Floor, Ceiling
    <2>2. /\ Floor \in Nat /\ Ceiling \in Nat /\ Ceiling = Floor + Stride
          /\ Base = IF pc \in {"scan", "learn"} THEN Floor ELSE Ceiling
      BY <1>2, BaseOf
    <2>. QED
      BY <2>1, <2>2, Constants
  <1>. QED
    BY <1>1, <1>2

\* No step takes a copy or a reliable model away, and a new copy is later than the
\* start of the latest check.
Grows ==
    /\ Reliable \subseteq Reliable' /\ copies \subseteq copies' /\ clock <= clock'
    /\ rows # <<>> => \A o \in copies' \ copies : Latest < o.at

\* The copies stored until the latest start stay the same.
LEMMA UntilSame ==
    ASSUME Grows, CopiesOK', NEW t \in Int, rows # <<>>, Latest \in Int, t <= Latest
    PROVE  Until(copies', t) = Until(copies, t)
  <1>1. \A o \in copies' \ copies : o.at \in Int /\ Latest < o.at
    BY DEF Grows, CopiesOK, Stored
  <1>2. \A o \in copies' \ copies : ~(o.at <= t)
    BY <1>1
  <1>. QED
    BY <1>2 DEF Grows, Until

\* What was judged and what is on its way stays sound.
LEMMA GroundStays ==
    ASSUME Ground, Grows, CopiesOK',
           rows # <<>> => rows' # <<>> /\ Latest' \in Nat /\ Latest <= Latest',
           Base' \in Nat, orders' \in Nat, Base <= Base', orders <= orders'
    PROVE  /\ \A c : GroundCall(c) => GroundCall(c)'
           /\ \A c : GroundJudged(c) => GroundJudged(c)'
           /\ \A x \in Int : x <= Base + orders + 1 => x <= Base' + orders' + 1
           /\ \A s, t : Sound(s, t) => Sound(s, t)'
  <1>0. /\ clock \in Nat /\ orders \in Nat /\ Base \in Nat
        /\ rows # <<>> => Latest \in Nat /\ Latest <= clock
    BY GroundFacts
  <1>1. \A s, t : Sound(s, t) => Sound(s, t)'
    BY DEF Sound, Segment, Grows
  <1>2. \A x \in Int : x <= Base + orders + 1 => x <= Base' + orders' + 1
    BY <1>0, Sums, Zenon
  <1>3. ASSUME NEW c, GroundCall(c) PROVE GroundCall(c)'
    <2>1. /\ rows # <<>> /\ c.started \in Nat /\ c.started <= Latest
          /\ c.rev \in Nat /\ c.rev <= Base + orders + 1
          /\ \A s \in c.plan : Sound(s, c.started)
          /\ c.found = Found(c.plan, c.started)
      BY <1>3 DEF GroundCall
    <2>2. rows' # <<>> /\ c.started \in Nat /\ c.started <= Latest'
      BY <1>0, <2>1
    <2>3. c.rev \in Nat /\ c.rev <= Base' + orders' + 1
      <3>1. c.rev \in Int
        BY <2>1
      <3>. QED
        BY <1>2, <2>1, <3>1
    <2>4. \A s \in c.plan : Sound(s, c.started)'
      BY <1>1, <2>1
    <2>5. Until(copies', c.started) = Until(copies, c.started)
      <3>1. c.started \in Int /\ Latest \in Int
        BY <1>0, <2>1
      <3>. QED
        BY <2>1, <3>1, UntilSame
    <2>6. Found(c.plan, c.started)' = Found(c.plan, c.started)
      BY <2>5 DEF Found
    <2>. QED
      BY <2>1, <2>2, <2>3, <2>4, <2>6 DEF GroundCall
  <1>4. ASSUME NEW c, GroundJudged(c) PROVE GroundJudged(c)'
    <2>1. rows # <<>> /\ Sound(c, Latest)
      BY <1>4 DEF GroundJudged
    <2>2. c.to \in Int /\ c.to + Tolerance <= Latest
      BY <2>1 DEF Sound, Segment
    <2>3. c.to + Tolerance <= Latest'
      BY <1>0, <2>1, <2>2, Constants
    <2>. QED
      BY <2>1, <2>3 DEF GroundJudged, Sound, Segment, Grows
  <1>. QED
    BY <1>1, <1>2, <1>3, <1>4

\* Rows that are kept keep their scopes.
LEMMA ScopesStay ==
    ASSUME GroundRows, RowsTyped', RowsInOrder', RowsKept,
           clock \in Nat, clock' \in Nat, clock <= clock'
    PROVE  GroundRows'
  <1>1. ASSUME NEW r \in DOMAIN rows'
        PROVE  /\ \A s \in rows'[r].scopes : s.to <= clock'
               /\ rows'[r].scopes # {} => \E s \in rows'[r].scopes : FirstScope(s, rows'[r].scopes)
    <2>1. CASE r \in DOMAIN rows
      <3>1. rows'[r].scopes = rows[r].scopes
        BY <2>1 DEF RowsKept
      <3>2. \A s \in rows[r].scopes : s.to \in Int /\ s.to <= clock
        BY <2>1, RowFields DEF GroundRows
      <3>3. rows[r].scopes # {} => \E s \in rows[r].scopes : FirstScope(s, rows[r].scopes)
        BY <2>1 DEF GroundRows
      <3>. QED
        BY <3>1, <3>2, <3>3
    <2>2. CASE r \notin DOMAIN rows
      <3>1. rows'[r].scopes = {}
        BY <2>2 DEF RowsKept
      <3>. QED
        BY <3>1
    <2>. QED
      BY <2>1, <2>2
  <1>. QED
    BY <1>1 DEF GroundRows, FirstScope

\* The oldest of some models, when nothing is known of how their revisions and the
\* times they were learned at compare.
LEMMA OldestIn ==
    ASSUME ModelsTyped, \A m, n \in models : m.rev = n.rev => m = n,
           NEW ms \in SUBSET models, ms # {}
    PROVE  Oldest(ms) \in ms
  <1>0. \A m \in ms : m \in models /\ m.at \in Int /\ m.rev \in Nat /\ -Day <= m.at
    BY ModelFields DEF ModelsTyped
  <1>. DEFINE ats == {m.at : m \in ms}
  <1>1. ats \in SUBSET Int /\ ats # {} /\ (\A x \in ats : -Day <= x) /\ -Day \in Int
    BY <1>0, Constants
  <1>2. Min(ats) \in ats /\ \A x \in ats : Min(ats) <= x
    <2>. HIDE DEF ats
    <2>. QED
      BY <1>1, MinAbove
  <1>3. PICK k \in ms : \A n \in ms : k.at <= n.at
    <2>1. PICK k \in ms : k.at = Min(ats)
      BY <1>2
    <2>2. \A n \in ms : n.at \in ats
      OBVIOUS
    <2>. HIDE DEF ats
    <2>. QED
      BY <1>2, <2>1, <2>2
  <1>. DEFINE revs == {m.rev : m \in {n \in ms : n.at = k.at}}
  <1>4. revs \in SUBSET Nat /\ revs # {}
    BY <1>0
  <1>5. PICK r \in revs : \A x \in revs : r <= x
    BY <1>4, LeastOf
  <1>6. PICK m \in ms : m.at = k.at /\ m.rev = r
    BY <1>5
  <1>7. \A n \in ms \ {m} : Younger(m, n)
    <2>. TAKE n \in ms \ {m}
    <2>1. n.rev # m.rev /\ k.at <= n.at
      BY <1>0, <1>3
    <2>2. n.at = k.at => r <= n.rev
      BY <1>5
    <2>. QED
      BY <1>0, <1>6, <2>1, <2>2 DEF Younger
  <1>. QED
    BY <1>7 DEF Oldest

\* The youngest of them.
LEMMA YoungestIn ==
    ASSUME ModelsTyped, \A m, n \in models : m.rev = n.rev => m = n,
           NEW b \in Int, \A m \in models : m.rev <= b,
           NEW ms \in SUBSET models, ms # {}
    PROVE  \E m \in ms : \A n \in ms \ {m} : Younger(n, m)
  <1>0. /\ \A m \in ms : m \in models /\ m.at \in Int /\ m.rev \in Nat /\ m.at <= clock /\ m.rev <= b
        /\ clock \in Int
    BY ModelFields DEF ModelsTyped
  <1>. DEFINE ats == {m.at : m \in ms}
  <1>1. ats \in SUBSET Int /\ ats # {} /\ \A x \in ats : x <= clock
    BY <1>0
  <1>2. Max(ats) \in ats /\ \A x \in ats : x <= Max(ats)
    <2>. HIDE DEF ats
    <2>. QED
      BY <1>0, <1>1, MaxOf
  <1>3. PICK k \in ms : \A n \in ms : n.at <= k.at
    BY <1>2
  <1>. DEFINE revs == {m.rev : m \in {n \in ms : n.at = k.at}}
  <1>4. revs \in SUBSET Int /\ revs # {} /\ \A x \in revs : x <= b
    BY <1>0
  <1>5. Max(revs) \in revs /\ \A x \in revs : x <= Max(revs)
    <2>. HIDE DEF revs
    <2>. QED
      BY <1>4, MaxOf
  <1>6. PICK m \in ms : m.at = k.at /\ m.rev = Max(revs)
    BY <1>5
  <1>7. \A n \in ms \ {m} : Younger(n, m)
    <2>. TAKE n \in ms \ {m}
    <2>1. n.rev # m.rev /\ n.at <= k.at
      BY <1>0, <1>3
    <2>2. n.at = k.at => n.rev <= m.rev
      BY <1>5, <1>6
    <2>. HIDE DEF revs
    <2>. QED
      BY <1>0, <1>6, <2>1, <2>2 DEF Younger
  <1>. QED
    BY <1>7

\* A plan starts at an instant.
LEMMA StartIsInstant ==
    ASSUME Ground, rows # <<>>, Usable # {}, ~Lost
    PROVE  StartOfCoverage \in Int
  <1>0. /\ ModelsTyped /\ RowsTyped /\ clock \in Nat
        /\ \A m, n \in models : m.rev = n.rev => m = n
        /\ Base + orders + 1 \in Int /\ \A m \in models : m.rev <= Base + orders + 1
    BY GroundFacts DEF Ground, GroundModels
  <1>1. CASE Limits # {}
    <2>1. Limits \in SUBSET Int /\ \A x \in Limits : x <= clock
      <3>. SUFFICES ASSUME NEW x \in Limits PROVE x \in Int /\ x <= clock
        OBVIOUS
      <3>1. PICK r \in Completed : \E s \in rows[r].scopes : x = s.to
        BY LimitIn
      <3>2. r \in DOMAIN rows
        BY DEF Completed
      <3>. QED
        BY <1>0, <3>1, <3>2, RowFields DEF Ground, GroundRows
    <2>2. Max(Limits) \in Int
      BY <1>0, <1>1, <2>1, MaxOf
    <2>. QED
      BY <1>1, <2>2 DEF StartOfCoverage
  <1>2. CASE Limits = {} /\ Attempts # {}
    <2>1. Attempts \in SUBSET Nat /\ Attempts \subseteq DOMAIN rows
      BY <1>0, RowFields DEF Attempts
    <2>2. Min(Attempts) \in Attempts
      BY <1>2, <2>1, MinOf
    <2>. DEFINE r == Min(Attempts)
                scopes == rows[r].scopes
    <2>3. r \in DOMAIN rows /\ scopes # {}
      BY <2>2 DEF Attempts
    <2>4. \E s \in scopes : FirstScope(s, scopes)
      BY <2>3 DEF Ground, GroundRows
    <2>5. Initial = CHOOSE s \in scopes : FirstScope(s, scopes)
      BY DEF Initial, FirstScope
    <2>6. Initial \in scopes
      BY <2>4, <2>5
    <2>7. Initial.from \in Int
      BY <1>0, <2>3, <2>6, RowFields
    <2>. QED
      BY <1>2, <2>7 DEF StartOfCoverage
  <1>3. CASE Limits = {} /\ Attempts = {}
    <2>1. rows[1].started \in Nat /\ Usable \in SUBSET models
      <3>1. 1 \in DOMAIN rows
        BY <1>0, LastRow
      <3>. QED
        BY <1>0, <3>1, RowFields DEF Usable
    <2>2. Oldest(Usable) \in Usable
      BY <1>0, <2>1, OldestIn
    <2>3. FirstModel \in models
      <3>1. CASE Completed # {}
        BY <1>3, <2>1, <2>2, <3>1 DEF FirstModel
      <3>2. CASE Completed = {}
        <4>. DEFINE known == {m \in Usable : m.at <= rows[1].started}
        <4>1. FirstModel = IF known = {} THEN Oldest(Usable)
                           ELSE CHOOSE m \in known : \A n \in known \ {m} : Younger(n, m)
          BY <1>3, <3>2 DEF FirstModel
        <4>2. known \in SUBSET models
          BY <2>1
        <4>. HIDE DEF known
        <4>3. known # {} => \E m \in known : \A n \in known \ {m} : Younger(n, m)
          BY <1>0, <4>2, YoungestIn
        <4>. QED
          BY <2>1, <2>2, <4>1, <4>2, <4>3
      <3>. QED
        BY <3>1, <3>2
    <2>4. FirstModel.at \in Int
      BY <1>0, <2>3, ModelFields
    <2>5. Midnight(rows[1].started) - Day - 1 \in Int
      <3>1. rows[1].started \in Int /\ Day \in Int
        BY <2>1, Constants
      <3>2. Midnight(rows[1].started) \in Int
        BY <3>1, MidnightOf
      <3>. QED
        BY <3>1, <3>2
    <2>. QED
      BY <1>3, <2>4, <2>5 DEF StartOfCoverage
  <1>. QED
    BY <1>1, <1>2, <1>3

\* PlanMonitoringCheck plans sound periods, one of which is the first.
LEMMA PlanIsSound ==
    ASSUME Ground, rows # <<>>, ~Lost
    PROVE  /\ \A s \in Segments : Sound(s, Latest)
           /\ LET scopes == {ScopeOf(s) : s \in Segments}
              IN  /\ scopes \subseteq Scope
                  /\ \A s \in scopes : s.to <= clock
                  /\ scopes # {} => \E s \in scopes : FirstScope(s, scopes)
  <1>0. /\ ModelsTyped /\ RowsTyped /\ clock \in Nat
        /\ \A m, n \in models : m.rev = n.rev => m = n
        /\ Latest \in Nat /\ Latest <= clock
        /\ CoverageEnd \in Int /\ CoverageEnd = Latest - Tolerance
    BY GroundFacts, LastRow DEF Ground, GroundModels
  <1>1. CASE Segments = {}
    BY <1>1
  <1>2. CASE Segments # {}
    <2>. DEFINE start == StartOfCoverage
                ms == IF Limits # {} THEN Usable
                      ELSE {m \in Usable : m = FirstModel \/ Younger(FirstModel, m)}
                From(m) == IF Limits # {} \/ m # FirstModel
                             THEN Max({start, m.at}) ELSE start
                S == {[model |-> m, from |-> From(m), to |-> SegmentEnd(m, ms)] :
                        m \in {n \in ms : From(n) <= SegmentEnd(n, ms)}}
    <2>1. Usable # {} /\ Segments = S
      BY <1>2 DEF Segments
    <2>2. start \in Int
      BY <2>1, StartIsInstant
    <2>3. ms \in SUBSET models /\ ms \subseteq Reliable
      BY DEF Usable, Reliable
    <2>. HIDE DEF start, ms
    <2>4. ASSUME NEW m \in ms
          PROVE  /\ m \in Model /\ m.at \in Int /\ m.rev \in Nat /\ m \in Reliable
                 /\ From(m) \in Int /\ start <= From(m)
                 /\ SegmentEnd(m, ms) \in Int /\ SegmentEnd(m, ms) <= CoverageEnd
      <3>1. m \in Model /\ m.at \in Int /\ m.rev \in Nat /\ m \in Reliable
        BY <1>0, <2>3, ModelFields
      <3>2. From(m) \in Int /\ start <= From(m)
        BY <2>2, <3>1, MaxPair
      <3>3. SegmentEnd(m, ms) \in Int /\ SegmentEnd(m, ms) <= CoverageEnd
        <4>. DEFINE later == {n \in ms : Younger(m, n)}
        <4>1. SegmentEnd(m, ms) = IF later = {} THEN CoverageEnd
                                  ELSE Min({CoverageEnd, Oldest(later).at})
          BY DEF SegmentEnd
        <4>2. later \in SUBSET models
          BY <2>3
        <4>. HIDE DEF later
        <4>3. CASE later = {}
          BY <1>0, <4>1, <4>3
        <4>4. CASE later # {}
          <5>1. Oldest(later) \in models
            BY <1>0, <4>2, <4>4, OldestIn
          <5>2. Oldest(later).at \in Int
            BY <1>0, <5>1, ModelFields
          <5>3. Min({CoverageEnd, Oldest(later).at})
                  = IF CoverageEnd <= Oldest(later).at THEN CoverageEnd ELSE Oldest(later).at
            BY <1>0, <5>2, MaxPair
          <5>. QED
            BY <1>0, <4>1, <4>4, <5>2, <5>3
        <4>. QED
          BY <4>3, <4>4
      <3>. QED
        BY <3>1, <3>2, <3>3
    <2>. HIDE DEF From
    <2>5. ASSUME NEW s \in S
          PROVE  /\ Sound(s, Latest) /\ start <= s.from /\ s.model \in models
                 /\ ScopeOf(s) \in Scope /\ ScopeOf(s).to <= clock
                 /\ s = [model |-> s.model, from |-> From(s.model), to |-> SegmentEnd(s.model, ms)]
      <3>1. PICK m \in ms : s = [model |-> m, from |-> From(m), to |-> SegmentEnd(m, ms)]
        OBVIOUS
      <3>2. /\ m \in Model /\ m.at \in Int /\ m.rev \in Nat /\ m \in Reliable /\ m \in models
            /\ From(m) \in Int /\ start <= From(m)
            /\ SegmentEnd(m, ms) \in Int /\ SegmentEnd(m, ms) <= CoverageEnd
        BY <2>3, <2>4
      <3>3. s \in Segment /\ s.model = m /\ s.from = From(m) /\ s.to = SegmentEnd(m, ms)
        BY <3>1, <3>2 DEF Segment
      <3>4. s.to + Tolerance <= Latest /\ s.to <= clock
        BY <1>0, <3>2, <3>3, Constants
      <3>5. ScopeOf(s) = [rev |-> m.rev, from |-> From(m), to |-> SegmentEnd(m, ms)]
        BY <3>3 DEF ScopeOf
      <3>6. ScopeOf(s) \in Scope /\ ScopeOf(s).to = s.to
        BY <3>2, <3>3, <3>5 DEF Scope
      <3>. QED
        BY <3>1, <3>2, <3>3, <3>4, <3>6 DEF Sound
    <2>. DEFINE scopes == {ScopeOf(s) : s \in S}
    <2>6. \E s \in scopes : FirstScope(s, scopes)
      <3>1. \A u \in scopes : /\ u \in Scope /\ start <= u.from /\ u.from \in Int /\ u.rev \in Nat
        <4>. TAKE u \in scopes
        <4>1. PICK s \in S : u = ScopeOf(s)
          OBVIOUS
        <4>2. u \in Scope /\ start <= s.from
          BY <2>5, <4>1
        <4>. QED
          BY <4>1, <4>2 DEF ScopeOf, Scope
      <3>2. \A u, v \in scopes : u.rev = v.rev => u = v
        <4>. SUFFICES ASSUME NEW u \in scopes, NEW v \in scopes, u.rev = v.rev PROVE u = v
          OBVIOUS
        <4>1. PICK s \in S : u = ScopeOf(s)
          OBVIOUS
        <4>2. PICK t \in S : v = ScopeOf(t)
          OBVIOUS
        <4>3. s.model \in models /\ t.model \in models /\ s.model.rev = t.model.rev
          BY <2>5, <4>1, <4>2 DEF ScopeOf
        <4>4. s.model = t.model
          BY <1>0, <4>3
        <4>5. s = t
          BY <2>5, <4>4
        <4>. QED
          BY <4>1, <4>2, <4>5
      <3>3. scopes # {}
        BY <1>2, <2>1
      <3>. HIDE DEF scopes
      <3>. DEFINE froms == {u.from : u \in scopes}
      <3>4. froms \in SUBSET Int /\ froms # {} /\ \A x \in froms : start <= x
        BY <3>1, <3>3
      <3>5. Min(froms) \in froms /\ \A x \in froms : Min(froms) <= x
        <4>. HIDE DEF froms
        <4>. QED
          BY <2>2, <3>4, MinAbove
      <3>6. PICK k \in scopes : \A u \in scopes : k.from <= u.from
        BY <3>5
      <3>. DEFINE revs == {u.rev : u \in {v \in scopes : v.from = k.from}}
      <3>7. revs \in SUBSET Nat /\ revs # {}
        BY <3>1
      <3>8. PICK r \in revs : \A x \in revs : r <= x
        BY <3>7, LeastOf
      <3>9. PICK u \in scopes : u.from = k.from /\ u.rev = r
        BY <3>8
      <3>10. \A v \in scopes \ {u} : u.from < v.from \/ (u.from = v.from /\ u.rev < v.rev)
        <4>. TAKE v \in scopes \ {u}
        <4>1. v.rev # u.rev /\ k.from <= v.from
          BY <3>2, <3>6
        <4>2. v.from = k.from => r <= v.rev
          BY <3>8
        <4>. QED
          BY <3>1, <3>9, <4>1, <4>2
      <3>. QED
        BY <3>10 DEF FirstScope
    <2>7. scopes \subseteq Scope /\ \A s \in scopes : s.to <= clock
      BY <2>5
    <2>. HIDE DEF S
    <2>. QED
      BY <2>1, <2>5, <2>6, <2>7
  <1>. QED
    BY <1>1, <1>2

\* Steps of others, and steps that give a check up.
LEMMA GroundQuiet ==
    ASSUME Ground, Grows, CopiesOK', UNCHANGED <<models, judged>>, clock' \in Nat,
           orders' \in 0 .. MaxOrders, orders <= orders',
           revision' \in Nat, revision' <= Base + orders' + 1,
           rows' = rows \/ (rows' = Fail(clock) /\ clock' = clock),
           pc' = "idle" \/ UNCHANGED <<pc, snap, plan>>,
           \A c \in late' \ late : GroundCall(c)
    PROVE  Ground'
  <1>0. /\ ModelsTyped /\ RowsTyped /\ RowsInOrder /\ clock \in Nat /\ orders \in Nat
        /\ orders' \in Nat /\ clock <= clock' /\ Base \in Nat
        /\ GroundModels /\ GroundRows /\ GroundWorker
        /\ \A m \in models : m.rev \in Nat /\ m.rev <= Base + orders + 1
        /\ rows # <<>> => Latest \in Nat
    BY GroundFacts, Constants DEF Ground, Grows
  <1>1. /\ RowsTyped' /\ RowsInOrder' /\ RowsKept
        /\ rows # <<>> => rows' # <<>> /\ Latest' = Latest
        /\ rows = <<>> => rows' = <<>>
    <2>1. CASE rows' = rows
      BY <1>0, <2>1, RowsUnchanged DEF Latest
    <2>2. CASE rows' = Fail(clock) /\ clock' = clock
      <3>1. rows = <<>> => rows' = <<>>
        BY <2>2 DEF Fail, Running
      <3>. QED
        BY <1>0, <2>2, <3>1, FailRows
    <2>. QED
      BY <2>1, <2>2
  <1>2. Base' \in Nat /\ Base <= Base'
    BY <1>0, <1>1, BaseGrows
  <1>3. /\ \A c : GroundCall(c) => GroundCall(c)'
        /\ \A c : GroundJudged(c) => GroundJudged(c)'
        /\ \A x \in Int : x <= Base + orders + 1 => x <= Base' + orders' + 1
        /\ \A s, t : Sound(s, t) => Sound(s, t)'
    <2>1. rows # <<>> => rows' # <<>> /\ Latest' \in Nat /\ Latest <= Latest'
      BY <1>0, <1>1
    <2>. QED
      BY <1>0, <1>2, <2>1, GroundStays
  <1>4. GroundModels'
    <2>1. ModelsTyped'
      BY <1>0, ModelFields DEF ModelsTyped
    <2>2. revision' <= Base' + orders' + 1
      <3>1. orders' <= orders' /\ revision' \in Int
        BY <1>0
      <3>2. \A x \in Int : x <= Base + orders' + 1 => x <= Base' + orders' + 1
        BY <1>0, <1>2, <3>1, Sums, Zenon
      <3>. QED
        BY <3>1, <3>2
    <2>3. \A m \in models : m.rev <= Base' + orders' + 1
      BY <1>0, <1>3
    <2>. QED
      BY <1>0, <2>1, <2>2, <2>3 DEF GroundModels
  <1>5. GroundRows'
    BY <1>0, <1>1, ScopesStay
  <1>6. GroundWorker'
    <2>1. CASE pc' = "idle"
      BY <2>1 DEF GroundWorker
    <2>2. CASE UNCHANGED <<pc, snap, plan>>
      <3>1. pc # "idle" => rows # <<>> /\ rows' # <<>> /\ Latest' = Latest
        BY <1>0, <1>1 DEF GroundWorker
      <3>2. pc \in {"learn", "plan", "complete"} =>
               /\ snap.rev \in Nat /\ snap.rev <= Base' + orders' + 1
               /\ snap.copies = Until(copies', Latest)
        <4>. SUFFICES ASSUME pc \in {"learn", "plan", "complete"}
                      PROVE  /\ snap.rev \in Nat /\ snap.rev <= Base' + orders' + 1
                             /\ snap.copies = Until(copies', Latest)
          OBVIOUS
        <4>1. snap.rev \in Nat /\ snap.rev <= Base + orders + 1 /\ snap.copies = Until(copies, Latest)
          BY <1>0 DEF GroundWorker
        <4>2. snap.rev \in Int /\ Latest \in Int /\ Latest <= Latest /\ rows # <<>>
          BY <1>0, <3>1, <4>1
        <4>. QED
          BY <1>3, <4>1, <4>2, UntilSame
      <3>3. pc = "learn" => \A m \in Reliable' : m.rev # Revision(snap.rev, Latest)
        BY <1>0 DEF GroundWorker, Reliable
      <3>4. pc = "complete" => \A s \in plan : Sound(s, Latest)'
        <4>1. pc = "complete" => \A s \in plan : Sound(s, Latest) /\ Latest' = Latest
          BY <1>0, <3>1 DEF GroundWorker
        <4>. QED
          BY <1>3, <4>1 DEF Sound
      <3>. QED
        BY <2>2, <3>1, <3>2, <3>3, <3>4 DEF GroundWorker
    <2>. QED
      BY <2>1, <2>2
  <1>7. \A c \in late' : GroundCall(c)'
    BY <1>3 DEF Ground
  <1>8. \A c \in judged' : GroundJudged(c)'
    BY <1>3 DEF Ground
  <1>. QED
    BY <1>4, <1>5, <1>6, <1>7, <1>8 DEF Ground

\* What a worker that has planned sends.
LEMMA CompletionGround ==
    ASSUME Ground, pc = "complete"
    PROVE  GroundCall(Completion)
  <1>0. /\ rows # <<>> /\ Latest \in Nat /\ orders \in Nat /\ RowsTyped
        /\ snap.rev \in Nat /\ snap.rev <= Base + orders + 1
        /\ snap.copies = Until(copies, Latest)
        /\ \A s \in plan : Sound(s, Latest)
    BY GroundFacts DEF Ground, GroundWorker
  <1>1. Base = Ceiling /\ Ceiling \in Nat
    BY <1>0, BaseOf
  <1>2. /\ Completion.started = Latest /\ Completion.rev = Revision(snap.rev, Latest)
        /\ Completion.plan = plan
        /\ Completion.found = UNION {checkWindow(s.model.schedule, snap.copies, s.from,
                                                 s.to, Latest) : s \in plan}
    BY DEF Completion, Latest
  <1>3. Completion.found = Found(plan, Latest)
    BY <1>0, <1>2 DEF Found
  <1>4. Revision(snap.rev, Latest) = IF snap.rev = 0 THEN Ceiling ELSE snap.rev
    BY DEF Revision, Ceiling
  <1>5. Completion.rev \in Nat /\ Completion.rev <= Base + orders + 1
    BY <1>0, <1>1, <1>2, <1>4
  <1>6. Latest <= Latest
    BY <1>0
  <1>. QED
    BY <1>0, <1>2, <1>3, <1>5, <1>6 DEF GroundCall

\* StartMonitoringCheck.
LEMMA GroundStart ==
    ASSUME Ground, Grows, CopiesOK', Start
    PROVE  Ground'
  <1>0. /\ pc = "idle" /\ pc' = "scan" /\ (rows # <<>> => Latest < clock)
        /\ rows' = Append(Fail(clock), Row(clock))
        /\ UNCHANGED <<clock, models, revision, judged, orders, late, snap>>
    BY DEF Start, history, Latest
  <1>1. /\ ModelsTyped /\ RowsTyped /\ RowsInOrder /\ clock \in Nat /\ orders \in Nat
        /\ revision \in Nat /\ Base \in Nat /\ revision <= Base + orders + 1
        /\ GroundModels /\ GroundRows
        /\ \A m \in models : m.rev \in Nat /\ m.rev <= Base + orders + 1
        /\ rows # <<>> => Latest \in Nat
    BY GroundFacts DEF Ground
  <1>2. /\ RowsTyped' /\ RowsInOrder' /\ RowsKept /\ rows' # <<>> /\ Latest' = clock
    BY <1>0, <1>1, StartRows
  <1>3. Base' \in Nat /\ Base <= Base'
    <2>1. Base' = Stride * clock
      BY <1>0, <1>2 DEF Base
    <2>2. Stride * clock \in Nat
      BY <1>1, Strides
    <2>3. CASE rows = <<>>
      BY <1>1, <2>1, <2>2, <2>3, BaseOf
    <2>4. CASE rows # <<>>
      <3>1. Base = Stride * (Latest + 1) /\ Latest \in Nat /\ Latest < clock
        BY <1>0, <1>1, <2>4 DEF Base
      <3>. QED
        BY <1>1, <2>1, <2>2, <3>1, Strides
    <2>. QED
      BY <2>3, <2>4
  <1>4. /\ \A c : GroundCall(c) => GroundCall(c)'
        /\ \A c : GroundJudged(c) => GroundJudged(c)'
        /\ \A x \in Int : x <= Base + orders + 1 => x <= Base' + orders' + 1
    <2>1. /\ rows # <<>> => rows' # <<>> /\ Latest' \in Nat /\ Latest <= Latest'
          /\ orders' \in Nat /\ orders <= orders'
      BY <1>0, <1>1, <1>2
    <2>. QED
      BY <1>3, <2>1, GroundStays
  <1>5. GroundModels'
    <2>1. ModelsTyped'
      BY <1>0, <1>1 DEF ModelsTyped
    <2>2. revision <= Base' + orders' + 1 /\ \A m \in models : m.rev <= Base' + orders' + 1
      BY <1>1, <1>4
    <2>. QED
      BY <1>0, <1>1, <2>1, <2>2 DEF GroundModels
  <1>6. GroundRows'
    <2>1. clock' \in Nat /\ clock <= clock'
      BY <1>0, <1>1
    <2>. QED
      BY <1>1, <1>2, <2>1, ScopesStay
  <1>7. GroundWorker'
    BY <1>0, <1>2 DEF GroundWorker
  <1>8. (\A c \in late' : GroundCall(c)') /\ \A c \in judged' : GroundJudged(c)'
    BY <1>0, <1>4 DEF Ground
  <1>. QED
    BY <1>5, <1>6, <1>7, <1>8 DEF Ground

\* The snapshot: no reliable model has the revision that the worker will save one
\* for.
LEMMA GroundSnapshot ==
    ASSUME Ground, Grows, CopiesOK', Snapshot
    PROVE  Ground'
  <1>0. /\ pc = "scan" /\ pc' = (IF snap'.known = {} THEN "learn" ELSE "plan")
        /\ snap'.rev = revision /\ snap'.copies = Until(copies, Latest)
        /\ snap'.known = {m \in models : m.rev = revision /\ m.reliable}
        /\ UNCHANGED <<clock, copies, models, revision, rows, judged, orders, late>>
        /\ Latest' = Latest /\ Reliable' = Reliable
    BY DEF Snapshot, history, Latest, Until, Reliable
  <1>1. /\ ModelsTyped /\ RowsTyped /\ RowsInOrder /\ clock \in Nat /\ orders \in Nat
        /\ orders + 1 < Stride
        /\ revision \in Nat /\ Base \in Nat /\ revision <= Base + orders + 1
        /\ GroundModels /\ GroundRows /\ rows # <<>> /\ Latest \in Nat
        /\ \A m \in models : m.rev \in Nat /\ m.rev <= Base + orders + 1
    BY <1>0, GroundFacts DEF Ground, GroundWorker
  <1>2. RowsTyped' /\ RowsInOrder' /\ RowsKept /\ clock <= clock' /\ clock' \in Nat
    <2>1. clock <= clock' /\ clock' \in Nat
      BY <1>0, <1>1
    <2>. QED
      BY <1>0, <1>1, <2>1, RowsUnchanged
  <1>3. Base' \in Nat /\ Base <= Base'
    BY <1>0, <1>1, BaseGrows
  <1>4. Base = Floor /\ Floor \in Nat /\ Ceiling = Floor + Stride
    BY <1>0, <1>1, BaseOf
  <1>5. /\ \A c : GroundCall(c) => GroundCall(c)'
        /\ \A c : GroundJudged(c) => GroundJudged(c)'
        /\ \A x \in Int : x <= Base + orders + 1 => x <= Base' + orders' + 1
    <2>1. /\ rows # <<>> => rows' # <<>> /\ Latest' \in Nat /\ Latest <= Latest'
          /\ orders' \in Nat /\ orders <= orders'
      BY <1>0, <1>1
    <2>. QED
      BY <1>3, <2>1, GroundStays
  <1>6. GroundModels'
    <2>1. ModelsTyped'
      BY <1>0, <1>1 DEF ModelsTyped
    <2>2. revision <= Base' + orders' + 1 /\ \A m \in models : m.rev <= Base' + orders' + 1
      BY <1>1, <1>5
    <2>. QED
      BY <1>0, <1>1, <2>1, <2>2 DEF GroundModels
  <1>7. GroundRows'
    BY <1>1, <1>2, ScopesStay
  <1>8. GroundWorker'
    <2>1. revision <= Base' + orders' + 1
      BY <1>1, <1>5
    <2>2. ASSUME snap'.known = {}, NEW m \in Reliable
          PROVE  m.rev # Revision(revision, Latest)
      <3>1. m \in models /\ m.reliable /\ m.rev \in Nat /\ m.rev <= Floor + orders + 1
        BY <1>1, <1>4 DEF Reliable
      <3>2. CASE revision = 0
        <4>1. Revision(revision, Latest) = Ceiling
          BY <3>2 DEF Revision, Ceiling
        <4>2. m.rev < Ceiling
          BY <1>1, <1>4, <3>1, Constants
        <4>. QED
          BY <3>1, <4>1, <4>2
      <3>3. CASE revision # 0
        <4>1. Revision(revision, Latest) = revision
          BY <3>3 DEF Revision
        <4>. QED
          BY <1>0, <2>2, <3>1, <4>1
      <3>. QED
        BY <3>2, <3>3
    <2>3. pc' = "learn" => \A m \in Reliable' : m.rev # Revision(snap'.rev, Latest')
      BY <1>0, <2>2
    <2>4. snap'.copies = Until(copies', Latest')
      BY <1>0
    <2>. QED
      BY <1>0, <1>1, <2>1, <2>3, <2>4 DEF GroundWorker
  <1>9. (\A c \in late' : GroundCall(c)') /\ \A c \in judged' : GroundJudged(c)'
    BY <1>0, <1>5 DEF Ground
  <1>. QED
    BY <1>6, <1>7, <1>8, <1>9 DEF Ground

\* SaveModel replaces no reliable model.
LEMMA SaveModelGrows ==
    ASSUME Ground, SaveModel
    PROVE  Reliable \subseteq Reliable'
  <1>1. PICK l \in Schedules \cup {{}} :
          models' = {m \in models : m.rev # Revision(snap.rev, Latest)} \cup
                    {[rev |-> Revision(snap.rev, Latest), at |-> clock, schedule |-> l,
                      reliable |-> l # {}]}
    BY DEF SaveModel, Latest
  <1>2. \A m \in Reliable : m.rev # Revision(snap.rev, Latest)
    BY DEF SaveModel, Ground, GroundWorker
  <1>. QED
    BY <1>1, <1>2 DEF Reliable

\* The model it saves has a revision of its own.
LEMMA GroundSaveModel ==
    ASSUME Ground, Grows, CopiesOK', SaveModel
    PROVE  Ground'
  <1>. DEFINE rev == Revision(snap.rev, Latest)
              new(l) == [rev |-> rev, at |-> clock, schedule |-> l, reliable |-> l # {}]
  <1>0. /\ pc = "learn" /\ pc' = "plan"
        /\ UNCHANGED <<clock, copies, revision, rows, judged, orders, late, snap>>
        /\ Latest' = Latest
    BY DEF SaveModel, history, Latest
  <1>1. /\ ModelsTyped /\ RowsTyped /\ RowsInOrder /\ clock \in Nat /\ orders \in Nat
        /\ revision \in Nat /\ Base \in Nat /\ revision <= Base + orders + 1
        /\ GroundModels /\ GroundRows /\ rows # <<>> /\ Latest \in Nat
        /\ snap.rev \in Nat /\ snap.rev <= Base + orders + 1 /\ snap.copies = Until(copies, Latest)
        /\ \A m \in models : m.rev \in Nat /\ m.rev <= Base + orders + 1
    BY <1>0, GroundFacts DEF Ground, GroundWorker
  <1>2. RowsTyped' /\ RowsInOrder' /\ RowsKept /\ clock <= clock' /\ clock' \in Nat
    <2>1. clock <= clock' /\ clock' \in Nat
      BY <1>0, <1>1
    <2>. QED
      BY <1>0, <1>1, <2>1, RowsUnchanged
  <1>3. Base' \in Nat /\ Base <= Base'
    BY <1>0, <1>1, BaseGrows
  <1>4. Base' = Ceiling /\ Ceiling \in Nat /\ Ceiling > 0
    <2>1. Floor \in Nat /\ Ceiling = Floor + Stride
      BY <1>1, BaseOf
    <2>2. Base' = Ceiling
      BY <1>0, <1>1 DEF Base, Ceiling
    <2>. QED
      BY <1>1, <2>1, <2>2, Constants
  <1>5. /\ \A c : GroundCall(c) => GroundCall(c)'
        /\ \A c : GroundJudged(c) => GroundJudged(c)'
        /\ \A x \in Int : x <= Base + orders + 1 => x <= Base' + orders' + 1
    <2>1. /\ rows # <<>> => rows' # <<>> /\ Latest' \in Nat /\ Latest <= Latest'
          /\ orders' \in Nat /\ orders <= orders'
      BY <1>0, <1>1
    <2>. QED
      BY <1>3, <2>1, GroundStays
  <1>6. rev \in Nat /\ rev # 0 /\ rev <= Base' + orders' + 1
    <2>1. rev = IF snap.rev = 0 THEN Ceiling ELSE snap.rev
      BY DEF Revision, Ceiling
    <2>2. snap.rev <= Base' + orders' + 1
      BY <1>1, <1>5
    <2>. HIDE DEF rev
    <2>. QED
      BY <1>0, <1>1, <1>4, <2>1, <2>2
  <1>7. PICK l \in Schedules \cup {{}} : models' = {m \in models : m.rev # rev} \cup {new(l)}
    BY DEF SaveModel, Latest
  <1>. DEFINE N == new(l)
  <1>8. N.rev = rev /\ N.at = clock
    OBVIOUS
  <1>. HIDE DEF rev
  <1>9. N \in Model
    BY <1>1, <1>6 DEF Model
  <1>10. \A m \in models' : m = N \/ (m \in models /\ m.rev # rev)
    BY <1>7
  <1>. HIDE DEF N, new
  <1>11. GroundModels'
    <2>1. ASSUME NEW m \in models'
          PROVE  m \in Model /\ -Day <= m.at /\ m.at <= clock /\ m.rev <= Base' + orders' + 1
      <3>1. CASE m = N
        BY <1>1, <1>6, <1>8, <1>9, <3>1, Constants
      <3>2. CASE m \in models
        BY <1>1, <1>5, <3>2 DEF ModelsTyped
      <3>. QED
        BY <1>10, <3>1, <3>2
    <2>2. ModelsTyped'
      BY <1>0, <1>1, <2>1 DEF ModelsTyped
    <2>3. \A m, n \in models' : m.rev = n.rev => m = n
      BY <1>1, <1>8, <1>10 DEF GroundModels
    <2>4. revision <= Base' + orders' + 1
      BY <1>1, <1>5
    <2>. QED
      BY <1>0, <2>1, <2>2, <2>3, <2>4 DEF GroundModels
  <1>12. GroundRows'
    BY <1>1, <1>2, ScopesStay
  <1>13. GroundWorker'
    <2>1. snap.rev <= Base' + orders' + 1
      BY <1>1, <1>5
    <2>. QED
      BY <1>0, <1>1, <2>1 DEF GroundWorker
  <1>14. (\A c \in late' : GroundCall(c)') /\ \A c \in judged' : GroundJudged(c)'
    BY <1>0, <1>5 DEF Ground
  <1>. QED
    BY <1>11, <1>12, <1>13, <1>14 DEF Ground

\* PlanMonitoringCheck.
LEMMA GroundPlan ==
    ASSUME Ground, Grows, CopiesOK', Plan
    PROVE  Ground'
  <1>. DEFINE Q == {ScopeOf(s) : s \in Segments}
  <1>0. /\ pc = "plan" /\ pc' = "complete" /\ Running /\ ~Lost /\ plan' = Segments
        /\ rows' = [rows EXCEPT ![Len(rows)].scopes = Q]
        /\ UNCHANGED <<clock, copies, models, revision, judged, orders, late, snap>>
        /\ Reliable' = Reliable
    BY DEF Plan, ScopeOf, Reliable
  <1>1. /\ ModelsTyped /\ RowsTyped /\ RowsInOrder /\ clock \in Nat /\ orders \in Nat
        /\ revision \in Nat /\ Base \in Nat /\ revision <= Base + orders + 1
        /\ GroundModels /\ GroundRows /\ rows # <<>> /\ Latest \in Nat
        /\ snap.rev \in Nat /\ snap.rev <= Base + orders + 1 /\ snap.copies = Until(copies, Latest)
        /\ \A m \in models : m.rev \in Nat /\ m.rev <= Base + orders + 1
    BY <1>0, GroundFacts DEF Ground, GroundWorker
  <1>2. /\ \A s \in Segments : Sound(s, Latest)
        /\ Q \in SUBSET Scope
        /\ \A s \in Q : s.to <= clock
        /\ Q # {} => \E s \in Q : FirstScope(s, Q)
    BY <1>0, <1>1, PlanIsSound
  <1>. HIDE DEF Q
  <1>3. /\ RowsTyped' /\ RowsInOrder' /\ rows' # <<>> /\ Latest' = Latest
        /\ DOMAIN rows' = DOMAIN rows /\ rows'[Len(rows)].scopes = Q
        /\ \A i \in DOMAIN rows : i # Len(rows) => rows'[i].scopes = rows[i].scopes
    BY <1>0, <1>1, <1>2, PlanRows
  <1>4. Base' \in Nat /\ Base <= Base'
    BY <1>0, <1>1, <1>3, BaseGrows
  <1>5. /\ \A c : GroundCall(c) => GroundCall(c)'
        /\ \A c : GroundJudged(c) => GroundJudged(c)'
        /\ \A x \in Int : x <= Base + orders + 1 => x <= Base' + orders' + 1
        /\ \A s, t : Sound(s, t) => Sound(s, t)'
    <2>1. /\ rows # <<>> => rows' # <<>> /\ Latest' \in Nat /\ Latest <= Latest'
          /\ orders' \in Nat /\ orders <= orders'
      BY <1>0, <1>1, <1>3
    <2>. QED
      BY <1>4, <2>1, GroundStays
  <1>6. GroundModels'
    <2>1. ModelsTyped'
      BY <1>0, <1>1 DEF ModelsTyped
    <2>2. revision <= Base' + orders' + 1 /\ \A m \in models : m.rev <= Base' + orders' + 1
      BY <1>1, <1>5
    <2>. QED
      BY <1>0, <1>1, <2>1, <2>2 DEF GroundModels
  <1>7. GroundRows'
    <2>1. ASSUME NEW r \in DOMAIN rows'
          PROVE  /\ \A s \in rows'[r].scopes : s.to <= clock'
                 /\ rows'[r].scopes # {} => \E s \in rows'[r].scopes : FirstScope(s, rows'[r].scopes)
      <3>1. CASE r = Len(rows)
        BY <1>0, <1>2, <1>3, <3>1
      <3>2. CASE r # Len(rows)
        <4>1. r \in DOMAIN rows /\ rows'[r].scopes = rows[r].scopes
          BY <1>3, <3>2
        <4>. QED
          BY <1>0, <1>1, <4>1 DEF GroundRows
      <3>. QED
        BY <3>1, <3>2
    <2>. QED
      BY <1>3, <2>1 DEF GroundRows, FirstScope
  <1>8. GroundWorker'
    <2>1. snap.rev <= Base' + orders' + 1
      BY <1>1, <1>5
    <2>2. \A s \in plan' : Sound(s, Latest)'
      <3>1. \A s : Sound(s, Latest) => Sound(s, Latest)'
        BY <1>0, <1>3 DEF Sound
      <3>. QED
        BY <1>0, <1>2, <3>1
    <2>. QED
      BY <1>0, <1>1, <1>3, <2>1, <2>2 DEF GroundWorker
  <1>9. (\A c \in late' : GroundCall(c)') /\ \A c \in judged' : GroundJudged(c)'
    BY <1>0, <1>5 DEF Ground
  <1>. QED
    BY <1>6, <1>7, <1>8, <1>9 DEF Ground

\* CompleteMonitoringCheck.
LEMMA GroundCommit ==
    ASSUME Ground, Grows, CopiesOK', UNCHANGED <<clock, copies, models, orders>>,
           NEW c, GroundCall(c), Commit(c),
           pc' = "idle" \/ UNCHANGED <<pc, snap, plan>>, late' \subseteq late
    PROVE  Ground'
  <1>0. /\ Running /\ Latest = c.started /\ revision' = c.rev /\ Reliable' = Reliable
        /\ rows' = Kept([rows EXCEPT ![Len(rows)].status = "completed",
                                     ![Len(rows)].finished = clock], c.rev)
        /\ judged' = judged \cup {s \in c.plan : s.from < s.to}
    BY DEF Commit, Latest, Reliable
  <1>1. /\ ModelsTyped /\ RowsTyped /\ RowsInOrder /\ clock \in Nat /\ orders \in Nat
        /\ Base \in Nat /\ GroundModels /\ GroundRows /\ GroundWorker /\ rows # <<>> /\ Latest \in Nat
        /\ \A m \in models : m.rev \in Nat /\ m.rev <= Base + orders + 1
        /\ c.rev \in Nat /\ c.rev <= Base + orders + 1
        /\ \A s \in c.plan : Sound(s, Latest)
    BY <1>0, GroundFacts DEF Ground, GroundCall
  <1>2. PICK pick : Survive(pick)
    BY <1>0, <1>1, KeptRows
  <1>3. /\ RowsTyped' /\ RowsInOrder' /\ rows' # <<>> /\ Latest' = Latest
        /\ \A i \in DOMAIN rows' :
              pick[i] \in DOMAIN rows /\ rows'[i].scopes = rows[pick[i]].scopes
    BY <1>1, <1>2, SurvivingRows
  <1>4. Base' \in Nat /\ Base <= Base'
    BY <1>1, <1>3, BaseGrows
  <1>5. /\ \A d : GroundCall(d) => GroundCall(d)'
        /\ \A d : GroundJudged(d) => GroundJudged(d)'
        /\ \A x \in Int : x <= Base + orders + 1 => x <= Base' + orders' + 1
        /\ \A s, t : Sound(s, t) => Sound(s, t)'
    <2>1. /\ rows # <<>> => rows' # <<>> /\ Latest' \in Nat /\ Latest <= Latest'
          /\ orders' \in Nat /\ orders <= orders'
      BY <1>1, <1>3
    <2>. QED
      BY <1>4, <2>1, GroundStays
  <1>6. GroundModels'
    <2>1. ModelsTyped'
      BY <1>0, <1>1 DEF ModelsTyped
    <2>2. revision' <= Base' + orders' + 1 /\ \A m \in models : m.rev <= Base' + orders' + 1
      BY <1>0, <1>1, <1>5
    <2>. QED
      BY <1>1, <2>1, <2>2 DEF GroundModels
  <1>7. GroundRows'
    <2>1. ASSUME NEW r \in DOMAIN rows'
          PROVE  /\ \A s \in rows'[r].scopes : s.to <= clock'
                 /\ rows'[r].scopes # {} => \E s \in rows'[r].scopes : FirstScope(s, rows'[r].scopes)
      <3>1. pick[r] \in DOMAIN rows /\ rows'[r].scopes = rows[pick[r]].scopes
        BY <1>3
      <3>. QED
        BY <1>1, <3>1 DEF GroundRows
    <2>. QED
      BY <1>3, <2>1 DEF GroundRows, FirstScope
  <1>8. GroundWorker'
    <2>1. CASE pc' = "idle"
      BY <2>1 DEF GroundWorker
    <2>2. CASE UNCHANGED <<pc, snap, plan>>
      <3>1. pc \in {"learn", "plan", "complete"} => snap.rev <= Base' + orders' + 1
        BY <1>1, <1>5 DEF GroundWorker
      <3>2. pc = "complete" => \A s \in plan : Sound(s, Latest)'
        BY <1>0, <1>1, <1>3 DEF GroundWorker, Sound
      <3>. QED
        BY <1>0, <1>1, <1>3, <2>2, <3>1, <3>2 DEF GroundWorker
    <2>. QED
      BY <2>1, <2>2
  <1>9. \A d \in late' : GroundCall(d)'
    BY <1>5 DEF Ground
  <1>10. \A d \in judged' : GroundJudged(d)'
    <2>1. \A d \in judged' : GroundJudged(d)
      BY <1>0, <1>1 DEF Ground, GroundJudged
    <2>. QED
      BY <1>5, <2>1
  <1>. QED
    BY <1>6, <1>7, <1>8, <1>9, <1>10 DEF Ground

\* Initially.
LEMMA InitGround == Init => Ground /\ Findings
  <1>. SUFFICES ASSUME Init PROVE Ground /\ Findings
    OBVIOUS
  <1>1. /\ clock = 0 /\ rows = <<>> /\ pc = "idle" /\ orders = 0 /\ late = {} /\ judged = {}
        /\ alerts = {} /\ incidents = {}
    BY DEF Init
  <1>2. CopiesOK
    BY InitCopies
  <1>3. ModelsTyped /\ revision <= 1 /\ \A m \in models : m.rev <= 1 /\ \A n \in models : m = n
    <2>1. CASE revision = 0 /\ models = {}
      BY <1>1, <2>1, Constants DEF ModelsTyped
    <2>2. ASSUME NEW s \in Imported, revision = 1,
                 models = {[rev |-> 1, at |-> -Day, schedule |-> s, reliable |-> TRUE]}
          PROVE  ModelsTyped /\ revision <= 1 /\ \A m \in models : m.rev <= 1 /\ \A n \in models : m = n
      BY <1>1, <2>2, Constants DEF ModelsTyped, Model
    <2>. QED
      BY <2>1, <2>2 DEF Init
  <1>4. RowsTyped /\ RowsInOrder /\ Base = 0
    BY <1>1, Constants DEF RowsTyped, RowsInOrder, Base
  <1>5. GroundModels
    BY <1>1, <1>3, <1>4 DEF GroundModels
  <1>6. GroundRows /\ GroundWorker
    BY <1>1, <1>4 DEF GroundRows, GroundWorker
  <1>. QED
    BY <1>1, <1>2, <1>5, <1>6 DEF Ground, Findings

\* No step takes away what the findings rest on.
LEMMA NextGrows == Ground /\ [Next]_vars => Grows /\ CopiesOK'
  <1>. SUFFICES ASSUME Ground, [Next]_vars PROVE Grows /\ CopiesOK'
    OBVIOUS
  <1>0. clock \in Nat /\ (rows # <<>> => Latest \in Nat) /\ CopiesOK
    BY GroundFacts
  <1>1. CopiesOK'
    BY <1>0, NextCopies
  <1>2. CASE UNCHANGED <<clock, copies, models>>
    BY <1>0, <1>1, <1>2 DEF Grows, Reliable
  <1>3. CASE Tick
    BY <1>0, <1>1, <1>3 DEF Tick, Grows, Reliable
  <1>4. ASSUME NEW id \in Copies, Arrive(id) PROVE Grows
    <2>. DEFINE new == [id |-> id, at |-> clock]
    <2>1. /\ copies' = copies \cup {new} /\ UNCHANGED <<clock, models>>
          /\ rows # <<>> => Latest < clock
      BY <1>4 DEF Arrive, Latest
    <2>2. new.at = clock
      OBVIOUS
    <2>. HIDE DEF new
    <2>. QED
      BY <1>0, <2>1, <2>2 DEF Grows, Reliable
  <1>5. CASE SaveModel
    <2>1. UNCHANGED <<clock, copies>>
      BY <1>5 DEF SaveModel
    <2>. QED
      BY <1>0, <1>1, <1>5, <2>1, SaveModelGrows DEF Grows
  <1>. QED
    BY <1>1, <1>2, <1>3, <1>4, <1>5
       DEF Next, Check, Start, Snapshot, Plan, Refused, Complete,
           BeginRelearn, SetupAutomation, CreateAnomalyExclusion, CallFails,
           AnswerLost, Die, LateCompletion, LateRefused, vars

\* Every step keeps what holds of the catalogue.
LEMMA NextGround == Ground /\ [Next]_vars => Ground'
  <1>. SUFFICES ASSUME Ground, [Next]_vars PROVE Ground'
    OBVIOUS
  <1>0. /\ clock \in Nat /\ revision \in Nat /\ orders \in Nat /\ Base \in Nat
        /\ orders \in 0 .. MaxOrders
        /\ revision <= Base + orders + 1 /\ orders <= orders /\ MaxOrders \in Nat
        /\ Grows /\ CopiesOK'
    BY GroundFacts, NextGrows, Constants
  <1>1. CASE UNCHANGED vars
    BY <1>0, <1>1, GroundQuiet DEF vars
  <1>2. CASE Tick
    <2>1. /\ clock' \in Nat
          /\ UNCHANGED <<models, judged, orders, revision, rows, pc, snap, plan, late>>
      BY <1>0, <1>2 DEF Tick, worker, history
    <2>. QED
      BY <1>0, <2>1, GroundQuiet
  <1>3. ASSUME NEW id \in Copies, Arrive(id) PROVE Ground'
    <2>1. UNCHANGED <<clock, models, judged, orders, revision, rows, pc, snap, plan, late>>
      BY <1>3 DEF Arrive, worker
    <2>. QED
      BY <1>0, <2>1, GroundQuiet
  <1>4. CASE Start
    BY <1>0, <1>4, GroundStart
  <1>5. CASE Snapshot
    BY <1>0, <1>5, GroundSnapshot
  <1>6. CASE SaveModel
    BY <1>0, <1>6, GroundSaveModel
  <1>7. CASE Plan
    BY <1>0, <1>7, GroundPlan
  <1>8. CASE Refused \/ CallFails
    <2>1. /\ rows' = Fail(clock) /\ pc' = "idle"
          /\ UNCHANGED <<clock, models, judged, orders, revision, late>>
      BY <1>8 DEF Refused, CallFails, GiveUp, history
    <2>. QED
      BY <1>0, <2>1, GroundQuiet
  <1>9. CASE Complete
    <2>1. /\ pc = "complete" /\ pc' = "idle" /\ Commit(Completion)
          /\ UNCHANGED <<clock, copies, models, orders, late>>
      BY <1>9 DEF Complete, GiveUp
    <2>2. GroundCall(Completion)
      BY <2>1, CompletionGround
    <2>. HIDE DEF Completion
    <2>. QED
      BY <1>0, <2>1, <2>2, GroundCommit
  <1>10. CASE BeginRelearn
    <2>1. /\ orders < MaxOrders /\ orders' = orders + 1 /\ revision' = revision + 1
          /\ UNCHANGED <<clock, models, judged, rows, pc, snap, plan, late>>
      BY <1>10 DEF BeginRelearn, Order, worker
    <2>2. /\ orders' \in 0 .. MaxOrders /\ orders <= orders' /\ revision' \in Nat
          /\ revision' <= Base + orders' + 1 /\ clock' \in Nat
      BY <1>0, <2>1
    <2>. QED
      BY <1>0, <2>1, <2>2, GroundQuiet
  <1>11. CASE SetupAutomation
    <2>1. /\ orders < MaxOrders /\ orders' = orders + 1 /\ revision' = 0 /\ rows' = Fail(clock)
          /\ UNCHANGED <<clock, models, judged, pc, snap, plan, late>>
      BY <1>11 DEF SetupAutomation, Order, worker, history
    <2>2. /\ orders' \in 0 .. MaxOrders /\ orders <= orders' /\ revision' \in Nat
          /\ revision' <= Base + orders' + 1 /\ clock' \in Nat
      BY <1>0, <2>1
    <2>. QED
      BY <1>0, <2>1, <2>2, GroundQuiet
  <1>12. ASSUME NEW i \in alerts, CreateAnomalyExclusion(i) PROVE Ground'
    <2>1. /\ orders < MaxOrders /\ orders' = orders + 1
          /\ UNCHANGED <<clock, models, judged, rows, revision, pc, snap, plan, late>>
      BY <1>12 DEF CreateAnomalyExclusion, Order, worker, history
    <2>2. /\ orders' \in 0 .. MaxOrders /\ orders <= orders' /\ revision' \in Nat
          /\ revision' <= Base + orders' + 1 /\ clock' \in Nat
      BY <1>0, <2>1
    <2>. QED
      BY <1>0, <2>1, <2>2, GroundQuiet
  <1>13. CASE AnswerLost
    <2>1. /\ pc = "complete" /\ pc' = "idle" /\ late' = late \cup {Completion}
          /\ rows' = rows \/ rows' = Fail(clock)
          /\ UNCHANGED <<clock, models, judged, orders, revision>>
      BY <1>13 DEF AnswerLost, GiveUp, history
    <2>2. GroundCall(Completion)
      BY <2>1, CompletionGround
    <2>. HIDE DEF Completion
    <2>. QED
      BY <1>0, <2>1, <2>2, GroundQuiet
  <1>14. CASE Die
    <2>1. /\ pc' = "idle" /\ UNCHANGED <<clock, models, judged, orders, revision, rows, late>>
      BY <1>14 DEF Die, GiveUp, history
    <2>. QED
      BY <1>0, <2>1, GroundQuiet
  <1>15. ASSUME NEW c \in late, LateCompletion(c) PROVE Ground'
    <2>1. /\ Commit(c) /\ late' \subseteq late
          /\ UNCHANGED <<clock, copies, models, orders, pc, snap, plan>>
      BY <1>15 DEF LateCompletion, worker
    <2>2. GroundCall(c)
      BY DEF Ground
    <2>. QED
      BY <1>0, <2>1, <2>2, GroundCommit
  <1>16. ASSUME NEW c \in late, LateRefused(c) PROVE Ground'
    <2>1. /\ late' \subseteq late
          /\ UNCHANGED <<clock, models, judged, orders, revision, rows, pc, snap, plan>>
      BY <1>16 DEF LateRefused, worker, history
    <2>. QED
      BY <1>0, <2>1, GroundQuiet
  <1>. QED
    BY <1>1, <1>2, <1>3, <1>4, <1>5, <1>6, <1>7, <1>8, <1>9, <1>10, <1>11, <1>12, <1>13,
       <1>14, <1>15, <1>16 DEF Next, Check

\* What a judged period leaves unpaired never changes.
LEMMA UnpairedSame ==
    ASSUME Ground, Grows, CopiesOK', NEW c \in judged
    PROVE  Unpaired(c, copies', clock') = Unpaired(c, copies, clock)
  <1>1. rows # <<>> /\ Latest \in Int /\ Latest <= clock /\ clock \in Int /\ CopiesOK
    BY GroundFacts DEF Ground, GroundJudged
  <1>2. c \in Segment /\ c.to + Tolerance <= Latest
    BY DEF Ground, GroundJudged, Sound
  <1>3. c.from \in Int /\ c.to \in Int /\ Instants(c.model.schedule)
    BY <1>2, Schedule DEF Segment, Model
  <1>4. clock' \in Int /\ Latest <= clock'
    BY <1>1 DEF CopiesOK, Grows
  <1>5. Until(copies', Latest) = Until(copies, Latest)
    BY <1>1, UntilSame
  <1>6. Unpaired(c, copies, clock) =
          checkWindow(c.model.schedule, Until(copies, Latest), c.from, c.to, Latest)
    BY <1>1, <1>2, <1>3, WindowExact DEF CopiesOK
  <1>7. Unpaired(c, copies', clock') =
          checkWindow(c.model.schedule, Until(copies', Latest), c.from, c.to, Latest)
    BY <1>1, <1>2, <1>3, <1>4, WindowExact DEF CopiesOK
  <1>. QED
    BY <1>5, <1>6, <1>7

\* What was announced stays confirmed, and what was excluded stays so.
LEMMA FindingsStay ==
    ASSUME Ground, Findings, Grows, CopiesOK', judged \subseteq judged',
           exclusions \subseteq exclusions', alerts \subseteq alerts', incidents' \subseteq alerts',
           \A i \in alerts' \ alerts : Confirmed(i)',
           \A c \in judged' \ judged : \A i \in Unpaired(c, copies', clock') \ alerts' : Excluded(i)'
    PROVE  Findings'
  <1>1. \A c \in judged : Unpaired(c, copies', clock') = Unpaired(c, copies, clock)
    BY UnpairedSame
  <1>2. \A i : Excluded(i) => Excluded(i)'
    BY DEF Excluded
  <1>3. ASSUME NEW c \in judged', NEW i \in Unpaired(c, copies', clock') \ alerts'
        PROVE  Excluded(i)'
    BY <1>1, <1>2 DEF Findings
  <1>4. ASSUME NEW i \in alerts PROVE Confirmed(i)'
    <2>1. Confirmed(i)
      BY DEF Findings
    <2>2. CASE i.kind = "missing" /\ \E c \in judged : i \in Unpaired(c, copies, clock)
      BY <1>1, <2>2 DEF Confirmed
    <2>3. ASSUME i.kind = "extra", NEW m \in Reliable, NEW o \in copies, o.id = i.of,
                 PartnerIn(m.schedule, copies, clock)[o] = NoTime
          PROVE  Confirmed(i)'
      <3>1. m \in Reliable' /\ o \in copies'
        BY DEF Grows
      <3>2. Instants(m.schedule)
        BY Schedule DEF Reliable, Ground, GroundModels, ModelsTyped, Model
      <3>3. PartnerIn(m.schedule, copies', clock')[o] = NoTime
        <4>1. /\ copies \subseteq copies' /\ clock <= clock' /\ clock \in Int /\ clock' \in Int
              /\ Stored(copies') /\ IsFiniteSet(copies') /\ \A q \in copies : q.at <= clock
          BY DEF Grows, Ground, CopiesOK
        <4>. QED
          BY <2>3, <3>2, <4>1, StaysUnpaired
      <3>. QED
        BY <2>3, <3>1, <3>3 DEF Confirmed
    <2>4. CASE i.kind = "time"
      BY <2>4 DEF Confirmed
    <2>. QED
      BY <2>1, <2>2, <2>3, <2>4 DEF Confirmed
  <1>. QED
    BY <1>3, <1>4 DEF Findings

\* A copy arrives: what is announced as an excess has no partner.
LEMMA FindingsArrive ==
    ASSUME Ground, Findings, Grows, CopiesOK', NEW id \in Copies, Arrive(id)
    PROVE  Findings'
  <1>. DEFINE today == Midnight(clock)
              now == {m \in models : m.rev = revision /\ m.reliable}
              extra(m) == {i \in checkWindow(m.schedule, copies', today - Day - 1,
                                             today + Day - 1, clock) : i.kind = "extra"}
  <1>1. PICK found :
          /\ \A i \in found : \/ i.kind = "time"
                              \/ \E m \in now : i \in extra(m)
          /\ Open(found)
    <2>. DEFINE IsNear(m) == \E s \in m.schedule :
                               /\ today - Day <= s /\ s < today + 2 * Day
                               /\ s - Tolerance <= clock /\ clock <= s + Tolerance
                found == UNION {IF IsNear(m) THEN extra(m) ELSE {Incident("time", id, clock)} : m \in now}
    <2>1. Open(found)
      BY DEF Arrive
    <2>2. Incident("time", id, clock).kind = "time"
      BY DEF Incident
    <2>. HIDE DEF IsNear, extra, now
    <2>3. \A i \in found : i.kind = "time" \/ \E m \in now : i \in extra(m)
      BY <2>2
    <2>. HIDE DEF found
    <2>. QED
      BY <2>1, <2>3
  <1>2. UNCHANGED <<clock, models, exclusions, judged>>
    BY DEF Arrive
  <1>3. /\ alerts \subseteq alerts' /\ incidents' \subseteq alerts'
        /\ \A i \in alerts' \ alerts : i \in found
    BY <1>1 DEF Open, Findings
  <1>4. ASSUME NEW i \in alerts' \ alerts PROVE Confirmed(i)'
    <2>1. CASE i.kind = "time"
      BY <2>1 DEF Confirmed
    <2>2. ASSUME NEW m \in now, i \in extra(m) PROVE Confirmed(i)'
      <3>1. m \in Reliable' /\ Instants(m.schedule)
        BY <1>2, Schedule DEF Reliable, Ground, GroundModels, ModelsTyped, Model
      <3>2. /\ Stored(copies') /\ IsFiniteSet(copies') /\ clock \in Int
            /\ \A o \in copies' : o.at <= clock
        BY <1>2 DEF CopiesOK
      <3>3. /\ i.kind = "extra"
            /\ i \in checkWindow(m.schedule, copies', Midnight(clock) - Day - 1,
                                 Midnight(clock) + Day - 1, clock)
        BY <2>2
      <3>4. \E o \in copies' : o.id = i.of /\ PartnerIn(m.schedule, copies', clock)[o] = NoTime
        BY <3>1, <3>2, <3>3, ArrivalExact
      <3>. QED
        BY <1>2, <3>1, <3>3, <3>4 DEF Confirmed
    <2>. HIDE DEF now, extra
    <2>. QED
      BY <1>1, <1>3, <2>1, <2>2
  <1>. QED
    BY <1>2, <1>3, <1>4, FindingsStay

\* A completion announces what the periods it adds leave unpaired.
LEMMA FindingsCommit ==
    ASSUME Ground, Findings, Grows, CopiesOK', NEW c, GroundCall(c), Commit(c),
           UNCHANGED <<clock, copies, models, exclusions>>
    PROVE  Findings'
  <1>1. /\ Open(c.found) /\ judged' = judged \cup {s \in c.plan : s.from < s.to}
        /\ c.found = Found(c.plan, c.started) /\ \A s \in c.plan : Sound(s, c.started)
    BY DEF Commit, GroundCall
  <1>2. c.started \in Int /\ c.started <= clock /\ clock \in Int /\ CopiesOK
    BY GroundFacts DEF GroundCall
  <1>3. ASSUME NEW s \in c.plan
        PROVE  /\ s.from \in Int /\ s.to \in Int /\ s.model \in Reliable
               /\ checkWindow(s.model.schedule, Until(copies, c.started), s.from, s.to, c.started)
                    = Unpaired(s, copies, clock)
    <2>1. s \in Segment /\ s.model \in Reliable /\ s.to + Tolerance <= c.started
      BY <1>1 DEF Sound
    <2>2. s.from \in Int /\ s.to \in Int /\ Instants(s.model.schedule)
      BY <2>1, Schedule DEF Segment, Model
    <2>. QED
      BY <1>2, <2>1, <2>2, WindowExact DEF CopiesOK
  <1>4. /\ \A s \in c.plan : Unpaired(s, copies, clock) \subseteq c.found
        /\ \A i \in c.found : \E s \in c.plan : i \in Unpaired(s, copies, clock)
    BY <1>1, <1>3 DEF Found
  <1>5. /\ alerts \subseteq alerts' /\ incidents' \subseteq alerts'
        /\ \A i \in alerts' \ alerts : i \in c.found
        /\ \A i \in c.found : i \in alerts' \/ Excluded(i)
    BY <1>1 DEF Open, Findings
  <1>6. ASSUME NEW i \in alerts' \ alerts PROVE Confirmed(i)'
    <2>1. PICK s \in c.plan : i \in Unpaired(s, copies, clock)
      BY <1>4, <1>5
    <2>. DEFINE match == PartnerIn(s.model.schedule, copies, clock)
    <2>2. Unpaired(s, copies, clock) =
            {Incident("missing", x, x) : x \in {x \in s.model.schedule :
                Judge(s, x) /\ \A o \in copies : match[o] # x}}
            \cup
            {Incident("extra", o.id, o.at) : o \in {o \in copies :
                Judge(s, o.at) /\ match[o] = NoTime}}
      BY DEF Unpaired
    <2>. HIDE DEF match
    <2>3. CASE \E x \in s.model.schedule : i = Incident("missing", x, x) /\ Judge(s, x)
      <3>1. PICK x \in s.model.schedule : i = Incident("missing", x, x) /\ Judge(s, x)
        BY <2>3
      <3>2. x \in Int
        BY <1>1, Schedule DEF Sound, Segment, Model, Instants
      <3>3. s.from < s.to
        BY <1>3, <3>1, <3>2 DEF Judge
      <3>4. i.kind = "missing" /\ s \in judged'
        BY <1>1, <3>1, <3>3 DEF Incident
      <3>. QED
        BY <2>1, <3>4 DEF Confirmed
    <2>4. CASE \E o \in copies : i = Incident("extra", o.id, o.at) /\ match[o] = NoTime
      <3>1. PICK o \in copies : i = Incident("extra", o.id, o.at) /\ match[o] = NoTime
        BY <2>4
      <3>2. i.kind = "extra" /\ i.of = o.id
        BY <3>1 DEF Incident
      <3>3. s.model \in Reliable'
        BY <1>3 DEF Grows
      <3>. QED
        BY <3>1, <3>2, <3>3 DEF Confirmed, match
    <2>. QED
      BY <2>1, <2>2, <2>3, <2>4
  <1>7. ASSUME NEW s \in judged' \ judged, NEW i \in Unpaired(s, copies', clock') \ alerts'
        PROVE  Excluded(i)'
    <2>1. i \in c.found
      BY <1>1, <1>4
    <2>2. Excluded(i)
      BY <1>5, <2>1
    <2>. QED
      BY <2>2 DEF Excluded
  <1>. QED
    BY <1>1, <1>5, <1>6, <1>7, FindingsStay

\* Every step keeps the findings.
LEMMA NextFindings == Ground /\ Findings /\ [Next]_vars => Findings'
  <1>. SUFFICES ASSUME Ground, Findings, [Next]_vars PROVE Findings'
    OBVIOUS
  <1>0. Grows /\ CopiesOK' /\ incidents \subseteq alerts
    BY NextGrows DEF Findings
  <1>1. CASE UNCHANGED <<judged, exclusions, alerts, incidents>>
    BY <1>0, <1>1, FindingsStay
  <1>2. ASSUME NEW id \in Copies, Arrive(id) PROVE Findings'
    BY <1>0, <1>2, FindingsArrive
  <1>3. CASE Complete
    <2>1. pc = "complete" /\ Commit(Completion) /\ UNCHANGED <<clock, copies, models, exclusions>>
      BY <1>3 DEF Complete
    <2>2. GroundCall(Completion)
      BY <2>1, CompletionGround
    <2>. HIDE DEF Completion
    <2>. QED
      BY <1>0, <2>1, <2>2, FindingsCommit
  <1>4. ASSUME NEW c \in late, LateCompletion(c) PROVE Findings'
    <2>1. Commit(c) /\ UNCHANGED <<clock, copies, models, exclusions>>
      BY <1>4 DEF LateCompletion
    <2>2. GroundCall(c)
      BY DEF Ground
    <2>. QED
      BY <1>0, <2>1, <2>2, FindingsCommit
  <1>5. ASSUME NEW i \in alerts, CreateAnomalyExclusion(i) PROVE Findings'
    <2>1. /\ exclusions \subseteq exclusions' /\ incidents' \subseteq incidents
          /\ UNCHANGED <<judged, alerts>>
      BY <1>5 DEF CreateAnomalyExclusion, history
    <2>. QED
      BY <1>0, <2>1, FindingsStay
  <1>. QED
    BY <1>1, <1>2, <1>3, <1>4, <1>5
       DEF Next, Check, Tick, Start, Snapshot, SaveModel, Plan, Refused, BeginRelearn,
           SetupAutomation, CallFails, AnswerLost, Die, LateRefused, vars, history

\* What the findings say of the incidents announced.
LEMMA FindingsAgree == Ground /\ Findings => FindingsExact
  <1>. SUFFICES ASSUME Ground, Findings PROVE FindingsExact
    OBVIOUS
  <1>. DEFINE lost(c) == {Incident("missing", s, s) : s \in {s \in c.model.schedule :
                            Judge(c, s) /\ \A o \in copies : Partner(c.model.schedule)[o] # s}}
              extra(c) == {Incident("extra", o.id, o.at) : o \in {o \in copies :
                            Judge(c, o.at) /\ Partner(c.model.schedule)[o] = NoTime}}
  <1>1. \A sch : PartnerIn(sch, copies, clock) = Partner(sch)
    BY DEF PartnerIn, Partner
  <1>2. \A c \in judged : Unpaired(c, copies, clock) = lost(c) \cup extra(c)
    BY <1>1 DEF Unpaired
  <1>. HIDE DEF Partner
  <1>3. \A c \in judged : \A i \in (lost(c) \cup extra(c)) \ alerts : Excluded(i)
    <2>. HIDE DEF lost, extra
    <2>. QED
      BY <1>2 DEF Findings
  <1>4. ASSUME NEW i \in alerts
        PROVE  \/ /\ i.kind = "missing"
                  /\ \E c \in judged : /\ i.of \in c.model.schedule /\ Judge(c, i.of)
                                       /\ \A o \in copies : Partner(c.model.schedule)[o] # i.of
               \/ /\ i.kind = "extra"
                  /\ \E m \in models, o \in copies : /\ m.reliable /\ o.id = i.of
                                                     /\ Partner(m.schedule)[o] = NoTime
               \/ i.kind = "time"
    <2>1. Confirmed(i)
      BY DEF Findings
    <2>2. ASSUME i.kind = "missing", NEW c \in judged, i \in Unpaired(c, copies, clock)
          PROVE  /\ i.of \in c.model.schedule /\ Judge(c, i.of)
                 /\ \A o \in copies : Partner(c.model.schedule)[o] # i.of
      <3>1. i \in lost(c) \/ i \in extra(c)
        BY <1>2, <2>2
      <3>2. i \notin extra(c)
        BY <2>2 DEF Incident
      <3>3. PICK s \in c.model.schedule : /\ i = Incident("missing", s, s) /\ Judge(c, s)
                                          /\ \A o \in copies : Partner(c.model.schedule)[o] # s
        BY <3>1, <3>2
      <3>4. i.of = s
        BY <3>3 DEF Incident
      <3>. QED
        BY <3>3, <3>4
    <2>. QED
      BY <1>1, <2>1, <2>2 DEF Confirmed, Reliable
  <1>. QED
    BY <1>3, <1>4 DEF FindingsExact

\* Every incident that an arrival or a check announces is one that all the copies
\* known later confirm, and every appointment or copy that a judged period leaves
\* over was announced or excluded, whatever was relearned, lost or repeated.
THEOREM FindingsAreExact == Spec => []FindingsExact
  <1>1. Spec => [](Ground /\ Findings)
    BY InitGround, NextGround, NextFindings, PTL DEF Spec
  <1>. QED
    BY <1>1, FindingsAgree, PTL

-----------------------------------------------------------------------------
(* Types.                                                                  *)

\* The step of the worker and the bound on faults.
StepOK == pc \in {"idle", "scan", "learn", "plan", "complete"} /\ faults \in 0 .. MaxFaults

\* Every step keeps them.
LEMMA NextStepOK == StepOK /\ [Next]_vars => StepOK'
  <1>. SUFFICES ASSUME StepOK, [Next]_vars PROVE StepOK'
    OBVIOUS
  <1>1. CASE Check
    <2>1. faults' = faults
      BY <1>1 DEF Check, Start, Snapshot, SaveModel, Plan, Refused, Complete
    <2>2. pc' \in {"idle", "scan", "learn", "plan", "complete"}
      BY <1>1 DEF Check, Start, Snapshot, SaveModel, Plan, Refused, Complete, GiveUp
    <2>. QED
      BY <2>1, <2>2 DEF StepOK
  <1>2. CASE CallFails \/ AnswerLost \/ Die
    <2>1. Fault /\ pc' = "idle"
      BY <1>2 DEF CallFails, AnswerLost, Die, GiveUp
    <2>. QED
      BY <2>1, MonitoringAssumption DEF StepOK, Fault
  <1>3. CASE Tick \/ BeginRelearn \/ SetupAutomation \/ UNCHANGED vars
    BY <1>3 DEF StepOK, Tick, BeginRelearn, SetupAutomation, vars, worker
  <1>4. ASSUME NEW id \in Copies, Arrive(id) PROVE StepOK'
    BY <1>4 DEF StepOK, Arrive, worker
  <1>5. ASSUME NEW i \in alerts, CreateAnomalyExclusion(i) PROVE StepOK'
    BY <1>5 DEF StepOK, CreateAnomalyExclusion, worker
  <1>6. ASSUME NEW c \in late, LateCompletion(c) \/ LateRefused(c) PROVE StepOK'
    BY <1>6 DEF StepOK, LateCompletion, LateRefused, worker
  <1>. QED
    BY <1>1, <1>2, <1>3, <1>4, <1>5, <1>6 DEF Next

\* Type correctness of the catalogue and of the worker, for every number of copies,
\* relearnings and faults.
THEOREM MonitoringTypes == Spec => []TypeOK
  <1>1. Init => StepOK
    BY MonitoringAssumption DEF Init, StepOK
  <1>2. Ground /\ StepOK => TypeOK
    <2>. SUFFICES ASSUME Ground, StepOK PROVE TypeOK
      OBVIOUS
    <2>1. clock \in 0 .. MaxTime /\ \A o \in copies : o.id \in Copies /\ o.at \in Int /\ o.at <= clock
      BY DEF Ground, CopiesOK, Stored
    <2>2. revision \in Nat /\ orders \in 0 .. MaxOrders
      BY DEF Ground, GroundModels, ModelsTyped
    <2>3. \A r \in DOMAIN rows : /\ rows[r].scopes \subseteq Scope
                                 /\ rows[r].status \in {"running", "completed", "failed"}
      <3>1. \A r \in DOMAIN rows : rows[r] \in CheckRow
        BY DEF Ground, GroundRows, RowsTyped
      <3>. QED
        BY <3>1 DEF CheckRow
    <2>. QED
      BY <2>1, <2>2, <2>3 DEF TypeOK, StepOK
  <1>3. Spec => [](Ground /\ StepOK)
    BY <1>1, InitGround, NextGround, NextStepOK, PTL DEF Spec
  <1>. QED
    BY <1>2, <1>3, PTL
=============================================================================
