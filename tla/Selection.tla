------------------------------- MODULE Selection -------------------------------
(***************************************************************************)
(* Which copies an automatic cycle quarantines (policy.Select in           *)
(* internal/policy/policy.go, called by scheduleAutomatic in               *)
(* internal/maintenance/service.go).                                       *)
(*                                                                         *)
(* When the filesystem reaches the threshold, whole civil days of copies   *)
(* older than the minimum of their keys are taken, oldest first, until     *)
(* enough bytes are found.  The loop over the days is one action per day;  *)
(* an initial state is one snapshot of the catalogue and the disk.         *)
(***************************************************************************)
EXTENDS Integers, FiniteSets, FiniteSetsExt

CONSTANTS
    Backups,        \* rows of the snapshot that count as present
    KeyOf,          \* KeyOf[b]: their credentials
    Size,           \* Size[b]: their bytes
    Ages,           \* civil days between a copy and today, in the zone
    Minima,         \* minimum days a key may be configured with
    Totals, Useds, Expecteds,   \* filesystem measures and 48-hour forecasts
    Basis,          \* 10000: a fraction is given in parts of it
    Threshold,      \* ThresholdBasisPoints
    MinimumRelease, \* MinimumReleaseBasisPoints
    MaxUint         \* math.MaxUint64

Keys == {KeyOf[b] : b \in Backups}

ASSUME SelectionAssumption ==
    /\ IsFiniteSet(Backups)
    /\ KeyOf \in [Backups -> Keys]
    /\ Size \in [Backups -> Nat]
    /\ Ages \subseteq Nat /\ Minima \subseteq Nat
    /\ Totals \subseteq Nat \ {0} /\ Useds \subseteq Nat /\ Expecteds \subseteq Nat
    /\ Basis \in Nat \ {0} /\ MinimumRelease \in Nat /\ MaxUint \in Nat
    /\ Threshold \in 1 .. Basis

VARIABLES
    \* The snapshot.
    status, age, minimum, revoked, total, used, expected,
    \* Select.
    pc, needed, days, counts, candidates, selected

snapshot == <<status, age, minimum, revoked, total, used, expected>>
vars == <<snapshot, pc, needed, days, counts, candidates, selected>>

\* "quarantined" stands for deleting, quarantined and purging alike.
TypeOK ==
    /\ status \in [Backups -> {"complete", "quarantined"}]
    /\ age \in [Backups -> Ages] /\ minimum \in [Keys -> Minima]
    /\ revoked \subseteq Keys
    /\ total \in Totals /\ used \in Useds /\ expected \in Expecteds
    /\ pc \in {"start", "loop", "done", "refused"}
    /\ needed \in Nat /\ days \subseteq Ages /\ counts \in [Keys -> Int]
    /\ candidates \subseteq Backups /\ selected \in Nat

Init ==
    /\ status \in [Backups -> {"complete", "quarantined"}]
    /\ age \in [Backups -> Ages] /\ minimum \in [Keys -> Minima]
    /\ revoked \in SUBSET Keys
    /\ total \in Totals /\ used \in Useds /\ used <= total
    /\ expected \in Expecteds
    /\ pc = "start" /\ needed = 0 /\ days = {} /\ selected = 0
    /\ counts = [k \in Keys |-> 0] /\ candidates = {}

-----------------------------------------------------------------------------
Bytes(S) == MapThenSumSet(LAMBDA b : Size[b], S)

\* Copies of a day inside a key's minimum, or of today, are never considered.
Eligible(b)  == age[b] > minimum[KeyOf[b]] /\ age[b] > 0
Items(d)     == {b \in Backups : Eligible(b) /\ age[b] = d}
OfKey(k, S)  == {b \in S : KeyOf[b] = k}
CompleteCopies(k) == {b \in OfKey(k, Backups) : status[b] = "complete"}

\* Copies already on their way out, which scheduleAutomatic counts as freed.
Pending == {b \in Backups : /\ status[b] = "quarantined"
                            /\ age[b] > minimum[KeyOf[b]]
                            /\ KeyOf[b] \notin revoked}

\* Fractions of the capacity, computed without overflow.
Part(points) == (total \div Basis) * points + ((total % Basis) * points) \div Basis
UsedBasisPoints(bytes) == (bytes * Basis) \div total
TargetAtThreshold == Part(Threshold)
Target == LET t == Part(Threshold) IN IF t > 0 THEN t - 1 ELSE t
MinimumBytes ==
    Part(MinimumRelease)
      + (IF ((total % Basis) * MinimumRelease) % Basis # 0 THEN 1 ELSE 0)
Needed ==
    LET projected == used + expected IN
    Max({MinimumBytes} \cup (IF projected > Target THEN {projected - Target} ELSE {}))

\* Below the threshold, or the forecast does not fit: nothing is selected.
Refuse ==
    /\ pc = "start"
    /\ \/ UsedBasisPoints(used) < Threshold
       \/ MaxUint - used < expected
    /\ pc' = "refused"
    /\ UNCHANGED <<snapshot, needed, days, counts, candidates, selected>>

\* The copies already pending are enough.
Satisfied ==
    /\ pc = "start" /\ UsedBasisPoints(used) >= Threshold
    /\ MaxUint - used >= expected
    /\ Bytes(Pending) >= Needed
    /\ pc' = "done"
    /\ UNCHANGED <<snapshot, needed, days, counts, candidates, selected>>

Begin ==
    /\ pc = "start" /\ UsedBasisPoints(used) >= Threshold
    /\ MaxUint - used >= expected
    /\ Bytes(Pending) < Needed
    /\ needed' = Needed - Bytes(Pending)
    /\ counts' = [k \in Keys |-> Cardinality(CompleteCopies(k))]
    /\ days' = {age[b] : b \in {c \in Backups : Eligible(c)}}
    /\ pc' = "loop"
    /\ UNCHANGED <<snapshot, candidates, selected>>

\* A day is taken whole or not at all.
TakeablePerCopy(d) ==
    \A b \in Items(d) :
        /\ status[b] = "complete" /\ KeyOf[b] \notin revoked
        /\ counts[KeyOf[b]] - 1 >= 1
Takeable(d) ==
    \A b \in Items(d) :
        /\ status[b] = "complete" /\ KeyOf[b] \notin revoked
        /\ counts[KeyOf[b]] - Cardinality(OfKey(KeyOf[b], Items(d))) >= 1

Oldest(d) == d \in days /\ \A e \in days : e <= d

SkipDayEndingLoop(d) ==
    /\ pc = "loop" /\ Oldest(d) /\ ~Takeable(d)
    /\ days' = {}
    /\ UNCHANGED <<snapshot, pc, needed, counts, candidates, selected>>
SkipDay(d) ==
    /\ pc = "loop" /\ Oldest(d) /\ ~Takeable(d)
    /\ days' = days \ {d}
    /\ UNCHANGED <<snapshot, pc, needed, counts, candidates, selected>>

TakeDay(d) ==
    /\ pc = "loop" /\ Oldest(d) /\ Takeable(d)
    /\ candidates' = candidates \cup Items(d)
    /\ selected' = selected + Bytes(Items(d))
    /\ counts' = [k \in Keys |-> counts[k] - Cardinality(OfKey(k, Items(d)))]
    /\ days' = IF selected' >= needed THEN {} ELSE days \ {d}
    /\ UNCHANGED <<snapshot, pc, needed>>

Finish ==
    /\ pc = "loop" /\ days = {}
    /\ pc' = "done"
    /\ UNCHANGED <<snapshot, needed, days, counts, candidates, selected>>

\* Select returned.
Returned == pc \in {"done", "refused"} /\ UNCHANGED vars

Next ==
    \/ Refuse \/ Satisfied \/ Begin
    \/ \E d \in days : SkipDay(d) \/ TakeDay(d)
    \/ Finish \/ Returned

Spec == Init /\ [][Next]_vars

Shortfall == IF selected < needed THEN needed - selected ELSE 0
-----------------------------------------------------------------------------
(* Properties.                                                             *)

\* Whatever the snapshot, the candidates leave every key that has a complete
\* copy at least one, at every point of the loop: each day is judged with the
\* counts the days before it have left.
LastCopySpared ==
    \A k \in Keys :
        OfKey(k, candidates) # {} => CompleteCopies(k) \ candidates # {}

\* The chosen days, described without counting: going back in time, a day is
\* chosen exactly when the chosen older days do not yet suffice, all its copies
\* may go, and every key of it keeps a complete copy outside of what is chosen.
Chosen(d, C) ==
    LET older == UNION {Items(e) : e \in {x \in C : x > d}} IN
    /\ Bytes(older) < needed
    /\ \A b \in Items(d) :
         /\ status[b] = "complete" /\ KeyOf[b] \notin revoked
         /\ \E c \in Backups \ (older \cup Items(d)) :
               KeyOf[c] = KeyOf[b] /\ status[c] = "complete"
OldestDaysFirst ==
    pc = "done" /\ needed > 0 =>
        LET all == {age[b] : b \in {c \in Backups : Eligible(c)}}
            C   == {age[b] : b \in candidates}
        IN /\ candidates = UNION {Items(d) : d \in C}
           /\ \A d \in all : d \in C <=> Chosen(d, C)

\* Unless a shortfall is reported, the forecast of 48 hours after the pending and
\* the selected copies are gone is strictly below the threshold, as
\* UsedBasisPoints measures it, and at least the minimum is released.
ReturnsBelowThreshold ==
    pc = "done" /\ Shortfall = 0 =>
        LET freed == Bytes(Pending) + Bytes(candidates)
            after == used + expected - freed
        IN /\ after > 0 => UsedBasisPoints(after) < Threshold
           /\ freed * Basis >= total * MinimumRelease

\* What makes LastCopySpared hold in the loop: counts is the number of complete
\* copies not yet chosen, and a day that is still ahead has none chosen.
Inductive ==
    /\ candidates \subseteq {b \in Backups : status[b] = "complete"}
    /\ pc = "start" => candidates = {}
    /\ pc = "loop" => \A k \in Keys :
         counts[k] = Cardinality(CompleteCopies(k) \ candidates)
    /\ \A b \in candidates : age[b] \notin days
    /\ LastCopySpared
=============================================================================
