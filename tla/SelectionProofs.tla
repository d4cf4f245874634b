---------------------------- MODULE SelectionProofs ----------------------------
(***************************************************************************)
(* What policy.Select promises, for every finite snapshot, configuration   *)
(* and measure of the disk:                                                *)
(*   - the last complete copy of a key is never offered;                   *)
(*   - whole days are offered, from the oldest, until enough is freed;     *)
(*   - unless a shortfall is reported, what is offered brings the forecast *)
(*     below the threshold.                                                *)
(* The last two rest on an invariant of the loop over the days (Progress)  *)
(* and on how the bytes still needed are rounded up (NeededOf).            *)
(***************************************************************************)
EXTENDS Selection, SetFacts

\* Parts of the snapshot are finite.
LEMMA FiniteParts ==
    ASSUME NEW S \in SUBSET Backups
    PROVE  /\ IsFiniteSet(S) /\ Cardinality(S) \in Nat
           /\ Cardinality(S) = 0 <=> S = {}
  BY SelectionAssumption, FS_Subset, FS_CardinalityType, FS_EmptySet

\* What is left after a part is taken out.
LEMMA LeftOver ==
    ASSUME NEW S \in SUBSET Backups, NEW T \in SUBSET S
    PROVE  Cardinality(S \ T) = Cardinality(S) - Cardinality(T)
  <1>1. IsFiniteSet(S)
    BY FiniteParts
  <1>2. S \cap T = T
    OBVIOUS
  <1>. QED
    BY <1>1, <1>2, FS_Difference

\* Initially nothing is chosen.
LEMMA InitInductive == Init => Inductive
  BY DEF Init, Inductive, LastCopySpared, OfKey

\* Taking a day: the heart of the argument.
LEMMA TakeDaySpares ==
    ASSUME Inductive, NEW d \in days, TakeDay(d)
    PROVE  Inductive'
  <1>. DEFINE left(k) == CompleteCopies(k) \ candidates
              taken(k) == OfKey(k, Items(d))
  <1>1. /\ pc = "loop" /\ pc' = "loop" /\ Takeable(d)
        /\ candidates' = candidates \cup Items(d)
        /\ counts' = [k \in Keys |-> counts[k] - Cardinality(OfKey(k, Items(d)))]
        /\ days' \subseteq days \ {d}
        /\ UNCHANGED snapshot
    BY DEF TakeDay
  <1>2. \A b \in Items(d) : /\ b \in Backups /\ status[b] = "complete"
                            /\ age[b] = d /\ b \notin candidates
    BY <1>1 DEF Takeable, Items, Inductive
  <1>3. ASSUME NEW k \in Keys
        PROVE  /\ left(k) \in SUBSET Backups /\ taken(k) \in SUBSET left(k)
               /\ CompleteCopies(k)' = CompleteCopies(k)
               /\ CompleteCopies(k) \ candidates' = left(k) \ taken(k)
    BY <1>1, <1>2 DEF CompleteCopies, OfKey, snapshot
  <1>4. ASSUME NEW k \in Keys
        PROVE  /\ Cardinality(left(k) \ taken(k))
                    = Cardinality(left(k)) - Cardinality(taken(k))
               /\ counts[k] = Cardinality(left(k))
    BY <1>1, <1>3, LeftOver DEF Inductive
  <1>5. \A k \in Keys :
           counts'[k] = Cardinality(CompleteCopies(k)' \ candidates')
    BY <1>1, <1>3, <1>4
  <1>6. ASSUME NEW k \in Keys, OfKey(k, candidates') # {}
        PROVE  CompleteCopies(k)' \ candidates' # {}
    <2>1. CASE taken(k) = {}
      <3>1. OfKey(k, candidates) # {}
        BY <1>1, <1>6, <2>1 DEF OfKey
      <3>. QED
        BY <1>3, <2>1, <3>1 DEF Inductive, LastCopySpared
    <2>2. CASE taken(k) # {}
      <3>1. PICK b \in Items(d) : KeyOf[b] = k
        BY <2>2 DEF OfKey
      <3>2. counts[k] - Cardinality(taken(k)) >= 1
        BY <1>1, <3>1 DEF Takeable
      <3>3. left(k) \ taken(k) \in SUBSET Backups
        BY <1>3
      <3>4. Cardinality(left(k) \ taken(k)) # 0
        <4>1. Cardinality(left(k) \ taken(k)) >= 1
          BY <1>4, <3>2
        <4>. QED
          BY <4>1
      <3>. QED
        BY <1>3, <3>3, <3>4, FiniteParts
    <2>. QED
      BY <2>1, <2>2
  <1>7. candidates' \subseteq {b \in Backups : status'[b] = "complete"}
    BY <1>1, <1>2 DEF Inductive, snapshot
  <1>8. \A b \in candidates' : age'[b] \notin days'
    BY <1>1, <1>2 DEF Inductive, snapshot
  <1>9. LastCopySpared'
    BY <1>6 DEF LastCopySpared, OfKey
  <1>. QED
    BY <1>1, <1>5, <1>7, <1>8, <1>9 DEF Inductive

\* The other steps leave the candidates alone.
LEMMA NextInductive == Inductive /\ [Next]_vars => Inductive'
  <1>. SUFFICES ASSUME Inductive, [Next]_vars PROVE Inductive'
    OBVIOUS
  <1>1. CASE Refuse \/ Satisfied \/ Finish \/ Returned \/ UNCHANGED vars
    <2>1. /\ UNCHANGED <<status, age, counts, candidates, days>>
          /\ pc' = "loop" => pc = "loop"
          /\ pc' = "start" => pc = "start"
      BY <1>1 DEF Refuse, Satisfied, Finish, Returned, vars, snapshot
    <2>. QED
      BY <2>1 DEF Inductive, LastCopySpared, CompleteCopies, OfKey
  <1>2. CASE Begin
    <2>1. /\ UNCHANGED <<status, age, candidates>> /\ candidates = {}
          /\ pc' = "loop"
          /\ counts' = [k \in Keys |-> Cardinality(CompleteCopies(k))]
      BY <1>2 DEF Begin, snapshot, Inductive
    <2>2. \A k \in Keys : CompleteCopies(k)' \ candidates' = CompleteCopies(k)
      BY <2>1 DEF CompleteCopies, OfKey
    <2>. QED
      BY <2>1, <2>2 DEF Inductive, LastCopySpared, OfKey
  <1>3. ASSUME NEW d \in days, SkipDay(d) PROVE Inductive'
    <2>1. /\ UNCHANGED <<status, age, counts, candidates, pc>>
          /\ days' \subseteq days
      BY <1>3 DEF SkipDay, snapshot
    <2>. QED
      BY <2>1 DEF Inductive, LastCopySpared, CompleteCopies, OfKey
  <1>4. ASSUME NEW d \in days, TakeDay(d) PROVE Inductive'
    BY <1>4, TakeDaySpares
  <1>. QED
    BY <1>1, <1>2, <1>3, <1>4 DEF Next

\* The loop of Select keeps its counts equal to the copies not yet chosen.
THEOREM SelectionInvariant == Spec => []Inductive
  BY InitInductive, NextInductive, PTL DEF Spec

\* Every key whose copies Select offers keeps a complete copy it does not offer.
THEOREM LastCopyIsSpared == Spec => []LastCopySpared
  <1>1. Inductive => LastCopySpared
    BY DEF Inductive
  <1>. QED
    BY <1>1, SelectionInvariant, PTL

-----------------------------------------------------------------------------
(* Bytes.                                                                  *)

\* The bytes of a set of copies are the sum of those of its parts.
LEMMA BytesOf ==
    ASSUME NEW S \in SUBSET Backups
    PROVE  /\ Bytes(S) \in Nat
           /\ S = {} => Bytes(S) = 0
           /\ \A T \in SUBSET S : Bytes(S) = Bytes(T) + Bytes(S \ T)
  <1>1. IsFiniteSet(S) /\ \A x \in S : Size[x] \in Nat
    BY FiniteParts, SelectionAssumption
  <1>2. \A T : Bytes(T) = Sum(Size, T)
    BY DEF Bytes, Sum
  <1>3. Sum(Size, S) \in Nat /\ (S = {} => Sum(Size, S) = 0)
    BY <1>1, SumRemove
  <1>4. ASSUME NEW T \in SUBSET S PROVE Sum(Size, S) = Sum(Size, T) + Sum(Size, S \ T)
    BY <1>1, SumUnion
  <1>. QED
    BY <1>2, <1>3, <1>4

\* Distributivity, and what a larger factor does, for products that the solver
\* would not multiply out.
LEMMA Products ==
    ASSUME NEW a \in Int, NEW b \in Int, NEW c \in Int
    PROVE  /\ (a + b) * c = a * c + b * c
           /\ (a * b) * c = (a * c) * b
           /\ a <= b /\ c >= 0 => a * c <= b * c
  OBVIOUS

\* Division and remainder of natural numbers.
LEMMA Division ==
    ASSUME NEW n \in Nat, NEW b \in Nat \ {0}
    PROVE  /\ n \div b \in Nat /\ n % b \in Nat /\ n % b < b
           /\ n = (n \div b) * b + (n % b)
  <1>1. n \div b \in Nat /\ n % b \in 0 .. b - 1
    BY SMT
  <1>2. n = b * (n \div b) + (n % b)
    BY SMT
  <1>. QED
    BY <1>1, <1>2

\* Part is the fraction of the capacity, rounded down.
LEMMA PartOf ==
    ASSUME TypeOK, NEW points \in Nat
    PROVE  LET e == ((total % Basis) * points) % Basis
           IN  /\ Part(points) \in Nat /\ e \in Nat /\ e < Basis
               /\ Part(points) * Basis + e = total * points
  <1>. DEFINE q == total \div Basis
              r == total % Basis
              d == (r * points) \div Basis
              e == (r * points) % Basis
  <1>0. total \in Nat /\ Basis \in Nat \ {0}
    BY SelectionAssumption DEF TypeOK
  <1>1. q \in Nat /\ r \in Nat /\ total = q * Basis + r
    BY <1>0, Division
  <1>. HIDE DEF q, r
  <1>2. r * points \in Nat
    BY <1>1
  <1>3. d \in Nat /\ e \in Nat /\ e < Basis /\ r * points = d * Basis + e
    BY <1>0, <1>2, Division
  <1>. HIDE DEF d, e
  <1>4. q * points \in Nat /\ q * Basis \in Nat /\ d * Basis \in Nat
    BY <1>0, <1>1, <1>3
  <1>5. (q * points + d) * Basis = (q * points) * Basis + d * Basis
    BY <1>0, <1>3, <1>4, Products
  <1>6. (q * points) * Basis = (q * Basis) * points
    BY <1>0, <1>1, Products
  <1>7. total * points = (q * Basis) * points + r * points
    BY <1>1, <1>4, Products
  <1>8. (q * Basis) * points \in Nat
    BY <1>4
  <1>9. (q * points + d) * Basis + e = total * points
    BY <1>3, <1>4, <1>5, <1>6, <1>7, <1>8
  <1>10. Part(points) = q * points + d
    BY DEF Part, q, r, d
  <1>. QED
    BY <1>3, <1>4, <1>9, <1>10 DEF e, r

\* What has to be freed: at least the minimum, and what brings the forecast
\* below the threshold.
LEMMA NeededOf ==
    ASSUME TypeOK
    PROVE  /\ Needed \in Nat
           /\ \A freed \in Nat : freed >= Needed =>
                 LET after == used + expected - freed
                 IN  /\ after > 0 => UsedBasisPoints(after) < Threshold
                     /\ freed * Basis >= total * MinimumRelease
  <1>. DEFINE e == ((total % Basis) * MinimumRelease) % Basis
              minimal == MinimumBytes
              target == Target
              projected == used + expected
  <1>0. /\ Basis \in Nat \ {0} /\ MinimumRelease \in Nat /\ Threshold \in Nat
        /\ total \in Nat \ {0} /\ used \in Nat /\ expected \in Nat
    BY SelectionAssumption DEF TypeOK
  <1>1. /\ Part(MinimumRelease) \in Nat /\ e \in Nat /\ e < Basis
        /\ Part(MinimumRelease) * Basis + e = total * MinimumRelease
    BY <1>0, PartOf
  <1>2. /\ Part(Threshold) \in Nat
        /\ Part(Threshold) * Basis <= total * Threshold
    <2>1. LET x == ((total % Basis) * Threshold) % Basis
          IN  /\ Part(Threshold) \in Nat /\ x \in Nat
              /\ Part(Threshold) * Basis + x = total * Threshold
      BY <1>0, PartOf
    <2>2. Part(Threshold) * Basis \in Nat
      BY <2>1, <1>0
    <2>. QED
      BY <2>1, <2>2
  <1>3. minimal \in Nat /\ minimal * Basis >= total * MinimumRelease
    <2>1. minimal = Part(MinimumRelease) + (IF e # 0 THEN 1 ELSE 0)
      BY DEF MinimumBytes
    <2>2. CASE e = 0
      BY <2>1, <2>2, <1>0, <1>1
    <2>3. CASE e # 0
      <3>1. minimal = Part(MinimumRelease) + 1
        BY <2>1, <2>3
      <3>2. minimal * Basis = Part(MinimumRelease) * Basis + 1 * Basis
        BY <3>1, <1>0, <1>1, Products
      <3>3. Part(MinimumRelease) * Basis \in Nat /\ total * MinimumRelease \in Nat
        BY <1>0, <1>1
      <3>. QED
        BY <3>1, <3>2, <3>3, <1>0, <1>1
    <2>. QED
      BY <2>2, <2>3
  <1>4. target \in Nat /\ \A x \in Nat : 0 < x /\ x <= target => x + 1 <= Part(Threshold)
    BY <1>2 DEF Target
  <1>5. /\ Needed \in Nat /\ Needed >= minimal
        /\ projected > target => Needed >= projected - target
    <2>. HIDE DEF minimal, target
    <2>1. Needed = Max({minimal} \cup (IF projected > target THEN {projected - target} ELSE {}))
      BY DEF Needed, minimal, target
    <2>2. CASE projected > target
      <3>1. Needed = Max({minimal, projected - target})
        <4>1. {minimal} \cup {projected - target} = {minimal, projected - target}
          OBVIOUS
        <4>. QED
          BY <2>1, <2>2, <4>1
      <3>. QED
        BY <2>2, <3>1, <1>0, <1>3, <1>4, MaxPair
    <2>3. CASE ~(projected > target)
      <3>1. Needed = Max({minimal, minimal})
        <4>1. {minimal} \cup {} = {minimal, minimal}
          OBVIOUS
        <4>. QED
          BY <2>1, <2>3, <4>1
      <3>. QED
        BY <2>3, <3>1, <1>3, MaxPair
    <2>. QED
      BY <2>2, <2>3
  <1>. HIDE DEF minimal, target
  <1>6. ASSUME NEW freed \in Nat, freed >= Needed
        PROVE  freed * Basis >= total * MinimumRelease
    <2>1. minimal <= freed
      BY <1>3, <1>5, <1>6
    <2>2. minimal * Basis <= freed * Basis
      BY <2>1, <1>0, <1>3, Products
    <2>3. minimal * Basis \in Nat /\ freed * Basis \in Nat /\ total * MinimumRelease \in Nat
      BY <1>0, <1>3
    <2>. QED
      BY <2>2, <2>3, <1>3
  <1>7. ASSUME NEW freed \in Nat, freed >= Needed, projected - freed > 0
        PROVE  UsedBasisPoints(projected - freed) < Threshold
    <2>. DEFINE x == projected - freed
    <2>1. x \in Nat /\ 0 < x /\ x <= target
      BY <1>0, <1>4, <1>5, <1>7
    <2>. HIDE DEF x
    <2>2. x + 1 <= Part(Threshold)
      BY <2>1, <1>4
    <2>3. (x + 1) * Basis <= Part(Threshold) * Basis /\ (x + 1) * Basis = x * Basis + 1 * Basis
      BY <2>1, <2>2, <1>0, <1>2, Products
    <2>4. x * Basis \in Nat /\ Part(Threshold) * Basis \in Nat /\ total * Threshold \in Nat
      BY <2>1, <1>0, <1>2
    <2>5. x * Basis < total * Threshold
      BY <2>3, <2>4, <1>0, <1>2
    <2>. DEFINE u == (x * Basis) \div total
                v == (x * Basis) % total
    <2>6. u \in Nat /\ v \in Nat /\ x * Basis = u * total + v
      BY <2>4, <1>0, Division
    <2>. HIDE DEF u, v
    <2>7. ASSUME u >= Threshold PROVE FALSE
      <3>1. Threshold * total <= u * total /\ u * total \in Nat /\ Threshold * total = total * Threshold
        BY <2>6, <2>7, <1>0, Products
      <3>. QED
        BY <3>1, <2>4, <2>5, <2>6
    <2>8. u < Threshold
      BY <2>6, <2>7, <1>0
    <2>. QED
      BY <2>8 DEF u, x, UsedBasisPoints
  <1>. SUFFICES ASSUME NEW freed \in Nat, freed >= Needed
                PROVE  /\ projected - freed > 0 => UsedBasisPoints(projected - freed) < Threshold
                       /\ freed * Basis >= total * MinimumRelease
    BY <1>0, <1>5
  <1>. QED
    BY <1>6, <1>7

\* The bytes that pending operations will free are a number.
LEMMA PendingBytes == TypeOK => Bytes(Pending) \in Nat
  <1>1. Pending \in SUBSET Backups
    BY DEF Pending
  <1>. QED
    BY <1>1, BytesOf

\* Type correctness of the loop.
LEMMA NextTypeOK == TypeOK /\ [Next]_vars => TypeOK'
  <1>. SUFFICES ASSUME TypeOK, [Next]_vars PROVE TypeOK'
    OBVIOUS
  <1>. USE DEF TypeOK, snapshot
  <1>1. CASE Refuse \/ Satisfied \/ Finish \/ Returned \/ UNCHANGED vars
    BY <1>1 DEF Refuse, Satisfied, Finish, Returned, vars
  <1>2. CASE Begin
    <2>1. needed' \in Nat
      <3>1. /\ needed' = Needed - Bytes(Pending) /\ Bytes(Pending) < Needed
            /\ Needed \in Nat /\ Bytes(Pending) \in Nat
        BY <1>2, NeededOf, PendingBytes DEF Begin
      <3>. QED
        BY <3>1
    <2>2. counts' \in [Keys -> Int]
      <3>1. \A k \in Keys : Cardinality(CompleteCopies(k)) \in Int
        BY FiniteParts DEF CompleteCopies, OfKey
      <3>. QED
        BY <1>2, <3>1 DEF Begin
    <2>3. days' \subseteq Ages
      BY <1>2 DEF Begin
    <2>. QED
      BY <1>2, <2>1, <2>2, <2>3 DEF Begin
  <1>3. ASSUME NEW d \in days, SkipDay(d) PROVE TypeOK'
    BY <1>3 DEF SkipDay
  <1>4. ASSUME NEW d \in days, TakeDay(d) PROVE TypeOK'
    <2>1. Items(d) \in SUBSET Backups
      BY DEF Items
    <2>2. Bytes(Items(d)) \in Nat
      BY <2>1, BytesOf
    <2>3. \A k \in Keys : Cardinality(OfKey(k, Items(d))) \in Nat
      BY <2>1, FiniteParts DEF OfKey
    <2>4. selected' \in Nat
      BY <1>4, <2>2 DEF TakeDay
    <2>5. counts' \in [Keys -> Int]
      BY <1>4, <2>3 DEF TakeDay
    <2>. QED
      BY <1>4, <2>1, <2>4, <2>5 DEF TakeDay
  <1>. QED
    BY <1>1, <1>2, <1>3, <1>4 DEF Next

-----------------------------------------------------------------------------
(* The days chosen.                                                        *)

\* The days with an eligible copy, the days offered, and what the loop has decided
\* when it has offered the days C.
Days    == {age[b] : b \in {c \in Backups : Eligible(c)}}
DaysOf  == {age[b] : b \in candidates}
Loop(C) ==
    /\ days \subseteq Days /\ C \subseteq Days \ days
    /\ \A e \in days, d \in Days \ days : e < d
    /\ candidates = UNION {Items(d) : d \in C}
    /\ \A d \in Days \ days : d \in C <=> Chosen(d, C)
    /\ days # {} => selected < needed
Decided == \E C : C = DaysOf /\ Loop(C)

\* The loop has decided the days that are no longer ahead as Chosen says, and
\* what it has selected is what the candidates hold; enough was freed when no
\* shortfall is left.
Progress ==
    /\ TypeOK /\ Inductive
    /\ selected = Bytes(candidates)
    /\ pc = "start" => needed = 0 /\ selected = 0
    /\ pc \in {"loop", "done"} /\ needed > 0 =>
          Decided /\ needed = Needed - Bytes(Pending)
    /\ pc = "loop" => needed > 0
    /\ pc = "done" => (needed > 0 /\ days = {}) \/ Bytes(Pending) >= Needed

\* Initially no day was decided.
LEMMA InitProgress == Init => Progress
  <1>. SUFFICES ASSUME Init PROVE Progress
    OBVIOUS
  <1>1. TypeOK
    BY SelectionAssumption DEF Init, TypeOK
  <1>2. Bytes({}) = 0
    BY BytesOf
  <1>. QED
    BY <1>1, <1>2, InitInductive DEF Init, Progress

\* The copies of a key that a day leaves are the ones Takeable counts.
LEMMA TakeableIsChoosable ==
    ASSUME TypeOK, Inductive, pc = "loop", NEW d \in days
    PROVE  Takeable(d) <=>
             \A b \in Items(d) :
                /\ status[b] = "complete" /\ KeyOf[b] \notin revoked
                /\ \E c \in Backups \ (candidates \cup Items(d)) :
                      KeyOf[c] = KeyOf[b] /\ status[c] = "complete"
  <1>. DEFINE left(k) == CompleteCopies(k) \ candidates
              taken(k) == OfKey(k, Items(d))
  <1>1. ASSUME NEW b \in Items(d), \A c \in Items(d) : status[c] = "complete"
        PROVE  counts[KeyOf[b]] - Cardinality(taken(KeyOf[b])) >= 1 <=>
                 \E c \in Backups \ (candidates \cup Items(d)) :
                      KeyOf[c] = KeyOf[b] /\ status[c] = "complete"
    <2>. DEFINE k == KeyOf[b]
    <2>0. b \in Backups /\ k \in Keys
      BY DEF Items, Keys
    <2>1. \A c \in Items(d) : c \in Backups /\ c \notin candidates
      BY DEF Items, Inductive
    <2>2. left(k) \in SUBSET Backups /\ taken(k) \in SUBSET left(k)
      BY <1>1, <2>1 DEF CompleteCopies, OfKey
    <2>3. counts[k] = Cardinality(left(k))
      BY <2>0 DEF Inductive
    <2>4. Cardinality(left(k) \ taken(k)) = Cardinality(left(k)) - Cardinality(taken(k))
      BY <2>2, LeftOver
    <2>5. left(k) \ taken(k) \in SUBSET Backups
      BY <2>2
    <2>6. /\ Cardinality(left(k) \ taken(k)) \in Nat
          /\ Cardinality(left(k) \ taken(k)) = 0 <=> left(k) \ taken(k) = {}
      BY <2>5, FiniteParts
    <2>7. left(k) \ taken(k) = {c \in Backups \ (candidates \cup Items(d)) :
                                   KeyOf[c] = k /\ status[c] = "complete"}
      BY DEF CompleteCopies, OfKey
    <2>8. counts[k] - Cardinality(taken(k)) >= 1 <=> left(k) \ taken(k) # {}
      BY <2>3, <2>4, <2>6
    <2>. QED
      BY <2>7, <2>8
  <1>. QED
    BY <1>1 DEF Takeable

\* What depends on the snapshot only.
LEMMA SnapshotStays ==
    ASSUME UNCHANGED snapshot
    PROVE  /\ Days' = Days /\ (\A d : Items(d)' = Items(d))
           /\ Needed' = Needed /\ Bytes(Pending)' = Bytes(Pending)
  <1>1. UNCHANGED <<status, age, minimum, revoked, total, used, expected>>
    BY DEF snapshot
  <1>2. \A b : Eligible(b)' = Eligible(b)
    BY <1>1 DEF Eligible
  <1>3. Days' = Days /\ \A d : Items(d)' = Items(d)
    BY <1>1, <1>2 DEF Days, Items
  <1>4. Pending' = Pending
    BY <1>1 DEF Pending
  <1>5. Needed' = Needed
    BY <1>1 DEF Needed, Target, MinimumBytes, Part
  <1>. QED
    BY <1>3, <1>4, <1>5

\* What Chosen says of a day depends on the snapshot only.
LEMMA ChosenStays ==
    ASSUME UNCHANGED <<snapshot, needed>>, NEW d, NEW C
    PROVE  Chosen(d, C)' <=> Chosen(d, C)
  <1>1. UNCHANGED <<status, revoked, needed>> /\ \A e : Items(e)' = Items(e)
    BY SnapshotStays DEF snapshot
  <1>. QED
    BY <1>1 DEF Chosen

\* The items of a day.
LEMMA DayItems ==
    ASSUME TypeOK
    PROVE  /\ Days \subseteq Nat
           /\ \A d \in Days : Items(d) # {}
           /\ \A d : Items(d) \in SUBSET Backups /\ \A b \in Items(d) : age[b] = d
  <1>1. \A b \in Backups : age[b] \in Nat
    BY SelectionAssumption DEF TypeOK
  <1>. QED
    BY <1>1 DEF Days, Items

\* The oldest day ahead is chosen exactly when it can be taken.
LEMMA ChosenIsTakeable ==
    ASSUME Progress, pc = "loop", NEW d \in days, Oldest(d), NEW C, C \subseteq Nat,
           NEW D, D = DaysOf, D = {e \in C : e > d}
    PROVE  Chosen(d, C) <=> Takeable(d)
  <1>1. TypeOK /\ Inductive /\ Loop(D) /\ selected = Bytes(candidates)
    BY DEF Progress, Decided
  <1>2. UNION {Items(e) : e \in {x \in C : x > d}} = candidates
    BY <1>1 DEF Loop
  <1>3. Bytes(candidates) < needed
    BY <1>1 DEF Loop
  <1>. QED
    BY <1>1, <1>2, <1>3, TakeableIsChoosable DEF Chosen

\* A day that was decided is decided by the older ones.
LEMMA ChosenByOlder ==
    ASSUME NEW d, NEW C, NEW D, {x \in C : x > d} = {x \in D : x > d}
    PROVE  Chosen(d, C) <=> Chosen(d, D)
  BY DEF Chosen

\* A day that offers nothing is passed over.
LEMMA SkipDayProgress ==
    ASSUME Progress, NEW d \in days, SkipDay(d), TypeOK', Inductive'
    PROVE  Progress'
  <1>1. /\ pc = "loop" /\ pc' = "loop" /\ Oldest(d) /\ ~Takeable(d)
        /\ days' = days \ {d}
        /\ UNCHANGED <<snapshot, needed, counts, candidates, selected>>
    BY DEF SkipDay
  <1>2. PICK C : C = DaysOf /\ Loop(C)
    BY <1>1 DEF Progress, Decided
  <1>3. DaysOf' = C
    BY <1>1, <1>2 DEF DaysOf, snapshot
  <1>4. /\ Days' = Days /\ (\A e : Items(e)' = Items(e))
        /\ Needed' = Needed /\ Bytes(Pending)' = Bytes(Pending)
        /\ \A e : Chosen(e, C)' <=> Chosen(e, C)
    BY <1>1, SnapshotStays, ChosenStays
  <1>5. C \subseteq Nat /\ Days \subseteq Nat /\ d \in Days
    BY <1>2, DayItems DEF Loop, Progress
  <1>6. ~Chosen(d, C) /\ d \notin C
    <2>1. C = {e \in C : e > d}
      BY <1>2, <1>5 DEF Loop
    <2>2. Chosen(d, C) <=> Takeable(d)
      BY <1>1, <1>2, <1>5, <2>1, ChosenIsTakeable
    <2>. QED
      BY <1>1, <1>2, <2>2 DEF Loop
  <1>7. ASSUME NEW e \in days', NEW f \in Days \ days' PROVE e < f
    BY <1>1, <1>2, <1>5, <1>7 DEF Loop, Oldest
  <1>8. Loop(C)'
    BY <1>1, <1>2, <1>4, <1>6, <1>7 DEF Loop
  <1>9. Decided'
    BY <1>3, <1>8 DEF Decided
  <1>10. (selected = Bytes(candidates))'
    BY <1>1 DEF Progress
  <1>. QED
    BY <1>1, <1>4, <1>9, <1>10 DEF Progress

\* A day is taken.
LEMMA TakeDayProgress ==
    ASSUME Progress, NEW d \in days, TakeDay(d), TypeOK', Inductive'
    PROVE  Progress'
  <1>1. /\ pc = "loop" /\ pc' = "loop" /\ Oldest(d) /\ Takeable(d)
        /\ candidates' = candidates \cup Items(d)
        /\ selected' = selected + Bytes(Items(d))
        /\ days' = IF selected' >= needed THEN {} ELSE days \ {d}
        /\ UNCHANGED <<snapshot, needed>>
    BY DEF TakeDay
  <1>2. PICK C : C = DaysOf /\ Loop(C)
    BY <1>1 DEF Progress, Decided
  <1>3. /\ C \subseteq Nat /\ Days \subseteq Nat /\ d \in Days /\ d \in Nat
        /\ Items(d) # {} /\ Items(d) \in SUBSET Backups
        /\ \A b \in Items(d) : age[b] = d /\ b \notin candidates
    BY <1>2, DayItems DEF Loop, Progress, Inductive
  <1>. DEFINE D == C \cup {d}
  <1>4. DaysOf' = D
    <2>1. age' = age
      BY <1>1 DEF snapshot
    <2>. QED
      BY <1>1, <1>2, <1>3, <2>1 DEF DaysOf
  <1>5. (selected = Bytes(candidates))' /\ selected' \in Nat
    <2>1. candidates' \in SUBSET Backups /\ candidates \in SUBSET candidates'
          /\ candidates' \ candidates = Items(d)
      BY <1>1, <1>3 DEF Progress, TypeOK
    <2>2. Bytes(candidates') = Bytes(candidates) + Bytes(candidates' \ candidates)
      BY <2>1, BytesOf
    <2>. QED
      BY <1>1, <2>1, <2>2 DEF Progress, TypeOK
  <1>6. /\ Days' = Days /\ (\A e : Items(e)' = Items(e))
        /\ Needed' = Needed /\ Bytes(Pending)' = Bytes(Pending)
        /\ \A e : Chosen(e, D)' <=> Chosen(e, D)
    BY <1>1, SnapshotStays, ChosenStays
  <1>7. \A e \in C : d < e
    BY <1>2, <1>3 DEF Loop
  <1>8. Chosen(d, D)
    <2>1. C = {e \in D : e > d} /\ D \subseteq Nat
      <3>1. (\A e \in C : e > d) /\ ~(d > d)
        BY <1>3, <1>7
      <3>. QED
        BY <1>3, <3>1
    <2>. QED
      BY <1>1, <1>2, <2>1, ChosenIsTakeable
  <1>9. ASSUME NEW e \in Days \ days PROVE e \in D <=> Chosen(e, D)
    <2>1. e > d /\ e \in Nat
      BY <1>2, <1>3 DEF Loop
    <2>2. {x \in C : x > e} = {x \in D : x > e}
      BY <1>3, <2>1
    <2>3. Chosen(e, C) <=> Chosen(e, D)
      BY <2>2, ChosenByOlder
    <2>. QED
      BY <1>2, <2>1, <2>3 DEF Loop
  <1>10. ASSUME selected' >= needed, NEW e \in days \ {d} PROVE e \notin D /\ ~Chosen(e, D)
    <2>1. e < d /\ e \in Nat
      BY <1>1, <1>2, <1>3 DEF Oldest, Loop
    <2>2. D = {x \in D : x > e}
      <3>1. ASSUME NEW x \in D PROVE x > e
        <4>1. x \in Nat /\ d <= x
          BY <1>3, <1>7
        <4>. QED
          BY <1>3, <2>1, <4>1
      <3>. QED
        BY <3>1
    <2>3. candidates' = UNION {Items(x) : x \in D}
      BY <1>1, <1>2 DEF Loop
    <2>4. UNION {Items(x) : x \in {x \in D : x > e}} = candidates'
      BY <2>2, <2>3
    <2>5. ~(Bytes(candidates') < needed)
      BY <1>5, <1>10 DEF Progress, TypeOK
    <2>. QED
      BY <1>2, <2>1, <2>4, <2>5 DEF Chosen, Loop
  <1>11. candidates' = UNION {Items(x) : x \in D}
    BY <1>1, <1>2 DEF Loop
  <1>12. days' \subseteq Days /\ D \subseteq Days \ days'
    BY <1>1, <1>2, <1>3 DEF Loop
  <1>13. \A e \in days', f \in Days \ days' : e < f
    BY <1>1, <1>2, <1>3 DEF Loop, Oldest
  <1>14. ASSUME NEW e \in Days \ days' PROVE e \in D <=> Chosen(e, D)
    <2>1. e \in Days \ days \/ e = d \/ (selected' >= needed /\ e \in days \ {d})
      BY <1>1
    <2>. QED
      BY <2>1, <1>8, <1>9, <1>10
  <1>15. days' # {} => selected' < needed
    BY <1>1, <1>5 DEF Progress, TypeOK
  <1>. HIDE DEF D
  <1>16. Loop(D)'
    BY <1>1, <1>6, <1>11, <1>12, <1>13, <1>14, <1>15 DEF Loop
  <1>17. Decided'
    BY <1>4, <1>16 DEF Decided
  <1>. QED
    BY <1>1, <1>5, <1>6, <1>17 DEF Progress
\* The loop begins with all eligible days.
LEMMA BeginProgress ==
    ASSUME Progress, Begin, TypeOK', Inductive'
    PROVE  Progress'
  <1>1. /\ pc = "start" /\ pc' = "loop" /\ Bytes(Pending) < Needed
        /\ needed' = Needed - Bytes(Pending) /\ days' = Days
        /\ UNCHANGED <<snapshot, candidates, selected>>
    BY DEF Begin, Days
  <1>2. /\ candidates = {} /\ selected = 0 /\ TypeOK /\ selected = Bytes(candidates)
    BY <1>1 DEF Progress, Inductive
  <1>3. /\ Days' = Days /\ (\A e : Items(e)' = Items(e))
        /\ Needed' = Needed /\ Bytes(Pending)' = Bytes(Pending)
    BY <1>1, SnapshotStays
  <1>4. needed' > 0 /\ needed' \in Nat
    BY <1>1, <1>2, NeededOf, PendingBytes
  <1>5. DaysOf' = {}
    BY <1>1, <1>2 DEF DaysOf
  <1>6. Loop({})'
    BY <1>1, <1>2, <1>3, <1>4 DEF Loop
  <1>7. Decided'
    BY <1>5, <1>6 DEF Decided
  <1>8. (selected = Bytes(candidates))'
    BY <1>1, <1>2
  <1>. QED
    BY <1>1, <1>3, <1>4, <1>7, <1>8 DEF Progress

\* Steps that only change pc.
LEMMA QuietProgress ==
    ASSUME Progress, TypeOK', Inductive',
           UNCHANGED <<snapshot, needed, days, candidates, selected>>,
           \/ pc' = pc
           \/ pc' = "refused"
           \/ pc = "start" /\ pc' = "done" /\ Bytes(Pending) >= Needed
           \/ pc = "loop" /\ pc' = "done" /\ days = {}
    PROVE  Progress'
  <1>1. /\ Days' = Days /\ (\A e : Items(e)' = Items(e))
        /\ Needed' = Needed /\ Bytes(Pending)' = Bytes(Pending)
    BY SnapshotStays
  <1>2. DaysOf' = DaysOf
    BY DEF DaysOf, snapshot
  <1>3. ASSUME NEW C, Loop(C) PROVE Loop(C)'
    <2>1. \A e : Chosen(e, C)' <=> Chosen(e, C)
      BY ChosenStays
    <2>. QED
      BY <1>1, <1>3, <2>1 DEF Loop
  <1>4. Decided => Decided'
    BY <1>2, <1>3 DEF Decided
  <1>5. (selected = Bytes(candidates))'
    BY DEF Progress
  <1>. QED
    BY <1>1, <1>4, <1>5 DEF Progress, TypeOK

\* The loop of Select decides the days one after the other, each by what the
\* older ones have left, and stops when what it has selected is enough.
THEOREM SelectionProgress == Spec => []Progress
  <1>1. Progress /\ [Next]_vars => Progress'
    <2>. SUFFICES ASSUME Progress, [Next]_vars PROVE Progress'
      OBVIOUS
    <2>1. TypeOK' /\ Inductive'
      BY NextTypeOK, NextInductive DEF Progress
    <2>2. CASE Refuse \/ Satisfied \/ Finish \/ Returned \/ UNCHANGED vars
      BY <2>1, <2>2, QuietProgress DEF Refuse, Satisfied, Finish, Returned, vars
    <2>3. CASE Begin
      BY <2>1, <2>3, BeginProgress
    <2>4. ASSUME NEW d \in days, SkipDay(d) PROVE Progress'
      BY <2>1, <2>4, SkipDayProgress
    <2>5. ASSUME NEW d \in days, TakeDay(d) PROVE Progress'
      BY <2>1, <2>5, TakeDayProgress
    <2>. QED
      BY <2>2, <2>3, <2>4, <2>5 DEF Next
  <1>. QED
    BY <1>1, InitProgress, PTL DEF Spec

\* Select takes the days in the order of their age: going back in time, a day is
\* taken exactly when the older ones taken do not suffice, all its copies may go
\* and every key of it keeps a complete copy.
THEOREM OldestDaysGoFirst == Spec => []OldestDaysFirst
  <1>1. Progress => OldestDaysFirst
    <2>. SUFFICES ASSUME Progress, pc = "done", needed > 0
                  PROVE  /\ candidates = UNION {Items(d) : d \in DaysOf}
                         /\ \A d \in Days : d \in DaysOf <=> Chosen(d, DaysOf)
      BY DEF OldestDaysFirst, Days, DaysOf
    <2>1. PICK C : C = DaysOf /\ Loop(C)
      BY DEF Progress, Decided
    <2>2. days = {} \/ Bytes(Pending) >= Needed
      BY DEF Progress
    <2>3. days = {}
      <3>1. needed = Needed - Bytes(Pending) /\ needed \in Nat
        BY DEF Progress, TypeOK
      <3>2. Needed \in Nat /\ Bytes(Pending) \in Nat
        BY NeededOf, PendingBytes DEF Progress
      <3>. QED
        BY <2>2, <3>1, <3>2
    <2>. QED
      BY <2>1, <2>3 DEF Loop
  <1>. QED
    BY <1>1, SelectionProgress, PTL

\* When Select reports no shortfall, what is pending and what it has selected
\* bring the forecast below the threshold and release the minimum, whatever the
\* capacity, the measures, the sizes and the rounding of fractions.
THEOREM ReturnsBelowTheThreshold == Spec => []ReturnsBelowThreshold
  <1>1. Progress => ReturnsBelowThreshold
    <2>. SUFFICES ASSUME Progress, pc = "done", Shortfall = 0
                  PROVE  LET freed == Bytes(Pending) + Bytes(candidates)
                             after == used + expected - freed
                         IN /\ after > 0 => UsedBasisPoints(after) < Threshold
                            /\ freed * Basis >= total * MinimumRelease
      BY DEF ReturnsBelowThreshold
    <2>. DEFINE freed == Bytes(Pending) + Bytes(candidates)
    <2>1. TypeOK /\ needed \in Nat /\ selected \in Nat /\ Bytes(candidates) = selected
      BY DEF Progress, TypeOK
    <2>2. Needed \in Nat /\ Bytes(Pending) \in Nat
      BY <2>1, NeededOf, PendingBytes
    <2>3. selected >= needed
      BY <2>1 DEF Shortfall
    <2>4. freed \in Nat /\ freed >= Needed
      BY <2>1, <2>2, <2>3 DEF Progress
    <2>. HIDE DEF freed
    <2>5. /\ used + expected - freed > 0 => UsedBasisPoints(used + expected - freed) < Threshold
          /\ freed * Basis >= total * MinimumRelease
      BY <2>1, <2>4, NeededOf
    <2>. QED
      BY <2>5 DEF freed
  <1>. QED
    BY <1>1, SelectionProgress, PTL
=============================================================================
