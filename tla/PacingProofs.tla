---------------------------- MODULE PacingProofs ----------------------------
(***************************************************************************)
(* What the operations on the record of a pacing control preserve, for all *)
(* values of the options.  What is counted in a record are the entries     *)
(* whose times are in a set: a record that has as many as another of each  *)
(* set of times has all that the other has, and merge() adds the counts.   *)
(***************************************************************************)
EXTENDS PacingControl, TLAPS, SequenceTheorems, FiniteSetTheorems

Record == Seq(Entry)

(* A record in order, no entry in the future of t.                         *)
Good(c, t) ==
  /\ c \in Record /\ InOrder(c)
  /\ \A i \in DOMAIN c : c[i].time <= t

(* Each set of naturals has a least element.                               *)
LEMMA LeastNatural ==
  ASSUME NEW P \in SUBSET Nat, P # {}
  PROVE  \E m \in P : \A k \in P : m <= k
<1>1. \E m \in P : \A k \in P : ~ (<<k, m>> \in OpToRel(<, Nat))
  BY NatLessThanWellFounded, WFMin
<1>2. \A k, m \in Nat : k < m => <<k, m>> \in OpToRel(<, Nat)
  BY DEF OpToRel
<1>3. \E m \in P : \A k \in P : ~ (k < m)
  BY <1>1, <1>2, Zenon
<1>4. QED
  BY <1>3

LEMMA RecordFacts ==
  ASSUME NEW c \in Record
  PROVE  /\ Len(c) \in Nat /\ DOMAIN c = 1..Len(c)
         /\ \A i \in DOMAIN c : c[i] \in Entry /\ c[i].time \in Nat
         /\ c = << >> <=> Len(c) = 0
<1>1. Len(c) \in Nat /\ DOMAIN c = 1..Len(c) /\ (c = << >> <=> Len(c) = 0)
  BY EmptySeq DEF Record
<1>2. \A i \in DOMAIN c : c[i] \in Entry
  BY <1>1 DEF Record
<1>3. \A i \in DOMAIN c : c[i].time \in Nat
  BY <1>2 DEF Entry
<1>4. QED
  BY <1>1, <1>2, <1>3

(* The last entry is the latest.                                           *)
LEMMA BackFacts ==
  ASSUME NEW c \in Record, c # << >>
  PROVE  /\ Len(c) \in Nat \ {0} /\ Len(c) \in DOMAIN c
         /\ Back(c) = c[Len(c)] /\ Back(c) \in Entry /\ Back(c).time \in Nat
         /\ InOrder(c) => \A i \in DOMAIN c : c[i].time <= Back(c).time
<1>1. /\ Len(c) \in Nat \ {0} /\ DOMAIN c = 1..Len(c) /\ Len(c) \in DOMAIN c
      /\ \A i \in DOMAIN c : c[i] \in Entry /\ c[i].time \in Nat
  BY RecordFacts
<1>2. Back(c) = c[Len(c)]
  BY DEF Back
<1>3. QED
  BY <1>1, <1>2 DEF InOrder

(***************************************************************************)
(* The order of the entries.                                               *)
(***************************************************************************)

LEMMA EmptyGood ==
  ASSUME NEW t
  PROVE  Good(<< >>, t)
BY DEF Good, Record, InOrder

LEMMA OneEntryGood ==
  ASSUME NEW e \in Entry, NEW t \in Nat, e.time <= t
  PROVE  Good(<<e>>, t)
<1>1. <<e>> \in Record /\ DOMAIN <<e>> = {1} /\ <<e>>[1] = e
  BY DEF Record
<1>2. QED
  BY <1>1 DEF Good, InOrder, Entry

LEMMA LaterGood ==
  ASSUME NEW c, NEW t \in Nat, NEW u \in Nat, t <= u, Good(c, t)
  PROVE  Good(c, u)
<1>1. \A i \in DOMAIN c : c[i].time \in Nat
  BY RecordFacts DEF Good
<1>2. QED
  BY <1>1 DEF Good

(* What is added is the last entry.                                        *)
LEMMA AddFacts ==
  ASSUME NEW c \in Record, NEW t \in Nat
  PROVE  LET d == AddRequest(c, t)
         IN  /\ d \in Record /\ Len(d) = Len(c) + 1 /\ DOMAIN d = 1 .. Len(c) + 1
             /\ d[Len(c) + 1] = [time |-> t, violation |-> FALSE]
             /\ d[Len(c) + 1].time = t
             /\ \A i \in DOMAIN c : d[i] = c[i]
<1> DEFINE e == [time |-> t, violation |-> FALSE]
           d == AddRequest(c, t)
<1>1. e \in Entry /\ e.time = t
  BY DEF Entry
<1> HIDE DEF e
<1>2. d = Append(c, e)
  BY DEF AddRequest, e
<1>3. /\ d \in Record /\ Len(d) = Len(c) + 1 /\ d[Len(c) + 1] = e
      /\ \A i \in DOMAIN c : d[i] = c[i]
      /\ DOMAIN d = 1 .. Len(c) + 1
  BY <1>1, <1>2 DEF Record
<1>4. QED
  BY <1>1, <1>3 DEF e

LEMMA AddGood ==
  ASSUME NEW c, NEW t \in Nat, Good(c, t)
  PROVE  Good(AddRequest(c, t), t)
<1> DEFINE d == AddRequest(c, t)
<1>1. c \in Record /\ Len(c) \in Nat /\ DOMAIN c = 1..Len(c)
      /\ \A i \in DOMAIN c : c[i].time \in Nat
  BY RecordFacts DEF Good
<1>2. /\ d \in Record /\ DOMAIN d = 1 .. Len(c) + 1
      /\ d[Len(c) + 1].time = t
      /\ \A i \in DOMAIN c : d[i] = c[i]
  BY <1>1, AddFacts
<1> HIDE DEF d
<1>3. \A i \in DOMAIN d : d[i].time <= t
  BY <1>1, <1>2 DEF Good
<1>4. InOrder(d)
  <2> SUFFICES ASSUME NEW i \in DOMAIN d, NEW j \in DOMAIN d, i <= j
               PROVE  d[i].time <= d[j].time
    BY DEF InOrder
  <2>1. CASE j = Len(c) + 1
    BY <1>2, <1>3, <2>1
  <2>2. CASE j # Len(c) + 1
    <3>1. i \in DOMAIN c /\ j \in DOMAIN c
      BY <1>1, <1>2, <2>2
    <3>2. QED
      BY <1>2, <3>1 DEF Good, InOrder
  <2>3. QED
    BY <2>1, <2>2
<1>5. QED
  BY <1>2, <1>3, <1>4 DEF Good, d

LEMMA RemoveFacts ==
  ASSUME NEW c \in Record
  PROVE  LET d == RemoveLastRequest(c)
         IN  /\ d \in Record /\ Len(d) = (IF c = << >> THEN 0 ELSE Len(c) - 1)
             /\ DOMAIN d = DOMAIN c \ {Len(c)}
             /\ \A i \in DOMAIN d : d[i] = c[i]
<1> DEFINE d == SubSeq(c, 1, Len(c) - 1)
<1>1. CASE c = << >>
  BY <1>1 DEF RemoveLastRequest, Record
<1>2. CASE c # << >>
  <2>1. Len(c) \in Nat \ {0} /\ DOMAIN c = 1..Len(c)
    BY <1>2, RecordFacts
  <2>2. /\ d \in Record /\ Len(d) = Len(c) - 1 /\ DOMAIN d = 1 .. Len(c) - 1
        /\ \A i \in DOMAIN d : d[i] = c[i]
    BY <2>1, SubSeqProperties DEF Record
  <2> HIDE DEF d
  <2>3. RemoveLastRequest(c) = d
    BY <1>2 DEF RemoveLastRequest, d
  <2>4. DOMAIN d = DOMAIN c \ {Len(c)}
    BY <2>1, <2>2
  <2>5. QED
    BY <1>2, <2>2, <2>3, <2>4
<1>3. QED
  BY <1>1, <1>2

LEMMA RemoveGood ==
  ASSUME NEW c, NEW t, Good(c, t)
  PROVE  Good(RemoveLastRequest(c), t)
<1> DEFINE d == RemoveLastRequest(c)
<1>1. /\ d \in Record /\ DOMAIN d \subseteq DOMAIN c
      /\ \A i \in DOMAIN d : d[i] = c[i]
  BY RemoveFacts DEF Good
<1> HIDE DEF d
<1>2. Good(d, t)
  BY <1>1 DEF Good, InOrder
<1>3. QED
  BY <1>2 DEF d

(* A violation changes no time, unless it is the first entry.              *)
LEMMA NotifyFacts ==
  ASSUME NEW c \in Record, NEW t, c # << >>
  PROVE  LET d == NotifyViolation(c, t)
         IN  /\ d \in Record /\ Len(d) = Len(c) /\ DOMAIN d = DOMAIN c
             /\ \A i \in DOMAIN c : d[i].time = c[i].time
             /\ \A i \in DOMAIN c : i # Len(c) => d[i] = c[i]
<1> DEFINE e == [c[Len(c)] EXCEPT !.violation = TRUE]
           d == [c EXCEPT ![Len(c)] = e]
<1>1. /\ Len(c) \in Nat \ {0} /\ DOMAIN c = 1..Len(c) /\ Len(c) \in DOMAIN c
      /\ \A i \in DOMAIN c : c[i] \in Entry
  BY RecordFacts
<1>2. e \in Entry /\ e.time = c[Len(c)].time
  BY <1>1 DEF Entry
<1>3. NotifyViolation(c, t) = d
  BY DEF NotifyViolation
<1> HIDE DEF e
<1>4. /\ d \in Record /\ Len(d) = Len(c) /\ DOMAIN d = DOMAIN c
      /\ d[Len(c)] = e
      /\ \A i \in DOMAIN c : i # Len(c) => d[i] = c[i]
  BY <1>1, <1>2, ExceptSeq DEF Record
<1> HIDE DEF d
<1>5. \A i \in DOMAIN c : d[i].time = c[i].time
  BY <1>2, <1>4
<1>6. QED
  BY <1>3, <1>4, <1>5

LEMMA FirstViolation ==
  ASSUME NEW t \in Nat
  PROVE  /\ NotifyViolation(<< >>, t) = <<[time |-> t, violation |-> TRUE]>>
         /\ [time |-> t, violation |-> TRUE] \in Entry
         /\ [time |-> t, violation |-> TRUE].time = t
BY DEF NotifyViolation, Entry

LEMMA NotifyGood ==
  ASSUME NEW c, NEW t \in Nat, Good(c, t)
  PROVE  Good(NotifyViolation(c, t), t)
<1>1. CASE c = << >>
  <2> DEFINE e == [time |-> t, violation |-> TRUE]
  <2>1. NotifyViolation(c, t) = <<e>> /\ e \in Entry /\ e.time = t
    BY <1>1, FirstViolation
  <2> HIDE DEF e
  <2>2. Good(<<e>>, t)
    BY <2>1, OneEntryGood
  <2>3. QED
    BY <2>1, <2>2
<1>2. CASE c # << >>
  <2> DEFINE d == NotifyViolation(c, t)
  <2>1. /\ d \in Record /\ DOMAIN d = DOMAIN c
        /\ \A i \in DOMAIN c : d[i].time = c[i].time
    BY <1>2, NotifyFacts DEF Good
  <2> HIDE DEF d
  <2>2. Good(d, t)
    BY <2>1 DEF Good, InOrder
  <2>3. QED
    BY <2>2 DEF d
<1>3. QED
  BY <1>1, <1>2

LEMMA ClearGood ==
  ASSUME NEW c, NEW t \in Nat, Good(c, t)
  PROVE  Good(Clear(c, t), t)
<1>1. CASE c # << >> /\ t - Back(c).time < FreshTime
  <2>1. Back(c) \in Entry /\ Back(c).time <= t
    BY <1>1, BackFacts DEF Good
  <2>2. QED
    BY <1>1, <2>1, OneEntryGood DEF Clear
<1>2. CASE ~(c # << >> /\ t - Back(c).time < FreshTime)
  BY <1>2, EmptyGood DEF Clear
<1>3. QED
  BY <1>1, <1>2

(***************************************************************************)
(* Counting the entries whose times are in a set.                          *)
(***************************************************************************)

LEMMA IntervalSize ==
  ASSUME NEW a \in Int, NEW b \in Int
  PROVE  /\ IsFiniteSet(a..b)
         /\ a <= b + 1 => Cardinality(a..b) = b - a + 1
<1>1. IsFiniteSet(a..b) /\ Cardinality(a..b) = (IF a > b THEN 0 ELSE b - a + 1)
  BY FS_Interval
<1>2. QED
  BY <1>1

At(c, X) == {i \in DOMAIN c : c[i].time \in X}

Count(c, X) == Cardinality(At(c, X))

LEMMA CountFacts ==
  ASSUME NEW c \in Record, NEW X
  PROVE  /\ IsFiniteSet(At(c, X)) /\ Count(c, X) \in Nat
         /\ Count(c, X) = 0 <=> \A i \in DOMAIN c : c[i].time \notin X
         /\ Count(c, X) <= Len(c)
<1>1. Len(c) \in Nat /\ DOMAIN c = 1..Len(c)
  BY RecordFacts
<1>2. IsFiniteSet(1..Len(c)) /\ Cardinality(1..Len(c)) = Len(c)
  BY <1>1, IntervalSize
<1>3. At(c, X) \in SUBSET (1..Len(c))
  BY <1>1 DEF At
<1>4. IsFiniteSet(At(c, X)) /\ Cardinality(At(c, X)) <= Len(c)
  BY <1>2, <1>3, FS_Subset
<1>5. Cardinality(At(c, X)) \in Nat /\ (Cardinality(At(c, X)) = 0 <=> At(c, X) = {})
  BY <1>4, FS_CardinalityType, FS_EmptySet
<1>6. At(c, X) = {} <=> \A i \in DOMAIN c : c[i].time \notin X
  BY DEF At
<1>7. QED
  BY <1>4, <1>5, <1>6 DEF Count

LEMMA CountEmpty == \A X : Count(<< >>, X) = 0
<1>1. << >> \in Record /\ DOMAIN << >> = {}
  BY DEF Record
<1>2. QED
  BY <1>1, CountFacts

LEMMA CountAdd ==
  ASSUME NEW c \in Record, NEW t \in Nat, NEW X
  PROVE  Count(AddRequest(c, t), X) = Count(c, X) + (IF t \in X THEN 1 ELSE 0)
<1> DEFINE d == AddRequest(c, t)
<1>1. /\ d \in Record /\ Len(c) \in Nat
      /\ DOMAIN c = 1..Len(c) /\ DOMAIN d = 1 .. Len(c) + 1
      /\ d[Len(c) + 1].time = t
      /\ \A i \in DOMAIN c : d[i] = c[i]
  BY AddFacts, RecordFacts
<1> HIDE DEF d
<1>2. At(d, X) = IF t \in X THEN At(c, X) \cup {Len(c) + 1} ELSE At(c, X)
  BY <1>1 DEF At
<1>3. Len(c) + 1 \notin At(c, X)
  BY <1>1 DEF At
<1>4. IsFiniteSet(At(c, X)) /\ Cardinality(At(c, X)) \in Nat
  BY CountFacts DEF Count
<1>5. Cardinality(At(c, X) \cup {Len(c) + 1}) = Cardinality(At(c, X)) + 1
  BY <1>3, <1>4, FS_AddElement
<1>6. Cardinality(At(d, X)) = Cardinality(At(c, X)) + (IF t \in X THEN 1 ELSE 0)
  BY <1>2, <1>4, <1>5
<1>7. QED
  BY <1>6 DEF Count, d

LEMMA CountRemove ==
  ASSUME NEW c \in Record, c # << >>, NEW X
  PROVE  Count(RemoveLastRequest(c), X)
           = Count(c, X) - (IF Back(c).time \in X THEN 1 ELSE 0)
<1> DEFINE d == RemoveLastRequest(c)
<1>1. /\ d \in Record /\ Len(c) \in DOMAIN c
      /\ DOMAIN d = DOMAIN c \ {Len(c)}
      /\ \A i \in DOMAIN d : d[i] = c[i]
  BY RemoveFacts, BackFacts
<1> HIDE DEF d
<1>2. At(d, X) = At(c, X) \ {Len(c)} /\ (Len(c) \in At(c, X) <=> Back(c).time \in X)
  BY <1>1 DEF At, Back
<1>3. IsFiniteSet(At(c, X)) /\ Cardinality(At(c, X)) \in Nat
  BY CountFacts DEF Count
<1>4. Cardinality(At(d, X))
        = IF Len(c) \in At(c, X) THEN Cardinality(At(c, X)) - 1 ELSE Cardinality(At(c, X))
  BY <1>2, <1>3, FS_RemoveElement
<1>5. Cardinality(At(d, X)) = Cardinality(At(c, X)) - (IF Back(c).time \in X THEN 1 ELSE 0)
  BY <1>2, <1>3, <1>4
<1>6. QED
  BY <1>5 DEF Count, d

LEMMA CountNotify ==
  ASSUME NEW c \in Record, NEW t \in Nat, NEW X
  PROVE  /\ NotifyViolation(c, t) \in Record
         /\ Count(NotifyViolation(c, t), X) >= Count(c, X)
         /\ c # << >> => Count(NotifyViolation(c, t), X) = Count(c, X)
<1>1. CASE c = << >>
  <2>1. Count(c, X) = 0
    BY <1>1, CountEmpty
  <2>2. NotifyViolation(c, t) \in Record
    <3> DEFINE e == [time |-> t, violation |-> TRUE]
    <3>1. NotifyViolation(c, t) = <<e>> /\ e \in Entry
      BY <1>1, FirstViolation
    <3> HIDE DEF e
    <3>2. QED
      BY <3>1 DEF Record
  <2>3. QED
    BY <1>1, <2>1, <2>2, CountFacts
<1>2. CASE c # << >>
  <2> DEFINE d == NotifyViolation(c, t)
  <2>1. d \in Record /\ DOMAIN d = DOMAIN c /\ \A i \in DOMAIN c : d[i].time = c[i].time
    BY <1>2, NotifyFacts
  <2> HIDE DEF d
  <2>2. At(d, X) = At(c, X)
    BY <2>1 DEF At
  <2>3. Count(d, X) = Count(c, X) /\ Count(c, X) \in Nat
    BY <2>2, CountFacts DEF Count
  <2>4. QED
    BY <1>2, <2>1, <2>3 DEF d
<1>3. QED
  BY <1>1, <1>2

(* An entry at t is on record if one is counted.                           *)
LEMMA CountOne ==
  ASSUME NEW c \in Record, NEW t
  PROVE  Count(c, {t}) > 0 <=> \E i \in DOMAIN c : c[i].time = t
<1>1. Count(c, {t}) \in Nat /\ (Count(c, {t}) = 0 <=> \A i \in DOMAIN c : c[i].time \notin {t})
  BY CountFacts
<1>2. QED
  BY <1>1

(* Count is monotonic in the set.                                          *)
LEMMA CountSubset ==
  ASSUME NEW c \in Record, NEW X, NEW Y, X \subseteq Y
  PROVE  Count(c, X) <= Count(c, Y)
<1>1. At(c, X) \in SUBSET At(c, Y) /\ IsFiniteSet(At(c, Y))
  BY CountFacts DEF At
<1>2. QED
  BY <1>1, FS_Subset DEF Count

(***************************************************************************)
(* merge(): the entries keep their order, each gets a place of its own, and*)
(* no place is left over.                                                  *)
(***************************************************************************)

(* The entries of d that go before the i-th of c, and those of c that go   *)
(* before the j-th of d.                                                   *)
Before(c, d, i)    == {j \in DOMAIN d : d[j].time < c[i].time}
NotAfter(c, d, j)  == {i \in DOMAIN c : c[i].time <= d[j].time}

PlaceC(c, d, i) == i + Cardinality(Before(c, d, i))
PlaceD(c, d, j) == j + Cardinality(NotAfter(c, d, j))

(* The places of the entries of c at S and of those of d at T.             *)
Places(c, d, S, T) == {PlaceC(c, d, i) : i \in S} \cup {PlaceD(c, d, j) : j \in T}

LEMMA MergePlaces ==
  ASSUME NEW c, NEW d
  PROVE  Merge(c, d) = [k \in 1 .. Len(c) + Len(d) |->
           IF \E i \in DOMAIN c : PlaceC(c, d, i) = k
           THEN c[CHOOSE i \in DOMAIN c : PlaceC(c, d, i) = k]
           ELSE d[CHOOSE j \in DOMAIN d : PlaceD(c, d, j) = k]]
BY DEF Merge, PlaceC, PlaceD, Before, NotAfter

LEMMA PlaceTypes ==
  ASSUME NEW c \in Record, NEW d \in Record
  PROVE  /\ \A i \in DOMAIN c : /\ IsFiniteSet(Before(c, d, i))
                                /\ Cardinality(Before(c, d, i)) \in 0..Len(d)
                                /\ PlaceC(c, d, i) \in 1 .. Len(c) + Len(d)
         /\ \A j \in DOMAIN d : /\ IsFiniteSet(NotAfter(c, d, j))
                                /\ Cardinality(NotAfter(c, d, j)) \in 0..Len(c)
                                /\ PlaceD(c, d, j) \in 1 .. Len(c) + Len(d)
<1>1. Len(c) \in Nat /\ DOMAIN c = 1..Len(c) /\ Len(d) \in Nat /\ DOMAIN d = 1..Len(d)
  BY RecordFacts
<1>2. /\ IsFiniteSet(1..Len(c)) /\ Cardinality(1..Len(c)) = Len(c)
      /\ IsFiniteSet(1..Len(d)) /\ Cardinality(1..Len(d)) = Len(d)
  <2>1. \A n \in Nat : IsFiniteSet(1..n) /\ Cardinality(1..n) = n
    BY IntervalSize
  <2>2. QED
    BY <1>1, <2>1
<1>3. ASSUME NEW S \in SUBSET (1..Len(d))
      PROVE  IsFiniteSet(S) /\ Cardinality(S) \in 0..Len(d)
  <2>1. IsFiniteSet(S) /\ Cardinality(S) <= Len(d)
    BY <1>2, FS_Subset
  <2>2. QED
    BY <1>1, <2>1, FS_CardinalityType
<1>4. ASSUME NEW S \in SUBSET (1..Len(c))
      PROVE  IsFiniteSet(S) /\ Cardinality(S) \in 0..Len(c)
  <2>1. IsFiniteSet(S) /\ Cardinality(S) <= Len(c)
    BY <1>2, FS_Subset
  <2>2. QED
    BY <1>1, <2>1, FS_CardinalityType
<1>5. ASSUME NEW i \in DOMAIN c
      PROVE  /\ IsFiniteSet(Before(c, d, i))
             /\ Cardinality(Before(c, d, i)) \in 0..Len(d)
             /\ PlaceC(c, d, i) \in 1 .. Len(c) + Len(d)
  <2>1. Before(c, d, i) \in SUBSET (1..Len(d))
    BY <1>1 DEF Before
  <2>2. IsFiniteSet(Before(c, d, i)) /\ Cardinality(Before(c, d, i)) \in 0..Len(d)
    BY <1>3, <2>1
  <2>3. QED
    BY <1>1, <1>5, <2>2 DEF PlaceC
<1>6. ASSUME NEW j \in DOMAIN d
      PROVE  /\ IsFiniteSet(NotAfter(c, d, j))
             /\ Cardinality(NotAfter(c, d, j)) \in 0..Len(c)
             /\ PlaceD(c, d, j) \in 1 .. Len(c) + Len(d)
  <2>1. NotAfter(c, d, j) \in SUBSET (1..Len(c))
    BY <1>1 DEF NotAfter
  <2>2. IsFiniteSet(NotAfter(c, d, j)) /\ Cardinality(NotAfter(c, d, j)) \in 0..Len(c)
    BY <1>4, <2>1
  <2>3. QED
    BY <1>1, <1>6, <2>2 DEF PlaceD
<1>7. QED
  BY <1>5, <1>6

(* The entries of either record keep their order.                          *)
LEMMA PlacesIncrease ==
  ASSUME NEW c \in Record, NEW d \in Record, InOrder(c), InOrder(d)
  PROVE  /\ \A i, k \in DOMAIN c : i < k => PlaceC(c, d, i) < PlaceC(c, d, k)
         /\ \A j, k \in DOMAIN d : j < k => PlaceD(c, d, j) < PlaceD(c, d, k)
<1>1. /\ DOMAIN c = 1..Len(c) /\ Len(c) \in Nat /\ \A i \in DOMAIN c : c[i].time \in Nat
      /\ DOMAIN d = 1..Len(d) /\ Len(d) \in Nat /\ \A i \in DOMAIN d : d[i].time \in Nat
  BY RecordFacts
<1>2. ASSUME NEW i \in DOMAIN c, NEW k \in DOMAIN c, i < k
      PROVE  PlaceC(c, d, i) < PlaceC(c, d, k)
  <2>1. c[i].time <= c[k].time
    BY <1>1, <1>2 DEF InOrder
  <2>2. Before(c, d, i) \in SUBSET Before(c, d, k)
    BY <1>1, <2>1 DEF Before
  <2>3. Cardinality(Before(c, d, i)) <= Cardinality(Before(c, d, k))
    BY <2>2, PlaceTypes, FS_Subset
  <2>4. Cardinality(Before(c, d, i)) \in Nat /\ Cardinality(Before(c, d, k)) \in Nat
    BY <1>1, PlaceTypes
  <2>5. QED
    BY <1>1, <1>2, <2>3, <2>4 DEF PlaceC
<1>3. ASSUME NEW j \in DOMAIN d, NEW k \in DOMAIN d, j < k
      PROVE  PlaceD(c, d, j) < PlaceD(c, d, k)
  <2>1. d[j].time <= d[k].time
    BY <1>1, <1>3 DEF InOrder
  <2>2. NotAfter(c, d, j) \in SUBSET NotAfter(c, d, k)
    BY <1>1, <2>1 DEF NotAfter
  <2>3. Cardinality(NotAfter(c, d, j)) <= Cardinality(NotAfter(c, d, k))
    BY <2>2, PlaceTypes, FS_Subset
  <2>4. Cardinality(NotAfter(c, d, j)) \in Nat /\ Cardinality(NotAfter(c, d, k)) \in Nat
    BY <1>1, PlaceTypes
  <2>5. QED
    BY <1>1, <1>3, <2>3, <2>4 DEF PlaceD
<1>4. QED
  BY <1>2, <1>3

(* The earlier of two entries goes first; on a tie that of c.              *)
LEMMA PlacesByTime ==
  ASSUME NEW c \in Record, NEW d \in Record, InOrder(c), InOrder(d),
         NEW i \in DOMAIN c, NEW j \in DOMAIN d
  PROVE  /\ d[j].time < c[i].time => PlaceD(c, d, j) < PlaceC(c, d, i)
         /\ c[i].time <= d[j].time => PlaceC(c, d, i) < PlaceD(c, d, j)
<1>1. /\ DOMAIN c = 1..Len(c) /\ Len(c) \in Nat /\ \A k \in DOMAIN c : c[k].time \in Nat
      /\ DOMAIN d = 1..Len(d) /\ Len(d) \in Nat /\ \A k \in DOMAIN d : d[k].time \in Nat
  BY RecordFacts
<1>2. /\ IsFiniteSet(Before(c, d, i)) /\ Cardinality(Before(c, d, i)) \in Nat
      /\ IsFiniteSet(NotAfter(c, d, j)) /\ Cardinality(NotAfter(c, d, j)) \in Nat
  BY <1>1, PlaceTypes
<1>3. /\ IsFiniteSet(1..i) /\ Cardinality(1..i) = i
      /\ IsFiniteSet(1..j) /\ Cardinality(1..j) = j
      /\ IsFiniteSet(1 .. i - 1) /\ Cardinality(1 .. i - 1) = i - 1
      /\ IsFiniteSet(1 .. j - 1) /\ Cardinality(1 .. j - 1) = j - 1
  <2>1. i \in Int /\ j \in Int /\ i - 1 \in Int /\ j - 1 \in Int /\ 1 <= i /\ 1 <= j
    BY <1>1
  <2>2. QED
    BY <2>1, IntervalSize
<1>4. CASE d[j].time < c[i].time
  <2>1. 1..j \in SUBSET Before(c, d, i)
    <3> SUFFICES ASSUME NEW k \in 1..j PROVE k \in DOMAIN d /\ d[k].time < c[i].time
      BY DEF Before
    <3>1. k \in DOMAIN d /\ k <= j
      BY <1>1
    <3>2. d[k].time <= d[j].time
      BY <3>1 DEF InOrder
    <3>3. QED
      BY <1>1, <1>4, <3>1, <3>2
  <2>2. NotAfter(c, d, j) \in SUBSET (1 .. i - 1)
    <3> SUFFICES ASSUME NEW k \in DOMAIN c, c[k].time <= d[j].time PROVE k \in 1 .. i - 1
      BY DEF NotAfter
    <3>1. i <= k => c[i].time <= c[k].time
      BY DEF InOrder
    <3>2. QED
      BY <1>1, <1>4, <3>1
  <2>3. j <= Cardinality(Before(c, d, i))
    <3>1. Cardinality(1..j) <= Cardinality(Before(c, d, i))
      BY <1>2, <2>1, FS_Subset
    <3>2. QED
      BY <1>3, <3>1
  <2>4. Cardinality(NotAfter(c, d, j)) <= i - 1
    <3>1. Cardinality(NotAfter(c, d, j)) <= Cardinality(1 .. i - 1)
      BY <1>3, <2>2, FS_Subset
    <3>2. QED
      BY <1>3, <3>1
  <2>5. QED
    BY <1>1, <1>2, <1>4, <2>3, <2>4 DEF PlaceC, PlaceD
<1>5. CASE c[i].time <= d[j].time
  <2>1. 1..i \in SUBSET NotAfter(c, d, j)
    <3> SUFFICES ASSUME NEW k \in 1..i PROVE k \in DOMAIN c /\ c[k].time <= d[j].time
      BY DEF NotAfter
    <3>1. k \in DOMAIN c /\ k <= i
      BY <1>1
    <3>2. c[k].time <= c[i].time
      BY <3>1 DEF InOrder
    <3>3. QED
      BY <1>1, <1>5, <3>1, <3>2
  <2>2. Before(c, d, i) \in SUBSET (1 .. j - 1)
    <3> SUFFICES ASSUME NEW k \in DOMAIN d, d[k].time < c[i].time PROVE k \in 1 .. j - 1
      BY DEF Before
    <3>1. j <= k => d[j].time <= d[k].time
      BY DEF InOrder
    <3>2. QED
      BY <1>1, <1>5, <3>1
  <2>3. i <= Cardinality(NotAfter(c, d, j))
    <3>1. Cardinality(1..i) <= Cardinality(NotAfter(c, d, j))
      BY <1>2, <2>1, FS_Subset
    <3>2. QED
      BY <1>3, <3>1
  <2>4. Cardinality(Before(c, d, i)) <= j - 1
    <3>1. Cardinality(Before(c, d, i)) <= Cardinality(1 .. j - 1)
      BY <1>3, <2>2, FS_Subset
    <3>2. QED
      BY <1>3, <3>1
  <2>5. QED
    BY <1>1, <1>2, <1>5, <2>3, <2>4 DEF PlaceC, PlaceD
<1>6. QED
  BY <1>1, <1>4, <1>5

LEMMA InjectiveImage ==
  ASSUME NEW S, IsFiniteSet(S), NEW f, \A x, y \in S : f[x] = f[y] => x = y
  PROVE  /\ IsFiniteSet({f[x] : x \in S})
         /\ Cardinality({f[x] : x \in S}) = Cardinality(S)
<1> DEFINE T == {f[x] : x \in S}
           g == [x \in S |-> f[x]]
<1>1. g \in Bijection(S, T)
  <2>1. g \in [S -> T] /\ \A t \in T : \E x \in S : g[x] = t
    OBVIOUS
  <2>2. \A x, y \in S : g[x] = g[y] => x = y
    OBVIOUS
  <2>3. DOMAIN g = S
    OBVIOUS
  <2> HIDE DEF g, T
  <2>4. QED
    BY <2>1, <2>2, <2>3 DEF Bijection, Injection, Surjection, IsInjective
<1>2. ExistsBijection(S, T)
  BY <1>1, Zenon DEF ExistsBijection
<1> HIDE DEF T
<1>3. IsFiniteSet(T) /\ Cardinality(T) = Cardinality(S)
  BY <1>2, FS_Bijection
<1>4. QED
  BY <1>3 DEF T

(* How many places the entries of c and of d at some times take.           *)
LEMMA PlacesTaken ==
  ASSUME NEW c \in Record, NEW d \in Record, InOrder(c), InOrder(d),
         NEW S \in SUBSET DOMAIN c, NEW T \in SUBSET DOMAIN d
  PROVE  /\ IsFiniteSet(S) /\ IsFiniteSet(T)
         /\ IsFiniteSet(Places(c, d, S, T))
         /\ Cardinality(Places(c, d, S, T)) = Cardinality(S) + Cardinality(T)
<1> DEFINE f == [i \in DOMAIN c |-> PlaceC(c, d, i)]
           g == [j \in DOMAIN d |-> PlaceD(c, d, j)]
           P == {f[i] : i \in S}
           Q == {g[j] : j \in T}
<1>1. /\ DOMAIN c = 1..Len(c) /\ Len(c) \in Nat /\ \A k \in DOMAIN c : c[k].time \in Nat
      /\ DOMAIN d = 1..Len(d) /\ Len(d) \in Nat /\ \A k \in DOMAIN d : d[k].time \in Nat
  BY RecordFacts
<1>2. IsFiniteSet(S) /\ IsFiniteSet(T)
  <2>1. \A n \in Nat : IsFiniteSet(1..n)
    BY IntervalSize
  <2>2. IsFiniteSet(DOMAIN c) /\ IsFiniteSet(DOMAIN d)
    BY <1>1, <2>1
  <2>3. QED
    BY <2>2, FS_Subset
<1>3. \A i \in DOMAIN c : PlaceC(c, d, i) \in Nat
  BY <1>1, PlaceTypes
<1>4. \A j \in DOMAIN d : PlaceD(c, d, j) \in Nat
  BY <1>1, PlaceTypes
<1>5. \A x, y \in S : f[x] = f[y] => x = y
  BY <1>1, <1>3, PlacesIncrease
<1>6. \A x, y \in T : g[x] = g[y] => x = y
  BY <1>1, <1>4, PlacesIncrease
<1>7. IsFiniteSet(P) /\ Cardinality(P) = Cardinality(S)
  <2> HIDE DEF f
  <2>1. QED
    BY <1>2, <1>5, InjectiveImage
<1>8. IsFiniteSet(Q) /\ Cardinality(Q) = Cardinality(T)
  <2> HIDE DEF g
  <2>1. QED
    BY <1>2, <1>6, InjectiveImage
<1>9. P \cap Q = {}
  <2> SUFFICES ASSUME NEW i \in S, NEW j \in T, f[i] = g[j] PROVE FALSE
    OBVIOUS
  <2>1. i \in DOMAIN c /\ j \in DOMAIN d /\ PlaceC(c, d, i) = PlaceD(c, d, j)
    OBVIOUS
  <2>2. QED
    BY <1>1, <1>3, <1>4, <2>1, PlacesByTime
<1>10. P \cup Q = Places(c, d, S, T)
  BY DEF Places
<1> HIDE DEF P, Q
<1>11. IsFiniteSet(P \cup Q)
       /\ Cardinality(P \cup Q) = Cardinality(P) + Cardinality(Q) - Cardinality(P \cap Q)
  BY <1>7, <1>8, FS_Union
<1>12. Cardinality(P \cap Q) = 0 /\ Cardinality(P) \in Nat /\ Cardinality(Q) \in Nat
  BY <1>7, <1>8, <1>9, FS_EmptySet, FS_CardinalityType
<1>13. Cardinality(P \cup Q) = Cardinality(S) + Cardinality(T)
  BY <1>7, <1>8, <1>11, <1>12
<1>14. QED
  BY <1>2, <1>10, <1>11, <1>13

(* No place is left over.                                                  *)
LEMMA PlacesCover ==
  ASSUME NEW c \in Record, NEW d \in Record, InOrder(c), InOrder(d)
  PROVE  \A k \in 1 .. Len(c) + Len(d) :
           \/ \E i \in DOMAIN c : k = PlaceC(c, d, i)
           \/ \E j \in DOMAIN d : k = PlaceD(c, d, j)
<1> DEFINE P == Places(c, d, DOMAIN c, DOMAIN d)
<1>1. DOMAIN c = 1..Len(c) /\ Len(c) \in Nat /\ DOMAIN d = 1..Len(d) /\ Len(d) \in Nat
  BY RecordFacts
<1>2. IsFiniteSet(P) /\ Cardinality(P) = Cardinality(DOMAIN c) + Cardinality(DOMAIN d)
  <2>1. DOMAIN c \in SUBSET DOMAIN c /\ DOMAIN d \in SUBSET DOMAIN d
    OBVIOUS
  <2>2. QED
    BY <2>1, PlacesTaken
<1>3. P \in SUBSET (1 .. Len(c) + Len(d))
  BY PlaceTypes DEF Places
<1> HIDE DEF P
<1>4. \A n \in Nat : IsFiniteSet(1..n) /\ Cardinality(1..n) = n
  BY IntervalSize
<1>5. Cardinality(P) = Len(c) + Len(d)
  BY <1>1, <1>2, <1>4
<1>6. Len(c) + Len(d) \in Nat
  BY <1>1
<1>7. P = 1 .. Len(c) + Len(d)
  BY <1>3, <1>4, <1>5, <1>6, FS_Subset
<1>8. QED
  BY <1>7 DEF P, Places

(* Each entry is at its place.                                             *)
LEMMA MergeFacts ==
  ASSUME NEW c \in Record, NEW d \in Record, InOrder(c), InOrder(d)
  PROVE  LET m == Merge(c, d)
         IN  /\ m \in Record /\ Len(m) = Len(c) + Len(d) /\ DOMAIN m = 1 .. Len(c) + Len(d)
             /\ \A i \in DOMAIN c : m[PlaceC(c, d, i)] = c[i]
             /\ \A j \in DOMAIN d : m[PlaceD(c, d, j)] = d[j]
<1> DEFINE m == Merge(c, d)
<1>1. /\ DOMAIN c = 1..Len(c) /\ Len(c) \in Nat
      /\ \A i \in DOMAIN c : c[i] \in Entry /\ c[i].time \in Nat
      /\ DOMAIN d = 1..Len(d) /\ Len(d) \in Nat
      /\ \A j \in DOMAIN d : d[j] \in Entry /\ d[j].time \in Nat
  BY RecordFacts
<1>2. /\ \A i \in DOMAIN c : PlaceC(c, d, i) \in 1 .. Len(c) + Len(d)
      /\ \A j \in DOMAIN d : PlaceD(c, d, j) \in 1 .. Len(c) + Len(d)
  BY PlaceTypes
<1>3. \A i, k \in DOMAIN c : PlaceC(c, d, i) = PlaceC(c, d, k) => i = k
  BY <1>1, <1>2, PlacesIncrease
<1>4. \A j, k \in DOMAIN d : PlaceD(c, d, j) = PlaceD(c, d, k) => j = k
  BY <1>1, <1>2, PlacesIncrease
<1>5. \A i \in DOMAIN c : \A j \in DOMAIN d : PlaceC(c, d, i) # PlaceD(c, d, j)
  BY <1>1, <1>2, PlacesByTime
<1>6. \A k \in 1 .. Len(c) + Len(d) :
        m[k] = IF \E i \in DOMAIN c : PlaceC(c, d, i) = k
               THEN c[CHOOSE i \in DOMAIN c : PlaceC(c, d, i) = k]
               ELSE d[CHOOSE j \in DOMAIN d : PlaceD(c, d, j) = k]
  BY MergePlaces
<1>7. m = [k \in 1 .. Len(c) + Len(d) |-> m[k]]
  BY MergePlaces
<1> HIDE DEF m
<1>8. ASSUME NEW i \in DOMAIN c PROVE m[PlaceC(c, d, i)] = c[i]
  <2> DEFINE h == CHOOSE h \in DOMAIN c : PlaceC(c, d, h) = PlaceC(c, d, i)
  <2>1. h \in DOMAIN c /\ PlaceC(c, d, h) = PlaceC(c, d, i)
    OBVIOUS
  <2>2. h = i
    BY <1>3, <2>1
  <2>3. m[PlaceC(c, d, i)] = c[h]
    BY <1>2, <1>6
  <2>4. QED
    BY <2>2, <2>3
<1>9. ASSUME NEW j \in DOMAIN d PROVE m[PlaceD(c, d, j)] = d[j]
  <2> DEFINE h == CHOOSE h \in DOMAIN d : PlaceD(c, d, h) = PlaceD(c, d, j)
  <2>1. h \in DOMAIN d /\ PlaceD(c, d, h) = PlaceD(c, d, j)
    OBVIOUS
  <2>2. h = j
    BY <1>4, <2>1
  <2>3. m[PlaceD(c, d, j)] = d[h]
    BY <1>2, <1>5, <1>6
  <2>4. QED
    BY <2>2, <2>3
<1>10. \A k \in 1 .. Len(c) + Len(d) : m[k] \in Entry
  <2>1. \A k \in 1 .. Len(c) + Len(d) :
           \/ \E i \in DOMAIN c : k = PlaceC(c, d, i)
           \/ \E j \in DOMAIN d : k = PlaceD(c, d, j)
    BY PlacesCover
  <2>2. QED
    BY <1>1, <1>8, <1>9, <2>1
<1>11. m \in Record /\ Len(m) = Len(c) + Len(d) /\ DOMAIN m = 1 .. Len(c) + Len(d)
  <2>1. Len(c) + Len(d) \in Nat
    BY <1>1
  <2>2. m \in [1 .. Len(c) + Len(d) -> Entry]
    BY <1>7, <1>10, Zenon
  <2>3. QED
    BY <2>1, <2>2, SeqDef DEF Record
<1>12. QED
  BY <1>8, <1>9, <1>11 DEF m

(* What is merged is in order again.                                       *)
LEMMA MergeGood ==
  ASSUME NEW c, NEW d, NEW t, Good(c, t), Good(d, t)
  PROVE  Good(Merge(c, d), t)
<1> DEFINE m == Merge(c, d)
<1>1. c \in Record /\ d \in Record /\ InOrder(c) /\ InOrder(d)
  BY DEF Good
<1>2. /\ DOMAIN c = 1..Len(c) /\ \A i \in DOMAIN c : c[i].time \in Nat
      /\ DOMAIN d = 1..Len(d) /\ \A j \in DOMAIN d : d[j].time \in Nat
      /\ Len(c) \in Nat /\ Len(d) \in Nat
  BY <1>1, RecordFacts
<1>3. /\ m \in Record /\ DOMAIN m = 1 .. Len(c) + Len(d)
      /\ \A i \in DOMAIN c : m[PlaceC(c, d, i)] = c[i]
      /\ \A j \in DOMAIN d : m[PlaceD(c, d, j)] = d[j]
  BY <1>1, MergeFacts
<1>4. \A k \in DOMAIN m :
        \/ \E i \in DOMAIN c : k = PlaceC(c, d, i)
        \/ \E j \in DOMAIN d : k = PlaceD(c, d, j)
  BY <1>1, <1>3, PlacesCover
<1>5. /\ \A i \in DOMAIN c : PlaceC(c, d, i) \in 1 .. Len(c) + Len(d)
      /\ \A j \in DOMAIN d : PlaceD(c, d, j) \in 1 .. Len(c) + Len(d)
  BY <1>1, PlaceTypes
<1> HIDE DEF m
<1>6. \A k \in DOMAIN m : m[k].time <= t
  BY <1>3, <1>4 DEF Good
<1>7. InOrder(m)
  <2> SUFFICES ASSUME NEW k \in DOMAIN m, NEW l \in DOMAIN m, k <= l
               PROVE  m[k].time <= m[l].time
    BY DEF InOrder
  <2>1. ASSUME NEW i \in DOMAIN c, NEW j \in DOMAIN c,
               PlaceC(c, d, i) <= PlaceC(c, d, j)
        PROVE  c[i].time <= c[j].time
    <3>1. i <= j
      BY <1>1, <1>2, <1>5, <2>1, PlacesIncrease
    <3>2. QED
      BY <1>1, <3>1 DEF InOrder
  <2>2. ASSUME NEW i \in DOMAIN d, NEW j \in DOMAIN d,
               PlaceD(c, d, i) <= PlaceD(c, d, j)
        PROVE  d[i].time <= d[j].time
    <3>1. i <= j
      BY <1>1, <1>2, <1>5, <2>2, PlacesIncrease
    <3>2. QED
      BY <1>1, <3>1 DEF InOrder
  <2>3. ASSUME NEW i \in DOMAIN c, NEW j \in DOMAIN d
        PROVE  /\ PlaceC(c, d, i) <= PlaceD(c, d, j) => c[i].time <= d[j].time
               /\ PlaceD(c, d, j) <= PlaceC(c, d, i) => d[j].time <= c[i].time
    <3>1. /\ d[j].time < c[i].time => PlaceD(c, d, j) < PlaceC(c, d, i)
          /\ c[i].time <= d[j].time => PlaceC(c, d, i) < PlaceD(c, d, j)
      BY <1>1, PlacesByTime
    <3>2. PlaceC(c, d, i) \in Nat /\ PlaceD(c, d, j) \in Nat
      BY <1>2, <1>5
    <3>3. c[i].time \in Nat /\ d[j].time \in Nat
      BY <1>2
    <3>4. QED
      BY <3>1, <3>2, <3>3
  <2>4. QED
    BY <1>3, <1>4, <2>1, <2>2, <2>3
<1>8. QED
  BY <1>3, <1>6, <1>7 DEF Good, m

(* Merging loses no entry and makes up none.                               *)
LEMMA CountMerge ==
  ASSUME NEW c \in Record, NEW d \in Record, InOrder(c), InOrder(d), NEW X
  PROVE  Count(Merge(c, d), X) = Count(c, X) + Count(d, X)
<1> DEFINE m == Merge(c, d)
           P == Places(c, d, At(c, X), At(d, X))
<1>1. /\ DOMAIN m = 1 .. Len(c) + Len(d)
      /\ \A i \in DOMAIN c : m[PlaceC(c, d, i)] = c[i]
      /\ \A j \in DOMAIN d : m[PlaceD(c, d, j)] = d[j]
  BY MergeFacts
<1>2. \A k \in DOMAIN m :
        \/ \E i \in DOMAIN c : k = PlaceC(c, d, i)
        \/ \E j \in DOMAIN d : k = PlaceD(c, d, j)
  BY <1>1, PlacesCover
<1>3. /\ \A i \in DOMAIN c : PlaceC(c, d, i) \in DOMAIN m
      /\ \A j \in DOMAIN d : PlaceD(c, d, j) \in DOMAIN m
  BY <1>1, PlaceTypes
<1> HIDE DEF m
<1>4. At(m, X) = P
  BY <1>1, <1>2, <1>3 DEF At, Places
<1>5. At(c, X) \in SUBSET DOMAIN c /\ At(d, X) \in SUBSET DOMAIN d
  BY DEF At
<1>6. Cardinality(P) = Cardinality(At(c, X)) + Cardinality(At(d, X))
  BY <1>5, PlacesTaken
<1>7. QED
  BY <1>4, <1>6 DEF Count, m

(***************************************************************************)
(* What goodTime() and countLeft() say of a record.                        *)
(***************************************************************************)

(* All three waits are over when goodTime() is.                            *)
LEMMA GoodTimeBoundsWaits ==
  ASSUME NEW c \in Record, c # << >>, NEW t \in Nat, GoodTime(c, t) <= 0
  PROVE  /\ Back(c).time + MinPacingTime <= t
         /\ Back(c).violation => Back(c).time + ViolationPause <= t
         /\ Len(c) >= MaxRequests
              => c[Len(c) - MaxRequests + 1].time + CheckInterval <= t
<1>1. Len(c) \in DOMAIN c
  BY DEF Record
<1>2. Back(c) \in Entry
  BY <1>1 DEF Back, Record
<1>3. Len(c) >= MaxRequests => Len(c) - MaxRequests + 1 \in DOMAIN c
  BY <1>1, PacingAssumption DEF Record
<1>4. Len(c) >= MaxRequests => c[Len(c) - MaxRequests + 1] \in Entry
  BY <1>3 DEF Record
<1>5. WaitMin(c, t) \in Int /\ WaitViolation(c, t) \in Int /\ WaitBurst(c, t) \in Int
  BY <1>2, <1>4, PacingAssumption DEF WaitMin, WaitViolation, WaitBurst, Entry, IntMin
<1>6. WaitMin(c, t) <= 0 /\ WaitViolation(c, t) <= 0 /\ WaitBurst(c, t) <= 0
  BY <1>5 DEF GoodTime, Longer, IntMin
<1>7. QED
  BY <1>2, <1>4, <1>6, PacingAssumption DEF WaitMin, WaitViolation, WaitBurst, Entry, IntMin

LEMMA GoodTimeType ==
  ASSUME NEW c \in Record, NEW t \in Nat
  PROVE  GoodTime(c, t) \in Int
<1>1. CASE c = << >>
  BY <1>1 DEF GoodTime, IntMin
<1>2. CASE c # << >>
  <2>1. /\ Len(c) \in Nat /\ DOMAIN c = 1..Len(c) /\ Back(c) \in Entry
        /\ \A i \in DOMAIN c : c[i].time \in Nat
    BY <1>2, BackFacts, RecordFacts
  <2>2. WaitMin(c, t) \in Int /\ WaitViolation(c, t) \in Int
    BY <2>1, PacingAssumption DEF WaitMin, WaitViolation, Entry, IntMin
  <2>3. WaitBurst(c, t) \in Int
    BY <2>1, PacingAssumption DEF WaitBurst, IntMin
  <2>4. QED
    BY <1>2, <2>2, <2>3 DEF GoodTime, Longer
<1>3. QED
  BY <1>1, <1>2

LEMMA NonEmptyFacts ==
  ASSUME NEW c, NEW t \in Nat, Good(c, t), c # << >>
  PROVE  /\ c \in Seq(Entry) /\ Len(c) \in Nat \ {0} /\ DOMAIN c = 1..Len(c)
         /\ \A i \in DOMAIN c : c[i] \in Entry
         /\ \A i \in DOMAIN c : c[i].time \in Nat
<1>1. c \in Seq(Entry)
  BY DEF Good, Record
<1>2. Len(c) \in Nat \ {0} /\ DOMAIN c = 1..Len(c)
  BY <1>1, EmptySeq
<1>3. \A i \in DOMAIN c : c[i] \in Entry
  BY <1>1, <1>2
<1>4. \A i \in DOMAIN c : c[i].time \in Nat
  BY <1>3 DEF Entry
<1>5. QED
  BY <1>1, <1>2, <1>3, <1>4

(* countLeft() is positive exactly when neither the budget nor a violation *)
(* asks to wait.  That the entries are in order matters here: countLeft()  *)
(* stops at the first old one, goodTime() looks at the one that opened the *)
(* interval.                                                               *)
LEMMA CountLeftIsBudget ==
  ASSUME NEW c, NEW t \in Nat, Good(c, t), c # << >>
  PROVE  CountLeft(c, t) > 0 <=> WaitViolation(c, t) <= 0 /\ WaitBurst(c, t) <= 0
<1>1. /\ c \in Seq(Entry) /\ Len(c) \in Nat \ {0} /\ DOMAIN c = 1..Len(c)
      /\ \A i \in DOMAIN c : c[i] \in Entry
      /\ \A i \in DOMAIN c : c[i].time \in Nat
  BY NonEmptyFacts
<1>2. WaitViolation(c, t) \in Int
  BY <1>1, PacingAssumption DEF WaitViolation, Back, Entry, IntMin
<1> DEFINE R == Recent(c, t)
           m == Len(c) - MaxRequests + 1
<1>0. 1..Len(c) \in SUBSET (1..Len(c)) /\ IsFiniteSet(1..Len(c)) /\ Cardinality(1..Len(c)) = Len(c)
  BY <1>1, IntervalSize
<1>3. R \subseteq 1..Len(c) /\ IsFiniteSet(R) /\ Cardinality(R) \in Nat
  <2>1. R \subseteq 1..Len(c)
    BY <1>1 DEF Recent
  <2> HIDE DEF R
  <2>2. IsFiniteSet(R)
    BY <2>1, <1>0, FS_Subset
  <2>3. QED
    BY <2>1, <2>2, FS_CardinalityType
<1>4. CASE Len(c) < MaxRequests
  <2>1. Cardinality(R) <= Len(c)
    <3> HIDE DEF R
    <3>1. QED
      BY <1>0, <1>3, FS_Subset
  <2>2. WaitBurst(c, t) <= 0
    BY <1>1, <1>4, PacingAssumption DEF WaitBurst, IntMin
  <2>3. QED
    BY <1>1, <1>2, <1>3, <1>4, <2>1, <2>2, PacingAssumption DEF CountLeft
<1>5. CASE Len(c) >= MaxRequests
  <2>1. m \in DOMAIN c /\ WaitBurst(c, t) = c[m].time + CheckInterval - t
    BY <1>1, <1>5, PacingAssumption DEF WaitBurst
  <2>2. CASE WaitBurst(c, t) <= 0
    <3>1. \A i \in R : i > m
      <4> SUFFICES ASSUME NEW i \in R, i <= m PROVE FALSE
        BY <1>1, <1>3, PacingAssumption
      <4>1. m \in i..Len(c)
        BY <1>1, <1>3, <2>1, PacingAssumption
      <4>2. c[m].time + CheckInterval - t > 0
        BY <4>1 DEF Recent
      <4>3. c[m].time \in Nat
        BY <1>1, <2>1
      <4>4. QED
        BY <2>1, <2>2, <4>2, <4>3, PacingAssumption
    <3>2. R \subseteq m + 1 .. Len(c)
      BY <1>1, <1>3, <2>1, <3>1
    <3>3. IsFiniteSet(m + 1 .. Len(c)) /\ Cardinality(m + 1 .. Len(c)) = MaxRequests - 1
      <4>1. Cardinality(m + 1 .. Len(c)) = Len(c) - (m + 1) + 1
        BY <1>1, <2>1, PacingAssumption, IntervalSize
      <4>2. QED
        BY <4>1, <1>1, <2>1, PacingAssumption, IntervalSize
    <3>4. Cardinality(R) <= MaxRequests - 1
      <4> HIDE DEF R, m
      <4>1. QED
        BY <3>2, <3>3, FS_Subset
    <3>5. QED
      BY <1>1, <1>2, <1>3, <2>2, <3>4, PacingAssumption DEF CountLeft
  <2>3. CASE WaitBurst(c, t) > 0
    <3>1. \A j \in m..Len(c) : c[j].time >= c[m].time
      BY <1>1, <2>1 DEF Good, InOrder
    <3>2. m..Len(c) \subseteq R
      <4> SUFFICES ASSUME NEW k \in m..Len(c), NEW j \in k..Len(c)
                   PROVE  k \in DOMAIN c /\ c[j].time + CheckInterval - t > 0
        BY DEF Recent
      <4>1. k \in DOMAIN c /\ j \in DOMAIN c /\ j \in m..Len(c)
        BY <1>1, <2>1, PacingAssumption
      <4>2. c[j].time \in Nat /\ c[m].time \in Nat /\ c[j].time >= c[m].time
        BY <1>1, <2>1, <3>1, <4>1
      <4>3. QED
        BY <2>1, <2>3, <4>1, <4>2, PacingAssumption
    <3>3. Cardinality(m..Len(c)) = MaxRequests
      <4>1. Cardinality(m..Len(c)) = Len(c) - m + 1
        BY <1>1, <2>1, PacingAssumption, IntervalSize
      <4>2. QED
        BY <4>1, <1>1, <2>1, PacingAssumption
    <3>4. Cardinality(m..Len(c)) <= Cardinality(R)
      <4> HIDE DEF R, m
      <4>1. QED
        BY <1>3, <3>2, FS_Subset
    <3>5. MaxRequests <= Cardinality(R)
      <4> HIDE DEF R, m
      <4>1. QED
        BY <3>3, <3>4
    <3>6. CountLeft(c, t) <= 0
      BY <1>2, <1>3, <3>5, PacingAssumption DEF CountLeft
    <3>7. CountLeft(c, t) \in Int
      BY <1>2, <1>3, PacingAssumption DEF CountLeft
    <3>8. WaitBurst(c, t) \in Int
      BY <1>1, <2>1, PacingAssumption
    <3>9. QED
      BY <2>3, <3>6, <3>7, <3>8
  <2>4. WaitBurst(c, t) \in Int
    BY <1>1, <2>1, PacingAssumption
  <2>5. QED
    BY <2>2, <2>3, <2>4
<1>6. QED
  BY <1>1, <1>4, <1>5, PacingAssumption

(* The two agree: when goodTime() lets a request go, countLeft() is        *)
(* positive, and then goodTime() asks for minPacingTime at most.           *)
LEMMA WaitsAgree ==
  ASSUME NEW c, NEW t \in Nat, Good(c, t)
  PROVE  /\ GoodTime(c, t) <= 0 => CountLeft(c, t) > 0
         /\ CountLeft(c, t) > 0 => GoodTime(c, t) <= MinPacingTime
<1>1. CASE c = << >>
  <2>1. Recent(c, t) = {}
    BY <1>1 DEF Recent
  <2>2. CountLeft(c, t) = MaxRequests
    BY <1>1, <2>1, FS_EmptySet, PacingAssumption DEF CountLeft
  <2>3. GoodTime(c, t) = IntMin
    BY <1>1 DEF GoodTime
  <2>4. QED
    BY <2>2, <2>3, PacingAssumption DEF IntMin
<1>2. CASE c # << >>
  <2>1. /\ c \in Record /\ Len(c) \in Nat \ {0} /\ DOMAIN c = 1..Len(c)
        /\ \A i \in DOMAIN c : c[i] \in Entry /\ c[i].time \in Nat
        /\ \A i \in DOMAIN c : c[i].time <= t
    BY <1>2, NonEmptyFacts DEF Good, Record
  <2>2. /\ WaitMin(c, t) \in Int /\ WaitMin(c, t) <= MinPacingTime
        /\ WaitViolation(c, t) \in Int
        /\ WaitBurst(c, t) \in Int
    BY <2>1, PacingAssumption
       DEF WaitMin, WaitViolation, WaitBurst, Back, Entry, IntMin
  <2>3. CountLeft(c, t) > 0 <=> WaitViolation(c, t) <= 0 /\ WaitBurst(c, t) <= 0
    BY <1>2, CountLeftIsBudget
  <2>4. GoodTime(c, t) = Longer(Longer(WaitMin(c, t), WaitViolation(c, t)), WaitBurst(c, t))
    BY <1>2 DEF GoodTime
  <2>5. QED
    BY <2>2, <2>3, <2>4, PacingAssumption DEF Longer
<1>3. QED
  BY <1>1, <1>2

(* The times that count for the budget at t.                               *)
Young(t) == {x \in Nat : x + CheckInterval > t}

(* A record that goodTime() lets a request go by has room for it.          *)
LEMMA RoomLeft ==
  ASSUME NEW c, NEW t \in Nat, Good(c, t), GoodTime(c, t) <= 0
  PROVE  Count(c, Young(t)) < MaxRequests
<1>1. CASE c = << >>
  BY <1>1, CountEmpty, PacingAssumption
<1>2. CASE c # << >>
  <2> DEFINE A == At(c, Young(t))
             m == Len(c) - MaxRequests + 1
  <2>1. /\ c \in Record /\ Len(c) \in Nat \ {0} /\ DOMAIN c = 1..Len(c)
        /\ \A i \in DOMAIN c : c[i].time \in Nat
    BY <1>2, NonEmptyFacts DEF Record
  <2>2. CASE Len(c) < MaxRequests
    <3>1. Count(c, Young(t)) <= Len(c) /\ Count(c, Young(t)) \in Nat
      BY <2>1, CountFacts
    <3>2. QED
      BY <2>1, <2>2, <3>1, PacingAssumption
  <2>3. CASE Len(c) >= MaxRequests
    <3>1. m \in DOMAIN c /\ c[m].time + CheckInterval <= t
      BY <1>2, <2>1, <2>3, GoodTimeBoundsWaits, PacingAssumption
    <3>2. A \in SUBSET (m + 1 .. Len(c))
      <4> SUFFICES ASSUME NEW i \in DOMAIN c, c[i].time + CheckInterval > t
                   PROVE  i \in m + 1 .. Len(c)
        BY DEF At, Young
      <4>1. i <= m => c[i].time <= c[m].time
        BY <3>1 DEF Good, InOrder
      <4>2. QED
        BY <2>1, <3>1, <4>1, PacingAssumption
    <3>3. IsFiniteSet(m + 1 .. Len(c)) /\ Cardinality(m + 1 .. Len(c)) = MaxRequests - 1
      <4>1. m + 1 \in Int /\ Len(c) \in Int /\ m + 1 <= Len(c) + 1
        BY <2>1, PacingAssumption
      <4>2. IsFiniteSet(m + 1 .. Len(c)) /\ Cardinality(m + 1 .. Len(c)) = Len(c) - (m + 1) + 1
        BY <4>1, IntervalSize
      <4>3. QED
        BY <4>2, <2>1, PacingAssumption
    <3> HIDE DEF A, m
    <3>4. Cardinality(A) <= Cardinality(m + 1 .. Len(c))
      BY <3>2, <3>3, FS_Subset
    <3>5. Cardinality(A) \in Nat
      BY <2>1, CountFacts DEF A, Count
    <3>6. QED
      BY <3>3, <3>4, <3>5, PacingAssumption DEF A, Count
  <2>4. QED
    BY <2>1, <2>2, <2>3, PacingAssumption
<1>3. QED
  BY <1>1, <1>2

(***************************************************************************)
(* What keeps a record within the budget.                                  *)
(***************************************************************************)

LEMMA EmptyWithinBurst == WithinBurst(<< >>)
BY DEF WithinBurst

LEMMA RemoveWithinBurst ==
  ASSUME NEW c \in Record, WithinBurst(c)
  PROVE  WithinBurst(RemoveLastRequest(c))
<1> DEFINE d == RemoveLastRequest(c)
<1>1. DOMAIN d \subseteq DOMAIN c /\ \A i \in DOMAIN d : d[i] = c[i]
  BY RemoveFacts
<1> HIDE DEF d
<1>2. WithinBurst(d)
  BY <1>1 DEF WithinBurst
<1>3. QED
  BY <1>2 DEF d

LEMMA NotifyWithinBurst ==
  ASSUME NEW c \in Record, NEW t, c # << >>, WithinBurst(c)
  PROVE  WithinBurst(NotifyViolation(c, t))
<1> DEFINE d == NotifyViolation(c, t)
<1>1. DOMAIN d = DOMAIN c /\ \A i \in DOMAIN c : d[i].time = c[i].time
  BY NotifyFacts
<1> HIDE DEF d
<1>2. WithinBurst(d)
  BY <1>1 DEF WithinBurst
<1>3. QED
  BY <1>2 DEF d

(* There is room for one more where less than MaxRequests are young.       *)
LEMMA AddWithinBurst ==
  ASSUME NEW c, NEW t \in Nat, Good(c, t), WithinBurst(c),
         Count(c, Young(t)) < MaxRequests
  PROVE  WithinBurst(AddRequest(c, t))
<1> DEFINE d == AddRequest(c, t)
<1>1. /\ c \in Record /\ DOMAIN c = 1..Len(c) /\ Len(c) \in Nat
      /\ \A i \in DOMAIN c : c[i].time \in Nat
  BY RecordFacts DEF Good
<1>2. /\ DOMAIN d = 1 .. Len(c) + 1 /\ d[Len(c) + 1].time = t
      /\ \A i \in DOMAIN c : d[i] = c[i]
  BY <1>1, AddFacts
<1> HIDE DEF d
<1>3. WithinBurst(d)
  <2> SUFFICES ASSUME NEW i \in DOMAIN d, i + MaxRequests \in DOMAIN d
               PROVE  d[i + MaxRequests].time - d[i].time >= CheckInterval
    BY DEF WithinBurst
  <2>1. i \in DOMAIN c
    BY <1>1, <1>2, PacingAssumption
  <2>2. CASE i + MaxRequests \in DOMAIN c
    BY <1>2, <2>1, <2>2 DEF WithinBurst
  <2>3. CASE i + MaxRequests = Len(c) + 1
    <3>1. SUFFICES ASSUME c[i].time + CheckInterval > t PROVE FALSE
      BY <1>1, <1>2, <2>1, <2>3, PacingAssumption
    <3>2. i..Len(c) \in SUBSET At(c, Young(t))
      <4> SUFFICES ASSUME NEW k \in i..Len(c)
                   PROVE  k \in DOMAIN c /\ c[k].time \in Nat /\ c[k].time + CheckInterval > t
        BY DEF At, Young
      <4>1. k \in DOMAIN c /\ i <= k
        BY <1>1, <2>1
      <4>2. c[i].time <= c[k].time
        BY <2>1, <4>1 DEF Good, InOrder
      <4>3. QED
        BY <1>1, <2>1, <3>1, <4>1, <4>2, PacingAssumption
    <3>3. Cardinality(i..Len(c)) <= Cardinality(At(c, Young(t)))
      BY <1>1, <3>2, CountFacts, FS_Subset
    <3>4. Cardinality(i..Len(c)) = Len(c) - i + 1
      BY <1>1, <2>1, IntervalSize
    <3>5. Cardinality(At(c, Young(t))) \in Nat
      BY <1>1, CountFacts DEF Count
    <3>6. QED
      BY <1>1, <2>1, <2>3, <3>3, <3>4, <3>5, PacingAssumption DEF Count
  <2>4. QED
    BY <1>1, <1>2, <2>1, <2>2, <2>3, PacingAssumption
<1>4. QED
  BY <1>3 DEF d

(***************************************************************************)
(* Many records lz[e], and all of them merged into one.                    *)
(***************************************************************************)

(* Induction over the subsets of a finite set: P holds the subsets for     *)
(* which there is nothing left to show.                                    *)
LEMMA SubsetInduction ==
  ASSUME NEW E, IsFiniteSet(E), NEW P,
         \A S \in SUBSET E : (\A e \in S : S \ {e} \in P) => S \in P
  PROVE  (SUBSET E) \subseteq P
<1> DEFINE Q == (SUBSET E) \ P
<1>1. SUFFICES ASSUME Q # {} PROVE FALSE
  OBVIOUS
<1>2. Q \subseteq FiniteSubsetsOf(E)
  BY FS_FiniteSubsetsOfFinite
<1>3. PICK S \in Q : \A T \in Q : ~ (<<T, S>> \in StrictSubsetOrdering(E))
  <2> HIDE DEF Q
  <2>1. QED
    BY <1>1, <1>2, FS_StrictSubsetOrderingWellFounded, WFMin
<1>4. ASSUME NEW e \in S PROVE S \ {e} \in P
  <2>1. <<S \ {e}, S>> \in StrictSubsetOrdering(E)
    BY <1>3 DEF StrictSubsetOrdering
  <2>2. QED
    BY <1>3, <2>1
<1>5. S \in SUBSET E /\ S \notin P
  BY <1>3
<1>6. S \in P
  BY <1>4, <1>5
<1>7. QED
  BY <1>5, <1>6

(* One round of the merging of the records of s into base.                 *)
MergeStep(base, lz, it, s) ==
  IF s = {} THEN base
  ELSE Merge(it[s \ {CHOOSE e \in s : TRUE}], lz[CHOOSE e \in s : TRUE])

MergeRuns(base, lz, it, D) == it = [s \in D |-> MergeStep(base, lz, it, s)]

Merged(base, lz, E) == (CHOOSE it : MergeRuns(base, lz, it, SUBSET E))[E]

(* The merging has a result for each subset, by the number of its elements.*)
Small(E, n) == {S \in SUBSET E : Cardinality(S) <= n}

LEMMA SmallFacts ==
  ASSUME NEW E, IsFiniteSet(E), NEW n \in Nat, NEW S \in Small(E, n), S # {},
         NEW e \in S
  PROVE  n # 0 /\ S \ {e} \in Small(E, n - 1)
<1>1. S \in SUBSET E /\ IsFiniteSet(S) /\ Cardinality(S) \in Nat /\ Cardinality(S) <= n
  BY FS_Subset, FS_CardinalityType DEF Small
<1>2. Cardinality(S \ {e}) = Cardinality(S) - 1 /\ Cardinality(S) # 0
  BY <1>1, FS_RemoveElement, FS_EmptySet
<1>3. QED
  BY <1>1, <1>2 DEF Small

LEMMA MergingExists ==
  ASSUME NEW base, NEW lz, NEW E, IsFiniteSet(E), NEW n \in Nat
  PROVE  \E it : MergeRuns(base, lz, it, Small(E, n))
<1> DEFINE Runs(it, m) == MergeRuns(base, lz, it, Small(E, m))
           Stuck == {m \in Nat : ~ \E it : Runs(it, m)}
<1>1. SUFFICES ASSUME Stuck # {} PROVE FALSE
  OBVIOUS
<1>2. PICK m \in Stuck : \A k \in Stuck : m <= k
  <2> HIDE DEF Stuck
  <2>1. Stuck \in SUBSET Nat
    BY DEF Stuck
  <2>2. QED
    BY <1>1, <2>1, LeastNatural
<1>3. CASE m = 0
  <2> DEFINE h == [s \in Small(E, 0) |-> base]
  <2>1. ASSUME NEW s \in Small(E, 0) PROVE h[s] = MergeStep(base, lz, h, s)
    <3>1. s = {}
      BY SmallFacts
    <3>2. QED
      BY <3>1 DEF MergeStep
  <2>2. Runs(h, 0)
    BY <2>1 DEF MergeRuns
  <2>3. QED
    BY <1>3, <2>2
<1>4. CASE m # 0
  <2>1. m \in Nat /\ m - 1 \in Nat /\ m - 1 \notin Stuck
    BY <1>2, <1>4
  <2>2. PICK g : Runs(g, m - 1)
    BY <2>1
  <2> DEFINE h == [s \in Small(E, m) |-> MergeStep(base, lz, g, s)]
  <2>3. ASSUME NEW s \in Small(E, m - 1) PROVE h[s] = g[s]
    <3>1. s \in Small(E, m)
      <4>1. s \in SUBSET E /\ Cardinality(s) \in Nat /\ Cardinality(s) <= m - 1
        BY FS_Subset, FS_CardinalityType DEF Small
      <4>2. QED
        BY <2>1, <4>1 DEF Small
    <3>2. g[s] = MergeStep(base, lz, g, s)
      BY <2>2 DEF MergeRuns
    <3>3. QED
      BY <3>1, <3>2
  <2>4. ASSUME NEW s \in Small(E, m) PROVE h[s] = MergeStep(base, lz, h, s)
    <3>1. CASE s = {}
      BY <3>1 DEF MergeStep
    <3>2. CASE s # {}
      <4> DEFINE e == CHOOSE x \in s : TRUE
      <4>1. e \in s
        BY <3>2
      <4>2. s \ {e} \in Small(E, m - 1)
        BY <2>1, <3>2, <4>1, SmallFacts
      <4>3. h[s \ {e}] = g[s \ {e}]
        BY <2>3, <4>2
      <4>4. h[s] = Merge(g[s \ {e}], lz[e])
        BY <3>2 DEF MergeStep
      <4> HIDE DEF h
      <4>5. MergeStep(base, lz, h, s) = Merge(h[s \ {e}], lz[e])
        BY <3>2 DEF MergeStep
      <4>6. QED
        BY <4>3, <4>4, <4>5
    <3>3. QED
      BY <3>1, <3>2
  <2>5. Runs(h, m)
    BY <2>4 DEF MergeRuns
  <2>6. QED
    BY <1>2, <2>5
<1>5. QED
  BY <1>3, <1>4

(* The merging satisfies its equation.                                     *)
LEMMA MergingRuns ==
  ASSUME NEW base, NEW lz, NEW E, IsFiniteSet(E)
  PROVE  LET it == CHOOSE it : MergeRuns(base, lz, it, SUBSET E)
         IN  \A S \in SUBSET E : it[S] = MergeStep(base, lz, it, S)
<1> DEFINE n == Cardinality(E)
           it == CHOOSE it : MergeRuns(base, lz, it, SUBSET E)
<1>1. n \in Nat /\ Small(E, n) = SUBSET E
  BY FS_CardinalityType, FS_Subset DEF Small
<1> HIDE DEF n, it
<1>2. \E f : MergeRuns(base, lz, f, SUBSET E)
  <2>1. \E f : MergeRuns(base, lz, f, Small(E, n))
    BY <1>1, MergingExists
  <2>2. QED
    BY <1>1, <2>1
<1>3. MergeRuns(base, lz, it, SUBSET E)
  BY <1>2 DEF it
<1>4. \A S \in SUBSET E : it[S] = MergeStep(base, lz, it, S)
  BY <1>3 DEF MergeRuns
<1>5. QED
  BY <1>4 DEF it

(* All entries of the records of E whose times are in X.                   *)
Spread(lz, E, X) == {p \in E \X Nat : p[2] \in At(lz[p[1]], X)}

CountAll(lz, E, X) == Cardinality(Spread(lz, E, X))

LEMMA SpreadStep ==
  ASSUME NEW lz, NEW E, NEW e \in E, NEW X, lz[e] \in Record,
         IsFiniteSet(Spread(lz, E \ {e}, X))
  PROVE  /\ IsFiniteSet(Spread(lz, E, X))
         /\ CountAll(lz, E, X) = CountAll(lz, E \ {e}, X) + Count(lz[e], X)
<1> DEFINE A == At(lz[e], X)
           f == [i \in A |-> <<e, i>>]
           B == {f[i] : i \in A}
           C == Spread(lz, E \ {e}, X)
<1>1. IsFiniteSet(A)
  BY CountFacts
<1>2. A \subseteq Nat
  BY RecordFacts DEF At
<1>3. \A x, y \in A : f[x] = f[y] => x = y
  OBVIOUS
<1>4. Spread(lz, E, X) = C \cup B /\ C \cap B = {}
  <2>1. \A i : i \in A <=> i \in Nat /\ i \in At(lz[e], X)
    BY <1>2
  <2>2. Spread(lz, E, X) \subseteq C \cup B
    <3> SUFFICES ASSUME NEW p \in E \X Nat, p[2] \in At(lz[p[1]], X) PROVE p \in C \cup B
      BY DEF Spread
    <3>1. p = <<p[1], p[2]>> /\ p[1] \in E /\ p[2] \in Nat
      OBVIOUS
    <3>2. CASE p[1] = e
      <4>1. p[2] \in A /\ f[p[2]] = p
        BY <3>1, <3>2
      <4> HIDE DEF f, A
      <4>2. QED
        BY <4>1
    <3>3. CASE p[1] # e
      BY <3>1, <3>3 DEF Spread
    <3>4. QED
      BY <3>2, <3>3
  <2>3. C \subseteq Spread(lz, E, X)
    BY DEF Spread
  <2>4. B \subseteq Spread(lz, E, X)
    BY <1>2 DEF Spread
  <2>5. C \cap B = {}
    BY DEF Spread
  <2>6. QED
    BY <2>2, <2>3, <2>4, <2>5
<1>5. IsFiniteSet(B) /\ Cardinality(B) = Cardinality(A)
  <2> HIDE DEF f, A
  <2>1. QED
    BY <1>1, <1>3, InjectiveImage
<1> HIDE DEF A, B, C
<1>6. IsFiniteSet(C \cup B) /\ Cardinality(C \cup B) = Cardinality(C) + Cardinality(B) - Cardinality(C \cap B)
  BY <1>5, FS_Union DEF C
<1>7. Cardinality(C \cap B) = 0
  BY <1>4, FS_EmptySet
<1>8. Cardinality(C) \in Nat /\ Cardinality(B) \in Nat
  BY <1>5, FS_CardinalityType DEF C
<1>9. Cardinality(C \cup B) = Cardinality(C) + Cardinality(A)
  BY <1>5, <1>6, <1>7, <1>8
<1>10. QED
  BY <1>4, <1>6, <1>9 DEF CountAll, Count, A, C

LEMMA SpreadEmpty ==
  ASSUME NEW lz, NEW X
  PROVE  IsFiniteSet(Spread(lz, {}, X)) /\ CountAll(lz, {}, X) = 0
<1>1. Spread(lz, {}, X) = {}
  BY DEF Spread
<1>2. QED
  BY <1>1, FS_EmptySet DEF CountAll

LEMMA SpreadFinite ==
  ASSUME NEW E, IsFiniteSet(E), NEW lz, \A e \in E : lz[e] \in Record, NEW X
  PROVE  IsFiniteSet(Spread(lz, E, X)) /\ CountAll(lz, E, X) \in Nat
<1> DEFINE P == {S \in SUBSET E : IsFiniteSet(Spread(lz, S, X))}
<1>1. ASSUME NEW S \in SUBSET E, \A e \in S : S \ {e} \in P
      PROVE  S \in P
  <2>1. CASE S = {}
    BY <2>1, SpreadEmpty
  <2>2. CASE S # {}
    <3>1. PICK e \in S : TRUE
      BY <2>2
    <3>2. IsFiniteSet(Spread(lz, S \ {e}, X)) /\ lz[e] \in Record
      BY <1>1, <3>1
    <3>3. IsFiniteSet(Spread(lz, S, X))
      BY <3>1, <3>2, SpreadStep
    <3>4. QED
      BY <3>3
  <2>3. QED
    BY <2>1, <2>2
<1> HIDE DEF P
<1>2. (SUBSET E) \subseteq P
  BY <1>1, SubsetInduction
<1>3. E \in P
  BY <1>2
<1>4. IsFiniteSet(Spread(lz, E, X))
  BY <1>3 DEF P
<1>5. QED
  BY <1>4, FS_CardinalityType DEF CountAll

(* The count of all is that of one and of the others.                      *)
LEMMA CountAllStep ==
  ASSUME NEW E, IsFiniteSet(E), NEW lz, \A e \in E : lz[e] \in Record, NEW X,
         NEW e \in E
  PROVE  /\ CountAll(lz, E, X) = CountAll(lz, E \ {e}, X) + Count(lz[e], X)
         /\ CountAll(lz, E \ {e}, X) \in Nat /\ CountAll(lz, E, X) \in Nat
         /\ Count(lz[e], X) \in Nat
<1>1. IsFiniteSet(E \ {e}) /\ \A x \in E \ {e} : lz[x] \in Record
  BY FS_RemoveElement
<1>2. IsFiniteSet(Spread(lz, E \ {e}, X)) /\ CountAll(lz, E \ {e}, X) \in Nat
  BY <1>1, SpreadFinite
<1>3. lz[e] \in Record /\ Count(lz[e], X) \in Nat
  BY CountFacts
<1>4. CountAll(lz, E, X) = CountAll(lz, E \ {e}, X) + Count(lz[e], X)
  BY <1>2, <1>3, SpreadStep
<1>5. CountAll(lz, E, X) \in Nat
  BY <1>2, <1>3, <1>4
<1>6. QED
  BY <1>2, <1>3, <1>4, <1>5

(* It is that of two parts.                                                *)
LEMMA CountAllSplit ==
  ASSUME NEW E, IsFiniteSet(E), NEW lz, \A e \in E : lz[e] \in Record, NEW X,
         NEW F \in SUBSET E
  PROVE  CountAll(lz, E, X) = CountAll(lz, F, X) + CountAll(lz, E \ F, X)
<1> DEFINE A == Spread(lz, F, X)
           B == Spread(lz, E \ F, X)
<1>1. IsFiniteSet(F) /\ IsFiniteSet(E \ F)
  BY FS_Subset
<1>2. IsFiniteSet(A) /\ IsFiniteSet(B) /\ Cardinality(A) \in Nat /\ Cardinality(B) \in Nat
  <2>1. IsFiniteSet(A) /\ Cardinality(A) \in Nat
    BY <1>1, SpreadFinite DEF CountAll
  <2>2. IsFiniteSet(B) /\ Cardinality(B) \in Nat
    BY <1>1, SpreadFinite DEF CountAll
  <2>3. QED
    BY <2>1, <2>2
<1>3. Spread(lz, E, X) = A \cup B /\ A \cap B = {}
  BY DEF Spread
<1> HIDE DEF A, B
<1>4. Cardinality(A \cup B) = Cardinality(A) + Cardinality(B) - Cardinality(A \cap B)
  BY <1>2, FS_Union
<1>5. Cardinality(A \cap B) = 0
  BY <1>3, FS_EmptySet
<1>6. Cardinality(Spread(lz, E, X)) = Cardinality(A) + Cardinality(B)
  BY <1>2, <1>3, <1>4, <1>5
<1>7. QED
  BY <1>6 DEF CountAll, A, B

(* It does not depend on the records of others, nor on empty ones.         *)
LEMMA CountAllSame ==
  ASSUME NEW E, NEW lz, NEW mz, NEW X, NEW F \in SUBSET E,
         \A e \in F : lz[e] = mz[e],
         \A e \in E \ F : lz[e] = << >>
  PROVE  CountAll(lz, E, X) = CountAll(mz, F, X)
<1>1. ASSUME NEW e \in E \ F PROVE At(lz[e], X) = {}
  BY <1>1 DEF At
<1>2. Spread(lz, E, X) \subseteq Spread(mz, F, X)
  <2> SUFFICES ASSUME NEW p \in E \X Nat, p[2] \in At(lz[p[1]], X)
               PROVE  p \in F \X Nat /\ p[2] \in At(mz[p[1]], X)
    BY DEF Spread
  <2>1. p = <<p[1], p[2]>> /\ p[1] \in E /\ p[2] \in Nat
    OBVIOUS
  <2>2. p[1] \in F
    BY <1>1, <2>1
  <2>3. QED
    BY <2>1, <2>2
<1>3. Spread(mz, F, X) \subseteq Spread(lz, E, X)
  <2> SUFFICES ASSUME NEW p \in F \X Nat, p[2] \in At(mz[p[1]], X)
               PROVE  p \in E \X Nat /\ p[2] \in At(lz[p[1]], X)
    BY DEF Spread
  <2>1. p = <<p[1], p[2]>> /\ p[1] \in F /\ p[2] \in Nat
    OBVIOUS
  <2>2. QED
    BY <2>1
<1>4. Spread(lz, E, X) = Spread(mz, F, X)
  BY <1>2, <1>3, Zenon
<1>5. QED
  BY <1>4 DEF CountAll

LEMMA CountAllNone ==
  ASSUME NEW E, NEW lz, NEW X, \A e \in E : \A i \in DOMAIN lz[e] : lz[e][i].time \notin X
  PROVE  CountAll(lz, E, X) = 0
<1>1. Spread(lz, E, X) = {}
  <2> SUFFICES ASSUME NEW p \in E \X Nat, p[2] \in At(lz[p[1]], X) PROVE FALSE
    BY DEF Spread
  <2>1. p[1] \in E
    OBVIOUS
  <2>2. QED
    BY <2>1 DEF At
<1>2. QED
  BY <1>1, FS_EmptySet DEF CountAll

(* Merging all of them into one loses no entry and makes up none.          *)
LEMMA MergedFacts ==
  ASSUME NEW t, NEW base, Good(base, t), NEW E, IsFiniteSet(E),
         NEW lz, \A e \in E : Good(lz[e], t)
  PROVE  /\ Good(Merged(base, lz, E), t)
         /\ \A X : Count(Merged(base, lz, E), X) = Count(base, X) + CountAll(lz, E, X)
<1> DEFINE it == CHOOSE it : MergeRuns(base, lz, it, SUBSET E)
           P == {S \in SUBSET E : /\ Good(it[S], t)
                                  /\ \A X : Count(it[S], X) = Count(base, X) + CountAll(lz, S, X)}
<1>1. \A S \in SUBSET E : it[S] = MergeStep(base, lz, it, S)
  BY MergingRuns
<1> HIDE DEF it
<1>2. ASSUME NEW S \in SUBSET E, \A e \in S : S \ {e} \in P
      PROVE  S \in P
  <2>1. CASE S = {}
    <3>1. it[S] = base
      BY <1>1, <2>1 DEF MergeStep
    <3>2. ASSUME NEW X PROVE Count(it[S], X) = Count(base, X) + CountAll(lz, S, X)
      <4>1. CountAll(lz, S, X) = 0 /\ Count(base, X) \in Nat
        BY <2>1, SpreadEmpty, CountFacts DEF Good
      <4>2. QED
        BY <3>1, <4>1
    <3>3. QED
      BY <3>1, <3>2
  <2>2. CASE S # {}
    <3> DEFINE e == CHOOSE x \in S : TRUE
    <3>1. e \in S /\ e \in E
      BY <2>2
    <3>2. it[S] = Merge(it[S \ {e}], lz[e])
      BY <1>1, <2>2 DEF MergeStep
    <3>3. /\ Good(it[S \ {e}], t)
          /\ \A X : Count(it[S \ {e}], X) = Count(base, X) + CountAll(lz, S \ {e}, X)
      BY <1>2, <3>1
    <3> HIDE DEF e
    <3>4. Good(lz[e], t)
      BY <3>1
    <3>5. Good(it[S], t)
      BY <3>2, <3>3, <3>4, MergeGood
    <3>6. ASSUME NEW X PROVE Count(it[S], X) = Count(base, X) + CountAll(lz, S, X)
      <4>1. Count(it[S], X) = Count(it[S \ {e}], X) + Count(lz[e], X)
        BY <3>2, <3>3, <3>4, CountMerge DEF Good
      <4>2. IsFiniteSet(S) /\ \A x \in S : lz[x] \in Record
        BY FS_Subset DEF Good
      <4>3. /\ CountAll(lz, S, X) = CountAll(lz, S \ {e}, X) + Count(lz[e], X)
            /\ CountAll(lz, S \ {e}, X) \in Nat /\ Count(lz[e], X) \in Nat
        BY <3>1, <4>2, CountAllStep
      <4>4. Count(base, X) \in Nat
        BY CountFacts DEF Good
      <4>5. Count(it[S \ {e}], X) = Count(base, X) + CountAll(lz, S \ {e}, X)
        BY <3>3
      <4>6. QED
        BY <4>1, <4>3, <4>4, <4>5
    <3>7. QED
      BY <3>5, <3>6
  <2>3. QED
    BY <2>1, <2>2
<1>3. (SUBSET E) \subseteq P
  <2> HIDE DEF P
  <2>1. QED
    BY <1>2, SubsetInduction
<1>4. Good(it[E], t) /\ \A X : Count(it[E], X) = Count(base, X) + CountAll(lz, E, X)
  BY <1>3
<1>5. QED
  BY <1>4 DEF Merged, it

=============================================================================
