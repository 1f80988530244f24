--------------------------- MODULE PacedFarmProofs ---------------------------
(***************************************************************************)
(* The record of a pacing control keeps to its budget, for all values of   *)
(* the options.  The invariants of PacedFarm are inductive together.       *)
(***************************************************************************)
EXTENDS PacedFarm, PacingProofs

(* A good record that kept to the budget and to the pauses.                *)
Sound(c, t) == Good(c, t) /\ WithinBurst(c) /\ Spaced(c) /\ Paused(c)

IInv == now \in 0..MaxTime /\ open \in BOOLEAN /\ Sound(control, now)

LEMMA AddSound ==
  ASSUME NEW c, NEW t \in Nat, Sound(c, t), GoodTime(c, t) <= 0
  PROVE  Sound(AddRequest(c, t), t)
<1> DEFINE d == AddRequest(c, t)
<1>1. /\ c \in Record /\ DOMAIN c = 1..Len(c) /\ Len(c) \in Nat
      /\ \A i \in DOMAIN c : c[i] \in Entry /\ c[i].time \in Nat
      /\ c = << >> <=> Len(c) = 0
  BY RecordFacts DEF Sound, Good
<1>2. /\ DOMAIN d = 1 .. Len(c) + 1 /\ d[Len(c) + 1].time = t
      /\ \A i \in DOMAIN c : d[i] = c[i]
  BY <1>1, AddFacts
<1>3. Good(d, t)
  BY AddGood DEF Sound
<1>4. WithinBurst(d)
  BY RoomLeft, AddWithinBurst DEF Sound
<1> HIDE DEF d
<1>5. Spaced(d) /\ Paused(d)
  <2>1. CASE c = << >>
    BY <1>1, <1>2, <2>1 DEF Spaced, Paused
  <2>2. CASE c # << >>
    <3>1. /\ Back(c).time + MinPacingTime <= t
          /\ Back(c).violation => Back(c).time + ViolationPause <= t
          /\ Back(c) = c[Len(c)]
      BY <1>1, <2>2, GoodTimeBoundsWaits DEF Back
    <3>2. Spaced(d)
      BY <1>1, <1>2, <3>1, PacingAssumption DEF Sound, Spaced
    <3>3. Paused(d)
      BY <1>1, <1>2, <3>1, PacingAssumption DEF Sound, Paused
    <3>4. QED
      BY <3>2, <3>3
  <2>3. QED
    BY <2>1, <2>2
<1>6. QED
  BY <1>3, <1>4, <1>5 DEF Sound, d

(* A prefix of a sound record is sound, and so is its last entry alone.    *)
LEMMA RemoveSound ==
  ASSUME NEW c, NEW t \in Nat, Sound(c, t)
  PROVE  Sound(RemoveLastRequest(c), t)
<1> DEFINE d == RemoveLastRequest(c)
<1>1. /\ c \in Record /\ DOMAIN d \subseteq DOMAIN c
      /\ \A i \in DOMAIN d : d[i] = c[i]
  BY RemoveFacts DEF Sound, Good
<1>2. Good(d, t) /\ WithinBurst(d)
  BY <1>1, RemoveGood, RemoveWithinBurst DEF Sound
<1> HIDE DEF d
<1>3. Spaced(d) /\ Paused(d)
  BY <1>1 DEF Sound, Spaced, Paused
<1>4. QED
  BY <1>2, <1>3 DEF Sound, d

LEMMA OneEntrySound ==
  ASSUME NEW e \in Entry, NEW t \in Nat, e.time <= t
  PROVE  Sound(<<e>>, t)
<1>1. <<e>> \in Record /\ DOMAIN <<e>> = {1} /\ <<e>>[1] = e
  BY DEF Record
<1>2. QED
  BY <1>1, PacingAssumption
     DEF Sound, Good, InOrder, WithinBurst, Spaced, Paused, Entry

LEMMA EmptySound ==
  ASSUME NEW t \in Nat
  PROVE  Sound(<< >>, t)
BY DEF Sound, Good, Record, InOrder, WithinBurst, Spaced, Paused

LEMMA NotifySound ==
  ASSUME NEW c, NEW t \in Nat, Sound(c, t)
  PROVE  Sound(NotifyViolation(c, t), t)
<1>1. CASE c = << >>
  <2> DEFINE e == [time |-> t, violation |-> TRUE]
  <2>1. e \in Entry /\ e.time <= t
    BY DEF Entry
  <2> HIDE DEF e
  <2>2. Sound(<<e>>, t)
    BY <2>1, OneEntrySound
  <2>3. QED
    BY <1>1, <2>2 DEF NotifyViolation, e
<1>2. CASE c # << >>
  <2> DEFINE d == NotifyViolation(c, t)
  <2>1. c \in Record /\ Len(c) \in Nat \ {0} /\ DOMAIN c = 1..Len(c)
    BY <1>2, EmptySeq DEF Sound, Good, Record
  <2>2. \A i \in DOMAIN c : c[i] \in Entry
    BY <2>1 DEF Record
  <2>3. /\ d \in Record /\ DOMAIN d = DOMAIN c
        /\ \A i \in DOMAIN c : d[i].time = c[i].time
        /\ \A i \in DOMAIN c : i # Len(c) => d[i] = c[i]
    BY <1>2, <2>1, NotifyFacts
  <2> HIDE DEF d
  <2>4. Sound(d, t)
    BY <2>1, <2>3, PacingAssumption
       DEF Sound, Good, InOrder, WithinBurst, Spaced, Paused
  <2>5. QED
    BY <2>4 DEF d
<1>3. QED
  BY <1>1, <1>2

LEMMA ClearSound ==
  ASSUME NEW c, NEW t \in Nat, Sound(c, t)
  PROVE  Sound(Clear(c, t), t)
<1>1. CASE c # << >> /\ t - Back(c).time < FreshTime
  <2>1. Len(c) \in DOMAIN c
    BY <1>1, EmptySeq DEF Sound, Good, Record
  <2>2. Back(c) \in Entry /\ Back(c).time <= t
    BY <2>1 DEF Back, Sound, Good, Record
  <2>3. QED
    BY <1>1, <2>2, OneEntrySound DEF Clear
<1>2. CASE ~(c # << >> /\ t - Back(c).time < FreshTime)
  BY <1>2, EmptySound DEF Clear
<1>3. QED
  BY <1>1, <1>2

LEMMA Initial == Init => IInv
<1>1. Sound(<< >>, 0)
  BY EmptySound
<1>2. Init => Sound(control, now)
  BY <1>1, Zenon DEF Init
<1>3. Init => now \in 0..MaxTime
  BY MaxTimeAssumption DEF Init
<1>4. Init => open \in BOOLEAN
  BY Zenon DEF Init
<1>5. QED
  BY <1>2, <1>3, <1>4, Zenon DEF IInv

LEMMA Inductive == IInv /\ [Next]_vars => IInv'
<1> SUFFICES ASSUME IInv, [Next]_vars PROVE IInv'
  OBVIOUS
<1>1. now \in Nat /\ now \in 0..MaxTime /\ open \in BOOLEAN /\ Sound(control, now)
  BY MaxTimeAssumption DEF IInv
<1>2. CASE Tick
  <2>1. now' \in 0..MaxTime /\ now' = now + 1 /\ control' = control /\ open' = open
    BY <1>1, <1>2, MaxTimeAssumption DEF Tick
  <2>2. \A i \in DOMAIN control : control[i] \in Entry
    BY <1>1 DEF Sound, Good, Record
  <2>3. Sound(control, now + 1)
    BY <1>1, <2>2 DEF Sound, Good, Entry
  <2>4. QED
    BY <1>1, <2>1, <2>3 DEF IInv
<1>3. CASE Request
  BY <1>1, <1>3, AddSound DEF Request, IInv
<1>4. CASE Answer
  BY <1>1, <1>4 DEF Answer, IInv
<1>5. CASE Violation
  BY <1>1, <1>5, NotifySound DEF Violation, IInv
<1>6. CASE Refused
  BY <1>1, <1>6, RemoveSound DEF Refused, IInv
<1>7. CASE FarmInactive
  BY <1>1, <1>7, ClearSound DEF FarmInactive, IInv
<1>8. CASE UNCHANGED vars
  BY <1>1, <1>8 DEF vars, IInv
<1>9. QED
  BY <1>2, <1>3, <1>4, <1>5, <1>6, <1>7, <1>8 DEF Next

(* The record of one farm, for all options: in order, within maxRequests   *)
(* per checkInterval, spaced and paused.                                   *)
THEOREM Invariance == Spec => []IInv
BY Initial, Inductive, PTL DEF Spec

(* The record is well typed and in the order of its times.                 *)
THEOREM RecordInOrder == Spec => []TypeOK
<1>1. IInv => TypeOK
  BY DEF IInv, TypeOK, Sound, Good, Record
<1>2. QED
  BY <1>1, Invariance, PTL

(* maxRequests per checkInterval.                                          *)
THEOREM BudgetKept == Spec => []Burst
<1>1. IInv => Burst
  BY DEF IInv, Burst, Sound
<1>2. QED
  BY <1>1, Invariance, PTL

(* minPacingTime between requests, violationPause after a violation.       *)
THEOREM SpacingKept == Spec => []Spacing
<1>1. IInv => Spacing
  BY DEF IInv, Spacing, Sound
<1>2. QED
  BY <1>1, Invariance, PTL

-----------------------------------------------------------------------------

(* What the scheduler ranks by and what it then asks agree.                *)
THEOREM RankingAgrees == Spec => []CountLeftAgrees
<1>1. IInv => CountLeftAgrees
  <2>1. IInv => now \in Nat /\ Good(control, now)
    BY MaxTimeAssumption DEF IInv, Sound
  <2>2. QED
    BY <2>1, WaitsAgree DEF CountLeftAgrees
<1>2. QED
  BY <1>1, Invariance, PTL
=============================================================================
