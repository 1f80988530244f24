---------------------------- MODULE PacingControl ----------------------------
(***************************************************************************)
(* The record of requests that one pacing control keeps (tws_meta.cpp,     *)
(* class PacingControl), as operators on its value: the two parallel       *)
(* vectors dateTimes and violations are one sequence of entries.  Times    *)
(* are the milliseconds of the code in units of the instance.              *)
(***************************************************************************)
EXTENDS Integers, Sequences, FiniteSets

CONSTANTS
  MaxRequests,    (* maxRequests, checkInterval, minPacingTime and         *)
  CheckInterval,  (* violationPause: the four options of twsdo.            *)
  MinPacingTime,
  ViolationPause,
  FreshTime       (* The 5000 of clear().                                  *)

(* The options are plain integers; these are the ones that make sense.     *)
ASSUME PacingAssumption ==
  /\ MaxRequests \in Nat \ {0}
  /\ CheckInterval \in Nat /\ MinPacingTime \in Nat
  /\ ViolationPause \in Nat /\ FreshTime \in Nat

Entry == [time : Nat, violation : BOOLEAN]

IntMin == -2147483647 - 1

Back(c) == c[Len(c)]

(* clear() keeps the last entry while a violation may yet be reported.     *)
Clear(c, now) ==
  IF c # << >> /\ now - Back(c).time < FreshTime THEN <<Back(c)>> ELSE << >>

(* Faulty: what is recorded is when the next request may go out.           *)
AddRequestDue(c, now) ==
  Append(c, [time |-> now + MinPacingTime, violation |-> FALSE])

AddRequest(c, now) == Append(c, [time |-> now, violation |-> FALSE])

RemoveLastRequest(c) == IF c = << >> THEN c ELSE SubSeq(c, 1, Len(c) - 1)

NotifyViolation(c, now) ==
  IF c = << >> THEN <<[time |-> now, violation |-> TRUE]>>
  ELSE [c EXCEPT ![Len(c)].violation = TRUE]

(* The three waits goodTime() takes the longest of.                        *)
WaitMin(c, now) == Back(c).time + MinPacingTime - now

WaitViolation(c, now) ==
  IF Back(c).violation THEN Back(c).time + ViolationPause - now ELSE IntMin

(* Faulty: one request too many per interval.                              *)
WaitBurstLate(c, now) ==
  IF Len(c) > MaxRequests
  THEN c[Len(c) - MaxRequests].time + CheckInterval - now ELSE IntMin

(* The request that opened the interval is the MaxRequests-th from the end.*)
WaitBurst(c, now) ==
  IF Len(c) >= MaxRequests
  THEN c[Len(c) - MaxRequests + 1].time + CheckInterval - now ELSE IntMin

Longer(x, y) == IF x < y THEN y ELSE x

(* Faulty: the pause after a violation is not among the waits.             *)
GoodTimeUnpaused(c, now) ==
  IF c = << >> THEN IntMin ELSE Longer(WaitMin(c, now), WaitBurst(c, now))

GoodTime(c, now) ==
  IF c = << >> THEN IntMin
  ELSE Longer(Longer(WaitMin(c, now), WaitViolation(c, now)), WaitBurst(c, now))

(* The entries at the end of c that are all younger than CheckInterval.    *)
Recent(c, now) ==
  {i \in DOMAIN c : \A j \in i..Len(c) : c[j].time + CheckInterval - now > 0}

(* Faulty: an entry counts as long as the interval is not exceeded.        *)
CountLeftStrict(c, now) ==
  IF c # << >> /\ WaitViolation(c, now) > 0 THEN 0
  ELSE MaxRequests - Cardinality({i \in DOMAIN c : c[i].time + CheckInterval >= now})

CountLeft(c, now) ==
  IF c # << >> /\ WaitViolation(c, now) > 0 THEN 0
  ELSE MaxRequests - Cardinality(Recent(c, now))

(* Faulty: the other record goes behind this one.                          *)
MergeBehind(c, d) == c \o d

(* Faulty: of the other record only the times are taken over.              *)
MergeTimes(c, d) == c \o [i \in DOMAIN d |-> [d[i] EXCEPT !.violation = FALSE]]

(* merge(): by time, on a tie the entries of c before those of d.          *)
Merge(c, d) ==
  LET placeC(i) == i + Cardinality({j \in DOMAIN d : d[j].time < c[i].time})
      placeD(j) == j + Cardinality({i \in DOMAIN c : c[i].time <= d[j].time})
  IN  [k \in 1 .. Len(c) + Len(d) |->
         IF \E i \in DOMAIN c : placeC(i) = k
         THEN c[CHOOSE i \in DOMAIN c : placeC(i) = k]
         ELSE d[CHOOSE j \in DOMAIN d : placeD(j) = k]]

(***************************************************************************)
(* What a good record looks like.                                          *)
(***************************************************************************)

(* The entries are in the order of their times.                            *)
InOrder(c) == \A i, j \in DOMAIN c : i <= j => c[i].time <= c[j].time

(* Of MaxRequests + 1 successive entries the first and the last are at     *)
(* least CheckInterval apart.                                              *)
WithinBurst(c) ==
  \A i \in DOMAIN c :
    i + MaxRequests \in DOMAIN c
      => c[i + MaxRequests].time - c[i].time >= CheckInterval

(* Two successive entries are at least MinPacingTime apart, and at least   *)
(* ViolationPause if the first was a violation.                            *)
Spaced(c) ==
  \A i \in DOMAIN c :
    i + 1 \in DOMAIN c => c[i + 1].time - c[i].time >= MinPacingTime

Paused(c) ==
  \A i \in DOMAIN c :
    i + 1 \in DOMAIN c /\ c[i].violation
      => c[i + 1].time - c[i].time >= ViolationPause
=============================================================================
