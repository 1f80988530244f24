------------------------------ MODULE PacedFarm ------------------------------
(***************************************************************************)
(* One pacing control in use: the historical-data requests of one farm, as *)
(* TwsDL sends them through HistTodo::checkoutOpt().  One request at a time*)
(* is open.  Its answer may be a pacing violation, which notifyViolation() *)
(* records, or a refusal that costs nothing, for which                     *)
(* remove_last_request() takes it back.  The farm may turn inactive or the *)
(* connection may break at any time, and clear() forgets the past.         *)
(***************************************************************************)
EXTENDS PacingControl

CONSTANTS
  MaxTime   (* Bounds the clock.                                           *)

ASSUME MaxTimeAssumption == MaxTime \in Nat

VARIABLES
  now,      (* nowInMsecs()                                                *)
  control,  (* The PacingControl of the farm.                              *)
  open      (* A request is open.                                          *)

vars == <<now, control, open>>

Init == now = 0 /\ control = << >> /\ open = FALSE

Tick == now < MaxTime /\ now' = now + 1 /\ UNCHANGED <<control, open>>

(* checkoutOpt() lets a request out when goodTime() is not in the future;  *)
(* reqHistoricalData() then records it.                                    *)
Request ==
  /\ ~open /\ GoodTime(control, now) <= 0
  /\ control' = AddRequest(control, now) /\ open' = TRUE
  /\ UNCHANGED now

Answer == open /\ open' = FALSE /\ UNCHANGED <<now, control>>

Violation ==
  /\ open /\ open' = FALSE
  /\ control' = NotifyViolation(control, now)
  /\ UNCHANGED now

Refused ==
  /\ open /\ open' = FALSE
  /\ control' = RemoveLastRequest(control)
  /\ UNCHANGED now

FarmInactive ==
  /\ control' = Clear(control, now)
  /\ UNCHANGED <<now, open>>

Next == Tick \/ Request \/ Answer \/ Violation \/ Refused \/ FarmInactive

Spec == Init /\ [][Next]_vars

(***************************************************************************)
(* Properties.                                                             *)
(***************************************************************************)

(* The record is in the order of its times, none in the future.            *)
TypeOK ==
  /\ now \in 0..MaxTime /\ open \in BOOLEAN
  /\ \A i \in DOMAIN control : control[i] \in Entry /\ control[i].time <= now
  /\ InOrder(control)

(* twsdo.ggo:80, "Max requests per pacing interval": what is on record     *)
(* never exceeds the budget, whatever was removed, cleared or added by a   *)
(* violation.                                                              *)
Burst == WithinBurst(control)

(* minPacingTime between two requests, and twsdo.ggo:92, "Time to wait if  *)
(* pacing violation occurs".                                               *)
Spacing == Spaced(control) /\ Paused(control)

(* The scheduler ranks farms by countLeft() and then asks goodTime(): the  *)
(* two agree on whether the budget is used up.  What countLeft() lets pass,*)
(* goodTime() delays by minPacingTime at most.                             *)
CountLeftAgrees ==
  /\ GoodTime(control, now) <= 0 => CountLeft(control, now) > 0
  /\ CountLeft(control, now) > 0 => GoodTime(control, now) <= MinPacingTime
=============================================================================
