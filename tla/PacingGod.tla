------------------------------ MODULE PacingGod ------------------------------
(***************************************************************************)
(* The pacing of the historical-data requests to several farms             *)
(* (tws_meta.cpp, class PacingGod), and the choice of the next request by  *)
(* it (class HistTodo, checkoutOpt()).  Every request is recorded twice: in*)
(* the global control, and in that of its farm if the farm is known, else  *)
(* in a lazy one of the exchange.                                          *)
(*                                                                         *)
(* The two maps of controls are total functions: a control that does not   *)
(* exist is empty, and moving a lazy control to a new farm is merging it   *)
(* into an empty one.                                                      *)
(***************************************************************************)
EXTENDS DataFarms, PacingControl, FiniteSetsExt

VARIABLES
  now,           (* nowInMsecs()                                           *)
  controlGlobal, controlHmds, controlLazy

controls == <<controlGlobal, controlHmds, controlLazy>>

ControlsInit ==
  /\ controlGlobal = << >>
  /\ controlHmds = [f \in Farms |-> << >>]
  /\ controlLazy = [e \in Exchanges |-> << >>]

(***************************************************************************)
(* checkAdd(): the lazy controls of the exchanges that have a farm by now  *)
(* are merged into that of the farm.  learned is the hLearn to go by.      *)
(***************************************************************************)

SettledLazy(learned) ==
  [e \in Exchanges |-> IF learned[e] = NoFarm THEN controlLazy[e] ELSE << >>]

SettledHmds(learned) ==
  [f \in Farms |-> FoldSet(LAMBDA e, c : Merge(c, controlLazy[e]), controlHmds[f],
                           {e \in Exchanges : learned[e] = f /\ controlLazy[e] # << >>})]

CheckAdd ==
  /\ controlLazy' = SettledLazy(hLearn) /\ controlHmds' = SettledHmds(hLearn)
  /\ UNCHANGED controlGlobal

Changed(c, op) ==
  CASE op = "add"       -> AddRequest(c, now)
    [] op = "remove"    -> RemoveLastRequest(c)
    [] op = "violation" -> NotifyViolation(c, now)

(* Faulty: the record of the exchange is left where it was.                *)
ApplyUnsettled(op, e, learned) ==
  /\ controlGlobal' = Changed(controlGlobal, op)
  /\ \/ /\ learned[e] = NoFarm
        /\ controlLazy' = [controlLazy EXCEPT ![e] = Changed(@, op)] /\ UNCHANGED controlHmds
     \/ /\ learned[e] # NoFarm
        /\ controlHmds' = [controlHmds EXCEPT ![learned[e]] = Changed(@, op)]
        /\ UNCHANGED controlLazy

(* What addRequest(), remove_last_request() and notifyViolation() share.   *)
Apply(op, e, learned) ==
  /\ controlGlobal' = Changed(controlGlobal, op)
  /\ \/ /\ learned[e] = NoFarm
        /\ controlLazy' = [SettledLazy(learned) EXCEPT ![e] = Changed(@, op)]
        /\ controlHmds' = SettledHmds(learned)
     \/ /\ learned[e] # NoFarm
        /\ controlLazy' = SettledLazy(learned)
        /\ controlHmds' = [SettledHmds(learned) EXCEPT ![learned[e]] = Changed(@, op)]

Cleared(c) == Clear(c, now)

(* clear(), with the new states of the farms.                              *)
ClearControls(states) ==
  IF Actives(states) = {}
  THEN /\ controlGlobal' = Cleared(controlGlobal)
       /\ controlHmds' = [f \in Farms |-> Cleared(controlHmds[f])]
       /\ controlLazy' = [e \in Exchanges |-> Cleared(controlLazy[e])]
  ELSE /\ controlHmds' = [f \in Farms |-> IF f \in Inactives(states)
                                          THEN Cleared(controlHmds[f])
                                          ELSE controlHmds[f]]
       /\ UNCHANGED <<controlGlobal, controlLazy>>

(* Faulty: a farm that is known is paced by its own record.                *)
ControlOfFarm(e) ==
  IF hLearn[e] = NoFarm THEN controlGlobal ELSE SettledHmds(hLearn)[hLearn[e]]

(* goodTime() and countLeft() ask the control of the farm only when no     *)
(* request is on record whose farm is not known.                           *)
LaziesAreCleared == \A e \in Exchanges : hLearn[e] = NoFarm => controlLazy[e] = << >>

ControlOf(e) ==
  IF hLearn[e] = NoFarm \/ ~LaziesAreCleared THEN controlGlobal
  ELSE SettledHmds(hLearn)[hLearn[e]]

Wait(e) == GoodTime(ControlOf(e), now)

(***************************************************************************)
(* checkoutOpt(): of each farm the first request left, if its control has  *)
(* budget left; an unknown farm first, to learn it, else the farm with     *)
(* most requests left.  The order of a map settles a draw; here it is open.*)
(***************************************************************************)

Of(left, f) == {i \in DOMAIN left : hLearn[left[i]] = f}

First(left, f) == CHOOSE i \in Of(left, f) : \A j \in Of(left, f) : i <= j

(* Faulty: the farm with most requests left, budget or not.                *)
ReadyAll(left) == {f \in Farms \cup {NoFarm} : Of(left, f) # {}}

Ready(left) ==
  {f \in Farms \cup {NoFarm} :
     Of(left, f) # {} /\ CountLeft(ControlOf(left[First(left, f)]), now) > 0}

Biggest(left) ==
  {f \in Ready(left) : \A g \in Ready(left) :
     Cardinality(Of(left, g)) <= Cardinality(Of(left, f))}

Candidates(left) ==
  IF Ready(left) = {} THEN {1}
  ELSE IF NoFarm \in Ready(left) THEN {First(left, NoFarm)}
  ELSE {First(left, f) : f \in Biggest(left)}
=============================================================================
