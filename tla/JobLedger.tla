------------------------------ MODULE JobLedger ------------------------------
(***************************************************************************)
(* What twsdo promises for the historical-data jobs of its work file: one  *)
(* job at a time is asked for; the answer settles it, for good, or sends   *)
(* it back to wait; and while one job is asked for, its answer may settle  *)
(* others that wait as failed.                                             *)
(***************************************************************************)
CONSTANT Jobs

VARIABLE status

Settled == {"done", "failed"}

Init == status = [j \in Jobs |-> "waiting"]

Ask(j) ==
  /\ \A k \in Jobs : status[k] # "asked"
  /\ status[j] = "waiting"
  /\ status' = [status EXCEPT ![j] = "asked"]

Answer(j) ==
  /\ status[j] = "asked"
  /\ \E s \in Settled \cup {"waiting"} : status' = [status EXCEPT ![j] = s]

GiveUp(S) ==
  /\ \E j \in Jobs : status[j] = "asked"
  /\ \A k \in S : status[k] = "waiting"
  /\ status' = [k \in Jobs |-> IF k \in S THEN "failed" ELSE status[k]]

Next ==
  \/ \E j \in Jobs : Ask(j) \/ Answer(j)
  \/ \E S \in SUBSET Jobs : GiveUp(S)

Spec == Init /\ [][Next]_status
=============================================================================
