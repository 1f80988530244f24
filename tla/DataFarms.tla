------------------------------ MODULE DataFarms ------------------------------
(***************************************************************************)
(* What twsdo knows of the historical data farms (tws_meta.cpp, class      *)
(* DataFarmStates): the state the TWS last reported of each, and the farm  *)
(* of each exchange, from a table in the program or learned from answers.  *)
(* The states of the market data farms are left out, nothing reads them.   *)
(***************************************************************************)
EXTENDS Integers, Sequences, FiniteSets

CONSTANTS
  Farms,       (* The historical data farms.                               *)
  MarketFarms, (* The market data farms.                                   *)
  DemoFarms,   (* The farms of either kind that an edemo TWS has.          *)
  Exchanges,
  HardCoded,   (* The farm of each exchange in the table of the program.   *)
  NoFarm,      (* The empty string, as the name of a farm                  *)
  NoExchange   (* ... and as the name of an exchange.                      *)

ASSUME FarmsAssumption ==
  /\ IsFiniteSet(Farms) /\ IsFiniteSet(Exchanges)
  /\ DemoFarms \subseteq Farms \cup MarketFarms
  /\ NoFarm \notin Farms /\ NoExchange \notin Exchanges
  /\ HardCoded \in [Exchanges -> Farms \cup {NoFarm}]

VARIABLES
  hStates,      (* "OK"; "DOWN" for INACTIVE and BROKEN, which nothing     *)
                (* tells apart; "NONE" for a farm never reported.          *)
  hLearn,       (* The farm of each exchange, or NoFarm.                   *)
  lastLearned,  (* last_learned_lazy_contract                              *)
  lastChanged,  (* The farm of the last report.                            *)
  lastNotified, (* lastMsgNumber is the number of the last message.        *)
  edemoChecked

farms == <<hStates, hLearn, lastLearned, lastChanged, lastNotified, edemoChecked>>

Reported == {"DOWN", "OK"}

FarmsInit ==
  /\ hStates = [f \in Farms |-> "NONE"]
  /\ hLearn = HardCoded
  /\ lastLearned = NoExchange /\ lastChanged = NoFarm
  /\ lastNotified = FALSE /\ edemoChecked = FALSE

FarmTypes ==
  /\ hStates \in [Farms -> Reported \cup {"NONE"}]
  /\ hLearn \in [Exchanges -> Farms \cup {NoFarm}]
  /\ lastLearned \in Exchanges \cup {NoExchange}
  /\ lastChanged \in Farms \cup MarketFarms \cup {NoFarm}
  /\ lastNotified \in BOOLEAN /\ edemoChecked \in BOOLEAN

Actives(states)   == {f \in Farms : states[f] = "OK"}
Inactives(states) == {f \in Farms : states[f] = "DOWN"}

(* check_edemo_hack(): the first report decides if the table is dropped.   *)
DropTable(f) == ~edemoChecked /\ f \in DemoFarms

(* Faulty: the memo outlives the states it was made with.                  *)
KeepMemo == UNCHANGED lastLearned

ForgetMemo == lastLearned' = NoExchange

(* notify(), for a farm of either kind.                                    *)
Notify(f, state) ==
  /\ hStates' = [hStates EXCEPT ![f] = state]
  /\ hLearn' = IF DropTable(f) THEN [e \in Exchanges |-> NoFarm] ELSE hLearn
  /\ edemoChecked' = TRUE
  /\ lastChanged' = f /\ lastNotified' = TRUE
  /\ ForgetMemo

NotifyMarket(f) ==
  /\ hLearn' = IF DropTable(f) THEN [e \in Exchanges |-> NoFarm] ELSE hLearn
  /\ edemoChecked' = TRUE
  /\ lastChanged' = f /\ lastNotified' = TRUE
  /\ ForgetMemo
  /\ UNCHANGED hStates

SetAllBroken ==
  /\ hStates' = [f \in Farms |-> IF hStates[f] = "NONE" THEN "NONE" ELSE "DOWN"]
  /\ ForgetMemo
  /\ UNCHANGED <<hLearn, lastChanged, lastNotified, edemoChecked>>

(* An exchange without a farm is at the only active one.                   *)
Learned(e) ==
  IF hLearn[e] = NoFarm /\ Cardinality(Actives(hStates)) = 1
  THEN [hLearn EXCEPT ![e] = CHOOSE f \in Actives(hStates) : TRUE] ELSE hLearn

(* learnHmds(): not twice in a row for the same exchange.                  *)
LearnHmds(e) ==
  /\ hLearn' = IF lastLearned = e THEN hLearn ELSE Learned(e)
  /\ lastLearned' = e
  /\ UNCHANGED <<hStates, lastChanged, edemoChecked>>

(* learnHmdsLastOk(): the message before this one reported that a farm is  *)
(* active, so the exchange is there.                                       *)
JustOk == lastNotified /\ lastChanged \in Actives(hStates)

LastOkAsserts(e) == JustOk /\ hLearn[e] \notin {NoFarm, lastChanged}

LearnHmdsLastOk(e) ==
  /\ hLearn' = IF JustOk /\ hLearn[e] = NoFarm
               THEN [hLearn EXCEPT ![e] = lastChanged] ELSE hLearn
  /\ UNCHANGED <<hStates, lastLearned, lastChanged, edemoChecked>>
=============================================================================
