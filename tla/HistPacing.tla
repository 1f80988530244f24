----------------------------- MODULE HistPacing -----------------------------
(***************************************************************************)
(* The historical-data requests of twsdo (twsdo.cpp): reqHistoricalData()  *)
(* sends the one that checkoutOpt() picks, and the answers, the errors     *)
(* (errorHistData()) and the reports about the farms (twsError()) change   *)
(* what is known of the farms and what is on record.                       *)
(*                                                                         *)
(* TwsDL has the work list and the life of a request in full and takes the *)
(* pacing as it comes.  Here all that matters of a job is its exchange, the*)
(* work list is any of a set of lists whenever it is looked at, a request  *)
(* is open or not, and what ends it files it at once.                      *)
(***************************************************************************)
EXTENDS PacingGod

CONSTANTS
  Lists,     (* What leftRequests may hold: the exchanges, in order.       *)
  TrueFarm,  (* The farm that has the data of an exchange.                 *)
  MaxTime,   (* Bounds the clock.                                          *)
  MaxReports (* Bounds the reports about farms and the lost connections.   *)

ASSUME HistAssumption ==
  /\ Lists \subseteq Seq(Exchanges) \ {<< >>} /\ TrueFarm \in [Exchanges -> Farms]
  /\ MaxTime \in Nat /\ MaxReports \in Nat

VARIABLES
  open,     (* The exchange of the open request, or NoExchange.            *)
  aborted,  (* The assert() of learnHmdsLastOk() has failed.               *)
  reports,  (* Reports and lost connections so far.                        *)
  sent,     (* Auxiliary: the requests each farm got since it last became  *)
            (* active, refused ones taken out, with the violations.        *)
  counted,  (* Auxiliary: the open request is among them.                  *)
  misled    (* Auxiliary: the farms one of whose exchanges was ever taken  *)
            (* to be at another farm.                                      *)

vars == <<farms, controls, now, open, aborted, reports, sent, counted, misled>>

(* The farms of the exchanges of which a wrong farm is known.              *)
Mistaken(learned) ==
  {TrueFarm[e] : e \in {x \in Exchanges : learned[x] \notin {NoFarm, TrueFarm[x]}}}

Init ==
  /\ FarmsInit /\ ControlsInit
  /\ now = 0 /\ open = NoExchange
  /\ aborted = FALSE /\ reports = 0
  /\ sent = [f \in Farms |-> << >>] /\ counted = FALSE
  /\ misled = Mistaken(HardCoded)

Tick ==
  /\ ~aborted /\ now < MaxTime /\ now' = now + 1
  /\ UNCHANGED <<farms, controls, open, aborted, reports, sent, counted, misled>>

(* reqHistoricalData(): when it is too early only checkAdd() has an effect.*)
Request(left) ==
  /\ ~aborted /\ open = NoExchange
  /\ \E i \in Candidates(left) :
       LET e == left[i]
           f == TrueFarm[e]
       IN  IF Wait(e) > 0
           THEN CheckAdd /\ UNCHANGED <<open, sent, counted>>
           ELSE /\ Apply("add", e, hLearn)
                /\ open' = e /\ counted' = (hStates[f] = "OK")
                /\ sent' = [sent EXCEPT ![f] = IF hStates[f] = "OK" THEN Changed(@, "add") ELSE @]
  /\ UNCHANGED <<farms, now, aborted, reports, misled>>

(***************************************************************************)
(* What ends a request, or reports on it.                                  *)
(***************************************************************************)

Open == ~aborted /\ open # NoExchange

Close == open' = NoExchange /\ counted' = FALSE

(* What was learned may be wrong.                                          *)
Mislead == misled' = misled \cup Mistaken(hLearn')

(* twsHistoricalData(), a row of the answer or the end of it.  The farm may *)
(* have been reported as broken since (the race of tws_meta.cpp:2336).     *)
Row ==
  /\ Open
  /\ LearnHmds(open) /\ Mislead /\ UNCHANGED lastNotified
  /\ Close \/ UNCHANGED <<open, counted>>
  /\ UNCHANGED <<controls, now, aborted, reports, sent>>

(* No data, not available, unknown contract: errors of the farm.           *)
Failed ==
  /\ Open
  /\ LearnHmds(open) /\ Mislead /\ lastNotified' = FALSE
  /\ Close
  /\ UNCHANGED <<controls, now, aborted, reports, sent>>

(* The request never got to the farm, or cost nothing there.               *)
TakenBack ==
  [sent EXCEPT ![TrueFarm[open]] = IF counted THEN Changed(@, "remove") ELSE @]

NoRoute ==
  /\ Open
  /\ Apply("remove", open, hLearn)
  /\ lastNotified' = FALSE /\ Close /\ sent' = TakenBack
  /\ UNCHANGED <<hStates, hLearn, lastLearned, lastChanged, edemoChecked,
                 now, aborted, reports, misled>>

NoPermission ==
  /\ Open
  /\ LearnHmds(open) /\ Mislead /\ lastNotified' = FALSE
  /\ Apply("remove", open, hLearn')
  /\ Close /\ sent' = TakenBack
  /\ UNCHANGED <<now, aborted, reports>>

(* The request is repeated next.                                           *)
Violation ==
  /\ Open
  /\ Apply("violation", open, hLearn)
  /\ lastNotified' = FALSE /\ Close
  /\ sent' = [sent EXCEPT ![TrueFarm[open]] = IF counted THEN Changed(@, "violation") ELSE @]
  /\ UNCHANGED <<hStates, hLearn, lastLearned, lastChanged, edemoChecked,
                 now, aborted, reports, misled>>

(* "HMDS server connection was successful", after whatever message.        *)
HmdsConnected ==
  /\ Open
  /\ IF LastOkAsserts(open)
     THEN /\ aborted' = TRUE
          /\ UNCHANGED <<hStates, hLearn, lastLearned, lastChanged, edemoChecked>>
     ELSE LearnHmdsLastOk(open) /\ UNCHANGED aborted
  /\ Mislead /\ lastNotified' = FALSE
  /\ UNCHANGED <<controls, now, open, reports, sent, counted>>

(* Any other message of twsError(); and the timeout of the request.        *)
OtherMessage ==
  /\ ~aborted /\ lastNotified /\ lastNotified' = FALSE
  /\ UNCHANGED <<hStates, hLearn, lastLearned, lastChanged, edemoChecked,
                 controls, now, open, aborted, reports, sent, counted, misled>>

Timeout ==
  /\ Open /\ Close
  /\ UNCHANGED <<farms, controls, now, aborted, reports, sent, misled>>

(***************************************************************************)
(* The reports about the farms.                                            *)
(***************************************************************************)

(* A farm that is not active starts over.                                  *)
SentTo(states) == [f \in Farms |-> IF states[f] = "OK" THEN sent[f] ELSE << >>]

Report == ~aborted /\ reports < MaxReports /\ reports' = reports + 1

FarmMessage(f, state) ==
  /\ Report
  /\ Notify(f, state) /\ ClearControls(hStates')
  /\ sent' = SentTo(hStates')
  /\ counted' = (counted /\ hStates'[TrueFarm[open]] = "OK")
  /\ UNCHANGED <<now, open, aborted, misled>>

MarketMessage(f) ==
  /\ Report
  /\ NotifyMarket(f) /\ ClearControls(hStates)
  /\ UNCHANGED <<now, open, aborted, sent, counted, misled>>

(* twsConnectionClosed(): the open request is repeated next.               *)
ConnectionClosed ==
  /\ Report
  /\ SetAllBroken /\ ClearControls(hStates') /\ sent' = SentTo(hStates')
  /\ Close
  /\ UNCHANGED <<now, aborted, misled>>

Next ==
  \/ Tick \/ \E left \in Lists : Request(left)
  \/ Row \/ Failed \/ NoRoute \/ NoPermission \/ Violation
  \/ HmdsConnected \/ OtherMessage \/ Timeout
  \/ \E f \in Farms, state \in Reported : FarmMessage(f, state)
  \/ \E f \in MarketFarms : MarketMessage(f)
  \/ ConnectionClosed

Spec == Init /\ [][Next]_vars

(***************************************************************************)
(* Properties.                                                             *)
(***************************************************************************)

Controls == {controlGlobal} \cup {controlHmds[f] : f \in Farms}
              \cup {controlLazy[e] : e \in Exchanges}

(* Every variable has its type, and every record is in the order of its    *)
(* times, also after records were merged.                                  *)
TypeOK ==
  /\ FarmTypes /\ now \in 0..MaxTime
  /\ open \in Exchanges \cup {NoExchange}
  /\ counted \in BOOLEAN /\ aborted \in BOOLEAN /\ reports \in 0..MaxReports
  /\ misled \subseteq Farms
  /\ \A c \in Controls \cup {sent[f] : f \in Farms} :
       InOrder(c) /\ \A i \in DOMAIN c : c[i] \in Entry /\ c[i].time <= now

(* twsdo.ggo:80, "Max requests per pacing interval": no farm gets more,    *)
(* whether its record is its own, or still that of its exchanges, or the   *)
(* global one is asked.  The harm of a wrong guess is confined to the farm *)
(* whose exchange it is about: one that others are wrongly taken to be at  *)
(* still gets no more.                                                     *)
Budget == \A f \in Farms \ misled : WithinBurst(sent[f])

(* What a farm got is on the record that is asked before the next request  *)
(* for any of its exchanges, learned or not, if none of them was ever taken*)
(* to be elsewhere.                                                        *)
TimesOf(c) == {c[i].time : i \in DOMAIN c}

Recorded ==
  \A e \in Exchanges :
    TrueFarm[e] \notin misled => TimesOf(sent[TrueFarm[e]]) \subseteq TimesOf(ControlOf(e))

(* twsdo.ggo:92, "Time to wait if pacing violation occurs": a farm that is *)
(* paced by its own record waits as long after its last request was a      *)
(* violation, whichever records were merged, cleared or taken back since.  *)
OwnRecordPauses ==
  misled = {} =>
    \A e \in Exchanges :
      LET f == TrueFarm[e]
      IN  hLearn[e] = f /\ LaziesAreCleared /\ sent[f] # << >> /\ Back(sent[f]).violation
            => Wait(e) >= Back(sent[f]).time + ViolationPause - now

(* The memo of the last exchange never hides something to learn.           *)
MemoSkipsNothing ==
  lastLearned # NoExchange => Learned(lastLearned) = hLearn

(* checkoutOpt() ranks the farms by countLeft() and then asks goodTime():  *)
(* it never sleeps longer than minPacingTime while a request could go out. *)
NoNeedlessWait ==
  open = NoExchange =>
    \A left \in Lists : \A i \in Candidates(left) :
      Wait(left[i]) > MinPacingTime => \A j \in DOMAIN left : Wait(left[j]) > 0

(***************************************************************************)
(* What the source says of itself and the code does not keep.              *)
(***************************************************************************)

(* twsdo.ggo:92, "Time to wait if pacing violation occurs": after a        *)
(* violation a farm gets no request for so long.                           *)
PauseKept == \A f \in Farms : Paused(sent[f])

(* ChangeLog:12, "no more abort when learned or hardcoded hmds farm is     *)
(* wrong".                                                                 *)
NoAbort == ~aborted
=============================================================================
