-------------------------------- MODULE TwsDL --------------------------------
(***************************************************************************)
(* The event loop of twsdo (twsdo.cpp, class TwsDL): it connects to the    *)
(* TWS, sends one request at a time, collects the answer in a packet, and  *)
(* files each request as done, given up or to be repeated.                 *)
(*                                                                         *)
(* There is one thread.  It sleeps in selectStuff() (pc = "select"), where *)
(* any number of callbacks may run, and then runs one handler: waitTwsCon()*)
(* or idle().  idle() is two steps here, waitData() at pc = "loop" and the *)
(* rest of it at pc = "dispatch"; no callback runs between them.           *)
(*                                                                         *)
(* The program modelled has no market-data requests, no orders to place    *)
(* and no strategy plugin.                                                 *)
(***************************************************************************)
EXTENDS WorkTodo

CONSTANTS
  SimpleWork,  (* Which of the account, executions, orders are asked for.  *)
  Count,       (* How many contract-details and option-parameter requests. *)
  MaxFaults    (* Bounds the model: see variable faults.                   *)

SimpleTypes  == {"ACC_STATUS", "EXECUTIONS", "ORDERS"}
IndexedTypes == {"CONTRACT_DETAILS", "OPT_PARAMS"}
RequestTypes == SimpleTypes \cup IndexedTypes \cup {"HIST"}

ASSUME SimpleWorkAssumption == SimpleWork \subseteq SimpleTypes
ASSUME CountAssumption      == Count \in [IndexedTypes -> Nat]
ASSUME MaxFaultsAssumption  == MaxFaults \in Nat

(* req_err                                                                 *)
Errors == {"NONE", "NODATA", "NAV", "TWSCON", "TIMEOUT", "REQUEST"}

VARIABLES
  (* The thread. *)
  pc,           (* "select", "loop", "dispatch", or "quit", "abort".       *)
  abort,        (* The assert() that failed, or "none".                    *)
  (* The connection. *)
  state,        (* WAIT_TWS_CON or IDLE.                                   *)
  connected,    (* twsClient->isConnected()                                *)
  connectivity, (* connectivity_IB_TWS                                     *)
  twsTime,      (* tws_hb->tws_time # 0                                    *)
  validId,      (* tws_valid_orderId # 0                                   *)
  conTimer,     (* lastConnectionTime is less than tws_conTimeout ago.     *)
  (* The current request. *)
  reqType, reqId,
  reqTimer,     (* currentRequest.age() <= tws_reqTimeout                  *)
  packet,
  (* workTodo *)
  simple,       (* The flags acc_status_todo, executions_todo, orders_todo *)
  curIndex,     (* curIndex of the two indexed lists.                      *)
  hist,         (* The HistTodo.                                           *)
  (* The rest of the world. *)
  output,       (* What dumpXml() wrote, one entry per packet.             *)
  hello,        (* The TWS has yet to send nextValidId on this connection. *)
  clock,        (* Its answer to reqCurrentTime on this connection: "idle",*)
                (* "asked" or "answered".                                  *)
  pending,      (* The requests sent on this connection it has to answer.  *)
  faults        (* Refusals, losses and timeouts so far, up to MaxFaults.  *)

thread == <<pc, abort>>
conn   == <<state, connected, connectivity, twsTime, validId, conTimer>>
req    == <<reqType, reqId, reqTimer, packet>>
todo   == <<simple, curIndex, hist>>
tws    == <<hello, clock, pending>>

vars == <<thread, conn, req, todo, tws, output, faults>>

(***************************************************************************)
(* Packets.                                                                *)
(***************************************************************************)

NoPacket   == [mode |-> "NULL", error |-> "NONE"]
Recording  == [mode |-> "RECORD", error |-> "NONE"]
Closed(e)  == [mode |-> "CLOSED", error |-> e]

Packets == {NoPacket, Recording} \cup {Closed(e) : e \in Errors}

Finished(p) == p.mode = "CLOSED"

(* Faulty: closeError() without its test of the mode.                       *)
CloseErrorAlways(p, e) == IF p.mode # "NULL" THEN Closed(e) ELSE p

(* Packet::closeError(): the first error stays.                            *)
CloseError(p, e) == IF p.mode = "RECORD" THEN Closed(e) ELSE p

(***************************************************************************)
(* Init and the thread.                                                    *)
(***************************************************************************)

Init ==
  /\ pc = "loop" /\ abort = "none"
  /\ state = "IDLE" /\ connected = FALSE /\ connectivity = FALSE
  /\ twsTime = FALSE /\ validId = FALSE /\ conTimer = FALSE
  /\ reqType = "NONE" /\ reqId = 0 /\ reqTimer = FALSE /\ packet = NoPacket
  /\ simple = SimpleWork
  /\ curIndex = [t \in IndexedTypes |-> -1]
  /\ hist = NewHistTodo
  /\ output = << >>
  /\ hello = FALSE /\ clock = "idle" /\ pending = {}
  /\ faults = 0

Goto(label) == pc' = label /\ UNCHANGED abort

(* A failed assert() ends the process.                                     *)
Abort(assertion) ==
  /\ pc' = "abort" /\ abort' = assertion
  /\ UNCHANGED <<conn, req, todo, tws, output>>

Fault == faults < MaxFaults /\ faults' = faults + 1

(* selectStuff() returns and the handler of the state runs.                *)
Wake == pc = "select" /\ Goto("loop")
        /\ UNCHANGED <<conn, req, todo, tws, output, faults>>

(* The two clocks; both only matter while something waits for them.        *)
ConTimerExpires ==
  /\ pc \notin {"quit", "abort"} /\ conTimer
  /\ IF connected /\ state = "WAIT_TWS_CON" THEN Fault ELSE UNCHANGED faults
  /\ conTimer' = FALSE
  /\ UNCHANGED <<thread, state, connected, connectivity, twsTime, validId,
                 req, todo, tws, output>>

ReqTimerExpires ==
  /\ pc \notin {"quit", "abort"} /\ reqTimer /\ reqType # "NONE" /\ Fault
  /\ reqTimer' = FALSE
  /\ UNCHANGED <<thread, conn, reqType, reqId, packet, todo, tws, output>>

(***************************************************************************)
(* The connection.                                                         *)
(***************************************************************************)

(* What twsConnectionClosed() leaves of the connection, and of the packet. *)
LinkDown ==
  /\ connected' = FALSE /\ conTimer' = TRUE
  /\ hello' = FALSE /\ clock' = "idle" /\ pending' = {}
  /\ UNCHANGED <<state, twsTime, validId>>

(* Faulty: the connectivity flag stays as it is.                           *)
LinkDownOnly == LinkDown /\ UNCHANGED connectivity

CloseLink == LinkDown /\ connectivity' = FALSE

(* Faulty: the packet is left open.                                        *)
LeavePacket == packet

InterruptPacket ==
  IF reqType = "NONE" THEN packet ELSE CloseError(packet, "TWSCON")

(* twsConnectionClosed(), which disconnectTWS() and every socket error     *)
(* call.  The TWS forgets the requests of the connection.                  *)
ConnectionClosed ==
  IF reqType \in SimpleTypes /\ ~Finished(packet)
  THEN Abort("twsConnectionClosed: TODO repeat")
  ELSE /\ CloseLink
       /\ packet' = InterruptPacket
       /\ Goto("select")
       /\ UNCHANGED <<reqType, reqId, reqTimer, todo, output>>

(* The socket breaks while the thread sleeps in selectStuff().             *)
ConnectionLost == pc = "select" /\ connected /\ Fault /\ ConnectionClosed

HandshakeDone == twsTime /\ validId

(* waitTwsCon(), one action for each way through it.                       *)
WaitTwsCon(connects) == pc = "loop" /\ state = "WAIT_TWS_CON" /\ connected = connects

ConnectFailed ==
  /\ WaitTwsCon(FALSE)
  /\ state' = "IDLE" /\ Goto("select")
  /\ UNCHANGED <<connected, connectivity, twsTime, validId, conTimer, req,
                 todo, tws, output, faults>>

ConnectFinished ==
  /\ WaitTwsCon(TRUE) /\ HandshakeDone
  /\ state' = "IDLE" /\ Goto("select")
  /\ UNCHANGED <<connected, connectivity, twsTime, validId, conTimer, req,
                 todo, tws, output, faults>>

(* reqCurrentTime() is sent again each time around while it is unanswered. *)
StillConnecting ==
  /\ WaitTwsCon(TRUE) /\ ~HandshakeDone /\ conTimer
  /\ clock' = IF ~twsTime /\ validId THEN "asked" ELSE clock
  /\ Goto("select")
  /\ UNCHANGED <<conn, req, todo, hello, pending, output, faults>>

ConnectTimeout ==
  /\ WaitTwsCon(TRUE) /\ ~HandshakeDone /\ ~conTimer
  /\ ConnectionClosed
  /\ UNCHANGED faults

(* Faulty: the time of the last connection is kept.                        *)
KeepHeartBeat == UNCHANGED twsTime

ResetHeartBeat == twsTime' = FALSE

(* connectTws(), called by idle().  The clock allows one attempt per       *)
(* tws_conTimeout.                                                         *)
ConnectTws ==
  /\ pc = "dispatch" /\ ~connected
  /\ \/ /\ connectivity
        /\ Abort("connectTws: !connectivity_IB_TWS") /\ UNCHANGED faults
     \/ /\ ~connectivity /\ conTimer
        /\ Goto("select") /\ UNCHANGED <<conn, req, todo, tws, output, faults>>
     \/ /\ ~connectivity /\ ~conTimer
        /\ conTimer' = TRUE /\ ResetHeartBeat /\ Goto("select")
        /\ \/ /\ state' = "WAIT_TWS_CON" /\ connected' = TRUE /\ connectivity' = TRUE
              /\ hello' = TRUE /\ UNCHANGED faults
           \/ /\ Fault
              /\ UNCHANGED <<state, connected, connectivity, hello>>
        /\ UNCHANGED <<validId, req, todo, clock, pending, output>>

(***************************************************************************)
(* waitData(): the first half of idle().                                   *)
(***************************************************************************)

WaitData == pc = "loop" /\ state = "IDLE"

NothingToWaitFor ==
  /\ WaitData /\ (packet = NoPacket \/ reqType = "NONE")
  /\ Goto("dispatch")
  /\ UNCHANGED <<conn, req, todo, tws, output, faults>>

StillWaiting ==
  /\ WaitData /\ packet.mode = "RECORD" /\ reqTimer
  /\ Goto("select")
  /\ UNCHANGED <<conn, req, todo, tws, output, faults>>

(* The error the packet ends with: a timeout if it is still open.          *)
Verdict == CloseError(packet, "TIMEOUT").error

(* The packet is finished or its time is over; a fin function files it.    *)
Finishing(types) ==
  /\ WaitData /\ reqType \in types
  /\ Finished(packet) \/ (packet.mode = "RECORD" /\ ~reqTimer)
  /\ UNCHANGED faults

(* Faulty: currentRequest is not closed.                                   *)
DropPacketOnly ==
  /\ packet' = NoPacket /\ Goto("dispatch")
  /\ UNCHANGED <<reqType, reqId, reqTimer, conn, tws>>

CloseRequest ==
  /\ packet' = NoPacket /\ reqType' = "NONE" /\ Goto("dispatch")
  /\ UNCHANGED <<reqId, reqTimer, conn, tws>>

Dump(what) == output' = Append(output, <<reqType, what>>)

(* finContracts() and finOptParams()                                       *)
FinIndexed ==
  /\ Finishing(IndexedTypes)
  /\ IF Verdict = "TWSCON" /\ ~MayRepeat(curIndex[reqType])
     THEN Abort("repeat: curIndex > 0")
     ELSE /\ curIndex' = IF Verdict = "TWSCON"
                         THEN [curIndex EXCEPT ![reqType] = Repeat(@)]
                         ELSE curIndex
          /\ IF Verdict = "NONE" THEN Dump(curIndex[reqType]) ELSE UNCHANGED output
          /\ CloseRequest
          /\ UNCHANGED <<simple, hist>>

(* Faulty: an answered request is put back in front, as if interrupted.     *)
FiledForRepeat(verdict) ==
  CancelForRepeat(hist, IF verdict \in {"NONE", "TWSCON"} THEN 0 ELSE 1)

(* finHist()                                                               *)
Filed(verdict) ==
  CASE verdict \in {"NONE", "NODATA", "NAV"} -> TellDone(hist)
    [] verdict = "TWSCON"  -> CancelForRepeat(hist, 0)
    [] verdict = "TIMEOUT" -> CancelForRepeat(hist, 1)
    [] verdict = "REQUEST" -> CancelForRepeat(hist, 2)

FinHist ==
  /\ Finishing({"HIST"})
  /\ IF hist.checkedOut = NoJob THEN Abort("HistTodo: checkedOutRequest != NULL")
     ELSE /\ hist' = Filed(Verdict)
          /\ IF Verdict = "NONE" THEN Dump(hist.checkedOut) ELSE UNCHANGED output
          /\ CloseRequest
          /\ UNCHANGED <<simple, curIndex>>

(* The three simple requests are written out whatever came of them.        *)
FinSimple ==
  /\ Finishing(SimpleTypes)
  /\ Dump(0) /\ CloseRequest /\ UNCHANGED todo

(***************************************************************************)
(* The second half of idle(): nextReqType() and the request it names.      *)
(***************************************************************************)

CountLeftOf(t) == CountLeft(Count[t], curIndex[t])

(* nextReqType() asks the lists in this order.                             *)
Rank == [ACC_STATUS |-> 1, EXECUTIONS |-> 2, ORDERS |-> 3,
         CONTRACT_DETAILS |-> 4, OPT_PARAMS |-> 5, HIST |-> 6]

HasWork(t) ==
  \/ t \in simple
  \/ t \in IndexedTypes /\ CountLeftOf(t) > 0
  \/ t = "HIST" /\ hist.left # << >>

Dispatch(t) ==
  /\ pc = "dispatch" /\ connected
  /\ HasWork(t)
  /\ \A u \in RequestTypes : HasWork(u) => Rank[t] <= Rank[u]

(* Faulty: the request id is not counted up.                               *)
SendWithOldId(t) ==
  /\ reqType' = t /\ reqTimer' = TRUE /\ packet' = Recording
  /\ pending' = pending \cup {[type |-> t, id |-> reqId]}
  /\ Goto("select")
  /\ UNCHANGED <<conn, reqId, hello, clock, output, faults>>

(* nextRequest(), record() and the call of the client.                     *)
SendRequest(t) ==
  /\ reqType' = t /\ reqId' = reqId + 1 /\ reqTimer' = TRUE
  /\ packet' = Recording
  /\ pending' = pending \cup {[type |-> t, id |-> reqId + 1]}
  /\ Goto("select")
  /\ UNCHANGED <<conn, hello, clock, output, faults>>

ReqSimple(t) ==
  /\ Dispatch(t)
  /\ simple' = simple \ {t}
  /\ SendRequest(t)
  /\ UNCHANGED <<curIndex, hist>>

(* reqContractDetails() and reqOptParams(), when the rate limit lets them  *)
ReqIndexed(t) ==
  /\ Dispatch(t)
  /\ curIndex' = [curIndex EXCEPT ![t] = @ + 1]
  /\ SendRequest(t)
  /\ UNCHANGED <<simple, hist>>

(* reqHistoricalData(): checkoutOpt() picks one of the requests left.      *)
ReqHist(i) ==
  /\ Dispatch("HIST")
  /\ IF hist.checkedOut # NoJob
     THEN Abort("checkoutOpt: checkedOutRequest == NULL") /\ UNCHANGED faults
     ELSE /\ hist' = Checkout(hist, hist.left[i])
          /\ SendRequest("HIST")
          /\ UNCHANGED <<simple, curIndex>>

(* The rate limit, or the pacing of checkoutOpt(), says to wait.           *)
Paced ==
  /\ \E t \in IndexedTypes \cup {"HIST"} : Dispatch(t)
  /\ Goto("select")
  /\ UNCHANGED <<conn, req, todo, tws, output, faults>>

NoMoreWork ==
  /\ pc = "dispatch" /\ connected
  /\ \A t \in RequestTypes : ~HasWork(t)
  /\ Goto("quit")
  /\ UNCHANGED <<conn, req, todo, tws, output, faults>>

(***************************************************************************)
(* The callbacks that selectStuff() delivers.                              *)
(***************************************************************************)

Callback == pc = "select" /\ connected

NextValidId ==
  /\ Callback /\ hello
  /\ hello' = FALSE
  /\ validId' = (validId \/ state = "WAIT_TWS_CON")
  /\ UNCHANGED <<thread, state, connected, connectivity, twsTime, conTimer,
                 req, todo, clock, pending, output, faults>>

CurrentTime ==
  /\ Callback /\ clock = "asked"
  /\ clock' = "answered" /\ twsTime' = TRUE
  /\ UNCHANGED <<thread, state, connected, connectivity, validId, conTimer,
                 req, todo, hello, pending, output, faults>>

(* The account and order callbacks do not look at the request id.          *)
IsCurrent(r) == r.type = reqType /\ (r.type \in SimpleTypes \/ r.id = reqId)

Answered(r) == pending' = pending \ {r} /\ UNCHANGED <<hello, clock>>

AppendAssertion(t) == IF t = "HIST" THEN "twsHistoricalData: !packet->finished()"
                      ELSE "append: mode == RECORD"

(* A row of an answer that is not complete yet: append() adds it to the    *)
(* packet, whose rows are not modelled, and wants the packet open.         *)
Row(r) ==
  /\ Callback /\ r \in pending /\ r.type \notin SimpleTypes
  /\ IsCurrent(r) /\ packet.mode # "RECORD"
  /\ Abort(AppendAssertion(r.type)) /\ UNCHANGED faults

(* The last row of an answer, or the message that ends it.                 *)
End(r) ==
  /\ Callback /\ r \in pending
  /\ IF IsCurrent(r) /\ r.type \notin SimpleTypes /\ packet.mode # "RECORD"
     THEN Abort(AppendAssertion(r.type)) /\ UNCHANGED faults
     ELSE /\ Answered(r)
          /\ packet' = IF IsCurrent(r) THEN [packet EXCEPT !.mode = "CLOSED"]
                       ELSE packet
          /\ UNCHANGED <<thread, conn, reqType, reqId, reqTimer, todo, output,
                         faults>>

(* twsError() for a request: the messages that errorContracts() and        *)
(* errorHistData() know, each with the error it closes the packet with.    *)
ContractError(e) ==
  CASE e = "no security definition" -> IF connectivity THEN "REQUEST" ELSE "TIMEOUT"
    [] e = "validation"             -> "REQUEST"

HistError(e) ==
  CASE e = "no security definition" -> IF connectivity THEN "REQUEST" ELSE "TIMEOUT"
    [] e = "pacing violation"       -> "TWSCON"
    [] e = "no data"                -> "NODATA"
    [] e \in {"not available", "no HMDS route"} -> "NAV"
    [] e \in {"no permission", "unknown contract", "validation"} -> "REQUEST"

ContractErrors == {"no security definition", "validation"}
HistErrors == ContractErrors \cup {"pacing violation", "no data", "not available",
                                   "no HMDS route", "no permission", "unknown contract"}

(* The errors after which a request is repeated count as faults.           *)
Repeats(e) == e = "pacing violation" \/ (e = "no security definition" /\ ~connectivity)

(* ids: only these requests carry an id the TWS can send an error for.     *)
HasId(r) == r.type \notin {"ACC_STATUS", "ORDERS"}

TwsError(r, e) ==
  /\ Callback /\ r \in pending /\ HasId(r)
  /\ IF Repeats(e) THEN Fault ELSE UNCHANGED faults
  /\ UNCHANGED <<simple, curIndex>>
  /\ \/ /\ r.id = reqId /\ reqType \in IndexedTypes /\ e \in ContractErrors
        /\ packet' = CloseError(packet, ContractError(e))
        /\ UNCHANGED hist
     \/ /\ r.id = reqId /\ reqType = "HIST" /\ e \in HistErrors
        /\ hist.checkedOut # NoJob
        /\ packet' = CloseError(packet, HistError(e))
        /\ hist' = CASE e = "no HMDS route" -> SkipByNodata(hist)
                     [] e = "no permission" -> SkipByPerm(hist)
                     [] OTHER -> hist
     \/ /\ r.id # reqId \/ reqType = "NONE"
        /\ UNCHANGED <<packet, hist>>
  /\ Answered(r)
  /\ UNCHANGED <<thread, conn, reqType, reqId, reqTimer, output>>

(* The two asserts on the way: an error for one of the simple requests,    *)
(* and HistTodo::current() without a request checked out.                  *)
TwsErrorAsserts(r) ==
  /\ Callback /\ r \in pending /\ HasId(r) /\ r.id = reqId
  /\ \/ reqType \in SimpleTypes /\ Abort("twsError: request type")
     \/ reqType = "HIST" /\ hist.checkedOut = NoJob
        /\ Abort("HistTodo: checkedOutRequest != NULL")
  /\ UNCHANGED faults

(* twsError() with id -1: 1100 and 2110 report broken connectivity, 1101   *)
(* and 1102 report it restored.                                            *)
ConnectivityLost ==
  /\ Callback /\ connectivity
  /\ connectivity' = FALSE
  /\ UNCHANGED <<thread, state, connected, twsTime, validId, conTimer, req,
                 todo, tws, output, faults>>

ConnectivityRestored ==
  /\ Callback
  /\ connectivity' = TRUE
  /\ IF reqType = "HIST"
     THEN Fault /\ packet' = CloseError(packet, "TWSCON")
     ELSE UNCHANGED <<faults, packet>>
  /\ UNCHANGED <<thread, state, connected, twsTime, validId, conTimer,
                 reqType, reqId, reqTimer, todo, tws, output>>

(***************************************************************************)
(* The specification.                                                      *)
(***************************************************************************)

(* One pass of the event loop, from the return of selectStuff() to the     *)
(* next call.                                                              *)
Handler ==
  \/ ConnectFailed \/ ConnectFinished \/ StillConnecting \/ ConnectTimeout
  \/ NothingToWaitFor \/ StillWaiting \/ FinIndexed \/ FinHist \/ FinSimple
  \/ ConnectTws
  \/ \E t \in SimpleTypes : ReqSimple(t)
  \/ \E t \in IndexedTypes : ReqIndexed(t)
  \/ \E i \in DOMAIN hist.left : ReqHist(i)
  \/ Paced \/ NoMoreWork

Callbacks ==
  \/ NextValidId \/ CurrentTime
  \/ \E r \in pending : Row(r) \/ End(r) \/ TwsErrorAsserts(r)
  \/ \E r \in pending, e \in HistErrors : TwsError(r, e)
  \/ ConnectivityLost \/ ConnectivityRestored \/ ConnectionLost

Terminated == pc \in {"quit", "abort"} /\ UNCHANGED vars

Next ==
  \/ Wake \/ Handler \/ Callbacks
  \/ ConTimerExpires \/ ReqTimerExpires
  \/ Terminated

Spec == Init /\ [][Next]_vars

(* The loop runs and the clock advances; what is paced is let through once *)
(* the clock has advanced; a TWS that stays connected answers.             *)
EndCurrent == \E r \in pending : IsCurrent(r) /\ End(r)

Fairness ==
  /\ WF_vars(Wake) /\ WF_vars(Handler) /\ WF_vars(ConTimerExpires)
  /\ SF_vars(\E t \in IndexedTypes : ReqIndexed(t))
  /\ SF_vars(\E i \in DOMAIN hist.left : ReqHist(i))
  /\ SF_vars(NextValidId) /\ SF_vars(CurrentTime) /\ SF_vars(EndCurrent)

FairSpec == Spec /\ Fairness

(***************************************************************************)
(* Properties.                                                             *)
(***************************************************************************)

PendingType == [type : RequestTypes, id : Nat]

Assertions ==
  {"none", "twsConnectionClosed: TODO repeat", "connectTws: !connectivity_IB_TWS",
   "repeat: curIndex > 0", "HistTodo: checkedOutRequest != NULL",
   "checkoutOpt: checkedOutRequest == NULL", "twsError: request type",
   "twsHistoricalData: !packet->finished()", "append: mode == RECORD"}

(* Every variable has its type.                                            *)
ThreadTypes ==
  /\ pc \in {"select", "loop", "dispatch", "quit", "abort"}
  /\ abort \in Assertions

ConnTypes ==
  /\ state \in {"WAIT_TWS_CON", "IDLE"}
  /\ connected \in BOOLEAN /\ connectivity \in BOOLEAN
  /\ twsTime \in BOOLEAN /\ validId \in BOOLEAN /\ conTimer \in BOOLEAN

ReqTypes ==
  /\ reqType \in RequestTypes \cup {"NONE"} /\ reqId \in Nat
  /\ reqTimer \in BOOLEAN /\ packet \in Packets

TodoTypes ==
  /\ simple \subseteq SimpleTypes
  /\ curIndex \in [IndexedTypes -> Int]
  /\ \A t \in IndexedTypes : curIndex[t] \in -1 .. Count[t] - 1
  /\ hist \in HistTodoType

TwsTypes ==
  /\ hello \in BOOLEAN /\ clock \in {"idle", "asked", "answered"}
  /\ pending \subseteq PendingType

TypeOK ==
  /\ ThreadTypes /\ ConnTypes /\ ReqTypes /\ TodoTypes /\ TwsTypes
  /\ output \in Seq(RequestTypes \X Nat)
  /\ faults \in 0..MaxFaults

(* The current request, its packet and the job checked out of the work list*)
(* always agree: there is a packet exactly while there is a request, a job *)
(* is checked out exactly while the request is for historical data, and no *)
(* request is open while the connection is being set up.  The callbacks    *)
(* use the three together without looking at more than one of them.        *)
Agreement ==
  /\ packet = NoPacket <=> reqType = "NONE"
  /\ hist.checkedOut # NoJob <=> reqType = "HIST"
  /\ state = "WAIT_TWS_CON" => reqType = "NONE"
  /\ pc = "dispatch" => reqType = "NONE" /\ state = "IDLE"

(* No historical-data job is lost or doubled by any sequence of retries,   *)
(* skips, timeouts and lost connections: each is in one list, once.        *)
Conservation ==
  /\ Distinct(hist.left)
  /\ Elems(hist.left) \cap (hist.done \cup hist.errs) = {}
  /\ hist.done \cap hist.errs = {}
  /\ hist.checkedOut \notin Elems(hist.left) \cup hist.done \cup hist.errs
  /\ HistJobs \subseteq Elems(hist.left) \cup hist.done \cup hist.errs
                         \cup {hist.checkedOut}

(* The TWS can only answer the current request with an answer to it: a     *)
(* late answer to a request that timed out never carries the current id,   *)
(* and what does carry it is of the current type.                          *)
AnswersMatch ==
  \A r \in pending :
    /\ r.id <= reqId
    /\ reqType # "NONE" /\ r.id = reqId => r.type = reqType
    /\ \A q \in pending : q.id = r.id => q = r

(* Without a connection the connectivity flag is down, as connectTws()     *)
(* asserts; an idle connection has finished its handshake; and of all      *)
(* assertions only these four can fail.                                    *)
ConnectionSound ==
  /\ ~connected /\ abort = "none" => ~connectivity
  /\ connected /\ state = "IDLE" => HandshakeDone /\ clock = "answered"
  /\ abort \in {"none", "twsConnectionClosed: TODO repeat", "repeat: curIndex > 0",
                "twsError: request type", "twsHistoricalData: !packet->finished()"}

(* No answer is written out twice, whatever was repeated.                  *)
DumpedOnce == Distinct(output)

(* The program quits by itself only when all lists are worked off and each *)
(* historical-data job is done or given up.                                *)
QuitComplete ==
  pc = "quit" =>
    /\ simple = {} /\ \A t \in IndexedTypes : CountLeftOf(t) = 0
    /\ reqType = "NONE" /\ hist.done \cup hist.errs = HistJobs

(* Once an answer is complete, or refused, no later message, timeout or    *)
(* loss of the connection changes the verdict before it is filed.          *)
FirstVerdictStands ==
  [][Finished(packet) => packet' \in {packet, NoPacket}]_packet

(* A request goes out only when no other one is open, and only when the    *)
(* TWS has answered reqCurrentTime on this very connection: what an earlier*)
(* connection left behind does not count.                                  *)
OneReadyRequest ==
  [][connected /\ clock = "answered" /\ reqType = "NONE" /\ reqId' = reqId + 1]_reqId

(* Whatever the TWS sends, as long as it answers: with finitely many faults*)
(* the program ends.                                                       *)
Termination == <>(pc \in {"quit", "abort"})

(* The lists of historical-data jobs implement the abstract ledger.        *)
StatusOf(j) ==
  IF j = hist.checkedOut THEN "asked"
  ELSE IF j \in hist.done THEN "done"
  ELSE IF j \in hist.errs THEN "failed"
  ELSE "waiting"

Ledger == INSTANCE JobLedger
            WITH Jobs <- HistJobs, status <- [j \in HistJobs |-> StatusOf(j)]

ImplementsLedger == Ledger!Spec

(***************************************************************************)
(* What the source says of itself and the code does not keep.              *)
(***************************************************************************)

(* tws_meta.cpp:326 and :420 assert that only a request after the first is *)
(* ever repeated.                                                          *)
RepeatAsserted == abort # "repeat: curIndex > 0"

(* twsdo.cpp:949 asserts that no row comes for a packet that is closed.    *)
RowsAsserted == abort # "twsHistoricalData: !packet->finished()"

(* twsdo.cpp:713: a contract request refused while the connectivity is     *)
(* broken is pushed back, that is, stays among those left.                 *)
RefusedIsPushedBack ==
  [][\A t \in IndexedTypes :
       reqType = t /\ packet = Closed("TIMEOUT") /\ packet' = NoPacket
         => CountLeftOf(t)' > CountLeftOf(t)]_vars

(* twsdo.cpp:341: nextValidId is waited for before the time is asked for.  *)
NextValidIdFirst == [][clock = "idle" /\ clock' = "asked" => ~hello]_vars
=============================================================================
