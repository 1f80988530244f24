------------------------------- MODULE Orders -------------------------------
(***************************************************************************)
(* The orders of twsdo (twsdo.cpp, placeAllOrders() to finPlaceOrder();    *)
(* tws_meta.cpp, PlaceOrderTodo and PacketPlaceOrder).                     *)
(*                                                                         *)
(* Orders are placed when all other requests are worked off, so there is   *)
(* no current request any more; but the id of the last one is still what   *)
(* twsError() compares the id of a message with, and market data that were *)
(* asked for before are still delivered.  Requests, market data and orders *)
(* draw their ids from three counters that know nothing of each other.     *)
(*                                                                         *)
(* The thread is at pc = "select" while callbacks run, then in waitData()  *)
(* (pc = "loop") and placeAllOrders() (pc = "place").                      *)
(***************************************************************************)
EXTENDS RateLimit, Sequences, FiniteSets

CONSTANTS
  Files,    (* The work files: sequences of orders to place.               *)
  Sessions, (* What was sent before: [last, mkt], the id of the last       *)
            (* request and the number of market-data requests.             *)
  FirstIds, (* What the TWS may say with its first nextValidId.            *)
  MaxFaults (* Bounds how often the connection is lost.                    *)

(* A PlaceOrder: orderId is 0 when the program is to choose the id.  what  *)
(* is "cancel" for the action CANCEL with a quantity of 0.                 *)
PlaceOrders == [orderId : Nat, transmit : BOOLEAN, whatIf : BOOLEAN,
                what : {"place", "cancel"}]

ASSUME FilesAssumption    == Files \subseteq Seq(PlaceOrders)
ASSUME SessionsAssumption == Sessions \subseteq [last : Nat, mkt : Nat]
ASSUME FirstIdsAssumption == FirstIds \subseteq Nat \ {0}
ASSUME FaultsAssumption   == MaxFaults \in Nat

VARIABLES
  pc, abort,    (* As in TwsDL.                                            *)
  connected,
  file, session,
  rate,         (* rate_limit                                              *)
  validId,      (* tws_valid_orderId                                       *)
  ids,          (* The id each order of the file was placed with: the      *)
                (* PlaceOrderTodo has handed out Len(ids) orders.          *)
  orders, old,  (* p_orders and p_orders_old: a packet for each id.        *)
  output,       (* The ids dumpXml() was called for.                       *)
  (* The rest of the world. *)
  slotSent,     (* Orders sent in the current slot of the rate limit.      *)
  refused,      (* The orders the TWS has refused, or warned about.        *)
  faults

vars == <<pc, abort, connected, file, session, rate, validId, ids, orders,
          old, output, slotSent, refused, faults>>

Abort(assertion) == pc' = "abort" /\ abort' = assertion

Goto(label) == pc' = label /\ UNCHANGED abort

Init ==
  /\ pc = "loop" /\ abort = "none"
  /\ connected = FALSE
  /\ file \in Files /\ session \in Sessions
  /\ rate = NewRateLimit /\ validId = 0
  /\ ids = << >> /\ orders = << >> /\ old = << >> /\ output = << >>
  /\ slotSent = 0 /\ refused = {} /\ faults = 0

(***************************************************************************)
(* PacketPlaceOrder.  Of its rows only the kinds are kept, without that of *)
(* a status that leaves something to fill; of its time_sent whether it is  *)
(* 5000 ms ago.                                                            *)
(***************************************************************************)

Errors == {"NONE", "REQUEST"}
Rows   == {"error", "filled", "openOrder"}

Packets == [mode : {"RECORD", "CLOSED"}, error : Errors, request : PlaceOrders,
            rows : SUBSET Rows, due : BOOLEAN]

(* Faulty: the packet does not get to know the id of its order.            *)
RecordUnnamed(id, po) == [mode |-> "RECORD", error |-> "NONE", due |-> FALSE,
                          request |-> po, rows |-> {}]

Record(id, po) == [mode |-> "RECORD", error |-> "NONE", due |-> FALSE,
                   request |-> [po EXCEPT !.orderId = id], rows |-> {}]

(* Faulty: the request is left as it was.                                  *)
ModifyTime(p, po) == [p EXCEPT !.due = FALSE]

Modify(p, po) == [p EXCEPT !.request = po, !.due = FALSE]

Finished(p) == p.mode = "CLOSED"

(* Faulty: an error closes a packet that is closed already.                *)
CloseErrorAgain(p, e) == [p EXCEPT !.mode = "CLOSED", !.error = e]

(* Packet::closeError()                                                    *)
CloseError(p, e) ==
  IF p.mode = "RECORD" THEN [p EXCEPT !.mode = "CLOSED", !.error = e] ELSE p

(* append(): an order that has nothing remaining is closed, and a whatIf   *)
(* order by its openOrder.                                                 *)
AppendRow(p, row) ==
  [p EXCEPT !.rows = @ \cup ({row} \cap Rows),
            !.mode = IF row = "filled" \/ (row = "openOrder" /\ p.request.whatIf)
                     THEN "CLOSED" ELSE @]

(***************************************************************************)
(* Placing.                                                                *)
(***************************************************************************)

CountLeft == Len(file) - Len(ids)

(* placeOrder(), one round of the loop in placeAllOrders().                *)
PlaceOrder ==
  /\ pc = "place" /\ connected
  /\ CountLeft > 0 /\ CanSend(rate, 1)
  /\ LET po == file[Len(ids) + 1]
         id == IF po.orderId = 0 THEN validId ELSE po.orderId
     IN  /\ ids' = Append(ids, id)
         /\ validId' = IF po.orderId = 0 THEN validId + 1 ELSE validId
         /\ \/ /\ id \notin DOMAIN orders
               /\ orders' = [i \in DOMAIN orders \cup {id} |->
                              IF i = id THEN Record(id, po) ELSE orders[i]]
               /\ Goto("place")
            \/ /\ id \in DOMAIN orders
               /\ orders[id].mode = "RECORD" /\ po.orderId = id
               /\ orders' = [orders EXCEPT ![id] = Modify(@, po)]
               /\ Goto("place")
            \/ /\ id \in DOMAIN orders /\ orders[id].mode # "RECORD"
               /\ Abort("modify: mode == RECORD") /\ UNCHANGED orders
            \/ /\ id \in DOMAIN orders
               /\ orders[id].mode = "RECORD" /\ po.orderId # id
               /\ Abort("modify: orderId") /\ UNCHANGED orders
  /\ rate' = Counted(rate, 1) /\ slotSent' = slotSent + 1
  /\ UNCHANGED <<connected, file, session, old, output, refused, faults>>

(* The end of idle(), when placeAllOrders() has nothing left to send or may*)
(* not send it.  With market data the program does not quit.               *)
PlaceAllOrdersDone ==
  /\ pc = "place" /\ connected
  /\ CountLeft = 0 \/ ~CanSend(rate, 1)
  /\ IF session.mkt = 0 /\ CountLeft = 0 /\ DOMAIN orders = {}
     THEN Goto("quit") ELSE Goto("select")
  /\ UNCHANGED <<connected, file, session, rate, validId, ids, orders, old,
                 output, slotSent, refused, faults>>

(***************************************************************************)
(* finPlaceOrder(), called by waitData().                                  *)
(***************************************************************************)

(* Faulty: an order that is not transmitted waits for an answer.           *)
MayCloseFinished(p) == Finished(p)

(* A packet that is finished, or is not transmitted and was not refused in *)
(* 5000 ms.                                                                *)
MayClose(p) == Finished(p) \/ (~p.request.transmit /\ p.due)

(* Faulty: what is filed stays among the open orders.                      *)
Remaining(ps) == ps

StillOpen(ps) ==
  [id \in {i \in DOMAIN ps : ~MayClose(ps[i])} |-> ps[id]]

Fin(ps) == [id \in {i \in DOMAIN ps : MayClose(ps[i])} |-> CloseError(ps[id], "NONE")]

(* std::map iterates over its keys in order.                               *)
InOrder(S) == CHOOSE s \in [1..Cardinality(S) -> S] :
                \A i, j \in DOMAIN s : i < j => s[i] < s[j]

FileAway(filed) ==
  old' = [id \in DOMAIN old \cup filed |->
           IF id \in DOMAIN old THEN old[id] ELSE Fin(orders)[id]]

(* The first packet whose id an order before it had is closed and dumped,  *)
(* and only then found to be one too many; those before it are filed.      *)
FinPlaceOrder ==
  /\ pc = "loop"
  /\ LET closed == DOMAIN Fin(orders)
         twice  == closed \cap DOMAIN old
     IN  \/ /\ twice = {}
            /\ FileAway(closed) /\ orders' = StillOpen(orders)
            /\ output' = output \o InOrder(closed)
            /\ Goto(IF connected THEN "place" ELSE "select")
         \/ \E id \in twice :
              LET filed == {i \in closed : i < id}
              IN  /\ filed \cap twice = {} /\ FileAway(filed)
                  /\ orders' = [i \in DOMAIN orders \ filed |->
                                 IF i = id THEN Fin(orders)[i] ELSE orders[i]]
                  /\ output' = Append(output \o InOrder(filed), id)
                  /\ Abort("p_orders_old: no such id")
  /\ UNCHANGED <<connected, file, session, rate, validId, ids, slotSent,
                 refused, faults>>

(***************************************************************************)
(* The callbacks.                                                          *)
(***************************************************************************)

Callback == pc = "select" /\ connected

(* The three callbacks find the packet of an order in the same way.  What  *)
(* comes for an order that is in p_orders_old is appended there, where     *)
(* nothing reads it.                                                       *)
Deliver(id, NewPacket) ==
  \/ /\ id \in DOMAIN orders /\ id \notin DOMAIN old
     /\ orders' = [orders EXCEPT ![id] = NewPacket]
     /\ UNCHANGED <<pc, abort>>
  \/ /\ id \in DOMAIN orders /\ id \in DOMAIN old
     /\ Abort("p_orders_old: no such id") /\ UNCHANGED orders
  \/ id \notin DOMAIN orders /\ UNCHANGED <<pc, abort, orders>>

(* twsOrderStatus() and twsOpenOrder()                                     *)
OrderRow(id, row) ==
  /\ Callback
  /\ Deliver(id, AppendRow(orders[id], row))
  /\ UNCHANGED <<connected, file, session, rate, validId, ids, old, output,
                 slotSent, refused, faults>>

(* Faulty: 2102 closes the packet like any other error.                    *)
ErrorRowCloses(p, code) == CloseError([p EXCEPT !.rows = @ \cup {"error"}], "REQUEST")

(* Faulty: an error is a row like any other.                               *)
ErrorRowOnly(p, code) == [p EXCEPT !.rows = @ \cup {"error"}]

ErrorRow(p, code) ==
  LET told == [p EXCEPT !.rows = @ \cup {"error"}]
  IN  IF code = "still processed" THEN told ELSE CloseError(told, "REQUEST")

(* twsError() looks at the id of the last request before it looks for an   *)
(* order, although that request is closed.                                 *)
ForClosedRequest(id) == id = session.last

(* twsError() with errorPlaceOrder().  code 2102 says that the order is    *)
(* still processed and cannot be modified yet.                             *)
TwsError(id, code) ==
  /\ Callback
  /\ IF ForClosedRequest(id) THEN UNCHANGED <<pc, abort, orders>>
     ELSE Deliver(id, ErrorRow(orders[id], code))
  /\ UNCHANGED <<connected, file, session, rate, validId, ids, old, output,
                 slotSent, faults>>

OrderError(id, code) ==
  /\ TwsError(id, code)
  /\ refused' = IF code = "still processed" THEN refused ELSE refused \cup {id}

(* The ids of market data are 1, 2 and so on.                              *)
MktDataError(id) == TwsError(id, "no security definition") /\ UNCHANGED refused

(* twsConnectionClosed()                                                   *)
ConnectionLost ==
  /\ pc = "select" /\ connected /\ faults < MaxFaults
  /\ faults' = faults + 1
  /\ IF DOMAIN orders # {}
     THEN Abort("twsConnectionClosed: p_orders.empty()") /\ UNCHANGED connected
     ELSE connected' = FALSE /\ UNCHANGED <<pc, abort>>
  /\ UNCHANGED <<file, session, rate, validId, ids, orders, old, output,
                 slotSent, refused>>

(* The TWS says an id above all it has seen.                               *)
NextValidIds ==
  LET seen == {ids[i] : i \in DOMAIN ids} \cup FirstIds
  IN  IF validId = 0 THEN FirstIds
      ELSE {m + 1 : m \in {x \in seen : \A y \in seen : y <= x}}

(* From connectTws() to the end of waitTwsCon(), see TwsDL.  After the     *)
(* first connection nextValidId() may come when waitTwsCon() is over, and  *)
(* is ignored.  The handshake does not look at the answer of can_send().   *)
Connected ==
  /\ pc = "select" /\ ~connected
  /\ connected' = TRUE
  /\ \/ validId' \in NextValidIds
     \/ validId # 0 /\ UNCHANGED validId
  /\ rate' = Counted(rate, 2)
  /\ UNCHANGED <<pc, abort, file, session, ids, orders, old, output, slotSent,
                 refused, faults>>

Wake ==
  /\ pc = "select" /\ Goto("loop")
  /\ UNCHANGED <<connected, file, session, rate, validId, ids, orders, old,
                 output, slotSent, refused, faults>>

(* 5000 ms after an order was sent, and a new slot of the rate limit.      *)
OrderDue(id) ==
  /\ pc \in {"select", "loop", "place"}
  /\ ~orders[id].due /\ ~orders[id].request.transmit
  /\ orders' = [orders EXCEPT ![id].due = TRUE]
  /\ UNCHANGED <<pc, abort, connected, file, session, rate, validId, ids, old,
                 output, slotSent, refused, faults>>

SlotBegins ==
  /\ pc \in {"select", "loop", "place"} /\ ~rate.newSlot
  /\ rate' = NextSlot(rate) /\ slotSent' = 0
  /\ UNCHANGED <<pc, abort, connected, file, session, validId, ids, orders, old,
                 output, refused, faults>>

(***************************************************************************)
(* The specification.                                                      *)
(***************************************************************************)

Sent == {ids[i] : i \in DOMAIN ids}

(* What the TWS may say of an order that it has got.                       *)
OrderMessage(id) ==
  \/ \E row \in {"status", "filled", "openOrder"} : OrderRow(id, row)
  \/ \E code \in {"still processed", "refused"} : OrderError(id, code)

Terminated == pc \in {"quit", "abort"} /\ UNCHANGED vars

Next ==
  \/ PlaceOrder \/ PlaceAllOrdersDone \/ FinPlaceOrder
  \/ \E id \in Sent : OrderMessage(id)
  \/ \E id \in 1..session.mkt : MktDataError(id)
  \/ ConnectionLost \/ Connected \/ Wake
  \/ \E id \in DOMAIN orders : OrderDue(id)
  \/ SlotBegins \/ Terminated

(* The TWS ends every order that is transmitted: it fills it, refuses it,  *)
(* or tells what it would do.                                              *)
Ends(id) ==
  /\ ~Finished(orders[id]) /\ orders[id].request.transmit
  /\ \/ ~orders[id].request.whatIf /\ OrderRow(id, "filled")
     \/ orders[id].request.whatIf /\ OrderRow(id, "openOrder")
     \/ OrderError(id, "refused")

Fairness ==
  /\ WF_vars(PlaceAllOrdersDone \/ FinPlaceOrder \/ Wake) /\ WF_vars(SlotBegins)
  /\ SF_vars(PlaceOrder) /\ SF_vars(Connected)
  /\ WF_vars(\E id \in DOMAIN orders : OrderDue(id))
  /\ SF_vars(\E id \in DOMAIN orders : Ends(id))

Spec == Init /\ [][Next]_vars /\ Fairness

(***************************************************************************)
(* Properties.                                                             *)
(***************************************************************************)

Assertions == {"none", "modify: mode == RECORD", "modify: orderId",
               "p_orders_old: no such id", "twsConnectionClosed: p_orders.empty()"}

(* Every variable has its type; a packet is filed under the id of its      *)
(* request, as finPlaceOrder() asserts.                                    *)
TypeOK ==
  /\ pc \in {"select", "loop", "place", "quit", "abort"} /\ abort \in Assertions
  /\ connected \in BOOLEAN /\ file \in Files /\ session \in Sessions
  /\ rate \in RateLimitType /\ validId \in Nat
  /\ ids \in Seq(Nat \ {0}) /\ Len(ids) <= Len(file)
  /\ DOMAIN orders \subseteq Sent /\ \A id \in DOMAIN orders :
       orders[id] \in Packets /\ orders[id].request.orderId = id
  /\ DOMAIN old \subseteq Sent /\ \A id \in DOMAIN old : old[id] \in Packets
  /\ output \in Seq(DOMAIN old) /\ slotSent \in Nat /\ refused \subseteq Sent
  /\ faults \in 0..MaxFaults

Distinct(s) == \A i, j \in DOMAIN s : s[i] = s[j] => i = j

(* As long as no two orders of the file got the same id, no order is both  *)
(* open and closed, and no assertion fails but that of a lost connection,  *)
(* which takes an open order.                                              *)
AssertsHold ==
  /\ Distinct(ids) =>
       /\ DOMAIN orders \cap DOMAIN old = {}
       /\ abort \in {"none", "twsConnectionClosed: p_orders.empty()"}
  /\ abort # "modify: mode == RECORD"
  /\ abort = "twsConnectionClosed: p_orders.empty()" => DOMAIN orders # {}

(* When the program quits, every order of the file was sent, and written   *)
(* out as the file had it last.  What is written out is filed, and nothing *)
(* is written out again but the order whose id was used before, on which   *)
(* finPlaceOrder() fails when it has dumped it.                            *)
QuitComplete ==
  /\ {output[i] : i \in DOMAIN output} = DOMAIN old
  /\ \A i, j \in DOMAIN output : i < j /\ output[i] = output[j] =>
       j = Len(output) /\ abort = "p_orders_old: no such id"
  /\ pc = "quit" =>
       /\ Len(ids) = Len(file) /\ DOMAIN old = Sent
       /\ \A i \in DOMAIN ids :
            (\A j \in DOMAIN ids : ids[j] = ids[i] => j <= i)
              => old[ids[i]].request = [file[i] EXCEPT !.orderId = ids[i]]

ClosedByRow(p) ==
  "filled" \in p.rows \/ (p.request.whatIf /\ "openOrder" \in p.rows)

(* An order is closed as good only when it was filled, or answered if it   *)
(* was a question, or the TWS has not refused it (finPlaceOrder(): "where  *)
(* we haven't received errors"); except when its id is that of the last    *)
(* request: then the refusal is taken for a message for a closed request.  *)
RefusalHeard ==
  [][\A id \in (DOMAIN old' \ DOMAIN old) \ {session.last} :
       old'[id].error = "NONE" => ClosedByRow(old'[id]) \/ id \notin refused]_old

(* No message the TWS sends after an order was closed changes what became  *)
(* of it.                                                                  *)
VerdictStands ==
  [][/\ \A id \in DOMAIN orders : Finished(orders[id]) =>
          \/ id \in DOMAIN orders' /\ orders'[id].error = orders[id].error
          \/ id \in DOMAIN old' /\ old'[id].error = orders[id].error
     /\ \A id \in DOMAIN old : id \in DOMAIN old' /\ old'[id] = old[id]]_<<orders, old>>

(* An order is filed as refused only when the TWS refused it; or when the  *)
(* TWS refused market data whose id the order has.                         *)
RefusedOnlyByItsOwn ==
  \A id \in DOMAIN old :
    old[id].error = "REQUEST" => id \in refused \/ id \in 1..session.mkt

(* No slot sees more orders than the rate limit, and none it did not count.*)
RateKept == slotSent <= Rate /\ (rate.newSlot \/ slotSent <= rate.count)

(* With a TWS that ends what it was to carry out the program comes to an   *)
(* end, unless a refusal was taken for a message for the last request, or  *)
(* market data keep it going.                                              *)
OrdersEnd ==
  <>(pc \in {"quit", "abort"} \/ session.mkt > 0 \/ session.last \in refused)
=============================================================================
