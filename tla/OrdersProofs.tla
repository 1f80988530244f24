---------------------------- MODULE OrdersProofs ----------------------------
(***************************************************************************)
(* What becomes of orders, for any work file, any earlier session and any  *)
(* rate.                                                                   *)
(***************************************************************************)
EXTENDS Orders, FiniteSetTheorems, TLAPS

SomeRow     == \E id \in Sent, row \in {"status", "filled", "openOrder"} : OrderRow(id, row)
SomeError   == \E id \in Sent, code \in {"still processed", "refused"} : OrderError(id, code)
SomeMktData == \E id \in 1..session.mkt : MktDataError(id)
SomeDue     == \E id \in DOMAIN orders : OrderDue(id)

(* The steps.                                                              *)
LEMMA StepCases ==
  ASSUME [Next]_vars
  PROVE  \/ PlaceOrder \/ PlaceAllOrdersDone \/ FinPlaceOrder \/ SomeRow \/ SomeError
         \/ SomeMktData \/ ConnectionLost \/ Connected \/ Wake \/ SomeDue \/ SlotBegins
         \/ UNCHANGED vars
BY DEF Next, OrderMessage, Terminated, SomeRow, SomeError, SomeMktData, SomeDue

(***************************************************************************)
(* The rate limit.                                                         *)
(***************************************************************************)

(* A slot that the limiter has not begun to count is empty; else all that  *)
(* was sent is counted.                                                    *)
Counting ==
  /\ rate \in RateLimitType /\ slotSent \in Nat /\ slotSent <= Rate
  /\ IF rate.newSlot THEN slotSent = 0 ELSE slotSent <= rate.count

LEMMA CountingKept ==
  ASSUME Counting, [Next]_vars
  PROVE  Counting'
<1>1. CASE PlaceOrder
  <2>1. rate' = Counted(rate, 1) /\ slotSent' = slotSent + 1 /\ CanSend(rate, 1)
    BY <1>1 DEF PlaceOrder
  <2>2. CASE rate.newSlot
    BY <2>1, <2>2, RateAssumption DEF Counting, Counted, CanSend, RateLimitType
  <2>3. CASE ~rate.newSlot
    <3>1. rate' = [rate EXCEPT !.count = @ + 1] /\ rate.count + 1 <= Rate
      BY <2>1, <2>3 DEF Counted, CanSend
    <3>2. QED
      BY <2>1, <2>3, <3>1, RateAssumption DEF Counting, RateLimitType
  <2>4. QED
    BY <2>2, <2>3
<1>2. CASE Connected
  <2>1. rate' = Counted(rate, 2) /\ slotSent' = slotSent
    BY <1>2 DEF Connected
  <2>2. rate' \in {rate, [rate EXCEPT !.count = @ + 2], [newSlot |-> FALSE, count |-> 2]}
    BY <2>1 DEF Counted
  <2>3. rate.newSlot => rate' = [newSlot |-> FALSE, count |-> 2]
    BY <2>1 DEF Counted
  <2>4. CASE rate.newSlot
    <3>1. rate'.newSlot = FALSE /\ rate'.count = 2
      BY <2>3, <2>4
    <3>2. [newSlot |-> FALSE, count |-> 2] \in RateLimitType
      BY DEF RateLimitType
    <3>3. rate' \in RateLimitType
      BY <2>3, <2>4, <3>2
    <3>4. slotSent = 0
      BY <2>4 DEF Counting
    <3>5. QED
      BY <2>1, <3>1, <3>3, <3>4, RateAssumption DEF Counting
  <2>5. CASE ~rate.newSlot
    <3>1. rate' \in {rate, [rate EXCEPT !.count = @ + 2]}
      BY <2>1, <2>5 DEF Counted
    <3>2. rate' \in RateLimitType /\ rate'.newSlot = FALSE /\ rate'.count >= rate.count
      BY <2>5, <3>1 DEF Counting, RateLimitType
    <3>3. QED
      BY <2>1, <2>5, <3>2, RateAssumption DEF Counting, RateLimitType
  <2>6. QED
    BY <2>4, <2>5
<1>3. CASE SlotBegins
  <2>1. rate' = [rate EXCEPT !.newSlot = TRUE] /\ slotSent' = 0
    BY <1>3 DEF SlotBegins, NextSlot
  <2>2. rate' \in RateLimitType /\ rate'.newSlot = TRUE
    BY <2>1 DEF Counting, RateLimitType
  <2>3. QED
    BY <2>1, <2>2, RateAssumption DEF Counting
<1>4. CASE \/ PlaceAllOrdersDone \/ FinPlaceOrder \/ SomeRow \/ SomeError
           \/ SomeMktData \/ ConnectionLost \/ Wake \/ SomeDue \/ UNCHANGED vars
  <2>1. UNCHANGED <<rate, slotSent>>
    BY <1>4 DEF PlaceAllOrdersDone, FinPlaceOrder, SomeRow, OrderRow, SomeError, OrderError,
                TwsError, SomeMktData, MktDataError, ConnectionLost, Wake, SomeDue, OrderDue, vars
  <2>2. QED
    BY <2>1 DEF Counting
<1>5. QED
  BY <1>1, <1>2, <1>3, <1>4, StepCases

(* No slot of the rate limit sees more orders than it allows, whatever else*)
(* was counted in it.                                                      *)
THEOREM RateHolds == Spec => []RateKept
<1>1. Init => Counting
  BY RateAssumption DEF Init, Counting, NewRateLimit, RateLimitType
<1>2. Counting /\ [Next]_vars => Counting'
  BY CountingKept
<1>3. Counting => RateKept
  BY DEF Counting, RateKept
<1>4. QED
  BY <1>1, <1>2, <1>3, PTL DEF Spec

(***************************************************************************)
(* The verdict on an order.                                                *)
(***************************************************************************)

Types ==
  /\ file \in Files /\ session \in Sessions
  /\ validId \in Nat /\ ids \in Seq(Nat)
  /\ \A id \in DOMAIN orders : orders[id] \in Packets

(* The orders that were sent are open or filed, and only these are refused.*)
Known == Sent \subseteq DOMAIN orders \cup DOMAIN old /\ refused \subseteq Sent

(* What closes a packet is a row or a refusal, but for the packet whose id *)
(* is filed already: finPlaceOrder() closes it before it fails.            *)
Told ==
  \A id \in DOMAIN orders \ DOMAIN old :
    Finished(orders[id]) => orders[id].error = "REQUEST" \/ ClosedByRow(orders[id])

(* A refusal closes the packet, but for an id the program had before.      *)
Heard ==
  \A id \in DOMAIN orders :
    id \in refused => id \in DOMAIN old \/ id = session.last \/ Finished(orders[id])

(* A packet is refused by the TWS, or by an error for market data.         *)
Own ==
  \A id \in DOMAIN orders :
    orders[id].error = "REQUEST" => id \in refused \/ id \in 1..session.mkt

IInv == Types /\ Known /\ Told /\ Heard /\ Own /\ RefusedOnlyByItsOwn

(* What a callback or the clock may do to a packet.                        *)
Grows(p, q) ==
  /\ q \in Packets /\ q.request = p.request /\ p.rows \subseteq q.rows
  /\ Finished(p) => Finished(q) /\ q.error = p.error
  /\ Finished(q) /\ ~Finished(p) => q.error = "REQUEST" \/ ClosedByRow(q)

LEMMA RowGrows ==
  ASSUME NEW p \in Packets, NEW row \in {"status", "filled", "openOrder"}
  PROVE  Grows(p, AppendRow(p, row)) /\ AppendRow(p, row).error = p.error
<1> DEFINE q == AppendRow(p, row)
<1>1. /\ q \in Packets /\ q.request = p.request /\ q.error = p.error
      /\ q.rows = p.rows \cup ({row} \cap Rows)
  BY DEF AppendRow, Packets, Rows
<1>2. q.mode = IF row = "filled" \/ (row = "openOrder" /\ p.request.whatIf)
               THEN "CLOSED" ELSE p.mode
  BY DEF AppendRow, Packets
<1>3. Finished(q) /\ ~Finished(p) => ClosedByRow(q)
  BY <1>1, <1>2 DEF Finished, ClosedByRow, Rows
<1>4. QED
  BY <1>1, <1>2, <1>3 DEF Grows, Finished

LEMMA ErrorGrows ==
  ASSUME NEW p \in Packets, NEW code
  PROVE  /\ Grows(p, ErrorRow(p, code))
         /\ code # "still processed" => Finished(ErrorRow(p, code))
         /\ code = "still processed" => ErrorRow(p, code).error = p.error
<1> DEFINE told == [p EXCEPT !.rows = @ \cup {"error"}]
           shut == [told EXCEPT !.mode = "CLOSED", !.error = "REQUEST"]
<1>1. /\ told \in Packets /\ told.request = p.request /\ p.rows \subseteq told.rows
      /\ told.mode = p.mode /\ told.error = p.error
  BY DEF Packets, Rows
<1>2. /\ shut \in Packets /\ shut.request = told.request /\ shut.rows = told.rows
      /\ shut.mode = "CLOSED" /\ shut.error = "REQUEST"
  BY <1>1 DEF Packets, Errors
<1>3. ErrorRow(p, code) = IF code # "still processed" /\ told.mode = "RECORD" THEN shut ELSE told
  BY DEF ErrorRow, CloseError
<1>4. p.mode \in {"RECORD", "CLOSED"}
  BY DEF Packets
<1> HIDE DEF told, shut
<1>5. QED
  BY <1>1, <1>2, <1>3, <1>4 DEF Grows, Finished

LEMMA DueGrows ==
  ASSUME NEW p \in Packets
  PROVE  Grows(p, [p EXCEPT !.due = TRUE]) /\ [p EXCEPT !.due = TRUE].error = p.error
BY DEF Grows, Packets, Finished

(* Other packets stay as they are.                                         *)
LEMMA SameGrows ==
  ASSUME NEW p \in Packets
  PROVE  Grows(p, p)
BY DEF Grows

Updates == SomeRow \/ SomeError \/ SomeMktData \/ SomeDue

(* The packets after one of these actions.                                 *)
LEMMA UpdateCases ==
  ASSUME Types, Updates
  PROVE  /\ UNCHANGED <<file, session, validId, ids, old>>
         /\ DOMAIN orders' = DOMAIN orders
         /\ \A i \in DOMAIN orders : Grows(orders[i], orders'[i])
         /\ \A i \in DOMAIN orders :
              orders'[i].error # orders[i].error => i \in refused' \/ i \in 1..session.mkt
         /\ refused \subseteq refused' /\ refused' \subseteq refused \cup Sent
         /\ \A i \in DOMAIN orders :
              i \in refused' \ refused =>
                i \in DOMAIN old \/ i = session.last \/ Finished(orders'[i])
<1>0. \A i \in DOMAIN orders : orders[i] \in Packets /\ Grows(orders[i], orders[i])
  BY SameGrows DEF Types
<1>1. CASE SomeRow
  <2>1. PICK id \in Sent, row \in {"status", "filled", "openOrder"} : OrderRow(id, row)
    BY <1>1 DEF SomeRow
  <2>2. UNCHANGED <<file, session, validId, ids, old, refused>>
    BY <2>1 DEF OrderRow
  <2>3. \/ orders' = orders
        \/ id \in DOMAIN orders /\ orders' = [orders EXCEPT ![id] = AppendRow(orders[id], row)]
    BY <2>1 DEF OrderRow, Deliver
  <2>4. id \in DOMAIN orders => /\ Grows(orders[id], AppendRow(orders[id], row))
                                /\ AppendRow(orders[id], row).error = orders[id].error
    BY <1>0, RowGrows
  <2>5. QED
    BY <1>0, <2>2, <2>3, <2>4
<1>2. CASE SomeError
  <2>1. PICK id \in Sent, code \in {"still processed", "refused"} : OrderError(id, code)
    BY <1>2 DEF SomeError
  <2>2. UNCHANGED <<file, session, validId, ids, old>>
    BY <2>1 DEF OrderError, TwsError
  <2>3. refused' = IF code = "still processed" THEN refused ELSE refused \cup {id}
    BY <2>1 DEF OrderError
  <2>4. \/ orders' = orders /\ (id \in DOMAIN orders => id \in DOMAIN old \/ id = session.last)
        \/ id \in DOMAIN orders /\ orders' = [orders EXCEPT ![id] = ErrorRow(orders[id], code)]
    BY <2>1 DEF OrderError, TwsError, Deliver, ForClosedRequest
  <2>5. id \in DOMAIN orders =>
          /\ Grows(orders[id], ErrorRow(orders[id], code))
          /\ code # "still processed" => Finished(ErrorRow(orders[id], code))
          /\ code = "still processed" => ErrorRow(orders[id], code).error = orders[id].error
    BY <1>0, ErrorGrows
  <2>6. QED
    BY <1>0, <2>2, <2>3, <2>4, <2>5
<1>3. CASE SomeMktData
  <2>1. PICK id \in 1..session.mkt : MktDataError(id)
    BY <1>3 DEF SomeMktData
  <2>2. UNCHANGED <<file, session, validId, ids, old, refused>>
    BY <2>1 DEF MktDataError, TwsError
  <2> DEFINE code == "no security definition"
  <2>3. \/ orders' = orders
        \/ id \in DOMAIN orders /\ orders' = [orders EXCEPT ![id] = ErrorRow(orders[id], code)]
    BY <2>1 DEF MktDataError, TwsError, Deliver
  <2>4. id \in DOMAIN orders => Grows(orders[id], ErrorRow(orders[id], code))
    BY <1>0, ErrorGrows
  <2>5. QED
    BY <1>0, <2>1, <2>2, <2>3, <2>4
<1>4. CASE SomeDue
  <2>1. PICK id \in DOMAIN orders : OrderDue(id)
    BY <1>4 DEF SomeDue
  <2>2. /\ UNCHANGED <<file, session, validId, ids, old, refused>>
        /\ orders' = [orders EXCEPT ![id].due = TRUE]
    BY <2>1 DEF OrderDue
  <2>3. /\ Grows(orders[id], [orders[id] EXCEPT !.due = TRUE])
        /\ [orders[id] EXCEPT !.due = TRUE].error = orders[id].error
    BY <1>0, DueGrows
  <2>4. orders' = [orders EXCEPT ![id] = [orders[id] EXCEPT !.due = TRUE]]
    BY <2>2
  <2>5. QED
    BY <1>0, <2>2, <2>3, <2>4
<1>5. QED
  BY <1>1, <1>2, <1>3, <1>4 DEF Updates

LEMMA UpdateKeeps ==
  ASSUME IInv, Updates
  PROVE  IInv'
<1>1. /\ UNCHANGED <<file, session, validId, ids, old>>
      /\ DOMAIN orders' = DOMAIN orders
      /\ \A i \in DOMAIN orders : Grows(orders[i], orders'[i])
      /\ \A i \in DOMAIN orders :
           orders'[i].error # orders[i].error => i \in refused' \/ i \in 1..session.mkt
      /\ refused \subseteq refused' /\ refused' \subseteq refused \cup Sent
      /\ \A i \in DOMAIN orders :
           i \in refused' \ refused =>
             i \in DOMAIN old \/ i = session.last \/ Finished(orders'[i])
  BY UpdateCases DEF IInv
<1>2. Types'
  BY <1>1 DEF IInv, Types, Grows
<1>3. Known'
  BY <1>1 DEF IInv, Known, Sent
<1>4. Told'
  <2>1. ASSUME NEW i \in DOMAIN orders \ DOMAIN old, Finished(orders'[i])
        PROVE  orders'[i].error = "REQUEST" \/ ClosedByRow(orders'[i])
    <3>1. Grows(orders[i], orders'[i])
      BY <1>1
    <3>2. CASE ~Finished(orders[i])
      BY <2>1, <3>1, <3>2 DEF Grows
    <3>3. CASE Finished(orders[i])
      BY <3>1, <3>3 DEF Grows, IInv, Told, ClosedByRow
    <3>4. QED
      BY <3>2, <3>3
  <2>2. QED
    BY <1>1, <2>1 DEF Told
<1>5. Heard'
  <2>1. ASSUME NEW i \in DOMAIN orders, i \in refused'
        PROVE  i \in DOMAIN old \/ i = session.last \/ Finished(orders'[i])
    <3>1. CASE i \in refused
      BY <1>1, <3>1 DEF IInv, Heard, Grows
    <3>2. CASE i \notin refused
      BY <1>1, <2>1, <3>2
    <3>3. QED
      BY <3>1, <3>2
  <2>2. QED
    BY <1>1, <2>1 DEF Heard
<1>6. Own'
  BY <1>1 DEF IInv, Own
<1>7. RefusedOnlyByItsOwn'
  BY <1>1 DEF IInv, RefusedOnlyByItsOwn
<1>8. QED
  BY <1>2, <1>3, <1>4, <1>5, <1>6, <1>7 DEF IInv

(* The id of the next order, and the packet it gets.                       *)
LEMMA PlaceKeeps ==
  ASSUME IInv, PlaceOrder
  PROVE  IInv'
<1> DEFINE po == file[Len(ids) + 1]
           id == IF po.orderId = 0 THEN validId ELSE po.orderId
<1>1. /\ ids' = Append(ids, id)
      /\ validId' = IF po.orderId = 0 THEN validId + 1 ELSE validId
      /\ UNCHANGED <<file, session, old, refused>> /\ CountLeft > 0
  BY DEF PlaceOrder
<1>2. \/ /\ id \notin DOMAIN orders
         /\ orders' = [i \in DOMAIN orders \cup {id} |->
                        IF i = id THEN Record(id, po) ELSE orders[i]]
      \/ /\ id \in DOMAIN orders /\ orders[id].mode = "RECORD"
         /\ orders' = [orders EXCEPT ![id] = Modify(@, po)]
      \/ id \in DOMAIN orders /\ orders' = orders
  BY DEF PlaceOrder
<1>3. po \in PlaceOrders
  <2>1. file \in Seq(PlaceOrders) /\ ids \in Seq(Nat)
    BY FilesAssumption DEF IInv, Types
  <2>2. Len(ids) + 1 \in 1..Len(file)
    BY <1>1, <2>1 DEF CountLeft
  <2>3. QED
    BY <2>1, <2>2
<1>4. id \in Nat /\ validId' \in Nat /\ ids' \in Seq(Nat)
  <2>1. po.orderId \in Nat /\ validId \in Nat /\ ids \in Seq(Nat)
    BY <1>3 DEF PlaceOrders, IInv, Types
  <2>2. QED
    BY <1>1, <2>1
<1>5. Sent' = Sent \cup {id}
  <2>1. ids \in Seq(Nat) /\ DOMAIN ids' = DOMAIN ids \cup {Len(ids) + 1}
    BY <1>1, <1>4 DEF IInv, Types
  <2>2. ids'[Len(ids) + 1] = id /\ \A i \in DOMAIN ids : ids'[i] = ids[i]
    BY <1>1, <1>4, <2>1
  <2>3. QED
    BY <2>1, <2>2 DEF Sent
<1>6. /\ Record(id, po) \in Packets /\ Record(id, po).mode = "RECORD"
      /\ Record(id, po).error = "NONE"
  BY <1>3, <1>4 DEF Record, Packets, PlaceOrders, Errors, Rows
<1>7. ASSUME NEW p \in Packets
      PROVE  Modify(p, po) \in Packets /\ Modify(p, po).mode = p.mode /\ Modify(p, po).error = p.error
  BY <1>3 DEF Modify, Packets
<1> HIDE DEF po, id
<1>8. id \in DOMAIN orders' /\ DOMAIN orders' = DOMAIN orders \cup {id}
  BY <1>2
<1>9. \A i \in DOMAIN orders' :
        \/ i \in DOMAIN orders /\ orders'[i] = orders[i]
        \/ i = id /\ i \notin DOMAIN orders /\ orders'[i] = Record(id, po)
        \/ /\ i = id /\ i \in DOMAIN orders /\ orders[i].mode = "RECORD"
           /\ orders'[i] = Modify(orders[i], po)
  BY <1>2
<1>10. Types'
  BY <1>1, <1>4, <1>6, <1>7, <1>9 DEF IInv, Types
<1>11. Known'
  BY <1>1, <1>5, <1>8 DEF IInv, Known
<1>12. Told'
  BY <1>1, <1>6, <1>7, <1>9 DEF IInv, Types, Told, Finished
<1>13. Heard'
  BY <1>1, <1>6, <1>7, <1>9 DEF IInv, Types, Known, Heard, Finished
<1>14. Own'
  BY <1>1, <1>6, <1>7, <1>9 DEF IInv, Types, Own
<1>15. RefusedOnlyByItsOwn'
  BY <1>1 DEF IInv, RefusedOnlyByItsOwn
<1>16. QED
  BY <1>10, <1>11, <1>12, <1>13, <1>14, <1>15 DEF IInv

(* What is filed: the packet as it is, if it was finished, and else a good *)
(* one.                                                                    *)
LEMMA Filed ==
  ASSUME Types, NEW id \in DOMAIN Fin(orders)
  PROVE  /\ id \in DOMAIN orders /\ MayClose(orders[id])
         /\ Finished(orders[id]) => Fin(orders)[id] = orders[id]
         /\ ~Finished(orders[id]) => Fin(orders)[id].error = "NONE"
<1>1. id \in DOMAIN orders /\ MayClose(orders[id]) /\ Fin(orders)[id] = CloseError(orders[id], "NONE")
  BY DEF Fin
<1>2. orders[id] \in Packets
  BY <1>1 DEF Types
<1>3. QED
  BY <1>1, <1>2 DEF CloseError, Finished, Packets

(* finPlaceOrder() files all the orders that may be closed, or those before*)
(* the first whose id was filed already, which it closes.                  *)
LEMMA FinCases ==
  ASSUME FinPlaceOrder
  PROVE  /\ UNCHANGED <<file, session, validId, ids, refused>>
         /\ \E B \in SUBSET DOMAIN Fin(orders) :
              /\ B \cap DOMAIN old = {} /\ FileAway(B)
              /\ DOMAIN orders' = DOMAIN orders \ B
              /\ \A id \in DOMAIN orders' :
                   \/ orders'[id] = orders[id]
                   \/ /\ id \in DOMAIN Fin(orders) \cap DOMAIN old
                      /\ orders'[id] = Fin(orders)[id]
              /\ \/ /\ B = DOMAIN Fin(orders) /\ orders' = StillOpen(orders)
                    /\ output' = output \o InOrder(B)
                    /\ pc' \in {"place", "select"} /\ abort' = abort
                 \/ \E id \in DOMAIN Fin(orders) \cap DOMAIN old :
                      /\ output' = Append(output \o InOrder(B), id)
                      /\ pc' = "abort" /\ abort' = "p_orders_old: no such id"
<1> DEFINE closed == DOMAIN Fin(orders)
<1>1. UNCHANGED <<file, session, validId, ids, refused>>
  BY DEF FinPlaceOrder
<1>2. closed \subseteq DOMAIN orders
  BY DEF Fin
<1>3. CASE closed \cap DOMAIN old = {}
  <2>1. /\ FileAway(closed) /\ orders' = StillOpen(orders)
        /\ output' = output \o InOrder(closed)
        /\ pc' \in {"place", "select"} /\ abort' = abort
    BY <1>3 DEF FinPlaceOrder, Goto
  <2>2. /\ DOMAIN orders' = DOMAIN orders \ closed
        /\ \A id \in DOMAIN orders' : orders'[id] = orders[id]
    BY <2>1 DEF StillOpen, Fin
  <2> HIDE DEF closed
  <2>3. QED
    BY <1>1, <1>3, <2>1, <2>2 DEF closed
<1>4. CASE closed \cap DOMAIN old # {}
  <2>1. PICK id \in closed \cap DOMAIN old :
          /\ {i \in closed : i < id} \cap (closed \cap DOMAIN old) = {}
          /\ FileAway({i \in closed : i < id})
          /\ orders' = [i \in DOMAIN orders \ {k \in closed : k < id} |->
                         IF i = id THEN Fin(orders)[i] ELSE orders[i]]
          /\ output' = Append(output \o InOrder({i \in closed : i < id}), id)
          /\ pc' = "abort" /\ abort' = "p_orders_old: no such id"
    BY <1>4 DEF FinPlaceOrder, Abort
  <2> DEFINE B == {i \in closed : i < id}
  <2>2. B \in SUBSET closed
    OBVIOUS
  <2>3. B \cap DOMAIN old = {}
    BY <2>1
  <2>4. /\ DOMAIN orders' = DOMAIN orders \ B
        /\ \A i \in DOMAIN orders' :
             orders'[i] = orders[i] \/ (i = id /\ orders'[i] = Fin(orders)[i])
    BY <2>1
  <2>5. FileAway(B) /\ output' = Append(output \o InOrder(B), id)
    BY <2>1
  <2> HIDE DEF B, closed
  <2>6. QED
    BY <1>1, <2>1, <2>2, <2>3, <2>4, <2>5 DEF closed
<1>5. QED
  BY <1>3, <1>4

(* Closing a packet leaves the request and the rows as they are.           *)
LEMMA FiledPacket ==
  ASSUME Types, NEW id \in DOMAIN Fin(orders)
  PROVE  /\ Fin(orders)[id] \in Packets /\ Fin(orders)[id].request = orders[id].request
         /\ Fin(orders)[id].error \in {orders[id].error, "NONE"}
         /\ Finished(Fin(orders)[id])
<1>1. id \in DOMAIN orders /\ Fin(orders)[id] = CloseError(orders[id], "NONE")
  BY DEF Fin
<1>2. orders[id] \in Packets
  BY <1>1 DEF Types
<1>3. QED
  BY <1>1, <1>2 DEF CloseError, Finished, Packets, Errors

LEMMA FinKeeps ==
  ASSUME IInv, FinPlaceOrder
  PROVE  IInv'
<1>1. PICK B \in SUBSET DOMAIN Fin(orders) :
        /\ B \cap DOMAIN old = {} /\ FileAway(B)
        /\ DOMAIN orders' = DOMAIN orders \ B
        /\ \A id \in DOMAIN orders' :
             \/ orders'[id] = orders[id]
             \/ /\ id \in DOMAIN Fin(orders) \cap DOMAIN old
                /\ orders'[id] = Fin(orders)[id]
  BY FinCases
<1>2. UNCHANGED <<file, session, validId, ids, refused>>
  BY FinCases
<1>3. /\ DOMAIN old' = DOMAIN old \cup B
      /\ \A id \in DOMAIN old : old'[id] = old[id]
      /\ \A id \in B : old'[id] = Fin(orders)[id]
  BY <1>1 DEF FileAway
<1>4. \A id \in DOMAIN orders' :
        /\ orders'[id] \in Packets
        /\ orders'[id].error \in {orders[id].error, "NONE"}
        /\ id \notin DOMAIN old => orders'[id] = orders[id]
  BY <1>1, FiledPacket DEF IInv, Types
<1>5. Types' /\ Told' /\ Own'
  <2>1. Types' /\ Told'
    BY <1>1, <1>2, <1>3, <1>4 DEF IInv, Types, Told
  <2>2. Own'
    BY <1>1, <1>2, <1>4 DEF IInv, Own
  <2>3. QED
    BY <2>1, <2>2
<1>6. Known'
  BY <1>1, <1>2, <1>3 DEF IInv, Known, Sent
<1>7. Heard'
  BY <1>1, <1>2, <1>3, <1>4 DEF IInv, Heard
<1>8. RefusedOnlyByItsOwn'
  <2>1. ASSUME NEW id \in DOMAIN Fin(orders), Fin(orders)[id].error = "REQUEST"
        PROVE  id \in refused \/ id \in 1..session.mkt
    BY <2>1, Filed DEF IInv, Own
  <2>2. QED
    BY <1>2, <1>3, <2>1 DEF IInv, RefusedOnlyByItsOwn
<1>9. QED
  BY <1>5, <1>6, <1>7, <1>8 DEF IInv

(* The id the TWS gives is one that an order may have.                     *)
LEMMA ConnectedKeeps ==
  ASSUME IInv, Connected
  PROVE  IInv'
<1>1. UNCHANGED <<file, session, ids, orders, old, refused>>
  BY DEF Connected
<1>2. validId' \in Nat
  <2>1. Sent \subseteq Nat
    BY DEF IInv, Types, Sent
  <2>2. NextValidIds \subseteq Nat
    <3>1. CASE validId = 0
      BY <3>1, FirstIdsAssumption DEF NextValidIds
    <3>2. CASE validId # 0
      <4>1. \A n \in NextValidIds : \E m \in Sent \cup FirstIds : n = m + 1
        BY <3>2 DEF NextValidIds, Sent
      <4>2. Sent \cup FirstIds \subseteq Nat
        BY <2>1, FirstIdsAssumption
      <4>3. QED
        BY <4>1, <4>2
    <3>3. QED
      BY <3>1, <3>2
  <2>3. QED
    BY <2>2 DEF Connected, IInv, Types
<1>3. QED
  BY <1>1, <1>2 DEF IInv, Types, Known, Told, Heard, Own, RefusedOnlyByItsOwn, Sent

(* The steps that move no order.                                           *)
LEMMA Idle ==
  ASSUME PlaceAllOrdersDone \/ ConnectionLost \/ Wake \/ SlotBegins \/ UNCHANGED vars
  PROVE  UNCHANGED <<file, session, validId, ids, orders, old, refused>>
BY DEF PlaceAllOrdersDone, ConnectionLost, Wake, SlotBegins, vars

LEMMA IInvKept ==
  ASSUME IInv, [Next]_vars
  PROVE  IInv'
<1>1. CASE PlaceAllOrdersDone \/ ConnectionLost \/ Wake \/ SlotBegins \/ UNCHANGED vars
  BY <1>1, Idle DEF IInv, Types, Known, Told, Heard, Own, RefusedOnlyByItsOwn, Sent
<1>2. QED
  BY <1>1, StepCases, PlaceKeeps, FinKeeps, UpdateKeeps, ConnectedKeeps DEF Updates

LEMMA IInvHolds == Spec => []IInv
<1>1. Init => IInv
  <2>1. ASSUME Init PROVE Types
    BY <2>1 DEF Init, Types
  <2>2. ASSUME Init PROVE Known /\ Told /\ Heard /\ Own /\ RefusedOnlyByItsOwn
    BY <2>2 DEF Init, Known, Sent, Told, Heard, Own, RefusedOnlyByItsOwn
  <2>3. QED
    BY <2>1, <2>2 DEF IInv
<1>2. IInv /\ [Next]_vars => IInv'
  BY IInvKept
<1>3. QED
  BY <1>1, <1>2, PTL DEF Spec

(* An order is filed as refused only when the TWS refused it, or market    *)
(* data whose id the order has: errors for anything else do not reach it.  *)
THEOREM RefusalsAreOwn == Spec => []RefusedOnlyByItsOwn
<1>1. IInv => RefusedOnlyByItsOwn
  BY DEF IInv
<1>2. QED
  BY <1>1, IInvHolds, PTL

(* No order that the TWS refused while it was open is filed as good, unless*)
(* it was filled or answered, or has the id of the last request.           *)
THEOREM RefusalsHeard == Spec => RefusalHeard
<1> DEFINE Step == \A id \in (DOMAIN old' \ DOMAIN old) \ {session.last} :
                     old'[id].error = "NONE" => ClosedByRow(old'[id]) \/ id \notin refused
<1>1. ASSUME IInv, [Next]_vars
      PROVE  [Step]_old
  <2>1. CASE FinPlaceOrder
    <3>1. SUFFICES ASSUME NEW id \in (DOMAIN old' \ DOMAIN old) \ {session.last},
                          old'[id].error = "NONE", id \in refused
                   PROVE  ClosedByRow(old'[id])
      OBVIOUS
    <3>2. id \in DOMAIN Fin(orders) /\ old'[id] = Fin(orders)[id] /\ id \notin DOMAIN old
      BY <2>1, <3>1, FinCases DEF FileAway
    <3>3. id \in DOMAIN orders /\ (Finished(orders[id]) => old'[id] = orders[id])
      BY <1>1, <3>2, Filed DEF IInv
    <3>4. Finished(orders[id])
      BY <1>1, <3>1, <3>3 DEF IInv, Heard
    <3>5. QED
      BY <1>1, <3>1, <3>2, <3>3, <3>4 DEF IInv, Told
  <2>2. CASE ~FinPlaceOrder
    <3>1. old' = old
      BY <1>1, <2>2, StepCases, Idle, UpdateCases DEF Updates, IInv, PlaceOrder, Connected
    <3>2. QED
      BY <3>1
  <2>3. QED
    BY <2>1, <2>2
<1>2. IInv /\ [Next]_vars => [Step]_old
  BY <1>1
<1>3. QED
  BY <1>2, IInvHolds, PTL DEF Spec, RefusalHeard

(* What became of an order stands: neither a message nor another order     *)
(* changes the verdict on an order that is closed, nor what is filed.      *)
THEOREM VerdictsStand == Spec => VerdictStands
<1> DEFINE Step ==
      /\ \A id \in DOMAIN orders : Finished(orders[id]) =>
           \/ id \in DOMAIN orders' /\ orders'[id].error = orders[id].error
           \/ id \in DOMAIN old' /\ old'[id].error = orders[id].error
      /\ \A id \in DOMAIN old : id \in DOMAIN old' /\ old'[id] = old[id]
<1>1. ASSUME IInv, [Next]_vars
      PROVE  Step
  <2>1. CASE PlaceOrder
    <3>1. old' = old
      BY <2>1 DEF PlaceOrder
    <3>2. \A i \in DOMAIN orders : Finished(orders[i]) => i \in DOMAIN orders' /\ orders'[i] = orders[i]
      BY <2>1 DEF PlaceOrder, Finished
    <3>3. QED
      BY <3>1, <3>2
  <2>2. CASE FinPlaceOrder
    <3>1. PICK B \in SUBSET DOMAIN Fin(orders) :
            /\ B \cap DOMAIN old = {} /\ FileAway(B)
            /\ DOMAIN orders' = DOMAIN orders \ B
            /\ \A id \in DOMAIN orders' :
                 \/ orders'[id] = orders[id]
                 \/ /\ id \in DOMAIN Fin(orders) \cap DOMAIN old
                    /\ orders'[id] = Fin(orders)[id]
      BY <2>2, FinCases
    <3>2. \A id \in DOMAIN Fin(orders) : Finished(orders[id]) => Fin(orders)[id] = orders[id]
      BY Filed, <1>1 DEF IInv
    <3>3. QED
      BY <3>1, <3>2 DEF FileAway
  <2>3. CASE Updates
    <3>1. old' = old /\ DOMAIN orders' = DOMAIN orders
          /\ \A i \in DOMAIN orders : Grows(orders[i], orders'[i])
      BY <1>1, <2>3, UpdateCases DEF IInv
    <3>2. QED
      BY <3>1 DEF Grows
  <2>4. CASE \/ Connected \/ PlaceAllOrdersDone \/ ConnectionLost \/ Wake \/ SlotBegins
             \/ UNCHANGED vars
    BY <2>4, Idle DEF Connected
  <2>5. QED
    BY <1>1, <2>1, <2>2, <2>3, <2>4, StepCases DEF Updates
<1>2. IInv /\ [Next]_vars => [Step]_<<orders, old>>
  BY <1>1
<1>3. QED
  BY <1>2, IInvHolds, PTL DEF Spec, VerdictStands

(***************************************************************************)
(* The assertions.                                                         *)
(***************************************************************************)

Filing ==
  /\ DOMAIN orders \subseteq Sent /\ DOMAIN old \subseteq Sent
  /\ Distinct(ids) => DOMAIN orders \cap DOMAIN old = {}

(* finPlaceOrder() files what is closed before anything is placed.         *)
AllOpen == pc = "place" => \A id \in DOMAIN orders : orders[id].mode = "RECORD"

Thread == abort # "none" => pc = "abort"

AInv == IInv /\ Filing /\ AllOpen /\ Thread /\ AssertsHold

(* The ids in use after an order was placed.                               *)
LEMMA PlacedIds ==
  ASSUME IInv, PlaceOrder
  PROVE  \E id \in Nat :
           /\ Sent' = Sent \cup {id} /\ DOMAIN orders' = DOMAIN orders \cup {id}
           /\ Distinct(ids') => Distinct(ids) /\ id \notin Sent
           /\ \/ pc' = "place" /\ abort' = abort
              \/ /\ id \in DOMAIN orders /\ orders' = orders /\ pc' = "abort"
                 /\ \/ orders[id].mode # "RECORD"
                    \/ abort' = "modify: orderId"
<1> DEFINE po == file[Len(ids) + 1]
           id == IF po.orderId = 0 THEN validId ELSE po.orderId
<1>1. ids' = Append(ids, id) /\ CountLeft > 0
  BY DEF PlaceOrder
<1>2. id \in Nat
  <2>1. file \in Seq(PlaceOrders) /\ ids \in Seq(Nat) /\ validId \in Nat
    BY FilesAssumption DEF IInv, Types
  <2>2. Len(ids) + 1 \in 1..Len(file)
    BY <1>1, <2>1 DEF CountLeft
  <2>3. po \in PlaceOrders
    BY <2>1, <2>2
  <2>4. QED
    BY <2>1, <2>3 DEF PlaceOrders
<1>3. DOMAIN orders' = DOMAIN orders \cup {id}
  BY DEF PlaceOrder
<1>4. \/ pc' = "place" /\ abort' = abort
      \/ /\ id \in DOMAIN orders /\ orders' = orders /\ pc' = "abort"
         /\ orders[id].mode # "RECORD" \/ abort' = "modify: orderId"
  BY DEF PlaceOrder, Goto, Abort
<1> HIDE DEF po, id
<1>5. /\ ids \in Seq(Nat) /\ DOMAIN ids' = DOMAIN ids \cup {Len(ids) + 1}
      /\ Len(ids) + 1 \notin DOMAIN ids
      /\ ids'[Len(ids) + 1] = id /\ \A i \in DOMAIN ids : ids'[i] = ids[i]
  BY <1>1, <1>2 DEF IInv, Types
<1>6. Sent' = Sent \cup {id}
  BY <1>5 DEF Sent
<1>7. Distinct(ids') => Distinct(ids) /\ id \notin Sent
  BY <1>5 DEF Distinct, Sent
<1>8. QED
  BY <1>2, <1>3, <1>4, <1>6, <1>7

LEMMA PlaceAsserts ==
  ASSUME AInv, PlaceOrder
  PROVE  Filing' /\ AllOpen' /\ Thread' /\ AssertsHold'
<1>1. PICK id \in Nat :
        /\ Sent' = Sent \cup {id} /\ DOMAIN orders' = DOMAIN orders \cup {id}
        /\ Distinct(ids') => Distinct(ids) /\ id \notin Sent
        /\ \/ pc' = "place" /\ abort' = abort
           \/ /\ id \in DOMAIN orders /\ orders' = orders /\ pc' = "abort"
              /\ orders[id].mode # "RECORD" \/ abort' = "modify: orderId"
  BY PlacedIds DEF AInv
<1>2. old' = old /\ pc = "place"
  BY DEF PlaceOrder
<1>3. abort = "none" /\ \A i \in DOMAIN orders : orders[i].mode = "RECORD"
  BY <1>2 DEF AInv, Thread, AllOpen
<1>4. Filing'
  BY <1>1, <1>2 DEF AInv, Filing
<1>5. AllOpen'
  <2>1. CASE orders' # orders
    <3> DEFINE po == file[Len(ids) + 1]
               new == IF po.orderId = 0 THEN validId ELSE po.orderId
    <3>1. \/ orders' = [i \in DOMAIN orders \cup {new} |->
                         IF i = new THEN Record(new, po) ELSE orders[i]]
          \/ orders' = [orders EXCEPT ![new] = Modify(@, po)]
      BY <2>1 DEF PlaceOrder
    <3>2. Record(new, po).mode = "RECORD"
      BY DEF Record
    <3>3. \A i \in DOMAIN orders : Modify(orders[i], po).mode = orders[i].mode
      BY DEF Modify, AInv, IInv, Types, Packets
    <3> HIDE DEF po, new
    <3>4. \A i \in DOMAIN orders' : orders'[i].mode = "RECORD"
      BY <1>3, <3>1, <3>2, <3>3
    <3>5. QED
      BY <3>4 DEF AllOpen
  <2>2. CASE orders' = orders
    BY <1>3, <2>2 DEF AllOpen
  <2>3. QED
    BY <2>1, <2>2
<1>6. abort' \in {"none", "modify: orderId"} /\ (abort' # "none" => pc' = "abort" /\ ~Distinct(ids'))
  BY <1>1, <1>3 DEF AInv, Filing
<1>7. QED
  BY <1>4, <1>5, <1>6 DEF Thread, AssertsHold, Filing

LEMMA FinAsserts ==
  ASSUME AInv, FinPlaceOrder
  PROVE  Filing' /\ AllOpen' /\ Thread' /\ AssertsHold'
<1>1. pc = "loop" /\ abort = "none" /\ UNCHANGED ids
  BY DEF FinPlaceOrder, AInv, Thread
<1>2. DOMAIN Fin(orders) \subseteq DOMAIN orders
  BY DEF Fin
<1>3. PICK B \in SUBSET DOMAIN Fin(orders) :
        /\ FileAway(B) /\ DOMAIN orders' = DOMAIN orders \ B
        /\ \/ /\ orders' = StillOpen(orders)
              /\ pc' \in {"place", "select"} /\ abort' = abort
           \/ \E id \in DOMAIN Fin(orders) \cap DOMAIN old :
                pc' = "abort" /\ abort' = "p_orders_old: no such id"
  BY FinCases
<1>4. Filing'
  <2>1. DOMAIN old' = DOMAIN old \cup B
    BY <1>3 DEF FileAway
  <2>2. QED
    BY <1>1, <1>2, <1>3, <2>1 DEF AInv, Filing, Sent
<1>5. CASE pc' = "abort"
  <2>1. abort' = "p_orders_old: no such id" /\ ~Distinct(ids)
    BY <1>2, <1>3, <1>5 DEF AInv, Filing
  <2>2. QED
    BY <1>1, <1>4, <1>5, <2>1 DEF AllOpen, Thread, AssertsHold
<1>6. CASE pc' # "abort"
  <2>1. abort' = "none" /\ orders' = StillOpen(orders)
    BY <1>1, <1>3, <1>6
  <2>2. AllOpen'
    <3>1. \A id \in DOMAIN orders' : orders'[id] \in Packets /\ ~Finished(orders'[id])
      BY <2>1 DEF StillOpen, MayClose, AInv, IInv, Types
    <3>2. QED
      BY <3>1 DEF AllOpen, Finished, Packets
  <2>3. QED
    BY <1>4, <2>1, <2>2 DEF Thread, AssertsHold, Filing
<1>7. QED
  BY <1>5, <1>6

(* A callback stops the program only when an order is both open and filed. *)
LEMMA UpdateAsserts ==
  ASSUME AInv, Updates
  PROVE  Filing' /\ AllOpen' /\ Thread' /\ AssertsHold'
<1>1. /\ UNCHANGED <<ids, old>> /\ DOMAIN orders' = DOMAIN orders
      /\ \A i \in DOMAIN orders : Grows(orders[i], orders'[i])
  BY UpdateCases DEF AInv, IInv
<1>2. pc \in {"select", "loop", "place"} /\ abort = "none"
  BY DEF Updates, SomeRow, OrderRow, SomeError, OrderError, TwsError, SomeMktData,
         MktDataError, Callback, SomeDue, OrderDue, AInv, Thread
<1>3. Filing'
  BY <1>1 DEF AInv, Filing, Sent
<1>4. CASE SomeDue
  <2>1. UNCHANGED <<pc, abort>> /\ \A i \in DOMAIN orders : orders'[i].mode = orders[i].mode
    <3>1. PICK id \in DOMAIN orders : OrderDue(id)
      BY <1>4 DEF SomeDue
    <3>2. UNCHANGED <<pc, abort>> /\ orders' = [orders EXCEPT ![id].due = TRUE]
      BY <3>1 DEF OrderDue
    <3>3. orders[id] \in Packets
      BY DEF AInv, IInv, Types
    <3>4. [orders[id] EXCEPT !.due = TRUE].mode = orders[id].mode
      BY <3>3 DEF Packets
    <3>5. \A i \in DOMAIN orders :
            orders'[i] = IF i = id THEN [orders[id] EXCEPT !.due = TRUE] ELSE orders[i]
      BY <3>2
    <3>6. QED
      BY <3>2, <3>4, <3>5
  <2>2. QED
    BY <1>1, <1>2, <1>3, <2>1 DEF AInv, AllOpen, Thread, AssertsHold, Filing
<1>5. CASE SomeRow \/ SomeError \/ SomeMktData
  <2>1. pc = "select"
    BY <1>5 DEF SomeRow, OrderRow, SomeError, OrderError, TwsError, SomeMktData,
                MktDataError, Callback
  <2>2. \/ UNCHANGED <<pc, abort>>
        \/ /\ DOMAIN orders \cap DOMAIN old # {}
           /\ pc' = "abort" /\ abort' = "p_orders_old: no such id"
    BY <1>5 DEF SomeRow, OrderRow, SomeError, OrderError, TwsError, SomeMktData,
                MktDataError, Deliver, Abort
  <2>3. QED
    BY <1>1, <1>2, <1>3, <2>1, <2>2 DEF AInv, AllOpen, Thread, AssertsHold, Filing
<1>6. QED
  BY <1>4, <1>5 DEF Updates

LEMMA AInvKept ==
  ASSUME AInv, [Next]_vars
  PROVE  AInv'
<1>1. IInv'
  BY IInvKept DEF AInv
<1>2. CASE PlaceAllOrdersDone \/ Connected \/ Wake \/ SlotBegins
  <2>1. /\ UNCHANGED <<ids, orders, old, abort>>
        /\ pc' # "place" \/ pc' = pc
    BY <1>2 DEF PlaceAllOrdersDone, Connected, Wake, SlotBegins, Goto
  <2>2. pc # "abort"
    BY <1>2 DEF PlaceAllOrdersDone, Connected, Wake, SlotBegins
  <2>3. QED
    BY <1>1, <2>1, <2>2 DEF AInv, Filing, Sent, AllOpen, Thread, AssertsHold
<1>3. CASE ConnectionLost
  <2>1. /\ UNCHANGED <<ids, orders, old>> /\ pc = "select"
        /\ \/ UNCHANGED <<pc, abort>>
           \/ /\ DOMAIN orders # {} /\ pc' = "abort"
              /\ abort' = "twsConnectionClosed: p_orders.empty()"
    BY <1>3 DEF ConnectionLost, Abort
  <2>2. QED
    BY <1>1, <2>1 DEF AInv, Filing, Sent, AllOpen, Thread, AssertsHold
<1>4. CASE UNCHANGED vars
  BY <1>1, <1>4 DEF vars, AInv, Filing, Sent, AllOpen, Thread, AssertsHold
<1>5. QED
  BY <1>1, <1>2, <1>3, <1>4, StepCases, PlaceAsserts, FinAsserts, UpdateAsserts DEF AInv, Updates

(* As long as every order of the file gets an id of its own, no assertion  *)
(* fails but that of a connection lost with an order open.                 *)
THEOREM AssertionsHold == Spec => []AssertsHold
<1>1. Init => Filing /\ AllOpen /\ Thread /\ AssertsHold
  BY DEF Init, Filing, AllOpen, Thread, AssertsHold
<1>2. Init /\ IInv => AInv
  BY <1>1 DEF AInv
<1>3. AInv /\ [Next]_vars => AInv'
  BY AInvKept
<1>4. AInv => AssertsHold
  BY DEF AInv
<1>5. QED
  BY <1>2, <1>3, <1>4, IInvHolds, PTL DEF Spec

(***************************************************************************)
(* Lists of ids.                                                           *)
(***************************************************************************)

(* The elements of S up to x: as many as the place of x in the order of S. *)
UpTo(S, x) == {y \in S : y <= x}

Rank(S) == [x \in S |-> Cardinality(UpTo(S, x))]

LEMMA UpToFinite ==
  ASSUME NEW S, IsFiniteSet(S), NEW x
  PROVE  IsFiniteSet(UpTo(S, x)) /\ Cardinality(UpTo(S, x)) \in Nat
         /\ Cardinality(UpTo(S, x)) <= Cardinality(S)
<1>1. UpTo(S, x) \in SUBSET S
  BY DEF UpTo
<1>2. IsFiniteSet(UpTo(S, x)) /\ Cardinality(UpTo(S, x)) <= Cardinality(S)
  BY <1>1, FS_Subset
<1>3. QED
  BY <1>2, FS_CardinalityType

LEMMA RankGrows ==
  ASSUME NEW S \in SUBSET Nat, IsFiniteSet(S), NEW x \in S, NEW y \in S, x < y
  PROVE  Rank(S)[x] < Rank(S)[y]
<1>1. UpTo(S, x) \in SUBSET UpTo(S, y) /\ UpTo(S, x) # UpTo(S, y)
  <2>1. y \in UpTo(S, y) /\ y \notin UpTo(S, x)
    BY DEF UpTo
  <2>2. ASSUME NEW z \in UpTo(S, x) PROVE z \in UpTo(S, y)
    BY <2>2 DEF UpTo
  <2>3. QED
    BY <2>1, <2>2
<1>2. /\ IsFiniteSet(UpTo(S, y))
      /\ Cardinality(UpTo(S, x)) \in Nat /\ Cardinality(UpTo(S, y)) \in Nat
  BY UpToFinite
<1>3. /\ Cardinality(UpTo(S, x)) <= Cardinality(UpTo(S, y))
      /\ Cardinality(UpTo(S, y)) # Cardinality(UpTo(S, x))
  BY <1>1, <1>2, FS_Subset
<1>4. QED
  BY <1>2, <1>3 DEF Rank

LEMMA RankOnto ==
  ASSUME NEW S \in SUBSET Nat, IsFiniteSet(S)
  PROVE  Rank(S) \in Bijection(S, 1..Cardinality(S))
<1> DEFINE n == Cardinality(S)
           r == Rank(S)
<1>0. n \in Nat
  BY FS_CardinalityType
<1>1. ASSUME NEW x \in S PROVE r[x] \in 1..n
  <2>1. x \in UpTo(S, x)
    BY DEF UpTo
  <2>2. IsFiniteSet(UpTo(S, x)) /\ r[x] = Cardinality(UpTo(S, x)) /\ r[x] \in Nat /\ r[x] <= n
    BY UpToFinite DEF Rank
  <2>3. r[x] # 0
    BY <2>1, <2>2, FS_EmptySet
  <2>4. QED
    BY <2>2, <2>3, <1>0
<1>2. r \in [S -> 1..n]
  BY <1>1 DEF Rank
<1>3. ASSUME NEW x \in S, NEW y \in S, r[x] = r[y] PROVE x = y
  <2>1. x \in Nat /\ y \in Nat /\ r[x] \in Nat /\ r[y] \in Nat
    BY <1>1
  <2>2. ~(x < y) /\ ~(y < x)
    BY <1>3, <2>1, RankGrows
  <2>3. QED
    BY <2>1, <2>2
<1>4. r \in Injection(S, 1..n)
  BY <1>2, <1>3 DEF Injection, IsInjective
<1>5. IsFiniteSet(1..n) /\ Cardinality(1..n) = n
  BY <1>0, FS_Interval
<1> HIDE DEF r
<1>6. Cardinality(S) = Cardinality(1..n)
  BY <1>5
<1>7. r \in Surjection(S, 1..n)
  BY <1>4, <1>5, <1>6, FS_Injection
<1>8. QED
  BY <1>4, <1>7 DEF Bijection, r

(* Ascending sequences.                                                    *)
Ascending(s) == \A i, j \in DOMAIN s : i < j => s[i] < s[j]

LEMMA AscendingExists ==
  ASSUME NEW S \in SUBSET Nat, IsFiniteSet(S)
  PROVE  \E s \in [1..Cardinality(S) -> S] : Ascending(s)
<1> DEFINE n == Cardinality(S)
           r == Rank(S)
           s == [k \in 1..n |-> CHOOSE x \in S : r[x] = k]
<1>1. r \in Bijection(S, 1..n)
  BY RankOnto
<1> HIDE DEF r
<1>2. ASSUME NEW k \in 1..n PROVE s[k] \in S /\ r[s[k]] = k
  <2>1. \E x \in S : r[x] = k
    BY <1>1 DEF Bijection, Surjection
  <2>2. QED
    BY <2>1
<1>3. s \in [1..n -> S]
  BY <1>2
<1>4. ASSUME NEW i \in 1..n, NEW j \in 1..n, i < j
      PROVE  s[i] < s[j]
  <2> HIDE DEF s
  <2>1. s[i] \in S /\ s[j] \in S /\ r[s[i]] = i /\ r[s[j]] = j /\ s[i] \in Nat /\ s[j] \in Nat
    BY <1>2
  <2>2. s[i] # s[j]
    BY <2>1, <1>4
  <2>3. CASE s[j] < s[i]
    <3>1. r[s[j]] < r[s[i]]
      BY <2>1, <2>3, RankGrows DEF r
    <3>2. QED
      BY <2>1, <3>1, <1>4
  <2>4. QED
    BY <2>1, <2>2, <2>3
<1>5. Ascending(s)
  BY <1>3, <1>4 DEF Ascending
<1>6. QED
  BY <1>3, <1>5

(* Every element of S once, and nothing else.                              *)
Lists(s, S) == s \in Seq(S) /\ Distinct(s) /\ {s[i] : i \in DOMAIN s} = S

(* What std::map iterates over: every key once.                            *)
LEMMA InOrderLists ==
  ASSUME NEW S \in SUBSET Nat, IsFiniteSet(S)
  PROVE  Lists(InOrder(S), S)
<1> DEFINE n == Cardinality(S)
           s == InOrder(S)
<1>0. n \in Nat
  BY FS_CardinalityType
<1>1. s \in [1..n -> S] /\ Ascending(s)
  BY AscendingExists DEF InOrder, Ascending
<1> HIDE DEF s, n
<1>2. s \in Seq(S)
  BY <1>0, <1>1
<1>3. ASSUME NEW i \in 1..n, NEW j \in 1..n, s[i] = s[j] PROVE i = j
  <2>1. s \in [1..n -> S] /\ S \subseteq Nat
    BY <1>1
  <2>2. s[i] \in S /\ s[j] \in S /\ DOMAIN s = 1..n
    BY <2>1
  <2>3. s[i] \in Nat /\ s[j] \in Nat
    BY <2>2
  <2>4. i \in Int /\ j \in Int
    BY <1>0
  <2>5. ~(i < j) /\ ~(j < i)
    BY <1>1, <1>3, <2>2, <2>3 DEF Ascending
  <2>6. QED
    BY <2>4, <2>5
<1>4. Distinct(s)
  BY <1>1, <1>3 DEF Distinct
<1>5. s \in Injection(1..n, S)
  BY <1>1, <1>3 DEF Injection, IsInjective
<1>6. Cardinality(1..n) = Cardinality(S)
  BY <1>0, FS_Interval DEF n
<1>7. s \in Surjection(1..n, S)
  BY <1>5, <1>6, FS_Injection
<1>8. {s[i] : i \in DOMAIN s} = S
  BY <1>1, <1>7 DEF Surjection
<1>9. QED
  BY <1>2, <1>4, <1>8, Zenon DEF s, Lists

(* What is listed after what was listed before is listed once, too.        *)
LEMMA ListsJoin ==
  ASSUME NEW A, NEW B, A \cap B = {},
         NEW p, Lists(p, A), NEW q, Lists(q, B)
  PROVE  Lists(p \o q, A \cup B)
<1> DEFINE s == p \o q
           m == Len(p)
           n == Len(q)
<1>0. /\ p \in Seq(A) /\ Distinct(p) /\ {p[i] : i \in DOMAIN p} = A
      /\ q \in Seq(B) /\ Distinct(q) /\ {q[i] : i \in DOMAIN q} = B
  BY Zenon DEF Lists
<1>1. m \in Nat /\ n \in Nat /\ DOMAIN p = 1..m /\ DOMAIN q = 1..n
  BY <1>0
<1>2. s \in Seq(A \cup B)
  <2>1. p \in Seq(A \cup B) /\ q \in Seq(A \cup B)
    BY <1>0
  <2>2. QED
    BY <2>1
<1>3. DOMAIN s = 1..(m + n)
  BY <1>0
<1>4. \A i \in 1..m : s[i] = p[i] /\ s[i] \in A
  BY <1>0
<1>5. \A i \in 1..(m + n) : i \notin 1..m => i - m \in 1..n /\ s[i] = q[i - m] /\ s[i] \in B
  BY <1>0
<1> HIDE DEF s, m, n
<1>6. ASSUME NEW i \in 1..(m + n), NEW j \in 1..(m + n), s[i] = s[j]
      PROVE  i = j
  <2>1. CASE i \in 1..m /\ j \in 1..m
    BY <1>0, <1>1, <1>4, <1>6, <2>1 DEF Distinct
  <2>2. CASE i \notin 1..m /\ j \notin 1..m
    <3>1. i - m \in 1..n /\ j - m \in 1..n /\ q[i - m] = q[j - m]
      BY <1>5, <1>6, <2>2
    <3>2. i - m = j - m
      BY <1>0, <1>1, <3>1 DEF Distinct
    <3>3. QED
      BY <1>1, <3>2
  <2>3. CASE (i \in 1..m) # (j \in 1..m)
    BY <1>4, <1>5, <1>6, <2>3
  <2>4. QED
    BY <2>1, <2>2, <2>3
<1>7. Distinct(s)
  BY <1>3, <1>6 DEF Distinct
<1>8. ASSUME NEW a \in A PROVE \E i \in 1..(m + n) : s[i] = a
  <2>1. PICK i \in 1..m : p[i] = a
    BY <1>0, <1>1
  <2>2. i \in 1..(m + n) /\ s[i] = a
    BY <1>1, <1>4, <2>1
  <2>3. QED
    BY <2>2
<1>9. ASSUME NEW b \in B PROVE \E i \in 1..(m + n) : s[i] = b
  <2>1. PICK i \in 1..n : q[i] = b
    BY <1>0, <1>1
  <2>2. m + i \in 1..(m + n) /\ m + i \notin 1..m /\ (m + i) - m = i
    BY <1>1
  <2>3. s[m + i] = b
    BY <1>5, <2>1, <2>2
  <2>4. QED
    BY <2>2, <2>3
<1>10. {s[i] : i \in DOMAIN s} = A \cup B
  <2>1. \A i \in 1..(m + n) : s[i] \in A \cup B
    BY <1>4, <1>5
  <2>2. \A c \in A \cup B : \E i \in 1..(m + n) : s[i] = c
    BY <1>8, <1>9
  <2>3. {s[i] : i \in 1..(m + n)} = A \cup B
    BY <2>1, <2>2
  <2>4. QED
    BY <1>3, <2>3
<1>11. QED
  <2>1. /\ s \in Seq(A \cup B) /\ Distinct(s)
        /\ {s[i] : i \in DOMAIN s} = A \cup B
    BY <1>2, <1>7, <1>10
  <2>2. QED
    BY <2>1, Zenon DEF s, Lists

(***************************************************************************)
(* What is written out when the program quits.                             *)
(***************************************************************************)

Control ==
  /\ pc \in {"select", "loop", "place", "quit", "abort"} /\ abort \in Assertions
  /\ connected \in BOOLEAN /\ faults \in 0..MaxFaults

(* The program has an id to give as soon as it is connected.               *)
Numbered ==
  /\ connected => validId # 0
  /\ ids \in Seq(Nat \ {0}) /\ Len(ids) <= Len(file)

Named ==
  /\ \A id \in DOMAIN orders : orders[id].request.orderId = id
  /\ \A id \in DOMAIN old : old[id] \in Packets

(* Every order that is filed was written out once; but the one on which    *)
(* finPlaceOrder() failed was written out once more.                       *)
Written ==
  \/ Lists(output, DOMAIN old)
  \/ /\ abort = "p_orders_old: no such id"
     /\ \E filed, id : /\ Lists(filed, DOMAIN old) /\ id \in DOMAIN old
                        /\ output = Append(filed, id)

LastOfId(i) == \A j \in DOMAIN ids : ids[j] = ids[i] => j <= i

(* What the program knows of the order: an id may be filed and open again. *)
RequestOf(id) == IF id \in DOMAIN orders THEN orders[id].request ELSE old[id].request

(* The packet of an id has the request that the file had last for it.      *)
Latest ==
  pc # "abort" =>
    \A i \in DOMAIN ids :
      LastOfId(i) => RequestOf(ids[i]) = [file[i] EXCEPT !.orderId = ids[i]]

AtQuit == pc = "quit" => Len(ids) = Len(file) /\ DOMAIN orders = {}

Complete == Control /\ Numbered /\ Named /\ Written /\ Latest /\ AtQuit

OInv == AInv /\ Counting /\ Complete

(* While the program runs nothing was written out twice.                   *)
LEMMA WrittenOnce ==
  ASSUME OInv, pc # "abort"
  PROVE  Lists(output, DOMAIN old)
BY DEF OInv, AInv, Thread, Complete, Written

LEMMA PlaceCompletes ==
  ASSUME OInv, PlaceOrder
  PROVE  Complete'
<1> DEFINE po == file[Len(ids) + 1]
           id == IF po.orderId = 0 THEN validId ELSE po.orderId
           n  == Len(ids)
<1>1. /\ ids' = Append(ids, id) /\ CountLeft > 0 /\ connected
      /\ validId' = IF po.orderId = 0 THEN validId + 1 ELSE validId
      /\ UNCHANGED <<connected, file, old, output, faults>> /\ pc = "place"
  BY DEF PlaceOrder
<1>2. \/ /\ id \notin DOMAIN orders
         /\ orders' = [i \in DOMAIN orders \cup {id} |->
                        IF i = id THEN Record(id, po) ELSE orders[i]]
         /\ pc' = "place" /\ abort' = abort
      \/ /\ id \in DOMAIN orders /\ po.orderId = id
         /\ orders' = [orders EXCEPT ![id] = Modify(@, po)]
         /\ pc' = "place" /\ abort' = abort
      \/ orders' = orders /\ pc' = "abort" /\ abort' \in Assertions
  BY DEF PlaceOrder, Goto, Abort, Assertions
<1>3. /\ file \in Seq(PlaceOrders) /\ ids \in Seq(Nat \ {0}) /\ validId \in Nat \ {0}
      /\ n \in Nat /\ Len(file) \in Nat
  BY <1>1, FilesAssumption DEF OInv, AInv, IInv, Types, Complete, Numbered
<1>4. n + 1 <= Len(file) /\ po \in PlaceOrders
  <2>1. n + 1 \in 1..Len(file)
    BY <1>1, <1>3 DEF CountLeft
  <2>2. QED
    BY <1>3, <2>1
<1>5. po.orderId \in Nat
  BY <1>4 DEF PlaceOrders
<1>6. id \in Nat \ {0} /\ validId' # 0
  BY <1>1, <1>3, <1>5
<1>7. /\ ids' \in Seq(Nat \ {0}) /\ Len(ids') = n + 1
      /\ DOMAIN ids = 1..n /\ DOMAIN ids' = 1..(n + 1)
      /\ ids'[n + 1] = id /\ \A i \in DOMAIN ids : ids'[i] = ids[i]
  BY <1>1, <1>3, <1>6
<1>8. /\ Record(id, po).request = [po EXCEPT !.orderId = id]
      /\ [po EXCEPT !.orderId = id].orderId = id
      /\ po.orderId = id => [po EXCEPT !.orderId = id] = po
  BY <1>4 DEF Record, PlaceOrders
<1>9. \A p \in Packets : Modify(p, po).request = po
  BY DEF Modify, Packets
<1>10. \A i \in DOMAIN orders : orders[i] \in Packets
  BY DEF OInv, AInv, IInv, Types
<1> HIDE DEF po, id, n
<1>11. /\ DOMAIN orders \subseteq DOMAIN orders'
       /\ \A i \in DOMAIN orders' : i # id => i \in DOMAIN orders /\ orders'[i] = orders[i]
  BY <1>2
<1>12. pc' # "abort" =>
         id \in DOMAIN orders' /\ orders'[id].request = [po EXCEPT !.orderId = id]
  BY <1>2, <1>8, <1>9, <1>10
<1>13. Control'
  BY <1>1, <1>2 DEF OInv, Complete, Control
<1>14. Numbered'
  BY <1>1, <1>4, <1>6, <1>7 DEF Numbered
<1>15. Named'
  <2>1. CASE pc' = "abort"
    BY <1>1, <1>2, <2>1 DEF OInv, Complete, Named
  <2>2. CASE pc' # "abort"
    <3>1. orders'[id].request.orderId = id
      BY <1>8, <1>12, <2>2
    <3>2. \A i \in DOMAIN orders' : orders'[i].request.orderId = i
      BY <1>11, <3>1 DEF OInv, Complete, Named
    <3>3. QED
      BY <1>1, <3>2 DEF OInv, Complete, Named
  <2>3. QED
    BY <2>1, <2>2
<1>16. Written'
  <2>1. Lists(output, DOMAIN old)
    BY <1>1, WrittenOnce
  <2>2. QED
    BY <1>1, <2>1 DEF Written, Lists, Distinct
<1>17. Latest'
  <2>1. SUFFICES ASSUME pc' # "abort", NEW i \in DOMAIN ids',
                        \A j \in DOMAIN ids' : ids'[j] = ids'[i] => j <= i,
                        NEW k, k = ids'[i]
                 PROVE  RequestOf(k)' = [file[i] EXCEPT !.orderId = k]
    BY <1>1 DEF Latest, LastOfId, RequestOf
  <2>2. CASE i = n + 1
    <3>1. k = id /\ file[i] = po
      BY <1>7, <2>1, <2>2 DEF po, n
    <3>2. QED
      BY <1>12, <2>1, <3>1 DEF RequestOf
  <2>3. CASE i # n + 1
    <3>1. i \in DOMAIN ids /\ i \in Nat /\ i < n + 1 /\ n + 1 \in DOMAIN ids'
      BY <1>3, <1>7, <2>1, <2>3
    <3>2. k = ids[i] /\ k # id
      <4>1. ids'[n + 1] # ids'[i]
        BY <1>3, <2>1, <3>1
      <4>2. QED
        BY <1>7, <2>1, <3>1, <4>1
    <3>3. LastOfId(i)
      <4>1. ASSUME NEW j \in DOMAIN ids, ids[j] = ids[i]
            PROVE  j <= i
        <5>1. j \in DOMAIN ids' /\ ids'[j] = ids'[i]
          BY <1>3, <1>7, <3>1, <4>1
        <5>2. QED
          BY <2>1, <5>1
      <4>2. QED
        BY <4>1 DEF LastOfId
    <3>4. RequestOf(k) = [file[i] EXCEPT !.orderId = k]
      BY <1>1, <3>1, <3>2, <3>3 DEF OInv, Complete, Latest
    <3>5. RequestOf(k)' = RequestOf(k)
      BY <1>1, <1>11, <3>2 DEF RequestOf
    <3>6. QED
      BY <3>4, <3>5
  <2>4. QED
    BY <2>2, <2>3
<1>18. AtQuit'
  BY <1>2 DEF AtQuit
<1>19. QED
  BY <1>13, <1>14, <1>15, <1>16, <1>17, <1>18 DEF Complete

(* A step that keeps what is known of the orders sent.                    *)
LEMMA LatestStays ==
  ASSUME Latest, UNCHANGED <<file, ids>>, pc' # "abort" => pc # "abort",
         \A id \in Sent : RequestOf(id)' = RequestOf(id)
  PROVE  Latest'
<1>1. ASSUME NEW i \in DOMAIN ids, NEW k, k = ids[i]
      PROVE  RequestOf(k)' = RequestOf(k)
  BY <1>1 DEF Sent
<1>2. ASSUME pc' # "abort", NEW i \in DOMAIN ids, LastOfId(i), NEW k, k = ids[i]
      PROVE  RequestOf(k)' = [file[i] EXCEPT !.orderId = k]
  BY <1>1, <1>2 DEF Latest
<1>3. QED
  BY <1>2 DEF Latest, LastOfId, RequestOf

(* The ids sent are finitely many.                                         *)
LEMMA SentFinite ==
  ASSUME ids \in Seq(Nat)
  PROVE  IsFiniteSet(Sent) /\ Sent \in SUBSET Nat
<1>1. ids \in Surjection(1..Len(ids), Sent)
  BY DEF Surjection, Sent
<1>2. IsFiniteSet(1..Len(ids))
  BY FS_Interval
<1>3. QED
  BY <1>1, <1>2, FS_Surjection DEF Sent

LEMMA FinCompletes ==
  ASSUME OInv, FinPlaceOrder
  PROVE  Complete'
<1>1. UNCHANGED <<connected, file, validId, ids, faults>> /\ pc = "loop"
  BY DEF FinPlaceOrder
<1>2. Numbered'
  BY <1>1 DEF OInv, Complete, Numbered
<1>3. PICK B \in SUBSET DOMAIN Fin(orders) :
        /\ B \cap DOMAIN old = {} /\ FileAway(B)
        /\ DOMAIN orders' = DOMAIN orders \ B
        /\ \A id \in DOMAIN orders' :
             \/ orders'[id] = orders[id]
             \/ /\ id \in DOMAIN Fin(orders) \cap DOMAIN old
                /\ orders'[id] = Fin(orders)[id]
        /\ \/ /\ B = DOMAIN Fin(orders) /\ orders' = StillOpen(orders)
              /\ output' = output \o InOrder(B)
              /\ pc' \in {"place", "select"} /\ abort' = abort
           \/ \E id \in DOMAIN Fin(orders) \cap DOMAIN old :
                /\ output' = Append(output \o InOrder(B), id)
                /\ pc' = "abort" /\ abort' = "p_orders_old: no such id"
  BY FinCases
<1>4. /\ DOMAIN old' = DOMAIN old \cup B
      /\ \A id \in DOMAIN old : old'[id] = old[id]
      /\ \A id \in B : old'[id] = Fin(orders)[id]
  BY <1>3 DEF FileAway
<1>5. \A id \in DOMAIN Fin(orders) :
        /\ Fin(orders)[id] \in Packets
        /\ Fin(orders)[id].request = orders[id].request
  BY FiledPacket DEF OInv, AInv, IInv
<1>6. B \in SUBSET Nat /\ IsFiniteSet(B)
  <2>1. IsFiniteSet(Sent) /\ Sent \in SUBSET Nat
    BY SentFinite DEF OInv, AInv, IInv, Types
  <2>2. B \in SUBSET Sent
    BY DEF Fin, OInv, AInv, Filing
  <2>3. QED
    BY <2>1, <2>2, FS_Subset
<1>7. Control' /\ AtQuit'
  BY <1>1, <1>3 DEF OInv, Complete, Control, Assertions, AtQuit
<1>8. Named'
  BY <1>3, <1>4, <1>5 DEF OInv, Complete, Named
<1>9. Written'
  <2>1. Lists(InOrder(B), B)
    BY <1>6, InOrderLists
  <2>2. Lists(output, DOMAIN old)
    BY <1>1, WrittenOnce
  <2>3. DOMAIN old \cap B = {}
    BY <1>3
  <2>4. Lists(output \o InOrder(B), DOMAIN old \cup B)
    BY <2>1, <2>2, <2>3, ListsJoin
  <2>5. CASE output' = output \o InOrder(B)
    BY <1>4, <2>4, <2>5 DEF Written, Lists, Distinct
  <2>6. CASE output' # output \o InOrder(B)
    <3>1. PICK id \in DOMAIN old : output' = Append(output \o InOrder(B), id)
      BY <1>3, <2>6
    <3>2. abort' = "p_orders_old: no such id"
      BY <1>3, <2>6
    <3> DEFINE filed == output \o InOrder(B)
    <3>3. Lists(filed, DOMAIN old \cup B)
      BY <2>4
    <3> HIDE DEF filed
    <3>4. /\ filed \in Seq(DOMAIN old') /\ \A i, j \in DOMAIN filed : filed[i] = filed[j] => i = j
          /\ {filed[i] : i \in DOMAIN filed} = DOMAIN old'
      BY <1>4, <3>3, Zenon DEF Lists, Distinct
    <3>5. id \in DOMAIN old'
      BY <1>4, <3>1
    <3>6. output' = Append(filed, id)
      BY <3>1 DEF filed
    <3>7. \E s, x : /\ s \in Seq(DOMAIN old') /\ (\A i, j \in DOMAIN s : s[i] = s[j] => i = j)
                    /\ {s[i] : i \in DOMAIN s} = DOMAIN old'
                    /\ x \in DOMAIN old' /\ output' = Append(s, x)
      BY <3>4, <3>5, <3>6, Zenon
    <3>8. QED
      BY <3>2, <3>7, Zenon DEF Written, Lists, Distinct
  <2>7. QED
    BY <2>5, <2>6
<1>10. Latest'
  <2>1. CASE pc' = "abort"
    BY <2>1 DEF Latest
  <2>2. CASE pc' # "abort"
    <3>1. /\ B = DOMAIN Fin(orders)
          /\ \A id \in DOMAIN orders' : orders'[id] = orders[id]
      BY <1>3, <2>2
    <3>2. ASSUME NEW id \in Sent
          PROVE  RequestOf(id)' = RequestOf(id)
      <4>1. CASE id \in B
        <5>1. id \in DOMAIN orders /\ id \notin DOMAIN orders' /\ id \notin DOMAIN old
          BY <1>3, <4>1 DEF Fin
        <5>2. QED
          BY <1>4, <1>5, <4>1, <5>1 DEF RequestOf
      <4>2. CASE id \notin B
        BY <1>3, <1>4, <3>1, <4>2 DEF RequestOf, OInv, AInv, IInv, Known
      <4>3. QED
        BY <4>1, <4>2
    <3>3. pc # "abort"
      BY <1>1
    <3>4. QED
      BY <1>1, <3>2, <3>3, LatestStays DEF OInv, Complete
  <2>3. QED
    BY <2>1, <2>2
<1>11. QED
  BY <1>2, <1>7, <1>8, <1>9, <1>10 DEF Complete

LEMMA UpdateCompletes ==
  ASSUME OInv, Updates
  PROVE  Complete'
<1>1. /\ UNCHANGED <<file, validId, ids, old>> /\ DOMAIN orders' = DOMAIN orders
      /\ \A i \in DOMAIN orders : Grows(orders[i], orders'[i])
  BY UpdateCases DEF OInv, AInv, IInv
<1>2. \A i \in DOMAIN orders : orders'[i].request = orders[i].request
  BY <1>1 DEF Grows
<1>3. /\ UNCHANGED <<connected, output, faults>> /\ pc \in {"select", "loop", "place"}
      /\ \/ UNCHANGED <<pc, abort>>
         \/ pc' = "abort" /\ abort' = "p_orders_old: no such id"
  BY DEF Updates, SomeRow, OrderRow, SomeError, OrderError, TwsError, SomeMktData,
         MktDataError, Callback, SomeDue, OrderDue, Deliver, Abort
<1>4. Control' /\ AtQuit'
  BY <1>3 DEF OInv, Complete, Control, Assertions, AtQuit
<1>5. Numbered' /\ Named' /\ Written'
  <2>1. Numbered' /\ Named'
    BY <1>1, <1>2, <1>3 DEF OInv, Complete, Numbered, Named
  <2>2. Lists(output, DOMAIN old)
    BY <1>3, WrittenOnce
  <2>3. QED
    BY <1>1, <1>3, <2>1, <2>2 DEF Written, Lists, Distinct
<1>6. Latest'
  <2>1. ASSUME NEW id \in Sent
        PROVE  RequestOf(id)' = RequestOf(id)
    BY <1>1, <1>2 DEF RequestOf
  <2>2. pc # "abort"
    BY <1>3
  <2>3. QED
    BY <1>1, <2>1, <2>2, LatestStays DEF OInv, Complete
<1>7. QED
  BY <1>4, <1>5, <1>6 DEF Complete

(* The TWS never says the id 0, which means that there is none.            *)
LEMMA NextIdCounts ==
  ASSUME Types, Connected
  PROVE  validId' \in Nat \ {0}
<1>1. Sent \cup FirstIds \subseteq Nat
  <2>1. Sent \subseteq Nat
    BY DEF Types, Sent
  <2>2. QED
    BY <2>1, FirstIdsAssumption
<1>2. CASE validId' \in NextValidIds
  <2>1. CASE validId = 0
    BY <1>2, <2>1, FirstIdsAssumption DEF NextValidIds
  <2>2. CASE validId # 0
    <3>1. PICK m \in Sent \cup FirstIds : validId' = m + 1
      BY <1>2, <2>2 DEF NextValidIds, Sent
    <3>2. QED
      BY <1>1, <3>1
  <2>3. QED
    BY <2>1, <2>2
<1>3. CASE validId # 0 /\ UNCHANGED validId
  BY <1>3 DEF Types
<1>4. QED
  BY <1>2, <1>3 DEF Connected

LEMMA CompleteKept ==
  ASSUME OInv, [Next]_vars
  PROVE  Complete'
<1>1. CASE PlaceAllOrdersDone \/ ConnectionLost \/ Connected \/ Wake \/ SlotBegins
           \/ UNCHANGED vars
  <2>1. UNCHANGED <<file, ids, orders, old, output>>
    BY <1>1 DEF PlaceAllOrdersDone, ConnectionLost, Connected, Wake, SlotBegins, vars
  <2>2. Named' /\ Written'
    <3>1. abort = abort' \/ pc # "abort"
      BY <1>1 DEF PlaceAllOrdersDone, ConnectionLost, Connected, Wake, SlotBegins, vars
    <3>2. Named'
      BY <2>1 DEF OInv, Complete, Named
    <3>3. CASE pc # "abort"
      <4>1. Lists(output, DOMAIN old)
        BY <3>3, WrittenOnce
      <4>2. QED
        BY <2>1, <3>2, <4>1 DEF Written, Lists, Distinct
    <3>4. CASE abort = abort'
      BY <2>1, <3>2, <3>4 DEF OInv, Complete, Written, Lists, Distinct
    <3>5. QED
      BY <3>1, <3>3, <3>4
  <2>3. Control'
    <3>1. faults' \in 0..MaxFaults
      <4>1. faults' = faults \/ (faults' = faults + 1 /\ faults < MaxFaults)
        BY <1>1 DEF PlaceAllOrdersDone, ConnectionLost, Connected, Wake, SlotBegins, vars
      <4>2. faults \in 0..MaxFaults
        BY DEF OInv, Complete, Control
      <4>3. QED
        BY <4>1, <4>2, FaultsAssumption
    <3>2. /\ pc' \in {"select", "loop", "place", "quit", "abort"} /\ abort' \in Assertions
          /\ connected' \in BOOLEAN
      BY <1>1
         DEF OInv, Complete, Control, PlaceAllOrdersDone, ConnectionLost, Connected, Wake,
             SlotBegins, vars, Goto, Abort, Assertions
    <3>3. QED
      BY <3>1, <3>2 DEF Control
  <2>4. connected' => validId' # 0
    <3>1. CASE Connected
      BY <3>1, NextIdCounts DEF OInv, AInv, IInv
    <3>2. CASE ~Connected
      BY <1>1, <3>2 DEF OInv, Complete, Numbered, PlaceAllOrdersDone, ConnectionLost, Wake,
                        SlotBegins, vars
    <3>3. QED
      BY <3>1, <3>2
  <2>5. Numbered'
    BY <2>1, <2>4 DEF OInv, Complete, Numbered
  <2>6. pc' # "abort" => pc # "abort"
    BY <1>1 DEF PlaceAllOrdersDone, ConnectionLost, Connected, Wake, SlotBegins, vars
  <2>7. Latest'
    <3>1. ASSUME NEW id \in Sent
          PROVE  RequestOf(id)' = RequestOf(id)
      BY <2>1 DEF RequestOf
    <3>2. QED
      BY <2>1, <2>6, <3>1, LatestStays DEF OInv, Complete
  <2>8. AtQuit'
    <3>1. CASE PlaceAllOrdersDone
      <4>1. pc' = "quit" => CountLeft = 0 /\ DOMAIN orders = {}
        BY <3>1 DEF PlaceAllOrdersDone, Goto
      <4>2. Len(file) \in Nat /\ Len(ids) \in Nat
        BY FilesAssumption DEF OInv, AInv, IInv, Types
      <4>3. QED
        BY <2>1, <4>1, <4>2 DEF AtQuit, CountLeft
    <3>2. CASE ~PlaceAllOrdersDone
      <4>1. pc' = "quit" => pc = "quit"
        BY <1>1, <3>2 DEF ConnectionLost, Connected, Wake, SlotBegins, vars, Goto, Abort
      <4>2. QED
        BY <2>1, <4>1 DEF OInv, Complete, AtQuit
    <3>3. QED
      BY <3>1, <3>2
  <2>9. QED
    BY <2>2, <2>3, <2>5, <2>7, <2>8 DEF Complete
<1>2. QED
  BY <1>1, StepCases, PlaceCompletes, FinCompletes, UpdateCompletes DEF Updates

LEMMA OInvHolds == Spec => []OInv
<1>1. Init => Counting
  BY RateAssumption DEF Init, Counting, NewRateLimit, RateLimitType
<1>2. ASSUME Init PROVE Complete
  <2>1. /\ pc = "loop" /\ abort = "none" /\ connected = FALSE /\ file \in Seq(PlaceOrders)
        /\ ids = << >> /\ orders = << >> /\ old = << >> /\ output = << >> /\ faults = 0
    BY <1>2, FilesAssumption DEF Init
  <2>2. 0 \in 0..MaxFaults
    BY FaultsAssumption
  <2>3. Control /\ AtQuit
    BY <2>1, <2>2 DEF Control, Assertions, AtQuit
  <2>4. Numbered
    BY <2>1 DEF Numbered
  <2>5. Named /\ Written /\ Latest
    BY <2>1 DEF Named, Written, Lists, Distinct, Latest
  <2>6. QED
    BY <2>3, <2>4, <2>5 DEF Complete
<1>3. Init /\ IInv => OInv
  <2>1. Init => Filing /\ AllOpen /\ Thread /\ AssertsHold
    BY DEF Init, Filing, AllOpen, Thread, AssertsHold
  <2>2. QED
    BY <1>1, <1>2, <2>1 DEF OInv, AInv
<1>4. OInv /\ [Next]_vars => OInv'
  BY AInvKept, CountingKept, CompleteKept DEF OInv
<1>5. QED
  BY <1>3, <1>4, IInvHolds, PTL DEF Spec

(* Every variable has its type; in particular no order gets the id 0, and  *)
(* every packet of finPlaceOrder() has the id under which it is found.     *)
THEOREM OrdersTyped == Spec => []TypeOK
<1>1. ASSUME OInv PROVE TypeOK
  <2>1. /\ pc \in {"select", "loop", "place", "quit", "abort"} /\ abort \in Assertions
        /\ connected \in BOOLEAN /\ faults \in 0..MaxFaults
    BY <1>1 DEF OInv, Complete, Control
  <2>2. /\ file \in Files /\ session \in Sessions /\ validId \in Nat
        /\ rate \in RateLimitType /\ slotSent \in Nat
    BY <1>1 DEF OInv, AInv, IInv, Types, Counting
  <2>3. ids \in Seq(Nat \ {0}) /\ Len(ids) <= Len(file)
    BY <1>1 DEF OInv, Complete, Numbered
  <2>4. /\ DOMAIN orders \subseteq Sent
        /\ \A id \in DOMAIN orders : orders[id] \in Packets /\ orders[id].request.orderId = id
    BY <1>1 DEF OInv, AInv, Filing, IInv, Types, Complete, Named
  <2>5. DOMAIN old \subseteq Sent /\ \A id \in DOMAIN old : old[id] \in Packets
    BY <1>1 DEF OInv, AInv, Filing, Complete, Named
  <2>6. output \in Seq(DOMAIN old) /\ refused \subseteq Sent
    <3>1. ASSUME Lists(output, DOMAIN old)
          PROVE  output \in Seq(DOMAIN old)
      BY <3>1, Zenon DEF Lists
    <3>2. ASSUME NEW filed, NEW id \in DOMAIN old, Lists(filed, DOMAIN old),
                 output = Append(filed, id)
          PROVE  output \in Seq(DOMAIN old)
      <4>1. filed \in Seq(DOMAIN old)
        BY <3>2, Zenon DEF Lists
      <4>2. QED
        BY <3>2, <4>1
    <3>3. refused \subseteq Sent
      BY <1>1 DEF OInv, AInv, IInv, Known
    <3>4. QED
      BY <1>1, <3>1, <3>2, <3>3, Zenon DEF OInv, Complete, Written
  <2>7. QED
    BY <2>1, <2>2, <2>3, <2>4, <2>5, <2>6 DEF TypeOK
<1>2. OInv => TypeOK
  BY <1>1
<1>3. QED
  BY <1>2, OInvHolds, PTL

(* When the program quits it has sent every order of the file, and has     *)
(* written out each order once, with what the file said of it last; and it *)
(* never writes out an order twice, unless it stops at once because the id *)
(* of a new order was used before.                                         *)
THEOREM QuitIsComplete == Spec => []QuitComplete
<1>1. ASSUME OInv PROVE QuitComplete
  <2>1. /\ {output[i] : i \in DOMAIN output} = DOMAIN old
        /\ \A i, j \in DOMAIN output : i < j /\ output[i] = output[j] =>
             j = Len(output) /\ abort = "p_orders_old: no such id"
    <3>1. CASE Lists(output, DOMAIN old)
      <4>1. /\ output \in Seq(DOMAIN old) /\ Distinct(output)
            /\ {output[i] : i \in DOMAIN output} = DOMAIN old
        BY <3>1, Zenon DEF Lists
      <4>2. ASSUME NEW i \in DOMAIN output, NEW j \in DOMAIN output, output[i] = output[j]
            PROVE  i = j
        BY <4>1, <4>2, Zenon DEF Distinct
      <4>3. ASSUME NEW i \in DOMAIN output, NEW j \in DOMAIN output, i < j,
                   output[i] = output[j]
            PROVE  FALSE
        <5>1. i \in Nat /\ i = j
          BY <4>1, <4>2, <4>3
        <5>2. QED
          BY <4>3, <5>1
      <4>4. QED
        BY <4>1, <4>3
    <3>2. CASE ~Lists(output, DOMAIN old)
      <4>1. PICK filed, id : /\ Lists(filed, DOMAIN old) /\ id \in DOMAIN old
                             /\ output = Append(filed, id)
        BY <1>1, <3>2 DEF OInv, Complete, Written
      <4>2. abort = "p_orders_old: no such id"
        BY <1>1, <3>2 DEF OInv, Complete, Written
      <4>3. /\ filed \in Seq(DOMAIN old) /\ Distinct(filed)
            /\ {filed[i] : i \in DOMAIN filed} = DOMAIN old
        BY <4>1, Zenon DEF Lists
      <4>4. /\ Len(output) = Len(filed) + 1 /\ Len(filed) \in Nat
            /\ DOMAIN filed = 1..Len(filed) /\ DOMAIN output = 1..(Len(filed) + 1)
            /\ \A i \in DOMAIN filed : output[i] = filed[i]
            /\ output[Len(filed) + 1] = id
        BY <4>1, <4>3
      <4>5. {output[i] : i \in DOMAIN output} = DOMAIN old
        <5>1. ASSUME NEW i \in DOMAIN output PROVE output[i] \in DOMAIN old
          <6>1. CASE i \in DOMAIN filed
            BY <4>3, <4>4, <6>1
          <6>2. CASE i \notin DOMAIN filed
            BY <4>1, <4>4, <6>2
          <6>3. QED
            BY <6>1, <6>2
        <5>2. ASSUME NEW x \in DOMAIN old PROVE \E i \in DOMAIN output : output[i] = x
          <6>1. PICK i \in DOMAIN filed : filed[i] = x
            BY <4>3
          <6>2. QED
            BY <4>4, <6>1
        <5>3. QED
          BY <5>1, <5>2
      <4>6. ASSUME NEW i \in DOMAIN output, NEW j \in DOMAIN output, i < j,
                   output[i] = output[j]
            PROVE  j = Len(output)
        BY <4>3, <4>4, <4>6 DEF Distinct
      <4>7. QED
        BY <4>2, <4>5, <4>6
    <3>3. QED
      BY <3>1, <3>2
  <2>2. ASSUME pc = "quit"
        PROVE  /\ Len(ids) = Len(file) /\ DOMAIN old = Sent
               /\ \A i \in DOMAIN ids :
                    LastOfId(i) => old[ids[i]].request = [file[i] EXCEPT !.orderId = ids[i]]
    <3>1. Len(ids) = Len(file) /\ DOMAIN orders = {}
      BY <1>1, <2>2 DEF OInv, Complete, AtQuit
    <3>2. DOMAIN old = Sent
      BY <1>1, <3>1 DEF OInv, AInv, IInv, Known, Filing
    <3>3. \A id : RequestOf(id) = old[id].request
      BY <3>1 DEF RequestOf
    <3>4. \A i \in DOMAIN ids :
            LastOfId(i) => RequestOf(ids[i]) = [file[i] EXCEPT !.orderId = ids[i]]
      BY <1>1, <2>2 DEF OInv, Complete, Latest
    <3>5. QED
      BY <3>1, <3>2, <3>3, <3>4
  <2>3. QED
    BY <2>1, <2>2 DEF QuitComplete, LastOfId
<1>2. OInv => QuitComplete
  BY <1>1
<1>3. QED
  BY <1>2, OInvHolds, PTL
=============================================================================
