------------------------------ MODULE MCOrders ------------------------------
(* Orders on small instances: two orders to fill, one of them not to be    *)
(* transmitted or only asked about; an order that is placed and cancelled; *)
(* an order of the file that has the id the program would choose itself.   *)
EXTENDS Orders

Place(id)   == [orderId |-> id, transmit |-> TRUE, whatIf |-> FALSE, what |-> "place"]
Hold(id)    == [Place(id) EXCEPT !.transmit = FALSE]
WhatIf(id)  == [Place(id) EXCEPT !.whatIf = TRUE]
Cancel(id)  == [Place(id) EXCEPT !.what = "cancel"]

MCFiles    == {<<Place(0), Hold(0)>>, <<WhatIf(0), Place(0)>>,
               <<Place(2), Cancel(2)>>, <<Hold(1), Place(0)>>}
MCSessions == {[last |-> 0, mkt |-> 0], [last |-> 1, mkt |-> 0],
               [last |-> 2, mkt |-> 1]}
MCFirstIds == {1, 5}
=============================================================================
