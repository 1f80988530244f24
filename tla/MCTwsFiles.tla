----------------------------- MODULE MCTwsFiles -----------------------------
(* Pipelines of twsdo and twsgen: the sample scripts, files as they may be,*)
(* every field with another value than its default, every end and duration.*)
EXTENDS TwsFiles

(* 2002 is a Sunday, 2011-10-02.                                           *)
Day(d)     == [day |-> d, sec |-> 0, kind |-> "day"]
Time(d, t) == [day |-> d, sec |-> t, kind |-> "time"]

MCCalendar ==
  [s \in {"20110923"} |-> Day(1993)] @@ [s \in {"20110926"} |-> Day(1996)]
  @@ [s \in {"20110929"} |-> Day(1999)] @@ [s \in {"20110930"} |-> Day(2000)]
  @@ [s \in {"20111001"} |-> Day(2001)] @@ [s \in {"20111002"} |-> Day(2002)]
  @@ [s \in {"20111003"} |-> Day(2003)] @@ [s \in {"20111004"} |-> Day(2004)]
  @@ [s \in {"20111005"} |-> Day(2005)] @@ [s \in {"20111006"} |-> Day(2006)]
  @@ [s \in {"20111007"} |-> Day(2007)] @@ [s \in {"20111008"} |-> Day(2008)]
  @@ [s \in {"20111006 12:00:00"} |-> Time(2006, 43200)]
  @@ [s \in {"201110"} |-> [day |-> 2001, sec |-> 0, kind |-> "month"]]

Period(n, u) == [n |-> n, unit |-> u]

MCDurations ==
  ("0 D" :> Period(0, "D")) @@ ("1 D" :> Period(1, "D")) @@ ("2 D" :> Period(2, "D"))
  @@ ("3 D" :> Period(3, "D")) @@ ("4 D" :> Period(4, "D")) @@ ("5 D" :> Period(5, "D"))
  @@ ("6 D" :> Period(6, "D")) @@ ("7 D" :> Period(7, "D")) @@ ("11 D" :> Period(11, "D"))
  @@ ("34 D" :> Period(34, "D")) @@ ("20 D" :> Period(20, "D")) @@ ("2 W" :> Period(2, "W"))
  @@ ("1 M" :> Period(1, "M")) @@ ("1 Y" :> Period(1, "Y")) @@ ("69 Y" :> Period(69, "Y"))
  @@ ("3600 S" :> Period(3600, "S")) @@ ("86400 S" :> Period(86400, "S"))
  @@ ("-1 D" :> Period(-1, "D")) @@ ("2 H" :> Period(2, "H"))

(***************************************************************************)
(* Programs.                                                               *)
(***************************************************************************)

Twsdo   == [prog |-> "twsdo", verbose |-> FALSE, ask |-> {}]
Histjob == [prog |-> "histjob", verbose |-> FALSE, end |-> "20111006", dur |-> "2 D",
            bar |-> "1 hour", wts |-> <<"TRADES">>, rth |-> FALSE, utc |-> FALSE,
            exp |-> "auto", max |-> ""]
Csv     == [Histjob EXCEPT !.prog = "csv"]
NoConv  == [Histjob EXCEPT !.prog = "noconv"]

X(program) == [program EXCEPT !.verbose = TRUE]

(***************************************************************************)
(* Values.                                                                 *)
(***************************************************************************)

(* A struct with a value of its own in each field, and all parts there.    *)
Sample(kind, f, n, d) ==
  CASE kind = "STRING" -> f
    [] kind = "BOOL"   -> d # 7
    [] kind = "DOUBLE" -> d
    [] kind = "INT"    -> IF n > 7 THEN 7 ELSE n
    [] OTHER           -> n

RECURSIVE Full(_, _, _)
Full(t, n, d) ==
  [fields |-> [f \in FieldsOf(t) |-> Sample(KindOf(t, f), f, n, d)],
   parts  |-> [p \in Schema[t].values |-> <<Full(PartType[p], n, d)>>]
              @@ [p \in Schema[t].pointers |->
                    IF p \in {"deltaNeutralContract"} \/ d = 7
                    THEN <<Full(PartType[p], n, d)>>
                    ELSE <<Full(PartType[p], n, d), New(PartType[p])>>]]

Contract(symbol, expiry) ==
  [New("Contract") EXCEPT !.fields.symbol = symbol, !.fields.expiry = expiry,
                          !.fields.secType = IF expiry = "" THEN "CASH" ELSE "FUT"]

Details(symbol, expiry) ==
  [New("ContractDetails") EXCEPT !.parts.summary = <<Contract(symbol, expiry)>>]

Row(name, value) == [name |-> name, value |-> value]
(* Contract details of pairs of a symbol and an expiry.                    *)
Known(pairs) ==
  [i \in DOMAIN pairs |-> Row("ContractDetails", Details(pairs[i][1], pairs[i][2]))]
Bar(date, volume) ==
  Row("row", [New("RowHist") EXCEPT !.fields.date = date, !.fields.volume = volume,
                                    !.fields.count = 0, !.fields.open = 145])
Fin == Row("fin", [New("RowHist") EXCEPT !.fields.date = "finished"])

NoTws == [account |-> << >>, executions |-> << >>, open_orders |-> << >>,
          contract_details |-> << >>, opt_params |-> << >>,
          historical_data |-> <<Fin>>, place_order |-> << >>]

Simple3(none) ==
  [none EXCEPT
    !.account     = <<Row("AccVal", Full("RowAccVal", 3, 7)), Row("Prtfl", Full("RowPrtfl", 3, 7)),
                      Row("stamp", Full("RowStamp", 3, 7)), Row("end", Full("RowEnd", 3, 7))>>,
    !.executions  = <<Row("ExecDetails", Full("RowExecution", 3, 7))>>,
    !.open_orders = <<Row("OrderStatus", Full("RowOrderStatus", 3, 7)),
                      Row("OpenOrder", Full("RowOpenOrder", 3, 7))>>]

(***************************************************************************)
(* Files.                                                                  *)
(***************************************************************************)

Element(type, query) ==
  [tag |-> "request", type |-> type, response |-> << >>,
   query |-> IF query = << >> THEN << >> ELSE <<ToXml(QueryStruct[type], query[1], FALSE)>>]
Bare(type)    == Element(type, << >>)
Want(type)    == Element(type, <<New(QueryStruct[type])>>)
Of(nodes)     == Foreign([root |-> "TWSXML", nodes |-> nodes])
Work1(nodes)   == FileOf(<<Of(nodes)>>)

(* Below, want[t] is a request of type t that says nothing, and none a TWS *)
(* that knows nothing.                                                     *)

Case(programs, f, answers, n) == [plan |-> programs, file |-> f, tws |-> answers, kills |-> n]

(* The sample script for futures, one of its programs killed.              *)
Futures(none) == [none EXCEPT
  !.contract_details = Known(<<<<"A", "20111007">>, <<"A", "20111003">>, <<"B", "">>>>),
  !.historical_data  = <<Bar("20111005", 7), Fin>>]

Samples(want, none) ==
  {Case(<<Twsdo, [Histjob EXCEPT !.wts = <<"TRADES", "BID_ASK">>, !.exp = e], Twsdo, Csv>>,
        Work1(<<want["contract_details"]>>), Futures(none), 0) : e \in {"auto", "keep", "what"}}
  \cup {Case(<<Twsdo, Histjob, Twsdo, Csv>>, Work1(<<want["contract_details"]>>), Futures(none), 1)}

(* Files by hand: roots and tags that are not known, many elements, empty  *)
(* documents, form feeds too many or missing, a text.                      *)
Hand(docs, cells) == [docs |-> docs, cells |-> cells]
FF == <<FormFeed>>
Odd(want) == Of(<<[want["open_orders"] EXCEPT !.tag = "note"],
                  [want["account"] EXCEPT !.type = "none"],
                  want["account"], Bare("account"), want["executions"]>>)
Empty       == Of(<< >>)
Other(want) == Foreign([root |-> "other", nodes |-> <<want["account"]>>])

Files(want) ==
  UNION {{FileOf(<<Other(want), Empty, odd, one>>),
          Hand(<<one>>, Cells(1, 2)), Hand(<<one>>, << >>),
          Hand(<<one, odd>>, Cells(1, 2) \o FF \o Cells(2, 2)),
          Hand(<<one, odd>>, Cells(1, 2) \o FF \o FF \o Cells(2, 2)),
          Hand(<<one, odd>>, Cells(1, 2) \o <<PlainText>> \o FF \o Cells(2, 2)),
          FileOf(<<odd, Line("note"), one>>)} :
           one \in {Of(<<want["contract_details"]>>)}, odd \in {Odd(want)}}

(* Documents of earlier versions: the other name of expiry, and the trading*)
(* class with the details.                                                 *)
Renamed(node, name, old) ==
  [node EXCEPT !.attrs = [a \in (DOMAIN @ \ {name}) \cup {old} |->
                            IF a = old THEN @[name] ELSE @[a]]]
Earlier(p, doc) == [kind |-> "doc", doc |-> doc, packet |-> <<p>>]

OldQuote ==
  LET query == [New("HistRequest") EXCEPT !.parts.reqContract = <<Contract("A", "20111007")>>]
      p     == Packet("historical_data", <<query>>, << >>, FALSE)
  IN  Earlier(p, [PacketXml(p, FALSE) EXCEPT !.nodes[1].query[1].children.reqContract[1] =
                    Renamed(@, "expiry", "lastTradeDateOrContractMonth")])

OldDetails ==
  LET details == [Details("A", "20111007") EXCEPT !.parts.summary[1].fields.tradingClass = "T"]
      p       == Packet("contract_details", <<New("ContractDetailsRequest")>>,
                        <<Row("ContractDetails", details)>>, TRUE)
      Moved(node) ==
        [node EXCEPT !.attrs = [tradingClass |-> "T"],
                     !.children.summary[1].attrs =
                       [a \in DOMAIN @ \ {"tradingClass"} |-> @[a]]]
  IN  Earlier(p, [PacketXml(p, FALSE) EXCEPT !.nodes[1].response[1][1].node = Moved(@)])

ByHand(want, none) ==
  {Case(<<p>>, f, Simple3(none), 0) : p \in {Twsdo, Histjob, Csv, NoConv}, f \in Files(want)}
  \cup {Case(<<p>>, FileOf(<<OldQuote, OldDetails, OldQuote>>), none, 0) :
          p \in {Twsdo, Histjob, Csv, NoConv}}
  \cup {Case(<<p>>, Work1(<<Bare(t), want["account"]>>), none, 0) :
          p \in {Twsdo, Histjob, Csv, NoConv}, t \in Types \ SimpleTypes}
  \cup {Case(<<Twsdo, [NoConv EXCEPT !.max = m]>>, Work1(<<want["historical_data"]>>), none, 0) :
          m \in {"20111006", "201110"}}

(* Everything twsdo asks for, and its output read by each program.         *)
AllTypes(want) ==
  <<want["opt_params"], want["historical_data"], want["contract_details"]>>
Everything(want, none) ==
  {Case(<<[Twsdo EXCEPT !.ask = SimpleTypes], p>>, Work1(AllTypes(want)),
        [Simple3(none) EXCEPT !.opt_params = o,
                              !.contract_details = Known(<<<<"A", "20111007">>>>)], 0) :
     p \in {Twsdo, Histjob, Csv, NoConv}, o \in {<< >>, <<"SMART">>}}
  \cup {Case(<<Twsdo>>, Work1(<<want["market_data"]>>), none, 1)}

(* Orders: filled, or not transmitted, so without a row.                   *)
OrderOf(n, d) ==
  [New("PlaceOrder") EXCEPT !.parts.order = <<Full("Order", n, d)>>, !.fields.orderId = n]
OrderWork(want, none) ==
  {Case(<<t, Twsdo, Twsdo>>, Work1(<<Element("place_order", <<q>>), want["place_order"]>>),
        [none EXCEPT !.place_order = r], 0) :
     t \in {Twsdo, X(Twsdo)},
     q \in {OrderOf(s[1], s[2]) : s \in {<<0, 7>>, <<3, 145>>, <<2, MaxDouble>>, <<-1, 994>>}},
     r \in {<< >>, <<Row("error", Full("RowError", 3, 7))>>}}

(* All fields of contracts, rows and jobs, copied once and again.          *)
FullTws(none, n, d) == [none EXCEPT
  !.contract_details = <<Row("ContractDetails", Full("ContractDetails", n, d)),
                         Row("ContractDetails", New("ContractDetails"))>>,
  !.historical_data  = <<Row("row", Full("RowHist", n, d)), Row("row", New("RowHist")), Fin>>]

Conversions(none) ==
  {Case(<<t>> \o c,
        Work1(<<Element("historical_data", <<Full("HistRequest", n, d)>>),
                Element("contract_details", <<Full("ContractDetailsRequest", n, d)>>)>>),
        FullTws(none, n, d), 0) :
     t \in {Twsdo, X(Twsdo)}, n \in {-1, 0, 3, 9}, d \in {7, 144, 145, MaxDouble},
     c \in {<<Histjob>>} \cup {<<x, y, z>> : x, y, z \in {NoConv, X(NoConv)}}}

(* Every end of a week with durations of up to some weeks, and contracts   *)
(* that expire around the first day asked for.                             *)
WeekEnds == {"20111002", "20111003", "20111004", "20111005", "20111006", "20111007", "20111008",
          "20111006 12:00:00", "201110", ""}
Chain ==
  Known(<<<<"A", "20111006">>, <<"A", "20111001">>, <<"A", "20110930">>, <<"A", "20110929">>,
          <<"A", "20110926">>, <<"A", "20110923">>, <<"A", "20111002">>, <<"B", "">>>>)

Weeks(want, none) ==
  {Case(<<Twsdo, [Histjob EXCEPT !.end = e, !.dur = d]>>,
        Work1(<<want["contract_details"]>>), [none EXCEPT !.contract_details = Chain], 0) :
     e \in WeekEnds, d \in DOMAIN MCDurations \cup {"soon"}}
  \cup {Case(<<Twsdo, [Histjob EXCEPT !.dur = "", !.bar = b], [Csv EXCEPT !.dur = "", !.bar = b]>>,
             Work1(<<want["contract_details"]>>), [none EXCEPT !.contract_details = Chain], 0) :
          b \in {"5 mins", "1 day", "4 hours", "1 week"}}
  \cup {Case(<<Twsdo, Histjob>>, Work1(<<want["contract_details"]>>),
             [none EXCEPT
               !.contract_details = Known(<<<<"A", "20111006">>, <<"A", "201110">>>>)], 0)}

(* Dates of a conversion that are none, and a newest expiry.               *)
Quotes(expiry) ==
  Work1(<<Element("historical_data",
    <<[New("HistRequest") EXCEPT !.parts.reqContract = <<Contract("A", expiry)>>,
                                 !.fields.barSizeSetting = "4 hours"]>>)>>)
Conversion(none) ==
  {Case(<<Twsdo, [Csv EXCEPT !.max = m, !.prog = p]>>, Quotes(x),
        [none EXCEPT !.historical_data = <<Bar("20111005", 7), Bar(y, 7), Fin>>], 0) :
     m \in {"", "20111006", "20111006 12:00:00"}, p \in {"csv", "noconv"},
     x \in {"", "20111006", "20111007", "20111006 12:00:00", "201110"},
     y \in {"20111006", "1317859200"}}

MCCases ==
  UNION {Samples(want, none) \cup ByHand(want, none) \cup Everything(want, none)
           \cup OrderWork(want, none) \cup Conversions(none) \cup Weeks(want, none)
           \cup Conversion(none) :
         want \in {[t \in Types |-> Want(t)]}, none \in {NoTws}}
=============================================================================
