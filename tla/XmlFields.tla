----------------------------- MODULE XmlFields -----------------------------
(***************************************************************************)
(* The structs of the TWS API and of twstools as XML (tws_xml.cpp, the     *)
(* conv_ib2xml(), conv_xml2ib(), to_xml() and from_xml() of each struct,   *)
(* and the macros of tws_xml.h), for a library of version 9.73 or later.   *)
(*                                                                         *)
(* A struct is a record of its plain fields and its parts: structs in it,  *)
(* held by value, behind a pointer or in a list.  A part is a sequence, a  *)
(* NULL pointer is a part that is not there.  An XML node is a record of   *)
(* attributes and children in the same way.                                *)
(***************************************************************************)
EXTENDS Integers, Sequences

CONSTANT IntLimit (* The first number that is too large for an int: 2^31.      *)

ASSUME IntLimitAssumption == IntLimit \in Nat \ {0}

(***************************************************************************)
(* Numbers.  A double has three digits here, of which two are printed.  The*)
(* largest one rounds up to a number that is out of range.                 *)
(***************************************************************************)

MaxDouble == 999
Infinity  == 1000

Rounded(d) == IF d < 100 THEN d ELSE 10 * ((d + 5) \div 10)

(* snprintf() with "%.10g", and atof().                                    *)
Printed(d) == IF d < 0 THEN -Rounded(-d) ELSE Rounded(d)

(* atoi() of a number that is out of range.                                *)
Wrapped(v) == ((v + IntLimit) % (2 * IntLimit)) - IntLimit

(* ADD_ATTR_...: what is printed of a field.                               *)
Text(kind, v) == IF kind = "DOUBLE" THEN Printed(v) ELSE v

(* GET_ATTR_...: what is read of it.                                       *)
Parse(kind, text) == IF kind = "INT" THEN Wrapped(text) ELSE text

(***************************************************************************)
(* The attributes that are written, with their kinds, and those that are   *)
(* read.                                                                   *)
(***************************************************************************)

(* @@ of module TLC; nothing is known of that one in a proof.              *)
f ++ g == [x \in DOMAIN f \cup DOMAIN g |-> IF x \in DOMAIN f THEN f[x] ELSE g[x]]

Fields(kind, names) == [n \in names |-> kind]

NoFields == << >>

ComboLegWrites ==
  Fields("INT", {"exemptCode"})
  ++ Fields("LONG", {"conId", "ratio", "openClose", "shortSaleSlot"})
  ++ Fields("STRING", {"action", "exchange", "designatedLocation"})

DeltaNeutralContractWrites ==
  Fields("LONG", {"conId"})
  ++ Fields("DOUBLE", {"delta", "price"})

(* lastTradeDateOrContractMonth is written under its old name, expiry.     *)
ContractWrites ==
  Fields("LONG", {"conId"})
  ++ Fields("DOUBLE", {"strike"})
  ++ Fields("BOOL", {"includeExpired"})
  ++ Fields("STRING", {"symbol", "secType", "expiry", "right", "multiplier",
     "exchange", "primaryExchange", "currency", "localSymbol",
     "tradingClass", "secIdType", "secId", "comboLegsDescrip"})

ContractDetailsWrites ==
  Fields("INT", {"underConId", "mdSizeMultiplier", "aggGroup"})
  ++ Fields("LONG", {"priceMagnifier"})
  ++ Fields("DOUBLE", {"minTick", "evMultiplier", "coupon"})
  ++ Fields("BOOL", {"callable", "putable", "convertible",
     "nextOptionPartial"})
  ++ Fields("STRING", {"marketName", "orderTypes", "validExchanges",
     "longName", "contractMonth", "industry", "category", "subcategory",
     "timeZoneId", "tradingHours", "liquidHours", "evRule", "underSymbol",
     "underSecType", "marketRuleIds", "realExpirationDate", "lastTradeTime",
     "cusip", "ratings", "descAppend", "bondType", "couponType", "maturity",
     "issueDate", "nextOptionDate", "nextOptionType", "notes"})

ExecutionWrites ==
  Fields("INT", {"permId", "liquidation", "lastLiquidity"})
  ++ Fields("LONG", {"clientId", "orderId"})
  ++ Fields("DOUBLE", {"shares", "price", "cumQty", "avgPrice",
     "evMultiplier"})
  ++ Fields("STRING", {"execId", "time", "acctNumber", "exchange", "side",
     "orderRef", "evRule", "modelCode"})

ExecutionFilterWrites ==
  Fields("LONG", {"m_clientId"})
  ++ Fields("STRING", {"m_acctCode", "m_time", "m_symbol", "m_secType",
     "m_exchange", "m_side"})

TagValueWrites ==
  Fields("STRING", {"tag", "value"})

OrderComboLegWrites ==
  Fields("DOUBLE", {"price"})

FirstOrderWrites ==
  Fields("INT", {"permId", "ocaType", "displaySize", "triggerMethod",
     "minQty", "origin", "shortSaleSlot", "exemptCode", "auctionStrategy",
     "volatilityType"})
  ++ Fields("LONG", {"orderId", "clientId", "parentId"})
  ++ Fields("DOUBLE", {"totalQuantity", "lmtPrice", "auxPrice",
     "percentOffset", "trailStopPrice", "trailingPercent",
     "discretionaryAmt", "nbboPriceCap", "startingPrice", "stockRefPrice",
     "delta", "stockRangeLower", "stockRangeUpper", "volatility",
     "deltaNeutralAuxPrice"})
  ++ Fields("BOOL", {"transmit", "blockOrder", "sweepToFill", "outsideRth",
     "hidden", "allOrNone", "overridePercentageConstraints", "eTradeOnly",
     "firmQuoteOnly", "optOutSmartRouting", "randomizeSize",
     "randomizePrice"})
  ++ Fields("STRING", {"action", "orderType", "tif", "ocaGroup",
     "activeStartTime", "activeStopTime", "orderRef", "goodAfterTime",
     "goodTillDate", "rule80A", "faGroup", "faProfile", "faMethod",
     "faPercentage", "openClose", "designatedLocation",
     "deltaNeutralOrderType"})

LastOrderWrites ==
  Fields("INT", {"deltaNeutralShortSaleSlot", "referencePriceType",
     "basisPointsType", "scaleInitLevelSize", "scaleSubsLevelSize",
     "scalePriceAdjustInterval", "scaleInitPosition", "scaleInitFillQty",
     "referenceContractId", "adjustableTrailingUnit"})
  ++ Fields("LONG", {"deltaNeutralConId"})
  ++ Fields("DOUBLE", {"basisPoints", "scalePriceIncrement",
     "scalePriceAdjustValue", "scaleProfitOffset", "peggedChangeAmount",
     "referenceChangeAmount", "triggerPrice", "adjustedStopPrice",
     "adjustedStopLimitPrice", "adjustedTrailingAmount", "lmtPriceOffset",
     "cashQty"})
  ++ Fields("BOOL", {"deltaNeutralShortSale", "continuousUpdate",
     "scaleAutoReset", "scaleRandomPercent", "whatIf", "notHeld",
     "solicited", "isPeggedChangeAmountDecrease", "conditionsCancelOrder",
     "conditionsIgnoreRth", "dontUseAutoPriceForHedge"})
  ++ Fields("STRING", {"deltaNeutralSettlingFirm",
     "deltaNeutralClearingAccount", "deltaNeutralClearingIntent",
     "deltaNeutralOpenClose", "deltaNeutralDesignatedLocation",
     "scaleTable", "hedgeType", "hedgeParam", "account", "settlingFirm",
     "clearingAccount", "clearingIntent", "algoStrategy", "algoId",
     "modelCode", "referenceExchangeId", "adjustedOrderType", "extOperator",
     "mifid2DecisionMaker", "mifid2DecisionAlgo", "mifid2ExecutionTrader",
     "mifid2ExecutionAlgo"})

OrderStateWrites ==
  Fields("DOUBLE", {"commission", "minCommission", "maxCommission"})
  ++ Fields("STRING", {"status", "initMarginBefore", "maintMarginBefore",
     "equityWithLoanBefore", "initMarginChange", "maintMarginChange",
     "equityWithLoanChange", "initMarginAfter", "maintMarginAfter",
     "equityWithLoanAfter", "commissionCurrency", "warningText"})

HistRequestWrites ==
  Fields("INT", {"useRTH", "formatDate"})
  ++ Fields("STRING", {"endDateTime", "durationStr", "barSizeSetting",
     "whatToShow"})

AccStatusRequestWrites ==
  Fields("BOOL", {"subscribe"})
  ++ Fields("STRING", {"acctCode"})

PlaceOrderWrites ==
  Fields("LONG", {"orderId"})
  ++ Fields("LONGLONG", {"time_sent"})

RowHistWrites ==
  Fields("INT", {"count"})
  ++ Fields("LONGLONG", {"volume"})
  ++ Fields("DOUBLE", {"open", "high", "low", "close", "WAP"})
  ++ Fields("BOOL", {"hasGaps"})
  ++ Fields("STRING", {"date"})

RowErrorWrites ==
  Fields("INT", {"id", "code"})
  ++ Fields("STRING", {"msg"})

RowOrderStatusWrites ==
  Fields("INT", {"permId", "parentId", "clientId"})
  ++ Fields("LONG", {"id"})
  ++ Fields("DOUBLE", {"filled", "remaining", "avgFillPrice",
     "lastFillPrice"})
  ++ Fields("STRING", {"status", "whyHeld"})

RowAccValWrites ==
  Fields("STRING", {"key", "val", "currency", "accountName"})

RowPrtflWrites ==
  Fields("DOUBLE", {"position", "marketPrice", "marketValue",
     "averageCost", "unrealizedPNL", "realizedPNL"})
  ++ Fields("STRING", {"accountName"})

RowOpenOrderWrites == Fields("LONG", {"orderId"})
RowStampWrites     == Fields("STRING", {"timeStamp"})
RowEndWrites       == Fields("STRING", {"accountName"})

OrderWrites == FirstOrderWrites ++ LastOrderWrites

OrderLists == {"algoParams", "smartComboRoutingParams", "orderMiscOptions",
               "orderComboLegs"}

(* The readers know the attributes the writers write; only the volume of a *)
(* row is written as a long long and read as an int.                       *)
ComboLegReads             == ComboLegWrites
DeltaNeutralContractReads == DeltaNeutralContractWrites
ContractReads             == ContractWrites
ContractDetailsReads      == ContractDetailsWrites
ExecutionReads            == ExecutionWrites
ExecutionFilterReads      == ExecutionFilterWrites
TagValueReads             == TagValueWrites
OrderComboLegReads        == OrderComboLegWrites
FirstOrderReads           == FirstOrderWrites
LastOrderReads            == LastOrderWrites
OrderReads                == FirstOrderReads ++ LastOrderReads
OrderStateReads           == OrderStateWrites
HistRequestReads          == HistRequestWrites
AccStatusRequestReads     == AccStatusRequestWrites
PlaceOrderReads           == PlaceOrderWrites
RowHistReads              == [RowHistWrites EXCEPT !.volume = "INT"]
MktDataRequestReads       == Fields("STRING", {"genericTicks"}) ++ Fields("BOOL", {"snapshot"})

(***************************************************************************)
(* The structs: the fields written and read, the parts held by value and   *)
(* those behind a pointer.  The answers of the TWS are not read again but  *)
(* for contract details and rows; nor are market data and option           *)
(* parameters written.                                                     *)
(***************************************************************************)

Struct(writes, reads, values, pointers) ==
  [writes |-> writes, reads |-> reads, values |-> values, pointers |-> pointers]

Query(values) == Struct(NoFields, NoFields, values, {})

Schema ==
  [ComboLeg             |-> Struct(ComboLegWrites, ComboLegReads, {}, {}),
   DeltaNeutralContract |->
     Struct(DeltaNeutralContractWrites, DeltaNeutralContractReads, {}, {}),
   Contract             |->
     Struct(ContractWrites, ContractReads, {}, {"comboLegs", "deltaNeutralContract"}),
   ContractDetails      |->
     Struct(ContractDetailsWrites, ContractDetailsReads, {"summary"}, {"secIdList"}),
   Execution            |-> Struct(ExecutionWrites, ExecutionReads, {}, {}),
   ExecutionFilter      |-> Struct(ExecutionFilterWrites, ExecutionFilterReads, {}, {}),
   TagValue             |-> Struct(TagValueWrites, TagValueReads, {}, {}),
   OrderComboLeg        |-> Struct(OrderComboLegWrites, OrderComboLegReads, {}, {}),
   Order                |-> Struct(OrderWrites, OrderReads, {}, OrderLists),
   OrderState           |-> Struct(OrderStateWrites, OrderStateReads, {}, {}),
   ContractDetailsRequest |-> Query({"reqContract"}),
   HistRequest            |-> Struct(HistRequestWrites, HistRequestReads, {"reqContract"}, {}),
   AccStatusRequest       |-> Struct(AccStatusRequestWrites, AccStatusRequestReads, {}, {}),
   ExecutionsRequest      |-> Query({"executionFilter"}),
   OrdersRequest          |-> Query({}),
   PlaceOrder             |->
     Struct(PlaceOrderWrites, PlaceOrderReads, {"contract", "order"}, {}),
   MktDataRequest         |-> Struct(NoFields, MktDataRequestReads, {"reqContract"}, {}),
   OptParamsRequest       |-> Query({"reqContract"}),
   RowHist        |-> Struct(RowHistWrites, RowHistReads, {}, {}),
   RowError       |-> Struct(RowErrorWrites, NoFields, {}, {}),
   RowOrderStatus |-> Struct(RowOrderStatusWrites, NoFields, {}, {}),
   RowOpenOrder   |->
     Struct(RowOpenOrderWrites, NoFields, {"contract", "order", "orderState"}, {}),
   RowExecution   |-> Struct(NoFields, NoFields, {"contract", "execution"}, {}),
   RowAccVal      |-> Struct(RowAccValWrites, NoFields, {}, {}),
   RowPrtfl       |-> Struct(RowPrtflWrites, NoFields, {"contract"}, {}),
   RowStamp       |-> Struct(RowStampWrites, NoFields, {}, {}),
   RowEnd         |-> Struct(RowEndWrites, NoFields, {}, {})]

PartType ==
  [orderComboLegs |-> "OrderComboLeg"]
  ++ [p \in {"secIdList"} \cup OrderLists |-> "TagValue"]
  ++ [p \in {"summary", "reqContract", "contract"} |-> "Contract"]
  ++ [comboLegs |-> "ComboLeg", deltaNeutralContract |-> "DeltaNeutralContract",
      order |-> "Order", orderState |-> "OrderState",
      execution |-> "Execution", executionFilter |-> "ExecutionFilter"]

(* Rows that consist of what the TWS sent are written with all fields.     *)
Verbatim == {"RowError", "RowOrderStatus", "RowOpenOrder", "RowAccVal",
             "RowPrtfl", "RowStamp", "RowEnd"}

(***************************************************************************)
(* Default values.                                                         *)
(***************************************************************************)

Zero(kind) == CASE kind = "STRING" -> "" [] kind = "BOOL" -> FALSE [] OTHER -> 0

(* The library's constructors leave most doubles of an order unset.        *)
SetDoubles == {"totalQuantity", "discretionaryAmt", "peggedChangeAmount",
               "referenceChangeAmount"}

AllFields(schema) == DOMAIN schema.writes \cup DOMAIN schema.reads

FieldsOf(t) == AllFields(Schema[t])

Kind(schema, f) == IF f \in DOMAIN schema.writes THEN schema.writes[f] ELSE schema.reads[f]

KindOf(t, f) == Kind(Schema[t], f)

DefaultOf(t, f, kind) ==
  CASE t = "RowHist" /\ kind \notin {"STRING", "BOOL"} -> -1
    [] t = "AccStatusRequest" /\ f = "subscribe" -> TRUE
    [] t = "Order" /\ f = "transmit" -> TRUE
    [] t \in {"Order", "OrderState"} /\ kind = "DOUBLE" /\ f \notin SetDoubles -> MaxDouble
    [] OTHER -> Zero(kind)

Default(t, f) == DefaultOf(t, f, KindOf(t, f))

(***************************************************************************)
(* Structs are nested no deeper than a request with a contract with a leg: *)
(* there are structs without parts, structs with such parts (contract and  *)
(* order), and structs that hold these.                                    *)
(***************************************************************************)

NewFields(t) == [f \in FieldsOf(t) |-> Default(t, f)]

(* What is held by value holds nothing by value.                           *)
New(t) ==
  [fields |-> NewFields(t),
   parts  |-> [p \in Schema[t].values |->
                 <<[fields |-> NewFields(PartType[p]), parts |-> << >>]>>]]

(***************************************************************************)
(* Writing and reading.                                                    *)
(***************************************************************************)

(* With verbose, defaults are written too.                                 *)
Written(t, f, val, verbose) ==
  verbose \/ t \in Verbatim \/ val # Default(t, f)

Attrs(t, v, verbose) ==
  [f \in {g \in DOMAIN Schema[t].writes : Written(t, g, v.fields[g], verbose)} |->
     Text(Schema[t].writes[f], v.fields[f])]

LeafToXml(t, v, verbose) == [attrs |-> Attrs(t, v, verbose), children |-> << >>]

PartToXml(t, v, verbose) ==
  [attrs    |-> Attrs(t, v, verbose),
   children |-> [p \in DOMAIN v.parts |->
                   [i \in DOMAIN v.parts[p] |->
                      LeafToXml(PartType[p], v.parts[p][i], verbose)]]]

(* to_xml() and conv_ib2xml()                                              *)
ToXml(t, v, verbose) ==
  [attrs    |-> Attrs(t, v, verbose),
   children |-> [p \in DOMAIN v.parts |->
                   [i \in DOMAIN v.parts[p] |->
                      PartToXml(PartType[p], v.parts[p][i], verbose)]]]

(* Attributes of earlier versions: the new name of expiry wins; the trading*)
(* class of contract details was moved to the contract.                    *)
OldAttributes(t, v, node) ==
  CASE t = "Contract" /\ "lastTradeDateOrContractMonth" \in DOMAIN node.attrs ->
         [v EXCEPT !.fields.expiry = node.attrs.lastTradeDateOrContractMonth]
    [] t = "ContractDetails" /\ "tradingClass" \in DOMAIN node.attrs
         /\ "tradingClass" \notin DOMAIN node.children.summary[1].attrs ->
         [v EXCEPT !.parts.summary[1].fields.tradingClass = node.attrs.tradingClass]
    [] OTHER -> v

(* Faulty: what is not said becomes zero.                                  *)
ReadOrZero(t, f, attrs) ==
  IF f \in DOMAIN Schema[t].reads \cap DOMAIN attrs
  THEN Parse(Schema[t].reads[f], attrs[f]) ELSE Zero(KindOf(t, f))

(* What is not said keeps its default.                                     *)
ReadField(t, f, attrs) ==
  IF f \in DOMAIN Schema[t].reads \cap DOMAIN attrs
  THEN Parse(Schema[t].reads[f], attrs[f]) ELSE Default(t, f)

ReadFields(t, attrs) == [f \in FieldsOf(t) |-> ReadField(t, f, attrs)]

(* The parts of a struct that a node has.                                  *)
PartsIn(t, node) ==
  (Schema[t].values \cup Schema[t].pointers) \cap DOMAIN node.children

LeafFromXml(t, node) == [fields |-> ReadFields(t, node.attrs), parts |-> << >>]

PartFromXml(t, node) ==
  LET parts == [p \in PartsIn(t, node) |->
                  [i \in DOMAIN node.children[p] |->
                     LeafFromXml(PartType[p], node.children[p][i])]]
  IN  OldAttributes(t, [fields |-> ReadFields(t, node.attrs),
                        parts  |-> parts ++ New(t).parts], node)

(* from_xml() and conv_xml2ib()                                            *)
FromXml(t, node) ==
  LET parts == [p \in PartsIn(t, node) |->
                  [i \in DOMAIN node.children[p] |->
                     PartFromXml(PartType[p], node.children[p][i])]]
  IN  OldAttributes(t, [fields |-> ReadFields(t, node.attrs),
                        parts  |-> parts ++ New(t).parts], node)

(***************************************************************************)
(* What a struct is: a number in every field that holds one, one of each   *)
(* part held by value.  Nothing is asked of texts.                         *)
(***************************************************************************)

Numbers == {"INT", "LONG", "LONGLONG", "DOUBLE"}

IsSeq(s) == Len(s) \in Nat /\ s = [i \in 1..Len(s) |-> s[i]]

HasFields(t, v) ==
  /\ DOMAIN v = {"fields", "parts"} /\ DOMAIN v.fields = FieldsOf(t)
  /\ \A f \in FieldsOf(t) : KindOf(t, f) \in Numbers => v.fields[f] \in Int

HasParts(t, v) ==
  /\ Schema[t].values \subseteq DOMAIN v.parts
  /\ DOMAIN v.parts \subseteq Schema[t].values \cup Schema[t].pointers
  /\ \A p \in DOMAIN v.parts :
       IsSeq(v.parts[p]) /\ (p \in Schema[t].values => Len(v.parts[p]) = 1)

IsLeaf(t, v) == HasFields(t, v) /\ HasParts(t, v)

IsPart(t, v) ==
  /\ HasFields(t, v) /\ HasParts(t, v)
  /\ \A p \in DOMAIN v.parts : \A i \in DOMAIN v.parts[p] :
       IsLeaf(PartType[p], v.parts[p][i])

IsStruct(t, v) ==
  /\ HasFields(t, v) /\ HasParts(t, v)
  /\ \A p \in DOMAIN v.parts : \A i \in DOMAIN v.parts[p] :
       IsPart(PartType[p], v.parts[p][i])

(***************************************************************************)
(* A copy: each field is what it was, or what is read of what was written. *)
(***************************************************************************)

Again(t, f, x) == Parse(Schema[t].reads[f], Text(Schema[t].writes[f], x))

FieldsCopied(t, v, w) ==
  \A f \in FieldsOf(t) : w.fields[f] \in {v.fields[f], Again(t, f, v.fields[f])}

Shape(v, w) ==
  /\ DOMAIN w.parts = DOMAIN v.parts
  /\ \A p \in DOMAIN v.parts :
       DOMAIN w.parts[p] = DOMAIN v.parts[p] /\ Len(w.parts[p]) = Len(v.parts[p])

PartCopied(t, v, w) ==
  /\ FieldsCopied(t, v, w) /\ Shape(v, w)
  /\ \A p \in DOMAIN v.parts : \A i \in DOMAIN v.parts[p] :
       FieldsCopied(PartType[p], v.parts[p][i], w.parts[p][i])

StructCopied(t, v, w) ==
  /\ FieldsCopied(t, v, w) /\ Shape(v, w)
  /\ \A p \in DOMAIN v.parts : \A i \in DOMAIN v.parts[p] :
       PartCopied(PartType[p], v.parts[p][i], w.parts[p][i])
=============================================================================
