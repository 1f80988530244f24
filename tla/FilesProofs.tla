---------------------------- MODULE FilesProofs -----------------------------
(***************************************************************************)
(* The pipeline of programs: whatever they are given, what one of them     *)
(* writes, the next can read.  First the documents by themselves: what is  *)
(* read of one is the packet it was written from.  Then an invariant of the*)
(* programs, of which TypeOK is a part, and for which their readers are the*)
(* readers of PipelineProofs.                                              *)
(***************************************************************************)
EXTENDS TwsFiles, PipelineProofs

(***************************************************************************)
(* Rows by their names.                                                    *)
(***************************************************************************)

(* The rows of a name are picked.                                          *)
LEMMA NamedPicked ==
  ASSUME NEW rows, IsSeq(rows), NEW name
  PROVE  LET K == {i \in 1..Len(rows) : rows[i].name = name}
         IN  Named(rows, name) = FlattenSeq(Picks(rows, K, Len(rows)))
<1>1. Len(rows) \in Nat /\ DOMAIN rows = 1..Len(rows)
  BY SeqDomain
<1> DEFINE K == {i \in 1..Len(rows) : rows[i].name = name}
<1>2. \A i \in 1..Len(rows) : i \in K <=> rows[i].name = name
  OBVIOUS
<1> HIDE DEF K
<1>3. [i \in DOMAIN rows |-> IF rows[i].name = name THEN <<rows[i]>> ELSE << >>]
        = Picks(rows, K, Len(rows))
  BY <1>1, <1>2 DEF Picks
<1>4. QED
  BY <1>3 DEF Named, K

(* All rows have the name.                                                 *)
LEMMA NamedAll ==
  ASSUME NEW rows, IsSeq(rows), NEW name, \A i \in DOMAIN rows : rows[i].name = name
  PROVE  Named(rows, name) = rows
<1> DEFINE n == Len(rows)
           K == {i \in 1..n : rows[i].name = name}
<1>1. n \in Nat /\ DOMAIN rows = 1..n /\ rows = [i \in 1..n |-> rows[i]]
  BY SeqDomain DEF IsSeq
<1>2. K = 1..n
  BY <1>1
<1>3. Named(rows, name) = FlattenSeq(Picks(rows, K, n))
  BY NamedPicked
<1> HIDE DEF K, n
<1>3a. K \in SUBSET (1..n)
  BY <1>2
<1>a. PICK idx \in Seq(K) :
        /\ K = 1..n => idx = [i \in 1..n |-> i]
        /\ \A s : FlattenSeq(Picks(s, K, n)) = [k \in 1..Len(idx) |-> s[idx[k]]]
  BY <1>1, <1>3a, Picked, Zenon
<1>4. /\ idx = [i \in 1..n |-> i]
      /\ FlattenSeq(Picks(rows, K, n)) = [k \in 1..Len(idx) |-> rows[idx[k]]]
  BY <1>2, <1>a, Zenon
<1>5. Len(idx) = n /\ \A k \in 1..n : idx[k] = k
  BY <1>1, <1>4
<1>6. QED
  BY <1>1, <1>3, <1>4, <1>5

(* No row has the name.                                                    *)
LEMMA NamedNone ==
  ASSUME NEW rows, IsSeq(rows), NEW name, \A i \in DOMAIN rows : rows[i].name # name
  PROVE  Named(rows, name) = << >>
<1> DEFINE n == Len(rows)
           K == {i \in 1..n : rows[i].name = name}
<1>1. n \in Nat /\ DOMAIN rows = 1..n
  BY SeqDomain
<1>2. K = {} /\ K \in SUBSET (1..n)
  BY <1>1
<1>3. Named(rows, name) = FlattenSeq(Picks(rows, K, n))
  BY NamedPicked
<1> HIDE DEF K, n
<1>4. PICK idx \in Seq(K) :
        \A s : FlattenSeq(Picks(s, K, n)) = [k \in 1..Len(idx) |-> s[idx[k]]]
  BY <1>1, <1>2, Picked, Zenon
<1>5. Len(idx) = 0
  BY <1>2
<1>6. [k \in 1..0 |-> rows[idx[k]]] = << >>
  OBVIOUS
<1>7. QED
  BY <1>3, <1>4, <1>5, <1>6

(* The rows of historical data end with the only fin.                      *)
LEMMA NamedFin ==
  ASSUME NEW rows, IsSeq(rows), rows # << >>,
         \A i \in DOMAIN rows : /\ rows[i].name \in {"row", "fin"}
                                /\ rows[i].name = "fin" <=> i = Len(rows)
  PROVE  /\ Named(rows, "row") = [i \in 1..(Len(rows) - 1) |-> rows[i]]
         /\ Named(rows, "fin") = <<rows[Len(rows)]>> /\ Len(rows) # 0
<1> DEFINE n == Len(rows)
           K == {i \in 1..n : rows[i].name = "row"}
           L == {i \in 1..n : rows[i].name = "fin"}
<1>1. n \in Nat /\ DOMAIN rows = 1..n /\ rows = [i \in 1..n |-> rows[i]]
  BY SeqDomain DEF IsSeq
<1>2. n # 0
  BY <1>1
<1>3. n - 1 \in Nat /\ n \in 1..n /\ \A i \in 1..(n - 1) : i \in 1..n /\ i # n
  BY <1>1, <1>2
<1>4. K = 1..(n - 1) /\ n \notin K /\ n \in L /\ \A i \in 1..(n - 1) : i \notin L
  BY <1>1, <1>3
<1>5. /\ Named(rows, "row") = FlattenSeq(Picks(rows, K, n))
      /\ Named(rows, "fin") = FlattenSeq(Picks(rows, L, n))
  BY NamedPicked
<1> HIDE DEF K, L, n
<1>6. Named(rows, "row") = FlattenSeq(Picks(rows, K, n - 1)) \o << >>
  <2>1. n \notin K
    BY <1>4
  <2>2. FlattenSeq(Picks(rows, K, n)) =
          FlattenSeq(Picks(rows, K, n - 1)) \o (IF n \in K THEN <<rows[n]>> ELSE << >>)
    BY <1>1, <1>2, PicksNext
  <2>3. Named(rows, "row") = FlattenSeq(Picks(rows, K, n))
    BY <1>5
  <2>4. (IF n \in K THEN <<rows[n]>> ELSE << >>) = << >>
    BY <2>1
  <2>5. QED
    BY <2>2, <2>3, <2>4
<1>7. Named(rows, "fin") = FlattenSeq(Picks(rows, L, n - 1)) \o <<rows[n]>>
  BY <1>1, <1>2, <1>4, <1>5, PicksNext
<1> DEFINE front == [i \in 1..(n - 1) |-> rows[i]]
<1>8. FlattenSeq(Picks(rows, K, n - 1)) = front
  <2>1. K \in SUBSET (1..(n - 1))
    BY <1>4
  <2>2. PICK idx \in Seq(K) :
          /\ K = 1..(n - 1) => idx = [i \in 1..(n - 1) |-> i]
          /\ \A s : FlattenSeq(Picks(s, K, n - 1)) = [k \in 1..Len(idx) |-> s[idx[k]]]
    BY <1>3, <2>1, Picked, Zenon
  <2>3. Len(idx) = n - 1 /\ \A k \in 1..(n - 1) : idx[k] = k
    BY <1>3, <1>4, <2>2
  <2>4. QED
    BY <2>2, <2>3
<1>9. FlattenSeq(Picks(rows, L, n - 1)) = << >>
  <2> DEFINE E == {}
  <2>1. Picks(rows, L, n - 1) = Picks(rows, E, n - 1) /\ E \in SUBSET (1..(n - 1))
    BY <1>4 DEF Picks
  <2>2. PICK idx \in Seq(E) :
          \A s : FlattenSeq(Picks(s, E, n - 1)) = [k \in 1..Len(idx) |-> s[idx[k]]]
    BY <1>3, <2>1, Picked, Zenon
  <2>3. Len(idx) = 0
    OBVIOUS
  <2>4. [k \in 1..0 |-> rows[idx[k]]] = << >>
    OBVIOUS
  <2>5. QED
    BY <2>1, <2>2, <2>3, <2>4
<1>10. front \o << >> = front /\ << >> \o <<rows[n]>> = <<rows[n]>>
  <2>1. front \in Seq({rows[i] : i \in 1..n})
    BY <1>3
  <2>2. QED
    BY <2>1
<1>11. QED
  BY <1>2, <1>6, <1>7, <1>8, <1>9, <1>10 DEF n

(***************************************************************************)
(* What is read of rows.                                                   *)
(***************************************************************************)

RowRead(row) == [name |-> row.name, value |-> FromXml(RowStruct[row.name], row.node)]

(* As contract details only the rows of that name are read.                *)
LEMMA DetailsRead ==
  ASSUME NEW rows, IsSeq(rows), \A i \in DOMAIN rows : rows[i].name = "ContractDetails"
  PROVE  ReadRows(rows, "ContractDetails") = [i \in DOMAIN rows |-> RowRead(rows[i])]
<1>1. Named(rows, "ContractDetails") = rows
  BY NamedAll
<1>2. QED
  BY <1>1 DEF ReadRows, RowRead

(* Without rows there are none to read.                                    *)
LEMMA NothingRead ==
  ASSUME NEW rows, IsSeq(rows), NEW name, \A i \in DOMAIN rows : rows[i].name # name
  PROVE  ReadRows(rows, name) = << >>
<1>1. Named(rows, name) = << >>
  BY NamedNone
<1>2. QED
  BY <1>1 DEF ReadRows

(* Of historical data the rows are read, and then fin.                     *)
LEMMA HistRead ==
  ASSUME NEW rows, IsSeq(rows), rows # << >>,
         \A i \in DOMAIN rows : /\ rows[i].name \in {"row", "fin"}
                                /\ rows[i].name = "fin" <=> i = Len(rows)
  PROVE  /\ ReadFin(rows) # << >>
         /\ ReadRows(rows, "row") \o ReadFin(rows) = [i \in DOMAIN rows |-> RowRead(rows[i])]
<1> DEFINE n == Len(rows)
           front == [i \in 1..(n - 1) |-> RowRead(rows[i])]
<1>1. n \in Nat /\ DOMAIN rows = 1..n
  BY SeqDomain
<1>2. /\ Named(rows, "row") = [i \in 1..(n - 1) |-> rows[i]]
      /\ Named(rows, "fin") = <<rows[n]>> /\ n # 0
  BY NamedFin
<1>3. /\ n - 1 \in Nat /\ n \in 1..n /\ rows[n].name = "fin"
      /\ \A i \in 1..(n - 1) : i \in 1..n /\ rows[i].name = "row"
  <2>1. \A i \in 1..n : rows[i].name \in {"row", "fin"} /\ (rows[i].name = "fin" <=> i = n)
    BY <1>1
  <2> HIDE DEF n
  <2>2. /\ n - 1 \in Nat /\ n \in 1..n
        /\ \A i \in 1..(n - 1) : i \in 1..n /\ i # n
    BY <1>1, <1>2
  <2>3. QED
    BY <2>1, <2>2
<1> HIDE DEF n
<1>4. ReadRows(rows, "row") = front
  <2> DEFINE named == Named(rows, "row")
  <2>1. DOMAIN named = 1..(n - 1) /\ \A i \in 1..(n - 1) : named[i] = rows[i]
    BY <1>2
  <2> HIDE DEF named
  <2>2. ReadRows(rows, "row") = [i \in DOMAIN named |->
          [name |-> "row", value |-> FromXml(RowStruct["row"], named[i].node)]]
    BY DEF ReadRows, named
  <2>3. QED
    BY <1>3, <2>1, <2>2 DEF RowRead
<1>5. ReadRows(rows, "fin") = <<RowRead(rows[n])>>
  <2> DEFINE named == Named(rows, "fin")
  <2>1. DOMAIN named = {1} /\ named[1] = rows[n]
    BY <1>2
  <2> HIDE DEF named
  <2>2. ReadRows(rows, "fin") = [i \in DOMAIN named |->
          [name |-> "fin", value |-> FromXml(RowStruct["fin"], named[i].node)]]
    BY DEF ReadRows, named
  <2>3. ReadRows(rows, "fin") = [i \in {1} |-> RowRead(rows[n])]
    BY <1>3, <2>1, <2>2 DEF RowRead
  <2>4. QED
    BY <2>3
<1>6. ReadFin(rows) = <<RowRead(rows[n])>>
  BY <1>5 DEF ReadFin, Last
<1>7. front \o <<RowRead(rows[n])>> = [i \in 1..n |-> RowRead(rows[i])]
  <2> DEFINE r == RowRead(rows[n])
             all == [i \in 1..n |-> RowRead(rows[i])]
  <2>1. \A i \in 1..(n - 1) : front[i] = all[i] /\ i \in 1..n
    BY <1>3
  <2>2. all[n] = r /\ DOMAIN all = 1..n /\ Len(front) = n - 1 /\ DOMAIN front = 1..(n - 1)
    BY <1>3
  <2>3. front \o <<r>> = [i \in 1..n |-> IF i <= n - 1 THEN front[i] ELSE <<r>>[i - (n - 1)]]
    BY <1>1, <1>3, <2>2
  <2>4. \A i \in 1..n : i <= n - 1 \/ i = n
    BY <1>1
  <2>5. n - (n - 1) = 1 /\ ~(n <= n - 1) /\ \A i \in 1..n : i <= n - 1 => i \in 1..(n - 1)
    BY <1>1
  <2>6. all = [i \in 1..n |-> all[i]]
    OBVIOUS
  <2> HIDE DEF front, r, all
  <2>7. \A i \in 1..n : (IF i <= n - 1 THEN front[i] ELSE <<r>>[i - (n - 1)]) = all[i]
    BY <2>1, <2>2, <2>4, <2>5
  <2>8. front \o <<r>> = all
    BY <2>3, <2>6, <2>7
  <2>9. QED
    BY <2>8 DEF r, all
<1>8. QED
  BY <1>1, <1>4, <1>6, <1>7

(***************************************************************************)
(* A document of a packet, and what is read of it.                         *)
(***************************************************************************)

DocElement(p, verbose) == PacketXml(p, verbose).nodes[1]

Response(p, verbose) ==
  [i \in DOMAIN p.rows |->
     [name |-> p.rows[i].name,
      node |-> ToXml(RowStruct[p.rows[i].name], p.rows[i].value, verbose)]]

QueryNode(p, verbose) == ToXml(QueryStruct[p.type], p.query[1], verbose)

(* The structs of the requests by their types.                             *)
LEMMA QueryTypes ==
  /\ Types = {"contract_details", "historical_data", "place_order", "market_data",
              "opt_params", "account", "executions", "open_orders"}
  /\ WrittenTypes = {"contract_details", "historical_data", "place_order", "account",
                     "executions", "open_orders"}
  /\ \A type \in WrittenTypes : QueryStruct[type] \in Requests
  /\ QueryStruct["contract_details"] = "ContractDetailsRequest"
  /\ QueryStruct["historical_data"] = "HistRequest"
  /\ QueryStruct["place_order"] = "PlaceOrder"
  /\ \A type \in Types : type # "contract_details" => QueryStruct[type] # "ContractDetailsRequest"
  /\ \A type \in Types : type # "historical_data" => QueryStruct[type] # "HistRequest"
BY DEF Types, WrittenTypes, QueryStruct, Requests

(* The one element in the document of a packet.                            *)
LEMMA DocElementIs ==
  ASSUME NEW p, IsPacket(p), Len(p.query) = 1, NEW verbose
  PROVE  LET e == DocElement(p, verbose)
         IN  /\ e.tag = "request" /\ e.type = p.type
             /\ e.query = <<QueryNode(p, verbose)>>
             /\ RowsOf(e) = IF p.closed \/ p.type \in AlwaysResponse
                            THEN Response(p, verbose) ELSE << >>
             /\ PacketXml(p, verbose).nodes = <<e>>
             /\ PacketXml(p, verbose).root = "TWSXML"
<1> DEFINE e == DocElement(p, verbose)
           r == Response(p, verbose)
<1>1. /\ e.tag = "request" /\ e.type = p.type /\ e.query = <<QueryNode(p, verbose)>>
      /\ e.response = IF p.closed \/ p.type \in AlwaysResponse THEN <<r>> ELSE << >>
      /\ PacketXml(p, verbose).nodes = <<e>> /\ PacketXml(p, verbose).root = "TWSXML"
  BY DEF DocElement, PacketXml, Response, QueryNode
<1> HIDE DEF e, r
<1>2. <<r>>[1] = r /\ <<r>> # << >>
  OBVIOUS
<1>3. RowsOf(e) = IF p.closed \/ p.type \in AlwaysResponse THEN r ELSE << >>
  BY <1>1, <1>2 DEF RowsOf
<1>4. QED
  BY <1>1, <1>3 DEF e, r

(* The answer is left out only when there is none, or it is not read.      *)
LEMMA ResponseIs ==
  ASSUME NEW p, IsPacket(p), NEW verbose
  PROVE  LET r == Response(p, verbose)
         IN  /\ IsSeq(r) /\ DOMAIN r = DOMAIN p.rows /\ Len(r) = Len(p.rows)
             /\ \A i \in DOMAIN r :
                  /\ r[i].name = p.rows[i].name
                  /\ r[i].node = ToXml(RowStruct[p.rows[i].name], p.rows[i].value, verbose)
             /\ r = << >> <=> p.rows = << >>
<1> DEFINE r == Response(p, verbose)
           n == Len(p.rows)
<1>1. IsSeq(p.rows)
  BY DEF IsPacket, AreRows
<1>2. n \in Nat /\ DOMAIN p.rows = 1..n /\ p.rows = [i \in 1..n |-> p.rows[i]]
  BY <1>1, SeqDomain DEF IsSeq
<1>3. /\ DOMAIN r = 1..n
      /\ \A i \in DOMAIN r :
           /\ r[i].name = p.rows[i].name
           /\ r[i].node = ToXml(RowStruct[p.rows[i].name], p.rows[i].value, verbose)
  BY <1>2 DEF Response
<1>4. r = [i \in 1..n |-> r[i]]
  BY <1>2 DEF Response
<1> HIDE DEF r, n
<1>5. IsSeq(r) /\ Len(r) = n
  BY <1>2, <1>4, SeqOfLength
<1>6. r = << >> <=> n = 0
  <2>1. r = << >> => n = 0
    BY <1>5
  <2>2. ASSUME n = 0 PROVE r = << >>
    <3>1. r = [i \in 1..0 |-> r[i]]
      BY <1>4, <2>2
    <3>2. QED
      BY <3>1
  <2>3. QED
    BY <2>1, <2>2
<1>7. p.rows = << >> <=> n = 0
  <2>1. p.rows = << >> => n = 0
    BY DEF n
  <2>2. ASSUME n = 0 PROVE p.rows = << >>
    <3>1. p.rows = [i \in 1..0 |-> p.rows[i]]
      BY <1>2, <2>2
    <3>2. QED
      BY <3>1
  <2>3. QED
    BY <2>1, <2>2
<1>8. QED
  BY <1>2, <1>3, <1>5, <1>6, <1>7 DEF n, r

(* A packet is of the type it is read as.                                  *)
LEMMA PacketOfKinds ==
  ASSUME NEW type, NEW element
  PROVE  LET q == PacketOf(type, element)
         IN  /\ q.type = type
             /\ q.query = [i \in DOMAIN element.query |->
                             FromXml(QueryStruct[type], element.query[i])]
             /\ type = "contract_details" =>
                  q.rows = ReadRows(RowsOf(element), "ContractDetails")
             /\ type = "historical_data" =>
                  /\ q.rows = ReadRows(RowsOf(element), "row") \o ReadFin(RowsOf(element))
                  /\ q.closed <=> ReadFin(RowsOf(element)) # << >>
             /\ type \notin RowsAgain => q.rows = << >>
<1>1. CASE type = "contract_details"
  BY <1>1 DEF PacketOf, Packet, RowsAgain
<1>2. CASE type = "historical_data"
  BY <1>2 DEF PacketOf, Packet, RowsAgain
<1>3. CASE type \notin RowsAgain
  BY <1>3 DEF PacketOf, Packet, RowsAgain
<1>4. QED
  BY <1>1, <1>2, <1>3 DEF RowsAgain

(* The request comes back in the request of its type, and something comes  *)
(* back in that of any other.                                              *)
LEMMA QueryRead ==
  ASSUME NEW p, IsPacket(p), Len(p.query) = 1, p.type \in WrittenTypes, NEW verbose \in BOOLEAN,
         NEW type \in ReadAs(DocElement(p, verbose))
  PROVE  LET q == PacketOf(type, DocElement(p, verbose))
         IN  /\ IsSeq(q.query) /\ Len(q.query) = 1 /\ q.query # << >> /\ DOMAIN q.query = {1}
             /\ IsStruct(QueryStruct[type], q.query[1])
             /\ type = p.type => StructCopied(QueryStruct[type], p.query[1], q.query[1])
<1> DEFINE e == DocElement(p, verbose)
           q == PacketOf(type, e)
           w == FromXml(QueryStruct[type], QueryNode(p, verbose))
<1>1. e.type = p.type /\ e.query = <<QueryNode(p, verbose)>>
  BY DocElementIs
<1>2. q.query = [i \in DOMAIN e.query |-> FromXml(QueryStruct[type], e.query[i])]
  BY PacketOfKinds
<1> HIDE DEF e, q
<1>3. q.query = [i \in {1} |-> w]
  BY <1>1, <1>2
<1> HIDE DEF w
<1>4. q.query = <<w>>
  BY <1>3
<1>5. IsSeq(q.query) /\ Len(q.query) = 1 /\ q.query # << >> /\ q.query[1] = w /\ DOMAIN q.query = {1}
  BY <1>4 DEF IsSeq
<1>6. IsStruct(QueryStruct[p.type], p.query[1])
  <2>1. IsSeq(p.query)
    BY DEF IsPacket
  <2>2. 1 \in DOMAIN p.query
    BY <2>1, SeqDomain
  <2>3. QED
    BY <2>2 DEF IsPacket
<1>7. CASE type = p.type
  <2>1. type \in {"contract_details", "historical_data", "place_order"}
    BY <1>1, <1>7, QueryTypes DEF ReadAs, RowsAgain, e, SimpleTypes
  <2>2. QueryStruct[type] \in Outer
    BY <2>1, QueryTypes DEF Outer
  <2>3. w = FromXml(QueryStruct[type], ToXml(QueryStruct[type], p.query[1], verbose))
    BY <1>7 DEF w, QueryNode
  <2>4. IsStruct(QueryStruct[type], w) /\ StructCopied(QueryStruct[type], p.query[1], w)
    BY <1>6, <1>7, <2>2, <2>3, StructComesBack
  <2>5. QED
    BY <1>5, <2>4 DEF q, e
<1>8. CASE type # p.type
  <2>1. type \in {"contract_details", "historical_data"}
    BY <1>1, <1>8 DEF ReadAs, RowsAgain, e
  <2>2. /\ QueryStruct[type] \in {"ContractDetailsRequest", "HistRequest"}
        /\ QueryStruct[p.type] \in Requests /\ QueryStruct[p.type] # QueryStruct[type]
    BY <1>8, <2>1, QueryTypes DEF IsPacket
  <2>3. IsStruct(QueryStruct[type], w)
    BY <1>6, <2>2, OtherComesBack DEF w, QueryNode
  <2>4. QED
    BY <1>5, <1>8, <2>3 DEF q, e
<1>9. QED
  BY <1>7, <1>8

(* The names of the rows by their types, and their structs.                *)
LEMMA RowTypes ==
  /\ \A type \in RowsAgain : \A name \in RowNames[type] : RowStruct[name] \in Outer
  /\ RowNames["contract_details"] = {"ContractDetails"} /\ RowNames["historical_data"] = {"row", "fin"}
  /\ RowStruct["ContractDetails"] = "ContractDetails"
  /\ RowStruct["row"] = "RowHist" /\ RowStruct["fin"] = "RowHist"
  /\ \A type \in WrittenTypes :
       /\ type # "contract_details" => "ContractDetails" \notin RowNames[type]
       /\ type # "historical_data" => {"row", "fin"} \cap RowNames[type] = {}
<1>1. /\ RowNames["contract_details"] = {"ContractDetails"}
      /\ RowNames["historical_data"] = {"row", "fin"}
      /\ RowNames["place_order"] = {"error", "OrderStatus", "OpenOrder"}
      /\ RowNames["account"] = {"AccVal", "Prtfl", "stamp", "end"}
      /\ RowNames["executions"] = {"ExecDetails"}
      /\ RowNames["open_orders"] = {"OrderStatus", "OpenOrder"}
  BY DEF RowNames
<1>2. /\ RowStruct["ContractDetails"] = "ContractDetails"
      /\ RowStruct["row"] = "RowHist" /\ RowStruct["fin"] = "RowHist"
  BY DEF RowStruct
<1>3. \A type \in WrittenTypes :
        type \in {"contract_details", "historical_data", "place_order", "account",
                 "executions", "open_orders"}
  BY QueryTypes
<1>4. \A type \in RowsAgain : \A name \in RowNames[type] : RowStruct[name] \in Outer
  BY <1>1, <1>2 DEF RowsAgain, Outer
<1>5. QED
  BY <1>1, <1>2, <1>3, <1>4

(* No rows are rows of any type.                                           *)
LEMMA NoRows ==
  /\ \A type : AreRows(type, << >>)
  /\ ReadRows(<< >>, "ContractDetails") = << >>
  /\ ReadRows(<< >>, "row") \o ReadFin(<< >>) = << >> /\ ReadFin(<< >>) = << >>
<1>1. IsSeq(<< >>) /\ DOMAIN << >> = {}
  BY DEF IsSeq
<1>2. /\ ReadRows(<< >>, "ContractDetails") = << >>
      /\ ReadRows(<< >>, "row") = << >> /\ ReadRows(<< >>, "fin") = << >>
  BY <1>1, NothingRead
<1>3. ReadFin(<< >>) = << >>
  BY <1>2 DEF ReadFin
<1>4. QED
  BY <1>1, <1>2, <1>3 DEF AreRows

(* Rows of a type come back as rows of this type.                          *)
LEMMA RowsComeBack ==
  ASSUME NEW p, IsPacket(p), p.type \in RowsAgain, NEW verbose \in BOOLEAN,
         NEW rows, rows = [i \in DOMAIN Response(p, verbose) |-> RowRead(Response(p, verbose)[i])]
  PROVE  /\ AreRows(p.type, rows) /\ RowsCopied(p.rows, rows)
         /\ rows = << >> <=> p.rows = << >>
<1> DEFINE r == Response(p, verbose)
           n == Len(p.rows)
<1>1. /\ IsSeq(r) /\ DOMAIN r = DOMAIN p.rows /\ Len(r) = n
      /\ \A i \in DOMAIN r :
           /\ r[i].name = p.rows[i].name
           /\ r[i].node = ToXml(RowStruct[p.rows[i].name], p.rows[i].value, verbose)
      /\ r = << >> <=> p.rows = << >>
  BY ResponseIs
<1>2. AreRows(p.type, p.rows)
  BY DEF IsPacket
<1>3. /\ n \in Nat /\ DOMAIN p.rows = 1..n
      /\ \A i \in 1..n :
           /\ p.rows[i].name \in RowNames[p.type]
           /\ IsStruct(RowStruct[p.rows[i].name], p.rows[i].value)
           /\ p.type = "historical_data" => (p.rows[i].name = "fin" <=> i = n)
  BY <1>2, SeqDomain DEF AreRows
<1> HIDE DEF r, n
<1>4. DOMAIN rows = 1..n /\ \A i \in 1..n : rows[i] = RowRead(r[i])
  BY <1>1, <1>3 DEF r
<1>5. rows = [i \in 1..n |-> rows[i]]
  BY <1>1, <1>3 DEF r
<1>6. IsSeq(rows) /\ Len(rows) = n
  BY <1>3, <1>5, SeqOfLength
<1>7. ASSUME NEW i \in 1..n
      PROVE  /\ rows[i].name = p.rows[i].name
             /\ IsStruct(RowStruct[rows[i].name], rows[i].value)
             /\ StructCopied(RowStruct[rows[i].name], p.rows[i].value, rows[i].value)
  <2> DEFINE t == RowStruct[p.rows[i].name]
  <2>1. t \in Outer
    BY <1>3, RowTypes
  <2>2. rows[i] = RowRead(r[i]) /\ r[i].name = p.rows[i].name
        /\ r[i].node = ToXml(t, p.rows[i].value, verbose)
    BY <1>1, <1>3, <1>4
  <2>3. IsStruct(t, p.rows[i].value)
    BY <1>3
  <2> HIDE DEF t
  <2>4. rows[i].name = p.rows[i].name
        /\ rows[i].value = FromXml(RowStruct[p.rows[i].name], r[i].node)
    BY <2>2 DEF RowRead
  <2>5. rows[i].value = FromXml(t, ToXml(t, p.rows[i].value, verbose))
    BY <2>2, <2>4 DEF t
  <2>6. IsStruct(t, rows[i].value) /\ StructCopied(t, p.rows[i].value, rows[i].value)
    BY <2>1, <2>3, <2>5, StructComesBack
  <2>7. QED
    BY <2>4, <2>6 DEF t
<1>8. AreRows(p.type, rows)
  BY <1>3, <1>4, <1>6, <1>7 DEF AreRows
<1>9. RowsCopied(p.rows, rows)
  BY <1>3, <1>6, <1>7 DEF RowsCopied, n
<1>10. rows = << >> <=> r = << >>
  <2>1. rows = << >> => n = 0
    BY <1>6
  <2>2. r = << >> => n = 0
    BY <1>1
  <2>3. ASSUME n = 0 PROVE rows = << >>
    <3>1. rows = [i \in 1..0 |-> rows[i]]
      BY <1>5, <2>3
    <3>2. QED
      BY <3>1
  <2>4. ASSUME n = 0 PROVE r = << >>
    <3>1. r = [i \in 1..0 |-> r[i]]
      BY <1>1, <2>4 DEF IsSeq
    <3>2. QED
      BY <3>1
  <2>5. QED
    BY <2>1, <2>2, <2>3, <2>4
<1>11. QED
  BY <1>1, <1>8, <1>9, <1>10

(* All rows come back when they are read as what they are, none otherwise. *)
LEMMA RowsRead ==
  ASSUME NEW p, IsPacket(p), Len(p.query) = 1, p.type \in WrittenTypes, NEW verbose \in BOOLEAN,
         NEW type \in ReadAs(DocElement(p, verbose))
  PROVE  LET q == PacketOf(type, DocElement(p, verbose))
         IN  /\ AreRows(type, q.rows)
             /\ type = "historical_data" => (q.closed <=> q.rows # << >>)
             /\ p.type # type => q.rows = << >>
             /\ p.type = type /\ type \in RowsAgain => RowsCopied(p.rows, q.rows)
<1> DEFINE e == DocElement(p, verbose)
           q == PacketOf(type, e)
           r == Response(p, verbose)
           read == [i \in DOMAIN r |-> RowRead(r[i])]
<1>1. e.type = p.type /\ RowsOf(e) = IF p.closed \/ p.type \in AlwaysResponse THEN r ELSE << >>
  BY DocElementIs
<1>2. /\ type = "contract_details" => q.rows = ReadRows(RowsOf(e), "ContractDetails")
      /\ type = "historical_data" =>
           /\ q.rows = ReadRows(RowsOf(e), "row") \o ReadFin(RowsOf(e))
           /\ q.closed <=> ReadFin(RowsOf(e)) # << >>
      /\ type \notin RowsAgain => q.rows = << >>
  BY PacketOfKinds
<1>3. /\ IsSeq(r) /\ DOMAIN r = DOMAIN p.rows /\ Len(r) = Len(p.rows)
      /\ \A i \in DOMAIN r : r[i].name = p.rows[i].name
      /\ r = << >> <=> p.rows = << >>
  BY ResponseIs
<1>4. /\ \A i \in DOMAIN p.rows :
           /\ p.rows[i].name \in RowNames[p.type]
           /\ p.type = "historical_data" => (p.rows[i].name = "fin" <=> i = Len(p.rows))
      /\ p.type = "historical_data" => (p.closed <=> p.rows # << >>)
  BY DEF IsPacket, AreRows
<1>5. p.type = type => (type \in RowsAgain =>
        /\ AreRows(type, read) /\ RowsCopied(p.rows, read)
        /\ read = << >> <=> p.rows = << >>)
  BY RowsComeBack
<1>6. ASSUME p.rows = << >> PROVE RowsCopied(p.rows, << >>)
  BY <1>6 DEF RowsCopied
<1> HIDE DEF e, q, r, read
<1>7. CASE type \notin RowsAgain
  <2>1. type # "historical_data"
    BY <1>7 DEF RowsAgain
  <2>2. QED
    BY <1>2, <1>7, <2>1, NoRows DEF q, e
<1>8. CASE type = "contract_details" /\ p.type = type
  <2>1. RowsOf(e) = r
    BY <1>1, <1>8 DEF AlwaysResponse
  <2>2. \A i \in DOMAIN r : r[i].name = "ContractDetails"
    BY <1>3, <1>4, <1>8, RowTypes
  <2>3. q.rows = read
    BY <1>2, <1>3, <1>8, <2>1, <2>2, DetailsRead DEF read
  <2>4. QED
    BY <1>5, <1>8, <2>3 DEF RowsAgain, q, e
<1>9. CASE type = "historical_data" /\ p.type = type
  <2>1. CASE p.rows # << >>
    <3>1. RowsOf(e) = r
      BY <1>1, <1>4, <1>9, <2>1
    <3>2. \A i \in DOMAIN r : r[i].name \in {"row", "fin"} /\ (r[i].name = "fin" <=> i = Len(r))
      BY <1>3, <1>4, <1>9, RowTypes
    <3>3. ReadFin(r) # << >> /\ ReadRows(r, "row") \o ReadFin(r) = read
      BY <1>3, <2>1, <3>2, HistRead DEF read
    <3>4. q.rows = read /\ q.closed
      BY <1>2, <1>9, <3>1, <3>3
    <3>5. QED
      BY <1>5, <1>9, <2>1, <3>4 DEF RowsAgain, q, e
  <2>2. CASE p.rows = << >>
    <3>1. RowsOf(e) = << >>
      BY <1>1, <1>3, <2>2
    <3>2. q.rows = << >> /\ ~q.closed
      BY <1>2, <1>9, <3>1, NoRows
    <3>3. QED
      BY <1>6, <1>9, <2>2, <3>2, NoRows DEF q, e
  <2>3. QED
    BY <2>1, <2>2
<1>10. CASE type \in RowsAgain /\ p.type # type
  <2>1. IsSeq(RowsOf(e)) /\ \A i \in DOMAIN RowsOf(e) : RowsOf(e)[i].name \in RowNames[p.type]
    <3>1. CASE RowsOf(e) = r
      BY <1>3, <1>4, <3>1
    <3>2. CASE RowsOf(e) = << >>
      BY <3>2 DEF IsSeq
    <3>3. QED
      BY <1>1, <3>1, <3>2
  <2>2. CASE type = "contract_details"
    <3>1. \A i \in DOMAIN RowsOf(e) : RowsOf(e)[i].name # "ContractDetails"
      BY <1>10, <2>1, <2>2, RowTypes
    <3>2. q.rows = << >>
      BY <1>2, <2>1, <2>2, <3>1, NothingRead
    <3>3. QED
      BY <1>10, <2>2, <3>2, NoRows DEF q, e
  <2>3. CASE type = "historical_data"
    <3>1. \A i \in DOMAIN RowsOf(e) : RowsOf(e)[i].name # "row" /\ RowsOf(e)[i].name # "fin"
      BY <1>10, <2>1, <2>3, RowTypes
    <3>2. ReadRows(RowsOf(e), "row") = << >> /\ ReadRows(RowsOf(e), "fin") = << >>
      BY <2>1, <3>1, NothingRead
    <3>3. ReadFin(RowsOf(e)) = << >>
      BY <3>2 DEF ReadFin
    <3>4. q.rows = << >> /\ ~q.closed
      BY <1>2, <2>3, <3>2, <3>3
    <3>5. QED
      BY <1>10, <2>3, <3>4, NoRows DEF q, e
  <2>4. QED
    BY <1>10, <2>2, <2>3 DEF RowsAgain
<1>11. QED
  BY <1>7, <1>8, <1>9, <1>10 DEF RowsAgain

(* The document of a packet is read as that packet, or has no rows.        *)
LEMMA DocumentRead ==
  ASSUME NEW p, IsPacket(p), Len(p.query) = 1, p.type \in WrittenTypes, NEW verbose \in BOOLEAN
  PROVE  LET doc == PacketXml(p, verbose)
         IN  /\ IsSeq(doc.nodes) /\ DOMAIN doc.nodes = {1} /\ IsElement(doc.nodes[1])
             /\ MadeFrom(doc, p)
<1> DEFINE e == DocElement(p, verbose)
           doc == PacketXml(p, verbose)
<1>1. /\ e.tag = "request" /\ e.type = p.type /\ doc.nodes = <<e>> /\ doc.root = "TWSXML"
      /\ RowsOf(e) = IF p.closed \/ p.type \in AlwaysResponse
                     THEN Response(p, verbose) ELSE << >>
  BY DocElementIs
<1>2. /\ IsSeq(Response(p, verbose))
      /\ Response(p, verbose) = << >> <=> p.rows = << >>
  BY ResponseIs
<1>3. /\ \A type \in ReadAs(e) : LET q == PacketOf(type, e) IN
           /\ IsSeq(q.query) /\ Len(q.query) = 1 /\ q.query # << >> /\ DOMAIN q.query = {1}
           /\ IsStruct(QueryStruct[type], q.query[1])
           /\ type = p.type => StructCopied(QueryStruct[type], p.query[1], q.query[1])
  BY QueryRead
<1>4. /\ \A type \in ReadAs(e) : LET q == PacketOf(type, e) IN
           /\ AreRows(type, q.rows)
           /\ type = "historical_data" => (q.closed <=> q.rows # << >>)
           /\ p.type # type => q.rows = << >>
           /\ p.type = type /\ type \in RowsAgain => RowsCopied(p.rows, q.rows)
  BY RowsRead
<1>5. \A type \in ReadAs(e) : PacketOf(type, e).type = type /\ type \in Types
  BY PacketOfKinds, QueryTypes DEF ReadAs, RowsAgain
<1> HIDE DEF e, doc
<1>6. IsSeq(doc.nodes) /\ DOMAIN doc.nodes = {1} /\ doc.nodes[1] = e /\ Len(doc.nodes) = 1
  BY <1>1 DEF IsSeq
<1>7. IsSeq(RowsOf(e)) /\ (RowsOf(e) # << >> => p.rows # << >>)
  <2>1. IsSeq(<< >>)
    BY DEF IsSeq
  <2>2. QED
    BY <1>1, <1>2, <2>1
<1>8. ASSUME NEW type \in ReadAs(e)
      PROVE  IsPacket(PacketOf(type, e)) /\ ReadCopied(p, PacketOf(type, e))
  <2> DEFINE q == PacketOf(type, e)
  <2>1. /\ IsSeq(q.query) /\ Len(q.query) = 1 /\ q.query # << >> /\ DOMAIN q.query = {1}
        /\ IsStruct(QueryStruct[type], q.query[1]) /\ q.type = type /\ type \in Types
        /\ type = p.type => StructCopied(QueryStruct[type], p.query[1], q.query[1])
    BY <1>3, <1>5
  <2>2. /\ AreRows(type, q.rows)
        /\ type = "historical_data" => (q.closed <=> q.rows # << >>)
        /\ p.type # type => q.rows = << >>
        /\ p.type = type /\ type \in RowsAgain => RowsCopied(p.rows, q.rows)
    BY <1>4
  <2> HIDE DEF q
  <2>3. IsPacket(q)
    BY <2>1, <2>2 DEF IsPacket
  <2>4. ReadCopied(p, q)
    BY <2>1, <2>2 DEF ReadCopied
  <2>5. QED
    BY <2>3, <2>4 DEF q
<1>9. MadeFrom(doc, p)
  BY <1>1, <1>6, <1>7, <1>8 DEF MadeFrom
<1>10. QED
  BY <1>6, <1>7, <1>8, <1>9 DEF IsElement, doc

(* A copy of historical data still is what it was at first.                *)
LEMMA CopyRead ==
  ASSUME NEW p, IsPacket(p), Len(p.query) = 1, p.type = "historical_data",
         NEW first, IsPacket(first), Len(first.query) = 1, first.type = "historical_data",
         ReadCopied(first, p), NEW verbose \in BOOLEAN
  PROVE  MadeFrom(PacketXml(p, verbose), first)
<1> DEFINE doc == PacketXml(p, verbose)
           e == doc.nodes[1]
<1>1. p.type \in WrittenTypes
  BY QueryTypes
<1>2. MadeFrom(doc, p)
  BY <1>1, DocumentRead
<1> HIDE DEF doc
<1>3. /\ doc.root = "TWSXML" /\ Len(doc.nodes) = 1 /\ e.tag = "request" /\ e.type = p.type
      /\ RowsOf(e) # << >> => p.rows # << >>
      /\ \A type \in ReadAs(e) : ReadCopied(p, PacketOf(type, e))
  BY <1>2 DEF MadeFrom
<1> HIDE DEF e
<1>4. /\ QueryStruct[first.type] = "HistRequest" /\ "HistRequest" \in Outer
      /\ p.type \in RowsAgain
  BY QueryTypes DEF Outer, RowsAgain
<1>5. /\ StructCopied("HistRequest", first.query[1], p.query[1]) /\ RowsCopied(first.rows, p.rows)
  BY <1>4 DEF ReadCopied
<1>6. IsStruct("HistRequest", first.query[1]) /\ IsSeq(first.rows) /\ IsSeq(p.rows)
  <2>1. IsSeq(first.query)
    BY DEF IsPacket
  <2>2. 1 \in DOMAIN first.query
    BY <2>1, SeqDomain
  <2>3. QED
    BY <1>4, <2>2 DEF IsPacket, AreRows
<1>7. p.rows # << >> => first.rows # << >>
  <2>1. Len(first.rows) = Len(p.rows)
    BY <1>5 DEF RowsCopied
  <2>2. ASSUME first.rows = << >> PROVE p.rows = << >>
    <3>1. Len(p.rows) = 0
      BY <2>1, <2>2
    <3>2. p.rows = [i \in 1..0 |-> p.rows[i]]
      BY <1>6, <3>1 DEF IsSeq
    <3>3. QED
      BY <3>2
  <2>3. QED
    BY <2>2
<1>8. ASSUME NEW type \in ReadAs(e) PROVE ReadCopied(first, PacketOf(type, e))
  <2> DEFINE q == PacketOf(type, e)
  <2>1. q.type = type
    BY PacketOfKinds
  <2>2. ReadCopied(p, q)
    BY <1>3
  <2> HIDE DEF q
  <2>3. CASE type # "historical_data"
    BY <2>1, <2>2, <2>3 DEF ReadCopied, q
  <2>4. CASE type = "historical_data"
    <3>1. StructCopied("HistRequest", p.query[1], q.query[1]) /\ RowsCopied(p.rows, q.rows)
      BY <1>4, <2>1, <2>2, <2>4 DEF ReadCopied
    <3>2. StructCopied("HistRequest", first.query[1], q.query[1])
      BY <1>4, <1>5, <1>6, <3>1, CopiedTwice
    <3>3. RowsCopied(first.rows, q.rows)
      <4>1. Len(first.rows) = Len(q.rows) /\ Len(first.rows) = Len(p.rows)
        BY <1>5, <3>1 DEF RowsCopied
      <4>2. ASSUME NEW i \in DOMAIN first.rows
            PROVE  /\ first.rows[i].name = q.rows[i].name
                   /\ StructCopied(RowStruct[first.rows[i].name], first.rows[i].value, q.rows[i].value)
        <5> DEFINE t == RowStruct[first.rows[i].name]
        <5>1. i \in DOMAIN p.rows
          BY <1>6, <4>1, SeqDomain
        <5>2. /\ first.rows[i].name = p.rows[i].name /\ p.rows[i].name = q.rows[i].name
              /\ StructCopied(t, first.rows[i].value, p.rows[i].value)
              /\ StructCopied(t, p.rows[i].value, q.rows[i].value)
          BY <1>5, <3>1, <5>1 DEF RowsCopied
        <5>3. first.rows[i].name \in RowNames["historical_data"] /\ IsStruct(t, first.rows[i].value)
          BY DEF IsPacket, AreRows
        <5>4. t \in Outer
          BY <1>4, <5>3, RowTypes
        <5> HIDE DEF t
        <5>5. StructCopied(t, first.rows[i].value, q.rows[i].value)
          BY <5>2, <5>3, <5>4, CopiedTwice
        <5>6. QED
          BY <5>2, <5>5 DEF t
      <4>3. QED
        BY <4>1, <4>2 DEF RowsCopied
    <3>4. q.query # << >>
      BY <2>2 DEF ReadCopied
    <3>5. QED
      BY <1>4, <2>1, <2>4, <3>2, <3>3, <3>4 DEF ReadCopied, q
  <2>5. QED
    BY <2>3, <2>4
<1>9. QED
  BY <1>1, <1>3, <1>7, <1>8 DEF MadeFrom, doc, e

(* What a program writes of a packet is a document as CasesAssumption has  *)
(* them, so that the next program can be given it.                         *)
LEMMA DocumentIsItem ==
  ASSUME NEW p, IsPacket(p), Len(p.query) = 1, p.type \in WrittenTypes,
         Program.verbose \in BOOLEAN, NEW original,
         original # << >> =>
           /\ DOMAIN original = {1} /\ IsPacket(original[1]) /\ Len(original[1].query) = 1
           /\ p.type = "historical_data" /\ ReadCopied(original[1], p)
  PROVE  IsItem(Document(p, original))
<1> DEFINE d == Document(p, original)
           doc == PacketXml(p, Program.verbose)
<1>1. /\ d.kind = "doc" /\ d.doc = doc
      /\ d.packet = IF \E i \in DOMAIN original : original[i].type = p.type
                    THEN original ELSE <<p>>
  BY DEF Document
<1>2. /\ IsSeq(doc.nodes) /\ DOMAIN doc.nodes = {1} /\ IsElement(doc.nodes[1])
      /\ MadeFrom(doc, p)
  BY DocumentRead
<1> HIDE DEF d, doc
<1>3. CASE original = << >>
  <2>1. d.packet = <<p>>
    BY <1>1, <1>3
  <2>2. DOMAIN d.packet = {1} /\ d.packet[1] = p
    BY <2>1
  <2>3. QED
    BY <1>1, <1>2, <2>2 DEF IsItem, d
<1>4. CASE original # << >> /\ original[1].type # p.type
  <2>1. d.packet = <<p>>
    BY <1>1, <1>4
  <2>2. DOMAIN d.packet = {1} /\ d.packet[1] = p
    BY <2>1
  <2>3. QED
    BY <1>1, <1>2, <2>2 DEF IsItem, d
<1>5. CASE original # << >> /\ original[1].type = p.type
  <2>1. d.packet = original
    BY <1>1, <1>5
  <2>2. MadeFrom(doc, original[1])
    BY <1>5, CopyRead DEF doc
  <2>3. QED
    BY <1>1, <1>2, <1>5, <2>1, <2>2 DEF IsItem, d
<1>6. QED
  BY <1>3, <1>4, <1>5

(***************************************************************************)
(* Requests.                                                               *)
(***************************************************************************)

(* A request for all there is.                                             *)
LEMMA NewStruct ==
  ASSUME NEW type \in SimpleTypes
  PROVE  IsStruct(QueryStruct[type], New(QueryStruct[type]))
<1> DEFINE t == QueryStruct[type]
           v == New(t)
           x == [fields |-> NewFields("ExecutionFilter"), parts |-> << >>]
<1>1. /\ t \in {"AccStatusRequest", "ExecutionsRequest", "OrdersRequest"}
  BY DEF SimpleTypes, QueryStruct
<1>2. /\ Schema["AccStatusRequest"].values = {} /\ Schema["OrdersRequest"].values = {}
      /\ Schema["ExecutionsRequest"].values = {"executionFilter"}
      /\ Schema["ExecutionFilter"].values = {} /\ Schema["ExecutionFilter"].pointers = {}
      /\ "ExecutionFilter" \in DOMAIN Schema /\ t \in DOMAIN Schema
      /\ Schema["ExecutionsRequest"].pointers = {}
  BY <1>1 DEF Schema, Struct, Query
<1>3. PartType["executionFilter"] = "ExecutionFilter"
  BY DEF PartType, OrderLists, ++
<1>4. /\ DOMAIN NewFields(t) = FieldsOf(t)
      /\ \A f \in FieldsOf(t) : KindOf(t, f) \in Numbers => NewFields(t)[f] \in Int
      /\ DOMAIN NewFields("ExecutionFilter") = FieldsOf("ExecutionFilter")
      /\ \A f \in FieldsOf("ExecutionFilter") :
           KindOf("ExecutionFilter", f) \in Numbers => NewFields("ExecutionFilter")[f] \in Int
  BY <1>2, NewNumbers
<1>5. IsPart("ExecutionFilter", x)
  <2>1. HasFields("ExecutionFilter", x)
    BY <1>4 DEF HasFields
  <2>2. x.parts = << >> /\ DOMAIN x.parts = {}
    OBVIOUS
  <2> HIDE DEF x
  <2>3. HasParts("ExecutionFilter", x)
    BY <1>2, <2>2 DEF HasParts
  <2>4. QED
    BY <2>1, <2>2, <2>3 DEF IsPart
<1>6. /\ v.fields = NewFields(t) /\ DOMAIN v = {"fields", "parts"}
      /\ DOMAIN v.parts = Schema[t].values
      /\ \A p \in Schema[t].values :
           v.parts[p] = <<[fields |-> NewFields(PartType[p]), parts |-> << >>]>>
  BY DEF New
<1> HIDE DEF t, v
<1>7. HasFields(t, v)
  BY <1>4, <1>6 DEF HasFields
<1>8. \A p \in DOMAIN v.parts : v.parts[p] = <<x>> /\ PartType[p] = "ExecutionFilter"
  BY <1>1, <1>2, <1>3, <1>6
<1> HIDE DEF x
<1>9. IsSeq(<<x>>) /\ Len(<<x>>) = 1 /\ DOMAIN <<x>> = {1} /\ <<x>>[1] = x
  BY DEF IsSeq
<1>10. HasParts(t, v)
  BY <1>1, <1>2, <1>6, <1>8, <1>9 DEF HasParts
<1>11. QED
  BY <1>5, <1>7, <1>8, <1>9, <1>10 DEF IsStruct, t, v

(* An order that was sent.                                                 *)
LEMMA SentStruct ==
  ASSUME NEW type \in WrittenTypes, NEW query, IsStruct(QueryStruct[type], query),
         Len(out) \in Nat
  PROVE  IsStruct(QueryStruct[type], Sent(type, query))
<1>1. CASE type # "place_order"
  BY <1>1 DEF Sent
<1>2. CASE type = "place_order"
  <2> DEFINE w == [query EXCEPT !.fields.orderId = IF @ = 0 THEN 1 + Len(out) ELSE @,
                                !.fields.time_sent = 1]
             id == IF query.fields.orderId = 0 THEN 1 + Len(out) ELSE query.fields.orderId
  <2>1. QueryStruct[type] = "PlaceOrder"
    BY <1>2, QueryTypes
  <2>2. Schema["PlaceOrder"].writes = PlaceOrderWrites /\ Schema["PlaceOrder"].reads = PlaceOrderReads
    BY DEF Schema, Struct
  <2>3. /\ FieldsOf("PlaceOrder") = {"orderId", "time_sent"}
        /\ KindOf("PlaceOrder", "orderId") \in Numbers
    BY <2>2 DEF FieldsOf, AllFields, KindOf, Kind, PlaceOrderReads, PlaceOrderWrites, Fields, ++, Numbers
  <2>4. HasFields("PlaceOrder", query) /\ query.fields.orderId \in Int
    BY <2>1, <2>3 DEF IsStruct, HasFields
  <2>5. DOMAIN query = {"fields", "parts"} /\ DOMAIN query.fields = {"orderId", "time_sent"}
    BY <2>3, <2>4 DEF HasFields
  <2>6. /\ DOMAIN w = {"fields", "parts"} /\ w.parts = query.parts
        /\ DOMAIN w.fields = {"orderId", "time_sent"}
        /\ w.fields["orderId"] = id /\ w.fields["time_sent"] = 1
    BY <2>5
  <2>7. id \in Int
    BY <2>4
  <2>8. Sent(type, query) = w
    BY <1>2 DEF Sent
  <2> HIDE DEF w, id
  <2>9. HasFields("PlaceOrder", w)
    BY <2>3, <2>6, <2>7 DEF HasFields
  <2>10. IsStruct("PlaceOrder", w)
    BY <2>1, <2>6, <2>9 DEF IsStruct, HasParts
  <2>11. QED
    BY <2>1, <2>8, <2>10
<1>3. QED
  BY <1>1, <1>2

(* A job is a request for historical data of a contract.                   *)
LEMMA JobStruct ==
  ASSUME NEW c, IsPart("Contract", c), NEW wts
  PROVE  IsPart("Contract", JobContract(c)) /\ IsStruct("HistRequest", Job(JobContract(c), wts))
<1>1. IsPart("Contract", JobContract(c))
  <2>1. CASE Program.exp = "keep"
    BY <2>1 DEF JobContract
  <2>2. CASE Program.exp # "keep"
    <3> DEFINE w == [c EXCEPT !.fields.includeExpired =
                       IncludeExpired(Program.exp, c.fields.secType)]
    <3>1. /\ "includeExpired" \in FieldsOf("Contract")
          /\ KindOf("Contract", "includeExpired") = "BOOL"
      <4>1. Schema["Contract"].writes = ContractWrites /\ Schema["Contract"].reads = ContractReads
        BY DEF Schema, Struct
      <4>2. "includeExpired" \in DOMAIN ContractWrites /\ ContractWrites["includeExpired"] = "BOOL"
        BY DEF ContractWrites, Fields, ++
      <4>3. QED
        BY <4>1, <4>2 DEF FieldsOf, AllFields, KindOf, Kind
    <3>2. HasFields("Contract", c)
      BY DEF IsPart
    <3>3. DOMAIN c = {"fields", "parts"} /\ DOMAIN c.fields = FieldsOf("Contract")
      BY <3>2 DEF HasFields
    <3>4. /\ DOMAIN w = {"fields", "parts"} /\ w.parts = c.parts
          /\ DOMAIN w.fields = FieldsOf("Contract")
          /\ \A f \in FieldsOf("Contract") : f # "includeExpired" => w.fields[f] = c.fields[f]
      BY <3>3
    <3>5. JobContract(c) = w
      BY <2>2 DEF JobContract
    <3> HIDE DEF w
    <3>6. HasFields("Contract", w)
      BY <3>1, <3>2, <3>4 DEF HasFields, Numbers
    <3>7. QED
      BY <3>4, <3>5, <3>6 DEF IsPart, HasParts
  <2>3. QED
    BY <2>1, <2>2
<1> DEFINE d == JobContract(c)
           j == Job(d, wts)
<1>2. /\ Schema["HistRequest"].writes = HistRequestWrites
      /\ Schema["HistRequest"].reads = HistRequestReads
      /\ Schema["HistRequest"].values = {"reqContract"} /\ Schema["HistRequest"].pointers = {}
  BY DEF Schema, Struct
<1>3. /\ FieldsOf("HistRequest") = {"useRTH", "formatDate", "endDateTime", "durationStr",
                                    "barSizeSetting", "whatToShow"}
      /\ \A f \in FieldsOf("HistRequest") :
           KindOf("HistRequest", f) \in Numbers => f \in {"useRTH", "formatDate"}
  BY <1>2 DEF FieldsOf, AllFields, KindOf, Kind, HistRequestReads, HistRequestWrites, Fields, ++, Numbers
<1>4. /\ DOMAIN j = {"fields", "parts"}
      /\ DOMAIN j.fields = {"useRTH", "formatDate", "endDateTime", "durationStr",
                            "barSizeSetting", "whatToShow"}
      /\ j.fields["useRTH"] \in {0, 1} /\ j.fields["formatDate"] \in {1, 2}
      /\ DOMAIN j.parts = {"reqContract"} /\ j.parts["reqContract"] = <<d>>
  BY DEF Job
<1> HIDE DEF d, j
<1>5. HasFields("HistRequest", j)
  BY <1>3, <1>4 DEF HasFields
<1>6. IsSeq(<<d>>) /\ Len(<<d>>) = 1 /\ DOMAIN <<d>> = {1} /\ <<d>>[1] = d
  BY DEF IsSeq
<1>7. HasParts("HistRequest", j)
  BY <1>2, <1>4, <1>6 DEF HasParts
<1>8. IsStruct("HistRequest", j)
  BY <1>1, <1>4, <1>5, <1>6, <1>7, PartTypes DEF IsStruct, d
<1>9. QED
  BY <1>1, <1>8 DEF j, d

(***************************************************************************)
(* Files.                                                                  *)
(***************************************************************************)

(* The cells that are of a document, or of none.                           *)
FileCells(docs) ==
  {c \in Cell : c.doc # 0 => c.doc \in DOMAIN docs /\ docs[c.doc].kind = "doc"}

AreItems(docs) == IsSeq(docs) /\ \A i \in DOMAIN docs : IsItem(docs[i])

(* A document has a size.                                                  *)
LEMMA SizesTyped ==
  ASSUME NEW docs, AreItems(docs)
  PROVE  /\ Sizes(docs) \in Seq(Nat) /\ DOMAIN Sizes(docs) = DOMAIN docs
         /\ \A i \in DOMAIN docs : Sizes(docs)[i] \in Nat
<1>1. DOMAIN docs = 1..Len(docs) /\ Len(docs) \in Nat
  BY SeqDomain DEF AreItems
<1>2. ASSUME NEW i \in DOMAIN docs PROVE Sizes(docs)[i] \in Nat
  <2>1. Sizes(docs)[i] = IF docs[i].kind = "text" \/ docs[i].doc.nodes = << >> THEN 2
                         ELSE Size(docs[i])
    BY DEF Sizes
  <2>2. CASE docs[i].kind = "text" \/ docs[i].doc.nodes = << >>
    BY <2>1, <2>2
  <2>3. CASE docs[i].kind # "text" /\ docs[i].doc.nodes # << >>
    <3>1. /\ IsSeq(docs[i].doc.nodes)
          /\ \A j \in DOMAIN docs[i].doc.nodes : IsElement(docs[i].doc.nodes[j])
      BY <2>3 DEF AreItems, IsItem
    <3>2. 1 \in DOMAIN docs[i].doc.nodes
      BY <2>3, <3>1, SeqEmpty
    <3>3. IsSeq(RowsOf(docs[i].doc.nodes[1]))
      BY <3>1, <3>2 DEF IsElement
    <3>4. Len(RowsOf(docs[i].doc.nodes[1])) \in Nat
      BY <3>3, SeqDomain
    <3>5. QED
      BY <2>1, <2>3, <3>4 DEF Size
  <2>4. QED
    BY <2>2, <2>3
<1>3. DOMAIN Sizes(docs) = DOMAIN docs /\ Sizes(docs) = [i \in 1..Len(docs) |-> Sizes(docs)[i]]
  BY <1>1 DEF Sizes
<1> DEFINE z == Sizes(docs)
<1> HIDE DEF z
<1>4. z \in [1..Len(docs) -> Nat]
  BY <1>1, <1>2, <1>3 DEF z
<1>5. QED
  BY <1>1, <1>2, <1>3, <1>4 DEF z

(* The cells of a document are of this document.                           *)
LEMMA ItemCellsTyped ==
  ASSUME NEW docs, AreItems(docs), NEW i \in DOMAIN docs
  PROVE  ItemCells(docs, i) \in Seq(FileCells(docs))
<1>1. CASE docs[i].kind = "text"
  <2>1. PlainText \in FileCells(docs)
    BY DEF PlainText, FileCells, Cell
  <2>2. QED
    BY <1>1, <2>1 DEF ItemCells
<1>2. CASE docs[i].kind # "text"
  <2> DEFINE n == Sizes(docs)[i]
             T == FileCells(docs)
  <2>1. n \in Nat /\ i \in Nat
    BY SizesTyped, SeqDomain DEF AreItems
  <2>2. docs[i].kind = "doc"
    BY <1>2 DEF AreItems, IsItem
  <2>3. FormFeed \in T
    BY DEF FormFeed, FileCells, Cell
  <2>4. \A p \in 1..n : [doc |-> i, part |-> p] \in T
    BY <2>1, <2>2 DEF FileCells, Cell
  <2> HIDE DEF n, T
  <2>5. Cells(i, n) \in [1..n -> T]
    BY <2>4 DEF Cells
  <2>6. Cells(i, n) \in Seq(T) /\ <<FormFeed>> \in Seq(T)
    BY <2>1, <2>3, <2>5
  <2>7. Cells(i, n) \o <<FormFeed>> \in Seq(T)
    BY <2>6, ConcatProperties
  <2>8. QED
    BY <1>2, <2>7 DEF ItemCells, n, T
<1>3. QED
  BY <1>1, <1>2

(* A file in terms of the set of its cells.                                *)
LEMMA CellsOfFile ==
  ASSUME NEW f
  PROVE  IsFile(f) <=> AreItems(f.docs) /\ f.cells \in Seq(FileCells(f.docs))
<1>1. ASSUME IsFile(f) PROVE AreItems(f.docs) /\ f.cells \in Seq(FileCells(f.docs))
  <2>1. IsSeq(f.cells) /\ \A k \in DOMAIN f.cells : f.cells[k] \in FileCells(f.docs)
    BY <1>1 DEF IsFile, FileCells, Cell
  <2>2. f.cells \in Seq(FileCells(f.docs))
    BY <2>1, SeqElements
  <2>3. QED
    BY <1>1, <2>2 DEF IsFile, AreItems
<1>2. ASSUME AreItems(f.docs), f.cells \in Seq(FileCells(f.docs)) PROVE IsFile(f)
  <2> DEFINE T == FileCells(f.docs)
             c == f.cells
  <2> HIDE DEF T, c
  <2>1. c \in Seq(T)
    BY <1>2 DEF T, c
  <2>2. IsSeq(c) /\ \A k \in DOMAIN c : c[k] \in T
    BY <2>1, SeqIs
  <2>3. QED
    BY <1>2, <2>2 DEF IsFile, AreItems, T, c, FileCells, Cell
<1>3. QED
  BY <1>1, <1>2

(* What is written is a file, and so is any front of it.                   *)
LEMMA FileOfIs ==
  ASSUME NEW docs, AreItems(docs)
  PROVE  /\ IsFile(FileOf(docs))
         /\ \A n \in 0..Len(FileOf(docs).cells) :
              IsFile([docs |-> docs, cells |-> SubSeq(FileOf(docs).cells, 1, n)])
<1> DEFINE T == FileCells(docs)
           s == [i \in DOMAIN docs |-> ItemCells(docs, i)]
           U == Seq(T)
           c == FlattenSeq(s)
<1>1. FileOf(docs).docs = docs /\ FileOf(docs).cells = c
  BY DEF FileOf
<1>2. DOMAIN docs = 1..Len(docs) /\ Len(docs) \in Nat
  BY SeqDomain DEF AreItems
<1> HIDE DEF U
<1>3. s \in [1..Len(docs) -> U]
  BY <1>2, ItemCellsTyped DEF U
<1> HIDE DEF s
<1>4. s \in Seq(U)
  BY <1>2, <1>3
<1>5. c \in Seq(T)
  BY <1>4, FlattenTyped DEF U
<1> HIDE DEF c, T
<1>6. IsFile(FileOf(docs))
  BY <1>1, <1>5, CellsOfFile DEF T
<1>7. ASSUME NEW n \in 0..Len(c)
      PROVE  IsFile([docs |-> docs, cells |-> SubSeq(c, 1, n)])
  <2>1. SubSeq(c, 1, n) \in Seq(T)
    BY <1>5, FrontAndBehind
  <2> DEFINE f == [docs |-> docs, cells |-> SubSeq(c, 1, n)]
  <2>2. f.docs = docs /\ f.cells = SubSeq(c, 1, n)
    OBVIOUS
  <2> HIDE DEF f
  <2>3. IsFile(f)
    BY <2>1, <2>2, CellsOfFile DEF T
  <2>4. QED
    BY <2>3 DEF f
<1>8. QED
  BY <1>1, <1>6, <1>7

(***************************************************************************)
(* What the programs have in their hands.                                  *)
(***************************************************************************)

AreTodo(lists) ==
  /\ lists = [t \in Types |-> lists[t]]
  /\ \A t \in Types :
       /\ IsSeq(lists[t]) /\ (t \in SimpleTypes => Len(lists[t]) <= 1)
       /\ \A i \in DOMAIN lists[t] : IsStruct(QueryStruct[t], lists[t][i])

(* Programs, answers and files are as they were assumed to be.             *)
GivenInv ==
  /\ IsSeq(plan) /\ (\A i \in DOMAIN plan : IsProgram(plan[i])) /\ (pc # "idle" => plan # << >>)
  /\ IsTws(tws) /\ kills \in Nat /\ IsFile(file)

WorkInv ==
  /\ IsSeq(elements) /\ \A i \in DOMAIN elements : IsElement(elements[i])
  /\ IsSeq(packets)
  /\ \A i \in DOMAIN packets :
       /\ IsPacket(packets[i])
       /\ Program.prog = "histjob" => packets[i].type = "contract_details"
       /\ Program.prog \in {"csv", "noconv"} => packets[i].type = "historical_data"
  /\ AreTodo(todo) /\ AreItems(out)

(* The reader has the cells of the file.                                   *)
FileInv ==
  /\ ReaderInv
  /\ stream \in Seq(FileCells(file.docs)) /\ buf \in Seq(FileCells(file.docs))
  /\ IsSeq(parsed)
  /\ \A i \in DOMAIN parsed : parsed[i] \in DOMAIN file.docs /\ file.docs[parsed[i]].kind = "doc"
  /\ pc = "reading" => whole = [cells |-> file.cells, sizes |-> Sizes(file.docs)] /\ ~over

PcInv ==
  /\ pc \in {"idle", "reading", "answering", "ended", "aborted"}
  /\ pc = "idle" => parsed = << >>
  /\ pc = "reading" => ~BadOptions
  /\ pc \in {"answering", "ended"} /\ ~BadOptions => over

(* Elements and packets are those of the last document, which has only one *)
(* element when it was made from a packet.                                 *)
OriginInv ==
  /\ parsed = << >> => elements = << >> /\ packets = << >>
  /\ parsed # << >> =>
       LET item == file.docs[Last(parsed)]
       IN  item.packet # << >> =>
             /\ elements \in {<< >>, <<item.doc.nodes[1]>>}
             /\ \A i \in DOMAIN packets : \E type \in ReadAs(item.doc.nodes[1]) :
                  packets[i] = PacketOf(type, item.doc.nodes[1])

FilesInv == GivenInv /\ WorkInv /\ FileInv /\ PcInv /\ OriginInv

(* The program that runs is one of the plan.                               *)
LEMMA ProgramIs ==
  ASSUME GivenInv, plan # << >>
  PROVE  IsProgram(Program)
BY SeqEmpty DEF GivenInv, Program

(* Empty lists are lists.                                                  *)
LEMMA NoTodoIs == AreTodo(NoTodo)
<1>1. \A t \in Types : NoTodo[t] = << >>
  BY DEF NoTodo
<1>2. NoTodo = [t \in Types |-> NoTodo[t]]
  BY DEF NoTodo
<1> HIDE DEF NoTodo
<1>3. QED
  BY <1>1, <1>2, SeqShort DEF AreTodo

(* A request is added, or the flag of a simple one is set.                 *)
LEMMA AddIs ==
  ASSUME NEW list, IsSeq(list), NEW t \in Types, NEW query, IsStruct(QueryStruct[t], query),
         \A i \in DOMAIN list : IsStruct(QueryStruct[t], list[i])
  PROVE  /\ IsSeq(Add(list, t, query)) /\ (t \in SimpleTypes => Len(Add(list, t, query)) <= 1)
         /\ \A i \in DOMAIN Add(list, t, query) :
              IsStruct(QueryStruct[t], Add(list, t, query)[i])
<1>1. CASE t \in SimpleTypes
  <2> DEFINE v == New(QueryStruct[t])
  <2>1. Add(list, t, query) = <<v>> /\ IsStruct(QueryStruct[t], v)
    BY <1>1, NewStruct DEF Add
  <2> HIDE DEF v
  <2>2. QED
    BY <2>1, SeqShort
<1>2. CASE t \notin SimpleTypes
  <2>1. Add(list, t, query) = Append(list, query)
    BY <1>2 DEF Add
  <2>2. /\ IsSeq(Append(list, query)) /\ Append(list, query)[Len(list) + 1] = query
        /\ \A i \in 1..Len(list) : Append(list, query)[i] = list[i]
        /\ \A i \in DOMAIN Append(list, query) : i \in DOMAIN list \/ i = Len(list) + 1
    BY SeqAppend
  <2>3. DOMAIN list = 1..Len(list)
    BY SeqDomain
  <2>4. QED
    BY <1>2, <2>1, <2>2, <2>3
<1>3. QED
  BY <1>1, <1>2

(* The simple requests twsdo starts with.                                  *)
LEMMA SimpleIs ==
  ASSUME NEW types \in SUBSET SimpleTypes
  PROVE  AreTodo(Simple(types))
<1>1. SimpleTypes \subseteq Types
  BY QueryTypes DEF SimpleTypes
<1>2. ASSUME NEW t \in Types
      PROVE  /\ IsSeq(Simple(types)[t]) /\ (t \in SimpleTypes => Len(Simple(types)[t]) <= 1)
             /\ \A i \in DOMAIN Simple(types)[t] : IsStruct(QueryStruct[t], Simple(types)[t][i])
  <2>1. Simple(types)[t] = IF t \in types THEN Add(<< >>, t, << >>) ELSE << >>
    BY DEF Simple
  <2>2. CASE t \in types
    <3> DEFINE v == New(QueryStruct[t])
    <3>1. Simple(types)[t] = <<v>> /\ IsStruct(QueryStruct[t], v)
      BY <2>1, <2>2, NewStruct DEF Add
    <3> HIDE DEF v
    <3>2. QED
      BY <3>1, SeqShort
  <2>3. CASE t \notin types
    BY <2>1, <2>3, SeqShort
  <2>4. QED
    BY <2>2, <2>3
<1>3. Simple(types) = [t \in Types |-> Simple(types)[t]]
  BY DEF Simple
<1>4. QED
  BY <1>2, <1>3 DEF AreTodo

(* One list is changed.                                                    *)
LEMMA TodoChanged ==
  ASSUME NEW lists, AreTodo(lists), NEW t \in Types, NEW list, IsSeq(list),
         t \in SimpleTypes => Len(list) <= 1,
         \A i \in DOMAIN list : IsStruct(QueryStruct[t], list[i])
  PROVE  AreTodo([lists EXCEPT ![t] = list])
<1> DEFINE new == [lists EXCEPT ![t] = list]
<1>1. /\ new = [u \in Types |-> new[u]]
      /\ \A u \in Types : new[u] = IF u = t THEN list ELSE lists[u]
  BY DEF AreTodo
<1> HIDE DEF new
<1>2. AreTodo(new)
  BY <1>1 DEF AreTodo
<1>3. QED
  BY <1>2 DEF new

(* It holds of what the programs are given.                                *)
LEMMA InitFiles == Init => FilesInv
<1> SUFFICES ASSUME Init PROVE FilesInv
  OBVIOUS
<1>1. /\ IsSeq(plan) /\ \A i \in DOMAIN plan : IsProgram(plan[i])
      /\ IsFile(file) /\ IsTws(tws) /\ kills \in Nat /\ pc = "idle"
  BY CasesAssumption DEF Init
<1>2. GivenInv
  BY <1>1 DEF GivenInv
<1>3. elements = << >> /\ packets = << >> /\ todo = NoTodo /\ out = << >>
  BY DEF Init
<1>4. WorkInv
  BY <1>3, NoTodoIs, SeqShort DEF WorkInv, AreItems
<1>5. /\ stream = << >> /\ buf = << >> /\ bufSize = BufSize /\ scanned = 0 /\ parsed = << >>
  BY DEF Init
<1>6. << >> \in Seq(Cell) /\ << >> \in Seq(FileCells(file.docs)) /\ Len(<< >>) = 0
  OBVIOUS
<1>7. FileInv
  BY <1>1, <1>5, <1>6, SeqShort, BufferAssumption DEF FileInv, ReaderInv, BufferFits
<1>8. PcInv
  BY <1>1, <1>5 DEF PcInv
<1>9. OriginInv
  BY <1>3, <1>5 DEF OriginInv
<1>10. QED
  BY <1>2, <1>4, <1>7, <1>8, <1>9 DEF FilesInv

(***************************************************************************)
(* Reading.                                                                *)
(***************************************************************************)

(* A file that was just opened.                                            *)
LEMMA FileOpenedIs ==
  ASSUME NEW docs, AreItems(docs), NEW cells \in Seq(FileCells(docs)), NEW sizes,
         OpenFile(cells, sizes)
  PROVE  /\ ReaderInv' /\ stream' \in Seq(FileCells(docs)) /\ buf' \in Seq(FileCells(docs))
         /\ parsed' = << >> /\ over' = FALSE /\ whole' = [cells |-> cells, sizes |-> sizes]
<1>1. cells \in Seq(Cell)
  BY DEF FileCells
<1>2. /\ stream' = cells /\ buf' = << >> /\ bufSize' = BufSize /\ scanned' = 0
      /\ parsed' = << >> /\ over' = FALSE /\ whole' = [cells |-> cells, sizes |-> sizes]
  BY DEF OpenFile
<1>3. << >> \in Seq(Cell) /\ << >> \in Seq(FileCells(docs)) /\ Len(<< >>) = 0
  OBVIOUS
<1>4. QED
  BY <1>1, <1>2, <1>3, BufferAssumption DEF ReaderInv, BufferFits

(* A program starts.                                                       *)
LEMMA StartKeeps ==
  ASSUME FilesInv, Start
  PROVE  FilesInv'
<1>1. /\ pc = "idle" /\ plan # << >> /\ OpenFile(file.cells, Sizes(file.docs))
      /\ pc' = IF BadOptions THEN "ended" ELSE "reading"
      /\ todo' = IF Program.prog = "twsdo" THEN Simple(Program.ask) ELSE NoTodo
      /\ plan' = plan /\ tws' = tws /\ kills' = kills /\ file' = file
      /\ elements' = elements /\ packets' = packets /\ out' = out
  BY DEF Start, given
<1>2. GivenInv /\ WorkInv /\ OriginInv /\ PcInv /\ IsProgram(Program)
  BY <1>1, ProgramIs DEF FilesInv
<1>3. GivenInv'
  BY <1>1, <1>2 DEF GivenInv
<1>4. Program' = Program /\ BadOptions' = BadOptions
  BY <1>1 DEF Program, BadOptions
<1>5. AreTodo(todo')
  BY <1>1, <1>2, SimpleIs, NoTodoIs DEF IsProgram
<1>6. WorkInv'
  BY <1>1, <1>2, <1>4, <1>5 DEF WorkInv, AreItems
<1>7. /\ ReaderInv' /\ stream' \in Seq(FileCells(file.docs)) /\ buf' \in Seq(FileCells(file.docs))
      /\ parsed' = << >> /\ over' = FALSE
      /\ whole' = [cells |-> file.cells, sizes |-> Sizes(file.docs)]
  BY <1>1, <1>2, CellsOfFile, FileOpenedIs DEF GivenInv
<1>8. FileInv'
  BY <1>1, <1>7, SeqShort DEF FileInv
<1>9. PcInv'
  BY <1>1, <1>4 DEF PcInv
<1>10. OriginInv'
  <2>1. elements = << >> /\ packets = << >>
    BY <1>1, <1>2 DEF OriginInv, PcInv
  <2>2. QED
    BY <1>1, <1>7, <2>1 DEF OriginInv
<1>11. QED
  BY <1>3, <1>6, <1>8, <1>9, <1>10 DEF FilesInv

(* The next chunk is read.                                                 *)
LEMMA ReadIsKept ==
  ASSUME FilesInv, Read
  PROVE  FilesInv'
<1> DEFINE T == FileCells(file.docs)
           n == IF Len(stream) < ChunkSize THEN Len(stream) ELSE ChunkSize
<1>1. /\ ReadChunk /\ plan' = plan /\ tws' = tws /\ kills' = kills /\ file' = file
      /\ pc' = pc /\ elements' = elements /\ packets' = packets /\ todo' = todo /\ out' = out
  BY DEF Read, given
<1>2. /\ buf' = buf \o SubSeq(stream, 1, n) /\ stream' = Behind(stream, n)
      /\ parsed' = parsed /\ over' = over /\ whole' = whole
  BY <1>1 DEF ReadChunk
<1>3. GivenInv /\ WorkInv /\ FileInv /\ PcInv /\ OriginInv
  BY DEF FilesInv
<1>4. Program' = Program /\ BadOptions' = BadOptions
  BY <1>1 DEF Program, BadOptions
<1>5. GivenInv'
  BY <1>1, <1>3 DEF GivenInv
<1>6. WorkInv'
  BY <1>1, <1>3, <1>4 DEF WorkInv
<1>7. FileInv'
  <2>1. ReaderInv'
    BY <1>1, <1>3, ReadKeeps DEF FileInv
  <2>2. stream \in Seq(T) /\ buf \in Seq(T)
    BY <1>3 DEF FileInv
  <2> HIDE DEF T
  <2>3. n \in 0..Len(stream)
    BY <2>2, BufferAssumption
  <2> HIDE DEF n
  <2>4. SubSeq(stream, 1, n) \in Seq(T) /\ Behind(stream, n) \in Seq(T)
    BY <2>2, <2>3, FrontAndBehind
  <2>5. buf' \in Seq(T) /\ stream' \in Seq(T)
    BY <1>2, <2>2, <2>4, ConcatProperties
  <2>6. QED
    BY <1>1, <1>2, <1>3, <2>1, <2>5 DEF FileInv, T
<1>8. PcInv'
  BY <1>1, <1>2, <1>3, <1>4 DEF PcInv
<1>9. OriginInv'
  BY <1>1, <1>2, <1>3 DEF OriginInv
<1>10. QED
  BY <1>5, <1>6, <1>7, <1>8, <1>9 DEF FilesInv

(* The next document is one of the file.                                   *)
LEMMA NextDocIs ==
  ASSUME FilesInv, NextXmlDoc, NextDoc # 0
  PROVE  NextDoc \in DOMAIN file.docs /\ file.docs[NextDoc].kind = "doc"
<1> DEFINE T == FileCells(file.docs)
<1>1. ReaderInv /\ buf \in Seq(T)
  BY DEF FilesInv, FileInv
<1>2. NextText \in Seq(Cell)
  BY <1>1, NextKeeps
<1>3. NextDoc = NextText[1].doc /\ NextText # << >>
  BY DEF NextDoc, Parsed
<1> DEFINE ff == FindFormFeed(buf, scanned + 1)
<1>4. /\ buf \in Seq(Cell) /\ scanned + 1 \in Nat /\ scanned + 1 >= 1 /\ scanned + 1 <= Len(buf) + 1
      /\ Len(buf) \in Nat
  BY <1>1 DEF ReaderInv
<1>5. ff \in Nat /\ ff <= Len(buf) + 1 /\ ff >= 1
  BY <1>4, FoundFormFeed
<1>6. NextText = SubSeq(buf, 1, ff - 1)
  BY DEF NextText
<1> HIDE DEF T, ff
<1>7. ff - 1 \in 0..Len(buf)
  BY <1>4, <1>5
<1>8. SubSeq(buf, 1, ff - 1) \in Seq(T)
  BY <1>1, <1>7, FrontAndBehind
<1>9. NextText \in Seq(T)
  BY <1>6, <1>8
<1>10. NextText[1] \in T
  BY <1>3, <1>9
<1>11. QED
  BY <1>3, <1>10 DEF T, FileCells

(* The next document is parsed, or there is none.                          *)
LEMMA NextRootKeeps ==
  ASSUME FilesInv, NextRoot
  PROVE  FilesInv'
<1> DEFINE T == FileCells(file.docs)
<1>1. /\ pc = "reading" /\ packets = << >> /\ elements = << >> /\ NextXmlDoc
      /\ plan' = plan /\ tws' = tws /\ kills' = kills /\ file' = file
      /\ packets' = packets /\ todo' = todo /\ out' = out
      /\ pc' = IF NextDoc # 0 THEN "reading"
               ELSE IF Program.prog = "twsdo" THEN "answering" ELSE "ended"
      /\ elements' = IF NextDoc # 0 /\ file.docs[NextDoc].doc.root = "TWSXML"
                     THEN file.docs[NextDoc].doc.nodes ELSE << >>
  BY DEF NextRoot, Between, given
<1>2. /\ buf' = Behind(buf, FindFormFeed(buf, scanned + 1))
      /\ parsed' = IF NextDoc = 0 THEN parsed ELSE Append(parsed, NextDoc)
      /\ over' = (NextDoc = 0) /\ stream' = stream /\ whole' = whole
  BY <1>1 DEF NextXmlDoc
<1>3. GivenInv /\ WorkInv /\ FileInv /\ PcInv /\ OriginInv
  BY DEF FilesInv
<1>4. Program' = Program /\ BadOptions' = BadOptions /\ ~BadOptions
  BY <1>1, <1>3 DEF Program, BadOptions, PcInv
<1>5. NextDoc # 0 => NextDoc \in DOMAIN file.docs /\ file.docs[NextDoc].kind = "doc"
                     /\ IsItem(file.docs[NextDoc])
  BY <1>1, <1>3, NextDocIs DEF GivenInv, IsFile
<1>6. GivenInv'
  BY <1>1, <1>3 DEF GivenInv
<1>7. WorkInv'
  <2>1. IsSeq(elements') /\ \A i \in DOMAIN elements' : IsElement(elements'[i])
    <3>1. CASE NextDoc # 0 /\ file.docs[NextDoc].doc.root = "TWSXML"
      <4>1. elements' = file.docs[NextDoc].doc.nodes
        BY <1>1, <3>1
      <4>2. QED
        BY <1>5, <3>1, <4>1 DEF IsItem
    <3>2. CASE ~(NextDoc # 0 /\ file.docs[NextDoc].doc.root = "TWSXML")
      <4>1. elements' = << >>
        BY <1>1, <3>2
      <4>2. QED
        BY <4>1, SeqShort
    <3>3. QED
      BY <3>1, <3>2
  <2>2. QED
    BY <1>1, <1>3, <1>4, <2>1 DEF WorkInv
<1>8. FileInv'
  <2>1. ReaderInv'
    BY <1>1, <1>3, NextKeeps DEF FileInv
  <2>2. stream \in Seq(T) /\ buf \in Seq(T)
    BY <1>3 DEF FileInv
  <2> DEFINE ff == FindFormFeed(buf, scanned + 1)
  <2>3. buf' \in Seq(T)
    <3>1. /\ buf \in Seq(Cell) /\ scanned + 1 \in Nat /\ scanned + 1 >= 1
          /\ scanned + 1 <= Len(buf) + 1 /\ Len(buf) \in Nat
      BY <1>3 DEF FileInv, ReaderInv
    <3>2. ff \in 1..(Len(buf) + 1)
      BY <3>1, FoundFormFeed
    <3>3. buf' = SubSeq(buf, ff + 1, Len(buf))
      BY <1>2 DEF Behind
    <3> HIDE DEF ff, T
    <3>4. CASE ff = Len(buf) + 1
      <4>1. buf' = << >>
        BY <3>1, <3>3, <3>4
      <4>2. QED
        BY <4>1
    <3>5. CASE ff # Len(buf) + 1
      <4>1. ff \in 0..Len(buf)
        BY <3>1, <3>2, <3>5
      <4>2. Behind(buf, ff) \in Seq(T)
        BY <2>2, <4>1, FrontAndBehind
      <4>3. QED
        BY <3>3, <4>2 DEF Behind
    <3>6. QED
      BY <3>4, <3>5
  <2>4. /\ IsSeq(parsed')
        /\ \A i \in DOMAIN parsed' : parsed'[i] \in DOMAIN file.docs /\ file.docs[parsed'[i]].kind = "doc"
    <3>1. CASE NextDoc = 0
      BY <1>2, <1>3, <3>1 DEF FileInv
    <3>2. CASE NextDoc # 0
      <4>1. parsed' = Append(parsed, NextDoc) /\ IsSeq(parsed)
        BY <1>2, <1>3, <3>2 DEF FileInv
      <4>2. \A i \in DOMAIN parsed : parsed[i] \in DOMAIN file.docs /\ file.docs[parsed[i]].kind = "doc"
        BY <1>3 DEF FileInv
      <4>3. DOMAIN parsed = 1..Len(parsed)
        BY <4>1, SeqDomain
      <4>4. /\ IsSeq(parsed') /\ parsed'[Len(parsed) + 1] = NextDoc
            /\ \A i \in 1..Len(parsed) : parsed'[i] = parsed[i]
            /\ \A i \in DOMAIN parsed' : i \in DOMAIN parsed \/ i = Len(parsed) + 1
        BY <4>1, SeqAppend
      <4>5. QED
        BY <1>5, <3>2, <4>2, <4>3, <4>4
    <3>3. QED
      BY <3>1, <3>2
  <2>5. QED
    BY <1>1, <1>2, <1>3, <2>1, <2>2, <2>3, <2>4 DEF FileInv, T
<1>9. PcInv'
  BY <1>1, <1>2, <1>4 DEF PcInv
<1>10. OriginInv'
  <2>1. CASE NextDoc = 0
    <3>1. elements' = << >> /\ packets' = << >>
      BY <1>1, <2>1
    <3>2. DOMAIN packets' = {}
      BY <3>1
    <3>3. QED
      BY <3>1, <3>2 DEF OriginInv
  <2>2. CASE NextDoc # 0
    <3>1. parsed' = Append(parsed, NextDoc) /\ IsSeq(parsed)
      BY <1>2, <1>3, <2>2 DEF FileInv
    <3>2. parsed' # << >> /\ Last(parsed') = NextDoc
      <4>1. /\ parsed' # << >> /\ Len(parsed') = Len(parsed) + 1
            /\ parsed'[Len(parsed) + 1] = NextDoc
        BY <3>1, SeqAppend
      <4>2. QED
        BY <4>1 DEF Last
    <3>3. packets' = << >> /\ DOMAIN packets' = {}
      BY <1>1
    <3> DEFINE item == file.docs[NextDoc]
    <3>4. ASSUME item.packet # << >>
          PROVE  elements' \in {<< >>, <<item.doc.nodes[1]>>}
      <4>1. IsItem(item) /\ item.kind = "doc"
        BY <1>5, <2>2
      <4>2. IsSeq(item.doc.nodes) /\ Len(item.doc.nodes) = 1
        BY <3>4, <4>1 DEF IsItem, MadeFrom
      <4> DEFINE nodes == item.doc.nodes
      <4>3. elements' \in {<< >>, nodes}
        BY <1>1
      <4> HIDE DEF nodes, item
      <4>4. nodes = <<nodes[1]>>
        BY <4>2 DEF IsSeq, nodes
      <4>5. QED
        BY <4>3, <4>4 DEF nodes
    <3>5. QED
      BY <1>1, <3>2, <3>3, <3>4 DEF OriginInv
  <2>3. QED
    BY <2>1, <2>2
<1>11. QED
  BY <1>6, <1>7, <1>8, <1>9, <1>10 DEF FilesInv

(* As what a program reads an element, it reads well.                      *)
LEMMA PacketTypesAre ==
  ASSUME IsProgram(Program), NEW element
  PROVE  LET types == PacketTypes(element)
         IN  /\ IsSeq(types)
             /\ \A i \in DOMAIN types :
                  /\ types[i] \in ReadAs(element)
                  /\ Program.prog = "histjob" => types[i] = "contract_details"
                  /\ Program.prog \in {"csv", "noconv"} => types[i] = "historical_data"
<1> DEFINE types == PacketTypes(element)
<1>1. Program.prog \in {"twsdo", "histjob", "csv", "noconv"}
  BY DEF IsProgram
<1>2. CASE Program.prog # "twsdo"
  <2>1. types \in {<<"contract_details">>, <<"historical_data">>}
        /\ (Program.prog = "histjob" => types = <<"contract_details">>)
        /\ (Program.prog # "histjob" => types = <<"historical_data">>)
    BY <1>1, <1>2 DEF PacketTypes
  <2> HIDE DEF types
  <2>2. IsSeq(types) /\ DOMAIN types = {1} /\ types[1] \in RowsAgain
        /\ (Program.prog = "histjob" => types[1] = "contract_details")
        /\ (Program.prog # "histjob" => types[1] = "historical_data")
    BY <2>1, SeqShort DEF RowsAgain
  <2>3. QED
    BY <1>1, <1>2, <2>2 DEF ReadAs, types
<1>3. CASE Program.prog = "twsdo" /\ (Ignored(element) \/ element.type \in SimpleTypes)
  <2>1. types = << >>
    BY <1>3 DEF PacketTypes, SimpleTypes
  <2>2. QED
    BY <2>1, SeqShort
<1>4. CASE Program.prog = "twsdo" /\ ~(Ignored(element) \/ element.type \in SimpleTypes)
  <2>1. element.type \in ReadAs(element) /\ "contract_details" \in ReadAs(element)
    BY <1>4 DEF ReadAs, Ignored, RowsAgain
  <2>2. CASE element.type = "market_data"
    <3>1. types = <<"market_data", "contract_details">>
      BY <1>4, <2>2 DEF PacketTypes
    <3> HIDE DEF types
    <3>2. IsSeq(types) /\ DOMAIN types = {1, 2} /\ types[1] = "market_data" /\ types[2] = "contract_details"
      BY <3>1 DEF IsSeq
    <3>3. QED
      BY <1>4, <2>1, <2>2, <3>2 DEF types
  <2>3. CASE element.type # "market_data"
    <3>1. types = <<element.type>>
      BY <1>4, <2>3 DEF PacketTypes
    <3> HIDE DEF types
    <3>2. IsSeq(types) /\ DOMAIN types = {1} /\ types[1] = element.type
      BY <3>1, SeqShort
    <3>3. QED
      BY <1>4, <2>1, <3>2 DEF types
  <2>4. QED
    BY <2>2, <2>3
<1>5. QED
  BY <1>2, <1>3, <1>4

(* The flags of simple requests are set.                                   *)
LEMMA SimpleAdded ==
  ASSUME NEW lists, AreTodo(lists), NEW types \in SUBSET SimpleTypes
  PROVE  AreTodo([t \in Types |-> IF t \in types THEN Add(lists[t], t, New(QueryStruct[t]))
                                  ELSE lists[t]])
<1> DEFINE new == [t \in Types |-> IF t \in types THEN Add(lists[t], t, New(QueryStruct[t]))
                                   ELSE lists[t]]
<1>1. /\ new = [t \in Types |-> new[t]]
      /\ \A t \in Types : new[t] = IF t \in types THEN Add(lists[t], t, New(QueryStruct[t]))
                                   ELSE lists[t]
  OBVIOUS
<1> HIDE DEF new
<1>2. ASSUME NEW t \in Types
      PROVE  /\ IsSeq(new[t]) /\ (t \in SimpleTypes => Len(new[t]) <= 1)
             /\ \A i \in DOMAIN new[t] : IsStruct(QueryStruct[t], new[t][i])
  <2>1. CASE t \in types
    <3>1. /\ IsSeq(lists[t]) /\ \A i \in DOMAIN lists[t] : IsStruct(QueryStruct[t], lists[t][i])
      BY DEF AreTodo
    <3>2. IsStruct(QueryStruct[t], New(QueryStruct[t]))
      BY <2>1, NewStruct
    <3>3. new[t] = Add(lists[t], t, New(QueryStruct[t]))
      BY <1>1, <2>1
    <3>4. QED
      BY <3>1, <3>2, <3>3, AddIs
  <2>2. CASE t \notin types
    BY <1>1, <2>2 DEF AreTodo
  <2>3. QED
    BY <2>1, <2>2
<1>3. AreTodo(new)
  BY <1>1, <1>2 DEF AreTodo
<1>4. QED
  BY <1>3 DEF new

(* An element is read.                                                     *)
LEMMA ReadElementKeeps ==
  ASSUME FilesInv, ReadElement
  PROVE  FilesInv'
<1> DEFINE element == Head(elements)
           types == PacketTypes(element)
           simple == {element.type} \cap SimpleTypes
<1>1. /\ pc = "reading" /\ packets = << >> /\ elements # << >>
      /\ plan' = plan /\ tws' = tws /\ kills' = kills /\ file' = file /\ out' = out
      /\ packets' = [i \in DOMAIN types |-> PacketOf(types[i], element)]
      /\ pc' \in {"aborted", pc} /\ elements' = Tail(elements)
      /\ todo' \in {todo, [t \in Types |-> IF t \in simple THEN Add(todo[t], t, New(QueryStruct[t]))
                                           ELSE todo[t]]}
      /\ stream' = stream /\ buf' = buf /\ bufSize' = bufSize /\ scanned' = scanned
      /\ parsed' = parsed /\ over' = over /\ whole' = whole
  BY DEF ReadElement, given, streamVars
<1>2. GivenInv /\ WorkInv /\ FileInv /\ PcInv /\ OriginInv /\ IsProgram(Program)
  BY <1>1, ProgramIs DEF FilesInv, GivenInv
<1>3. Program' = Program /\ BadOptions' = BadOptions
  BY <1>1 DEF Program, BadOptions
<1>4. GivenInv'
  BY <1>1, <1>2 DEF GivenInv
<1>5. /\ IsSeq(elements) /\ 1 \in DOMAIN elements /\ element = elements[1]
      /\ IsSeq(Tail(elements))
      /\ \A i \in DOMAIN Tail(elements) : i + 1 \in DOMAIN elements /\ Tail(elements)[i] = elements[i + 1]
  BY <1>1, <1>2, SeqHeadTail DEF WorkInv
<1>6. IsElement(element)
  BY <1>2, <1>5 DEF WorkInv
<1>7. /\ IsSeq(types)
      /\ \A i \in DOMAIN types :
           /\ types[i] \in ReadAs(element)
           /\ Program.prog = "histjob" => types[i] = "contract_details"
           /\ Program.prog \in {"csv", "noconv"} => types[i] = "historical_data"
  BY <1>2, PacketTypesAre
<1>8. AreTodo(todo')
  <2>1. AreTodo(todo) /\ simple \in SUBSET SimpleTypes
    BY <1>2 DEF WorkInv
  <2> HIDE DEF simple
  <2>2. QED
    BY <1>1, <2>1, SimpleAdded
<1> HIDE DEF simple, types, element
<1>9. /\ IsSeq(packets') /\ DOMAIN packets' = DOMAIN types
      /\ \A i \in DOMAIN packets' : packets'[i] = PacketOf(types[i], element)
  BY <1>1, <1>7, SeqOfLength, SeqDomain
<1>10. WorkInv'
  <2>1. ASSUME NEW i \in DOMAIN packets'
        PROVE  /\ IsPacket(packets'[i])
               /\ Program.prog = "histjob" => packets'[i].type = "contract_details"
               /\ Program.prog \in {"csv", "noconv"} => packets'[i].type = "historical_data"
    <3>1. types[i] \in ReadAs(element) /\ packets'[i] = PacketOf(types[i], element)
      BY <1>7, <1>9
    <3> DEFINE type == types[i]
    <3> HIDE DEF type
    <3>2. PacketOf(type, element).type = type
      BY PacketOfKinds
    <3>20. packets'[i].type = types[i]
      BY <3>1, <3>2 DEF type
    <3>3. QED
      BY <1>6, <1>7, <1>9, <3>1, <3>20 DEF IsElement
  <2>2. /\ IsSeq(elements') /\ \A i \in DOMAIN elements' : IsElement(elements'[i])
    BY <1>1, <1>2, <1>5 DEF WorkInv
  <2>3. AreItems(out')
    BY <1>1, <1>2 DEF WorkInv
  <2>4. QED
    BY <1>3, <1>8, <1>9, <2>1, <2>2, <2>3 DEF WorkInv
<1>11. FileInv'
  <2>1. ReaderInv'
    BY <1>1, <1>2 DEF FileInv, ReaderInv, BufferFits
  <2>2. QED
    BY <1>1, <1>2, <2>1 DEF FileInv
<1>12. PcInv'
  BY <1>1, <1>2, <1>3 DEF PcInv
<1>13. OriginInv'
  <2>1. parsed # << >>
    BY <1>1, <1>2 DEF OriginInv
  <2> DEFINE item == file.docs[Last(parsed)]
  <2>2. ASSUME item.packet # << >>
        PROVE  /\ elements' = << >>
               /\ \A i \in DOMAIN packets' : \E type \in ReadAs(item.doc.nodes[1]) :
                    packets'[i] = PacketOf(type, item.doc.nodes[1])
    <3>1. elements \in {<< >>, <<item.doc.nodes[1]>>}
      BY <1>2, <2>1, <2>2 DEF OriginInv
    <3>2. elements = <<item.doc.nodes[1]>>
      BY <1>1, <3>1
    <3>3. element = item.doc.nodes[1] /\ Tail(elements) = << >>
      BY <3>2 DEF element
    <3>4. QED
      BY <1>1, <1>7, <1>9, <3>3
  <2>3. QED
    BY <1>1, <2>1, <2>2 DEF OriginInv
<1>14. QED
  BY <1>4, <1>10, <1>11, <1>12, <1>13 DEF FilesInv

(***************************************************************************)
(* twsgen -H.                                                              *)
(***************************************************************************)

(* Division with remainder.                                                *)
LEMMA Divided ==
  ASSUME NEW n \in Nat, n # 0, NEW k \in Nat
  PROVE  k \div n \in Nat /\ k % n \in 0..(n - 1) /\ k = n * (k \div n) + (k % n)
OBVIOUS

(* More of the same is more.                                               *)
LEMMA TimesLess ==
  ASSUME NEW n \in Nat, NEW a \in Nat, NEW b \in Nat, a >= b
  PROVE  n * a >= n * b
OBVIOUS

(* Which contract and which of whatToShow the job number k is for.         *)
LEMMA JobNumber ==
  ASSUME NEW m \in Nat, NEW n \in Nat, NEW k \in 1..(m * n)
  PROVE  1 + ((k - 1) \div n) \in 1..m /\ 1 + ((k - 1) % n) \in 1..n /\ n # 0
<1>1. n # 0
  <2>1. SUFFICES ASSUME n = 0 PROVE FALSE
    OBVIOUS
  <2>2. m * n = 0
    BY <2>1
  <2>3. QED
    BY <2>2
<1> DEFINE q == (k - 1) \div n
           r == (k - 1) % n
<1>2. k - 1 \in Nat /\ m * n \in Nat /\ k - 1 < m * n
  OBVIOUS
<1>3. q \in Nat /\ r \in 0..(n - 1) /\ k - 1 = n * q + r
  BY <1>1, <1>2, Divided
<1> HIDE DEF q, r
<1>4. q < m
  <2>1. SUFFICES ASSUME q >= m PROVE FALSE
    BY <1>3
  <2>2. n * q >= n * m /\ n * m = m * n
    BY <1>3, <2>1, TimesLess
  <2>3. n * q \in Nat
    BY <1>3
  <2>4. QED
    BY <1>2, <1>3, <2>2, <2>3
<1>5. QED
  BY <1>1, <1>3, <1>4 DEF q, r

(* The contracts that are kept are picked.                                 *)
LEMMA KeptPicked ==
  ASSUME NEW contracts, IsSeq(contracts), NEW begin
  PROVE  LET K == {i \in 1..Len(contracts) : ~SkipExpiry(Expiry(contracts[i]), begin)}
         IN  Kept(contracts, begin) = FlattenSeq(Picks(contracts, K, Len(contracts)))
<1>1. Len(contracts) \in Nat /\ DOMAIN contracts = 1..Len(contracts)
  BY SeqDomain
<1> DEFINE K == {i \in 1..Len(contracts) : ~SkipExpiry(Expiry(contracts[i]), begin)}
<1>2. \A i \in 1..Len(contracts) : i \in K <=> ~SkipExpiry(Expiry(contracts[i]), begin)
  OBVIOUS
<1> HIDE DEF K
<1>3. [i \in DOMAIN contracts |->
         IF SkipExpiry(Expiry(contracts[i]), begin) THEN << >> ELSE <<contracts[i]>>]
        = Picks(contracts, K, Len(contracts))
  BY <1>1, <1>2 DEF Picks
<1>4. QED
  BY <1>3 DEF Kept, K

(* What is picked of a sequence is some of it.                             *)
LEMMA PickedIs ==
  ASSUME NEW s, IsSeq(s), NEW K \in SUBSET (1..Len(s))
  PROVE  LET t == FlattenSeq(Picks(s, K, Len(s)))
         IN  IsSeq(t) /\ \A i \in DOMAIN t : \E j \in DOMAIN s : j \in K /\ t[i] = s[j]
<1> DEFINE n == Len(s)
           t == FlattenSeq(Picks(s, K, n))
<1>1. n \in Nat /\ DOMAIN s = 1..n
  BY SeqDomain
<1> HIDE DEF n
<1>2. K \in SUBSET (1..n)
  BY DEF n
<1>3. PICK idx \in Seq(K) :
        /\ K = 1..n => idx = [i \in 1..n |-> i]
        /\ \A x : FlattenSeq(Picks(x, K, n)) = [k \in 1..Len(idx) |-> x[idx[k]]]
  BY <1>1, <1>2, Picked, Zenon
<1>4. t = [k \in 1..Len(idx) |-> s[idx[k]]] /\ Len(idx) \in Nat
  BY <1>3
<1> HIDE DEF t
<1>5. IsSeq(t) /\ DOMAIN t = 1..Len(idx)
  BY <1>4 DEF IsSeq
<1>6. \A i \in 1..Len(idx) : idx[i] \in K
  OBVIOUS
<1>7. \A i \in DOMAIN t : \E j \in DOMAIN s : j \in K /\ t[i] = s[j]
  BY <1>1, <1>2, <1>4, <1>5, <1>6
<1>8. QED
  BY <1>5, <1>7 DEF t, n

(* The rows of a name are rows of this name.                               *)
LEMMA NamedIs ==
  ASSUME NEW rows, IsSeq(rows), NEW name
  PROVE  /\ IsSeq(Named(rows, name))
         /\ \A i \in DOMAIN Named(rows, name) :
              \E j \in DOMAIN rows : rows[j].name = name /\ Named(rows, name)[i] = rows[j]
<1> DEFINE K == {i \in 1..Len(rows) : rows[i].name = name}
           t == FlattenSeq(Picks(rows, K, Len(rows)))
<1>1. Named(rows, name) = t
  BY NamedPicked
<1>2. \A j \in K : rows[j].name = name
  OBVIOUS
<1>3. K \in SUBSET (1..Len(rows))
  OBVIOUS
<1> HIDE DEF K
<1>4. IsSeq(t) /\ \A i \in DOMAIN t : \E j \in DOMAIN rows : j \in K /\ t[i] = rows[j]
  BY <1>3, PickedIs
<1> HIDE DEF t
<1>5. QED
  BY <1>1, <1>2, <1>4

(* The contracts that are kept are some of those there were.               *)
LEMMA KeptIs ==
  ASSUME NEW contracts, IsSeq(contracts), NEW begin
  PROVE  /\ IsSeq(Kept(contracts, begin))
         /\ \A i \in DOMAIN Kept(contracts, begin) :
              \E j \in DOMAIN contracts : Kept(contracts, begin)[i] = contracts[j]
<1> DEFINE K == {i \in 1..Len(contracts) : ~SkipExpiry(Expiry(contracts[i]), begin)}
           t == FlattenSeq(Picks(contracts, K, Len(contracts)))
<1>1. Kept(contracts, begin) = t
  BY KeptPicked
<1>3. K \in SUBSET (1..Len(contracts))
  OBVIOUS
<1> HIDE DEF K
<1>4. IsSeq(t) /\ \A i \in DOMAIN t : \E j \in DOMAIN contracts : j \in K /\ t[i] = contracts[j]
  BY <1>3, PickedIs
<1> HIDE DEF t
<1>5. QED
  BY <1>1, <1>4

(* The contracts of a packet.                                              *)
ContractsIn(p) == [i \in DOMAIN p.rows |-> p.rows[i].value.parts.summary[1]]

(* The job number k for some contracts, and all of them.                   *)
JobAt(contracts, k) ==
  LET n == Len(Program.wts)
  IN  Document(Packet("historical_data",
                      <<Job(JobContract(contracts[1 + ((k - 1) \div n)]),
                            Program.wts[1 + ((k - 1) % n)])>>, << >>, FALSE), << >>)

JobsOf(contracts) == [k \in 1..(Len(contracts) * Len(Program.wts)) |-> JobAt(contracts, k)]

AreContracts(contracts) ==
  IsSeq(contracts) /\ \A i \in DOMAIN contracts : IsPart("Contract", contracts[i])

(* Contract details have a contract.                                       *)
LEMMA SummaryIs ==
  ASSUME NEW v, IsStruct("ContractDetails", v)
  PROVE  IsPart("Contract", v.parts.summary[1]) /\ "summary" \in DOMAIN v.parts
         /\ 1 \in DOMAIN v.parts.summary
<1>1. Schema["ContractDetails"].values = {"summary"}
  BY DEF Schema, Struct
<1>2. "summary" \in DOMAIN v.parts /\ IsSeq(v.parts["summary"]) /\ Len(v.parts["summary"]) = 1
  BY <1>1 DEF IsStruct, HasParts
<1>3. 1 \in DOMAIN v.parts["summary"]
  BY <1>2, SeqDomain
<1>4. IsPart(PartType["summary"], v.parts["summary"][1])
  BY <1>2, <1>3 DEF IsStruct
<1>5. QED
  BY <1>2, <1>3, <1>4, PartTypes

(* The contracts of a packet are contracts.                                *)
LEMMA ContractsAre ==
  ASSUME NEW p, IsPacket(p), p.type = "contract_details"
  PROVE  AreContracts(ContractsIn(p)) /\ DOMAIN ContractsIn(p) = DOMAIN p.rows
         /\ Len(ContractsIn(p)) = Len(p.rows)
<1> DEFINE c == ContractsIn(p)
<1>1. IsSeq(p.rows)
  BY DEF IsPacket, AreRows
<1>2. Len(p.rows) \in Nat /\ DOMAIN p.rows = 1..Len(p.rows)
  BY <1>1, SeqDomain
<1>3. /\ c = [i \in 1..Len(p.rows) |-> c[i]]
      /\ \A i \in DOMAIN p.rows : c[i] = p.rows[i].value.parts.summary[1]
  BY <1>2 DEF ContractsIn
<1>4. ASSUME NEW i \in DOMAIN p.rows PROVE IsPart("Contract", c[i])
  <2>1. p.rows[i].name = "ContractDetails"
    BY RowTypes DEF IsPacket, AreRows
  <2>2. IsStruct(RowStruct[p.rows[i].name], p.rows[i].value)
    BY DEF IsPacket, AreRows
  <2>3. IsStruct("ContractDetails", p.rows[i].value)
    BY <2>1, <2>2, RowTypes
  <2>4. QED
    BY <1>3, <2>3, SummaryIs
<1> HIDE DEF c
<1>5. IsSeq(c) /\ DOMAIN c = 1..Len(p.rows) /\ Len(c) = Len(p.rows)
  BY <1>2, <1>3, SeqOfLength
<1>6. QED
  BY <1>2, <1>4, <1>5 DEF AreContracts, c

(* The first of something in a sequence.                                   *)
LEMMA FirstOf ==
  ASSUME NEW n \in Nat, NEW I \in SUBSET (1..n)
  PROVE  LET first == IF I # {} THEN Min(I) ELSE 0
         IN  /\ first \in 0..n /\ (first = 0 <=> I = {}) /\ (first # 0 => first \in I)
             /\ \A i \in 1..(first - 1) : i \notin I
<1>1. CASE I = {}
  BY <1>1
<1>2. CASE I # {}
  <2>1. I \in SUBSET Nat
    OBVIOUS
  <2>2. \E x \in I : \A y \in I : x <= y
    BY <1>2, <2>1, LeastNumber
  <2> DEFINE m == Min(I)
  <2>3. m \in I /\ \A y \in I : m <= y
    BY <2>2 DEF Min
  <2> HIDE DEF m
  <2>4. m \in 1..n
    BY <2>3
  <2>5. \A i \in 1..(m - 1) : i \notin I
    BY <2>3, <2>4
  <2>6. (IF I # {} THEN Min(I) ELSE 0) = m
    BY <1>2 DEF m
  <2>7. QED
    BY <1>2, <2>3, <2>4, <2>5, <2>6
<1>3. QED
  BY <1>1, <1>2

(* gen_hist_job() writes the jobs for all contracts, or up to one whose    *)
(* expiry is no date.                                                      *)
LEMMA GenHistJobIs ==
  ASSUME NEW p, IsPacket(p), p.type = "contract_details", GenHistJob(p)
  PROVE  /\ todo' = todo
         /\ \E good : /\ AreContracts(good)
                      /\ out' = out \o JobsOf(Kept(good, MinBeginDate(Program.end, Duration)))
                      /\ \/ /\ pc' = pc /\ good = ContractsIn(p)
                            /\ \A i \in DOMAIN good : ~NoDate(Expiry(good[i]))
                         \/ /\ pc' = "aborted"
                            /\ \E i \in DOMAIN p.rows :
                                 NoDate(Expiry(p.rows[i].value.parts.summary[1]))
<1> DEFINE all == ContractsIn(p)
           I == {i \in 1..Len(all) : NoDate(Expiry(all[i]))}
           first == IF I # {} THEN Min(I) ELSE 0
           good == IF first = 0 THEN all ELSE SubSeq(all, 1, first - 1)
<1>1. /\ todo' = todo /\ pc' = IF first = 0 THEN pc ELSE "aborted"
      /\ out' = out \o JobsOf(Kept(good, MinBeginDate(Program.end, Duration)))
  BY DEF GenHistJob, JobsOf, JobAt, ContractsIn, SelectInSeq
<1>2. AreContracts(all) /\ DOMAIN all = DOMAIN p.rows
  BY ContractsAre
<1>3. Len(all) \in Nat /\ DOMAIN all = 1..Len(all) /\ IsSeq(all)
  BY <1>2, SeqDomain DEF AreContracts
<1>4. \A i \in DOMAIN p.rows : all[i] = p.rows[i].value.parts.summary[1]
  BY DEF ContractsIn
<1> HIDE DEF all
<1>5. I \in SUBSET (1..Len(all))
  OBVIOUS
<1>6. \A i \in 1..Len(all) : i \in I <=> NoDate(Expiry(all[i]))
  OBVIOUS
<1> HIDE DEF I
<1>7. /\ first \in 0..Len(all) /\ (first = 0 <=> I = {}) /\ (first # 0 => first \in I)
      /\ \A i \in 1..(first - 1) : i \notin I
  BY <1>3, <1>5, FirstOf
<1> HIDE DEF first
<1>8. AreContracts(good)
  <2>1. CASE first = 0
    BY <1>2, <2>1
  <2>2. CASE first # 0
    <3>1. first - 1 \in 0..Len(all)
      BY <1>3, <1>7, <2>2
    <3>2. /\ IsSeq(SubSeq(all, 1, first - 1)) /\ DOMAIN SubSeq(all, 1, first - 1) = 1..(first - 1)
          /\ \A i \in 1..(first - 1) : i \in DOMAIN all /\ SubSeq(all, 1, first - 1)[i] = all[i]
      BY <1>3, <3>1, SeqFront
    <3>3. QED
      BY <1>2, <2>2, <3>2 DEF AreContracts
  <2>3. QED
    BY <2>1, <2>2
<1>9. CASE first = 0
  <2>1. pc' = pc /\ good = all /\ \A i \in DOMAIN all : ~NoDate(Expiry(all[i]))
    BY <1>1, <1>3, <1>6, <1>7, <1>9
  <2> HIDE DEF good
  <2>2. QED
    BY <1>1, <1>8, <2>1 DEF all
<1>10. CASE first # 0
  <2>1. pc' = "aborted" /\ first \in DOMAIN p.rows /\ NoDate(Expiry(all[first]))
    BY <1>1, <1>2, <1>3, <1>5, <1>6, <1>7, <1>10
  <2> HIDE DEF good
  <2>2. QED
    BY <1>1, <1>4, <1>8, <2>1
<1>11. QED
  BY <1>9, <1>10

(* Jobs are documents that can be read.                                    *)
LEMMA JobsAreItems ==
  ASSUME NEW contracts, AreContracts(contracts), Program.prog = "histjob",
         IsProgram(Program)
  PROVE  AreItems(JobsOf(contracts)) /\ DOMAIN JobsOf(contracts) = 1..(Len(contracts) * Len(Program.wts))
         /\ Len(JobsOf(contracts)) = Len(contracts) * Len(Program.wts)
<1> DEFINE n == Len(Program.wts)
           m == Len(contracts)
           jobs == JobsOf(contracts)
<1>1. m \in Nat /\ n \in Nat /\ DOMAIN contracts = 1..m
  BY SeqDomain DEF AreContracts, IsProgram
<1> HIDE DEF m, n
<1>2. m * n \in Nat
  BY <1>1
<1>3. jobs = [k \in 1..(m * n) |-> JobAt(contracts, k)]
  BY DEF JobsOf, m, n
<1>4. ASSUME NEW k \in 1..(m * n) PROVE IsItem(JobAt(contracts, k))
  <2> DEFINE i == 1 + ((k - 1) \div n)
             c == contracts[i]
             wts == Program.wts[1 + ((k - 1) % n)]
             job == Job(JobContract(c), wts)
             p == Packet("historical_data", <<job>>, << >>, FALSE)
  <2>1. i \in 1..m
    BY <1>1, JobNumber
  <2>2. IsPart("Contract", c)
    BY <1>1, <2>1 DEF AreContracts
  <2>3. JobAt(contracts, k) = Document(p, << >>)
    BY DEF JobAt, n
  <2> HIDE DEF c, wts
  <2>4. IsStruct("HistRequest", job)
    BY <2>2, JobStruct
  <2> HIDE DEF job
  <2>5. p.type = "historical_data" /\ p.query = <<job>> /\ p.rows = << >> /\ p.closed = FALSE
    BY DEF Packet
  <2> HIDE DEF p
  <2>6. IsPacket(p) /\ Len(p.query) = 1
    BY <2>4, <2>5, SeqShort, NoRows, QueryTypes DEF IsPacket
  <2>7. p.type \in WrittenTypes /\ Program.verbose \in BOOLEAN
    BY <2>5, QueryTypes DEF IsProgram
  <2>8. IsItem(Document(p, << >>))
    BY <2>6, <2>7, DocumentIsItem
  <2>9. QED
    BY <2>3, <2>8
<1> HIDE DEF jobs
<1>5. IsSeq(jobs) /\ DOMAIN jobs = 1..(m * n) /\ Len(jobs) = m * n
  BY <1>2, <1>3, SeqOfLength
<1>6. QED
  BY <1>3, <1>4, <1>5 DEF AreItems, jobs, m, n

(***************************************************************************)
(* twsgen -C.                                                              *)
(***************************************************************************)

(* Lines of text can stand in a file.                                      *)
LEMMA CsvLinesAre ==
  ASSUME NEW p, IsPacket(p)
  PROVE  AreItems(CsvLines(p).lines)
<1> DEFINE query == p.query[1].fields
           c == p.query[1].parts.reqContract[1]
           rows == Named(p.rows, "row")
           I == {i \in 1..Len(rows) : ~IsDate(rows[i].value.fields.date)}
           bad == IF NoDate(Expiry(c)) THEN 1 ELSE IF I # {} THEN Min(I) ELSE 0
           lines == [i \in DOMAIN rows |->
                       Line([bar |-> ShortBar(query.barSizeSetting),
                             wts |-> query.whatToShow, contract |-> c, row |-> rows[i].value])]
<1>1. CsvLines(p).lines = IF bad = 0 \/ rows = << >> THEN lines ELSE SubSeq(lines, 1, bad - 1)
  BY DEF CsvLines, SelectInSeq
<1>2. IsSeq(rows)
  BY NamedIs DEF IsPacket, AreRows
<1>3. Len(rows) \in Nat /\ DOMAIN rows = 1..Len(rows)
  BY <1>2, SeqDomain
<1>4. I \in SUBSET (1..Len(rows))
  OBVIOUS
<1>5. /\ lines = [i \in 1..Len(rows) |-> lines[i]]
      /\ \A i \in 1..Len(rows) : lines[i].kind = "text"
  BY <1>3 DEF Line
<1> HIDE DEF rows, I, lines
<1>6. rows # << >> => bad \in 0..Len(rows)
  <2>1. (IF I # {} THEN Min(I) ELSE 0) \in 0..Len(rows)
    BY <1>3, <1>4, FirstOf
  <2>2. rows # << >> => Len(rows) # 0
    BY <1>2, SeqEmpty
  <2>3. QED
    BY <1>3, <2>1, <2>2
<1> HIDE DEF bad
<1>7. IsSeq(lines) /\ Len(lines) = Len(rows) /\ DOMAIN lines = 1..Len(rows)
  BY <1>3, <1>5, SeqOfLength
<1>8. AreItems(lines)
  BY <1>5, <1>7 DEF AreItems, IsItem
<1>9. CASE bad = 0 \/ rows = << >>
  BY <1>1, <1>8, <1>9
<1>10. CASE ~(bad = 0 \/ rows = << >>)
  <2>1. bad - 1 \in 0..Len(lines)
    BY <1>3, <1>6, <1>7, <1>10
  <2>2. /\ IsSeq(SubSeq(lines, 1, bad - 1)) /\ DOMAIN SubSeq(lines, 1, bad - 1) = 1..(bad - 1)
        /\ \A i \in 1..(bad - 1) : i \in DOMAIN lines /\ SubSeq(lines, 1, bad - 1)[i] = lines[i]
    BY <1>7, <2>1, SeqFront
  <2>3. AreItems(SubSeq(lines, 1, bad - 1))
    BY <1>8, <2>2 DEF AreItems
  <2>4. QED
    BY <1>1, <1>10, <2>3
<1>11. QED
  BY <1>9, <1>10

(* What was written, and more.                                             *)
LEMMA ItemsConcat ==
  ASSUME NEW a, AreItems(a), NEW b, AreItems(b)
  PROVE  AreItems(a \o b)
<1>1. /\ IsSeq(a \o b)
      /\ \A i \in DOMAIN (a \o b) :
           \/ i \in DOMAIN a /\ (a \o b)[i] = a[i]
           \/ i - Len(a) \in DOMAIN b /\ (a \o b)[i] = b[i - Len(a)]
  BY SeqConcat DEF AreItems
<1>2. QED
  BY <1>1 DEF AreItems

(* What was written, and one document more.                                *)
LEMMA ItemAdded ==
  ASSUME NEW a, AreItems(a), NEW item, IsItem(item)
  PROVE  AreItems(Append(a, item))
<1>1. /\ IsSeq(Append(a, item)) /\ Append(a, item)[Len(a) + 1] = item
      /\ \A i \in 1..Len(a) : Append(a, item)[i] = a[i]
      /\ \A i \in DOMAIN Append(a, item) : i \in DOMAIN a \/ i = Len(a) + 1
  BY SeqAppend DEF AreItems
<1>2. DOMAIN a = 1..Len(a)
  BY SeqDomain DEF AreItems
<1>3. QED
  BY <1>1, <1>2 DEF AreItems

(* The document in which a packet was found, and what it was made from.    *)
LEMMA OriginIs ==
  ASSUME FilesInv, NEW i \in DOMAIN packets
  PROVE  /\ parsed # << >> /\ Last(parsed) \in DOMAIN file.docs
         /\ IsItem(file.docs[Last(parsed)]) /\ file.docs[Last(parsed)].kind = "doc"
         /\ LET item == file.docs[Last(parsed)]
                p == item.packet[1]
            IN  item.packet # << >> =>
                  /\ DOMAIN item.packet = {1} /\ MadeFrom(item.doc, p)
                  /\ IsPacket(p) /\ Len(p.query) = 1 /\ p.type \in WrittenTypes
                  /\ ReadCopied(p, packets[i])
<1>1. parsed # << >>
  <2>1. SUFFICES ASSUME parsed = << >> PROVE FALSE
    OBVIOUS
  <2>2. packets = << >>
    BY <2>1 DEF FilesInv, OriginInv
  <2>3. QED
    BY <2>2
<1>2. IsSeq(parsed)
  BY DEF FilesInv, FileInv
<1>3. Len(parsed) \in DOMAIN parsed
  BY <1>1, <1>2, SeqEmpty
<1>4. Last(parsed) = parsed[Len(parsed)]
  BY DEF Last
<1>5. Last(parsed) \in DOMAIN file.docs /\ file.docs[Last(parsed)].kind = "doc"
  BY <1>3, <1>4 DEF FilesInv, FileInv
<1> DEFINE item == file.docs[Last(parsed)]
           p == item.packet[1]
<1>6. IsItem(item)
  BY <1>5 DEF FilesInv, GivenInv, IsFile
<1>7. ASSUME item.packet # << >>
      PROVE  /\ DOMAIN item.packet = {1} /\ MadeFrom(item.doc, p)
             /\ IsPacket(p) /\ Len(p.query) = 1 /\ p.type \in WrittenTypes
             /\ ReadCopied(p, packets[i])
  <2>1. DOMAIN item.packet = {1} /\ MadeFrom(item.doc, p)
    BY <1>5, <1>6, <1>7 DEF IsItem
  <2>2. PICK type \in ReadAs(item.doc.nodes[1]) : packets[i] = PacketOf(type, item.doc.nodes[1])
    BY <1>1, <1>7 DEF FilesInv, OriginInv
  <2>3. QED
    BY <2>1, <2>2 DEF MadeFrom
<1>8. QED
  BY <1>1, <1>5, <1>6, <1>7

(* gen_csv() writes lines, or a copy of what was read.                     *)
LEMMA GenCsvIs ==
  ASSUME FilesInv, NEW i \in DOMAIN packets, packets[i].type = "historical_data",
         packets[i].query # << >>, IsProgram(Program), GenCsv(packets[i])
  PROVE  AreItems(out') /\ todo' = todo /\ pc' \in {pc, "aborted"}
<1> DEFINE p == packets[i]
           item == file.docs[Last(parsed)]
<1>1. AreItems(out) /\ IsPacket(p)
  BY DEF FilesInv, WorkInv
<1>2. AreItems(CsvLines(p).lines)
  BY <1>1, CsvLinesAre
<1>3. IsItem(Document(p, item.packet))
  <2>1. Len(p.query) = 1
    <3>1. IsSeq(p.query) /\ Len(p.query) <= 1
      BY <1>1 DEF IsPacket
    <3>2. Len(p.query) # 0 /\ Len(p.query) \in Nat
      BY <3>1, SeqEmpty, SeqDomain
    <3> DEFINE n == Len(p.query)
    <3>3. n \in Nat /\ n <= 1 /\ n # 0
      BY <3>1, <3>2
    <3> HIDE DEF n
    <3>4. n = 1
      BY <3>3
    <3>5. QED
      BY <3>4 DEF n
  <2>2. item.packet # << >> =>
          /\ DOMAIN item.packet = {1} /\ IsPacket(item.packet[1])
          /\ Len(item.packet[1].query) = 1 /\ ReadCopied(item.packet[1], p)
    BY OriginIs
  <2>3. p.type = "historical_data" /\ p.type \in WrittenTypes /\ Program.verbose \in BOOLEAN
    BY QueryTypes DEF IsProgram
  <2> DEFINE original == item.packet
  <2> HIDE DEF p, item, original
  <2>4. IsItem(Document(p, original))
    BY <1>1, <2>1, <2>2, <2>3, DocumentIsItem DEF original
  <2>5. QED
    BY <2>4 DEF original
<1>4. /\ todo' = todo /\ pc' \in {pc, "aborted"}
      /\ out' \in {out, out \o CsvLines(p).lines, Append(out, Document(p, item.packet))}
  BY DEF GenCsv
<1> HIDE DEF p, item
<1>5. AreItems(out')
  BY <1>1, <1>2, <1>3, <1>4, ItemsConcat, ItemAdded
<1>6. QED
  BY <1>4, <1>5

(* What is done with a packet leaves lists and output well.                *)
LEMMA HandleOut ==
  ASSUME FilesInv, HandlePacket
  PROVE  AreTodo(todo') /\ AreItems(out') /\ pc' \in {pc, "aborted"}
<1> DEFINE p == Head(packets)
<1>1. pc = "reading" /\ packets # << >>
  BY DEF HandlePacket
<1>2. IsProgram(Program)
  BY <1>1, ProgramIs DEF FilesInv, GivenInv
<1>3. 1 \in DOMAIN packets /\ p = packets[1]
  BY <1>1, SeqHeadTail DEF FilesInv, WorkInv
<1>4. /\ IsPacket(p) /\ AreTodo(todo) /\ AreItems(out)
      /\ Program.prog = "histjob" => p.type = "contract_details"
      /\ Program.prog \in {"csv", "noconv"} => p.type = "historical_data"
  BY <1>3 DEF FilesInv, WorkInv
<1>5. CASE Program.prog = "histjob" /\ GenHistJob(p)
  <2> HIDE DEF p
  <2> DEFINE begin == MinBeginDate(Program.end, Duration)
  <2>1. PICK good : /\ AreContracts(good) /\ out' = out \o JobsOf(Kept(good, begin))
                    /\ pc' \in {pc, "aborted"} /\ todo' = todo
    BY <1>4, <1>5, GenHistJobIs
  <2> HIDE DEF begin
  <2>2. AreContracts(Kept(good, begin))
    BY <2>1, KeptIs DEF AreContracts
  <2>3. AreItems(JobsOf(Kept(good, begin)))
    BY <1>2, <1>5, <2>2, JobsAreItems
  <2>4. QED
    BY <1>4, <2>1, <2>3, ItemsConcat
<1>6. CASE Program.prog = "twsdo" /\ p.query # << >> /\ AddRequest(p)
  <2> HIDE DEF p
  <2> DEFINE type == p.type
             list == Add(todo[type], type, p.query[1])
  <2>1. type \in Types /\ IsSeq(p.query) /\ \A i \in DOMAIN p.query : IsStruct(QueryStruct[type], p.query[i])
    BY <1>4 DEF IsPacket
  <2>2. 1 \in DOMAIN p.query
    BY <1>6, <2>1, SeqEmpty
  <2>3. IsStruct(QueryStruct[type], p.query[1])
    BY <2>1, <2>2
  <2>4. /\ IsSeq(todo[type])
        /\ \A i \in DOMAIN todo[type] : IsStruct(QueryStruct[type], todo[type][i])
    BY <1>4, <2>1 DEF AreTodo
  <2>5. todo' = [todo EXCEPT ![type] = list] /\ pc' = pc /\ out' = out
    BY <1>6 DEF AddRequest
  <2> HIDE DEF type
  <2>6. /\ IsSeq(list) /\ (type \in SimpleTypes => Len(list) <= 1)
        /\ \A i \in DOMAIN list : IsStruct(QueryStruct[type], list[i])
    BY <2>1, <2>3, <2>4, AddIs
  <2> HIDE DEF list
  <2>7. AreTodo([todo EXCEPT ![type] = list])
    BY <1>4, <2>1, <2>6, TodoChanged
  <2>8. QED
    BY <1>4, <2>5, <2>7
<1>7. CASE Program.prog \in {"csv", "noconv"} /\ p.query # << >> /\ GenCsv(p)
  <2>1. AreItems(out') /\ todo' = todo /\ pc' \in {pc, "aborted"}
    BY <1>2, <1>3, <1>4, <1>7, GenCsvIs
  <2>2. QED
    BY <1>4, <2>1
<1>8. CASE pc' = "aborted" /\ UNCHANGED <<todo, out>>
  BY <1>4, <1>8
<1>9. QED
  BY <1>5, <1>6, <1>7, <1>8 DEF HandlePacket

(* A packet is handled.                                                    *)
LEMMA HandleKeeps ==
  ASSUME FilesInv, HandlePacket
  PROVE  FilesInv'
<1>1. /\ pc = "reading" /\ packets # << >> /\ packets' = Tail(packets)
      /\ plan' = plan /\ tws' = tws /\ kills' = kills /\ file' = file /\ elements' = elements
      /\ stream' = stream /\ buf' = buf /\ bufSize' = bufSize /\ scanned' = scanned
      /\ parsed' = parsed /\ over' = over /\ whole' = whole
  BY DEF HandlePacket, given, streamVars
<1>2. AreTodo(todo') /\ AreItems(out') /\ pc' \in {pc, "aborted"}
  BY HandleOut
<1>3. GivenInv /\ WorkInv /\ FileInv /\ PcInv /\ OriginInv
  BY DEF FilesInv
<1>4. Program' = Program /\ BadOptions' = BadOptions
  BY <1>1 DEF Program, BadOptions
<1>5. GivenInv'
  BY <1>1, <1>3 DEF GivenInv
<1>6. /\ IsSeq(Tail(packets))
      /\ \A i \in DOMAIN Tail(packets) : i + 1 \in DOMAIN packets /\ Tail(packets)[i] = packets[i + 1]
  BY <1>1, <1>3, SeqHeadTail DEF WorkInv
<1>7. WorkInv'
  BY <1>1, <1>2, <1>3, <1>4, <1>6 DEF WorkInv
<1>8. FileInv'
  <2>1. ReaderInv'
    BY <1>1, <1>3 DEF FileInv, ReaderInv, BufferFits
  <2>2. QED
    BY <1>1, <1>2, <1>3, <2>1 DEF FileInv
<1>9. PcInv'
  BY <1>1, <1>2, <1>3, <1>4 DEF PcInv
<1>10. OriginInv'
  <2>1. parsed # << >>
    BY <1>1, <1>3 DEF OriginInv
  <2>2. QED
    BY <1>1, <1>3, <1>6, <2>1 DEF OriginInv
<1>11. QED
  BY <1>5, <1>7, <1>8, <1>9, <1>10 DEF FilesInv

(***************************************************************************)
(* twsdo.                                                                  *)
(***************************************************************************)

(* The types twsdo works off.                                              *)
LEMMA NextTypeIs ==
  NextType \in {"account", "executions", "open_orders", "contract_details", "opt_params",
                "historical_data", "place_order"}
<1> DEFINE types == <<"account", "executions", "open_orders", "contract_details",
                      "opt_params", "historical_data">>
           I == {i \in 1..Len(types) : todo[types[i]] # << >>}
           first == IF I # {} THEN Min(I) ELSE 0
<1>1. NextType = IF first = 0 THEN "place_order" ELSE types[first]
  BY DEF NextType, SelectInSeq
<1>2. Len(types) = 6 /\ \A i \in 1..6 : types[i] \in {"account", "executions", "open_orders",
                          "contract_details", "opt_params", "historical_data"}
  OBVIOUS
<1> HIDE DEF types
<1>3. I \in SUBSET (1..6)
  BY <1>2
<1> HIDE DEF I
<1>4. first \in 0..6
  BY <1>3, FirstOf
<1>5. QED
  BY <1>1, <1>2, <1>4

(* What twsdo writes of an answer can be read.                             *)
LEMMA DumpedAre ==
  ASSUME FilesInv, NEW type \in WrittenTypes \cup {"opt_params"}, NEW query,
         IsStruct(QueryStruct[type], query), IsProgram(Program)
  PROVE  AreItems(Dumped(type, query))
<1>1. IsTws(tws) /\ AreItems(out)
  BY DEF FilesInv, GivenInv, WorkInv
<1>2. CASE type = "opt_params"
  <2> DEFINE lines == [i \in DOMAIN tws.opt_params |-> Line(tws.opt_params[i])]
  <2>1. Dumped(type, query) = lines
    BY <1>2 DEF Dumped
  <2>2. Len(tws.opt_params) \in Nat /\ DOMAIN tws.opt_params = 1..Len(tws.opt_params)
    BY <1>1, SeqDomain DEF IsTws
  <2>3. /\ lines = [i \in 1..Len(tws.opt_params) |-> lines[i]]
        /\ \A i \in 1..Len(tws.opt_params) : lines[i].kind = "text"
    BY <2>2 DEF Line
  <2> HIDE DEF lines
  <2>4. IsSeq(lines) /\ DOMAIN lines = 1..Len(tws.opt_params)
    BY <2>2, <2>3, SeqOfLength
  <2>5. QED
    BY <2>1, <2>3, <2>4 DEF AreItems, IsItem
<1>3. CASE type # "opt_params"
  <2> DEFINE sent == Sent(type, query)
             rows == tws[type]
             p == Answered(type, sent, rows)
  <2>1. type \in WrittenTypes /\ Len(out) \in Nat
    BY <1>1, <1>3, SeqDomain DEF AreItems
  <2>2. IsStruct(QueryStruct[type], sent)
    BY <2>1, SentStruct
  <2>3. AreRows(type, rows) /\ (type = "historical_data" => rows # << >>)
    BY <1>1, <2>1 DEF IsTws
  <2>4. Dumped(type, query) = <<Document(p, << >>)>>
    BY <1>3 DEF Dumped
  <2> HIDE DEF sent, rows
  <2>5. p.type = type /\ p.query = <<sent>> /\ p.rows = rows /\ p.closed = TRUE
    BY DEF Answered, Packet
  <2> HIDE DEF p
  <2>6. IsPacket(p) /\ Len(p.query) = 1
    BY <2>1, <2>2, <2>3, <2>5, SeqShort DEF IsPacket, WrittenTypes
  <2>7. IsItem(Document(p, << >>))
    BY <2>1, <2>5, <2>6, DocumentIsItem DEF IsProgram
  <2>8. QED
    BY <2>4, <2>7, SeqShort DEF AreItems
<1>4. QED
  BY <1>2, <1>3

(* A request is answered.                                                  *)
LEMMA AnswerKeeps ==
  ASSUME FilesInv, NEW type \in Types, NEW i \in DOMAIN todo[type], Answer(type, i)
  PROVE  FilesInv'
<1>1. /\ pc = "answering" /\ type = NextType
      /\ out' \in {out, out \o Dumped(type, todo[type][i])}
      /\ todo' = [todo EXCEPT ![type] = RemoveAt(@, i)]
      /\ plan' = plan /\ tws' = tws /\ kills' = kills /\ file' = file
      /\ pc' = pc /\ elements' = elements /\ packets' = packets
      /\ stream' = stream /\ buf' = buf /\ bufSize' = bufSize /\ scanned' = scanned
      /\ parsed' = parsed /\ over' = over /\ whole' = whole
  BY DEF Answer, given, reader, streamVars
<1>2. GivenInv /\ WorkInv /\ FileInv /\ PcInv /\ OriginInv /\ IsProgram(Program)
  BY <1>1, ProgramIs DEF FilesInv, GivenInv
<1>3. Program' = Program /\ BadOptions' = BadOptions
  BY <1>1 DEF Program, BadOptions
<1>4. type \in WrittenTypes \cup {"opt_params"}
  BY <1>1, NextTypeIs, QueryTypes
<1>5. AreTodo(todo) /\ AreItems(out)
  BY <1>2 DEF WorkInv
<1>6. /\ IsSeq(todo[type]) /\ (type \in SimpleTypes => Len(todo[type]) <= 1)
      /\ \A k \in DOMAIN todo[type] : IsStruct(QueryStruct[type], todo[type][k])
  BY <1>5 DEF AreTodo
<1>7. AreItems(out')
  <2>1. AreItems(Dumped(type, todo[type][i]))
    BY <1>2, <1>4, <1>6, DumpedAre
  <2>2. QED
    BY <1>1, <1>5, <2>1, ItemsConcat
<1>8. AreTodo(todo')
  <2> DEFINE old == todo[type]
             list == RemoveAt(old, i)
  <2>1. todo' = [todo EXCEPT ![type] = list]
    BY <1>1
  <2> HIDE DEF old
  <2>2. /\ IsSeq(list) /\ Len(list) = Len(old) - 1
        /\ \A k \in DOMAIN list : \E j \in DOMAIN old : list[k] = old[j]
    BY <1>6, SeqRemove DEF old
  <2>3. Len(old) \in Nat
    BY <1>6, SeqDomain DEF old
  <2> HIDE DEF list
  <2>4. type \in SimpleTypes => Len(list) <= 1
    BY <1>6, <2>2, <2>3 DEF old
  <2>5. \A k \in DOMAIN list : IsStruct(QueryStruct[type], list[k])
    BY <1>6, <2>2 DEF old
  <2>6. AreTodo([todo EXCEPT ![type] = list])
    BY <1>5, <2>2, <2>4, <2>5, TodoChanged
  <2>7. QED
    BY <2>1, <2>6
<1>9. GivenInv'
  BY <1>1, <1>2 DEF GivenInv
<1>10. WorkInv'
  BY <1>1, <1>2, <1>3, <1>7, <1>8 DEF WorkInv
<1>11. FileInv'
  <2>1. ReaderInv'
    BY <1>1, <1>2 DEF FileInv, ReaderInv, BufferFits
  <2>2. QED
    BY <1>1, <1>2, <2>1 DEF FileInv
<1>12. PcInv'
  BY <1>1, <1>2, <1>3 DEF PcInv
<1>13. OriginInv'
  BY <1>1, <1>2 DEF OriginInv
<1>14. QED
  BY <1>9, <1>10, <1>11, <1>12, <1>13 DEF FilesInv

(* twsdo has nothing left to do.                                           *)
LEMMA QuitKeeps ==
  ASSUME FilesInv, Quit
  PROVE  FilesInv'
<1>1. /\ pc = "answering" /\ pc' = "ended"
      /\ plan' = plan /\ tws' = tws /\ kills' = kills /\ file' = file
      /\ elements' = elements /\ packets' = packets /\ todo' = todo /\ out' = out
      /\ stream' = stream /\ buf' = buf /\ bufSize' = bufSize /\ scanned' = scanned
      /\ parsed' = parsed /\ over' = over /\ whole' = whole
  BY DEF Quit, given, reader, streamVars
<1>2. GivenInv /\ WorkInv /\ FileInv /\ PcInv /\ OriginInv
  BY DEF FilesInv
<1>3. Program' = Program /\ BadOptions' = BadOptions
  BY <1>1 DEF Program, BadOptions
<1>4. GivenInv'
  BY <1>1, <1>2 DEF GivenInv
<1>5. WorkInv'
  BY <1>1, <1>2, <1>3 DEF WorkInv
<1>6. FileInv'
  <2>1. ReaderInv'
    BY <1>1, <1>2 DEF FileInv, ReaderInv, BufferFits
  <2>2. QED
    BY <1>1, <1>2, <2>1 DEF FileInv
<1>7. PcInv'
  BY <1>1, <1>2, <1>3 DEF PcInv
<1>8. OriginInv'
  BY <1>1, <1>2 DEF OriginInv
<1>9. QED
  BY <1>4, <1>5, <1>6, <1>7, <1>8 DEF FilesInv

(* The next program gets what was written.                                 *)
LEMMA ExitKeeps ==
  ASSUME FilesInv, pc # "idle", NEW output, IsFile(output), Exit(output), kills' \in Nat
  PROVE  FilesInv'
<1>1. /\ file' = output /\ plan' = Tail(plan) /\ pc' = "idle" /\ elements' = << >>
      /\ packets' = << >> /\ todo' = NoTodo /\ out' = << >> /\ OpenFile(<< >>, << >>)
      /\ tws' = tws
  BY DEF Exit
<1>2. GivenInv
  BY DEF FilesInv
<1>3. GivenInv'
  <2>1. plan # << >> /\ IsSeq(plan)
    BY <1>2 DEF GivenInv
  <2>2. /\ IsSeq(Tail(plan))
        /\ \A i \in DOMAIN Tail(plan) : i + 1 \in DOMAIN plan /\ Tail(plan)[i] = plan[i + 1]
    BY <2>1, SeqHeadTail
  <2>3. QED
    BY <1>1, <1>2, <2>2 DEF GivenInv
<1>4. WorkInv'
  BY <1>1, NoTodoIs, SeqShort DEF WorkInv, AreItems
<1>5. FileInv'
  <2>1. AreItems(output.docs)
    BY CellsOfFile
  <2>2. << >> \in Seq(FileCells(output.docs))
    OBVIOUS
  <2>3. /\ ReaderInv' /\ stream' \in Seq(FileCells(output.docs))
        /\ buf' \in Seq(FileCells(output.docs)) /\ parsed' = << >>
    BY <1>1, <2>1, <2>2, FileOpenedIs
  <2>4. QED
    BY <1>1, <2>3, SeqShort DEF FileInv
<1>6. parsed' = << >>
  BY <1>1 DEF OpenFile
<1>7. PcInv'
  BY <1>1, <1>6 DEF PcInv
<1>8. OriginInv'
  BY <1>1, <1>6 DEF OriginInv
<1>9. QED
  BY <1>3, <1>4, <1>5, <1>7, <1>8 DEF FilesInv

(* The next program gets what was flushed.                                 *)
LEMMA CutShortKeeps ==
  ASSUME FilesInv, pc # "idle", CutShort, kills' \in Nat
  PROVE  FilesInv'
<1>1. PICK n \in 0..Len(FileOf(out).cells) :
        Exit([docs |-> out, cells |-> SubSeq(FileOf(out).cells, 1, n)])
  BY DEF CutShort
<1>2. AreItems(out)
  BY DEF FilesInv, WorkInv
<1> DEFINE output == [docs |-> out, cells |-> SubSeq(FileOf(out).cells, 1, n)]
<1>3. IsFile(output)
  BY <1>2, FileOfIs
<1> HIDE DEF output
<1>4. Exit(output)
  BY <1>1 DEF output
<1>5. QED
  BY <1>3, <1>4, ExitKeeps

(* A program ends, aborts or is killed.                                    *)
LEMMA EndsKeep ==
  ASSUME FilesInv, End \/ Abort \/ Kill
  PROVE  FilesInv'
<1>1. kills \in Nat /\ AreItems(out)
  BY DEF FilesInv, GivenInv, WorkInv
<1>2. CASE End
  <2>1. pc # "idle" /\ Exit(FileOf(out)) /\ kills' \in Nat
    BY <1>1, <1>2 DEF End
  <2>2. IsFile(FileOf(out))
    BY <1>1, FileOfIs
  <2>3. QED
    BY <2>1, <2>2, ExitKeeps
<1>3. CASE Abort
  BY <1>1, <1>3, CutShortKeeps DEF Abort
<1>4. CASE Kill
  <2>1. pc # "idle" /\ CutShort /\ kills' \in Nat
    BY <1>1, <1>4 DEF Kill
  <2>2. QED
    BY <2>1, CutShortKeeps
<1>5. QED
  BY <1>2, <1>3, <1>4

(* Every step keeps it.                                                    *)
LEMMA FilesInvKept ==
  ASSUME FilesInv, [Next]_vars
  PROVE  FilesInv'
<1>1. CASE UNCHANGED vars
  <2>1. /\ plan' = plan /\ tws' = tws /\ kills' = kills /\ file' = file /\ pc' = pc
        /\ elements' = elements /\ packets' = packets /\ todo' = todo /\ out' = out
        /\ stream' = stream /\ buf' = buf /\ bufSize' = bufSize /\ scanned' = scanned
        /\ parsed' = parsed /\ over' = over /\ whole' = whole
    BY <1>1 DEF vars, streamVars
  <2>2. Program' = Program /\ BadOptions' = BadOptions
    BY <2>1 DEF Program, BadOptions
  <2>3. ReaderInv'
    BY <2>1 DEF FilesInv, FileInv, ReaderInv, BufferFits
  <2>4. GivenInv' /\ WorkInv'
    BY <2>1, <2>2 DEF FilesInv, GivenInv, WorkInv
  <2>5. FileInv' /\ PcInv' /\ OriginInv'
    BY <2>1, <2>2, <2>3 DEF FilesInv, FileInv, PcInv, OriginInv
  <2>6. QED
    BY <2>4, <2>5 DEF FilesInv
<1>2. CASE Start
  BY <1>2, StartKeeps
<1>3. CASE Read
  BY <1>3, ReadIsKept
<1>4. CASE NextRoot
  BY <1>4, NextRootKeeps
<1>5. CASE ReadElement
  BY <1>5, ReadElementKeeps
<1>6. CASE HandlePacket
  BY <1>6, HandleKeeps
<1>7. CASE Quit
  BY <1>7, QuitKeeps
<1>8. CASE End \/ Abort \/ Kill
  BY <1>8, EndsKeep
<1>9. CASE \E t \in Types : \E i \in DOMAIN todo[t] : Answer(t, i)
  BY <1>9, AnswerKeeps
<1>10. QED
  BY <1>1, <1>2, <1>3, <1>4, <1>5, <1>6, <1>7, <1>8, <1>9 DEF Next, Work

(* Whatever files and answers the programs are given.                      *)
THEOREM FilesInvHolds == Spec => []FilesInv
<1>1. Init => FilesInv
  BY InitFiles
<1>2. FilesInv /\ [Next]_vars => FilesInv'
  BY FilesInvKept
<1>3. QED
  BY <1>1, <1>2, PTL DEF Spec

(***************************************************************************)
(* TypeOK.                                                                 *)
(***************************************************************************)

(* TypeOK is a part of it.                                                 *)
LEMMA TypesMean ==
  ASSUME FilesInv
  PROVE  TypeOK
<1>1. pc \in {"idle", "reading", "answering", "ended", "aborted"}
  BY DEF FilesInv, PcInv
<1>2. \A t \in Types : /\ t \in SimpleTypes => Len(todo[t]) <= 1
                       /\ \A i \in DOMAIN todo[t] :
                            DOMAIN todo[t][i].fields = FieldsOf(QueryStruct[t])
  BY DEF FilesInv, WorkInv, AreTodo, IsStruct, HasFields
<1>3. \A i \in DOMAIN parsed : parsed[i] \in DOMAIN file.docs
  BY DEF FilesInv, FileInv
<1>4. scanned <= Len(buf) /\ kills \in Nat
  <2>1. scanned \in 0..Len(buf) /\ buf \in Seq(Cell)
    BY DEF FilesInv, FileInv, ReaderInv
  <2>2. Len(buf) \in Nat
    BY <2>1
  <2>3. QED
    BY <2>1, <2>2 DEF FilesInv, GivenInv
<1>5. pc = "reading" => whole.cells = file.cells /\ ~over
  BY DEF FilesInv, FileInv
<1>6. pc \in {"answering", "ended"} /\ ~BadOptions => over
  BY DEF FilesInv, PcInv
<1>7. QED
  BY <1>1, <1>2, <1>3, <1>4, <1>5, <1>6 DEF TypeOK

(* The lists hold requests of their kind, at most one of a simple one.     *)
THEOREM FilesTyped == Spec => []TypeOK
<1>1. FilesInv => TypeOK
  BY TypesMean
<1>2. QED
  BY <1>1, FilesInvHolds, PTL

(***************************************************************************)
(* The reader of the pipeline is a reader.                                 *)
(***************************************************************************)

(* A step of a program is a step of its reader, or leaves it alone.        *)
LEMMA StepReads ==
  ASSUME FilesInv, [Next]_vars
  PROVE  [ReaderNext]_streamVars
<1> DEFINE Opened2 == \E cells \in Seq(Cell), sizes \in Seq(Nat) : OpenFile(cells, sizes)
<1>1. pc = "reading" => ~over
  BY DEF FilesInv, FileInv
<1>2. CASE Read \/ NextRoot
  <2>1. pc = "reading" /\ (ReadChunk \/ NextXmlDoc)
    BY <1>2 DEF Read, NextRoot, Between
  <2>2. QED
    BY <1>1, <2>1 DEF ReaderNext
<1>3. CASE Start
  <2>1. OpenFile(file.cells, Sizes(file.docs))
    BY <1>3 DEF Start
  <2>2. AreItems(file.docs) /\ file.cells \in Seq(FileCells(file.docs))
    BY CellsOfFile DEF FilesInv, GivenInv
  <2>3. Sizes(file.docs) \in Seq(Nat)
    BY <2>2, SizesTyped
  <2>4. file.cells \in Seq(Cell)
    BY <2>2 DEF FileCells
  <2>5. Opened2
    BY <2>1, <2>3, <2>4
  <2>6. QED
    BY <2>5 DEF ReaderNext
<1>4. CASE End \/ Abort \/ Kill
  <2>1. OpenFile(<< >>, << >>)
    BY <1>4 DEF End, Abort, Kill, CutShort, Exit
  <2>2. << >> \in Seq(Cell) /\ << >> \in Seq(Nat)
    OBVIOUS
  <2>3. Opened2
    BY <2>1, <2>2
  <2>4. QED
    BY <2>3 DEF ReaderNext
<1>5. CASE ReadElement \/ HandlePacket \/ Quit
           \/ \E t \in Types : \E i \in DOMAIN todo[t] : Answer(t, i)
  <2>1. UNCHANGED streamVars
    BY <1>5 DEF ReadElement, HandlePacket, Quit, Answer, reader
  <2>2. QED
    BY <2>1
<1>6. CASE UNCHANGED vars
  <2>1. UNCHANGED streamVars
    BY <1>6 DEF vars
  <2>2. QED
    BY <2>1
<1>7. QED
  BY <1>2, <1>3, <1>4, <1>5, <1>6 DEF Next, Work

(* The programs read their files by the steps of the reader: what is proved*)
(* of it holds of them.                                                    *)
THEOREM FilesAreRead == Spec => Reader
<1>1. Init => ReaderInit
  <2>1. << >> \in Seq(Cell) /\ << >> \in Seq(Nat)
    OBVIOUS
  <2>2. QED
    BY <2>1 DEF Init, ReaderInit
<1>2. FilesInv /\ [Next]_vars => [ReaderNext]_streamVars
  BY StepReads
<1>3. QED
  BY <1>1, <1>2, FilesInvHolds, PTL DEF Spec, Reader

(* Whatever the programs read: the buffer holds it, the texts are those of *)
(* the file, and all that can be read is.                                  *)
THEOREM FilesReadWell == Spec => []BufferFits /\ TextsInOrder /\ []ReadsUpToFirstBad
BY FilesAreRead, BufferHolds, TextsHold, ReadsAllItCan

(* What twsgen -H takes for the first day is a business day, as many       *)
(* business days before the end as the duration has days.                  *)
THEOREM JobsBeginWell == Spec => []BeginsOnBusinessDay
<1>1. BeginsOnBusinessDay
  BY EveryJobBeginsWell DEF BeginsOnBusinessDay
<1>2. QED
  BY <1>1, PTL
=============================================================================
