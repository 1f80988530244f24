---------------------------- MODULE FilesResults ----------------------------
(***************************************************************************)
(* What the programs make of each other's files, from the invariant of     *)
(* FilesProofs: nothing of a packet is lost, a program aborts only on what *)
(* was not written for it, and twsgen -H makes the jobs for all contracts. *)
(***************************************************************************)
EXTENDS FilesProofs

(***************************************************************************)
(* A copy is what is asked of one.                                         *)
(***************************************************************************)

(* A field that was copied is the same to the eye of SameField().          *)
LEMMA FieldIsSame ==
  ASSUME NEW t \in Known, NEW f \in FieldsOf(t), NEW a, KindOf(t, f) \in Numbers => a \in Int,
         NEW b \in {a, Again(t, f, a)}
  PROVE  SameField(Schema[t].reads[f], a, b)
<1> DEFINE w == Schema[t].writes[f]
           r == Schema[t].reads[f]
<1>1. KindOf(t, f) = w /\ (w = r \/ (w = "LONGLONG" /\ r = "INT"))
  BY KnownFields
<1>2. Again(t, f, a) = Parse(r, Text(w, a))
  BY DEF Again
<1> HIDE DEF w, r
<1>3. CASE r = "DOUBLE"
  <2>1. a \in Int
    BY <1>1, <1>3 DEF Numbers
  <2>2. b \in {a, Printed(a)}
    BY <1>1, <1>2, <1>3 DEF Parse, Text
  <2>3. CASE a = MaxDouble
    <3>1. Printed(a) = Infinity
      BY <2>3 DEF Printed, Rounded, MaxDouble, Infinity
    <3>2. QED
      BY <1>3, <2>2, <2>3, <3>1 DEF SameField, r
  <2>4. CASE a # MaxDouble
    <3>1. b - a \in -5..5 /\ (a \in -99..99 => b = a)
      BY <2>1, <2>2, DoublePrints
    <3>2. QED
      BY <1>3, <2>4, <3>1 DEF SameField, r
  <2>5. QED
    BY <2>3, <2>4
<1>4. CASE r = "INT"
  <2>1. a \in Int
    BY <1>1, <1>4 DEF Numbers
  <2>2. b \in {a, Wrapped(a)}
    BY <1>1, <1>2, <1>4 DEF Parse, Text
  <2>3. a \in -IntLimit..(IntLimit - 1) => b = a
    BY <2>1, <2>2, IntWraps
  <2>4. QED
    BY <1>4, <2>3 DEF SameField, r
<1>5. CASE r \notin {"DOUBLE", "INT"}
  <2>1. b = a
    BY <1>1, <1>2, <1>5 DEF Parse, Text
  <2>2. QED
    BY <1>5, <2>1 DEF SameField, r
<1>6. QED
  BY <1>3, <1>4, <1>5

(* And so are all fields,                                                  *)
LEMMA FieldsAreSame ==
  ASSUME NEW t \in Known, NEW a, HasFields(t, a), NEW b, HasFields(t, b), FieldsCopied(t, a, b)
  PROVE  SameFields(t, a, b)
<1>1. /\ DOMAIN a.fields = FieldsOf(t) /\ DOMAIN b.fields = FieldsOf(t)
      /\ \A f \in FieldsOf(t) : KindOf(t, f) \in Numbers => a.fields[f] \in Int
  BY DEF HasFields
<1>2. \A f \in FieldsOf(t) : b.fields[f] \in {a.fields[f], Again(t, f, a.fields[f])}
  BY DEF FieldsCopied
<1>3. \A f \in FieldsOf(t) : SameField(Schema[t].reads[f], a.fields[f], b.fields[f])
  BY <1>1, <1>2, FieldIsSame
<1>4. QED
  BY <1>1, <1>3 DEF SameFields

(* a part with its parts,                                                  *)
LEMMA PartIsSame ==
  ASSUME NEW t \in Inner, NEW a, IsPart(t, a), NEW b, IsPart(t, b), PartCopied(t, a, b)
  PROVE  SamePart(t, a, b)
<1>1. SameFields(t, a, b)
  BY FieldsAreSame DEF IsPart, PartCopied, Known
<1>2. /\ DOMAIN a.parts = DOMAIN b.parts
      /\ \A p \in DOMAIN a.parts :
           /\ Len(a.parts[p]) = Len(b.parts[p]) /\ DOMAIN a.parts[p] = DOMAIN b.parts[p]
           /\ \A i \in DOMAIN a.parts[p] :
                FieldsCopied(PartType[p], a.parts[p][i], b.parts[p][i])
  BY DEF PartCopied, Shape
<1>3. ASSUME NEW p \in DOMAIN a.parts, NEW i \in DOMAIN a.parts[p]
      PROVE  SameFields(PartType[p], a.parts[p][i], b.parts[p][i])
  <2>1. PartType[p] \in Leaves
    BY InnerSchema DEF IsPart, HasParts
  <2>2. IsLeaf(PartType[p], a.parts[p][i]) /\ IsLeaf(PartType[p], b.parts[p][i])
    BY <1>2 DEF IsPart
  <2>3. FieldsCopied(PartType[p], a.parts[p][i], b.parts[p][i])
    BY <1>2
  <2>4. QED
    BY <2>1, <2>2, <2>3, FieldsAreSame DEF IsLeaf, Known
<1>4. QED
  BY <1>1, <1>2, <1>3 DEF SamePart

(* a struct with all of it,                                                *)
LEMMA StructIsSame ==
  ASSUME NEW t \in Outer, NEW a, IsStruct(t, a), NEW b, IsStruct(t, b), StructCopied(t, a, b)
  PROVE  SameValue(t, a, b)
<1>1. SameFields(t, a, b)
  BY FieldsAreSame DEF IsStruct, StructCopied, Known
<1>2. /\ DOMAIN a.parts = DOMAIN b.parts
      /\ \A p \in DOMAIN a.parts :
           /\ Len(a.parts[p]) = Len(b.parts[p]) /\ DOMAIN a.parts[p] = DOMAIN b.parts[p]
           /\ \A i \in DOMAIN a.parts[p] :
                PartCopied(PartType[p], a.parts[p][i], b.parts[p][i])
  BY DEF StructCopied, Shape
<1>3. ASSUME NEW p \in DOMAIN a.parts, NEW i \in DOMAIN a.parts[p]
      PROVE  SamePart(PartType[p], a.parts[p][i], b.parts[p][i])
  <2>1. PartType[p] \in Inner
    BY OuterSchema DEF IsStruct, HasParts
  <2>2. IsPart(PartType[p], a.parts[p][i]) /\ IsPart(PartType[p], b.parts[p][i])
    BY <1>2 DEF IsStruct
  <2>3. PartCopied(PartType[p], a.parts[p][i], b.parts[p][i])
    BY <1>2
  <2>4. QED
    BY <2>1, <2>2, <2>3, PartIsSame
<1>4. QED
  BY <1>1, <1>2, <1>3 DEF SameValue

(* and all rows.                                                           *)
LEMMA RowsAreSame ==
  ASSUME NEW type \in RowsAgain, NEW a, AreRows(type, a), NEW b, AreRows(type, b), RowsCopied(a, b)
  PROVE  SameRows(a, b)
<1>1. Len(a) = Len(b) /\ DOMAIN a = DOMAIN b
  <2>1. IsSeq(a) /\ IsSeq(b) /\ Len(a) = Len(b)
    BY DEF AreRows, RowsCopied
  <2>2. DOMAIN a = 1..Len(a) /\ DOMAIN b = 1..Len(b)
    BY <2>1, SeqDomain
  <2>3. QED
    BY <2>1, <2>2
<1>2. ASSUME NEW i \in DOMAIN a
      PROVE  a[i].name = b[i].name /\ SameValue(RowStruct[a[i].name], a[i].value, b[i].value)
  <2> DEFINE t == RowStruct[a[i].name]
  <2>1. a[i].name = b[i].name /\ StructCopied(t, a[i].value, b[i].value)
    BY DEF RowsCopied
  <2>2. a[i].name \in RowNames[type] /\ IsStruct(t, a[i].value)
    BY DEF AreRows
  <2>3. IsStruct(t, b[i].value)
    BY <1>1, <2>1 DEF AreRows
  <2>4. t \in Outer
    BY <2>2, RowTypes
  <2> HIDE DEF t
  <2>5. SameValue(t, a[i].value, b[i].value)
    BY <2>1, <2>2, <2>3, <2>4, StructIsSame
  <2>6. QED
    BY <2>1, <2>5 DEF t
<1>3. QED
  BY <1>1, <1>2 DEF SameRows

(* The request of a packet has the struct of its type.                     *)
LEMMA PacketIs ==
  ASSUME NEW p, IsPacket(p), p.query # << >>
  PROVE  Len(p.query) = 1 /\ 1 \in DOMAIN p.query /\ IsStruct(QueryStruct[p.type], p.query[1])
<1>1. IsSeq(p.query) /\ Len(p.query) <= 1
  BY DEF IsPacket
<1> DEFINE n == Len(p.query)
<1>2. n \in Nat /\ DOMAIN p.query = 1..n /\ n # 0 /\ n <= 1
  BY <1>1, SeqEmpty, SeqDomain
<1>3. 1 \in DOMAIN p.query
  BY <1>1, SeqEmpty
<1> HIDE DEF n
<1>4. n = 1
  BY <1>2
<1>5. QED
  BY <1>3, <1>4 DEF IsPacket, n

(* A packet at hand is the one its document was made from, when it is of   *)
(* the same type.                                                          *)
LEMMA PacketIsSame ==
  ASSUME FilesInv, NEW i \in DOMAIN packets, file.docs[Last(parsed)].packet # << >>,
         NEW p, p = file.docs[Last(parsed)].packet[1], p.type = packets[i].type
  PROVE  /\ SameValue(QueryStruct[p.type], p.query[1], packets[i].query[1])
         /\ p.type \in RowsAgain => SameRows(p.rows, packets[i].rows)
<1> DEFINE q == packets[i]
           item == file.docs[Last(parsed)]
<1>1. IsPacket(p) /\ Len(p.query) = 1 /\ p.type \in WrittenTypes /\ ReadCopied(p, q) /\ parsed # << >>
  BY OriginIs
<1>2. IsPacket(q)
  BY DEF FilesInv, WorkInv
<1>3. PICK type \in ReadAs(item.doc.nodes[1]) : q = PacketOf(type, item.doc.nodes[1])
  BY <1>1 DEF FilesInv, OriginInv
<1>4. q.type = type
  <2> DEFINE node == item.doc.nodes[1]
  <2> HIDE DEF node
  <2>1. PacketOf(type, node).type = type
    BY PacketOfKinds
  <2>2. QED
    BY <1>3, <2>1 DEF node
<1> HIDE DEF q, item
<1>5. p.type = q.type
  BY DEF q
<1>6. QueryStruct[p.type] \in Outer
  <2>1. p.type \in {"contract_details", "historical_data", "place_order"}
    BY <1>1, <1>3, <1>4, <1>5, QueryTypes DEF ReadAs, RowsAgain, SimpleTypes
  <2>2. QED
    BY <2>1, QueryTypes DEF Outer
<1>7. /\ q.query # << >> /\ StructCopied(QueryStruct[p.type], p.query[1], q.query[1])
      /\ p.type \in RowsAgain => RowsCopied(p.rows, q.rows)
  BY <1>1, <1>5 DEF ReadCopied
<1>8. p.query # << >>
  <2>1. SUFFICES ASSUME p.query = << >> PROVE FALSE
    OBVIOUS
  <2>2. Len(<< >>) = 0
    OBVIOUS
  <2>3. QED
    BY <1>1, <2>1, <2>2
<1>9. IsStruct(QueryStruct[p.type], p.query[1]) /\ IsStruct(QueryStruct[p.type], q.query[1])
  BY <1>1, <1>2, <1>5, <1>7, <1>8, PacketIs
<1>10. SameValue(QueryStruct[p.type], p.query[1], q.query[1])
  BY <1>6, <1>7, <1>9, StructIsSame
<1>11. p.type \in RowsAgain => SameRows(p.rows, q.rows)
  <2>1. AreRows(p.type, p.rows) /\ AreRows(p.type, q.rows)
    BY <1>1, <1>2, <1>5 DEF IsPacket
  <2>2. QED
    BY <1>7, <2>1, RowsAreSame
<1>12. QED
  BY <1>10, <1>11 DEF q

(* "Without any loss of information": what a program reads of a document is*)
(* what the other wrote, for every packet, with -x and without, however    *)
(* often it was copied.                                                    *)
THEOREM NothingLost == Spec => []Lossless
<1>1. ASSUME FilesInv PROVE Lossless
  <2>1. SUFFICES ASSUME NEW i \in DOMAIN packets,
                        NEW j \in DOMAIN file.docs[Last(parsed)].packet,
                        file.docs[Last(parsed)].packet[j].type = packets[i].type
                 PROVE  LET p == file.docs[Last(parsed)].packet[j]
                        IN  /\ SameValue(QueryStruct[p.type], p.query[1], packets[i].query[1])
                            /\ p.type \in RowsAgain => SameRows(p.rows, packets[i].rows)
    BY DEF Lossless
  <2> DEFINE original == file.docs[Last(parsed)].packet
  <2>2. original # << >>
    OBVIOUS
  <2>3. j = 1
    BY <1>1, <2>2, OriginIs
  <2>4. QED
    BY <1>1, <2>1, <2>2, <2>3, PacketIsSame
<1>2. QED
  BY <1>1, FilesInvHolds, PTL

(***************************************************************************)
(* The jobs.                                                               *)
(***************************************************************************)

(* The contracts in a document, as twsdo had them in memory.               *)
ContractsIn0(item) ==
  IF item.packet = << >> \/ item.packet[1].type # "contract_details" THEN << >>
  ELSE LET rows == item.packet[1].rows
       IN  [j \in DOMAIN rows |-> rows[j].value.parts.summary[1]]

CopiesOf(a, b) ==
  /\ AreContracts(a) /\ AreContracts(b) /\ Len(a) = Len(b)
  /\ \A i \in DOMAIN a : PartCopied("Contract", a[i], b[i])

(* Fields of a contract that twsgen looks at.                              *)
LEMMA ContractFields ==
  /\ {"expiry", "secType", "includeExpired"} \subseteq FieldsOf("Contract")
  /\ KindOf("Contract", "expiry") = "STRING" /\ KindOf("Contract", "secType") = "STRING"
  /\ KindOf("Contract", "includeExpired") = "BOOL"
<1>1. Schema["Contract"].writes = ContractWrites /\ Schema["Contract"].reads = ContractReads
  BY DEF Schema, Struct
<1>2. /\ {"expiry", "secType", "includeExpired"} \subseteq DOMAIN ContractWrites
      /\ ContractWrites["includeExpired"] = "BOOL" /\ ContractWrites["expiry"] = "STRING"
      /\ ContractWrites["secType"] = "STRING"
  BY DEF ContractWrites, Fields, ++
<1>3. QED
  BY <1>1, <1>2 DEF FieldsOf, AllFields, KindOf, Kind

(* A text is copied as it is.                                              *)
LEMMA TextsCopied ==
  ASSUME NEW a, NEW b, PartCopied("Contract", a, b)
  PROVE  /\ Expiry(b) = Expiry(a) /\ b.fields.secType = a.fields.secType
         /\ b.fields.includeExpired = a.fields.includeExpired
<1>1. "Contract" \in Known
  BY DEF Known, Inner
<1>2. ASSUME NEW f \in {"expiry", "secType", "includeExpired"}
      PROVE  b.fields[f] = a.fields[f]
  <2>1. f \in FieldsOf("Contract") /\ KindOf("Contract", f) \notin Numbers
    BY ContractFields DEF Numbers
  <2>2. Again("Contract", f, a.fields[f]) = a.fields[f]
    BY <1>1, <2>1, AgainAgain
  <2>3. b.fields[f] \in {a.fields[f], Again("Contract", f, a.fields[f])}
    BY <2>1 DEF PartCopied, FieldsCopied
  <2>4. QED
    BY <2>2, <2>3
<1>3. QED
  BY <1>2 DEF Expiry

(* The contract of a job is copied when the contract is.                   *)
LEMMA JobContractCopied ==
  ASSUME NEW a, IsPart("Contract", a), NEW b, IsPart("Contract", b), PartCopied("Contract", a, b)
  PROVE  PartCopied("Contract", JobContract(a), JobContract(b))
<1>1. CASE Program.exp = "keep"
  BY <1>1 DEF JobContract
<1>2. CASE Program.exp # "keep"
  <2> DEFINE x == IncludeExpired(Program.exp, a.fields.secType)
             v == [a EXCEPT !.fields.includeExpired = x]
             w == [b EXCEPT !.fields.includeExpired = x]
  <2>1. b.fields.secType = a.fields.secType
    BY TextsCopied
  <2>2. JobContract(a) = v /\ JobContract(b) = w
    BY <1>2, <2>1 DEF JobContract
  <2>3. /\ DOMAIN a = {"fields", "parts"} /\ DOMAIN a.fields = FieldsOf("Contract")
        /\ DOMAIN b = {"fields", "parts"} /\ DOMAIN b.fields = FieldsOf("Contract")
    BY DEF IsPart, HasFields
  <2> HIDE DEF x
  <2>4. /\ v.parts = a.parts /\ w.parts = b.parts
        /\ \A f \in FieldsOf("Contract") :
             /\ v.fields[f] = IF f = "includeExpired" THEN x ELSE a.fields[f]
             /\ w.fields[f] = IF f = "includeExpired" THEN x ELSE b.fields[f]
    BY <2>3
  <2> HIDE DEF v, w
  <2>5. FieldsCopied("Contract", v, w)
    <3>1. FieldsCopied("Contract", a, b)
      BY DEF PartCopied
    <3>2. QED
      BY <2>4, <3>1 DEF FieldsCopied
  <2>6. QED
    BY <2>2, <2>4, <2>5 DEF PartCopied, Shape
<1>3. QED
  BY <1>1, <1>2

(* The parts of a contract have no parts.                                  *)
LEMMA ContractIsSame ==
  ASSUME NEW a, IsPart("Contract", a), NEW b, IsPart("Contract", b), PartCopied("Contract", a, b)
  PROVE  SameValue("Contract", a, b)
<1>1. "Contract" \in Inner
  BY DEF Inner
<1>2. SamePart("Contract", a, b)
  BY <1>1, PartIsSame
<1>3. \A p \in DOMAIN a.parts : DOMAIN a.parts[p] = DOMAIN b.parts[p] /\ p \in DOMAIN b.parts
  BY DEF PartCopied, Shape
<1>4. ASSUME NEW p \in DOMAIN a.parts, NEW i \in DOMAIN a.parts[p]
      PROVE  SamePart(PartType[p], a.parts[p][i], b.parts[p][i])
  <2>1. SameFields(PartType[p], a.parts[p][i], b.parts[p][i])
    BY <1>2 DEF SamePart
  <2>2. PartType[p] \in Leaves
    BY <1>1, InnerSchema DEF IsPart, HasParts
  <2>3. IsLeaf(PartType[p], a.parts[p][i]) /\ IsLeaf(PartType[p], b.parts[p][i])
    BY <1>3 DEF IsPart
  <2>4. DOMAIN a.parts[p][i].parts = {} /\ DOMAIN b.parts[p][i].parts = {}
    BY <2>2, <2>3, LeafSchema DEF IsLeaf, HasParts
  <2>5. QED
    BY <2>1, <2>4 DEF SamePart
<1>5. QED
  BY <1>2, <1>4 DEF SameValue, SamePart

(* The contracts that are read are copies of those twsdo had in memory.    *)
LEMMA ContractsCopied ==
  ASSUME NEW item, item.packet # << >>, NEW p, p = item.packet[1], IsPacket(p),
         NEW q, IsPacket(q), q.type = "contract_details", ReadCopied(p, q)
  PROVE  CopiesOf(ContractsIn0(item), ContractsIn(q))
<1>1. AreContracts(ContractsIn(q)) /\ DOMAIN ContractsIn(q) = DOMAIN q.rows
      /\ Len(ContractsIn(q)) = Len(q.rows)
  BY ContractsAre
<1>2. CASE p.type # "contract_details"
  <2>1. ContractsIn0(item) = << >> /\ q.rows = << >>
    BY <1>2 DEF ContractsIn0, ReadCopied
  <2>2. Len(ContractsIn(q)) = 0
    BY <1>1, <2>1, SeqShort
  <2>3. QED
    BY <1>1, <2>1, <2>2, SeqShort DEF CopiesOf, AreContracts
<1>3. CASE p.type = "contract_details"
  <2>1. ContractsIn0(item) = ContractsIn(p)
    BY <1>3 DEF ContractsIn0, ContractsIn
  <2>2. AreContracts(ContractsIn(p)) /\ DOMAIN ContractsIn(p) = DOMAIN p.rows
        /\ Len(ContractsIn(p)) = Len(p.rows)
    BY <1>3, ContractsAre
  <2>3. RowsCopied(p.rows, q.rows)
    BY <1>3 DEF ReadCopied, RowsAgain
  <2>4. IsSeq(p.rows) /\ IsSeq(q.rows)
    BY DEF IsPacket, AreRows
  <2>5. Len(p.rows) = Len(q.rows) /\ DOMAIN p.rows = DOMAIN q.rows
    BY <2>3, <2>4, SeqDomain DEF RowsCopied
  <2>6. ASSUME NEW i \in DOMAIN p.rows
        PROVE  PartCopied("Contract", ContractsIn(p)[i], ContractsIn(q)[i])
    <3>1. p.rows[i].name = "ContractDetails"
      BY <1>3, RowTypes DEF IsPacket, AreRows
    <3>2. StructCopied("ContractDetails", p.rows[i].value, q.rows[i].value)
      BY <2>3, <3>1, RowTypes DEF RowsCopied
    <3>3. IsStruct(RowStruct[p.rows[i].name], p.rows[i].value)
      BY DEF IsPacket, AreRows
    <3>4. "summary" \in DOMAIN p.rows[i].value.parts /\ 1 \in DOMAIN p.rows[i].value.parts.summary
      BY <3>1, <3>3, RowTypes, SummaryIs
    <3>5. PartCopied(PartType["summary"], p.rows[i].value.parts["summary"][1],
                     q.rows[i].value.parts["summary"][1])
      BY <3>2, <3>4 DEF StructCopied
    <3>6. QED
      BY <2>5, <3>5, PartTypes DEF ContractsIn
  <2>7. QED
    BY <1>1, <2>1, <2>2, <2>5, <2>6 DEF CopiesOf
<1>4. QED
  BY <1>2, <1>3

(* skip_expiry() compares days first.                                      *)
LEMMA ExpiredIsSkipped ==
  ASSUME NEW c, ~NoDate(Expiry(c))
  PROVE  Expired(c) <=> SkipExpiry(Expiry(c), MinBeginDate(Program.end, Duration))
<1> DEFINE begin == MinBeginDate(Program.end, Duration)
           e == Expiry(c)
<1>1. begin.day \in Int /\ begin.sec \in Nat /\ begin.sec < DaySecs
  <2>1. CASE ~IsDate(Program.end) \/ Duration2Secs(Duration) = -1
    BY <2>1 DEF MinBeginDate, NoBegin, DaySecs
  <2>2. CASE IsDate(Program.end) /\ Duration2Secs(Duration) # -1
    <3> DEFINE days == Duration2Secs(Duration) \div DaySecs
               last == Calendar[Program.end].day
    <3>1. begin.day = BeginDay(last, days) /\ begin.sec = Calendar[Program.end].sec
      BY <2>2 DEF MinBeginDate
    <3>2. last \in Int /\ Calendar[Program.end].sec \in Nat /\ Calendar[Program.end].sec < DaySecs
      BY <2>2, CalendarAssumption DEF IsDate
    <3>3. days \in Nat
      <4>1. Duration2Secs(Duration) \in Nat
        BY <2>2, DurationIsNat
      <4>2. QED
        BY <4>1 DEF DaySecs
    <3> HIDE DEF days, last
    <3>4. BeginDay(last, days) \in Int
      BY <3>2, <3>3, BeginDayCounts
    <3>5. QED
      BY <3>1, <3>2, <3>4
  <2>3. QED
    BY <2>1, <2>2
<1>a. Expired(c) <=> e # "" /\ Calendar[e].day * DaySecs + Calendar[e].sec
                               < begin.day * DaySecs + begin.sec
  BY DEF Expired
<1>2. CASE e = ""
  <2>1. ~Expired(c)
    BY <1>a, <1>2
  <2>2. ~SkipExpiry(e, begin)
    BY <1>2, Zenon DEF SkipExpiry
  <2>3. QED
    BY <2>1, <2>2, Zenon
<1>3. CASE e # ""
  <2>1. e \in DOMAIN Calendar
    BY <1>3 DEF NoDate, IsDate
  <2>2. Calendar[e].day \in Int /\ Calendar[e].sec \in Nat /\ Calendar[e].sec < DaySecs
    BY <2>1, CalendarAssumption
  <2>3. Expired(c) <=> Calendar[e].day * DaySecs + Calendar[e].sec < begin.day * DaySecs + begin.sec
    BY <1>a, <1>3
  <2>4. SkipExpiry(e, begin) <=> \/ Calendar[e].day < begin.day
                                 \/ Calendar[e].day = begin.day /\ Calendar[e].sec < begin.sec
    BY <1>3 DEF SkipExpiry, Before
  <2> HIDE DEF begin, e
  <2> DEFINE d == Calendar[e].day
             s == Calendar[e].sec
             d2 == begin.day
             s2 == begin.sec
  <2>5. d \in Int /\ s \in Nat /\ s < DaySecs /\ d2 \in Int /\ s2 \in Nat /\ s2 < DaySecs
    BY <1>1, <2>2
  <2> HIDE DEF d, s, d2, s2
  <2>6. d * DaySecs + s < d2 * DaySecs + s2 <=> d < d2 \/ (d = d2 /\ s < s2)
    BY <2>5 DEF DaySecs
  <2>7. Expired(c) <=> SkipExpiry(e, begin)
    BY <2>3, <2>4, <2>6 DEF d, s, d2, s2
  <2>8. QED
    BY <2>7 DEF e, begin
<1>4. QED
  BY <1>2, <1>3

(* What has not expired, of both; none of the contracts that were kept is  *)
(* in another place.                                                       *)
LEMMA LiveKept ==
  ASSUME NEW a, NEW b, CopiesOf(a, b), \A i \in DOMAIN b : ~NoDate(Expiry(b[i]))
  PROVE  CopiesOf(Live(a), Kept(b, MinBeginDate(Program.end, Duration)))
<1> DEFINE begin == MinBeginDate(Program.end, Duration)
           n == Len(b)
           K == {i \in 1..n : ~SkipExpiry(Expiry(b[i]), begin)}
<1>1. /\ IsSeq(a) /\ IsSeq(b) /\ Len(a) = n /\ n \in Nat /\ DOMAIN a = 1..n /\ DOMAIN b = 1..n
      /\ \A i \in 1..n : IsPart("Contract", a[i]) /\ IsPart("Contract", b[i])
                         /\ PartCopied("Contract", a[i], b[i])
  BY SeqDomain DEF CopiesOf, AreContracts
<1>2. Kept(b, begin) = FlattenSeq(Picks(b, K, n))
  BY <1>1, KeptPicked
<1>3. ASSUME NEW i \in 1..n PROVE i \in K <=> ~Expired(a[i])
  <2>1. Expiry(a[i]) = Expiry(b[i]) /\ ~NoDate(Expiry(a[i]))
    BY <1>1, TextsCopied
  <2>2. Expired(a[i]) <=> SkipExpiry(Expiry(a[i]), begin)
    BY <2>1, ExpiredIsSkipped
  <2> HIDE DEF begin
  <2>3. QED
    BY <2>1, <2>2
<1>4. K \in SUBSET (1..n)
  OBVIOUS
<1> HIDE DEF K, begin, n
<1>5. Live(a) = FlattenSeq(Picks(a, K, n))
  <2>1. [i \in DOMAIN a |-> IF Expired(a[i]) THEN << >> ELSE <<a[i]>>] = Picks(a, K, n)
    BY <1>1, <1>3 DEF Picks
  <2>2. QED
    BY <2>1 DEF Live
<1>6. PICK idx \in Seq(K) :
        /\ K = 1..n => idx = [i \in 1..n |-> i]
        /\ \A s : FlattenSeq(Picks(s, K, n)) = [k \in 1..Len(idx) |-> s[idx[k]]]
  BY <1>1, <1>4, Picked, Zenon
<1> DEFINE x == Live(a)
           y == Kept(b, begin)
           m == Len(idx)
<1>7. m \in Nat /\ \A k \in 1..m : idx[k] \in 1..n
  <2>1. m \in Nat /\ \A k \in 1..m : idx[k] \in K
    OBVIOUS
  <2>2. QED
    BY <1>4, <2>1
<1>8. x = [k \in 1..m |-> a[idx[k]]] /\ y = [k \in 1..m |-> b[idx[k]]]
  BY <1>2, <1>5, <1>6, Zenon
<1> HIDE DEF x, y, m
<1>9. /\ IsSeq(x) /\ Len(x) = m /\ DOMAIN x = 1..m /\ IsSeq(y) /\ Len(y) = m /\ DOMAIN y = 1..m
      /\ \A k \in 1..m : x[k] = a[idx[k]] /\ y[k] = b[idx[k]]
  BY <1>7, <1>8 DEF IsSeq
<1>10. CopiesOf(x, y)
  BY <1>1, <1>7, <1>9 DEF CopiesOf, AreContracts
<1>11. QED
  BY <1>10 DEF x, y, begin

(* What has not expired, of two sequences.                                 *)
LEMMA LiveConcat ==
  ASSUME NEW a, IsSeq(a), NEW b, IsSeq(b)
  PROVE  Live(a \o b) = Live(a) \o Live(b)
<1> DEFINE T == {a[i] : i \in DOMAIN a} \cup {b[i] : i \in DOMAIN b}
           U == Seq(T)
           c == a \o b
           s == [i \in DOMAIN a |-> IF Expired(a[i]) THEN << >> ELSE <<a[i]>>]
           t == [i \in DOMAIN b |-> IF Expired(b[i]) THEN << >> ELSE <<b[i]>>]
           u == [i \in DOMAIN c |-> IF Expired(c[i]) THEN << >> ELSE <<c[i]>>]
<1>1. /\ Len(a) \in Nat /\ DOMAIN a = 1..Len(a) /\ Len(b) \in Nat /\ DOMAIN b = 1..Len(b)
  BY SeqDomain
<1>2. /\ DOMAIN c = 1..(Len(a) + Len(b))
      /\ \A i \in 1..Len(a) : c[i] = a[i]
      /\ \A i \in 1..Len(b) : c[Len(a) + i] = b[i]
  BY SeqConcat
<1>3. (\A i \in DOMAIN a : a[i] \in T) /\ (\A i \in DOMAIN b : b[i] \in T)
  OBVIOUS
<1> HIDE DEF c, T
<1>4. (\A x \in T : <<x>> \in U) /\ << >> \in U
  OBVIOUS
<1> HIDE DEF U
<1>5. s \in [1..Len(a) -> U] /\ t \in [1..Len(b) -> U]
  BY <1>1, <1>3, <1>4
<1>6. s \in Seq(U) /\ t \in Seq(U) /\ Len(s) = Len(a) /\ Len(t) = Len(b)
  BY <1>1, <1>5
<1>7. u = s \o t
  <2> DEFINE v == s \o t
  <2>1. /\ v \in Seq(U) /\ Len(v) = Len(a) + Len(b)
        /\ \A i \in 1..(Len(a) + Len(b)) : v[i] = IF i <= Len(a) THEN s[i] ELSE t[i - Len(a)]
    BY <1>1, <1>6, ConcatProperties
  <2>2. /\ \A i \in 1..Len(a) : s[i] = IF Expired(a[i]) THEN << >> ELSE <<a[i]>>
        /\ \A i \in 1..Len(b) : t[i] = IF Expired(b[i]) THEN << >> ELSE <<b[i]>>
        /\ \A i \in 1..(Len(a) + Len(b)) : u[i] = IF Expired(c[i]) THEN << >> ELSE <<c[i]>>
        /\ u = [i \in 1..(Len(a) + Len(b)) |-> u[i]]
    BY <1>1, <1>2
  <2> HIDE DEF v, s, t, u
  <2>3. ASSUME NEW i \in 1..(Len(a) + Len(b)) PROVE u[i] = v[i]
    <3>1. CASE i <= Len(a)
      <4>1. i \in 1..Len(a)
        BY <1>1, <3>1
      <4>2. QED
        BY <1>2, <2>1, <2>2, <3>1, <4>1
    <3>2. CASE ~(i <= Len(a))
      <4>1. i - Len(a) \in 1..Len(b) /\ Len(a) + (i - Len(a)) = i
        BY <1>1, <3>2
      <4>2. c[i] = b[i - Len(a)]
        BY <1>2, <4>1
      <4>3. QED
        BY <2>1, <2>2, <3>2, <4>1, <4>2
    <3>3. QED
      BY <3>1, <3>2
  <2>4. v = [i \in 1..(Len(a) + Len(b)) |-> v[i]]
    BY <1>1, <2>1
  <2>5. u = v
    BY <2>2, <2>3, <2>4
  <2>6. QED
    BY <2>5 DEF v
<1> HIDE DEF s, t, u
<1>8. FlattenSeq(s \o t) = FlattenSeq(s) \o FlattenSeq(t)
  BY <1>6, FlattenConcat DEF U
<1>9. Live(c) = FlattenSeq(u) /\ Live(a) = FlattenSeq(s) /\ Live(b) = FlattenSeq(t)
  BY DEF Live, s, t, u
<1>10. QED
  BY <1>7, <1>8, <1>9 DEF c

(* Copies of two sequences, one behind the other.                          *)
LEMMA CopiesConcat ==
  ASSUME NEW a, NEW b, CopiesOf(a, b), NEW c, NEW d, CopiesOf(c, d)
  PROVE  CopiesOf(a \o c, b \o d)
<1>1. /\ IsSeq(a) /\ IsSeq(b) /\ IsSeq(c) /\ IsSeq(d) /\ Len(a) = Len(b) /\ Len(c) = Len(d)
  BY DEF CopiesOf, AreContracts
<1>2. /\ Len(a) \in Nat /\ DOMAIN a = 1..Len(a) /\ DOMAIN b = 1..Len(a)
      /\ Len(c) \in Nat /\ DOMAIN c = 1..Len(c) /\ DOMAIN d = 1..Len(c)
  BY <1>1, SeqDomain
<1> DEFINE x == a \o c
           y == b \o d
<1>3. /\ IsSeq(x) /\ Len(x) = Len(a) + Len(c) /\ DOMAIN x = 1..(Len(a) + Len(c))
      /\ \A i \in 1..Len(a) : x[i] = a[i]
      /\ \A i \in 1..Len(c) : x[Len(a) + i] = c[i]
  <2>1. IsSeq(a) /\ IsSeq(c)
    BY <1>1
  <2>2. QED
    BY <2>1, SeqConcat
<1>4. /\ IsSeq(y) /\ Len(y) = Len(a) + Len(c) /\ DOMAIN y = 1..(Len(a) + Len(c))
      /\ \A i \in 1..Len(a) : y[i] = b[i]
      /\ \A i \in 1..Len(c) : y[Len(a) + i] = d[i]
  BY <1>1, SeqConcat
<1> HIDE DEF x, y
<1>5. ASSUME NEW i \in DOMAIN x
      PROVE  IsPart("Contract", x[i]) /\ IsPart("Contract", y[i]) /\ PartCopied("Contract", x[i], y[i])
  <2>1. CASE i <= Len(a)
    <3>1. i \in 1..Len(a)
      BY <1>2, <1>3, <2>1
    <3>2. QED
      BY <1>2, <1>3, <1>4, <3>1 DEF CopiesOf, AreContracts
  <2>2. CASE ~(i <= Len(a))
    <3>1. i - Len(a) \in 1..Len(c) /\ Len(a) + (i - Len(a)) = i
      BY <1>2, <1>3, <2>2
    <3>2. x[i] = c[i - Len(a)] /\ y[i] = d[i - Len(a)]
      BY <1>3, <1>4, <3>1
    <3>3. QED
      BY <1>2, <3>1, <3>2 DEF CopiesOf, AreContracts
  <2>3. QED
    BY <2>1, <2>2
<1>6. CopiesOf(x, y)
  BY <1>3, <1>4, <1>5 DEF CopiesOf, AreContracts
<1>7. QED
  BY <1>6 DEF x, y

(* The division with remainder is unique.                                  *)
LEMMA DividedAs ==
  ASSUME NEW n \in Nat, n # 0, NEW q \in Nat, NEW r \in 0..(n - 1), NEW k \in Nat, k = q * n + r
  PROVE  k \div n = q /\ k % n = r
<1> DEFINE p == k \div n
           s == k % n
<1>1. p \in Nat /\ s \in 0..(n - 1) /\ k = n * p + s
  BY Divided
<1> HIDE DEF p, s
<1>2. p = q
  <2>1. CASE p > q
    <3>1. n * p >= n * (q + 1)
      BY <1>1, <2>1, TimesLess
    <3>2. n * (q + 1) = q * n + n
      OBVIOUS
    <3> DEFINE x == n * p
               y == q * n
    <3>3. x \in Nat /\ y \in Nat /\ x >= y + n /\ y + r = x + s
      BY <1>1, <3>1, <3>2
    <3> HIDE DEF x, y
    <3>4. QED
      BY <1>1, <3>3
  <2>2. CASE p < q
    <3>1. n * q >= n * (p + 1)
      BY <1>1, <2>2, TimesLess
    <3>2. n * (p + 1) = n * p + n /\ n * q = q * n
      BY <1>1
    <3> DEFINE x == n * p
               y == q * n
    <3>3. x \in Nat /\ y \in Nat /\ y >= x + n /\ y + r = x + s
      BY <1>1, <3>1, <3>2
    <3> HIDE DEF x, y
    <3>4. QED
      BY <1>1, <3>3
  <2>3. QED
    BY <1>1, <2>1, <2>2
<1>3. s = r
  <2>1. n * p = q * n
    BY <1>2
  <2> DEFINE x == n * p
             y == q * n
  <2>2. x \in Nat /\ x = y /\ y + r = x + s
    BY <1>1, <2>1
  <2> HIDE DEF x, y
  <2>3. QED
    BY <1>1, <2>2
<1>4. QED
  BY <1>2, <1>3 DEF p, s

(* Jobs for more contracts come behind the jobs there are.                 *)
LEMMA JobsConcat ==
  ASSUME NEW a, AreContracts(a), NEW b, AreContracts(b), Len(Program.wts) \in Nat
  PROVE  JobsOf(a \o b) = JobsOf(a) \o JobsOf(b)
<1> DEFINE n == Len(Program.wts)
           c == a \o b
           m == Len(a)
           l == Len(b)
           x == JobsOf(a)
           y == JobsOf(b)
           z == JobsOf(c)
<1>1. m \in Nat /\ l \in Nat /\ n \in Nat
  BY SeqDomain DEF AreContracts
<1>2. /\ Len(c) = m + l
      /\ \A i \in 1..m : c[i] = a[i]
      /\ \A i \in 1..l : c[m + i] = b[i]
  BY SeqConcat DEF AreContracts
<1>3. /\ x = [k \in 1..(m * n) |-> JobAt(a, k)] /\ y = [k \in 1..(l * n) |-> JobAt(b, k)]
      /\ z = [k \in 1..((m + l) * n) |-> JobAt(c, k)]
  BY <1>2 DEF JobsOf
<1> HIDE DEF m, l, c
<1>4. ASSUME NEW k \in 1..(m * n) PROVE JobAt(c, k) = JobAt(a, k)
  <2>1. 1 + ((k - 1) \div n) \in 1..m
    BY <1>1, JobNumber
  <2>2. c[1 + ((k - 1) \div n)] = a[1 + ((k - 1) \div n)]
    BY <1>2, <2>1
  <2>3. QED
    BY <2>2 DEF JobAt
<1> HIDE DEF n
<1>5. ASSUME NEW k \in 1..(l * n) PROVE JobAt(c, m * n + k) = JobAt(b, k)
  <2> DEFINE q == (k - 1) \div n
             r == (k - 1) % n
             j == m * n + k - 1
  <2>1. 1 + q \in 1..l /\ n # 0
    BY <1>1, JobNumber
  <2>2. k - 1 \in Nat /\ m * n \in Nat
    BY <1>1
  <2>3. q \in Nat /\ r \in 0..(n - 1) /\ k - 1 = n * q + r
    BY <1>1, <2>1, <2>2, Divided
  <2> HIDE DEF q, r
  <2>4. j \in Nat /\ j = (m + q) * n + r
    <3>1. (m + q) * n = m * n + n * q
      BY <1>1, <2>3
    <3> DEFINE s == m * n
               t == n * q
               u == (m + q) * n
    <3>2. s \in Nat /\ t \in Nat /\ u = s + t /\ k - 1 = t + r /\ j = s + k - 1
      BY <1>1, <2>2, <2>3, <3>1
    <3> HIDE DEF s, t, u
    <3>3. j \in Nat /\ j = u + r
      BY <2>2, <2>3, <3>2
    <3>4. QED
      BY <3>3 DEF u
  <2> HIDE DEF j
  <2>5. j \div n = m + q /\ j % n = r
    <3>1. m + q \in Nat
      BY <1>1, <2>3
    <3> DEFINE d == m + q
    <3>2. d \in Nat /\ j = d * n + r
      BY <2>4, <3>1
    <3> HIDE DEF d
    <3>3. n \in Nat /\ n # 0 /\ j \in Nat /\ r \in 0..(n - 1)
      BY <1>1, <2>1, <2>3, <2>4
    <3> HIDE DEF n
    <3>4. j \div n = d /\ j % n = r
      BY <3>2, <3>3, DividedAs
    <3>5. QED
      BY <3>4 DEF d
  <2>6. c[1 + (m + q)] = b[1 + q]
    <3>1. m + (1 + q) = 1 + (m + q)
      BY <1>1, <2>3
    <3>2. QED
      BY <1>2, <2>1, <3>1
  <2> DEFINE o == m * n + k
  <2>7. o - 1 = j
    BY <2>2 DEF j
  <2> HIDE DEF o
  <2>8. JobAt(c, o) = JobAt(b, k)
    <3>1. (o - 1) \div n = m + q /\ (o - 1) % n = r
      BY <2>5, <2>7
    <3>2. (k - 1) \div n = q /\ (k - 1) % n = r
      BY DEF q, r
    <3>3. QED
      BY <2>6, <3>1, <3>2 DEF JobAt, n
  <2>9. QED
    BY <2>8 DEF o
<1> HIDE DEF x, y, z
<1> DEFINE s == m * n
           t == l * n
<1>6. s \in Nat /\ t \in Nat /\ (m + l) * n = s + t
  BY <1>1
<1>7. /\ x = [k \in 1..s |-> JobAt(a, k)] /\ y = [k \in 1..t |-> JobAt(b, k)]
      /\ z = [k \in 1..(s + t) |-> JobAt(c, k)]
      /\ \A k \in 1..s : JobAt(c, k) = JobAt(a, k)
      /\ \A k \in 1..t : JobAt(c, s + k) = JobAt(b, k)
  BY <1>3, <1>4, <1>5, <1>6
<1> HIDE DEF s, t
<1>8. IsSeq(x) /\ Len(x) = s /\ IsSeq(y) /\ Len(y) = t
  BY <1>6, <1>7 DEF IsSeq
<1> DEFINE v == x \o y
<1>9. /\ IsSeq(v) /\ Len(v) = s + t
      /\ \A k \in 1..s : v[k] = x[k]
      /\ \A k \in 1..t : v[s + k] = y[k]
  <2>1. IsSeq(x) /\ IsSeq(y)
    BY <1>8
  <2>2. /\ IsSeq(v) /\ Len(v) = Len(x) + Len(y)
        /\ \A k \in 1..Len(x) : v[k] = x[k]
        /\ \A k \in 1..Len(y) : v[Len(x) + k] = y[k]
    BY <2>1, SeqConcat
  <2> HIDE DEF v
  <2>3. QED
    BY <1>8, <2>2
<1> HIDE DEF v
<1>10. ASSUME NEW k \in 1..(s + t) PROVE v[k] = z[k]
  <2>1. CASE k <= s
    <3>1. k \in 1..s
      BY <1>6, <2>1
    <3>2. QED
      BY <1>7, <1>9, <3>1
  <2>2. CASE ~(k <= s)
    <3>1. k - s \in 1..t /\ s + (k - s) = k
      BY <1>6, <2>2
    <3>2. v[k] = JobAt(b, k - s) /\ z[k] = JobAt(c, s + (k - s))
      BY <1>7, <1>9, <3>1
    <3>3. QED
      BY <1>7, <3>1, <3>2
  <2>3. QED
    BY <2>1, <2>2
<1>11. v = [k \in 1..(s + t) |-> v[k]] /\ z = [k \in 1..(s + t) |-> z[k]]
  BY <1>7, <1>9 DEF IsSeq
<1>12. v = z
  BY <1>10, <1>11
<1>13. QED
  BY <1>12 DEF v, x, y, z, c

(* The job for a contract and one of whatToShow.                           *)
LEMMA JobFor ==
  ASSUME NEW contracts, Len(contracts) \in Nat, Len(Program.wts) \in Nat,
         NEW i \in 1..Len(contracts), NEW j \in 1..Len(Program.wts)
  PROVE  LET k == (i - 1) * Len(Program.wts) + j
         IN  /\ k \in 1..Len(JobsOf(contracts))
             /\ Len(JobsOf(contracts)) = Len(contracts) * Len(Program.wts)
             /\ JobsOf(contracts)[k].packet[1].query[1] =
                  Job(JobContract(contracts[i]), Program.wts[j])
<1> DEFINE n == Len(Program.wts)
           m == Len(contracts)
           k == (i - 1) * n + j
           x == (i - 1) * n
           y == m * n
<1>1. /\ i - 1 \in Nat /\ n \in Nat /\ m \in Nat /\ n # 0 /\ i <= m /\ i \in Nat
      /\ x \in Nat /\ y \in Nat
  <2>1. i - 1 \in Nat /\ n \in Nat /\ m \in Nat /\ n # 0 /\ i <= m /\ i \in Nat
    OBVIOUS
  <2> HIDE DEF n, m
  <2>2. x \in Nat /\ y \in Nat
    BY <2>1
  <2>3. QED
    BY <2>1, <2>2
<1>2. x + n <= y
  <2> HIDE DEF n, m
  <2>1. n * m >= n * i
    BY <1>1, TimesLess
  <2>2. n * i = x + n /\ n * m = y
    BY <1>1
  <2>3. QED
    BY <1>1, <2>1, <2>2
<1> HIDE DEF n, m, x, y
<1>3. j \in 1..n /\ k = x + j
  BY DEF n, x
<1>4. k \in 1..y
  BY <1>1, <1>2, <1>3
<1>5. (k - 1) \div n = i - 1 /\ (k - 1) % n = j - 1
  <2>1. j - 1 \in 0..(n - 1) /\ k - 1 = (i - 1) * n + (j - 1) /\ k - 1 \in Nat
    BY <1>1, <1>3 DEF x
  <2> DEFINE l == k - 1
             a == i - 1
             b == j - 1
  <2>2. n \in Nat /\ n # 0 /\ a \in Nat /\ b \in 0..(n - 1) /\ l \in Nat /\ l = a * n + b
    BY <1>1, <2>1
  <2> HIDE DEF l, a, b, k
  <2>3. l \div n = a /\ l % n = b
    BY <2>2, DividedAs, ZenonT(60)
  <2>4. QED
    BY <2>3, Zenon DEF l, a, b
<1> HIDE DEF k
<1>6. JobsOf(contracts) = [l \in 1..y |-> JobAt(contracts, l)] /\ Len(JobsOf(contracts)) = y
  BY <1>1 DEF JobsOf, y, m, n
<1> DEFINE job == Job(JobContract(contracts[i]), Program.wts[j])
           p == Packet("historical_data", <<job>>, << >>, FALSE)
<1>7. JobAt(contracts, k) = Document(p, << >>)
  <2>1. 1 + ((k - 1) \div n) = i /\ 1 + ((k - 1) % n) = j
    BY <1>3, <1>5
  <2>2. QED
    BY <2>1 DEF JobAt, n
<1> HIDE DEF job
<1>8. Document(p, << >>).packet = <<p>> /\ p.query = <<job>>
  <2>1. p.query = <<job>>
    BY DEF Packet
  <2> HIDE DEF p
  <2>2. ~\E l \in DOMAIN << >> : << >>[l].type = p.type
    OBVIOUS
  <2>3. Document(p, << >>).packet = <<p>>
    BY <2>2 DEF Document
  <2>4. QED
    BY <2>1, <2>3
<1> HIDE DEF p
<1>9. JobsOf(contracts)[k].packet[1].query[1] = job
  BY <1>4, <1>6, <1>7, <1>8
<1>10. QED
  BY <1>4, <1>6, <1>9 DEF job, k, y, m, n

(* The contracts of a document are contracts.                              *)
LEMMA ItemContracts ==
  ASSUME NEW item, IsItem(item), item.kind = "doc"
  PROVE  AreContracts(ContractsIn0(item))
<1>1. CASE item.packet = << >> \/ item.packet[1].type # "contract_details"
  BY <1>1, SeqShort DEF ContractsIn0, AreContracts
<1>2. CASE ~(item.packet = << >> \/ item.packet[1].type # "contract_details")
  <2>1. IsPacket(item.packet[1])
    BY <1>2 DEF IsItem, MadeFrom
  <2>2. ContractsIn0(item) = ContractsIn(item.packet[1])
    BY <1>2 DEF ContractsIn0, ContractsIn
  <2>3. QED
    BY <1>2, <2>1, <2>2, ContractsAre
<1>3. QED
  BY <1>1, <1>2

(* The contracts of one more document come behind the others.              *)
LEMMA ContractsOfMore ==
  ASSUME NEW docs, IsSeq(docs), NEW item,
         \A i \in DOMAIN docs : AreContracts(ContractsIn0(docs[i])), AreContracts(ContractsIn0(item))
  PROVE  /\ ContractsOf(Append(docs, item)) = ContractsOf(docs) \o ContractsIn0(item)
         /\ IsSeq(ContractsOf(docs))
<1> DEFINE t == ContractsIn0(item)
           T == (UNION {{ContractsIn0(docs[i])[j] : j \in DOMAIN ContractsIn0(docs[i])}
                          : i \in DOMAIN docs})
                  \cup {t[j] : j \in DOMAIN t}
           U == Seq(T)
           s == [i \in DOMAIN docs |-> ContractsIn0(docs[i])]
           more == Append(docs, item)
<1>1. Len(docs) \in Nat /\ DOMAIN docs = 1..Len(docs)
  BY SeqDomain
<1>2. /\ \A i \in DOMAIN docs : \A j \in DOMAIN ContractsIn0(docs[i]) : ContractsIn0(docs[i])[j] \in T
      /\ \A j \in DOMAIN t : t[j] \in T
  <2>1. ASSUME NEW i \in DOMAIN docs, NEW j \in DOMAIN ContractsIn0(docs[i])
        PROVE  ContractsIn0(docs[i])[j] \in T
    <3> DEFINE X == {ContractsIn0(docs[i])[l] : l \in DOMAIN ContractsIn0(docs[i])}
    <3>1. ContractsIn0(docs[i])[j] \in X
      OBVIOUS
    <3>2. X \in {{ContractsIn0(docs[k])[l] : l \in DOMAIN ContractsIn0(docs[k])} : k \in DOMAIN docs}
      OBVIOUS
    <3> HIDE DEF X
    <3>3. QED
      BY <3>1, <3>2
  <2>2. ASSUME NEW j \in DOMAIN t PROVE t[j] \in T
    <3> DEFINE X == {t[l] : l \in DOMAIN t}
    <3>1. t[j] \in X
      OBVIOUS
    <3> HIDE DEF X
    <3>2. QED
      BY <3>1
  <2>3. QED
    BY <2>1, <2>2
<1> HIDE DEF T
<1>3. t \in U
  BY <1>2, SeqElements DEF AreContracts
<1>4. \A i \in DOMAIN docs : ContractsIn0(docs[i]) \in U
  BY <1>2, SeqElements DEF AreContracts
<1> HIDE DEF U, t
<1>5. s \in [1..Len(docs) -> U]
  BY <1>1, <1>4
<1>6. s \in Seq(U) /\ Len(s) = Len(docs)
  BY <1>1, <1>5
<1>7. /\ DOMAIN more = 1..(Len(docs) + 1) /\ more[Len(docs) + 1] = item
      /\ \A i \in 1..Len(docs) : more[i] = docs[i]
  BY SeqAppend
<1> HIDE DEF more
<1>8. Append(s, t) = [i \in DOMAIN more |-> ContractsIn0(more[i])]
  <2> DEFINE u == Append(s, t)
  <2>1. IsSeq(s) /\ \A i \in 1..Len(docs) : s[i] = ContractsIn0(docs[i])
    BY <1>1, <1>6, SeqIs
  <2> HIDE DEF s
  <2>2. /\ IsSeq(u) /\ Len(u) = Len(docs) + 1 /\ DOMAIN u = 1..(Len(docs) + 1)
        /\ u[Len(docs) + 1] = t
        /\ \A i \in 1..Len(docs) : u[i] = s[i]
    BY <1>6, <2>1, SeqAppend
  <2> HIDE DEF u
  <2>3. ASSUME NEW i \in 1..(Len(docs) + 1) PROVE u[i] = ContractsIn0(more[i])
    <3>1. CASE i = Len(docs) + 1
      BY <1>7, <2>2, <3>1 DEF t
    <3>2. CASE i # Len(docs) + 1
      <4>1. i \in 1..Len(docs)
        BY <1>1, <3>2
      <4>2. QED
        BY <1>7, <2>1, <2>2, <4>1
    <3>3. QED
      BY <3>1, <3>2
  <2>4. u = [i \in 1..(Len(docs) + 1) |-> u[i]]
    BY <2>2 DEF IsSeq
  <2>5. u = [i \in DOMAIN more |-> ContractsIn0(more[i])]
    BY <1>7, <2>3, <2>4
  <2>6. QED
    BY <2>5 DEF u
<1>9. ContractsOf(more) = FlattenSeq([i \in DOMAIN more |-> ContractsIn0(more[i])])
      /\ ContractsOf(docs) = FlattenSeq(s)
  BY DEF ContractsOf, ContractsIn0, s
<1> HIDE DEF s
<1>10. FlattenSeq(Append(s, t)) = FlattenSeq(s) \o t
  BY <1>3, <1>6, FlattenAppend DEF U
<1>11. FlattenSeq(s) \in Seq(T)
  BY <1>6, FlattenTyped DEF U
<1>12. IsSeq(FlattenSeq(s))
  <2> DEFINE f == FlattenSeq(s)
  <2> HIDE DEF f
  <2>1. f \in Seq(T)
    BY <1>11 DEF f
  <2>2. IsSeq(f)
    BY <2>1, SeqIs
  <2>3. QED
    BY <2>2 DEF f
<1>13. QED
  BY <1>8, <1>9, <1>10, <1>12 DEF t, more

(***************************************************************************)
(* OwnFilesReadable.                                                       *)
(***************************************************************************)

(* A request for historical data has a contract.                           *)
LEMMA RequestContract ==
  ASSUME NEW v, IsStruct("HistRequest", v)
  PROVE  "reqContract" \in DOMAIN v.parts /\ 1 \in DOMAIN v.parts.reqContract
         /\ PartType["reqContract"] = "Contract"
<1>1. Schema["HistRequest"].values = {"reqContract"}
  BY DEF Schema, Struct
<1>2. "reqContract" \in DOMAIN v.parts /\ IsSeq(v.parts["reqContract"]) /\ Len(v.parts["reqContract"]) = 1
  BY <1>1 DEF IsStruct, HasParts
<1>3. 1 \in DOMAIN v.parts["reqContract"]
  BY <1>2, SeqDomain
<1>4. QED
  BY <1>2, <1>3, PartTypes

(* The date of a row is copied as it is.                                   *)
LEMMA DateCopied ==
  ASSUME NEW a, NEW b, FieldsCopied("RowHist", a, b)
  PROVE  b.fields.date = a.fields.date
<1>1. Schema["RowHist"].writes = RowHistWrites /\ Schema["RowHist"].reads = RowHistReads
  BY DEF Schema, Struct
<1>2. "date" \in DOMAIN RowHistWrites /\ RowHistWrites["date"] = "STRING"
  BY DEF RowHistWrites, Fields, ++
<1>3. "date" \in FieldsOf("RowHist") /\ KindOf("RowHist", "date") \notin Numbers
  BY <1>1, <1>2 DEF FieldsOf, AllFields, KindOf, Kind, Numbers
<1>4. "RowHist" \in Known
  BY DEF Known, Outer
<1>5. Again("RowHist", "date", a.fields["date"]) = a.fields["date"]
  BY <1>3, <1>4, AgainAgain
<1>6. QED
  BY <1>3, <1>5 DEF FieldsCopied

(* The document whose packets or elements are at hand.                     *)
LEMMA ItemIs ==
  ASSUME FilesInv, parsed # << >>
  PROVE  IsItem(file.docs[Last(parsed)]) /\ file.docs[Last(parsed)].kind = "doc"
<1>1. IsSeq(parsed)
  BY DEF FilesInv, FileInv
<1>2. Len(parsed) \in DOMAIN parsed /\ Last(parsed) = parsed[Len(parsed)]
  BY <1>1, SeqEmpty DEF Last
<1>3. Last(parsed) \in DOMAIN file.docs /\ file.docs[Last(parsed)].kind = "doc"
  BY <1>2 DEF FilesInv, FileInv
<1>4. QED
  BY <1>3 DEF FilesInv, GivenInv, IsFile

(* PacketPlaceOrder::fromXml() asserts only on the rows of an order.       *)
LEMMA ElementReadable ==
  ASSUME FilesInv, ReadElement, pc' = "aborted"
  PROVE  OwnFilesReadable'
<1> DEFINE item == file.docs[Last(parsed)]
           element == Head(elements)
           p == item.packet[1]
<1>1. /\ pc = "reading" /\ elements # << >> /\ parsed' = parsed /\ file' = file /\ plan' = plan
      /\ pc' = IF PacketTypes(element) = <<"place_order">> /\ NotImplemented(element)
               THEN "aborted" ELSE pc
  BY DEF ReadElement, given, streamVars
<1>2. PacketTypes(element) = <<"place_order">> /\ RowsOf(element) # << >>
  BY <1>1 DEF NotImplemented
<1>3. parsed # << >> /\ IsProgram(Program) /\ Program' = Program
  BY <1>1, ProgramIs DEF FilesInv, OriginInv, GivenInv, Program
<1>4. SUFFICES ASSUME item.packet # << >> PROVE NotForReading(p)
  BY <1>1, <1>3 DEF OwnFilesReadable, NotForReading
<1>5. elements \in {<< >>, <<item.doc.nodes[1]>>}
  BY <1>3, <1>4 DEF FilesInv, OriginInv
<1>6. elements = <<item.doc.nodes[1]>>
  BY <1>1, <1>5
<1>7. element = item.doc.nodes[1]
  BY <1>6
<1>8. MadeFrom(item.doc, p)
  BY <1>3, <1>4, ItemIs DEF IsItem
<1>9. p.rows # << >> /\ element.type = p.type
  BY <1>2, <1>7, <1>8 DEF MadeFrom
<1> HIDE DEF item, element, p
<1>10. Program.prog \in {"twsdo", "histjob", "csv", "noconv"}
  BY <1>3 DEF IsProgram
<1>11. Program.prog = "twsdo" /\ element.type = "place_order"
  <2> DEFINE types == PacketTypes(element)
  <2>1. types = <<"place_order">>
    BY <1>2
  <2>2. /\ Program.prog = "histjob" => types = <<"contract_details">>
        /\ Program.prog \in {"csv", "noconv"} => types = <<"historical_data">>
        /\ Program.prog = "twsdo" => types \in {<< >>, <<"market_data", "contract_details">>,
                                                <<element.type>>}
    BY DEF PacketTypes
  <2> HIDE DEF types
  <2> DEFINE type == element.type
  <2>3. /\ <<"place_order">> # <<"contract_details">> /\ <<"place_order">> # <<"historical_data">>
        /\ <<"place_order">> # << >> /\ <<"place_order">> # <<"market_data", "contract_details">>
    OBVIOUS
  <2> HIDE DEF type
  <2>4. <<"place_order">> = <<type>> => type = "place_order"
    OBVIOUS
  <2>5. QED
    BY <1>10, <2>1, <2>2, <2>3, <2>4 DEF type
<1>12. QED
  BY <1>9, <1>11 DEF NotForReading

(* A job for a contract whose expiry is no date.                           *)
LEMMA GenHistJobReadable ==
  ASSUME NEW item, item.packet # << >>, NEW p, p = item.packet[1], IsPacket(p),
         NEW q, IsPacket(q), q.type = "contract_details", ReadCopied(p, q),
         GenHistJob(q), pc' = "aborted", pc # "aborted"
  PROVE  p.type = "contract_details"
         /\ \E i \in DOMAIN p.rows : NoDate(Expiry(p.rows[i].value.parts.summary[1]))
<1>1. PICK i \in DOMAIN q.rows : NoDate(Expiry(q.rows[i].value.parts.summary[1]))
  BY GenHistJobIs
<1>2. q.rows # << >>
  <2>1. SUFFICES ASSUME q.rows = << >> PROVE FALSE
    OBVIOUS
  <2>2. QED
    BY <2>1
<1>3. p.type = "contract_details"
  BY <1>2 DEF ReadCopied
<1>4. CopiesOf(ContractsIn0(item), ContractsIn(q))
  BY ContractsCopied
<1>5. ContractsIn0(item) = ContractsIn(p)
  BY <1>3 DEF ContractsIn0, ContractsIn
<1>6. DOMAIN ContractsIn(p) = DOMAIN p.rows /\ DOMAIN ContractsIn(q) = DOMAIN q.rows
  BY <1>3, ContractsAre
<1>7. IsSeq(ContractsIn(p)) /\ IsSeq(ContractsIn(q)) /\ Len(ContractsIn(p)) = Len(ContractsIn(q))
  BY <1>4, <1>5 DEF CopiesOf, AreContracts
<1>8. i \in DOMAIN ContractsIn(p)
  BY <1>6, <1>7, SeqDomain
<1>9. PartCopied("Contract", ContractsIn(p)[i], ContractsIn(q)[i])
  BY <1>4, <1>5, <1>8 DEF CopiesOf
<1>10. Expiry(ContractsIn(q)[i]) = Expiry(ContractsIn(p)[i])
  BY <1>9, TextsCopied
<1>11. /\ ContractsIn(p)[i] = p.rows[i].value.parts.summary[1]
       /\ ContractsIn(q)[i] = q.rows[i].value.parts.summary[1]
  BY <1>6, <1>8 DEF ContractsIn
<1>12. QED
  BY <1>1, <1>3, <1>6, <1>8, <1>10, <1>11

(* A line for a row, or a contract, that has no date.                      *)
LEMMA BadLines ==
  ASSUME NEW q, ~CsvLines(q).good, IsSeq(q.rows)
  PROVE  /\ q.rows # << >>
         /\ \/ NoDate(Expiry(q.query[1].parts.reqContract[1]))
            \/ \E i \in DOMAIN q.rows :
                 q.rows[i].name = "row" /\ ~IsDate(q.rows[i].value.fields.date)
<1> DEFINE c == q.query[1].parts.reqContract[1]
           rows == Named(q.rows, "row")
           I == {i \in 1..Len(rows) : ~IsDate(rows[i].value.fields.date)}
           first == IF I # {} THEN Min(I) ELSE 0
           bad == IF NoDate(Expiry(c)) THEN 1 ELSE first
<1>1. CsvLines(q).good = (bad = 0 \/ rows = << >>)
  BY DEF CsvLines, SelectInSeq
<1>2. IsSeq(rows) /\ \A i \in DOMAIN rows :
        \E j \in DOMAIN q.rows : q.rows[j].name = "row" /\ rows[i] = q.rows[j]
  BY NamedIs
<1>3. Len(rows) \in Nat /\ DOMAIN rows = 1..Len(rows)
  BY <1>2, SeqDomain
<1>4. I \in SUBSET (1..Len(rows))
  OBVIOUS
<1>5. \A i \in I : ~IsDate(rows[i].value.fields.date)
  OBVIOUS
<1> HIDE DEF rows, I
<1>6. rows # << >> /\ bad # 0
  BY <1>1
<1>7. 1 \in DOMAIN rows
  BY <1>2, <1>6, SeqEmpty
<1>8. q.rows # << >>
  <2>1. PICK j \in DOMAIN q.rows : TRUE
    BY <1>2, <1>7
  <2>2. SUFFICES ASSUME q.rows = << >> PROVE FALSE
    OBVIOUS
  <2>3. QED
    BY <2>1, <2>2
<1>9. CASE NoDate(Expiry(c))
  BY <1>8, <1>9
<1>10. CASE ~NoDate(Expiry(c))
  <2>1. first # 0 /\ first \in I
    BY <1>3, <1>4, <1>6, <1>10, FirstOf
  <2> HIDE DEF first
  <2>2. first \in DOMAIN rows /\ ~IsDate(rows[first].value.fields.date)
    BY <1>3, <1>4, <1>5, <2>1
  <2>3. PICK j \in DOMAIN q.rows : q.rows[j].name = "row" /\ rows[first] = q.rows[j]
    BY <1>2, <2>2
  <2>4. QED
    BY <1>8, <2>2, <2>3
<1>11. QED
  BY <1>9, <1>10

(* Dates that are none were none when the packet was written.              *)
LEMMA CsvReadable ==
  ASSUME NEW p, IsPacket(p), Len(p.query) = 1, NEW q, IsPacket(q), q.type = "historical_data",
         ReadCopied(p, q), ~CsvLines(q).good
  PROVE  /\ p.type = "historical_data" /\ p.rows # << >>
         /\ \/ NoDate(Expiry(p.query[1].parts.reqContract[1]))
            \/ \E i \in DOMAIN p.rows :
                 p.rows[i].name = "row" /\ ~IsDate(p.rows[i].value.fields.date)
<1>1. IsSeq(q.rows) /\ IsSeq(p.rows)
  BY DEF IsPacket, AreRows
<1>2. q.rows # << >>
      /\ \/ NoDate(Expiry(q.query[1].parts.reqContract[1]))
         \/ \E i \in DOMAIN q.rows :
              q.rows[i].name = "row" /\ ~IsDate(q.rows[i].value.fields.date)
  BY <1>1, BadLines
<1>3. p.type = "historical_data"
  BY <1>2 DEF ReadCopied
<1>4. StructCopied("HistRequest", p.query[1], q.query[1]) /\ RowsCopied(p.rows, q.rows)
  BY <1>3, QueryTypes DEF ReadCopied, RowsAgain
<1>5. DOMAIN p.rows = DOMAIN q.rows /\ Len(p.rows) = Len(q.rows)
  BY <1>1, <1>4, SeqDomain DEF RowsCopied
<1>6. p.rows # << >>
  <2>1. Len(q.rows) # 0 /\ Len(<< >>) = 0
    BY <1>1, <1>2, SeqEmpty
  <2>2. QED
    BY <1>5, <2>1
<1>7. CASE NoDate(Expiry(q.query[1].parts.reqContract[1]))
  <2>1. IsSeq(p.query) /\ p.query # << >>
    <3>1. Len(<< >>) = 0
      OBVIOUS
    <3>2. QED
      BY <3>1 DEF IsPacket
  <2>2. IsStruct("HistRequest", p.query[1])
    <3>1. 1 \in DOMAIN p.query
      BY <2>1, SeqEmpty
    <3>2. QED
      BY <1>3, <3>1, QueryTypes DEF IsPacket
  <2> DEFINE a == p.query[1]
             b == q.query[1]
  <2>3. "reqContract" \in DOMAIN a.parts /\ 1 \in DOMAIN a.parts["reqContract"]
        /\ PartType["reqContract"] = "Contract"
    BY <2>2, RequestContract
  <2> HIDE DEF a, b
  <2>4. PartCopied("Contract", a.parts["reqContract"][1], b.parts["reqContract"][1])
    BY <1>4, <2>3 DEF StructCopied, a, b
  <2>5. Expiry(b.parts["reqContract"][1]) = Expiry(a.parts["reqContract"][1])
    BY <2>4, TextsCopied
  <2>6. QED
    BY <1>3, <1>6, <1>7, <2>5 DEF a, b
<1>8. CASE \E i \in DOMAIN q.rows : q.rows[i].name = "row" /\ ~IsDate(q.rows[i].value.fields.date)
  <2>1. PICK i \in DOMAIN q.rows : q.rows[i].name = "row" /\ ~IsDate(q.rows[i].value.fields.date)
    BY <1>8
  <2>2. p.rows[i].name = "row" /\ StructCopied(RowStruct["row"], p.rows[i].value, q.rows[i].value)
    BY <1>4, <1>5, <2>1 DEF RowsCopied
  <2>3. FieldsCopied("RowHist", p.rows[i].value, q.rows[i].value)
    BY <2>2, RowTypes DEF StructCopied
  <2>4. q.rows[i].value.fields.date = p.rows[i].value.fields.date
    BY <2>3, DateCopied
  <2>5. QED
    BY <1>3, <1>5, <1>6, <2>1, <2>2, <2>4
<1>9. QED
  BY <1>2, <1>7, <1>8

(* Of packets of its own, a program aborts only on what is                 *)
(* NotForReading().                                                        *)
LEMMA PacketReadable ==
  ASSUME FilesInv, HandlePacket, pc' = "aborted"
  PROVE  OwnFilesReadable'
<1> DEFINE item == file.docs[Last(parsed)]
           q == Head(packets)
           p == item.packet[1]
<1>1. /\ pc = "reading" /\ packets # << >> /\ parsed' = parsed /\ file' = file /\ plan' = plan
  BY DEF HandlePacket, given, streamVars
<1>2. IsProgram(Program) /\ Program' = Program
  BY <1>1, ProgramIs DEF FilesInv, GivenInv, Program
<1>3. 1 \in DOMAIN packets /\ q = packets[1]
  BY <1>1, SeqHeadTail DEF FilesInv, WorkInv
<1>4. SUFFICES ASSUME item.packet # << >> PROVE NotForReading(p)
  BY <1>1, <1>2 DEF OwnFilesReadable, NotForReading
<1>5. IsPacket(p) /\ Len(p.query) = 1 /\ ReadCopied(p, q)
  BY <1>3, <1>4, OriginIs
<1>6. /\ IsPacket(q)
      /\ Program.prog = "histjob" => q.type = "contract_details"
      /\ Program.prog \in {"csv", "noconv"} => q.type = "historical_data"
  BY <1>3 DEF FilesInv, WorkInv
<1>7. q.query # << >>
  BY <1>5 DEF ReadCopied
<1>8. CASE Program.prog = "histjob" /\ GenHistJob(q)
  <2> HIDE DEF q, item
  <2>1. p.type = "contract_details"
        /\ \E i \in DOMAIN p.rows : NoDate(Expiry(p.rows[i].value.parts.summary[1]))
    BY <1>1, <1>4, <1>5, <1>6, <1>8, GenHistJobReadable
  <2>2. QED
    BY <1>8, <2>1 DEF NotForReading
<1>9. CASE Program.prog = "twsdo" /\ AddRequest(q)
  BY <1>1, <1>9 DEF AddRequest
<1>10. CASE Program.prog \in {"csv", "noconv"} /\ GenCsv(q)
  <2>1. Program.prog = "csv" /\ ~CsvLines(q).good
    BY <1>1, <1>10 DEF GenCsv
  <2> HIDE DEF q, p, item
  <2>2. /\ p.type = "historical_data" /\ p.rows # << >>
        /\ \/ NoDate(Expiry(p.query[1].parts.reqContract[1]))
           \/ \E i \in DOMAIN p.rows :
                p.rows[i].name = "row" /\ ~IsDate(p.rows[i].value.fields.date)
    BY <1>5, <1>6, <1>10, <2>1, CsvReadable
  <2>3. QED
    BY <2>1, <2>2 DEF NotForReading
<1>11. QED
  BY <1>7, <1>8, <1>9, <1>10 DEF HandlePacket

(* "The tools read each other's files": a program aborts only on what was  *)
(* not written for it to read.                                             *)
THEOREM OwnFilesRead == Spec => []OwnFilesReadable
<1>1. Init => OwnFilesReadable
  BY DEF Init, OwnFilesReadable
<1>2. ASSUME FilesInv, OwnFilesReadable, [Next]_vars PROVE OwnFilesReadable'
  <2>1. SUFFICES ASSUME pc' = "aborted" PROVE OwnFilesReadable'
    BY DEF OwnFilesReadable
  <2>2. CASE UNCHANGED vars
    <3>1. pc' = pc /\ parsed' = parsed /\ file' = file /\ plan' = plan
      BY <2>2 DEF vars, streamVars
    <3>2. QED
      BY <1>2, <3>1 DEF OwnFilesReadable, NotForReading, Program
  <2>3. CASE ReadElement
    BY <1>2, <2>1, <2>3, ElementReadable
  <2>4. CASE HandlePacket
    BY <1>2, <2>1, <2>4, PacketReadable
  <2>5. CASE Start \/ Read \/ NextRoot \/ Quit
    BY <2>1, <2>5 DEF Start, Read, NextRoot, Between, Quit
  <2>6. CASE End \/ Abort \/ Kill
    BY <2>1, <2>6 DEF End, Abort, Kill, CutShort, Exit
  <2>7. CASE \E t \in Types : \E i \in DOMAIN todo[t] : Answer(t, i)
    BY <2>1, <2>7 DEF Answer
  <2>8. QED
    BY <1>2, <2>2, <2>3, <2>4, <2>5, <2>6, <2>7 DEF Next, Work
<1>3. QED
  BY <1>1, <1>2, FilesInvHolds, PTL DEF Spec

(***************************************************************************)
(* JobsComplete.                                                           *)
(***************************************************************************)

(* The first n documents that were read.                                   *)
Docs(n) == [i \in 1..n |-> file.docs[parsed[i]]]

AllOwn == \A i \in DOMAIN parsed : file.docs[parsed[i]].packet # << >>

(* The output has the jobs for some documents.                             *)
JobsDone(docs, output) ==
  \E kept : CopiesOf(Live(ContractsOf(docs)), kept) /\ output = JobsOf(kept)

(* Of the last document they are made when nothing of it is left.          *)
DocsDone == IF elements = << >> /\ packets = << >> THEN Len(parsed) ELSE Len(parsed) - 1

JobsInv ==
  /\ pc = "idle" => out = << >>
  /\ pc = "answering" => Program.prog = "twsdo"
  /\ pc = "ended" /\ Program.prog = "histjob" => elements = << >> /\ packets = << >>
  /\ pc \in {"reading", "ended"} /\ Program.prog = "histjob" /\ ~BadOptions /\ AllOwn =>
       /\ elements = << >> \/ packets = << >>
       /\ Len(packets) <= 1
       /\ JobsDone(Docs(DocsDone), out)

(* Which jobs are made for documents depends on the program only.          *)
LEMMA JobsDoneSame ==
  ASSUME plan' = plan, NEW docs, NEW output
  PROVE  JobsDone(docs, output)' <=> JobsDone(docs, output)
<1>1. Program' = Program
  BY DEF Program
<1>2. Duration' = Duration
  BY <1>1 DEF Duration
<1>3. ASSUME NEW c PROVE JobContract(c)' = JobContract(c)
  BY <1>1 DEF JobContract
<1>4. ASSUME NEW contracts PROVE JobsOf(contracts)' = JobsOf(contracts)
  <2>1. ASSUME NEW k PROVE JobAt(contracts, k)' = JobAt(contracts, k)
    <3>1. ASSUME NEW c, NEW w PROVE Job(c, w)' = Job(c, w)
      BY <1>1, <1>2 DEF Job
    <3>2. ASSUME NEW p PROVE Document(p, << >>)' = Document(p, << >>)
      BY <1>1 DEF Document
    <3>3. QED
      BY <1>1, <1>3, <3>1, <3>2 DEF JobAt
  <2>2. QED
    BY <1>1, <2>1 DEF JobsOf
<1>5. ASSUME NEW contracts PROVE Live(contracts)' = Live(contracts)
  <2>1. ASSUME NEW c PROVE Expired(c)' <=> Expired(c)
    BY <1>1, <1>2 DEF Expired
  <2>2. QED
    BY <2>1 DEF Live
<1>6. QED
  BY <1>4, <1>5 DEF JobsDone

(* A step that changes nothing of it.                                      *)
LEMMA JobsInvSame ==
  ASSUME JobsInv, plan' = plan, file' = file, parsed' = parsed, elements' = elements,
         packets' = packets, out' = out, pc' = pc
  PROVE  JobsInv'
<1>1. Program' = Program /\ BadOptions' = BadOptions /\ AllOwn' = AllOwn /\ DocsDone' = DocsDone
  BY DEF Program, BadOptions, AllOwn, DocsDone
<1>2. Docs(DocsDone)' = Docs(DocsDone)
  BY <1>1 DEF Docs
<1>3. JobsDone(Docs(DocsDone), out)' <=> JobsDone(Docs(DocsDone), out)
  BY <1>1, <1>2, JobsDoneSame
<1>4. QED
  BY <1>1, <1>3 DEF JobsInv

(* Without documents there are no jobs.                                    *)
LEMMA NoDocs ==
  ASSUME NEW docs, docs = << >>, Len(Program.wts) \in Nat
  PROVE  JobsDone(docs, << >>)
<1>1. ContractsOf(docs) = << >>
  BY FlattenEmpty DEF ContractsOf
<1>2. Live(<< >>) = << >>
  BY FlattenEmpty DEF Live
<1>3. CopiesOf(<< >>, << >>)
  BY SeqShort DEF CopiesOf, AreContracts
<1>4. JobsOf(<< >>) = << >>
  BY DEF JobsOf
<1>5. QED
  BY <1>1, <1>2, <1>3, <1>4 DEF JobsDone

(* There is a number of whatToShow.                                        *)
LEMMA WtsCount ==
  ASSUME FilesInv, plan # << >>, Program.prog = "histjob"
  PROVE  Len(Program.wts) \in Nat
<1>1. IsSeq(Program.wts)
  BY ProgramIs DEF FilesInv, IsProgram
<1>2. QED
  BY <1>1, SeqDomain

(* A program starts without any output.                                    *)
LEMMA StartJobs ==
  ASSUME FilesInv, JobsInv, Start
  PROVE  JobsInv'
<1>1. /\ pc = "idle" /\ plan # << >> /\ plan' = plan /\ file' = file
      /\ pc' = IF BadOptions THEN "ended" ELSE "reading"
      /\ elements' = elements /\ packets' = packets /\ out' = out /\ parsed' = << >>
  BY DEF Start, given, OpenFile
<1>2. elements = << >> /\ packets = << >> /\ out = << >>
  BY <1>1 DEF FilesInv, PcInv, OriginInv, JobsInv
<1>3. Program' = Program /\ BadOptions' = BadOptions
  BY <1>1 DEF Program, BadOptions
<1>4. Len(packets') = 0 /\ Len(parsed') = 0
  BY <1>1, <1>2
<1>5. ASSUME Program.prog = "histjob" PROVE JobsDone(Docs(DocsDone), out)'
  <2>1. DocsDone' = 0
    BY <1>1, <1>2, <1>4 DEF DocsDone
  <2>2. Docs(DocsDone)' = << >>
    BY <2>1 DEF Docs
  <2>3. JobsDone(<< >>, << >>)
    BY <1>1, <1>5, WtsCount, NoDocs
  <2>4. JobsDone(<< >>, << >>)'
    BY <1>1, <2>3, JobsDoneSame
  <2>5. QED
    BY <1>1, <1>2, <2>2, <2>4
<1>6. QED
  BY <1>1, <1>2, <1>3, <1>4, <1>5 DEF JobsInv

(* One more document; its jobs are to be made.                             *)
LEMMA NextRootJobs ==
  ASSUME FilesInv, JobsInv, NextRoot
  PROVE  JobsInv'
<1>1. /\ pc = "reading" /\ packets = << >> /\ elements = << >>
      /\ plan' = plan /\ file' = file /\ packets' = << >> /\ out' = out
      /\ pc' = IF NextDoc # 0 THEN "reading"
               ELSE IF Program.prog = "twsdo" THEN "answering" ELSE "ended"
      /\ elements' = IF NextDoc # 0 /\ file.docs[NextDoc].doc.root = "TWSXML"
                     THEN file.docs[NextDoc].doc.nodes ELSE << >>
      /\ parsed' = IF NextDoc = 0 THEN parsed ELSE Append(parsed, NextDoc)
  BY DEF NextRoot, NextXmlDoc, Between, given
<1>2. Program' = Program /\ BadOptions' = BadOptions
  BY <1>1 DEF Program, BadOptions
<1>3. IsSeq(parsed) /\ Len(parsed) \in Nat /\ DOMAIN parsed = 1..Len(parsed)
  BY SeqDomain DEF FilesInv, FileInv
<1>4. DocsDone = Len(parsed) /\ Len(packets') = 0
  BY <1>1 DEF DocsDone
<1>5. CASE NextDoc = 0
  <2>1. parsed' = parsed /\ elements' = << >> /\ pc' \in {"answering", "ended"}
    BY <1>1, <1>5
  <2>2. AllOwn' = AllOwn /\ DocsDone' = DocsDone
    BY <1>1, <2>1 DEF AllOwn, DocsDone
  <2>3. Docs(DocsDone)' = Docs(DocsDone)
    BY <1>1, <2>1, <2>2 DEF Docs
  <2>4. JobsDone(Docs(DocsDone), out)' <=> JobsDone(Docs(DocsDone), out)
    BY <1>1, <2>3, JobsDoneSame
  <2>5. pc' = "answering" => Program.prog = "twsdo"
    BY <1>1, <1>5
  <2>6. QED
    BY <1>1, <1>2, <1>4, <2>1, <2>2, <2>4, <2>5 DEF JobsInv
<1>6. CASE NextDoc # 0
  <2> DEFINE item == file.docs[NextDoc]
             n == Len(parsed)
  <2>1. parsed' = Append(parsed, NextDoc) /\ pc' = "reading"
    BY <1>1, <1>6
  <2>2. /\ IsSeq(parsed') /\ Len(parsed') = n + 1 /\ DOMAIN parsed' = 1..(n + 1)
        /\ parsed'[n + 1] = NextDoc
        /\ \A i \in 1..n : parsed'[i] = parsed[i]
    BY <1>3, <2>1, SeqAppend
  <2>3. ASSUME AllOwn' PROVE AllOwn /\ item.packet # << >>
    <3>1. \A i \in 1..(n + 1) : file.docs[parsed'[i]].packet # << >>
      BY <1>1, <2>2, <2>3 DEF AllOwn
    <3>2. n + 1 \in 1..(n + 1) /\ \A i \in 1..n : i \in 1..(n + 1)
      BY <1>3
    <3>3. QED
      BY <1>3, <2>2, <3>1, <3>2 DEF AllOwn
  <2>4. ASSUME item.packet # << >> PROVE elements' # << >>
    <3>1. NextXmlDoc
      BY DEF NextRoot
    <3>2. IsItem(item) /\ item.kind = "doc"
      BY <1>6, <3>1, NextDocIs DEF FilesInv, GivenInv, IsFile
    <3>3. item.doc.root = "TWSXML" /\ Len(item.doc.nodes) = 1
      BY <2>4, <3>2 DEF IsItem, MadeFrom
    <3>4. elements' = item.doc.nodes
      BY <1>1, <1>6, <3>3
    <3> DEFINE nodes == item.doc.nodes
    <3>5. Len(nodes) = 1 /\ elements' = nodes
      BY <3>3, <3>4
    <3> HIDE DEF nodes
    <3>6. nodes # << >>
      BY <3>5, SeqShort
    <3>7. QED
      BY <3>5, <3>6
  <2>5. ASSUME elements' # << >> PROVE DocsDone' = n
    BY <1>3, <2>2, <2>5 DEF DocsDone
  <2>6. ASSUME DocsDone' = n PROVE Docs(DocsDone)' = Docs(DocsDone)
    BY <1>1, <1>4, <2>2, <2>6 DEF Docs
  <2>7. ASSUME DocsDone' = n, JobsDone(Docs(DocsDone), out) PROVE JobsDone(Docs(DocsDone), out)'
    BY <1>1, <2>6, <2>7, JobsDoneSame
  <2> HIDE DEF n, item
  <2>8. QED
    BY <1>1, <1>2, <1>4, <2>1, <2>3, <2>4, <2>5, <2>7 DEF JobsInv
<1>7. QED
  BY <1>5, <1>6

(* The one element of the last document becomes one packet.                *)
LEMMA ReadElementJobs ==
  ASSUME FilesInv, JobsInv, ReadElement
  PROVE  JobsInv'
<1> DEFINE element == Head(elements)
           types == PacketTypes(element)
<1>1. /\ pc = "reading" /\ packets = << >> /\ elements # << >>
      /\ plan' = plan /\ file' = file /\ out' = out /\ parsed' = parsed
      /\ packets' = [i \in DOMAIN types |-> PacketOf(types[i], element)]
      /\ pc' \in {pc, "aborted"} /\ elements' = Tail(elements)
  BY DEF ReadElement, given, streamVars
<1>2. Program' = Program /\ BadOptions' = BadOptions /\ AllOwn' = AllOwn
  BY <1>1 DEF Program, BadOptions, AllOwn
<1>3. parsed # << >> /\ IsSeq(parsed) /\ Len(parsed) \in DOMAIN parsed
      /\ Last(parsed) = parsed[Len(parsed)]
  <2>1. parsed # << >> /\ IsSeq(parsed)
    BY <1>1 DEF FilesInv, OriginInv, FileInv
  <2>2. QED
    BY <2>1, SeqEmpty DEF Last
<1> HIDE DEF element
<1>4. ASSUME Program.prog = "histjob", AllOwn
      PROVE  elements' = << >> /\ Len(packets') = 1 /\ packets' # << >>
  <2> DEFINE item == file.docs[Last(parsed)]
  <2>1. item.packet # << >>
    BY <1>3, <1>4 DEF AllOwn
  <2>2. elements \in {<< >>, <<item.doc.nodes[1]>>}
    BY <1>3, <2>1 DEF FilesInv, OriginInv
  <2>3. elements = <<item.doc.nodes[1]>>
    BY <1>1, <2>2
  <2>4. elements' = << >>
    BY <1>1, <2>3
  <2>5. types = <<"contract_details">>
    BY <1>4 DEF PacketTypes
  <2> HIDE DEF types
  <2> DEFINE x == PacketOf("contract_details", element)
  <2>6. DOMAIN types = {1} /\ types[1] = "contract_details"
    BY <2>5
  <2>7. packets' = [i \in {1} |-> x]
    BY <1>1, <2>6
  <2> HIDE DEF x
  <2>8. packets' = <<x>>
    BY <2>7
  <2>9. QED
    BY <2>4, <2>8
<1>5. ASSUME Program.prog = "histjob", AllOwn, JobsDone(Docs(DocsDone), out)
      PROVE  JobsDone(Docs(DocsDone), out)'
  <2>1. DocsDone = Len(parsed) - 1 /\ DocsDone' = Len(parsed) - 1
    BY <1>1, <1>4, <1>5 DEF DocsDone
  <2>2. Docs(DocsDone)' = Docs(DocsDone)
    BY <1>1, <2>1 DEF Docs
  <2>3. QED
    BY <1>1, <1>5, <2>2, JobsDoneSame
<1> HIDE DEF types
<1>6. /\ pc' # "idle" /\ pc' # "answering" /\ pc' # "ended"
      /\ pc' = "reading" => pc = "reading"
  BY <1>1
<1>7. ASSUME pc' = "reading", (Program.prog = "histjob")', ~BadOptions', AllOwn'
      PROVE  /\ (elements = << >> \/ packets = << >>)' /\ Len(packets)' <= 1
             /\ JobsDone(Docs(DocsDone), out)'
  <2>1. Program.prog = "histjob" /\ ~BadOptions /\ AllOwn
    BY <1>2, <1>7
  <2>2. JobsDone(Docs(DocsDone), out)
    BY <1>1, <2>1 DEF JobsInv
  <2>3. elements' = << >> /\ Len(packets') = 1
    BY <1>4, <2>1
  <2>4. JobsDone(Docs(DocsDone), out)'
    BY <1>5, <2>1, <2>2
  <2>5. QED
    BY <2>3, <2>4
<1>8. QED
  BY <1>6, <1>7 DEF JobsInv

(* The jobs for one more document.                                         *)
LEMMA JobsOfOneMore ==
  ASSUME NEW docs, IsSeq(docs), \A i \in DOMAIN docs : IsItem(docs[i]) /\ docs[i].kind = "doc",
         NEW item, IsItem(item), item.kind = "doc", item.packet # << >>,
         NEW q, IsPacket(q), q.type = "contract_details", ReadCopied(item.packet[1], q),
         \A i \in DOMAIN ContractsIn(q) : ~NoDate(Expiry(ContractsIn(q)[i])),
         NEW output, JobsDone(docs, output), Len(Program.wts) \in Nat
  PROVE  JobsDone(Append(docs, item),
                  output \o JobsOf(Kept(ContractsIn(q), MinBeginDate(Program.end, Duration))))
<1> DEFINE begin == MinBeginDate(Program.end, Duration)
           more == Append(docs, item)
           before == ContractsOf(docs)
           t == ContractsIn0(item)
           keptT == Kept(ContractsIn(q), begin)
<1>1. PICK kept : CopiesOf(Live(before), kept) /\ output = JobsOf(kept)
  BY DEF JobsDone
<1>2. CopiesOf(t, ContractsIn(q))
  <2>1. IsPacket(item.packet[1])
    BY DEF IsItem, MadeFrom
  <2>2. QED
    BY <2>1, ContractsCopied
<1>3. CopiesOf(Live(t), keptT)
  BY <1>2, LiveKept
<1>4. ContractsOf(more) = before \o t /\ IsSeq(before)
  <2>1. AreContracts(t) /\ \A i \in DOMAIN docs : AreContracts(ContractsIn0(docs[i]))
    BY ItemContracts
  <2>2. QED
    BY <2>1, ContractsOfMore
<1>5. IsSeq(t)
  BY <1>2 DEF CopiesOf, AreContracts
<1> HIDE DEF begin, more, before, t
<1>6. Live(ContractsOf(more)) = Live(before) \o Live(t)
  BY <1>4, <1>5, LiveConcat
<1> HIDE DEF keptT
<1>7. CopiesOf(Live(before) \o Live(t), kept \o keptT)
  BY <1>1, <1>3, CopiesConcat
<1>8. JobsOf(kept \o keptT) = JobsOf(kept) \o JobsOf(keptT)
  <2>1. AreContracts(kept) /\ AreContracts(keptT)
    BY <1>1, <1>3 DEF CopiesOf
  <2>2. QED
    BY <2>1, JobsConcat
<1>9. JobsDone(more, output \o JobsOf(keptT))
  BY <1>1, <1>6, <1>7, <1>8 DEF JobsDone
<1>10. QED
  BY <1>9 DEF more, keptT, begin

(* The jobs for the contracts of the packet are made.                      *)
LEMMA HandleJobs ==
  ASSUME FilesInv, JobsInv, HandlePacket
  PROVE  JobsInv'
<1> DEFINE q == Head(packets)
           item == file.docs[Last(parsed)]
           n == Len(parsed)
<1>1. /\ pc = "reading" /\ packets # << >> /\ packets' = Tail(packets)
      /\ plan' = plan /\ file' = file /\ elements' = elements /\ parsed' = parsed
  BY DEF HandlePacket, given, streamVars
<1>2. Program' = Program /\ BadOptions' = BadOptions /\ AllOwn' = AllOwn
  BY <1>1 DEF Program, BadOptions, AllOwn
<1>3. pc' \in {pc, "aborted"}
  BY HandleOut
<1>4. SUFFICES ASSUME pc' = pc, Program.prog = "histjob", ~BadOptions, AllOwn
               PROVE  elements' = << >> /\ packets' = << >> /\ JobsDone(Docs(DocsDone), out)'
  <2>1. /\ pc' # "idle" /\ pc' # "answering" /\ pc' # "ended"
        /\ pc' = "reading" => pc' = pc
    BY <1>1, <1>3
  <2>2. packets' = << >> => Len(packets') = 0
    OBVIOUS
  <2> HIDE DEF q, item, n
  <2>3. QED
    BY <1>2, <1>4, <2>1, <2>2 DEF JobsInv
<1>5. elements = << >> /\ Len(packets) <= 1 /\ JobsDone(Docs(DocsDone), out)
  BY <1>1, <1>4 DEF JobsInv
<1>6. 1 \in DOMAIN packets /\ q = packets[1] /\ packets' = << >>
  <2>1. /\ 1 \in DOMAIN packets /\ q = packets[1] /\ IsSeq(Tail(packets))
        /\ Len(Tail(packets)) = Len(packets) - 1 /\ IsSeq(packets)
    BY <1>1, SeqHeadTail DEF FilesInv, WorkInv
  <2>2. Len(packets) \in Nat /\ Len(Tail(packets)) \in Nat
    BY <2>1, SeqDomain
  <2> DEFINE a == Len(packets)
             b == Len(Tail(packets))
  <2>3. a \in Nat /\ b \in Nat /\ a <= 1 /\ b = a - 1
    BY <1>5, <2>1, <2>2
  <2> HIDE DEF a, b
  <2>4. b = 0
    BY <2>3
  <2>5. Tail(packets) = << >>
    BY <2>1, <2>4, SeqEmpty DEF b
  <2>6. QED
    BY <1>1, <2>1, <2>5
<1>7. /\ parsed # << >> /\ IsItem(item) /\ item.kind = "doc"
      /\ item.packet # << >> => ReadCopied(item.packet[1], q)
  BY <1>6, OriginIs
<1>8. IsSeq(parsed) /\ n \in DOMAIN parsed /\ DOMAIN parsed = 1..n /\ n \in Nat
      /\ Last(parsed) = parsed[n]
  <2>1. IsSeq(parsed)
    BY DEF FilesInv, FileInv
  <2>2. QED
    BY <1>7, <2>1, SeqEmpty, SeqDomain DEF Last
<1>9. item.packet # << >>
  BY <1>4, <1>8 DEF AllOwn
<1>10. IsPacket(q) /\ q.type = "contract_details" /\ Len(Program.wts) \in Nat
  <2>1. plan # << >>
    BY <1>1 DEF FilesInv, GivenInv
  <2>2. QED
    BY <1>4, <1>6, <2>1, WtsCount DEF FilesInv, WorkInv
<1>11. GenHistJob(q)
  BY <1>1, <1>4 DEF HandlePacket
<1> DEFINE jobs == JobsOf(Kept(ContractsIn(q), MinBeginDate(Program.end, Duration)))
<1>12. /\ out' = out \o jobs
       /\ \A i \in DOMAIN ContractsIn(q) : ~NoDate(Expiry(ContractsIn(q)[i]))
  <2> HIDE DEF q
  <2>1. pc' # "aborted"
    BY <1>1, <1>4
  <2>2. PICK good : /\ out' = out \o JobsOf(Kept(good, MinBeginDate(Program.end, Duration)))
                    /\ good = ContractsIn(q) /\ \A i \in DOMAIN good : ~NoDate(Expiry(good[i]))
    BY <1>10, <1>11, <2>1, GenHistJobIs
  <2>3. QED
    BY <2>2
<1> DEFINE docs == Docs(n - 1)
<1>13. DocsDone = n - 1 /\ DocsDone' = n
  BY <1>1, <1>5, <1>6 DEF DocsDone
<1>14. IsSeq(docs) /\ Len(docs) = n - 1 /\ DOMAIN docs = 1..(n - 1)
       /\ \A i \in 1..(n - 1) : docs[i] = file.docs[parsed[i]]
  <2> DEFINE m == n - 1
  <2>1. docs = [i \in 1..m |-> file.docs[parsed[i]]]
    BY DEF Docs
  <2>2. m \in Nat
    BY <1>8
  <2> HIDE DEF docs, m
  <2>3. docs = [i \in 1..m |-> docs[i]] /\ \A i \in 1..m : docs[i] = file.docs[parsed[i]]
    BY <2>1
  <2>4. IsSeq(docs) /\ Len(docs) = m /\ DOMAIN docs = 1..m
    BY <2>2, <2>3, SeqOfLength
  <2>5. QED
    BY <2>3, <2>4 DEF m
<1>15. \A i \in DOMAIN docs : IsItem(docs[i]) /\ docs[i].kind = "doc"
  <2> HIDE DEF docs
  <2>1. ASSUME NEW i \in 1..(n - 1) PROVE IsItem(docs[i]) /\ docs[i].kind = "doc"
    <3>1. i \in DOMAIN parsed /\ docs[i] = file.docs[parsed[i]]
      BY <1>8, <1>14
    <3>2. QED
      BY <3>1 DEF FilesInv, FileInv, GivenInv, IsFile
  <2>2. QED
    BY <1>14, <2>1
<1>16. Docs(DocsDone)' = Append(docs, item)
  <2> DEFINE more == Append(docs, item)
             m == n - 1
  <2>1. Docs(DocsDone)' = [i \in 1..n |-> file.docs[parsed[i]]]
    BY <1>1, <1>13 DEF Docs
  <2> HIDE DEF docs
  <2>2. m \in Nat /\ n = m + 1 /\ Len(docs) = m /\ IsSeq(docs)
        /\ \A i \in 1..m : docs[i] = file.docs[parsed[i]]
    BY <1>8, <1>14
  <2>3. item = file.docs[parsed[n]]
    BY <1>8
  <2> HIDE DEF item, n
  <2>4. /\ IsSeq(more) /\ Len(more) = m + 1 /\ more[m + 1] = item
        /\ \A i \in 1..m : more[i] = docs[i]
    BY <2>2, SeqAppend
  <2> HIDE DEF more, m
  <2>5. ASSUME NEW i \in 1..n PROVE more[i] = file.docs[parsed[i]]
    <3>1. CASE i = n
      BY <2>2, <2>3, <2>4, <3>1
    <3>2. CASE i # n
      <4>1. i \in 1..m
        BY <2>2, <3>2
      <4>2. QED
        BY <2>2, <2>4, <4>1
    <3>3. QED
      BY <3>1, <3>2
  <2>6. more = [i \in 1..n |-> more[i]]
    BY <2>2, <2>4 DEF IsSeq
  <2>7. more = [i \in 1..n |-> file.docs[parsed[i]]]
    BY <2>5, <2>6
  <2>8. QED
    BY <2>1, <2>7 DEF more
<1>17. JobsDone(docs, out)
  BY <1>5, <1>13
<1>18. JobsDone(Append(docs, item), out \o jobs)
  <2> HIDE DEF docs, item, q
  <2>1. QED
    BY <1>7, <1>9, <1>10, <1>12, <1>14, <1>15, <1>17, JobsOfOneMore
<1> HIDE DEF docs, item, q, jobs
<1>19. JobsDone(Docs(DocsDone), out)'
  BY <1>1, <1>12, <1>16, <1>18, JobsDoneSame
<1>20. QED
  BY <1>1, <1>5, <1>6, <1>19

(* Every step keeps it.                                                    *)
LEMMA JobsInvKept ==
  ASSUME FilesInv, JobsInv, [Next]_vars
  PROVE  JobsInv'
<1>1. CASE UNCHANGED vars
  <2>1. /\ plan' = plan /\ file' = file /\ parsed' = parsed /\ elements' = elements
        /\ packets' = packets /\ out' = out /\ pc' = pc
    BY <1>1 DEF vars, streamVars
  <2>2. QED
    BY <2>1, JobsInvSame
<1>2. CASE Start
  BY <1>2, StartJobs
<1>3. CASE Read
  <2>1. /\ plan' = plan /\ file' = file /\ parsed' = parsed /\ elements' = elements
        /\ packets' = packets /\ out' = out /\ pc' = pc
    BY <1>3 DEF Read, ReadChunk, given
  <2>2. QED
    BY <2>1, JobsInvSame
<1>4. CASE NextRoot
  BY <1>4, NextRootJobs
<1>5. CASE ReadElement
  BY <1>5, ReadElementJobs
<1>6. CASE HandlePacket
  BY <1>6, HandleJobs
<1>7. CASE Quit \/ \E t \in Types : \E i \in DOMAIN todo[t] : Answer(t, i)
  <2>1. pc = "answering" /\ pc' \in {"answering", "ended"} /\ plan' = plan
    BY <1>7 DEF Quit, Answer, given
  <2>2. Program' = Program /\ Program.prog = "twsdo"
    BY <2>1 DEF JobsInv, Program
  <2>3. (Program.prog)' = "twsdo"
    BY <2>2
  <2>4. QED
    BY <2>1, <2>3 DEF JobsInv
<1>8. CASE End \/ Abort \/ Kill
  <2>1. pc' = "idle" /\ out' = << >>
    BY <1>8 DEF End, Abort, Kill, CutShort, Exit
  <2>2. QED
    BY <2>1 DEF JobsInv
<1>9. QED
  BY <1>1, <1>2, <1>3, <1>4, <1>5, <1>6, <1>7, <1>8 DEF Next, Work

(* The output of twsgen -H in terms of the contracts it was made for.      *)
LEMMA JobsMean ==
  ASSUME FilesInv, JobsInv
  PROVE  JobsComplete
<1>1. SUFFICES ASSUME pc = "ended", Program.prog = "histjob", ~BadOptions, AllOwn
               PROVE  LET docs == [i \in DOMAIN parsed |-> file.docs[parsed[i]]]
                          live == Live(ContractsOf(docs))
                          n    == Len(Program.wts)
                      IN  /\ Len(out) = Len(live) * n
                          /\ \A i \in DOMAIN live, j \in 1..n :
                               LET query == out[(i - 1) * n + j].packet[1].query[1]
                               IN  /\ query.fields.whatToShow = Program.wts[j]
                                   /\ SameValue("Contract", JobContract(live[i]),
                                                query.parts.reqContract[1])
  BY DEF JobsComplete, AllOwn
<1> DEFINE docs == [i \in DOMAIN parsed |-> file.docs[parsed[i]]]
           live == Live(ContractsOf(docs))
           n == Len(Program.wts)
<1>2. elements = << >> /\ packets = << >> /\ JobsDone(Docs(DocsDone), out)
  BY <1>1 DEF JobsInv
<1>3. IsSeq(parsed)
  BY DEF FilesInv, FileInv
<1>4. Docs(DocsDone) = docs
  <2>1. DocsDone = Len(parsed) /\ DOMAIN parsed = 1..Len(parsed)
    BY <1>2, <1>3, SeqDomain DEF DocsDone
  <2>2. QED
    BY <2>1 DEF Docs
<1>5. n \in Nat
  <2>1. plan # << >>
    BY <1>1 DEF FilesInv, GivenInv
  <2>2. QED
    BY <1>1, <2>1, WtsCount
<1> HIDE DEF docs
<1>6. PICK kept : CopiesOf(live, kept) /\ out = JobsOf(kept)
  BY <1>2, <1>4 DEF JobsDone
<1> HIDE DEF live
<1>7. /\ IsSeq(kept) /\ IsSeq(live) /\ Len(live) = Len(kept)
      /\ \A i \in DOMAIN live : IsPart("Contract", live[i]) /\ PartCopied("Contract", live[i], kept[i])
      /\ \A i \in DOMAIN kept : IsPart("Contract", kept[i])
  BY <1>6 DEF CopiesOf, AreContracts
<1>8. Len(kept) \in Nat /\ DOMAIN kept = 1..Len(kept) /\ DOMAIN live = 1..Len(kept)
  BY <1>7, SeqDomain
<1>9. Len(out) = Len(live) * n
  BY <1>5, <1>6, <1>7 DEF JobsOf
<1>10. ASSUME NEW i \in DOMAIN live, NEW j \in 1..n
       PROVE  LET query == out[(i - 1) * n + j].packet[1].query[1]
              IN  /\ query.fields.whatToShow = Program.wts[j]
                  /\ SameValue("Contract", JobContract(live[i]), query.parts.reqContract[1])
  <2> DEFINE c == JobContract(kept[i])
             job == Job(c, Program.wts[j])
  <2>1. i \in 1..Len(kept)
    BY <1>8
  <2>2. out[(i - 1) * n + j].packet[1].query[1] = job
    BY <1>5, <1>6, <1>8, <2>1, JobFor
  <2>3. IsPart("Contract", c) /\ IsPart("Contract", JobContract(live[i]))
    BY <1>7, <1>8, <2>1, JobStruct
  <2>4. PartCopied("Contract", JobContract(live[i]), c)
    BY <1>7, <1>8, <2>1, JobContractCopied
  <2> HIDE DEF c
  <2>5. SameValue("Contract", JobContract(live[i]), c)
    BY <2>3, <2>4, ContractIsSame
  <2>6. job.fields.whatToShow = Program.wts[j] /\ job.parts.reqContract[1] = c
    BY DEF Job
  <2> HIDE DEF job
  <2>7. QED
    BY <2>2, <2>5, <2>6
<1>11. QED
  BY <1>9, <1>10 DEF live, docs

(* Whatever work file with contract details of its own the pipeline hands  *)
(* to twsgen -H: one job for each live contract and each of whatToShow.    *)
THEOREM EveryJobMade == Spec => []JobsComplete
<1>1. Init => JobsInv
  BY DEF Init, JobsInv
<1>2. FilesInv /\ JobsInv /\ [Next]_vars => JobsInv'
  BY JobsInvKept
<1>3. FilesInv /\ JobsInv => JobsComplete
  BY JobsMean
<1>4. QED
  BY <1>1, <1>2, <1>3, FilesInvHolds, PTL DEF Spec
=============================================================================
