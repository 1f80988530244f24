------------------------------ MODULE TwsFiles ------------------------------
(***************************************************************************)
(* The programs twsdo and twsgen as the stages of a pipeline: each reads   *)
(* the work file that the one before it wrote to its standard output.      *)
(* twsdo collects the requests of the file in its lists and writes the     *)
(* answers of the TWS (tws_meta.cpp, WorkTodo::read_file() and the packets)*)
(* twsgen -H makes jobs for historical data of contract details, twsgen -C *)
(* converts historical data (twsgen.cpp).  A program may be killed or end  *)
(* by an assert; then its output ends anywhere.                            *)
(*                                                                         *)
(* What twsdo does while it waits for the TWS is in TwsDL and Orders.      *)
(***************************************************************************)
EXTENDS XmlFields, XmlStream, HistJobs

(* What is tried: the programs to run one after the other (plan), the first*)
(* file, what the TWS knows (tws), and whether programs are killed.        *)
CONSTANT Cases

VARIABLES
  plan,     (* The programs to run, the first of them is running.          *)
  tws,      (* The answers of the TWS by type of request: rows.            *)
  kills,    (* How many programs may still be killed.                      *)
  file,     (* The file that is read: [docs, cells].                       *)
  pc,       (* "idle" between two programs, "reading", "answering",        *)
            (* "ended" or "aborted".                                       *)
  elements, (* The elements of the last document that are left: curNode.   *)
  packets,  (* What fromXml() made of the current one, to be handled yet.  *)
  todo,     (* The lists of twsdo, by type of request.                     *)
  out       (* Standard output: documents and lines of text.               *)

vars == <<plan, tws, kills, file, pc, elements, packets, todo, out, streamVars>>

Program == plan[1]

(***************************************************************************)
(* Packets and their documents.                                            *)
(***************************************************************************)

SimpleTypes == {"account", "executions", "open_orders"}

(* The element names and types of requests and rows.                       *)
QueryStruct ==
  [contract_details |-> "ContractDetailsRequest", historical_data |-> "HistRequest",
   place_order |-> "PlaceOrder", market_data |-> "MktDataRequest",
   opt_params |-> "OptParamsRequest", account |-> "AccStatusRequest",
   executions |-> "ExecutionsRequest", open_orders |-> "OrdersRequest"]

Types == DOMAIN QueryStruct

RowStruct ==
  [ContractDetails |-> "ContractDetails", row |-> "RowHist", fin |-> "RowHist",
   error |-> "RowError", OrderStatus |-> "RowOrderStatus", OpenOrder |-> "RowOpenOrder",
   AccVal |-> "RowAccVal", Prtfl |-> "RowPrtfl", stamp |-> "RowStamp", end |-> "RowEnd",
   ExecDetails |-> "RowExecution"]

(* A packet: query is empty for a NULL pointer, rows are [name, value], the*)
(* finishRow is the last row of closed historical data.                    *)
Packet(type, query, rows, closed) ==
  [type |-> type, query |-> query, rows |-> rows, closed |-> closed]

(* record() and append() of the answer of the TWS.                         *)
Answered(type, query, rows) == Packet(type, <<query>>, rows, TRUE)

(* What is written whatever the mode.                                      *)
AlwaysResponse == SimpleTypes \cup {"contract_details"}

(* dumpXml(), but for market data, which write nothing, and option         *)
(* parameters, which write text.                                           *)
PacketXml(p, verbose) ==
  [root  |-> "TWSXML",
   nodes |-> <<[tag      |-> "request", type |-> p.type,
                query    |-> <<ToXml(QueryStruct[p.type], p.query[1], verbose)>>,
                response |->
                  IF p.closed \/ p.type \in AlwaysResponse
                  THEN <<[i \in DOMAIN p.rows |->
                           [name |-> p.rows[i].name,
                            node |-> ToXml(RowStruct[p.rows[i].name],
                                           p.rows[i].value, verbose)]]>>
                  ELSE << >>]>>]

RowsOf(element) == IF element.response = << >> THEN << >> ELSE element.response[1]

Named(rows, name) ==
  FlattenSeq([i \in DOMAIN rows |-> IF rows[i].name = name THEN <<rows[i]>> ELSE << >>])

(* The rows of a name, read.                                               *)
ReadRows(rows, name) ==
  LET named == Named(rows, name)
  IN  [i \in DOMAIN named |->
         [name |-> name, value |-> FromXml(RowStruct[name], named[i].node)]]

(* The last fin counts.                                                    *)
ReadFin(rows) ==
  LET fins == ReadRows(rows, "fin") IN IF fins = << >> THEN << >> ELSE <<Last(fins)>>

(* fromXml() of the packet of a type; the type of the element is not looked*)
(* at.                                                                     *)
PacketOf(type, element) ==
  LET rows  == RowsOf(element)
      query == [i \in DOMAIN element.query |-> FromXml(QueryStruct[type], element.query[i])]
  IN  CASE type = "contract_details" ->
             Packet(type, query, ReadRows(rows, "ContractDetails"), FALSE)
        [] type = "historical_data" ->
             Packet(type, query, ReadRows(rows, "row") \o ReadFin(rows), ReadFin(rows) # << >>)
        [] OTHER -> Packet(type, query, << >>, FALSE)

(***************************************************************************)
(* Files.  A document in a file comes with the packet it was made from; a  *)
(* copy by twsgen -C --no-conv, with that of the original.  No program sees*)
(* these.                                                                  *)
(***************************************************************************)

Line(what) == [kind |-> "text", line |-> what]

Document(p, original) ==
  [kind   |-> "doc", doc |-> PacketXml(p, Program.verbose),
   packet |-> IF \E i \in DOMAIN original : original[i].type = p.type
              THEN original ELSE <<p>>]

(* A document by another hand.                                             *)
Foreign(doc) == [kind |-> "doc", doc |-> doc, packet |-> << >>]

(* A document grows with its rows.                                         *)
Size(item) == 2 + Len(RowsOf(item.doc.nodes[1]))

Sizes(docs) == [i \in DOMAIN docs |->
                  IF docs[i].kind = "text" \/ docs[i].doc.nodes = << >> THEN 2
                  ELSE Size(docs[i])]

(* dumpAndFree() ends each document with a form feed; a text has none.     *)
ItemCells(docs, i) ==
  IF docs[i].kind = "text" THEN <<PlainText>> ELSE Cells(i, Sizes(docs)[i]) \o <<FormFeed>>

FileOf(docs) ==
  [docs |-> docs, cells |-> FlattenSeq([i \in DOMAIN docs |-> ItemCells(docs, i)])]

(***************************************************************************)
(* What the programs are given.  Whatever an element of a file says, reading*)
(* it makes a packet, with rows of its kind.  An answer with historical    *)
(* data ends with fin.                                                     *)
(***************************************************************************)

RowNames ==
  [contract_details |-> {"ContractDetails"}, historical_data |-> {"row", "fin"},
   place_order |-> {"error", "OrderStatus", "OpenOrder"},
   account |-> {"AccVal", "Prtfl", "stamp", "end"}, executions |-> {"ExecDetails"},
   open_orders |-> {"OrderStatus", "OpenOrder"}, market_data |-> {}, opt_params |-> {}]

WrittenTypes == Types \ {"market_data", "opt_params"}

AreRows(type, rows) ==
  /\ IsSeq(rows)
  /\ \A i \in DOMAIN rows :
       /\ rows[i].name \in RowNames[type] /\ IsStruct(RowStruct[rows[i].name], rows[i].value)
       /\ type = "historical_data" => (rows[i].name = "fin" <=> i = Len(rows))

IsPacket(p) ==
  /\ p.type \in Types /\ IsSeq(p.query) /\ Len(p.query) <= 1
  /\ \A i \in DOMAIN p.query : IsStruct(QueryStruct[p.type], p.query[i])
  /\ AreRows(p.type, p.rows)
  /\ p.type = "historical_data" => (p.closed <=> p.rows # << >>)

(* The types of which a program reads the rows again.                      *)
RowsAgain == {"contract_details", "historical_data"}

(* As what an element is read.                                             *)
ReadAs(element) == RowsAgain \cup ({element.type} \cap (Types \ SimpleTypes))

IsElement(element) ==
  /\ IsSeq(RowsOf(element))
  /\ \A type \in ReadAs(element) : IsPacket(PacketOf(type, element))

(* What is read of an element is the packet it was made from, or has no    *)
(* rows.                                                                   *)
RowsCopied(a, b) ==
  /\ Len(a) = Len(b)
  /\ \A i \in DOMAIN a : a[i].name = b[i].name
                          /\ StructCopied(RowStruct[a[i].name], a[i].value, b[i].value)

ReadCopied(p, q) ==
  /\ q.query # << >>
  /\ p.type # q.type => q.rows = << >>
  /\ p.type = q.type =>
       /\ StructCopied(QueryStruct[p.type], p.query[1], q.query[1])
       /\ p.type \in RowsAgain => RowsCopied(p.rows, q.rows)

MadeFrom(doc, p) ==
  /\ p.type \in WrittenTypes /\ IsPacket(p) /\ Len(p.query) = 1
  /\ doc.root = "TWSXML" /\ Len(doc.nodes) = 1
  /\ LET element == doc.nodes[1]
     IN  /\ element.tag = "request" /\ element.type = p.type
         /\ RowsOf(element) # << >> => p.rows # << >>
         /\ \A type \in ReadAs(element) : ReadCopied(p, PacketOf(type, element))

IsItem(item) ==
  /\ item.kind \in {"doc", "text"}
  /\ item.kind = "doc" =>
       /\ IsSeq(item.doc.nodes) /\ \A i \in DOMAIN item.doc.nodes : IsElement(item.doc.nodes[i])
       /\ item.packet # << >> => DOMAIN item.packet = {1} /\ MadeFrom(item.doc, item.packet[1])

(* The cells are those of its documents, in any order.                     *)
IsFile(f) ==
  /\ IsSeq(f.docs) /\ \A i \in DOMAIN f.docs : IsItem(f.docs[i])
  /\ IsSeq(f.cells)
  /\ \A k \in DOMAIN f.cells :
       /\ f.cells[k] \in [doc : Nat, part : Nat]
       /\ f.cells[k].doc # 0 =>
            f.cells[k].doc \in DOMAIN f.docs /\ f.docs[f.cells[k].doc].kind = "doc"

IsTws(answers) ==
  /\ \A type \in WrittenTypes : AreRows(type, answers[type])
  /\ answers.historical_data # << >> /\ IsSeq(answers.opt_params)

IsProgram(program) ==
  /\ program.prog \in {"twsdo", "histjob", "csv", "noconv"} /\ program.verbose \in BOOLEAN
  /\ program.prog = "twsdo" => program.ask \subseteq SimpleTypes
  /\ program.prog = "histjob" => IsSeq(program.wts)

ASSUME CasesAssumption ==
  \A c \in Cases :
    /\ IsSeq(c.plan) /\ (\A i \in DOMAIN c.plan : IsProgram(c.plan[i]))
    /\ IsFile(c.file) /\ IsTws(c.tws) /\ c.kills \in Nat

(***************************************************************************)
(* twsdo reads its work: WorkTodo::read_req().                             *)
(***************************************************************************)

NoTodo == [t \in Types |-> << >>]

(* Faulty: a simple request is counted, not flagged.                       *)
AddCounted(list, type, query) ==
  Append(list, IF type \in SimpleTypes THEN New(QueryStruct[type]) ELSE query)

(* addSimpleRequest() sets a flag.                                         *)
Add(list, type, query) ==
  IF type \in SimpleTypes THEN <<New(QueryStruct[type])>> ELSE Append(list, query)

Simple(types) == [t \in Types |-> IF t \in types THEN Add(<< >>, t, << >>) ELSE << >>]

(* Faulty: a response is refused, be there something in it or not.         *)
HasResponse(element) == element.response # << >>

(* PacketPlaceOrder::fromXml() asserts on any element of a response.       *)
NotImplemented(element) == RowsOf(element) # << >>

(* What is no request, or of no known type, is ignored with a warning.     *)
Ignored(element) == element.tag # "request" \/ element.type \notin Types

(* The packets made of an element.  Market data are always asked for with  *)
(* contract details.                                                       *)
PacketTypes(element) ==
  CASE Program.prog = "histjob" -> <<"contract_details">>
    [] Program.prog \in {"csv", "noconv"} -> <<"historical_data">>
    [] Program.prog = "twsdo" /\ (Ignored(element) \/ element.type \in SimpleTypes) -> << >>
    [] Program.prog = "twsdo" /\ ~Ignored(element) /\ element.type = "market_data" ->
         <<"market_data", "contract_details">>
    [] OTHER -> <<element.type>>

(* The end of read_req().                                                  *)
AddRequest(p) ==
  /\ todo' = [todo EXCEPT ![p.type] = Add(@, p.type, p.query[1])]
  /\ UNCHANGED <<pc, out>>

(***************************************************************************)
(* twsgen.                                                                 *)
(***************************************************************************)

Duration == IF Program.dur # "" THEN Program.dur ELSE MaxDurations[Program.bar]

(* Options main() or gen_csv() do not accept.                              *)
BadOptions ==
  /\ Program.prog # "twsdo"
  /\ \/ Program.dur = "" /\ Program.bar \notin DOMAIN MaxDurations
     \/ Program.exp \notin {"auto", "always", "never", "keep"}
     \/ Program.prog # "histjob" /\ Program.max # "" /\ ~IsDate(Program.max)

JobContract(c) ==
  IF Program.exp = "keep" THEN c
  ELSE [c EXCEPT !.fields.includeExpired = IncludeExpired(Program.exp, c.fields.secType)]

(* HistRequest::initialize()                                               *)
Job(c, wts) ==
  [fields |-> [endDateTime |-> Program.end, durationStr |-> Duration,
               barSizeSetting |-> Program.bar, whatToShow |-> wts,
               useRTH |-> IF Program.rth THEN 1 ELSE 0,
               formatDate |-> IF Program.utc THEN 2 ELSE 1],
   parts  |-> [reqContract |-> <<c>>]]

Expiry(c) == c.fields.expiry

NoDate(expiry) == expiry # "" /\ ~IsDate(expiry)

(* Faulty: the rest is skipped with the first contract that has expired.   *)
KeptUpToExpired(contracts, begin) ==
  LET Expired(c) == SkipExpiry(Expiry(c), begin)
      first == SelectInSeq(contracts, Expired)
  IN  IF first = 0 THEN contracts ELSE SubSeq(contracts, 1, first - 1)

(* The contracts that have not expired.                                    *)
Kept(contracts, begin) ==
  FlattenSeq([i \in DOMAIN contracts |->
    IF SkipExpiry(Expiry(contracts[i]), begin) THEN << >> ELSE <<contracts[i]>>])

(* gen_hist_job() for one packet.  skip_expiry() asserts that an expiry is *)
(* a date; the jobs of the contracts before are written.                   *)
GenHistJob(p) ==
  LET all   == [i \in DOMAIN p.rows |-> p.rows[i].value.parts.summary[1]]
      first == SelectInSeq(all, LAMBDA c : NoDate(Expiry(c)))
      good  == IF first = 0 THEN all ELSE SubSeq(all, 1, first - 1)
      n     == Len(Program.wts)
      JobOf(c, wts) ==
        Document(Packet("historical_data", <<Job(JobContract(c), wts)>>, << >>, FALSE), << >>)
  IN  /\ \E kept \in {Kept(good, MinBeginDate(Program.end, Duration))} :
           out' = out \o [k \in 1..(Len(kept) * n) |->
                            JobOf(kept[1 + ((k - 1) \div n)], Program.wts[1 + ((k - 1) % n)])]
      /\ pc' = IF first = 0 THEN pc ELSE "aborted"
      /\ UNCHANGED todo

(* PacketHistData::dump(): a line for each row up to one that has no date. *)
CsvLines(p) ==
  LET query == p.query[1].fields
      c     == p.query[1].parts.reqContract[1]
      rows  == Named(p.rows, "row")
      bad   == IF NoDate(Expiry(c)) THEN 1
               ELSE SelectInSeq(rows, LAMBDA r : ~IsDate(r.value.fields.date))
      LineOf(r) == Line([bar |-> ShortBar(query.barSizeSetting),
                         wts |-> query.whatToShow, contract |-> c, row |-> r.value])
      lines == [i \in DOMAIN rows |-> LineOf(rows[i])]
  IN  IF bad = 0 \/ rows = << >> THEN [lines |-> lines, good |-> TRUE]
      ELSE [lines |-> SubSeq(lines, 1, bad - 1), good |-> FALSE]

(* gen_csv() for one packet, converted or not.                             *)
GenCsv(p) ==
  LET csv   == CsvLines(p)
      newer == Newer(Expiry(p.query[1].parts.reqContract[1]), Program.max)
  IN  /\ \/ newer /\ UNCHANGED <<out, pc>>
         \/ /\ ~newer /\ Program.prog = "csv"
            /\ out' = out \o csv.lines /\ pc' = IF csv.good THEN pc ELSE "aborted"
         \/ /\ ~newer /\ Program.prog = "noconv"
            /\ out' = Append(out, Document(p, file.docs[Last(parsed)].packet))
            /\ UNCHANGED pc
      /\ UNCHANGED todo

(***************************************************************************)
(* Reading.                                                                *)
(***************************************************************************)

given  == <<plan, tws, kills, file>>
reader == <<elements, packets, streamVars>>

(* The loop over nextXmlNode(): what fromXml() makes of the next element.  *)
(* The simple requests have no packet.                                     *)
ReadElement ==
  /\ pc = "reading" /\ packets = << >> /\ elements # << >>
  /\ LET element == Head(elements)
         types   == PacketTypes(element)
         simple  == {element.type} \cap SimpleTypes
     IN  /\ packets' = [i \in DOMAIN types |-> PacketOf(types[i], element)]
         /\ pc' = IF types = <<"place_order">> /\ NotImplemented(element)
                  THEN "aborted" ELSE pc
         /\ todo' = IF types = << >> /\ ~Ignored(element)
                    THEN [t \in Types |-> IF t \in simple THEN Add(todo[t], t, New(QueryStruct[t]))
                                          ELSE todo[t]]
                    ELSE todo
  /\ elements' = Tail(elements)
  /\ UNCHANGED <<given, out, streamVars>>

(* And what is done with it.  twsgen -H does not look at the query; all    *)
(* others follow a NULL pointer when there is none.                        *)
HandlePacket ==
  /\ pc = "reading" /\ packets # << >>
  /\ LET p == Head(packets)
     IN  \/ Program.prog = "histjob" /\ GenHistJob(p)
         \/ Program.prog = "twsdo" /\ p.query # << >> /\ AddRequest(p)
         \/ Program.prog \in {"csv", "noconv"} /\ p.query # << >> /\ GenCsv(p)
         \/ /\ Program.prog # "histjob" /\ p.query = << >>
            /\ pc' = "aborted" /\ UNCHANGED <<todo, out>>
  /\ packets' = Tail(packets)
  /\ UNCHANGED <<given, elements, streamVars>>

Between == pc = "reading" /\ packets = << >> /\ elements = << >>

Read ==
  /\ Between /\ ReadChunk
  /\ UNCHANGED <<given, pc, elements, packets, todo, out>>

(* nextXmlRoot(): other roots, and roots without an element, are passed    *)
(* over.                                                                   *)
NextRoot ==
  /\ Between
  /\ \/ /\ NextDoc # 0 /\ pc' = pc
        /\ elements' = IF file.docs[NextDoc].doc.root = "TWSXML"
                       THEN file.docs[NextDoc].doc.nodes ELSE << >>
     \/ /\ NextDoc = 0
        /\ pc' = IF Program.prog = "twsdo" THEN "answering" ELSE "ended"
        /\ UNCHANGED elements
  /\ NextXmlDoc
  /\ UNCHANGED <<given, packets, todo, out>>

(***************************************************************************)
(* twsdo works off its lists.                                              *)
(***************************************************************************)

(* Faulty: option parameters are forgotten.                                *)
NextTypeNoOpts ==
  LET types == <<"account", "executions", "open_orders", "contract_details",
                 "historical_data">>
      first == SelectInSeq(types, LAMBDA t : todo[t] # << >>)
  IN  IF first = 0 THEN "place_order" ELSE types[first]

(* nextReqType(); orders are placed when nothing else is to do.            *)
NextType ==
  LET types == <<"account", "executions", "open_orders", "contract_details",
                 "opt_params", "historical_data">>
      first == SelectInSeq(types, LAMBDA t : todo[t] # << >>)
  IN  IF first = 0 THEN "place_order" ELSE types[first]

(* Historical data in the order of the farms' pacing, orders as they are   *)
(* filled.                                                                 *)
AnyOrder == {"historical_data", "place_order"}

(* An order gets an id, if it has none, and the time when it was sent.     *)
Sent(type, query) ==
  IF type # "place_order" THEN query
  ELSE [query EXCEPT !.fields.orderId = IF @ = 0 THEN 1 + Len(out) ELSE @,
                     !.fields.time_sent = 1]

Dumped(type, query) ==
  IF type = "opt_params" THEN [i \in DOMAIN tws.opt_params |-> Line(tws.opt_params[i])]
  ELSE <<Document(Answered(type, Sent(type, query), tws[type]), << >>)>>

(* A request is answered, or the TWS has nothing to say on it.             *)
Answer(type, i) ==
  /\ pc = "answering" /\ type = NextType /\ i \in DOMAIN todo[type]
  /\ type \in AnyOrder \/ i = 1
  /\ \/ out' = out \o Dumped(type, todo[type][i])
     \/ type \notin SimpleTypes \cup {"place_order"} /\ out' = out
  /\ todo' = [todo EXCEPT ![type] = RemoveAt(@, i)]
  /\ UNCHANGED <<given, reader, pc>>

(* With market data the program goes on for ever.                          *)
Quit ==
  /\ pc = "answering" /\ \A t \in Types : todo[t] = << >>
  /\ pc' = "ended"
  /\ UNCHANGED <<given, reader, todo, out>>

(***************************************************************************)
(* Processes.                                                              *)
(***************************************************************************)

Init ==
  /\ \E c \in Cases : plan = c.plan /\ file = c.file /\ tws = c.tws /\ kills = c.kills
  /\ pc = "idle" /\ elements = << >> /\ packets = << >>
  /\ todo = NoTodo /\ out = << >>
  /\ stream = << >> /\ buf = << >> /\ bufSize = BufSize /\ scanned = 0
  /\ parsed = << >> /\ over = FALSE /\ whole = [cells |-> << >>, sizes |-> << >>]

(* gengetopt_check_opts(), main(), openFile(); initWork() for twsdo.       *)
Start ==
  /\ pc = "idle" /\ plan # << >>
  /\ OpenFile(file.cells, Sizes(file.docs))
  /\ pc' = IF BadOptions THEN "ended" ELSE "reading"
  /\ todo' = IF Program.prog = "twsdo" THEN Simple(Program.ask) ELSE NoTodo
  /\ UNCHANGED <<given, elements, packets, out>>

(* The next program gets the file.                                         *)
Exit(output) ==
  /\ file' = output /\ plan' = Tail(plan)
  /\ pc' = "idle" /\ elements' = << >> /\ packets' = << >>
  /\ todo' = NoTodo /\ out' = << >>
  /\ OpenFile(<< >>, << >>)
  /\ UNCHANGED tws

End == pc = "ended" /\ Exit(FileOf(out)) /\ UNCHANGED kills

(* What was not flushed is lost.                                           *)
CutShort ==
  \E n \in 0..Len(FileOf(out).cells) :
    Exit([docs |-> out, cells |-> SubSeq(FileOf(out).cells, 1, n)])

Abort == pc = "aborted" /\ CutShort /\ UNCHANGED kills

Kill == pc \in {"reading", "answering"} /\ kills > 0 /\ CutShort /\ kills' = kills - 1

Work ==
  \/ Start \/ Read \/ NextRoot \/ ReadElement \/ HandlePacket 
  \/ Quit \/ End \/ Abort
  \/ \E t \in Types : \E i \in DOMAIN todo[t] : Answer(t, i)

Next == Work \/ Kill

(* A program that can go on does, and the TWS answers.                     *)
Spec == Init /\ [][Next]_vars /\ WF_vars(Work)

(***************************************************************************)
(* Correctness.                                                            *)
(***************************************************************************)

(* The lists hold requests of their kind, at most one of a simple one; what*)
(* was searched of the buffer is in the buffer; what is read is the file,  *)
(* up to its end or the first text that is no document.                    *)
TypeOK ==
  /\ pc \in {"idle", "reading", "answering", "ended", "aborted"}
  /\ \A t \in Types : /\ t \in SimpleTypes => Len(todo[t]) <= 1
                       /\ \A i \in DOMAIN todo[t] :
                            DOMAIN todo[t][i].fields = FieldsOf(QueryStruct[t])
  /\ \A i \in DOMAIN parsed : parsed[i] \in DOMAIN file.docs
  /\ scanned <= Len(buf) /\ kills \in Nat
  /\ pc = "reading" => whole.cells = file.cells /\ ~over
  /\ pc \in {"answering", "ended"} /\ ~BadOptions => over

(* A number read again: "%.10g" is as near as its digits allow, the largest*)
(* number may become infinite, and what does not fit an int is lost.       *)
SameField(kind, a, b) ==
  CASE kind = "DOUBLE" /\ a = MaxDouble -> b \in {MaxDouble, Infinity}
    [] kind = "DOUBLE" /\ a # MaxDouble -> b - a \in -5..5 /\ (a \in -99..99 => b = a)
    [] kind = "INT" -> a \in -IntLimit..(IntLimit - 1) => b = a
    [] OTHER -> b = a

SameFields(t, a, b) ==
  /\ DOMAIN a.fields = DOMAIN b.fields
  /\ \A f \in DOMAIN a.fields : SameField(Schema[t].reads[f], a.fields[f], b.fields[f])

SamePart(t, a, b) ==
  /\ SameFields(t, a, b) /\ DOMAIN a.parts = DOMAIN b.parts
  /\ \A p \in DOMAIN a.parts :
       /\ Len(a.parts[p]) = Len(b.parts[p])
       /\ \A i \in DOMAIN a.parts[p] :
            SameFields(PartType[p], a.parts[p][i], b.parts[p][i])

SameValue(t, a, b) ==
  /\ SameFields(t, a, b) /\ DOMAIN a.parts = DOMAIN b.parts
  /\ \A p \in DOMAIN a.parts :
       /\ Len(a.parts[p]) = Len(b.parts[p])
       /\ \A i \in DOMAIN a.parts[p] :
            SamePart(PartType[p], a.parts[p][i], b.parts[p][i])

SameRows(a, b) ==
  /\ Len(a) = Len(b)
  /\ \A i \in DOMAIN a : a[i].name = b[i].name
                          /\ SameValue(RowStruct[a[i].name], a[i].value, b[i].value)

(* README: the response is kept "without any loss of information", "as     *)
(* original as possible".  What fromXml() makes of a document is the packet*)
(* dumpXml() made it from, field by field, with -x and without, however    *)
(* often it was copied since, but for what SameField() lets pass.          *)
Lossless ==
  \A i \in DOMAIN packets :
    LET q    == packets[i]
        item == file.docs[Last(parsed)]
    IN  \A j \in DOMAIN item.packet :
          LET p == item.packet[j]
          IN  p.type = q.type =>
                /\ SameValue(QueryStruct[p.type], p.query[1], q.query[1])
                /\ p.type \in RowsAgain => SameRows(p.rows, q.rows)

(* The contracts in the documents of a file, as twsdo had them in memory.  *)
ContractsOf(docs) ==
  FlattenSeq([i \in DOMAIN docs |->
    IF docs[i].packet = << >> \/ docs[i].packet[1].type # "contract_details" THEN << >>
    ELSE LET rows == docs[i].packet[1].rows
         IN  [j \in DOMAIN rows |-> rows[j].value.parts.summary[1]]])

Expired(c) ==
  LET begin == MinBeginDate(Program.end, Duration)
  IN  /\ Expiry(c) # ""
      /\ Calendar[Expiry(c)].day * DaySecs + Calendar[Expiry(c)].sec
           < begin.day * DaySecs + begin.sec

Live(contracts) ==
  FlattenSeq([i \in DOMAIN contracts |->
    IF Expired(contracts[i]) THEN << >> ELSE <<contracts[i]>>])

(* twsgen -H makes one job for each contract the TWS knew that has not     *)
(* expired, and each of whatToShow: none is left out or asked for twice,   *)
(* and it asks for the contract the TWS named.                             *)
JobsComplete ==
  pc = "ended" /\ Program.prog = "histjob" /\ ~BadOptions
    /\ (\A i \in DOMAIN parsed : file.docs[parsed[i]].packet # << >>) =>
    LET docs == [i \in DOMAIN parsed |-> file.docs[parsed[i]]]
        live == Live(ContractsOf(docs))
        n    == Len(Program.wts)
    IN  /\ Len(out) = Len(live) * n
        /\ \A i \in DOMAIN live, j \in 1..n :
             LET query == out[(i - 1) * n + j].packet[1].query[1]
             IN  /\ query.fields.whatToShow = Program.wts[j]
                 /\ SameValue("Contract", JobContract(live[i]), query.parts.reqContract[1])

(* min_begin_date(), "first business day data is expected": a business day *)
(* with as many business days up to the end as the duration has days, or   *)
(* one when the duration is less than a day and the end on a weekend.      *)
BeginsOnBusinessDay ==
  pc = "reading" /\ Program.prog = "histjob" /\ IsDate(Program.end)
    /\ Duration2Secs(Duration) # -1 =>
    BeginsWell(Program.end, Duration)

(* A packet no program reads again without an assert.                      *)
NotForReading(p) ==
  CASE Program.prog = "twsdo"   -> p.type = "place_order" /\ p.rows # << >>
    [] Program.prog = "histjob" ->
         p.type = "contract_details" /\ \E i \in DOMAIN p.rows :
           NoDate(Expiry(p.rows[i].value.parts.summary[1]))
    [] Program.prog = "csv"     ->
         p.type = "historical_data" /\ p.rows # << >>
           /\ (NoDate(Expiry(p.query[1].parts.reqContract[1]))
               \/ \E i \in DOMAIN p.rows :
                    p.rows[i].name = "row" /\ ~IsDate(p.rows[i].value.fields.date))
    [] OTHER -> FALSE

(* The tools read each other's files: a program aborts only on a document  *)
(* by another hand, the rows of an order, an expiry that is a month, or    *)
(* dates that --utc asked for.                                             *)
OwnFilesReadable ==
  pc = "aborted" =>
    LET item == file.docs[Last(parsed)]
    IN  item.packet = << >> \/ NotForReading(item.packet[1])

(* All programs come to an end, but for one that shows market data.        *)
Ends == <>(plan = << >> \/ todo.market_data # << >>)
=============================================================================
