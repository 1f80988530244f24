# Verification of twstools

twsdo reads a work file of requests, connects to Interactive Brokers' Trader
Workstation (the TWS), asks for one thing at a time, and writes each answer as
XML. twsgen reads such answers and makes new work files, or csv, of them. This
directory holds TLA+ modules that model both, the TLC configurations that
explore them on small instances, and proofs for the TLA+ proof system. File
names below are those of `src/src/`.

## The system

| Part | Source | State | Operations | What makes it correct |
|---|---|---|---|---|
| Event loop `TwsDL` | twsdo.cpp | `state`, connectivity, heart-beat, order id, current request and packet | `connectTws`, `waitTwsCon`, `idle`, `waitData`, `fin*`, `req*`, `twsError`, `twsConnectionClosed`, answer callbacks | request, packet and job agree; no answer is taken for another; every job ends |
| Work lists | tws_meta.cpp | `HistTodo`: left, checked out, done, errors; `ContractDetailsTodo`, `OptParamsTodo`: an index | checkout, repeat, done, skip | no job lost or doubled |
| Packets | tws_meta.cpp | mode, error, rows | record, append, close, dump | the first verdict stands, each answer written once |
| Pacing control | tws_meta.cpp | times and violations of the requests to a farm | `addRequest`, `remove_last_request`, `notifyViolation`, `goodTime`, `countLeft`, `clear`, `merge` | budget, spacing, pause after a violation |
| `PacingGod` | tws_meta.cpp | a control for all, for each farm, for each exchange of unknown farm | the same, and `checkAdd` that moves records | the budget of a farm holds across the moves |
| `DataFarmStates` | tws_meta.cpp | state of each farm, farm of each exchange | `notify`, `setAllBroken`, `learnHmds`, `learnHmdsLastOk` | nothing wrong is learned, nothing is missed |
| Orders | twsdo.cpp, tws_meta.cpp | `p_orders`, `p_orders_old`, `tws_valid_orderId` | place, modify, answer, refuse, file | each order filed once, under its own verdict |
| Rate limit | twsdo.cpp | counter of the slot of 500 ms | `can_send` | no slot gets more than the rate |
| Socket client | tws_client.cpp | the vendor's socket | select, connect, disconnect | seen through the event loop |
| Reader | tws_xml.cpp | buffer, document, node | `nextXmlDoc`, `nextXmlRoot`, `nextXmlNode` | every complete document is read, in order, whatever the chunks |
| XML conversions | tws_xml.cpp, tws_xml.h | none | `conv_ib2xml`, `conv_xml2ib`, `to_xml`, `from_xml` | what is read is what was written |
| Job generator twsgen | twsgen.cpp, tws_util.cpp | options | `gen_hist_job`, `gen_csv` | a job for each contract that can have data, none lost or doubled |
| Quotes and account | tws_quote.cpp, tws_account.cpp | last value per field | store | only plugins read it |
| Wrapper, command line, plugin loader | tws_wrapper.cpp, twsdo_main.cpp, dso_magic.h | none | forward, parse, load | not modelled |

**How they interact.** There is one thread. The loop sleeps in `selectStuff()`;
while it does, any number of callbacks of the vendor's library run, on the same
stack; then one handler runs to its end. So what interleaves is the *order of
the messages*, the *batches they come in*, the two timers, and the loss of the
connection, not instructions. The handlers call the work lists to check a job
out and to file it, the lists ask the pacing which job may go out, and the
pacing asks the farm states where its exchange is. `twsError()` is the
crossroads: it closes packets, skips jobs, learns farms, records violations and
clears the pacing.

The programs interact by their files alone: the output of one is the work file
of the next, `\f` between the documents, and the next may start on what a
killed program left.

**What is hard.** Answers that come after their request timed out; messages
1101 and 1102, which close the packet of the current request whatever it holds;
a lost connection in each state of the loop, of which some are met by an
`assert`; state of an earlier connection that is still there on the next;
jobs that move between lists while they are checked out; records of requests
that are merged once the program learns where they went; a memo that skips
learning. Orders, requests and market data draw ids from three counters in one
space, and the id of the last request is still compared when orders are placed.
A work file may be cut anywhere, hold texts that are no documents, and be read
in chunks that end anywhere; some two hundred fields are written and read by
two lists that have to agree, and left out when they have a default that two
constructors have to agree on. `PROJECT.json` lists each of these hazards at its line.

## Modules

| Module | Models | Used by |
|---|---|---|
| `WorkTodo` | the two kinds of work list, as operators on their values | `TwsDL` |
| `TwsDL` | the event loop with the lists, packets, connection and a TWS | `MCTwsDL` |
| `JobLedger` | abstract: what a work list promises for its jobs | refined by `TwsDL` |
| `PacingControl` | one record of requests, as operators on its value | `PacedFarm`, `PacingGod` |
| `PacedFarm` | one control in use by `reqHistoricalData()` and the error handler | |
| `DataFarms` | the farm states and what is learned | `PacingGod` |
| `PacingGod` | the three kinds of control, `checkAdd()`, `checkoutOpt()` | `HistPacing` |
| `HistPacing` | the historical-data requests with pacing, farms and a TWS | `MCHistPacing` |
| `RateLimit` | `can_send()` | `Orders` |
| `Orders` | the orders of twsdo with the TWS | `MCOrders` |
| `XmlFields` | every struct as XML: its attributes and children, written and read, with the defaults | `TwsFiles` |
| `XmlStream` | the chunked reader: buffer, form feeds | `TwsFiles` |
| `HistJobs` | what twsgen computes from options and dates | `TwsFiles` |
| `TwsFiles` | pipelines of twsdo and twsgen over work files | `MCTwsFiles` |
| `TwsDLProofs` | theorems about the event loop and its lists | |
| `PacingProofs`, `PacedFarmProofs`, `HistPacingProofs` | theorems about pacing: the operators, one farm, several farms | |
| `OrdersProofs` | theorems about orders and the rate limit | |
| `PipelineProofs` | theorems about structs as XML, the reader, and the first day of a job | `FilesProofs` |
| `FilesProofs` | the invariant of the pipeline | `FilesResults` |
| `FilesResults` | theorems about what the programs make of each other's files | |

**TwsDL.** Variables have the names of the fields where TLA+ allows it. `pc`
says where the thread is: `select`, before the handler (`loop`), and between
`waitData()` and the rest of `idle()` (`dispatch`). No callback is enabled
outside `select`. Each `fin*` function, `req*` function and callback is an
action; a failed `assert` is a state, `pc = "abort"` with the assertion in
`abort`. Times are abstracted to two flags, one per timer. The TWS is `hello`,
`clock` and `pending`: it sends nextValidId once per connection, answers
reqCurrentTime, and answers a pending request with rows, an end, or an error of
any code the handlers know, in any order and any batch, also after the program
gave the request up. Rows carry nothing but the request they answer. Packets
are a mode and an error. A job is its number; its underlying and its series
decide which jobs a refusal skips.

**PacingControl, PacedFarm.** The two parallel vectors of the code are one
sequence of entries. Times are integers in units of the instance. `goodTime()`
is a maximum of three waits, one operator each. `PacedFarm` opens one request
at a time, as the event loop does.

**DataFarms, PacingGod, HistPacing.** The maps of the code are total functions,
with an empty record for a control that is not there. INACTIVE and BROKEN are
one value, `DOWN`, since the code treats them alike. `HistPacing` drives them
with the actions of the event loop that touch them; the work list is arbitrary
each time it is looked at, and what ends a request files it at once. A tie
between farms with equally many jobs is left open (the code takes the first of
a map). Nothing is assumed of the order in which the TWS reports and answers: the
race that `learnHmds()` notes (tws_meta.cpp:2336, a farm reported broken before
its last rows are passed on) happens, and so does a report about another farm
just before message 165; either makes the program learn a wrong farm, or fail
the assert of `learnHmdsLastOk()`. Three auxiliary variables follow what really
happens: `sent`, the requests each farm got since it was last reported active;
`counted`, whether the open one is among them; and `misled`, the farms one of
whose exchanges the table or the program ever took to be elsewhere. The budget
of such a farm is not kept (its requests are on the record of another), and the
properties say so by leaving these farms out: what they say is that the damage
stays there, although the other farm's record then holds requests it never got.

**RateLimit, Orders.** Orders are placed when all other requests are worked
off. `session` says what came before: the id of the last request, which
`twsError()` compares first, and how many market-data requests are open. `ids`
is the list of the file as far as it was handed out. A packet keeps which
kinds of row it got and whether its 5000 ms are over. `finPlaceOrder()` closes and
writes out a packet before it asserts that the id is new: an order whose id was
used before is written out twice, those of smaller ids are filed, and then the
program ends. `slotSent` and `refused`
are auxiliary: what was sent in this slot, and what the TWS refused or warned
about. The TWS reports on any order it got, with any row or error, at any
time.

**XmlFields.** A struct is a record of fields and parts, an XML node a record
of attributes and children. `Schema` has a row for each struct: the attributes
its writer writes, with the conversion used for each, those its reader reads,
and the structs within. `ToXml` and `FromXml` do for all of them what the
functions of tws_xml.cpp do one by one, so the tables are where the code is.
Numbers are what they become: a double has three digits of which two are
printed (`"%.10g"`), the largest double rounds up out of range, an int wraps
around at `IntLimit` (2^31 in the code). Structs are nested no deeper than a
request with a contract with a leg, so the nesting is written out: what has no
parts (`LeafToXml`), what has such parts (`PartToXml`), and what has those
(`ToXml`); and the same for reading. Texts stay what they are; escaping is
libxml2's.

**XmlStream.** A document is a row of cells, each saying which part of which
document it is; a text is parsed when it is all cells of one document. The
buffer, its size, and how far it was searched are the variables of `TwsXml`.
`CHUNK_SIZE` is 2 cells and `BUF_SIZE` 3, so that documents are longer than
both and form feeds fall on every place of a chunk. One round of the loop in
`nextXmlDoc()` is a step. `parsed` and `over` are what it returned; `whole` is
auxiliary, the file as it was opened.

**HistJobs.** Strings that are dates are given by `Calendar` with their day
and second, strings that are durations by `Durations`. `MinBeginDate` counts
days as the code does.

**TwsFiles.** The first program of `plan` runs: it reads its file (`Read`,
`NextRoot`, `ReadElement`, `HandlePacket`), twsdo then works off its lists
(`Answer`), and the next program gets what was written (`End`), or any
beginning of it (`Kill`, `Abort`). A NULL pointer that is followed and an
`assert` that fails both end the program (`pc = "aborted"`). A document in a
file carries the packet it was made from, which no program looks at: the
properties do. What twsdo does while it waits is in `TwsDL` and `Orders`; here
each request is answered, or comes to nothing. `Cases` are the pipelines: a
plan of programs, the first work file, the answers of the TWS, and how often a
program is killed. `CasesAssumption` says what the proofs need of them. The file
may hold anything, whole or cut, by hand or by a program: whatever its elements
say, reading one makes a packet (every number is read by `atoi()` or `atof()`, so
there is one in each field), and a document that claims to be made from a packet is read
as that packet. An answer with historical data ends with `fin`, which the TWS sends.
TLC evaluates it for all pipelines of run `files`.

## Runs

| Run | Checks | Instance |
|---|---|---|
| `safety` | types, `Agreement`, `Conservation`, `AnswersMatch`, `ConnectionSound`, `DumpedOnce`, `QuitComplete`, `FirstVerdictStands`, `OneReadyRequest`, refinement of `JobLedger` | 3 jobs (two of one series, the third of the same underlying), 2 contract requests, an executions request, 2 faults; 922,536 states |
| `live` | `Termination` | 1 job, one request of each indexed kind, account and orders, 2 faults; 23,112 states |
| `paced` | types and order, `Burst`, `Spacing`, `CountLeftAgrees` | budget 2 per 5, spacing 1, pause 3, clear keeps entries younger than 2, time up to 12; 17,937 states |
| `farms` | types and order, `Budget`, `Recorded`, `OwnRecordPauses`, `MemoSkipsNothing`, `NoNeedlessWait` | 2 farms, a market farm that marks a demo TWS, 3 exchanges: two of one farm, of which one is in the table, and one of the other farm; 2 work lists, 2 reports, budget 2 per 3, pause 2, time up to 3; 1,255,473 states |
| `orders` | types, `AssertsHold`, `QuitComplete`, `RefusedOnlyByItsOwn`, `RateKept`, `RefusalHeard`, `VerdictStands`, `OrdersEnd` | two orders: one not transmitted, one only asked about, one cancelled, ids chosen or given; 3 earlier sessions, 2 first ids, 1 loss; 328,862 states |
| `files` | types, `BufferFits`, `ReadsUpToFirstBad`, `Lossless`, `JobsComplete`, `BeginsOnBusinessDay`, `OwnFilesReadable`, `TextsInOrder`, `Ends` | 636 pipelines of up to four programs; 36,042 states |
| `repeat` | refutes the assert of `repeat()` | 1 job, one request of each indexed kind, 1 fault |
| `rows` | refutes the assert of `twsHistoricalData()` | the same |
| `pushback` | refutes the comment at twsdo.cpp:713 | the same |
| `nextid` | refutes the comment at twsdo.cpp:341 | the same |
| `pause` | refutes "Time to wait if pacing violation occurs", twsdo.ggo:92 | 2 farms, 3 exchanges of which one is unknown |
| `wrong` | refutes ChangeLog:12, "no more abort when ... hardcoded hmds farm is wrong" | a table with a wrong entry, requests for the exchanges of the farm it is wrong about |

**The bounds and why they are enough.** A job has interesting neighbours of
three kinds: of its series, of its underlying, of neither; three jobs have the
first two, and a refusal leaves the third kind alone, like the job of the
same underlying when only the series is refused. Two contract requests are the
first and a later one, which `repeat()` tells apart. Two faults (a refusal, a
timeout, a loss) let one fall into the recovery from another; a third begins
where one of the two began. In `paced` the clock runs longer than
one interval, and in `farms` as long, so that entries leave the budget; budget 2 is
the least for which the first and the last entry of a burst differ. Two reports
make both farms active, or one of them active and inactive again, which is the
race; the work list is either the exchange that is not known, or both farms, of which one has
more to do. `farms`, `pause` and `wrong`
stop when the clock and the reports are used up, so deadlock is not looked for
there. The pipelines of `files` end, so it is not looked for there either:
`Ends` says that they do.

Two orders are what `orders` needs for one id to be used twice, by a cancel or
because the file names the id the program would choose (an order of a smaller id
that is filed before the assert fails takes a third one, and is left to the
proofs); the three sessions put
the id of the last request below, at and among the ids of orders and market
data. `files` runs over seven groups of pipelines, each with one thing varied:
the sample scripts, with one program killed at any point and its output cut at
any cell; files by hand, with unknown roots and tags, empty documents, form
feeds too many or missing, plain text, attributes of earlier versions; all
kinds of request in one file; orders, filled and not; every field of every
struct at values that are negative, zero, small, beyond an int, rounded, and
the largest double, through up to three copies with and without `-x`; every end
of a week and every duration around it; dates that are none. A conversion that
does not fit, a part that is lost, or a default that differs shows with any one
value, so the values need not be crossed. That each reader reads the attributes its writer
writes is not found by a run: the lists of the code were compared by hand, and
where they are the same the table of the reader is defined as that of the writer.

**What the violated runs show.** (1) A connection lost during the *first*
contract request aborts the program: `repeat()` asserts `curIndex > 0`, but the
first index is 0. (2) 1101 or 1102 closes the packet of a historical request;
a row in the same batch then fails `assert( !packet->finished() )`. (3) A
contract request refused with broken connectivity is dropped, where the comment
says it is pushed back. (4) `tws_valid_orderId` is never reset, so from the
second connection on nextValidId is not waited for. (5) A request of an unknown
exchange is paced by the global control, which looks for a violation in its
last entry only: after a violation at one farm, a request to another hides it.
(6) With a wrong entry in the table `learnHmdsLastOk()` asserts. The same happens
with a right table when the farm that was last reported active, just before message
165, is not that of the open request: `NoAbort` does not hold in the instance of
`farms` either.

**Fairness** (run `live`). The loop itself runs and timers expire: weak
fairness of `Wake`, `Handler`, `ConTimerExpires`. A request that pacing or the
rate limit holds back goes out in the end, since both are waits of bounded
length: strong fairness of `ReqIndexed` and `ReqHist`. A TWS that
stays connected says nextValidId, the time, and answers the current request:
strong fairness of `NextValidId`, `CurrentTime`, `EndCurrent`, strong because
the thread is in `select` only time and again. Faults are finitely many. Without
these nothing can be said: the program waits for ever for a TWS it cannot
reach. In `orders` the loop runs and time passes (weak fairness), a slot of the
rate limit that has room is used and a lost connection comes back (strong:
both are enabled time and again), and the TWS ends each order that is to be
transmitted (strong, since callbacks run only in `select`). In `files` weak
fairness of `Work`: a program that can go on does, and each request is answered
or comes to nothing, which is what `live` shows of twsdo; kills are finitely
many.

## Proofs

All for every value of the constants: any number of jobs, requests and faults,
any underlyings and series, any options of the pacing that are natural numbers
(a budget of at least one).

* `TwsDLProofs`, the lists. The lemmas about them: what checkout, repeat, done
  and skip do to the set of jobs, by facts about sequences without repetition.
* `TwsDLProofs`, the loop. `BaseHolds` is the inductive invariant `Base` of the event
  loop: types, `Agreement`, the lists of jobs (`Kept`), `Thread` (a failed
  assertion is where `pc` says) and `Indexed` (a contract request has an index).
  `TypeOK` alone is not inductive: that `curIndex` stays in its range needs to
  know that a contract request has taken an index before `repeat()` gives it
  back; `Conservation` needs that a job is checked out whenever the error
  handler skips jobs, which is part of `Agreement`. `StepCases` names the actions, `Frames`
  says once which of them may touch which variables; each part of `Base` then
  has a lemma with one step per action that touches it. `TypesHold`,
  `AgreementHolds`, `ConservationHolds` follow.
* `TwsDLProofs`, the requests. `Sound` is inductive together with `Base`: `AnswersMatch`,
  `Link` (an open connection whose time is known was answered on this
  connection, since `connectTws()` forgets the time of the last one), and
  `Settled` (for an indexed request whose packet is closed nothing is pending,
  since whatever closes it is the answer, an error, or the lost connection).
  `Settled` is what rules out the assertion of `append()` for such requests;
  for historical data 1101 breaks it, see run `rows`. `AnswersMatchHolds`,
  `FirstVerdictHolds`, `ConnectionHolds`, `OneRequestHolds` follow.
  `QuitHolds`: what `NoMoreWork` sees, and nothing moves after it.
  `LedgerImplemented`: each step that changes the `HistTodo` is an `Ask`,
  `Answer` or `GiveUp` of `JobLedger`. `DumpedOnceHolds` by `OutputInv`: what
  was written belongs to a flag that is down, an index that has been passed, or
  a job that is done.
* `PacingProofs`. The lemmas about one record: adding, removing, noting a
  violation, `clear()` and `merge()` keep it in order, the first three keep
  it within the budget;
  `RoomLeft`: when `goodTime()` lets a request go, fewer than the budget lie
  within the interval; `WaitsAgree`: `countLeft()` and `goodTime()` agree. What
  a record holds is counted by `Count(c, X)`, its entries with a time in `X`,
  which `merge()` adds up.
* `PacedFarmProofs`. `Invariance` proves the inductive invariant of one
  record: order, budget, spacing, pause, and where the clock is. The budget
  is kept because `WaitBurst` looks at the request that opened the interval,
  and removing the last entry or all but the last keeps every distance.
  `RecordInOrder`, `BudgetKept`, `SpacingKept`, `RankingAgrees` follow.
* `HistPacingProofs`. The budget of a farm although its requests are recorded in
  three places. `Recorded` and `Budget` are not inductive: what is recorded
  is moved, merged and cleared, and a refusal takes the last entry of a record
  that may be another's. `Covered` is: for *each set of times* `X`, the
  global record, and the record of a farm together with those of its exchanges
  that are not learned yet, have at least as many entries with a time in `X` as
  the farm got. Sets of times, not single entries, because `merge()` adds records
  up and an exchange may be moved between a question and its answer. `Spare` says that
  while a request is open there is one entry more at the latest time, on each
  of the two sides, so that `remove_last_request()` takes none that is needed.
  `Activity` says that only an active farm got anything, and `clear()` leaves the
  records of active farms alone. `Known` says of each farm that is not in `misled`
  that each of its exchanges is known to be there or not known: all of `Covered`
  and `Spare` is for these farms, since what is recorded too much at another farm
  does no harm there. The conjunction is `Accounted`; `AccountedAlways`,
  `FarmBudgetsKept` and `RequestsAreRecorded` follow for any table, any order of
  reports and answers, and any finite sets of farms and exchanges, as do
  `MemoIsSafe`, `ChoiceNeverOversleeps` and `RecordsStayInOrder`.
* `OrdersProofs`. The inductive invariant `IInv` relates the packets, what the
  TWS refused, and the ids that were handed out: a closed packet was closed by
  a row or by a refusal, a refused order is closed, every id handed out is open
  or filed. `RefusalsAreOwn`, `RefusalsHeard`, `VerdictsStand` follow.
  `AssertionsHold` adds that only ids that were sent are in either map, and that
  whatever is open when orders are placed is still recording, since
  `finPlaceOrder()` has just filed the rest.
  `RateHolds` needs besides that nothing was sent in a slot the limiter has not
  begun to count. `OrdersTyped` and `QuitIsComplete` rest on `OInv`, which
  adds `Complete`: the ids handed out are as many as the orders placed and
  their ids are open or filed; each open or filed packet has the request that
  the file had last for its id; what was written out is what was filed, once, but for
  the packet on which the program ended; at the
  end nothing is open. `finPlaceOrder()` writes in the order of the map, which
  is a list that a `CHOOSE` picks: `RankOnto` numbers any finite set of ids by how
  many are not greater, so that there is such a list.
* `PipelineProofs`, the reader. `Reader` is a reader by itself that is given any
  file, of any cells and sizes; `FilesAreRead` proves that the programs use the
  reader in no other way. `ReaderInv`: the part of the buffer
  that was searched has no form feed, and the buffer fits. `BufferHolds` and
  `TextsHold` follow: a call of `nextXmlDoc()` takes the text up to the next
  form feed off what is unread, wherever the chunks end. `ReadInv` adds how far the file was
  read: up to the end of some text, all texts so far being documents and in
  `parsed`, one for each end, and when reading is over the next text is none. With it
  `ReadsAllItCan` proves `ReadsUpToFirstBad`.
* `PipelineProofs`, the first day. `EveryJobBeginsWell` proves what
  `BeginsOnBusinessDay` says of `min_begin_date()` for any end and duration.
  Business days are numbered (`Nth` is a day by its number, `Earlier` counts
  those before a day); the business days of an interval are one to one with
  an interval of numbers, so no count over days is needed. The weeks, the
  remainder and the weekend at the end are then arithmetic.

* `PipelineProofs`, the structs. `StructComesBack`: what `FromXml` makes of what
  `ToXml` made has each field as it was, or as printing and parsing it once leaves
  it, and all parts with theirs; with `-x` and without, for all values.
  `FieldsComeBack` is the core: a field that was left out has its
  default, which is the one the reader starts with; one that was written is parsed
  by the conversion that fits. The tables of all structs are gone through entry by
  entry: the lemma is about them as they stand, where most readers are defined to
  read what their writers write. `CopiedTwice`: a copy of a copy is a copy. The lemmas about
  `FlattenSeq` say what picking rows by name leaves.
* `FilesProofs`. First the documents: `QueryRead`, `RowsRead` and `DocumentIsItem`
  say of the document of *any* packet that it is read as this packet, and as
  nothing when it is read as one of another type. Then the inductive invariant
  `FilesInv`, five parts: what was given is well formed (`GivenInv`); the elements,
  the packets at hand, the lists and the output are (`WorkInv`); the reader
  has the cells of this file (`FileInv`, with `ReaderInv` of the reader); when it is
  over (`PcInv`); and `OriginInv`, elements and packets at hand are those of the
  last document. `Lossless` alone is not inductive: it speaks of the packet at
  hand, and that the *next* program will read what this one writes is in
  `WorkInv`, where each document of the output `IsItem`. TLC checked the five on
  run `files` before they were proved. One lemma for each action; `FilesInvHolds`,
  `FilesTyped`, `FilesAreRead`, `FilesReadWell`, `JobsBeginWell` follow.
* `FilesResults`. `NothingLost`: by `OriginInv` the packet at hand was read from the
  document, by `IsItem` that is a copy of the packet the document was made from, and
  `SameField` does not tell a copy from its original.
  `OwnFilesRead`: each assertion and NULL pointer of the handlers, step by step,
  needs something a document of the programs' own has only if `NotForReading`.
  `EveryJobMade`: `JobsInv` says while twsgen runs that the output has the jobs for
  the documents handled so far; `JobFor` finds in the output the job of a contract and
  one of whatToShow, `JobsConcat` puts the jobs of one more document behind, and
  `ContractsCopied` says that the contracts read are those twsdo had, as far as
  `SkipExpiry` and a job can tell.

**Only model-checked.** `Termination`, `OrdersEnd`, `Ends`: liveness under
fairness is beyond this prover. `OwnRecordPauses`: it needs that requests are a tick
apart (with `minPacingTime` 0 a violation may be noted at another entry of the same
time), which would have to be carried through `merge()`. All other invariants and
action properties of the passing runs are proved, and the refinement. What libxml2 does to texts, and that the tables of
`XmlFields` are those of the code, is outside of both.

## Not modelled

What becomes of market data, and the strategy plugin (the plugin is not in the
repository); the texts of option parameters; the states of the market data farms
(nothing reads them); quotes and account, stores of last values that only a
plugin reads; the wrapper, which forwards; the generated parser of the command
line; the vendor's client library and libxml2. The TWS is modelled from how the
callbacks use it. XML as text, the encoding of strings and the wording of csv
lines are abstracted; attributes that only older versions of the vendor's
library have are left out.

What reading the files showed beside the runs: `from_xml()` of a row reads the
volume, a `long long`, with `atoi()`; `"%.10g"` drops digits, and an unset double
written with `-x` comes back as infinity. README:30 wants no loss of information:
`Lossless` holds but for these three, which `SameField` names. Option parameters
are printed as text among the documents, so what follows them is not read again
when they are asked for together with something else. The table of short bar
sizes has "4 hour" where twsgen and the TWS say "4 hours".

## Plan

1. `PauseKept` for requests whose farm is known, which run `pause` does not refute.
2. Market data: the requests, the quotes they fill, and what the plugin sees.
3. The texts of option parameters, which stand between the documents of a file.
