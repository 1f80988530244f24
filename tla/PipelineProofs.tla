--------------------------- MODULE PipelineProofs ---------------------------
(***************************************************************************)
(* Parts of the pipeline by themselves: what becomes of a struct that is   *)
(* written and read again, for any values of its fields; the reader of     *)
(* files, for any file and any sizes of chunk and buffer; and the day on   *)
(* which twsgen begins, for any calendar, end and duration.                *)
(***************************************************************************)
EXTENDS XmlFields, XmlStream, HistJobs, FiniteSetTheorems, SequenceTheorems, TLAPS

(* The least-number principle.                                             *)
LEMMA LeastNumber ==
  ASSUME NEW T \in SUBSET Nat, T # {}
  PROVE  \E x \in T : \A y \in T : x <= y
<1> DEFINE R == OpToRel(<, Nat)
<1>1. IsWellFoundedOn(R, Nat)
  BY NatLessThanWellFounded
<1>2. \A x, y \in Nat : x < y => <<x, y>> \in R
  BY DEF OpToRel
<1> HIDE DEF R
<1>3. PICK x \in T : \A y \in T : <<y, x>> \notin R
  BY <1>1, WFMin
<1>4. ASSUME NEW y \in T PROVE x <= y
  <2>1. x \in Nat /\ y \in Nat
    OBVIOUS
  <2>2. ~(y < x)
    BY <1>2, <1>3, <2>1
  <2>3. QED
    BY <2>1, <2>2
<1>5. QED
  BY <1>4

(***************************************************************************)
(* The reader.                                                             *)
(***************************************************************************)

Cell == [doc : Nat, part : Nat]

(* One reader, and the files it is given.                                  *)
ReaderInit ==
  /\ stream \in Seq(Cell) /\ buf = << >> /\ bufSize = BufSize /\ scanned = 0
  /\ parsed = << >> /\ over = FALSE
  /\ \E sizes \in Seq(Nat) : whole = [cells |-> stream, sizes |-> sizes]

ReaderNext ==
  \/ ~over /\ (ReadChunk \/ NextXmlDoc)
  \/ \E cells \in Seq(Cell), sizes \in Seq(Nat) : OpenFile(cells, sizes)

Reader == ReaderInit /\ [][ReaderNext]_streamVars

(* What was searched has no form feed.                                     *)
ReaderInv ==
  /\ stream \in Seq(Cell) /\ buf \in Seq(Cell) /\ bufSize \in Nat /\ BufferFits
  /\ scanned \in 0..Len(buf) /\ \A i \in 1..scanned : buf[i] # FormFeed

(* The place of the next form feed.                                        *)
LEMMA FoundFormFeed ==
  ASSUME NEW s \in Seq(Cell), NEW from \in Nat, from >= 1, from <= Len(s) + 1
  PROVE  LET ff == FindFormFeed(s, from)
         IN  /\ ff \in from..(Len(s) + 1) /\ \A i \in from..(ff - 1) : s[i] # FormFeed
             /\ ff <= Len(s) => s[ff] = FormFeed
<1> DEFINE ff == FindFormFeed(s, from)
           T  == {i \in from..Len(s) : s[i] = FormFeed}
<1>1. CASE T = {}
  <2>1. ff = Len(s) + 1
    BY <1>1 DEF FindFormFeed
  <2>2. \A i \in from..Len(s) : s[i] # FormFeed
    BY <1>1
  <2>3. Len(s) \in Nat
    OBVIOUS
  <2> HIDE DEF ff, T
  <2>4. QED
    BY <2>1, <2>2, <2>3 DEF ff
<1>2. CASE T # {}
  <2>1. T \in SUBSET Nat /\ Len(s) \in Nat
    OBVIOUS
  <2>2. PICK x \in T : \A y \in T : x <= y
    BY <1>2, <2>1, LeastNumber
  <2>3. x \in from..Len(s) /\ s[x] = FormFeed
    OBVIOUS
  <2>4. ASSUME NEW j \in from..(x - 1) PROVE s[j] # FormFeed
    <3>1. j \in from..Len(s) /\ j < x
      BY <2>1, <2>3
    <3>2. j \notin T
      BY <2>1, <2>2, <2>3, <3>1
    <3>3. QED
      BY <3>1, <3>2
  <2>5. \E i \in from..Len(s) : s[i] = FormFeed /\ \A j \in from..(i - 1) : s[j] # FormFeed
    BY <2>3, <2>4
  <2>6. /\ ff \in from..Len(s) /\ s[ff] = FormFeed
        /\ \A j \in from..(ff - 1) : s[j] # FormFeed
    BY <2>5, <2>3, Zenon DEF FindFormFeed
  <2> HIDE DEF ff, T
  <2>7. QED
    BY <2>1, <2>6 DEF ff
<1>3. QED
  BY <1>1, <1>2

(* A sequence is its front and what is behind.                             *)
LEMMA FrontAndBehind ==
  ASSUME NEW C, NEW s \in Seq(C), NEW n \in 0..Len(s)
  PROVE  /\ SubSeq(s, 1, n) \in Seq(C) /\ Len(SubSeq(s, 1, n)) = n
         /\ Behind(s, n) \in Seq(C) /\ Len(Behind(s, n)) = Len(s) - n
         /\ SubSeq(s, 1, n) \o Behind(s, n) = s
<1>1. n \in Nat /\ Len(s) \in Nat /\ n <= Len(s)
  OBVIOUS
<1>2. SubSeq(s, 1, n) \in Seq(C) /\ Len(SubSeq(s, 1, n)) = n
  BY <1>1
<1>3. Behind(s, n) \in Seq(C) /\ Len(Behind(s, n)) = Len(s) - n
  BY <1>1 DEF Behind
<1>4. SubSeq(s, 1, n) \o SubSeq(s, n + 1, Len(s)) = SubSeq(s, 1, Len(s))
  <2>1. 1 \in 1..(Len(s) + 1) /\ n \in (1 - 1)..Len(s) /\ Len(s) \in n..Len(s)
    BY <1>1
  <2>2. QED
    BY <2>1, ConcatAdjacentSubSeq
<1>5. SubSeq(s, 1, Len(s)) = s
  BY SubSeqFull
<1>6. QED
  BY <1>2, <1>3, <1>4, <1>5 DEF Behind

(* Concatenation is associative.                                           *)
LEMMA Joined ==
  \A r, s, t \in Seq(Cell) : (r \o s) \o t = r \o (s \o t)
BY ConcatAssociative

LEMMA ReadKeeps ==
  ASSUME ReaderInv, ReadChunk
  PROVE  ReaderInv' /\ Unread' = Unread
<1> DEFINE n == IF Len(stream) < ChunkSize THEN Len(stream) ELSE ChunkSize
           front == SubSeq(stream, 1, n)
<1>1. /\ stream \in Seq(Cell) /\ buf \in Seq(Cell) /\ bufSize \in Nat /\ Len(buf) <= bufSize
      /\ scanned \in 0..Len(buf) /\ Len(stream) \in Nat /\ Len(buf) \in Nat
  BY DEF ReaderInv, BufferFits
<1>2. n \in 0..Len(stream) /\ n <= ChunkSize
  BY <1>1, BufferAssumption
<1>3. /\ buf' = buf \o front /\ stream' = Behind(stream, n)
      /\ bufSize' = Resized(Len(buf), bufSize) /\ scanned' = Len(buf)
      /\ FindFormFeed(buf, scanned + 1) > Len(buf)
  BY DEF ReadChunk
<1> HIDE DEF n
<1>4. /\ front \in Seq(Cell) /\ Len(front) = n /\ Behind(stream, n) \in Seq(Cell)
      /\ front \o Behind(stream, n) = stream
  BY <1>1, <1>2, FrontAndBehind
<1> HIDE DEF front
<1>5. /\ buf' \in Seq(Cell) /\ Len(buf') = Len(buf) + n
      /\ \A i \in 1..Len(buf) : buf'[i] = buf[i]
  BY <1>1, <1>3, <1>4
<1>6. bufSize' \in Nat /\ Len(buf') <= bufSize'
  BY <1>1, <1>2, <1>3, <1>5, BufferAssumption DEF Resized
<1>7. \A i \in 1..Len(buf) : buf[i] # FormFeed
  <2> DEFINE ff == FindFormFeed(buf, scanned + 1)
  <2>1. /\ ff \in (scanned + 1)..(Len(buf) + 1)
        /\ \A i \in (scanned + 1)..(ff - 1) : buf[i] # FormFeed
    BY <1>1, FoundFormFeed
  <2> HIDE DEF ff
  <2>2. ff = Len(buf) + 1
    BY <1>1, <1>3, <2>1 DEF ff
  <2>3. \A i \in 1..scanned : buf[i] # FormFeed
    BY DEF ReaderInv
  <2>4. QED
    BY <1>1, <2>1, <2>2, <2>3
<1>8. ReaderInv'
  <2>1. scanned' \in 0..Len(buf') /\ \A i \in 1..scanned' : buf'[i] # FormFeed
    BY <1>1, <1>2, <1>3, <1>5, <1>7
  <2>2. QED
    BY <1>3, <1>4, <1>5, <1>6, <2>1 DEF ReaderInv, BufferFits
<1>9. (buf \o front) \o Behind(stream, n) = buf \o (front \o Behind(stream, n))
  BY <1>1, <1>4, Joined
<1>10. QED
  BY <1>3, <1>4, <1>8, <1>9 DEF Unread

LEMMA NextKeeps ==
  ASSUME ReaderInv, NextXmlDoc
  PROVE  ReaderInv' /\ CutText /\ NextText \in Seq(Cell)
<1> DEFINE ff == FindFormFeed(buf, scanned + 1)
<1>1. /\ stream \in Seq(Cell) /\ buf \in Seq(Cell) /\ bufSize \in Nat /\ Len(buf) <= bufSize
      /\ scanned \in 0..Len(buf) /\ Len(stream) \in Nat /\ Len(buf) \in Nat
  BY DEF ReaderInv, BufferFits
<1>2. /\ ff <= Len(buf) \/ stream = << >>
      /\ buf' = Behind(buf, ff) /\ scanned' = 0 /\ stream' = stream
      /\ bufSize' = IF ff > Len(buf) THEN Resized(Len(buf), bufSize) ELSE bufSize
      /\ NextText = SubSeq(buf, 1, ff - 1)
  BY DEF NextXmlDoc, NextText
<1>3. /\ ff \in (scanned + 1)..(Len(buf) + 1)
      /\ \A i \in (scanned + 1)..(ff - 1) : buf[i] # FormFeed
      /\ ff <= Len(buf) => buf[ff] = FormFeed
  BY <1>1, FoundFormFeed
<1> HIDE DEF ff
<1>4. \A i \in 1..(ff - 1) : buf[i] # FormFeed
  BY <1>1, <1>3 DEF ReaderInv
<1>5. /\ ff - 1 \in 0..Len(buf) /\ ff \in Nat
      /\ bufSize' \in Nat /\ bufSize' >= bufSize
  BY <1>1, <1>2, <1>3, BufferAssumption DEF Resized
<1>6. NextText \in Seq(Cell) /\ Len(NextText) = ff - 1
  BY <1>1, <1>2, <1>5, FrontAndBehind
<1>7. \A i \in DOMAIN NextText : NextText[i] # FormFeed
  BY <1>1, <1>2, <1>4, <1>5, <1>6
<1>8. CASE ff <= Len(buf)
  <2>1. ff \in 1..Len(buf) /\ ff \in 0..Len(buf) /\ 1 \in 1..Len(buf) /\ buf[ff] = FormFeed
    BY <1>1, <1>3, <1>8
  <2>2. /\ buf' \in Seq(Cell) /\ Len(buf') = Len(buf) - ff
        /\ SubSeq(buf, 1, ff) \in Seq(Cell) /\ SubSeq(buf, 1, ff) \o buf' = buf
    BY <1>1, <1>2, <2>1, FrontAndBehind
  <2>3. SubSeq(buf, 1, ff) = SubSeq(buf, 1, ff - 1) \o <<buf[ff]>>
    BY <1>1, <2>1, SubSeqRecursiveSecond
  <2>4. NextText \o <<FormFeed>> = SubSeq(buf, 1, ff)
    BY <1>2, <2>1, <2>3
  <2>5. (SubSeq(buf, 1, ff) \o buf') \o stream = SubSeq(buf, 1, ff) \o (buf' \o stream)
    BY <1>1, <2>2, Joined
  <2>6. Unread = NextText \o <<FormFeed>> \o Unread'
    BY <1>2, <2>2, <2>4, <2>5 DEF Unread
  <2>7. CutText
    BY <1>7, <2>6 DEF CutText
  <2>8. ReaderInv'
    BY <1>1, <1>2, <1>5, <2>1, <2>2 DEF ReaderInv, BufferFits
  <2>9. QED
    BY <1>6, <2>7, <2>8
<1>9. CASE ff > Len(buf)
  <2>1. ff = Len(buf) + 1 /\ stream = << >>
    BY <1>1, <1>2, <1>3, <1>9
  <2>2. buf' = << >>
    BY <1>1, <1>2, <2>1, SubSeqEmpty DEF Behind
  <2>3. NextText = buf
    BY <1>1, <1>2, <2>1, SubSeqFull
  <2>4. Unread = NextText /\ Unread' = << >>
    BY <1>1, <1>2, <2>1, <2>2, <2>3 DEF Unread
  <2>5. CutText
    BY <1>7, <2>4 DEF CutText
  <2>6. ReaderInv'
    BY <1>1, <1>2, <1>5, <2>2 DEF ReaderInv, BufferFits
  <2>7. QED
    BY <1>6, <2>5, <2>6
<1>10. QED
  BY <1>1, <1>5, <1>6, <1>8, <1>9

LEMMA ReaderInvKept ==
  ASSUME ReaderInv, [ReaderNext]_streamVars
  PROVE  ReaderInv'
<1>1. CASE \E cells \in Seq(Cell), sizes \in Seq(Nat) : OpenFile(cells, sizes)
  BY <1>1, BufferAssumption DEF OpenFile, ReaderInv, BufferFits
<1>2. CASE UNCHANGED streamVars
  BY <1>2 DEF streamVars, ReaderInv, BufferFits
<1>3. QED
  BY <1>1, <1>2, ReadKeeps, NextKeeps DEF ReaderNext

LEMMA ReaderInvHolds == Reader => []ReaderInv
<1>1. ReaderInit => ReaderInv
  BY BufferAssumption DEF ReaderInit, ReaderInv, BufferFits
<1>2. ReaderInv /\ [ReaderNext]_streamVars => ReaderInv'
  BY ReaderInvKept
<1>3. QED
  BY <1>1, <1>2, PTL DEF Reader

(* nextXmlDoc() never writes behind the end of its buffer, whatever the    *)
(* file and the sizes of buffer and chunk.                                 *)
THEOREM BufferHolds == Reader => []BufferFits
<1>1. ReaderInv => BufferFits
  BY DEF ReaderInv
<1>2. QED
  BY <1>1, ReaderInvHolds, PTL

(* nextXmlDoc() returns what is between the form feeds of the file, one    *)
(* text after the other, however the file falls into chunks.               *)
THEOREM TextsHold == Reader => TextsInOrder
<1> DEFINE Step == /\ \/ ~over /\ (ReadChunk \/ NextXmlDoc)
                      \/ OpenFile(stream', whole'.sizes)
                   /\ ReadChunk => Unread' = Unread
                   /\ NextXmlDoc => CutText
<1>1. ASSUME ReaderInv, [ReaderNext]_streamVars
      PROVE  [Step]_streamVars
  <2>1. (\E cells \in Seq(Cell), sizes \in Seq(Nat) : OpenFile(cells, sizes))
          => OpenFile(stream', whole'.sizes)
    BY DEF OpenFile
  <2>2. ReadChunk => Unread' = Unread
    BY <1>1, ReadKeeps
  <2>3. NextXmlDoc => CutText
    BY <1>1, NextKeeps
  <2>4. QED
    BY <1>1, <2>1, <2>2, <2>3 DEF ReaderNext
<1>2. ReaderInv /\ [ReaderNext]_streamVars => [Step]_streamVars
  BY <1>1
<1>3. QED
  BY <1>2, ReaderInvHolds, PTL DEF Reader, TextsInOrder

(***************************************************************************)
(* The documents of a file.                                                *)
(***************************************************************************)

EndsTo(x) == {y \in TextEnds : y <= x}

(* The file was read up to the end of a text, or not at all; each text so  *)
(* far was a document and is in parsed.  When reading is over, the next    *)
(* text is none, or there is none.                                         *)
ReadTo(pos) ==
  /\ pos = 0 \/ pos \in TextEnds
  /\ ~over => Unread = Behind(whole.cells, pos)
  /\ \A e \in EndsTo(pos) : DocAt(e) # 0
  /\ Len(parsed) = Cardinality(EndsTo(pos))
  /\ \A k \in 1..Len(parsed) :
       \E e \in EndsTo(pos) : Cardinality(EndsTo(e)) = k /\ parsed[k] = DocAt(e)
  /\ over => \A e \in TextEnds : e > pos => \E x \in EndsTo(e) : DocAt(x) = 0

ReadInv ==
  /\ whole.cells \in Seq(Cell) /\ parsed \in Seq(Nat) /\ over \in BOOLEAN
  /\ \E pos \in Nat : ReadTo(pos)

LEMMA EndsFinite ==
  ASSUME whole.cells \in Seq(Cell)
  PROVE  /\ TextEnds \in SUBSET (1..(Len(whole.cells) + 1)) /\ IsFiniteSet(TextEnds)
         /\ \A x : /\ IsFiniteSet(EndsTo(x)) /\ Cardinality(EndsTo(x)) \in Nat
                   /\ EndsTo(x) \in SUBSET TextEnds
<1>1. Len(whole.cells) + 1 \in Nat /\ TextEnds \in SUBSET (1..(Len(whole.cells) + 1))
  BY DEF TextEnds
<1>2. IsFiniteSet(TextEnds)
  <2>1. IsFiniteSet(1..(Len(whole.cells) + 1))
    BY <1>1, FS_Interval
  <2>2. QED
    BY <1>1, <2>1, FS_Subset
<1>3. ASSUME NEW x PROVE /\ IsFiniteSet(EndsTo(x)) /\ Cardinality(EndsTo(x)) \in Nat
                         /\ EndsTo(x) \in SUBSET TextEnds
  <2>1. EndsTo(x) \in SUBSET TextEnds
    BY DEF EndsTo
  <2>2. QED
    BY <1>2, <2>1, FS_Subset, FS_CardinalityType
<1>4. QED
  BY <1>1, <1>2, <1>3

(* A document has a number.                                                *)
LEMMA ParsedNumber ==
  ASSUME NEW text \in Seq(Cell), NEW sizes
  PROVE  Parsed(text, sizes) \in Nat /\ Parsed(<< >>, sizes) = 0
<1>1. CASE text = << >>
  BY <1>1 DEF Parsed
<1>2. CASE text # << >>
  <2>1. text[1] \in Cell
    BY <1>2
  <2>2. QED
    BY <2>1 DEF Parsed, Cell
<1>3. QED
  BY <1>1, <1>2

(* Where the text ends that nextXmlDoc() takes away.                       *)
LEMMA TextTaken ==
  ASSUME whole.cells \in Seq(Cell), NextText \in Seq(Cell), Unread' \in Seq(Cell),
         NEW pos \in 0..Len(whole.cells), pos = 0 \/ pos \in TextEnds,
         Unread = Behind(whole.cells, pos), CutText
  PROVE  LET e == pos + Len(NextText) + 1
         IN  /\ e \in TextEnds /\ \A x \in TextEnds : x <= pos \/ x >= e
             /\ SubSeq(whole.cells, pos + 1, e - 1) = NextText
             /\ Unread' = Behind(whole.cells, e)
<1> DEFINE c == whole.cells
           n == Len(NextText)
           e == pos + n + 1
<1>1. /\ c \in Seq(Cell) /\ Len(c) \in Nat /\ n \in Nat /\ pos \in Nat /\ pos <= Len(c)
      /\ e \in Nat /\ Len(Unread') \in Nat
  OBVIOUS
<1>2. /\ Unread \in Seq(Cell) /\ Len(Unread) = Len(c) - pos
      /\ \A i \in 1..(Len(c) - pos) : Unread[i] = c[pos + i]
  BY <1>1 DEF Behind
<1>3. \A i \in 1..n : NextText[i] # FormFeed
  BY <1>1 DEF CutText
<1>4. /\ n <= Len(Unread) /\ \A i \in 1..n : Unread[i] = NextText[i]
      /\ \/ n < Len(Unread) /\ Unread[n + 1] = FormFeed
         \/ n = Len(Unread)
      /\ Unread' = SubSeq(Unread, n + 2, Len(Unread))
  <2>1. CASE Unread = NextText \o <<FormFeed>> \o Unread'
    <3> DEFINE front == NextText \o <<FormFeed>>
               u == Unread'
    <3>1. FormFeed \in Cell /\ u \in Seq(Cell)
      BY DEF FormFeed, Cell
    <3>2. /\ front \in Seq(Cell) /\ Len(front) = n + 1 /\ front[n + 1] = FormFeed
          /\ \A i \in 1..n : front[i] = NextText[i]
      BY <3>1
    <3> HIDE DEF front, u
    <3>3. /\ Len(front \o u) = n + 1 + Len(u)
          /\ \A i \in 1..(n + 1) : (front \o u)[i] = front[i]
      <4>1. /\ Len(front \o u) = Len(front) + Len(u)
            /\ \A i \in 1..(Len(front) + Len(u)) :
                 (front \o u)[i] = IF i <= Len(front) THEN front[i] ELSE u[i - Len(front)]
        BY <3>1, <3>2, ConcatProperties
      <4>2. Len(u) \in Nat /\ \A i \in 1..(n + 1) : i \in 1..(n + 1 + Len(u))
        BY <1>1, <3>1
      <4>3. QED
        BY <1>1, <3>2, <4>1, <4>2
    <3>4. SubSeq(front \o u, n + 2, n + 1 + Len(u)) = u
      BY <1>1, <3>1, <3>2
    <3>5. Unread = front \o u
      BY <2>1 DEF front, u
    <3>6. Len(Unread) = n + 1 + Len(u) /\ Len(u) \in Nat
      BY <3>1, <3>3, <3>5
    <3>7. n < Len(Unread) /\ n <= Len(Unread) /\ Unread[n + 1] = FormFeed
      BY <1>1, <3>2, <3>3, <3>5, <3>6
    <3>8. \A i \in 1..n : Unread[i] = NextText[i]
      BY <1>1, <3>2, <3>3, <3>5
    <3>9. Unread' = SubSeq(Unread, n + 2, Len(Unread))
      BY <3>4, <3>5, <3>6 DEF u
    <3>10. QED
      BY <3>7, <3>8, <3>9
  <2>2. CASE Unread = NextText /\ Unread' = << >>
    BY <1>1, <1>2, <2>2, SubSeqEmpty
  <2>3. QED
    BY <2>1, <2>2 DEF CutText
<1> HIDE DEF c, n, e
<1>a. n <= Len(c) - pos /\ \A i \in 1..n : c[pos + i] = NextText[i]
  <2>1. n <= Len(c) - pos
    BY <1>1, <1>2, <1>4
  <2>2. \A i \in 1..n : i \in 1..(Len(c) - pos)
    BY <1>1, <2>1
  <2>3. QED
    BY <1>2, <1>4, <2>1, <2>2
<1>5. e <= Len(c) + 1 /\ (e <= Len(c) => c[e] = FormFeed)
  BY <1>1, <1>2, <1>4 DEF e
<1>6. e \in TextEnds
  BY <1>1, <1>5 DEF TextEnds, c, e
<1>7. ASSUME NEW x \in TextEnds, ~(x <= pos), ~(x >= e) PROVE FALSE
  <2>1. x \in 1..(Len(c) + 1)
    BY DEF TextEnds, c
  <2>2. x - pos \in 1..n /\ x <= Len(c) /\ c[pos + (x - pos)] = c[x]
    BY <1>1, <1>5, <1>7, <2>1 DEF e
  <2>3. c[x] # FormFeed
    BY <1>3, <1>a, <2>2
  <2>4. QED
    BY <1>1, <2>1, <2>2, <2>3 DEF TextEnds, c
<1>8. SubSeq(c, pos + 1, e - 1) = NextText
  <2>1. e - 1 = pos + n /\ pos + n <= Len(c) /\ NextText \in Seq(Cell) /\ Len(NextText) = n
    BY <1>1, <1>2, <1>4 DEF e, n
  <2>2. /\ SubSeq(c, pos + 1, pos + n) \in Seq(Cell) /\ Len(SubSeq(c, pos + 1, pos + n)) = n
        /\ \A i \in 1..n : SubSeq(c, pos + 1, pos + n)[i] = c[pos + i]
    BY <1>1, <2>1
  <2>3. QED
    BY <1>a, <2>1, <2>2
<1>9. Unread' = Behind(c, e)
  <2>1. SubSeq(Unread, n + 2, Len(Unread)) = SubSeq(c, e + 1, Len(c))
    <3> DEFINE a == SubSeq(Unread, n + 2, Len(Unread))
               b == SubSeq(c, e + 1, Len(c))
               m == Len(c) - e
    <3>0. /\ e = pos + n + 1 /\ m \in Int /\ m >= -1 /\ Len(Unread) = n + 1 + m
          /\ Len(c) = e + m
      BY <1>1, <1>2, <1>5 DEF e
    <3>1. /\ a \in Seq(Cell) /\ Len(a) = IF m > 0 THEN m ELSE 0
          /\ \A i \in 1..m : a[i] = Unread[n + 1 + i]
      BY <1>1, <1>2, <3>0
    <3>2. /\ b \in Seq(Cell) /\ Len(b) = IF m > 0 THEN m ELSE 0
          /\ \A i \in 1..m : b[i] = c[e + i]
      BY <1>1, <3>0
    <3>4. ASSUME NEW i \in 1..m PROVE Unread[n + 1 + i] = c[e + i]
      <4>1. n + 1 + i \in 1..(Len(c) - pos) /\ pos + (n + 1 + i) = e + i
        BY <1>1, <3>0
      <4>2. QED
        BY <1>2, <4>1
    <3> HIDE DEF a, b
    <3>5. Len(a) = Len(b) /\ \A i \in 1..Len(a) : i \in 1..m /\ a[i] = b[i]
      BY <3>0, <3>1, <3>2, <3>4
    <3> HIDE DEF a, b, m
    <3>7. a = b
      BY <3>1, <3>2, <3>5, SeqEqual
    <3>6. QED
      BY <3>7 DEF a, b
  <2>2. QED
    BY <1>4, <2>1 DEF Behind
<1>10. QED
  BY <1>6, <1>7, <1>8, <1>9 DEF c, n, e

(* The text that ends at e begins behind the end before.                   *)
LEMMA DocThere ==
  ASSUME whole.cells \in Seq(Cell), NEW pos \in Nat, pos = 0 \/ pos \in TextEnds,
         NEW e \in TextEnds, pos < e, \A x \in TextEnds : x <= pos \/ x >= e
  PROVE  DocAt(e) = Parsed(SubSeq(whole.cells, pos + 1, e - 1), whole.sizes)
<1> DEFINE S == {0} \cup {x \in TextEnds : x < e}
<1>1. S \in SUBSET Nat /\ e \in Nat
  BY EndsFinite
<1>2. pos \in S /\ \A y \in S : pos >= y
  BY <1>1, EndsFinite
<1>3. ASSUME NEW x \in S, \A y \in S : x >= y PROVE x = pos
  <2>1. x \in Nat /\ x >= pos /\ pos >= x
    BY <1>1, <1>2, <1>3
  <2>2. QED
    BY <2>1
<1> HIDE DEF S
<1>4. Max(S) = pos
  BY <1>2, <1>3 DEF Max
<1>5. 1 + Max(S) = pos + 1
  BY <1>4
<1>6. QED
  BY <1>5 DEF DocAt, S

(* nextXmlDoc() takes the document at the next end, or there is none.      *)
LEMMA NextReads ==
  ASSUME ReaderInv, ReaderInv', ReadInv, CutText, ~over, NextXmlDoc, NextText \in Seq(Cell)
  PROVE  ReadInv'
<1> DEFINE c == whole.cells
<1>1. /\ whole' = whole /\ over' = (NextDoc = 0) /\ c \in Seq(Cell) /\ parsed \in Seq(Nat)
      /\ parsed' = IF NextDoc = 0 THEN parsed ELSE Append(parsed, NextDoc)
      /\ NextDoc = Parsed(NextText, whole.sizes)
  BY DEF NextXmlDoc, NextDoc, ReadInv
<1>2. NextDoc \in Nat
  BY <1>1, ParsedNumber
<1>3. PICK pos \in Nat : ReadTo(pos)
  BY DEF ReadInv
<1>4. /\ pos = 0 \/ pos \in TextEnds
      /\ Unread = Behind(c, pos)
      /\ \A e \in EndsTo(pos) : DocAt(e) # 0
      /\ Len(parsed) = Cardinality(EndsTo(pos))
      /\ \A k \in 1..Len(parsed) :
           \E e \in EndsTo(pos) : Cardinality(EndsTo(e)) = k /\ parsed[k] = DocAt(e)
  BY <1>3 DEF ReadTo
<1>5. /\ TextEnds' = TextEnds /\ \A e : DocAt(e)' = DocAt(e) /\ \A x : EndsTo(x)' = EndsTo(x)
  BY <1>1 DEF TextEnds, DocAt, EndsTo
<1>6. parsed' \in Seq(Nat) /\ over' \in BOOLEAN /\ whole'.cells \in Seq(Cell)
  BY <1>1, <1>2
<1>7. TextEnds \in SUBSET (1..(Len(c) + 1)) /\ Len(c) \in Nat
  BY <1>1, EndsFinite
<1>8. SUFFICES \E p \in Nat : ReadTo(p)'
  BY <1>6 DEF ReadInv
<1>9. CASE pos > Len(c)
  <2>1. Unread = << >>
    BY <1>1, <1>4, <1>7, <1>9, SubSeqEmpty DEF Behind
  <2>2. NextText = << >>
    <3>1. Unread' \in Seq(Cell) /\ FormFeed \in Cell
      BY DEF Unread, ReaderInv, FormFeed, Cell
    <3>2. Unread # NextText \o <<FormFeed>> \o Unread'
      <4>1. (NextText \o <<FormFeed>>) \o Unread' \in Seq(Cell)
        BY <3>1
      <4>2. Len((NextText \o <<FormFeed>>) \o Unread') = Len(NextText) + 1 + Len(Unread')
        BY <3>1
      <4>3. Len(NextText) \in Nat /\ Len(Unread') \in Nat
        BY <3>1
      <4>4. QED
        BY <2>1, <4>2, <4>3
    <3>3. QED
      BY <2>1, <3>2 DEF CutText
  <2>3. NextDoc = 0
    BY <1>1, <2>2, ParsedNumber
  <2>4. \A e \in TextEnds : ~(e > pos)
    BY <1>7, <1>9
  <2>5. ReadTo(pos)'
    BY <1>1, <1>4, <1>5, <2>3, <2>4 DEF ReadTo
  <2>6. QED
    BY <2>5
<1>10. CASE pos \in 0..Len(c)
  <2>1. Unread' \in Seq(Cell)
    BY DEF Unread, ReaderInv
  <2>2. PICK e \in Nat :
          /\ e \in TextEnds /\ \A x \in TextEnds : x <= pos \/ x >= e
          /\ SubSeq(c, pos + 1, e - 1) = NextText
          /\ Unread' = Behind(c, e) /\ pos < e
    <3> DEFINE at == pos + Len(NextText) + 1
    <3>1. at \in Nat /\ pos < at
      OBVIOUS
    <3>2. /\ at \in TextEnds /\ \A x \in TextEnds : x <= pos \/ x >= at
          /\ SubSeq(c, pos + 1, at - 1) = NextText
          /\ Unread' = Behind(c, at)
      BY <1>1, <1>4, <1>10, <2>1, TextTaken
    <3> HIDE DEF at
    <3>3. QED
      BY <3>1, <3>2
  <2>3. e \in Nat /\ pos < e
    BY <2>2
  <2>4. DocAt(e) = NextDoc
    BY <1>1, <1>4, <2>2, <2>3, DocThere
  <2>5. CASE NextDoc = 0
    <3>1. \A x \in TextEnds : x > pos => e \in EndsTo(x)
      BY <1>7, <2>2, <2>3 DEF EndsTo
    <3>2. ReadTo(pos)'
      BY <1>1, <1>4, <1>5, <2>4, <2>5, <3>1 DEF ReadTo
    <3>3. QED
      BY <3>2
  <2>6. CASE NextDoc # 0
    <3>1. EndsTo(e) = EndsTo(pos) \cup {e} /\ e \notin EndsTo(pos)
      <4>1. ASSUME NEW x \in TextEnds PROVE x <= e <=> x <= pos \/ x = e
        BY <1>7, <2>2, <2>3
      <4>2. e \in TextEnds /\ ~(e <= pos)
        BY <2>2, <2>3
      <4>3. QED
        BY <4>1, <4>2 DEF EndsTo
    <3>2. /\ IsFiniteSet(EndsTo(pos)) /\ Cardinality(EndsTo(pos)) \in Nat
      BY <1>1, EndsFinite
    <3>3. Cardinality(EndsTo(e)) = Cardinality(EndsTo(pos)) + 1
      BY <3>1, <3>2, FS_AddElement
    <3>4. parsed' = Append(parsed, NextDoc) /\ over' = FALSE
      BY <1>1, <2>6
    <3>5. /\ Len(parsed') = Len(parsed) + 1 /\ parsed'[Len(parsed) + 1] = NextDoc
          /\ \A k \in 1..Len(parsed) : parsed'[k] = parsed[k]
      BY <1>1, <1>2, <3>4
    <3>6. ASSUME NEW k \in 1..Len(parsed')
          PROVE  \E x \in EndsTo(e) : Cardinality(EndsTo(x)) = k /\ parsed'[k] = DocAt(x)
      <4>1. k \in 1..Len(parsed) \/ k = Len(parsed) + 1
        BY <1>1, <3>5
      <4>2. CASE k \in 1..Len(parsed)
        BY <1>4, <3>1, <3>5, <4>2
      <4>3. CASE k = Len(parsed) + 1
        BY <1>4, <2>4, <3>1, <3>3, <3>5, <4>3
      <4>4. QED
        BY <4>1, <4>2, <4>3
    <3>7. \A x \in EndsTo(e) : DocAt(x) # 0
      BY <1>4, <2>4, <2>6, <3>1
    <3>8. ReadTo(e)'
      BY <1>1, <1>4, <1>5, <2>2, <3>3, <3>4, <3>5, <3>6, <3>7 DEF ReadTo
    <3>9. QED
      BY <2>3, <3>8
  <2>7. QED
    BY <2>5, <2>6
<1>11. QED
  BY <1>7, <1>9, <1>10

Opened ==
  whole.cells \in Seq(Cell) /\ stream = whole.cells /\ buf = << >> /\ parsed = << >> /\ over = FALSE

LEMMA FileOpened == Opened => ReadInv
<1> SUFFICES ASSUME Opened PROVE ReadInv
  OBVIOUS
<1>1. whole.cells \in Seq(Cell) /\ parsed \in Seq(Nat) /\ over \in BOOLEAN
  <2>1. << >> \in Seq(Nat) /\ FALSE \in BOOLEAN
    OBVIOUS
  <2>2. parsed = << >> /\ over = FALSE
    BY DEF Opened
  <2>3. parsed \in Seq(Nat)
    BY <2>1, <2>2
  <2>4. over \in BOOLEAN
    BY <2>1, <2>2
  <2>5. QED
    BY <2>3, <2>4 DEF Opened
<1>2. EndsTo(0) = {}
  <2>1. \A x \in TextEnds : ~(x <= 0)
    BY <1>1, EndsFinite
  <2>2. QED
    BY <2>1 DEF EndsTo
<1>3. Cardinality(EndsTo(0)) = 0
  BY <1>2, FS_EmptySet
<1>4. Unread = Behind(whole.cells, 0)
  <2>1. Unread = whole.cells
    BY <1>1 DEF Opened, Unread
  <2>2. Behind(whole.cells, 0) = whole.cells
    BY <1>1, SubSeqFull DEF Behind
  <2>3. QED
    BY <2>1, <2>2
<1>5. ReadTo(0)
  BY <1>2, <1>3, <1>4 DEF ReadTo, Opened
<1>6. QED
  BY <1>1, <1>5 DEF ReadInv

LEMMA UnreadKept ==
  ASSUME ReadInv, Unread' = Unread, UNCHANGED <<parsed, over, whole>>
  PROVE  ReadInv'
<1>1. /\ TextEnds' = TextEnds /\ \A e : DocAt(e)' = DocAt(e) /\ \A x : EndsTo(x)' = EndsTo(x)
  BY DEF TextEnds, DocAt, EndsTo
<1>2. ASSUME NEW pos \in Nat, ReadTo(pos) PROVE ReadTo(pos)'
  BY <1>1, <1>2 DEF ReadTo
<1>3. QED
  BY <1>2 DEF ReadInv

LEMMA ReadInvKept ==
  ASSUME ReaderInv, ReadInv, [ReaderNext]_streamVars
  PROVE  ReadInv'
<1>1. CASE \E cells \in Seq(Cell), sizes \in Seq(Nat) : OpenFile(cells, sizes)
  <2>1. Opened'
    BY <1>1 DEF OpenFile, Opened
  <2>2. (Opened => ReadInv)'
    BY FileOpened, PTL
  <2>3. QED
    BY <2>1, <2>2
<1>2. CASE ~over /\ ReadChunk
  <2>1. Unread' = Unread /\ UNCHANGED <<parsed, over, whole>>
    BY <1>2, ReadKeeps DEF ReadChunk
  <2>2. QED
    BY <2>1, UnreadKept
<1>3. CASE ~over /\ NextXmlDoc
  BY <1>3, NextKeeps, NextReads
<1>4. CASE UNCHANGED streamVars
  <2>1. Unread' = Unread /\ UNCHANGED <<parsed, over, whole>>
    BY <1>4 DEF streamVars, Unread
  <2>2. QED
    BY <2>1, UnreadKept
<1>5. QED
  BY <1>1, <1>2, <1>3, <1>4 DEF ReaderNext

(* What was read is the front of what is to be read, and all of it in the  *)
(* end.                                                                    *)
LEMMA ReadMeans ==
  ASSUME ReadInv
  PROVE  ReadsUpToFirstBad
<1> DEFINE n == Cardinality(Leading)
           UpTo(e) == {x \in Leading : x <= e}
<1>1. whole.cells \in Seq(Cell) /\ parsed \in Seq(Nat) /\ Len(parsed) \in Nat
  BY DEF ReadInv
<1>2. PICK pos \in Nat : ReadTo(pos)
  BY DEF ReadInv
<1>3. /\ TextEnds \in SUBSET Nat /\ IsFiniteSet(TextEnds) /\ Leading \in SUBSET TextEnds
      /\ IsFiniteSet(Leading) /\ n \in Nat
  <2>1. TextEnds \in SUBSET Nat /\ IsFiniteSet(TextEnds) /\ Leading \in SUBSET TextEnds
    BY <1>1, EndsFinite DEF Leading
  <2>2. QED
    BY <2>1, FS_Subset, FS_CardinalityType
<1>4. EndsTo(pos) \in SUBSET Leading
  <2>1. SUFFICES ASSUME NEW e \in EndsTo(pos), NEW x \in TextEnds, x <= e PROVE DocAt(x) # 0
    BY <1>3 DEF EndsTo, Leading
  <2>2. x \in EndsTo(pos)
    <3>1. x \in Nat /\ e \in Nat /\ e <= pos
      BY <1>3 DEF EndsTo
    <3>2. x <= pos
      BY <2>1, <3>1
    <3>3. QED
      BY <3>2 DEF EndsTo
  <2>3. QED
    BY <1>2, <2>2 DEF ReadTo
<1>5. Len(parsed) <= n
  BY <1>2, <1>3, <1>4, FS_Subset DEF ReadTo
<1>6. ASSUME NEW e \in EndsTo(pos) PROVE UpTo(e) = EndsTo(e) /\ e \in Leading
  <2>1. e \in TextEnds /\ e \in Nat /\ e <= pos /\ e \in Leading
    BY <1>3, <1>4, <1>6 DEF EndsTo
  <2>2. ASSUME NEW x \in TextEnds, x <= e PROVE x \in Leading
    <3>1. x \in Nat
      BY <1>3
    <3>2. x <= pos
      BY <2>1, <2>2, <3>1
    <3>3. QED
      BY <1>4, <3>2 DEF EndsTo
  <2>3. QED
    BY <1>3, <2>1, <2>2 DEF EndsTo
<1>7. ASSUME NEW x \in Leading, NEW y \in Leading, x < y
      PROVE  Cardinality(UpTo(x)) # Cardinality(UpTo(y))
  <2>1. x \in Nat /\ y \in Nat /\ UpTo(y) \in SUBSET Leading
    BY <1>3
  <2>2. UpTo(x) \in SUBSET UpTo(y) /\ y \in UpTo(y) /\ y \notin UpTo(x)
    <3>1. y <= y /\ ~(y <= x)
      BY <1>7, <2>1
    <3>2. ASSUME NEW z \in Leading, z <= x PROVE z <= y
      <4>1. z \in Nat
        BY <1>3
      <4>2. QED
        BY <1>7, <2>1, <3>2, <4>1
    <3>3. QED
      BY <3>1, <3>2
  <2>3. IsFiniteSet(UpTo(y))
    BY <1>3, <2>1, FS_Subset
  <2> HIDE DEF UpTo
  <2>4. QED
    BY <2>2, <2>3, FS_Subset
<1>8. ASSUME NEW k \in 1..Len(parsed) PROVE LeadingDocs[k] = parsed[k]
  <2>1. PICK e \in EndsTo(pos) : Cardinality(EndsTo(e)) = k /\ parsed[k] = DocAt(e)
    BY <1>2 DEF ReadTo
  <2>2. e \in Leading /\ Cardinality(UpTo(e)) = k
    BY <1>6, <2>1
  <2>3. ASSUME NEW x \in Leading, Cardinality(UpTo(x)) = k PROVE x = e
    <3>1. x \in Nat /\ e \in Nat
      BY <1>3, <2>2
    <3>2. ~(x < e) /\ ~(e < x)
      BY <1>7, <2>2, <2>3
    <3>3. QED
      BY <3>1, <3>2
  <2>4. (CHOOSE x \in Leading : Cardinality(UpTo(x)) = k) = e
    BY <2>2, <2>3
  <2>5. k \in 1..n
    BY <1>1, <1>3, <1>5
  <2>6. QED
    BY <2>1, <2>4, <2>5 DEF LeadingDocs
<1> HIDE DEF n, UpTo
<1>9. DOMAIN LeadingDocs = 1..n /\ Len(LeadingDocs) = n
  BY <1>3 DEF LeadingDocs, n
<1>10. IsPrefix(parsed, LeadingDocs)
  <2>1. \A k \in 1..Len(parsed) : SubSeq(LeadingDocs, 1, Len(parsed))[k] = parsed[k]
    BY <1>1, <1>8
  <2>2. SubSeq(LeadingDocs, 1, Len(parsed)) = [k \in 1..Len(parsed) |-> LeadingDocs[k]]
    BY <1>1
  <2>3. parsed = [k \in 1..Len(parsed) |-> parsed[k]]
    BY <1>1
  <2>4. SubSeq(LeadingDocs, 1, Len(parsed)) = parsed
    BY <1>8, <2>2, <2>3
  <2>5. SubSeq(parsed, 1, Len(parsed)) = parsed
    BY <1>1, SubSeqFull
  <2>6. QED
    BY <1>1, <1>5, <1>9, <2>4, <2>5 DEF IsPrefix
<1>11. ASSUME over PROVE parsed = LeadingDocs
  <2>1. Leading \in SUBSET EndsTo(pos)
    <3>1. SUFFICES ASSUME NEW e \in Leading, e > pos PROVE FALSE
      BY <1>2, <1>3 DEF EndsTo
    <3>2. PICK x \in EndsTo(e) : DocAt(x) = 0
      BY <1>2, <1>3, <1>11, <3>1 DEF ReadTo
    <3>3. QED
      BY <1>3, <3>2 DEF EndsTo, Leading
  <2>2. Len(parsed) = n
    <3>1. Leading = EndsTo(pos)
      BY <1>4, <2>1
    <3>2. QED
      BY <1>2, <3>1 DEF ReadTo, n
  <2>3. LeadingDocs = [k \in 1..n |-> LeadingDocs[k]]
    BY <1>9 DEF LeadingDocs, n
  <2>4. parsed = [k \in 1..n |-> parsed[k]]
    BY <1>1, <2>2
  <2>5. QED
    BY <1>8, <2>2, <2>3, <2>4
<1>12. QED
  BY <1>10, <1>11 DEF ReadsUpToFirstBad

(* All documents at the front of the file are read, in order, and nothing  *)
(* behind the first text that is none, wherever the file was cut, and      *)
(* whatever the sizes of the documents, of the chunks and of the buffer.   *)
THEOREM ReadsAllItCan == Reader => []ReadsUpToFirstBad
<1>1. ReaderInit => ReadInv
  <2>1. ReaderInit => Opened
    BY DEF ReaderInit, Opened
  <2>2. QED
    BY <2>1, FileOpened
<1>2. ReaderInv /\ ReadInv /\ [ReaderNext]_streamVars => ReadInv'
  BY ReadInvKept
<1>3. ReadInv => ReadsUpToFirstBad
  BY ReadMeans
<1>4. QED
  BY <1>1, <1>2, <1>3, ReaderInvHolds, PTL DEF Reader

(***************************************************************************)
(* The first day of a job.                                                 *)
(***************************************************************************)

(* Business days are numbered: from Monday, day 1, on.                     *)
Nth(m) == 7 * (m \div 5) + (m % 5) + 1

(* How many of them come before a day.                                     *)
Earlier(day) ==
  5 * (day \div 7) + (CASE Weekday(day) = 0 -> 0
                        [] Weekday(day) = 6 -> 5
                        [] OTHER -> Weekday(day) - 1)

(* A number is its quotient and its remainder.                             *)
LEMMA Sevens ==
  ASSUME NEW d \in Int
  PROVE  d \div 7 \in Int /\ d % 7 \in 0..6 /\ d = 7 * (d \div 7) + (d % 7)
OBVIOUS

LEMMA Fives ==
  ASSUME NEW m \in Int
  PROVE  m \div 5 \in Int /\ m % 5 \in 0..4 /\ m = 5 * (m \div 5) + (m % 5)
OBVIOUS

LEMMA WeekOf ==
  ASSUME NEW d \in Int, NEW w \in Int, NEW r \in 0..6, d = 7 * w + r
  PROVE  d \div 7 = w /\ d % 7 = r
OBVIOUS

LEMMA NthDay ==
  ASSUME NEW m \in Int
  PROVE  Nth(m) \in Int /\ ~Weekend(Nth(m)) /\ Earlier(Nth(m)) = m
<1> DEFINE w == m \div 5
           r == m % 5
<1>1. w \in Int /\ r \in 0..4 /\ m = 5 * w + r
  BY Fives
<1> HIDE DEF w, r
<1>2. Nth(m) = 7 * w + (r + 1) /\ Nth(m) \in Int /\ r + 1 \in 0..6
  BY <1>1 DEF Nth, w, r
<1>3. Nth(m) \div 7 = w /\ Nth(m) % 7 = r + 1
  BY <1>1, <1>2, WeekOf
<1>4. QED
  BY <1>1, <1>2, <1>3 DEF Weekend, Weekday, Earlier

LEMMA EarlierIsInt ==
  ASSUME NEW d \in Int
  PROVE  Earlier(d) \in Int
BY Sevens DEF Earlier, Weekday

(* The business days before a day are those with a smaller number.         *)
LEMMA NthBefore ==
  ASSUME NEW m \in Int, NEW d \in Int
  PROVE  Nth(m) < d <=> m < Earlier(d)
<1> DEFINE w == m \div 5
           r == m % 5
           v == d \div 7
           q == d % 7
<1>1. w \in Int /\ r \in 0..4 /\ m = 5 * w + r
  BY Fives
<1>2. v \in Int /\ q \in 0..6 /\ d = 7 * v + q
  BY Sevens
<1>3. Nth(m) = 7 * w + r + 1
  BY <1>1 DEF Nth
<1>4. Earlier(d) = 5 * v + (CASE q = 0 -> 0 [] q = 6 -> 5 [] OTHER -> q - 1)
  BY DEF Earlier, Weekday
<1> HIDE DEF w, r, v, q
<1>5. CASE q = 0
  BY <1>1, <1>2, <1>3, <1>4, <1>5
<1>6. CASE q = 6
  BY <1>1, <1>2, <1>3, <1>4, <1>6
<1>7. CASE q \in 1..5
  BY <1>1, <1>2, <1>3, <1>4, <1>7
<1>8. QED
  BY <1>2, <1>5, <1>6, <1>7

(* A business day is the one with its number.                              *)
LEMMA DayNth ==
  ASSUME NEW d \in Int, ~Weekend(d)
  PROVE  Nth(Earlier(d)) = d
<1> DEFINE v == d \div 7
           q == d % 7
<1>1. v \in Int /\ q \in 0..6 /\ d = 7 * v + q
  BY Sevens
<1>2. q \in 1..5
  BY <1>1 DEF Weekend, Weekday
<1>3. Earlier(d) = 5 * v + (q - 1)
  BY <1>2 DEF Earlier, Weekday
<1> HIDE DEF v, q
<1>4. Earlier(d) \div 5 = v /\ Earlier(d) % 5 = q - 1
  BY <1>1, <1>2, <1>3
<1>5. QED
  BY <1>1, <1>2, <1>4 DEF Nth

(* The business days from one on up to a day are as many as the numbers    *)
(* between them.                                                           *)
LEMMA BusinessDaysCounted ==
  ASSUME NEW first \in Int, ~Weekend(first), NEW day \in Int, Earlier(first) <= Earlier(day)
  PROVE  Cardinality(BusinessDays(first, day - 1)) = Earlier(day) - Earlier(first)
<1> DEFINE a == Earlier(first)
           n == Earlier(day) - a
           S == BusinessDays(first, day - 1)
           f == [k \in 1..n |-> Nth(a + k - 1)]
<1>1. a \in Int /\ Earlier(day) \in Int /\ n \in Nat
  BY EarlierIsInt
<1>2. ASSUME NEW k \in 1..n PROVE f[k] \in S /\ Earlier(f[k]) = a + k - 1
  <2> DEFINE m == a + k - 1
  <2>1. m \in Int /\ a <= m /\ m < Earlier(day)
    BY <1>1
  <2>2. f[k] = Nth(m)
    OBVIOUS
  <2> HIDE DEF m, f, n
  <2>3. Nth(m) \in Int /\ ~Weekend(Nth(m)) /\ Earlier(Nth(m)) = m
    BY <2>1, NthDay
  <2>4. Nth(m) < day
    BY <2>1, NthBefore
  <2>5. ~(Nth(m) < first)
    BY <1>1, <2>1, NthBefore
  <2>6. Nth(m) \in first..(day - 1)
    BY <2>3, <2>4, <2>5
  <2>7. QED
    BY <2>2, <2>3, <2>6 DEF BusinessDays, m
<1>3. ASSUME NEW d \in S PROVE \E k \in 1..n : f[k] = d
  <2>1. d \in Int /\ first <= d /\ d < day /\ ~Weekend(d)
    BY DEF BusinessDays
  <2>2. Nth(Earlier(d)) = d /\ Earlier(d) \in Int
    BY <2>1, DayNth, EarlierIsInt
  <2>3. Earlier(d) < Earlier(day)
    BY <2>1, <2>2, NthBefore
  <2>4. ~(Earlier(d) < a)
    <3>1. ~(Nth(Earlier(d)) < first)
      BY <2>1, <2>2
    <3>2. QED
      BY <2>2, <3>1, NthBefore
  <2>5. Earlier(d) - a + 1 \in 1..n /\ a + (Earlier(d) - a + 1) - 1 = Earlier(d)
    BY <1>1, <2>2, <2>3, <2>4
  <2>6. f[Earlier(d) - a + 1] = d
    BY <2>2, <2>5
  <2>7. QED
    BY <2>5, <2>6
<1> HIDE DEF f, S
<1>4. f \in [1..n -> S]
  BY <1>2 DEF f
<1>5. ASSUME NEW i \in 1..n, NEW j \in 1..n, f[i] = f[j] PROVE i = j
  <2>1. a + i - 1 = a + j - 1
    BY <1>2, <1>5
  <2>2. QED
    BY <1>1, <2>1
<1>6. f \in Injection(1..n, S)
  BY <1>4, <1>5 DEF Injection, IsInjective
<1>7. f \in Surjection(1..n, S)
  BY <1>3, <1>4 DEF Surjection
<1>8. ExistsBijection(1..n, S)
  BY <1>6, <1>7 DEF Bijection, ExistsBijection
<1> HIDE DEF n
<1>9. Cardinality(S) = n
  BY <1>1, <1>8, FS_CountingElements
<1>10. QED
  BY <1>9 DEF S, n

(* The loop of min_begin_date(): it goes back one business day each time.  *)
LEMMA DayBeforeBusiness ==
  ASSUME NEW d \in Int, ~Weekend(d)
  PROVE  /\ DayBefore(d) \in Int /\ DayBefore(d) <= d /\ ~Weekend(DayBefore(d))
         /\ Earlier(DayBefore(d)) = Earlier(d) - 1
<1> DEFINE v == d \div 7
           q == d % 7
<1>1. v \in Int /\ q \in 1..5 /\ d = 7 * v + q
  BY Sevens DEF Weekend, Weekday
<1>2. DayBefore(d) = IF q = 1 THEN d - 3 ELSE d - 1
  BY DEF DayBefore, Weekday
<1>3. Earlier(d) = 5 * v + (q - 1)
  <2>1. q \in 1..5
    BY <1>1
  <2>2. QED
    BY <2>1 DEF Earlier, Weekday
<1> HIDE DEF v, q
<1>4. CASE q = 1
  <2>1. d - 3 \in Int /\ d - 3 = 7 * (v - 1) + 5 /\ v - 1 \in Int
    BY <1>1, <1>4
  <2>2. (d - 3) \div 7 = v - 1 /\ (d - 3) % 7 = 5
    BY <2>1, WeekOf
  <2>3. QED
    BY <1>1, <1>2, <1>3, <1>4, <2>1, <2>2 DEF Weekend, Weekday, Earlier
<1>5. CASE q # 1
  <2>1. d - 1 \in Int /\ d - 1 = 7 * v + (q - 1) /\ q - 1 \in 1..4
    BY <1>1, <1>5
  <2>2. (d - 1) \div 7 = v /\ (d - 1) % 7 = q - 1
    BY <1>1, <2>1, WeekOf
  <2>3. Earlier(d - 1) = 5 * v + (q - 2) /\ ~Weekend(d - 1)
    BY <2>1, <2>2 DEF Weekend, Weekday, Earlier
  <2>4. QED
    BY <1>1, <1>2, <1>3, <1>5, <2>1, <2>3
<1>6. QED
  BY <1>4, <1>5

LEMMA DaysBeforeSteps ==
  ASSUME NEW d \in Int
  PROVE  /\ DaysBefore(d, 0) = d
         /\ \A n \in 1..4 : DaysBefore(d, n) = DayBefore(DaysBefore(d, n - 1))
<1> DEFINE f == CHOOSE f : f = [i \in 0..4 |-> IF i = 0 THEN d ELSE DayBefore(f[i - 1])]
           g1 == DayBefore(d)
           g2 == DayBefore(g1)
           g3 == DayBefore(g2)
           g4 == DayBefore(g3)
           g == [i \in 0..4 |-> IF i = 0 THEN d ELSE IF i = 1 THEN g1 ELSE IF i = 2 THEN g2
                                ELSE IF i = 3 THEN g3 ELSE g4]
<1>1. \A n : DaysBefore(d, n) = f[n]
  BY Zenon DEF DaysBefore
<1>2. g = [i \in 0..4 |-> IF i = 0 THEN d ELSE DayBefore(g[i - 1])]
  <2>1. ASSUME NEW i \in 0..4
        PROVE  g[i] = IF i = 0 THEN d ELSE DayBefore(g[i - 1])
    <3> HIDE DEF g1, g2, g3, g4
    <3>1. g[0] = d /\ g[1] = g1 /\ g[2] = g2 /\ g[3] = g3 /\ g[4] = g4
      OBVIOUS
    <3>2. g1 = DayBefore(d) /\ g2 = DayBefore(g1) /\ g3 = DayBefore(g2) /\ g4 = DayBefore(g3)
      BY DEF g1, g2, g3, g4
    <3> HIDE DEF g
    <3>3. i = 0 \/ i = 1 \/ i = 2 \/ i = 3 \/ i = 4
      OBVIOUS
    <3>4. QED
      BY <3>1, <3>2, <3>3
  <2>2. QED
    BY <2>1
<1> HIDE DEF g
<1>3. f = [i \in 0..4 |-> IF i = 0 THEN d ELSE DayBefore(f[i - 1])]
  BY <1>2, Zenon
<1> HIDE DEF f
<1>4. f[0] = d /\ \A n \in 1..4 : f[n] = DayBefore(f[n - 1])
  BY <1>3
<1>5. QED
  BY <1>1, <1>4

LEMMA DaysBeforeBusiness ==
  ASSUME NEW d \in Int, ~Weekend(d), NEW n \in 0..4
  PROVE  /\ DaysBefore(d, n) \in Int /\ DaysBefore(d, n) <= d /\ ~Weekend(DaysBefore(d, n))
         /\ Earlier(DaysBefore(d, n)) = Earlier(d) - n
<1> DEFINE b(k) == DaysBefore(d, k)
           Good(k) == /\ b(k) \in Int /\ b(k) <= d /\ ~Weekend(b(k))
                      /\ Earlier(b(k)) = Earlier(d) - k
<1>1. Earlier(d) \in Int
  BY EarlierIsInt
<1>2. Good(0)
  BY <1>1, DaysBeforeSteps
<1>3. ASSUME NEW k \in 1..4, Good(k - 1) PROVE Good(k)
  <2>1. b(k) = DayBefore(b(k - 1))
    BY DaysBeforeSteps
  <2> HIDE DEF b
  <2>2. /\ b(k) \in Int /\ b(k) <= b(k - 1) /\ ~Weekend(b(k))
        /\ Earlier(b(k)) = Earlier(b(k - 1)) - 1
    BY <1>3, <2>1, DayBeforeBusiness
  <2>3. QED
    BY <1>1, <1>3, <2>2
<1> HIDE DEF Good
<1>4. Good(1)
  BY <1>2, <1>3
<1>5. Good(2)
  BY <1>3, <1>4
<1>6. Good(3)
  BY <1>3, <1>5
<1>7. Good(4)
  BY <1>3, <1>6
<1>8. Good(n)
  BY <1>2, <1>4, <1>5, <1>6, <1>7
<1>9. QED
  BY <1>8 DEF Good

(* The jump to Friday: it changes the number only when it leaves a weekend.*)
LEMMA FridayBusiness ==
  ASSUME NEW d \in Int
  PROVE  /\ Friday(d) \in Int /\ Friday(d) <= d /\ ~Weekend(Friday(d))
         /\ Earlier(Friday(d)) = IF Weekend(d) THEN Earlier(d) - 1 ELSE Earlier(d)
<1> DEFINE v == d \div 7
           q == d % 7
<1>1. v \in Int /\ q \in 0..6 /\ d = 7 * v + q
  BY Sevens
<1>2. Friday(d) = CASE q = 0 -> d - 2 [] q = 6 -> d - 1 [] OTHER -> d
  BY DEF Friday, Weekday
<1>3. Earlier(d) = 5 * v + (CASE q = 0 -> 0 [] q = 6 -> 5 [] OTHER -> q - 1)
  BY DEF Earlier, Weekday
<1>4. Weekend(d) <=> q \in {0, 6}
  BY DEF Weekend, Weekday
<1>5. CASE q \in 1..5
  <2>1. Friday(d) = d /\ ~Weekend(d)
    BY <1>2, <1>4, <1>5
  <2>2. QED
    BY <2>1
<1> HIDE DEF v, q
<1>6. CASE q = 0
  <2>1. d - 2 \in Int /\ d - 2 = 7 * (v - 1) + 5 /\ v - 1 \in Int /\ Friday(d) = d - 2
    BY <1>1, <1>2, <1>6
  <2>2. (d - 2) \div 7 = v - 1 /\ (d - 2) % 7 = 5
    BY <2>1, WeekOf
  <2>3. Earlier(d - 2) = 5 * (v - 1) + 4 /\ ~Weekend(d - 2)
    BY <2>2 DEF Earlier, Weekend, Weekday
  <2>4. Earlier(d) = 5 * v /\ Weekend(d)
    BY <1>1, <1>3, <1>4, <1>6
  <2>5. QED
    BY <1>1, <2>1, <2>3, <2>4
<1>7. CASE q = 6
  <2>1. d - 1 \in Int /\ d - 1 = 7 * v + 5 /\ Friday(d) = d - 1
    BY <1>1, <1>2, <1>7
  <2>2. (d - 1) \div 7 = v /\ (d - 1) % 7 = 5
    BY <1>1, <2>1, WeekOf
  <2>3. Earlier(d - 1) = 5 * v + 4 /\ ~Weekend(d - 1)
    BY <2>2 DEF Earlier, Weekend, Weekday
  <2>4. Earlier(d) = 5 * v + 5 /\ Weekend(d)
    BY <1>1, <1>3, <1>4, <1>7
  <2>5. QED
    BY <1>1, <2>1, <2>3, <2>4
<1>8. QED
  BY <1>1, <1>5, <1>6, <1>7

(* Full weeks have five business days each.                                *)
LEMMA WeeksBack ==
  ASSUME NEW d \in Int, NEW k \in Nat
  PROVE  /\ d - 7 * k \in Int /\ d - 7 * k <= d /\ (Weekend(d - 7 * k) <=> Weekend(d))
         /\ Earlier(d - 7 * k) = Earlier(d) - 5 * k
<1> DEFINE v == d \div 7
           q == d % 7
           e == d - 7 * k
<1>1. v \in Int /\ q \in 0..6 /\ d = 7 * v + q
  BY Sevens
<1>2. Earlier(d) = 5 * v + (CASE q = 0 -> 0 [] q = 6 -> 5 [] OTHER -> q - 1)
  BY DEF Earlier, Weekday
<1>3. Weekend(d) <=> q \in {0, 6}
  BY DEF Weekend, Weekday
<1> HIDE DEF v, q
<1>4. e \in Int /\ e = 7 * (v - k) + q /\ v - k \in Int /\ e <= d
  BY <1>1
<1> HIDE DEF e
<1>5. e \div 7 = v - k /\ e % 7 = q
  BY <1>1, <1>4, WeekOf
<1>6. Earlier(e) = 5 * (v - k) + (CASE q = 0 -> 0 [] q = 6 -> 5 [] OTHER -> q - 1)
  BY <1>5 DEF Earlier, Weekday
<1>7. Weekend(e) <=> q \in {0, 6}
  BY <1>5 DEF Weekend, Weekday
<1>8. Earlier(e) = Earlier(d) - 5 * k
  BY <1>1, <1>2, <1>6
<1>9. QED
  BY <1>3, <1>4, <1>7, <1>8 DEF e

LEMMA BeginDayCounts ==
  ASSUME NEW last \in Int, NEW days \in Nat
  PROVE  LET first == BeginDay(last, days)
             busy  == Cardinality(BusinessDays(first, last - 1))
         IN  /\ first \in Int /\ first <= last /\ ~Weekend(first)
             /\ busy = days \/ (days = 0 /\ Weekend(last) /\ busy = 1)
<1> DEFINE b == IF Weekend(last) THEN days - 1 ELSE days
           f == Friday(last)
           first == BeginDay(last, days)
<1>1. /\ f \in Int /\ f <= last /\ ~Weekend(f)
      /\ Earlier(f) = IF Weekend(last) THEN Earlier(last) - 1 ELSE Earlier(last)
  BY FridayBusiness
<1>2. Earlier(last) \in Int /\ Earlier(f) \in Int
  BY <1>1, EarlierIsInt
<1> HIDE DEF f
<1>3. CASE b < 0
  <2>1. first = f
    BY <1>3 DEF BeginDay, f
  <2>2. days = 0 /\ Weekend(last)
    BY <1>3
  <2>3. Cardinality(BusinessDays(f, last - 1)) = Earlier(last) - Earlier(f)
    BY <1>1, <1>2, BusinessDaysCounted
  <2>4. Earlier(last) - Earlier(f) = 1
    BY <1>1, <1>2, <2>2
  <2> HIDE DEF first
  <2>5. QED
    BY <1>1, <2>1, <2>2, <2>3, <2>4 DEF first
<1>4. CASE b >= 0
  <2> DEFINE w == b \div 5
             r == b % 5
             m == f - 7 * w
  <2>1. b \in Nat /\ w \in Nat /\ r \in 0..4 /\ b = 5 * w + r
    BY <1>4, Fives
  <2>2. first = DaysBefore(m, r)
    BY <1>4 DEF BeginDay, f
  <2> HIDE DEF w, r
  <2>3. /\ m \in Int /\ m <= f /\ ~Weekend(m) /\ Earlier(m) = Earlier(f) - 5 * w
    BY <1>1, <2>1, WeeksBack
  <2> HIDE DEF m, first, b
  <2>4. /\ first \in Int /\ first <= m /\ ~Weekend(first)
        /\ Earlier(first) = Earlier(m) - r
    BY <2>1, <2>2, <2>3, DaysBeforeBusiness
  <2>5. Earlier(last) - Earlier(first) = days
    BY <1>1, <1>2, <2>1, <2>3, <2>4 DEF b
  <2>6. Cardinality(BusinessDays(first, last - 1)) = days
    <3>1. Earlier(first) \in Int
      BY <2>4, EarlierIsInt
    <3>2. Earlier(first) <= Earlier(last)
      BY <1>2, <2>5, <3>1
    <3>3. QED
      BY <2>4, <2>5, <3>2, BusinessDaysCounted
  <2>7. QED
    BY <1>1, <2>3, <2>4, <2>6 DEF first
<1>5. QED
  BY <1>3, <1>4

LEMMA DurationIsNat ==
  ASSUME NEW dur, Duration2Secs(dur) # -1
  PROVE  Duration2Secs(dur) \in Nat
<1> DEFINE d == Durations[dur]
<1>1. /\ dur \in DOMAIN Durations /\ d.unit \in DOMAIN Units /\ ~(d.n < 0)
      /\ Duration2Secs(dur) = d.n * Units[d.unit]
  BY DEF Duration2Secs
<1>2. d.n \in Nat
  BY <1>1, DurationsAssumption
<1>3. Units[d.unit] \in Nat
  BY <1>1 DEF Units, DaySecs
<1>4. QED
  BY <1>1, <1>2, <1>3

(* For every date of the calendar and every duration that is understood,   *)
(* min_begin_date() goes to a business day that has as many business days  *)
(* up to the end as the duration has days: no week, weekend or remainder of*)
(* the two makes it miss one.                                              *)
THEOREM EveryJobBeginsWell ==
  ASSUME NEW end, IsDate(end), NEW dur, Duration2Secs(dur) # -1
  PROVE  BeginsWell(end, dur)
<1> DEFINE last == Calendar[end].day
           days == Duration2Secs(dur) \div DaySecs
<1>1. last \in Int
  BY CalendarAssumption DEF IsDate
<1>2. days \in Nat
  BY DurationIsNat DEF DaySecs
<1>3. MinBeginDate(end, dur).day = BeginDay(last, days)
  BY DEF MinBeginDate
<1> DEFINE Well(first) ==
             LET busy == Cardinality(BusinessDays(first, last - 1))
             IN  /\ first <= last /\ ~Weekend(first)
                 /\ busy = days \/ (days = 0 /\ Weekend(last) /\ busy = 1)
<1>4. BeginsWell(end, dur) <=> Well(MinBeginDate(end, dur).day)
  BY DEF BeginsWell
<1> HIDE DEF last, days
<1>5. Well(BeginDay(last, days))
  BY <1>1, <1>2, BeginDayCounts
<1> HIDE DEF Well
<1>6. QED
  BY <1>3, <1>4, <1>5

(***************************************************************************)
(* Structs that are written and read again: what FromXml() makes of what   *)
(* ToXml() made.  Leaves have no parts, the parts of Inner are Leaves, those*)
(* of Outer are Inner.                                                     *)
(***************************************************************************)

Leaves  == {"ComboLeg", "DeltaNeutralContract", "TagValue", "OrderComboLeg"}
Inner   == {"Contract", "Order", "TagValue"}
Outer   == {"ContractDetails", "ContractDetailsRequest", "HistRequest", "PlaceOrder", "RowHist"}

(* The type of the elements of a part.                                     *)
LEMMA PartTypes ==
  /\ PartType["comboLegs"] = "ComboLeg" /\ PartType["deltaNeutralContract"] = "DeltaNeutralContract"
  /\ PartType["secIdList"] = "TagValue" /\ PartType["orderComboLegs"] = "OrderComboLeg"
  /\ PartType["summary"] = "Contract" /\ PartType["reqContract"] = "Contract"
  /\ PartType["contract"] = "Contract" /\ PartType["order"] = "Order"
  /\ \A p \in OrderLists \ {"orderComboLegs"} : PartType[p] = "TagValue"
BY DEF PartType, OrderLists, ++

(* What has no parts has as many fields read as are written.               *)
LEMMA LeafSchema ==
  ASSUME NEW t \in Leaves
  PROVE  Schema[t].values = {} /\ Schema[t].pointers = {} /\ Schema[t].writes = Schema[t].reads
BY DEF Leaves, Schema, Struct, ComboLegReads, DeltaNeutralContractReads, TagValueReads, OrderComboLegReads

(* Parts of a struct have parts without parts.                             *)
LEMMA InnerSchema ==
  ASSUME NEW t \in Inner
  PROVE  /\ Schema[t].values = {} /\ Schema[t].writes = Schema[t].reads
         /\ \A p \in Schema[t].pointers : PartType[p] \in Leaves
<1>1. Schema[t].values = {} /\ Schema[t].writes = Schema[t].reads
  BY DEF Inner, Schema, Struct, ContractReads, OrderReads, OrderWrites, FirstOrderReads, LastOrderReads, TagValueReads
<1>2. Schema["Contract"].pointers = {"comboLegs", "deltaNeutralContract"}
  BY DEF Schema, Struct
<1>3. Schema["Order"].pointers = OrderLists /\ Schema["TagValue"].pointers = {}
  BY DEF Schema, Struct
<1>4. QED
  BY <1>1, <1>2, <1>3, PartTypes DEF Inner, Leaves

(* The structs that are read again, and their parts.                       *)
LEMMA OuterSchema ==
  ASSUME NEW t \in Outer
  PROVE  /\ DOMAIN Schema[t].writes = DOMAIN Schema[t].reads
         /\ \A f \in DOMAIN Schema[t].writes :
              \/ Schema[t].writes[f] = Schema[t].reads[f]
              \/ Schema[t].writes[f] = "LONGLONG" /\ Schema[t].reads[f] = "INT"
         /\ \A p \in Schema[t].values \cup Schema[t].pointers : PartType[p] \in Inner
<1>1. CASE t = "RowHist"
  <2>1. Schema[t].writes = RowHistWrites /\ Schema[t].reads = RowHistReads
        /\ Schema[t].values = {} /\ Schema[t].pointers = {}
    BY <1>1 DEF Schema, Struct
  <2>2. RowHistWrites["volume"] = "LONGLONG"
    BY DEF RowHistWrites, Fields, ++
  <2>3. QED
    BY <2>1, <2>2 DEF RowHistReads
<1>2. CASE t # "RowHist"
  <2>1. Schema[t].writes = Schema[t].reads
    BY <1>2 DEF Outer, Schema, Struct, Query, ContractDetailsReads, HistRequestReads, PlaceOrderReads
  <2>2. Schema[t].values \cup Schema[t].pointers
          \subseteq {"summary", "secIdList", "reqContract", "contract", "order"}
    BY <1>2 DEF Outer, Schema, Struct, Query
  <2>3. QED
    BY <2>1, <2>2, PartTypes DEF Inner
<1>3. QED
  BY <1>1, <1>2
Known == Leaves \cup Inner \cup Outer

(* A field is read as what it was written, but for a LONGLONG.             *)
LEMMA KnownFields ==
  ASSUME NEW t \in Known
  PROVE  /\ FieldsOf(t) = DOMAIN Schema[t].writes /\ FieldsOf(t) = DOMAIN Schema[t].reads
         /\ \A f \in FieldsOf(t) :
              /\ KindOf(t, f) = Schema[t].writes[f]
              /\ \/ Schema[t].writes[f] = Schema[t].reads[f]
                 \/ Schema[t].writes[f] = "LONGLONG" /\ Schema[t].reads[f] = "INT"
BY LeafSchema, InnerSchema, OuterSchema DEF Known, FieldsOf, AllFields, KindOf, Kind

(* What wraps around is an int.                                            *)
LEMMA IntWraps ==
  ASSUME NEW x \in Int
  PROVE  /\ Wrapped(x) \in -IntLimit..(IntLimit - 1) /\ Wrapped(x) \in Int
         /\ x \in -IntLimit..(IntLimit - 1) => Wrapped(x) = x
BY IntLimitAssumption DEF Wrapped

(* What "%.10g" makes of a number, printed again, is the same.             *)
LEMMA DoublePrints ==
  ASSUME NEW x \in Int
  PROVE  /\ Printed(x) \in Int /\ Printed(Printed(x)) = Printed(x)
         /\ Printed(x) - x \in -5..5 /\ (x > -100 /\ x < 100 => Printed(x) = x)
BY DEF Printed, Rounded

(* A field read again is what it was, but for the width of an int and the  *)
(* digits of a double; and then it stays what it is.                       *)
LEMMA AgainAgain ==
  ASSUME NEW t \in Known, NEW f \in FieldsOf(t), NEW x,
         KindOf(t, f) \in Numbers => x \in Int
  PROVE  /\ KindOf(t, f) \in Numbers => Again(t, f, x) \in Int
         /\ Again(t, f, Again(t, f, x)) = Again(t, f, x)
         /\ KindOf(t, f) \notin Numbers => Again(t, f, x) = x
<1> DEFINE w == Schema[t].writes[f]
           r == Schema[t].reads[f]
<1>1. KindOf(t, f) = w /\ (w = r \/ (w = "LONGLONG" /\ r = "INT"))
  BY KnownFields
<1>2. \A y : Again(t, f, y) = Parse(r, Text(w, y))
  BY DEF Again
<1> HIDE DEF w, r
<1>3. CASE w = "DOUBLE"
  <2>1. \A y : Again(t, f, y) = Printed(y)
    BY <1>1, <1>2, <1>3 DEF Parse, Text
  <2>2. x \in Int /\ w \in Numbers
    BY <1>1, <1>3 DEF Numbers
  <2>3. QED
    BY <1>1, <2>1, <2>2, DoublePrints
<1>4. CASE r = "INT"
  <2>1. \A y : Again(t, f, y) = Wrapped(y)
    BY <1>1, <1>2, <1>4 DEF Parse, Text
  <2>2. x \in Int /\ w \in Numbers
    BY <1>1, <1>4 DEF Numbers
  <2>3. Wrapped(x) \in Int /\ Wrapped(Wrapped(x)) = Wrapped(x)
    BY <2>2, IntWraps
  <2>4. QED
    BY <1>1, <2>1, <2>2, <2>3
<1>5. CASE w # "DOUBLE" /\ r # "INT"
  BY <1>1, <1>2, <1>5 DEF Parse, Text
<1>6. QED
  BY <1>3, <1>4, <1>5

(* A new struct has numbers where numbers are to be.                       *)
LEMMA NewNumbers ==
  ASSUME NEW t \in DOMAIN Schema
  PROVE  /\ DOMAIN NewFields(t) = FieldsOf(t)
         /\ \A f \in FieldsOf(t) : KindOf(t, f) \in Numbers => NewFields(t)[f] \in Int
<1>1. ASSUME NEW f \in FieldsOf(t), KindOf(t, f) \in Numbers PROVE Default(t, f) \in Int
  <2>1. KindOf("Order", "transmit") = "BOOL"
    <3>1. "transmit" \in DOMAIN FirstOrderWrites /\ FirstOrderWrites["transmit"] = "BOOL"
      BY DEF FirstOrderWrites, Fields, ++
    <3>2. "transmit" \in DOMAIN OrderWrites /\ OrderWrites["transmit"] = "BOOL"
      BY <3>1 DEF OrderWrites, ++
    <3>3. Schema["Order"].writes = OrderWrites
      BY DEF Schema, Struct
    <3>4. QED
      BY <3>2, <3>3 DEF KindOf, Kind
  <2>2. KindOf("AccStatusRequest", "subscribe") = "BOOL"
    <3>1. Schema["AccStatusRequest"].writes = AccStatusRequestWrites
      BY DEF Schema, Struct
    <3>2. QED
      BY <3>1 DEF KindOf, Kind, AccStatusRequestWrites, Fields, ++
  <2>3. KindOf(t, f) # "STRING" /\ KindOf(t, f) # "BOOL"
    BY <1>1 DEF Numbers
  <2>4. Zero(KindOf(t, f)) = 0
    BY <2>3, Zenon DEF Zero
  <2>5. Default(t, f) \in {-1, MaxDouble, 0}
    BY <2>1, <2>2, <2>3, <2>4 DEF Default, DefaultOf
  <2>6. QED
    BY <2>5 DEF MaxDouble
<1>2. QED
  BY <1>1 DEF NewFields

(* The fields that are read of what was written are those that were        *)
(* written, as one more text makes of them.                                *)
LEMMA FieldsComeBack ==
  ASSUME NEW t \in Known, NEW v, HasFields(t, v), NEW verbose \in BOOLEAN,
         NEW w, w.fields = ReadFields(t, Attrs(t, v, verbose))
  PROVE  /\ DOMAIN w.fields = FieldsOf(t) /\ FieldsCopied(t, v, w)
         /\ \A f \in FieldsOf(t) : KindOf(t, f) \in Numbers => w.fields[f] \in Int
<1> DEFINE attrs == Attrs(t, v, verbose)
<1>1. DOMAIN w.fields = FieldsOf(t)
  BY DEF ReadFields
<1>2. ASSUME NEW f \in FieldsOf(t)
      PROVE  w.fields[f] \in {v.fields[f], Again(t, f, v.fields[f])}
  <2>1. f \in DOMAIN Schema[t].writes /\ f \in DOMAIN Schema[t].reads
    BY KnownFields
  <2>2. w.fields[f] = ReadField(t, f, attrs)
    BY DEF ReadFields
  <2>3. CASE f \in DOMAIN attrs
    BY <2>1, <2>2, <2>3 DEF ReadField, Attrs, Again
  <2>4. CASE f \notin DOMAIN attrs
    BY <2>1, <2>2, <2>4 DEF ReadField, Attrs, Written
  <2>5. QED
    BY <2>3, <2>4
<1>3. ASSUME NEW f \in FieldsOf(t), KindOf(t, f) \in Numbers
      PROVE  w.fields[f] \in Int
  <2>1. v.fields[f] \in Int
    BY <1>3 DEF HasFields
  <2>2. QED
    BY <1>2, <1>3, <2>1, AgainAgain
<1>4. QED
  BY <1>1, <1>2, <1>3 DEF FieldsCopied

(* A function on 1..n is a sequence of length n.                           *)
LEMMA SeqOfLength ==
  ASSUME NEW n \in Nat, NEW s, s = [i \in 1..n |-> s[i]]
  PROVE  IsSeq(s) /\ Len(s) = n /\ DOMAIN s = 1..n /\ s \in Seq({s[i] : i \in 1..n})
<1> DEFINE S == {s[i] : i \in 1..n}
<1>1. s \in [1..n -> S]
  OBVIOUS
<1>2. s \in Seq(S)
  BY <1>1, SeqDef
<1>3. Len(s) \in Nat /\ DOMAIN s = 1..Len(s) /\ DOMAIN s = 1..n
  BY <1>1, <1>2, LenProperties
<1>4. Len(s) = n
  BY <1>3
<1>5. QED
  BY <1>2, <1>3, <1>4 DEF IsSeq

(* Indices and elements of a sequence.                                     *)
LEMMA SeqDomain ==
  ASSUME NEW s, IsSeq(s)
  PROVE  Len(s) \in Nat /\ DOMAIN s = 1..Len(s) /\ s \in Seq({s[i] : i \in DOMAIN s})
BY SeqOfLength DEF IsSeq

(* All of these are in the schema.                                         *)
LEMMA KnownTypes == Known \subseteq DOMAIN Schema
BY DEF Known, Leaves, Inner, Outer, Schema

(* What has no parts comes back.                                           *)
LEMMA LeafComesBack ==
  ASSUME NEW t \in Leaves, NEW v, IsLeaf(t, v), NEW verbose \in BOOLEAN
  PROVE  LET w == LeafFromXml(t, LeafToXml(t, v, verbose))
         IN  IsLeaf(t, w) /\ FieldsCopied(t, v, w)
<1> DEFINE w == LeafFromXml(t, LeafToXml(t, v, verbose))
<1>1. /\ w.fields = ReadFields(t, Attrs(t, v, verbose)) /\ w.parts = << >>
      /\ DOMAIN w = {"fields", "parts"}
  BY DEF LeafFromXml, LeafToXml
<1>2. t \in Known /\ HasFields(t, v)
  BY DEF Known, IsLeaf
<1> HIDE DEF w
<1>3. HasFields(t, w) /\ FieldsCopied(t, v, w)
  BY <1>1, <1>2, FieldsComeBack DEF HasFields
<1>4. HasParts(t, w)
  <2>1. DOMAIN w.parts = {}
    BY <1>1
  <2>2. QED
    BY <2>1, LeafSchema DEF HasParts
<1>5. QED
  BY <1>3, <1>4 DEF IsLeaf, w

(* The attributes of earlier versions are not written any more.            *)
LEMMA NoOldAttributes ==
  ASSUME NEW t \in Inner \cup Outer, NEW v, NEW verbose \in BOOLEAN, NEW node,
         node.attrs = Attrs(t, v, verbose), NEW w
  PROVE  OldAttributes(t, w, node) = w
<1>1. "lastTradeDateOrContractMonth" \notin DOMAIN ContractWrites
  BY DEF ContractWrites, Fields, ++
<1>2. "tradingClass" \notin DOMAIN ContractDetailsWrites
  BY DEF ContractDetailsWrites, Fields, ++
<1>3. /\ Schema["Contract"].writes = ContractWrites
      /\ Schema["ContractDetails"].writes = ContractDetailsWrites
  BY DEF Schema, Struct
<1>4. DOMAIN node.attrs \subseteq DOMAIN Schema[t].writes
  BY DEF Attrs
<1>5. /\ ~(t = "Contract" /\ "lastTradeDateOrContractMonth" \in DOMAIN node.attrs)
      /\ ~(t = "ContractDetails" /\ "tradingClass" \in DOMAIN node.attrs)
  BY <1>1, <1>2, <1>3, <1>4
<1>6. QED
  BY <1>5, Zenon DEF OldAttributes

(* The parts of a struct that is read: those of the node, and what is held *)
(* by value.                                                               *)
LEMMA AllParts ==
  ASSUME NEW t \in DOMAIN Schema, NEW v, HasParts(t, v), NEW g, DOMAIN g = DOMAIN v.parts
  PROVE  LET h == g ++ New(t).parts
         IN  DOMAIN h = DOMAIN v.parts /\ \A p \in DOMAIN v.parts : h[p] = g[p]
<1>1. DOMAIN New(t).parts = Schema[t].values
  BY DEF New
<1>2. Schema[t].values \subseteq DOMAIN v.parts
  BY DEF HasParts
<1>3. QED
  BY <1>1, <1>2 DEF ++

(* A part comes back with its parts.                                       *)
LEMMA PartComesBack ==
  ASSUME NEW t \in Inner, NEW v, IsPart(t, v), NEW verbose \in BOOLEAN
  PROVE  LET w == PartFromXml(t, PartToXml(t, v, verbose))
         IN  IsPart(t, w) /\ PartCopied(t, v, w)
<1> DEFINE node == PartToXml(t, v, verbose)
           w    == PartFromXml(t, node)
           g    == [p \in PartsIn(t, node) |->
                      [i \in DOMAIN node.children[p] |->
                         LeafFromXml(PartType[p], node.children[p][i])]]
<1>1. HasFields(t, v) /\ HasParts(t, v) /\ t \in Known /\ t \in DOMAIN Schema
  BY KnownTypes DEF IsPart, Known
<1>2. /\ node.attrs = Attrs(t, v, verbose) /\ DOMAIN node.children = DOMAIN v.parts
      /\ \A p \in DOMAIN v.parts :
           node.children[p] = [i \in DOMAIN v.parts[p] |->
                                 LeafToXml(PartType[p], v.parts[p][i], verbose)]
  BY DEF PartToXml
<1>3. w = [fields |-> ReadFields(t, node.attrs), parts |-> g ++ New(t).parts]
  <2>1. w = OldAttributes(t, [fields |-> ReadFields(t, node.attrs),
                              parts  |-> g ++ New(t).parts], node)
    BY DEF PartFromXml
  <2> HIDE DEF w, g, node
  <2>2. QED
    BY <1>2, <2>1, NoOldAttributes
<1>4. PartsIn(t, node) = DOMAIN v.parts
  BY <1>1, <1>2 DEF PartsIn, HasParts
<1> HIDE DEF node
<1>5. /\ DOMAIN w = {"fields", "parts"} /\ w.fields = ReadFields(t, Attrs(t, v, verbose))
      /\ DOMAIN w.parts = DOMAIN v.parts
      /\ \A p \in DOMAIN v.parts : w.parts[p] = g[p]
  <2>1. DOMAIN g = DOMAIN v.parts
    BY <1>4
  <2> HIDE DEF g, w
  <2>2. QED
    BY <1>1, <1>2, <1>3, <2>1, AllParts
<1> HIDE DEF w
<1>6. ASSUME NEW p \in DOMAIN v.parts
      PROVE  /\ w.parts[p] = [i \in DOMAIN v.parts[p] |-> w.parts[p][i]]
             /\ \A i \in DOMAIN v.parts[p] :
                  w.parts[p][i] =
                    LeafFromXml(PartType[p], LeafToXml(PartType[p], v.parts[p][i], verbose))
  <2>1. w.parts[p] = g[p] /\ p \in PartsIn(t, node)
    BY <1>4, <1>5
  <2>2. g[p] = [i \in DOMAIN node.children[p] |->
                  LeafFromXml(PartType[p], node.children[p][i])]
    BY <2>1
  <2>3. /\ DOMAIN node.children[p] = DOMAIN v.parts[p]
        /\ \A i \in DOMAIN v.parts[p] :
             node.children[p][i] = LeafToXml(PartType[p], v.parts[p][i], verbose)
    BY <1>2
  <2> HIDE DEF g
  <2>4. QED
    BY <2>1, <2>2, <2>3
<1> HIDE DEF g
<1>7. HasFields(t, w) /\ FieldsCopied(t, v, w)
  BY <1>1, <1>5, FieldsComeBack DEF HasFields
<1>8. ASSUME NEW p \in DOMAIN v.parts
      PROVE  IsSeq(w.parts[p]) /\ DOMAIN w.parts[p] = DOMAIN v.parts[p]
             /\ Len(w.parts[p]) = Len(v.parts[p])
  <2>1. IsSeq(v.parts[p])
    BY <1>1 DEF HasParts
  <2>2. DOMAIN v.parts[p] = 1..Len(v.parts[p]) /\ Len(v.parts[p]) \in Nat
    BY <2>1, SeqDomain
  <2>3. w.parts[p] = [i \in 1..Len(v.parts[p]) |-> w.parts[p][i]]
    BY <1>6, <2>2
  <2>4. QED
    BY <2>2, <2>3, SeqOfLength
<1>9. HasParts(t, w) /\ Shape(v, w)
  BY <1>1, <1>5, <1>8 DEF HasParts, Shape
<1>10. ASSUME NEW p \in DOMAIN v.parts, NEW i \in DOMAIN v.parts[p]
       PROVE  /\ IsLeaf(PartType[p], w.parts[p][i])
              /\ FieldsCopied(PartType[p], v.parts[p][i], w.parts[p][i])
  <2>1. PartType[p] \in Leaves
    BY <1>1, InnerSchema DEF HasParts
  <2>2. IsLeaf(PartType[p], v.parts[p][i])
    BY DEF IsPart
  <2>3. w.parts[p][i] = LeafFromXml(PartType[p], LeafToXml(PartType[p], v.parts[p][i], verbose))
    BY <1>6
  <2>4. QED
    BY <2>1, <2>2, <2>3, LeafComesBack
<1>11. IsPart(t, w)
  BY <1>5, <1>7, <1>8, <1>9, <1>10 DEF IsPart
<1>12. QED
  BY <1>7, <1>9, <1>10, <1>11 DEF PartCopied, w, node

(* A new part has the shape of its type.                                   *)
LEMMA NewPart ==
  ASSUME NEW t \in Inner
  PROVE  IsPart(t, [fields |-> NewFields(t), parts |-> << >>])
<1> DEFINE w == [fields |-> NewFields(t), parts |-> << >>]
<1>1. t \in DOMAIN Schema /\ Schema[t].values = {}
  BY InnerSchema, KnownTypes DEF Known
<1>2. HasFields(t, w)
  BY <1>1, NewNumbers DEF HasFields
<1>3. DOMAIN w.parts = {}
  OBVIOUS
<1> HIDE DEF w
<1>4. HasParts(t, w)
  BY <1>1, <1>3 DEF HasParts
<1>5. IsPart(t, w)
  BY <1>2, <1>3, <1>4 DEF IsPart
<1>6. QED
  BY <1>5 DEF w

(* What from_xml() makes of a node is a struct, if it makes structs of its *)
(* children.                                                               *)
LEMMA StructRead ==
  ASSUME NEW t \in Outer, NEW node, \A w0 : OldAttributes(t, w0, node) = w0,
         \A f \in FieldsOf(t) :
           KindOf(t, f) \in Numbers => ReadFields(t, node.attrs)[f] \in Int,
         \A p \in PartsIn(t, node) :
           /\ IsSeq(node.children[p])
           /\ p \in Schema[t].values => Len(node.children[p]) = 1
           /\ \A i \in DOMAIN node.children[p] :
                IsPart(PartType[p], PartFromXml(PartType[p], node.children[p][i]))
  PROVE  LET w == FromXml(t, node)
         IN  /\ IsStruct(t, w) /\ w.fields = ReadFields(t, node.attrs)
             /\ DOMAIN w.parts = PartsIn(t, node) \cup Schema[t].values
             /\ \A p \in PartsIn(t, node) :
                  /\ DOMAIN w.parts[p] = DOMAIN node.children[p]
                  /\ Len(w.parts[p]) = Len(node.children[p])
                  /\ \A i \in DOMAIN node.children[p] :
                       w.parts[p][i] = PartFromXml(PartType[p], node.children[p][i])
<1> DEFINE w == FromXml(t, node)
           g == [p \in PartsIn(t, node) |->
                   [i \in DOMAIN node.children[p] |->
                      PartFromXml(PartType[p], node.children[p][i])]]
           h == New(t).parts
<1>1. t \in DOMAIN Schema /\ t \in Known
  BY KnownTypes DEF Known
<1>2. w = [fields |-> ReadFields(t, node.attrs), parts |-> g ++ h]
  BY DEF FromXml
<1>3. /\ DOMAIN h = Schema[t].values
      /\ \A p \in Schema[t].values :
           h[p] = <<[fields |-> NewFields(PartType[p]), parts |-> << >>]>>
  BY DEF New
<1>4. DOMAIN w = {"fields", "parts"} /\ w.fields = ReadFields(t, node.attrs)
  BY <1>2
<1>5. /\ DOMAIN w.parts = PartsIn(t, node) \cup Schema[t].values
      /\ \A p \in PartsIn(t, node) : w.parts[p] = g[p]
      /\ \A p \in Schema[t].values \ PartsIn(t, node) : w.parts[p] = h[p]
  <2>1. DOMAIN g = PartsIn(t, node) /\ w.parts = g ++ h
    BY <1>2
  <2> HIDE DEF w, g, h
  <2>2. QED
    BY <1>3, <2>1 DEF ++
<1> HIDE DEF w, h
<1>6. ASSUME NEW p \in PartsIn(t, node)
      PROVE  /\ IsSeq(w.parts[p]) /\ DOMAIN w.parts[p] = DOMAIN node.children[p]
             /\ Len(w.parts[p]) = Len(node.children[p])
             /\ \A i \in DOMAIN node.children[p] :
                  w.parts[p][i] = PartFromXml(PartType[p], node.children[p][i])
  <2>1. w.parts[p] = g[p]
    BY <1>5
  <2>2. g[p] = [i \in DOMAIN node.children[p] |->
                  PartFromXml(PartType[p], node.children[p][i])]
    OBVIOUS
  <2>3. /\ DOMAIN node.children[p] = 1..Len(node.children[p])
        /\ Len(node.children[p]) \in Nat
    BY SeqDomain
  <2> HIDE DEF g
  <2>4. w.parts[p] = [i \in 1..Len(node.children[p]) |-> w.parts[p][i]]
    BY <2>1, <2>2, <2>3
  <2>5. QED
    BY <2>1, <2>2, <2>3, <2>4, SeqOfLength
<1> HIDE DEF g
<1>7. ASSUME NEW p \in Schema[t].values \ PartsIn(t, node)
      PROVE  IsSeq(w.parts[p]) /\ Len(w.parts[p]) = 1
             /\ \A i \in DOMAIN w.parts[p] : IsPart(PartType[p], w.parts[p][i])
  <2>1. PartType[p] \in Inner
    BY OuterSchema
  <2>2. w.parts[p] = <<[fields |-> NewFields(PartType[p]), parts |-> << >>]>>
    BY <1>3, <1>5
  <2>3. w.parts[p] = [i \in 1..1 |-> w.parts[p][i]]
    BY <2>2
  <2>4. IsSeq(w.parts[p]) /\ Len(w.parts[p]) = 1 /\ DOMAIN w.parts[p] = 1..1
    BY <2>3, SeqOfLength
  <2>5. w.parts[p][1] = [fields |-> NewFields(PartType[p]), parts |-> << >>]
    BY <2>2
  <2>6. IsPart(PartType[p], w.parts[p][1])
    BY <2>1, <2>5, NewPart
  <2>7. QED
    BY <2>4, <2>6
<1>8. PartsIn(t, node) \subseteq Schema[t].values \cup Schema[t].pointers
  BY DEF PartsIn
<1>9. HasFields(t, w)
  BY <1>4 DEF HasFields, ReadFields
<1>10. HasParts(t, w)
  BY <1>5, <1>6, <1>7, <1>8 DEF HasParts
<1>11. ASSUME NEW p \in DOMAIN w.parts, NEW i \in DOMAIN w.parts[p]
       PROVE  IsPart(PartType[p], w.parts[p][i])
  BY <1>5, <1>6, <1>7
<1>12. IsStruct(t, w)
  BY <1>9, <1>10, <1>11 DEF IsStruct
<1>13. QED
  BY <1>4, <1>5, <1>6, <1>12 DEF w

(* A struct comes back with its parts and the parts of these.              *)
LEMMA StructComesBack ==
  ASSUME NEW t \in Outer, NEW v, IsStruct(t, v), NEW verbose \in BOOLEAN
  PROVE  LET w == FromXml(t, ToXml(t, v, verbose))
         IN  IsStruct(t, w) /\ StructCopied(t, v, w)
<1> DEFINE node == ToXml(t, v, verbose)
           w    == FromXml(t, node)
<1>1. HasFields(t, v) /\ HasParts(t, v) /\ t \in Known /\ t \in DOMAIN Schema
  BY KnownTypes DEF IsStruct, Known
<1>2. /\ node.attrs = Attrs(t, v, verbose) /\ DOMAIN node.children = DOMAIN v.parts
      /\ \A p \in DOMAIN v.parts :
           /\ node.children[p] = [i \in DOMAIN v.parts[p] |-> node.children[p][i]]
           /\ \A i \in DOMAIN v.parts[p] :
                node.children[p][i] = PartToXml(PartType[p], v.parts[p][i], verbose)
  BY DEF ToXml
<1>3. \A w0 : OldAttributes(t, w0, node) = w0
  BY <1>2, NoOldAttributes
<1>4. PartsIn(t, node) = DOMAIN v.parts
  BY <1>1, <1>2 DEF PartsIn, HasParts
<1> HIDE DEF node
<1>5. ASSUME NEW f \in FieldsOf(t), KindOf(t, f) \in Numbers
      PROVE  ReadFields(t, node.attrs)[f] \in Int
  <2> DEFINE w0 == [fields |-> ReadFields(t, node.attrs), parts |-> << >>]
  <2>1. w0.fields = ReadFields(t, node.attrs)
    OBVIOUS
  <2> HIDE DEF w0
  <2>2. QED
    BY <1>1, <1>2, <1>5, <2>1, FieldsComeBack
<1>6. ASSUME NEW p \in DOMAIN v.parts
      PROVE  /\ IsSeq(node.children[p]) /\ DOMAIN node.children[p] = DOMAIN v.parts[p]
             /\ Len(node.children[p]) = Len(v.parts[p])
  <2>1. IsSeq(v.parts[p])
    BY <1>1 DEF HasParts
  <2>2. DOMAIN v.parts[p] = 1..Len(v.parts[p]) /\ Len(v.parts[p]) \in Nat
    BY <2>1, SeqDomain
  <2>3. node.children[p] = [i \in 1..Len(v.parts[p]) |-> node.children[p][i]]
    BY <1>2, <2>2
  <2>4. QED
    BY <2>2, <2>3, SeqOfLength
<1>7. ASSUME NEW p \in DOMAIN v.parts, NEW i \in DOMAIN v.parts[p]
      PROVE  LET u == PartFromXml(PartType[p], node.children[p][i])
             IN  IsPart(PartType[p], u) /\ PartCopied(PartType[p], v.parts[p][i], u)
  <2>1. PartType[p] \in Inner
    BY <1>1, OuterSchema DEF HasParts
  <2>2. IsPart(PartType[p], v.parts[p][i])
    BY DEF IsStruct
  <2>3. node.children[p][i] = PartToXml(PartType[p], v.parts[p][i], verbose)
    BY <1>2
  <2>4. QED
    BY <2>1, <2>2, <2>3, PartComesBack
<1>8. \A p \in Schema[t].values : p \in DOMAIN v.parts /\ Len(v.parts[p]) = 1
  BY <1>1 DEF HasParts
<1>9. /\ IsStruct(t, w) /\ w.fields = ReadFields(t, node.attrs)
      /\ DOMAIN w.parts = DOMAIN v.parts
      /\ \A p \in DOMAIN v.parts :
           /\ DOMAIN w.parts[p] = DOMAIN v.parts[p] /\ Len(w.parts[p]) = Len(v.parts[p])
           /\ \A i \in DOMAIN v.parts[p] :
                w.parts[p][i] = PartFromXml(PartType[p], node.children[p][i])
  <2>1. /\ IsStruct(t, w) /\ w.fields = ReadFields(t, node.attrs)
        /\ DOMAIN w.parts = PartsIn(t, node) \cup Schema[t].values
        /\ \A p \in PartsIn(t, node) :
             /\ DOMAIN w.parts[p] = DOMAIN node.children[p]
             /\ Len(w.parts[p]) = Len(node.children[p])
             /\ \A i \in DOMAIN node.children[p] :
                  w.parts[p][i] = PartFromXml(PartType[p], node.children[p][i])
    BY <1>3, <1>4, <1>5, <1>6, <1>7, <1>8, StructRead
  <2> HIDE DEF w
  <2>2. QED
    BY <1>4, <1>6, <1>8, <2>1
<1> HIDE DEF w
<1>10. FieldsCopied(t, v, w)
  BY <1>1, <1>2, <1>9, FieldsComeBack
<1>11. StructCopied(t, v, w)
  BY <1>7, <1>9, <1>10 DEF StructCopied, Shape
<1>12. QED
  BY <1>9, <1>11 DEF w, node

(***************************************************************************)
(* A copy of a copy is a copy.                                             *)
(***************************************************************************)

(* Fields that were copied twice are copied.                               *)
LEMMA FieldsCopiedTwice ==
  ASSUME NEW t \in Known, NEW u, NEW v, NEW w, HasFields(t, u),
         FieldsCopied(t, u, v), FieldsCopied(t, v, w)
  PROVE  FieldsCopied(t, u, w)
<1> SUFFICES ASSUME NEW f \in FieldsOf(t)
             PROVE  w.fields[f] \in {u.fields[f], Again(t, f, u.fields[f])}
  BY DEF FieldsCopied
<1> DEFINE x == u.fields[f]
<1>1. v.fields[f] \in {x, Again(t, f, x)}
      /\ w.fields[f] \in {v.fields[f], Again(t, f, v.fields[f])}
  BY DEF FieldsCopied
<1>2. Again(t, f, Again(t, f, x)) = Again(t, f, x)
  BY AgainAgain DEF HasFields
<1> HIDE DEF x
<1>3. w.fields[f] \in {x, Again(t, f, x)}
  BY <1>1, <1>2
<1>4. QED
  BY <1>3 DEF x

(* A part that was copied twice is copied.                                 *)
LEMMA PartCopiedTwice ==
  ASSUME NEW t \in Inner, NEW u, NEW v, NEW w, IsPart(t, u),
         PartCopied(t, u, v), PartCopied(t, v, w)
  PROVE  PartCopied(t, u, w)
<1>1. HasFields(t, u) /\ HasParts(t, u) /\ t \in Known
  BY DEF IsPart, Known
<1>2. FieldsCopied(t, u, w)
  BY <1>1, FieldsCopiedTwice DEF PartCopied
<1>3. Shape(u, w)
  BY DEF PartCopied, Shape
<1>4. ASSUME NEW p \in DOMAIN u.parts, NEW i \in DOMAIN u.parts[p]
      PROVE  FieldsCopied(PartType[p], u.parts[p][i], w.parts[p][i])
  <2>1. PartType[p] \in Known
    BY <1>1, InnerSchema DEF HasParts, Known
  <2>2. HasFields(PartType[p], u.parts[p][i])
    BY DEF IsPart, IsLeaf
  <2>3. /\ FieldsCopied(PartType[p], u.parts[p][i], v.parts[p][i])
        /\ FieldsCopied(PartType[p], v.parts[p][i], w.parts[p][i])
    BY DEF PartCopied, Shape
  <2>4. QED
    BY <2>1, <2>2, <2>3, FieldsCopiedTwice
<1>5. QED
  BY <1>2, <1>3, <1>4 DEF PartCopied

(* A struct that was copied twice is copied.                               *)
LEMMA CopiedTwice ==
  ASSUME NEW t \in Outer, NEW u, NEW v, NEW w, IsStruct(t, u),
         StructCopied(t, u, v), StructCopied(t, v, w)
  PROVE  StructCopied(t, u, w)
<1>1. HasFields(t, u) /\ HasParts(t, u) /\ t \in Known
  BY DEF IsStruct, Known
<1>2. FieldsCopied(t, u, w)
  BY <1>1, FieldsCopiedTwice DEF StructCopied
<1>3. Shape(u, w)
  BY DEF StructCopied, Shape
<1>4. ASSUME NEW p \in DOMAIN u.parts, NEW i \in DOMAIN u.parts[p]
      PROVE  PartCopied(PartType[p], u.parts[p][i], w.parts[p][i])
  <2>1. PartType[p] \in Inner
    BY <1>1, OuterSchema DEF HasParts
  <2>2. IsPart(PartType[p], u.parts[p][i])
    BY DEF IsStruct
  <2>3. /\ PartCopied(PartType[p], u.parts[p][i], v.parts[p][i])
        /\ PartCopied(PartType[p], v.parts[p][i], w.parts[p][i])
    BY DEF StructCopied, Shape
  <2>4. QED
    BY <2>1, <2>2, <2>3, PartCopiedTwice
<1>5. QED
  BY <1>2, <1>3, <1>4 DEF StructCopied

(* What is a struct is a copy of itself.                                   *)
LEMMA CopyOfItself ==
  ASSUME NEW t, NEW v
  PROVE  StructCopied(t, v, v)
BY DEF StructCopied, PartCopied, FieldsCopied, Shape
(***************************************************************************)
(* twsgen reads any request as one of its own.                             *)
(***************************************************************************)

Requests == {"ContractDetailsRequest", "HistRequest", "PlaceOrder", "AccStatusRequest",
             "ExecutionsRequest", "OrdersRequest"}

(* The structs of the requests.                                            *)
LEMMA RequestSchema ==
  /\ \A s \in Requests : Schema[s].pointers = {}
  /\ \A t \in {"ContractDetailsRequest", "HistRequest"} :
       /\ Schema[t].values = {"reqContract"}
       /\ \A s \in Requests \ {t} : FieldsOf(t) \cap DOMAIN Schema[s].writes = {}
<1>1. \A s \in Requests : Schema[s].pointers = {}
  BY DEF Requests, Schema, Struct, Query
<1>2. \A t \in {"ContractDetailsRequest", "HistRequest"} : Schema[t].values = {"reqContract"}
  BY DEF Schema, Struct, Query
<1>3. /\ DOMAIN Schema["ContractDetailsRequest"].writes = {}
      /\ DOMAIN Schema["ContractDetailsRequest"].reads = {}
  BY DEF Schema, Struct, Query, NoFields
<1>4. /\ Schema["HistRequest"].writes = HistRequestWrites
      /\ Schema["HistRequest"].reads = HistRequestWrites
  BY DEF Schema, Struct, HistRequestReads
<1>5. DOMAIN HistRequestWrites = {"useRTH", "formatDate", "endDateTime", "durationStr",
                                  "barSizeSetting", "whatToShow"}
  BY DEF HistRequestWrites, Fields, ++
<1>6. \A s \in Requests \ {"HistRequest"} :
        DOMAIN Schema[s].writes \subseteq {"orderId", "time_sent", "subscribe", "acctCode"}
  <2>1. DOMAIN PlaceOrderWrites = {"orderId", "time_sent"}
    BY DEF PlaceOrderWrites, Fields, ++
  <2>2. DOMAIN AccStatusRequestWrites = {"subscribe", "acctCode"}
    BY DEF AccStatusRequestWrites, Fields, ++
  <2>3. Schema["PlaceOrder"].writes = PlaceOrderWrites
        /\ Schema["AccStatusRequest"].writes = AccStatusRequestWrites
        /\ DOMAIN Schema["ExecutionsRequest"].writes = {}
        /\ DOMAIN Schema["OrdersRequest"].writes = {}
    BY DEF Schema, Struct, Query, NoFields
  <2>4. QED
    BY <1>3, <2>1, <2>2, <2>3 DEF Requests
<1>7. FieldsOf("ContractDetailsRequest") = {} /\ FieldsOf("HistRequest") = DOMAIN HistRequestWrites
  BY <1>3, <1>4 DEF FieldsOf, AllFields
<1>8. QED
  BY <1>1, <1>2, <1>5, <1>6, <1>7

(* What is read of another request has the shape of its type.              *)
LEMMA OtherComesBack ==
  ASSUME NEW t \in {"ContractDetailsRequest", "HistRequest"}, NEW s \in Requests, s # t,
         NEW v, IsStruct(s, v), NEW verbose \in BOOLEAN
  PROVE  IsStruct(t, FromXml(t, ToXml(s, v, verbose)))
<1> DEFINE node == ToXml(s, v, verbose)
<1>1. t \in Outer /\ t \in DOMAIN Schema
  BY DEF Outer, Schema
<1>2. HasParts(s, v) /\ DOMAIN v.parts \subseteq Schema[s].values
  BY RequestSchema DEF IsStruct, HasParts
<1>3. /\ node.attrs = Attrs(s, v, verbose) /\ DOMAIN node.children = DOMAIN v.parts
      /\ \A p \in DOMAIN v.parts :
           /\ node.children[p] = [i \in DOMAIN v.parts[p] |-> node.children[p][i]]
           /\ \A i \in DOMAIN v.parts[p] :
                node.children[p][i] = PartToXml(PartType[p], v.parts[p][i], verbose)
  BY DEF ToXml
<1>4. \A w0 : OldAttributes(t, w0, node) = w0
  BY Zenon DEF OldAttributes
<1> HIDE DEF node
<1>5. DOMAIN node.attrs \subseteq DOMAIN Schema[s].writes
  BY <1>3 DEF Attrs
<1>6. ASSUME NEW f \in FieldsOf(t), KindOf(t, f) \in Numbers
      PROVE  ReadFields(t, node.attrs)[f] \in Int
  <2>1. f \notin DOMAIN node.attrs
    BY <1>5, RequestSchema
  <2>2. ReadFields(t, node.attrs)[f] = NewFields(t)[f]
    BY <2>1 DEF ReadFields, ReadField, NewFields
  <2>3. QED
    BY <1>1, <1>6, <2>2, NewNumbers
<1>7. ASSUME NEW p \in PartsIn(t, node)
      PROVE  /\ IsSeq(node.children[p]) /\ Len(node.children[p]) = 1
             /\ \A i \in DOMAIN node.children[p] :
                  IsPart(PartType[p], PartFromXml(PartType[p], node.children[p][i]))
  <2>1. p = "reqContract" /\ p \in DOMAIN v.parts /\ p \in Schema[s].values
    BY <1>2, <1>3, RequestSchema DEF PartsIn, Requests
  <2>2. PartType[p] = "Contract" /\ "Contract" \in Inner
    BY <2>1, PartTypes DEF Inner
  <2>3. IsSeq(v.parts[p]) /\ Len(v.parts[p]) = 1
    BY <1>2, <2>1 DEF HasParts
  <2>4. DOMAIN v.parts[p] = 1..1
    BY <2>3, SeqDomain
  <2>5. node.children[p] = [i \in 1..1 |-> node.children[p][i]]
    BY <1>3, <2>1, <2>4
  <2>6. IsSeq(node.children[p]) /\ Len(node.children[p]) = 1 /\ DOMAIN node.children[p] = 1..1
    BY <2>5, SeqOfLength
  <2>7. IsPart(PartType[p], v.parts[p][1])
    BY <2>1, <2>4 DEF IsStruct
  <2>8. node.children[p][1] = PartToXml(PartType[p], v.parts[p][1], verbose)
    <3>1. 1 \in DOMAIN v.parts[p]
      BY <2>4
    <3>2. QED
      BY <1>3, <2>1, <3>1
  <2>9. IsPart(PartType[p], PartFromXml(PartType[p], node.children[p][1]))
    BY <2>2, <2>7, <2>8, PartComesBack
  <2>10. QED
    BY <2>6, <2>9
<1>8. IsStruct(t, FromXml(t, node))
  BY <1>1, <1>4, <1>6, <1>7, StructRead
<1>9. QED
  BY <1>8 DEF node

(***************************************************************************)
(* Sequences of sequences, one behind the other.                           *)
(***************************************************************************)

(* g are the first m of ss, and fewer, flattened.                          *)
IsFlat(g, ss, m) == g = [i \in 1..m |-> IF i = 1 THEN ss[i] ELSE g[i - 1] \o ss[i]]

(* The first m can be flattened one after the other.                       *)
LEMMA FlatExists ==
  ASSUME NEW ss, NEW m \in Nat
  PROVE  \E g : IsFlat(g, ss, m)
<1> DEFINE Bad == {k \in Nat : ~\E g : IsFlat(g, ss, k)}
<1>1. SUFFICES ASSUME Bad # {} PROVE FALSE
  OBVIOUS
<1>2. PICK k \in Bad : \A j \in Bad : k <= j
  BY <1>1, LeastNumber
<1>3. k # 0
  <2> DEFINE e == [i \in 1..0 |-> ss[i]]
  <2>1. IsFlat(e, ss, 0)
    BY DEF IsFlat
  <2>2. QED
    BY <2>1
<1>4. k \in Nat /\ k - 1 \in Nat /\ k - 1 \notin Bad
  BY <1>2, <1>3
<1>5. PICK g : IsFlat(g, ss, k - 1)
  BY <1>4
<1> DEFINE h == [i \in 1..k |-> IF i < k THEN g[i]
                                ELSE IF k = 1 THEN ss[k] ELSE g[k - 1] \o ss[k]]
<1>6. ASSUME NEW i \in 1..k
      PROVE  h[i] = IF i = 1 THEN ss[i] ELSE h[i - 1] \o ss[i]
  <2>1. CASE i < k
    <3>1. h[i] = g[i] /\ (i # 1 => h[i - 1] = g[i - 1]) /\ i \in 1..(k - 1)
      BY <1>4, <2>1
    <3> HIDE DEF h
    <3>2. g[i] = IF i = 1 THEN ss[i] ELSE g[i - 1] \o ss[i]
      BY <1>5, <3>1 DEF IsFlat
    <3>3. QED
      BY <3>1, <3>2
  <2>2. CASE i = k
    <3>1. k # 1 => h[k - 1] = g[k - 1]
      BY <1>3, <1>4
    <3>2. h[k] = IF k = 1 THEN ss[k] ELSE g[k - 1] \o ss[k]
      BY <1>3, <1>4
    <3> HIDE DEF h
    <3>3. QED
      BY <2>2, <3>1, <3>2
  <2>3. QED
    BY <1>4, <2>1, <2>2
<1>7. h = [i \in 1..k |-> h[i]]
  OBVIOUS
<1> HIDE DEF h
<1>8. IsFlat(h, ss, k)
  BY <1>6, <1>7 DEF IsFlat
<1>9. QED
  BY <1>2, <1>8

(* FlattenSeq() is the last of these steps.                                *)
LEMMA Flattened ==
  ASSUME NEW ss, Len(ss) \in Nat, Len(ss) # 0
  PROVE  \E g : IsFlat(g, ss, Len(ss)) /\ FlattenSeq(ss) = g[Len(ss)]
<1> DEFINE f == CHOOSE f : f = [i \in 1..Len(ss) |-> IF i = 1 THEN ss[i] ELSE f[i - 1] \o ss[i]]
<1>1. FlattenSeq(ss) = f[Len(ss)]
  BY Zenon DEF FlattenSeq
<1>2. \E g : g = [i \in 1..Len(ss) |-> IF i = 1 THEN ss[i] ELSE g[i - 1] \o ss[i]]
  BY FlatExists DEF IsFlat
<1>3. f = [i \in 1..Len(ss) |-> IF i = 1 THEN ss[i] ELSE f[i - 1] \o ss[i]]
  BY <1>2, Zenon
<1> HIDE DEF f
<1>4. QED
  BY <1>1, <1>3 DEF IsFlat

(* What two of them have in common is flattened to the same.               *)
LEMMA FlatUnique ==
  ASSUME NEW ss, NEW tt, NEW m \in Nat, NEW n \in Nat, NEW g, NEW h,
         IsFlat(g, ss, m), IsFlat(h, tt, n), m <= n, \A i \in 1..m : ss[i] = tt[i]
  PROVE  \A i \in 1..m : g[i] = h[i]
<1> DEFINE Bad == {i \in 1..m : g[i] # h[i]}
<1>1. SUFFICES ASSUME Bad # {} PROVE FALSE
  OBVIOUS
<1>2. Bad \in SUBSET Nat
  OBVIOUS
<1>3. PICK k \in Bad : \A j \in Bad : k <= j
  BY <1>1, <1>2, LeastNumber
<1>4. k \in 1..m /\ k \in 1..n /\ g[k] # h[k]
  BY <1>3
<1>5. /\ g[k] = IF k = 1 THEN ss[k] ELSE g[k - 1] \o ss[k]
      /\ h[k] = IF k = 1 THEN tt[k] ELSE h[k - 1] \o tt[k]
  BY <1>4 DEF IsFlat
<1>6. k # 1 => k - 1 \in 1..m /\ k - 1 \notin Bad
  BY <1>3, <1>4
<1>7. k # 1 => g[k - 1] = h[k - 1]
  BY <1>6
<1>8. QED
  BY <1>4, <1>5, <1>7

(* What is behind does not matter to what is before.                       *)
LEMMA FlatFront ==
  ASSUME NEW n \in Nat, n # 0, NEW ss, NEW tt, NEW g, NEW h,
         IsFlat(g, ss, n), IsFlat(h, tt, n + 1), \A i \in 1..n : ss[i] = tt[i]
  PROVE  g[n] = h[n]
<1>1. n + 1 \in Nat /\ n <= n + 1 /\ n \in 1..n
  OBVIOUS
<1>2. \A i \in 1..n : g[i] = h[i]
  BY <1>1, FlatUnique
<1>3. QED
  BY <1>1, <1>2

(* Three sequences, one behind the other.                                  *)
LEMMA Associative ==
  \A T : \A r, s, t \in Seq(T) : (r \o s) \o t = r \o (s \o t)
BY ConcatAssociative

(* There is nothing in nothing.                                            *)
LEMMA FlattenEmpty ==
  FlattenSeq(<< >>) = << >>
BY DEF FlattenSeq

(* One more sequence comes behind the others.                              *)
LEMMA FlattenAppend ==
  ASSUME NEW T, NEW ss \in Seq(Seq(T)), NEW s \in Seq(T)
  PROVE  FlattenSeq(Append(ss, s)) = FlattenSeq(ss) \o s
<1> DEFINE n  == Len(ss)
           tt == Append(ss, s)
<1>1. /\ n \in Nat /\ n + 1 \in Nat /\ Len(tt) = n + 1 /\ tt[n + 1] = s
      /\ \A i \in 1..n : ss[i] = tt[i]
  BY AppendProperties
<1> HIDE DEF tt
<1>2. PICK h : IsFlat(h, tt, Len(tt)) /\ FlattenSeq(tt) = h[Len(tt)]
  <2>1. Len(tt) \in Nat /\ Len(tt) # 0
    BY <1>1
  <2>2. QED
    BY <2>1, Flattened
<1>3. IsFlat(h, tt, n + 1) /\ FlattenSeq(tt) = h[n + 1]
  BY <1>1, <1>2
<1>4. h[n + 1] = IF n + 1 = 1 THEN tt[n + 1] ELSE h[n] \o tt[n + 1]
  <2>1. n + 1 \in 1..(n + 1) /\ (n + 1) - 1 = n
    BY <1>1
  <2> HIDE DEF n
  <2>2. h[n + 1] = IF n + 1 = 1 THEN tt[n + 1] ELSE h[(n + 1) - 1] \o tt[n + 1]
    BY <1>3, <2>1, Zenon DEF IsFlat
  <2>3. QED
    BY <2>1, <2>2
<1>5. CASE n = 0
  <2>1. ss = << >>
    BY <1>5
  <2>2. FlattenSeq(ss) \o s = s
    BY <2>1, FlattenEmpty
  <2>3. QED
    BY <1>1, <1>3, <1>4, <1>5, <2>2 DEF tt
<1>6. CASE n # 0
  <2>1. PICK g : IsFlat(g, ss, n) /\ FlattenSeq(ss) = g[n]
    BY <1>1, <1>6, Flattened
  <2> HIDE DEF n
  <2>2. h[n] = FlattenSeq(ss)
    BY <1>1, <1>3, <1>6, <2>1, FlatFront
  <2>3. n + 1 # 1
    BY <1>1, <1>6
  <2>5. QED
    BY <1>1, <1>3, <1>4, <2>2, <2>3 DEF tt
<1>7. QED
  BY <1>5, <1>6

(* Facts of all flattened sequences are shown along their length.          *)
LEMMA FlattenTyped ==
  ASSUME NEW T, NEW ss \in Seq(Seq(T))
  PROVE  FlattenSeq(ss) \in Seq(T)
<1> DEFINE Bad == {k \in Nat : \E tt \in Seq(Seq(T)) : Len(tt) = k /\ FlattenSeq(tt) \notin Seq(T)}
<1>1. SUFFICES ASSUME Bad # {} PROVE FALSE
  OBVIOUS
<1>2. PICK k \in Bad : \A j \in Bad : k <= j
  BY <1>1, LeastNumber
<1>3. PICK tt \in Seq(Seq(T)) : Len(tt) = k /\ FlattenSeq(tt) \notin Seq(T)
  BY <1>2
<1>4. tt # << >>
  BY <1>3, FlattenEmpty
<1>5. PICK front \in Seq(Seq(T)), last \in Seq(T) : tt = Append(front, last)
  BY <1>4, SequenceEmptyOrAppend
<1>6. Len(front) \in Nat /\ k = Len(front) + 1
  BY <1>3, <1>5
<1>7. FlattenSeq(front) \in Seq(T)
  <2>1. ~(k <= Len(front))
    BY <1>6
  <2>2. Len(front) \notin Bad
    BY <1>2, <2>1
  <2>3. QED
    BY <1>6, <2>2
<1>8. FlattenSeq(tt) = FlattenSeq(front) \o last
  BY <1>5, FlattenAppend
<1>9. QED
  BY <1>3, <1>7, <1>8

(* The sequences of two sequences, one behind the other.                   *)
LEMMA FlattenConcat ==
  ASSUME NEW T, NEW ss \in Seq(Seq(T)), NEW tt \in Seq(Seq(T))
  PROVE  FlattenSeq(ss \o tt) = FlattenSeq(ss) \o FlattenSeq(tt)
<1> DEFINE Bad == {k \in Nat : \E uu \in Seq(Seq(T)) :
                     Len(uu) = k /\ FlattenSeq(ss \o uu) # FlattenSeq(ss) \o FlattenSeq(uu)}
<1>1. SUFFICES ASSUME Bad # {} PROVE FALSE
  <2>1. ASSUME FlattenSeq(ss \o tt) # FlattenSeq(ss) \o FlattenSeq(tt) PROVE Bad # {}
    <3>1. Len(tt) \in Nat
      OBVIOUS
    <3>2. Len(tt) \in Bad
      BY <2>1, <3>1
    <3>3. QED
      BY <3>2
  <2>2. QED
    BY <2>1
<1>2. PICK k \in Bad : \A j \in Bad : k <= j
  BY <1>1, LeastNumber
<1>3. PICK uu \in Seq(Seq(T)) :
        Len(uu) = k /\ FlattenSeq(ss \o uu) # FlattenSeq(ss) \o FlattenSeq(uu)
  BY <1>2
<1>4. FlattenSeq(ss) \in Seq(T)
  BY FlattenTyped
<1>5. uu # << >>
  <2>1. ss \o << >> = ss /\ FlattenSeq(ss) \o << >> = FlattenSeq(ss)
    BY <1>4
  <2>2. QED
    BY <1>3, <2>1, FlattenEmpty
<1>6. PICK front \in Seq(Seq(T)), last \in Seq(T) : uu = Append(front, last)
  BY <1>5, SequenceEmptyOrAppend
<1>7. Len(front) \in Nat /\ k = Len(front) + 1
  BY <1>3, <1>6
<1>8. FlattenSeq(ss \o front) = FlattenSeq(ss) \o FlattenSeq(front)
  <2>1. ~(k <= Len(front))
    BY <1>7
  <2>2. Len(front) \notin Bad
    BY <1>2, <2>1
  <2>3. QED
    BY <1>7, <2>2
<1>9. ss \o uu = Append(ss \o front, last) /\ ss \o front \in Seq(Seq(T))
  <2>1. Append(front, last) = front \o <<last>>
    BY <1>6, AppendIsConcat
  <2>2. ss \o front \in Seq(Seq(T))
    BY <1>6, ConcatProperties
  <2>3. Append(ss \o front, last) = (ss \o front) \o <<last>>
    BY <1>6, <2>2, AppendIsConcat
  <2>4. <<last>> \in Seq(Seq(T))
    BY <1>6
  <2>5. (ss \o front) \o <<last>> = ss \o (front \o <<last>>)
    <3> HIDE DEF Bad
    <3> DEFINE U == Seq(T)
    <3>1. ss \in Seq(U) /\ front \in Seq(U) /\ <<last>> \in Seq(U)
      BY <1>6, <2>4
    <3> HIDE DEF U
    <3>2. QED
      BY <3>1, Associative
  <2>6. QED
    BY <1>6, <2>1, <2>2, <2>3, <2>5
<1>10. /\ FlattenSeq(ss \o uu) = FlattenSeq(ss \o front) \o last
       /\ FlattenSeq(uu) = FlattenSeq(front) \o last
  BY <1>6, <1>9, FlattenAppend
<1>11. FlattenSeq(front) \in Seq(T)
  BY FlattenTyped
<1>12. (FlattenSeq(ss) \o FlattenSeq(front)) \o last = FlattenSeq(ss) \o (FlattenSeq(front) \o last)
  <2> DEFINE r == FlattenSeq(ss)
             f == FlattenSeq(front)
  <2>1. r \in Seq(T) /\ f \in Seq(T) /\ last \in Seq(T)
    BY <1>4, <1>6, <1>11
  <2> HIDE DEF Bad, r, f
  <2>2. (r \o f) \o last = r \o (f \o last)
    BY <2>1, Associative
  <2>3. QED
    BY <2>2 DEF r, f
<1>13. QED
  BY <1>3, <1>8, <1>10, <1>12

(* The elements of s with an index in K, in order.                         *)
Picks(s, K, n) == [i \in 1..n |-> IF i \in K THEN <<s[i]>> ELSE << >>]

(* Picks are sequences of at most one element each.                        *)
LEMMA PicksTyped ==
  ASSUME NEW s, NEW K, NEW n \in Nat
  PROVE  /\ Picks(s, K, n) \in Seq(Seq({s[i] : i \in 1..n}))
         /\ DOMAIN Picks(s, K, n) = 1..n /\ Len(Picks(s, K, n)) = n
<1> DEFINE T == {s[i] : i \in 1..n}
<1>1. \A i \in 1..n : (IF i \in K THEN <<s[i]>> ELSE << >>) \in Seq(T)
  <2>1. \A i \in 1..n : s[i] \in T
    OBVIOUS
  <2> HIDE DEF T
  <2>2. QED
    BY <2>1
<1> DEFINE U == Seq(T)
<1> HIDE DEF U
<1>2. Picks(s, K, n) \in [1..n -> U]
  BY <1>1 DEF Picks, U
<1>3. Picks(s, K, n) \in Seq(U) /\ Len(Picks(s, K, n)) = n
  BY <1>2
<1>4. QED
  BY <1>2, <1>3 DEF U

(* The next element is picked or left.                                     *)
LEMMA PicksNext ==
  ASSUME NEW s, NEW K, NEW n \in Nat, n # 0
  PROVE  FlattenSeq(Picks(s, K, n)) =
           FlattenSeq(Picks(s, K, n - 1)) \o (IF n \in K THEN <<s[n]>> ELSE << >>)
<1> DEFINE T == {s[i] : i \in 1..n}
           last == IF n \in K THEN <<s[n]>> ELSE << >>
           f == Picks(s, K, n - 1)
           g == Picks(s, K, n)
<1>1. n - 1 \in Nat /\ n \in 1..n /\ \A i \in 1..(n - 1) : i \in 1..n
  OBVIOUS
<1>2. /\ DOMAIN f = 1..(n - 1) /\ Len(f) = n - 1 /\ DOMAIN g = 1..n /\ Len(g) = n
      /\ f \in Seq(Seq({s[i] : i \in 1..(n - 1)})) /\ g \in Seq(Seq(T))
  BY <1>1, PicksTyped
<1>3. /\ \A i \in 1..(n - 1) : f[i] = IF i \in K THEN <<s[i]>> ELSE << >>
      /\ \A i \in 1..n : g[i] = IF i \in K THEN <<s[i]>> ELSE << >>
  BY DEF Picks
<1>4. last \in Seq(T)
  <2>1. g[n] \in Seq(T)
    <3> DEFINE U == Seq(T)
    <3>1. g \in Seq(U)
      BY <1>2
    <3> HIDE DEF U, T, g
    <3>2. g[n] \in U
      BY <1>1, <1>2, <3>1
    <3>3. QED
      BY <3>2 DEF U
  <2>2. QED
    BY <1>1, <1>3, <2>1
<1> DEFINE U == Seq(T)
<1>5. f \in Seq(U)
  <2>1. \A i \in 1..(n - 1) : f[i] = g[i] /\ i \in 1..n
    BY <1>1, <1>3
  <2>2. g \in Seq(U)
    BY <1>2
  <2> HIDE DEF f, g, U
  <2>3. \A i \in 1..(n - 1) : f[i] \in U
    BY <1>2, <2>1, <2>2
  <2>4. f = [i \in 1..(n - 1) |-> f[i]]
    BY DEF f, Picks
  <2>5. f \in [1..(n - 1) -> U]
    BY <2>3, <2>4
  <2>6. QED
    BY <1>1, <2>5
<1>6. g \in Seq(U) /\ last \in U
  BY <1>2, <1>4
<1>7. g[n] = last /\ \A i \in 1..(n - 1) : f[i] = g[i]
  BY <1>1, <1>3
<1> HIDE DEF f, g, last, U
<1>8. g = Append(f, last)
  BY <1>1, <1>2, <1>5, <1>6, <1>7
<1>9. FlattenSeq(g) = FlattenSeq(f) \o last
  BY <1>5, <1>6, <1>8, FlattenAppend DEF U
<1>10. QED
  BY <1>9 DEF f, g, last

(* They have the same places in all sequences; all of them are all.        *)
LEMMA Picked ==
  ASSUME NEW n \in Nat, NEW K \in SUBSET (1..n)
  PROVE  \E idx \in Seq(K) :
           /\ K = 1..n => idx = [i \in 1..n |-> i]
           /\ \A s : FlattenSeq(Picks(s, K, n)) = [k \in 1..Len(idx) |-> s[idx[k]]]
<1> DEFINE Good(m, M, idx) ==
             /\ M = 1..m => idx = [i \in 1..m |-> i]
             /\ \A s : FlattenSeq(Picks(s, M, m)) = [k \in 1..Len(idx) |-> s[idx[k]]]
           Bad == {m \in Nat : \E M \in SUBSET (1..m) : ~\E idx \in Seq(M) : Good(m, M, idx)}
<1>1. SUFFICES ASSUME Bad # {} PROVE FALSE
  OBVIOUS
<1>2. PICK m \in Bad : \A j \in Bad : m <= j
  BY <1>1, LeastNumber
<1>3. PICK M \in SUBSET (1..m) : ~\E idx \in Seq(M) : Good(m, M, idx)
  BY <1>2
<1>4. m \in Nat /\ (m # 0 => m - 1 \in Nat /\ m - 1 \notin Bad)
  <2>1. m \in Nat
    BY <1>2
  <2>2. m # 0 => m - 1 \in Nat /\ ~(m <= m - 1)
    BY <2>1
  <2> HIDE DEF Bad
  <2>3. QED
    BY <1>2, <2>1, <2>2
<1>5. CASE m = 0
  <2> DEFINE idx == << >>
  <2>1. idx \in Seq(M) /\ (M = 1..m => idx = [i \in 1..m |-> i]) /\ Len(idx) = 0
    BY <1>5
  <2>2. ASSUME NEW s PROVE FlattenSeq(Picks(s, M, m)) = [k \in 1..Len(idx) |-> s[idx[k]]]
    <3>1. Picks(s, M, m) = << >> /\ [k \in 1..Len(idx) |-> s[idx[k]]] = << >>
      BY <1>5 DEF Picks
    <3>2. QED
      BY <3>1, FlattenEmpty
  <2>3. QED
    BY <1>3, <2>1, <2>2
<1>6. CASE m # 0
  <2> DEFINE L == M \cap (1..(m - 1))
  <2>1. L \in SUBSET (1..(m - 1)) /\ \A i \in 1..(m - 1) : i \in L <=> i \in M
    OBVIOUS
  <2>2. PICK pre \in Seq(L) : Good(m - 1, L, pre)
    BY <1>4, <1>6, <2>1
  <2> DEFINE idx == IF m \in M THEN Append(pre, m) ELSE pre
  <2>3. pre \in Seq(M)
    BY <2>2
  <2>4. /\ idx \in Seq(M) /\ Len(pre) \in Nat
        /\ Len(idx) = IF m \in M THEN Len(pre) + 1 ELSE Len(pre)
        /\ \A k \in 1..Len(pre) : idx[k] = pre[k]
        /\ m \in M => idx[Len(pre) + 1] = m
    BY <2>3
  <2>5. ASSUME M = 1..m PROVE idx = [i \in 1..m |-> i]
    <3>1. L = 1..(m - 1) /\ m \in M
      BY <1>4, <1>6, <2>5
    <3>2. pre = [i \in 1..(m - 1) |-> i]
      BY <2>2, <3>1
    <3>3. Len(pre) = m - 1 /\ \A i \in 1..(m - 1) : pre[i] = i
      BY <1>4, <1>6, <3>2
    <3>4. Len(idx) = m /\ DOMAIN idx = 1..m
      BY <1>4, <1>6, <2>4, <3>1, <3>3
    <3>5. ASSUME NEW i \in 1..m PROVE idx[i] = i
      <4>1. i \in 1..Len(pre) \/ i = Len(pre) + 1
        BY <1>4, <3>3
      <4>2. QED
        BY <1>4, <2>4, <3>1, <3>3, <4>1
    <3>6. idx = [i \in 1..m |-> idx[i]]
      <4>1. idx \in Seq(M)
        BY <2>4
      <4> HIDE DEF idx
      <4>2. QED
        BY <3>4, <4>1
    <3> HIDE DEF idx
    <3>7. QED
      BY <3>5, <3>6
  <2>6. ASSUME NEW s PROVE FlattenSeq(Picks(s, M, m)) = [k \in 1..Len(idx) |-> s[idx[k]]]
    <3> DEFINE last == IF m \in M THEN <<s[m]>> ELSE << >>
               before == [k \in 1..Len(pre) |-> s[pre[k]]]
    <3>1. Picks(s, L, m - 1) = Picks(s, M, m - 1)
      BY <2>1 DEF Picks
    <3>2. FlattenSeq(Picks(s, M, m)) = FlattenSeq(Picks(s, M, m - 1)) \o last
      BY <1>4, <1>6, PicksNext
    <3>3. FlattenSeq(Picks(s, L, m - 1)) = before
      BY <2>2
    <3>4. FlattenSeq(Picks(s, M, m)) = before \o last
      BY <3>1, <3>2, <3>3
    <3>5. before \o last = [k \in 1..Len(idx) |-> s[idx[k]]]
      <4>1. CASE m \in M
        <5> DEFINE r == [k \in 1..Len(idx) |-> s[idx[k]]]
        <5>1. /\ Len(idx) = Len(pre) + 1 /\ Len(pre) + 1 \in 1..Len(idx)
              /\ \A k \in 1..Len(pre) : k \in 1..Len(idx)
          BY <2>4, <4>1
        <5>2. /\ \A k \in 1..Len(pre) : before[k] = s[pre[k]] /\ r[k] = s[pre[k]]
              /\ r[Len(pre) + 1] = s[m]
          BY <2>4, <4>1, <5>1
        <5>3. Len(before) = Len(pre) /\ DOMAIN before = 1..Len(pre) /\ last = <<s[m]>>
          BY <2>4, <4>1
        <5>4. DOMAIN r = 1..(Len(pre) + 1) /\ r = [k \in 1..(Len(pre) + 1) |-> r[k]]
          BY <5>1
        <5> HIDE DEF idx, last, r
        <5>5. before \o last = [k \in 1..(Len(pre) + 1) |->
                                   IF k <= Len(pre) THEN before[k] ELSE last[k - Len(pre)]]
          BY <2>4, <5>3
        <5> HIDE DEF before
        <5>6. ASSUME NEW k \in 1..(Len(pre) + 1)
              PROVE  (IF k <= Len(pre) THEN before[k] ELSE last[k - Len(pre)]) = r[k]
          <6>1. CASE k <= Len(pre)
            BY <2>4, <5>2, <6>1
          <6>2. CASE ~(k <= Len(pre))
            <7>1. k = Len(pre) + 1 /\ k - Len(pre) = 1
              BY <2>4, <6>2
            <7>2. QED
              BY <5>2, <5>3, <6>2, <7>1
          <6>3. QED
            BY <6>1, <6>2
        <5>7. QED
          BY <5>4, <5>5, <5>6 DEF r
      <4>2. CASE m \notin M
        <5>1. idx = pre /\ last = << >>
          BY <4>2
        <5>2. before \o << >> = before
          BY <2>4
        <5>3. QED
          BY <5>1, <5>2
      <4>3. QED
        BY <4>1, <4>2
    <3>6. QED
      BY <3>4, <3>5
  <2>7. Good(m, M, idx) /\ idx \in Seq(M)
    BY <2>4, <2>5, <2>6
  <2> HIDE DEF Good, idx
  <2>8. QED
    BY <1>3, <2>7
<1>7. QED
  BY <1>5, <1>6

(***************************************************************************)
(* What becomes of sequences.                                              *)
(***************************************************************************)

(* A sequence of a set is a sequence.                                      *)
LEMMA SeqIs ==
  ASSUME NEW T, NEW s \in Seq(T)
  PROVE  IsSeq(s) /\ DOMAIN s = 1..Len(s)
BY DEF IsSeq

(* A sequence is one of the set of its elements.                           *)
LEMMA SeqElements ==
  ASSUME NEW s, IsSeq(s), NEW T, \A i \in DOMAIN s : s[i] \in T
  PROVE  s \in Seq(T)
<1>1. DOMAIN s = 1..Len(s) /\ Len(s) \in Nat /\ s = [i \in 1..Len(s) |-> s[i]]
  BY SeqDomain DEF IsSeq
<1>2. s \in [1..Len(s) -> T]
  BY <1>1
<1>3. QED
  BY <1>1, <1>2

(* The first element, and those behind it.                                 *)
LEMMA SeqHeadTail ==
  ASSUME NEW s, IsSeq(s), s # << >>
  PROVE  /\ 1 \in DOMAIN s /\ Head(s) = s[1] /\ IsSeq(Tail(s)) /\ Len(Tail(s)) = Len(s) - 1
         /\ \A i \in DOMAIN Tail(s) : i + 1 \in DOMAIN s /\ Tail(s)[i] = s[i + 1]
<1> DEFINE T == {s[i] : i \in DOMAIN s}
<1>1. s \in Seq(T)
  BY SeqDomain
<1> HIDE DEF T
<1>2. /\ Tail(s) \in Seq(T) /\ Len(Tail(s)) = Len(s) - 1 /\ Len(s) \in Nat /\ Len(s) # 0
      /\ \A i \in 1..Len(Tail(s)) : Tail(s)[i] = s[i + 1]
      /\ DOMAIN s = 1..Len(s)
  BY <1>1, HeadTailProperties
<1>3. IsSeq(Tail(s)) /\ DOMAIN Tail(s) = 1..Len(Tail(s))
  BY <1>2, SeqIs
<1>4. QED
  BY <1>1, <1>2, <1>3

(* One more element.                                                       *)
LEMMA SeqAppend ==
  ASSUME NEW s, IsSeq(s), NEW x
  PROVE  /\ IsSeq(Append(s, x)) /\ Len(Append(s, x)) = Len(s) + 1 /\ Append(s, x) # << >>
         /\ DOMAIN Append(s, x) = 1..(Len(s) + 1) /\ Append(s, x)[Len(s) + 1] = x
         /\ \A i \in 1..Len(s) : Append(s, x)[i] = s[i]
         /\ \A i \in DOMAIN Append(s, x) : i \in DOMAIN s \/ i = Len(s) + 1
<1> DEFINE T == {s[i] : i \in DOMAIN s} \cup {x}
<1>1. s \in Seq({s[i] : i \in DOMAIN s}) /\ DOMAIN s = 1..Len(s) /\ Len(s) \in Nat
  BY SeqDomain
<1>2. s \in Seq(T) /\ x \in T
  BY <1>1
<1> HIDE DEF T
<1>3. /\ Append(s, x) \in Seq(T) /\ Len(Append(s, x)) = Len(s) + 1 /\ Append(s, x) # << >>
      /\ Append(s, x)[Len(s) + 1] = x
      /\ \A i \in 1..Len(s) : Append(s, x)[i] = s[i]
  BY <1>2, AppendProperties
<1>4. IsSeq(Append(s, x)) /\ DOMAIN Append(s, x) = 1..(Len(s) + 1)
  BY <1>3, SeqIs
<1>5. QED
  BY <1>1, <1>3, <1>4

(* Two sequences, one behind the other: each element is of one of them.    *)
LEMMA SeqConcat ==
  ASSUME NEW s, IsSeq(s), NEW t, IsSeq(t)
  PROVE  /\ IsSeq(s \o t) /\ Len(s \o t) = Len(s) + Len(t) /\ DOMAIN (s \o t) = 1..(Len(s) + Len(t))
         /\ \A i \in 1..Len(s) : (s \o t)[i] = s[i]
         /\ \A i \in 1..Len(t) : (s \o t)[Len(s) + i] = t[i]
         /\ \A i \in DOMAIN (s \o t) :
              \/ i \in DOMAIN s /\ (s \o t)[i] = s[i]
              \/ i - Len(s) \in DOMAIN t /\ (s \o t)[i] = t[i - Len(s)]
<1> DEFINE T == {s[i] : i \in DOMAIN s} \cup {t[i] : i \in DOMAIN t}
<1>1. /\ s \in Seq({s[i] : i \in DOMAIN s}) /\ DOMAIN s = 1..Len(s) /\ Len(s) \in Nat
      /\ t \in Seq({t[i] : i \in DOMAIN t}) /\ DOMAIN t = 1..Len(t) /\ Len(t) \in Nat
  BY SeqDomain
<1>2. s \in Seq(T) /\ t \in Seq(T)
  BY <1>1
<1> HIDE DEF T
<1>3. /\ s \o t \in Seq(T) /\ Len(s \o t) = Len(s) + Len(t)
      /\ \A i \in 1..(Len(s) + Len(t)) : (s \o t)[i] = IF i <= Len(s) THEN s[i] ELSE t[i - Len(s)]
  BY <1>2, ConcatProperties
<1>4. IsSeq(s \o t) /\ DOMAIN (s \o t) = 1..(Len(s) + Len(t))
  BY <1>3, SeqIs
<1> DEFINE m == Len(s)
           n == Len(t)
<1>5. m \in Nat /\ n \in Nat /\ DOMAIN s = 1..m /\ DOMAIN t = 1..n
  BY <1>1
<1>6. \A i \in 1..(m + n) : (s \o t)[i] = IF i <= m THEN s[i] ELSE t[i - m]
  BY <1>3
<1> HIDE DEF m, n
<1>7. \A i \in 1..m : i \in 1..(m + n) /\ i <= m
  BY <1>5
<1>8. \A i \in 1..n : m + i \in 1..(m + n) /\ ~(m + i <= m) /\ (m + i) - m = i
  BY <1>5
<1>9. \A i \in 1..(m + n) : (i <= m /\ i \in 1..m) \/ (~(i <= m) /\ i - m \in 1..n)
  BY <1>5
<1>10. /\ \A i \in 1..m : (s \o t)[i] = s[i]
       /\ \A i \in 1..n : (s \o t)[m + i] = t[i]
       /\ \A i \in 1..(m + n) : \/ i \in 1..m /\ (s \o t)[i] = s[i]
                                \/ i - m \in 1..n /\ (s \o t)[i] = t[i - m]
  BY <1>6, <1>7, <1>8, <1>9
<1>11. QED
  BY <1>1, <1>3, <1>4, <1>10 DEF m, n

(* The first n elements.                                                   *)
LEMMA SeqFront ==
  ASSUME NEW s, IsSeq(s), NEW n \in 0..Len(s)
  PROVE  /\ IsSeq(SubSeq(s, 1, n)) /\ Len(SubSeq(s, 1, n)) = n /\ DOMAIN SubSeq(s, 1, n) = 1..n
         /\ \A i \in 1..n : i \in DOMAIN s /\ SubSeq(s, 1, n)[i] = s[i]
<1> DEFINE T == {s[i] : i \in DOMAIN s}
<1>1. s \in Seq(T) /\ DOMAIN s = 1..Len(s) /\ Len(s) \in Nat
  BY SeqDomain
<1> HIDE DEF T
<1>2. SubSeq(s, 1, n) \in Seq(T) /\ Len(SubSeq(s, 1, n)) = n
  BY <1>1
<1>3. \A i \in 1..n : i \in DOMAIN s /\ SubSeq(s, 1, n)[i] = s[i]
  BY <1>1
<1>4. QED
  BY <1>2, <1>3, SeqIs

(* All elements but one.                                                   *)
LEMMA SeqRemove ==
  ASSUME NEW s, IsSeq(s), NEW i \in DOMAIN s
  PROVE  /\ IsSeq(RemoveAt(s, i)) /\ Len(RemoveAt(s, i)) = Len(s) - 1
         /\ \A k \in DOMAIN RemoveAt(s, i) : \E j \in DOMAIN s : RemoveAt(s, i)[k] = s[j]
<1> DEFINE T == {s[j] : j \in DOMAIN s}
           r == SubSeq(s, 1, i - 1)
           b == SubSeq(s, i + 1, Len(s))
<1>1. s \in Seq(T) /\ DOMAIN s = 1..Len(s) /\ Len(s) \in Nat
  BY SeqDomain
<1> HIDE DEF T
<1>2. r \in Seq(T) /\ Len(r) = i - 1 /\ b \in Seq(T) /\ Len(b) = Len(s) - i
  BY <1>1
<1> HIDE DEF r, b
<1>3. r \o b \in Seq(T) /\ Len(r \o b) = Len(s) - 1
  <2>1. r \o b \in Seq(T) /\ Len(r \o b) = Len(r) + Len(b)
    BY <1>2
  <2>2. i \in Nat /\ Len(r) + Len(b) = Len(s) - 1
    BY <1>1, <1>2
  <2>3. QED
    BY <2>1, <2>2
<1>4. RemoveAt(s, i) = r \o b
  BY DEF RemoveAt, r, b
<1>5. \A k \in DOMAIN RemoveAt(s, i) : RemoveAt(s, i)[k] \in T
  BY <1>3, <1>4
<1>6. QED
  BY <1>3, <1>4, <1>5, SeqIs DEF T

(* Sequences of no element and of one.                                     *)
LEMMA SeqShort ==
  /\ IsSeq(<< >>) /\ DOMAIN << >> = {} /\ Len(<< >>) = 0
  /\ \A x : IsSeq(<<x>>) /\ DOMAIN <<x>> = {1} /\ <<x>>[1] = x /\ Len(<<x>>) = 1 /\ <<x>> # << >>
BY DEF IsSeq

(* A sequence has a first and a last element, or it is empty.              *)
LEMMA SeqEmpty ==
  ASSUME NEW s, IsSeq(s)
  PROVE  (s = << >> <=> Len(s) = 0) /\ (s # << >> => 1 \in DOMAIN s /\ Len(s) \in DOMAIN s)
<1>1. s \in Seq({s[i] : i \in DOMAIN s}) /\ DOMAIN s = 1..Len(s) /\ Len(s) \in Nat
  BY SeqDomain
<1>2. QED
  BY <1>1
=============================================================================
