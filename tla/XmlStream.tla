----------------------------- MODULE XmlStream -----------------------------
(***************************************************************************)
(* The reader of work files (tws_xml.cpp, class TwsXml).  A file is a row  *)
(* of XML documents with form feeds between them.  It is read by chunks    *)
(* into a buffer that grows; nextXmlDoc() cuts the next document off its   *)
(* front.  nextXmlRoot() is done with the first text that is no document.   *)
(*                                                                         *)
(* A document is as many cells as one likes.  A cell says whose part it is,*)
(* so a text is a document when it is all cells of one.                    *)
(***************************************************************************)
EXTENDS Integers, Sequences, SequencesExt, FiniteSets

CONSTANTS ChunkSize, BufSize (* CHUNK_SIZE and BUF_SIZE *)

(* One resize_buf() makes room for a chunk.                                *)
ASSUME BufferAssumption ==
  ChunkSize \in Nat \ {0} /\ BufSize \in Nat /\ BufSize >= ChunkSize

VARIABLES
  stream,     (* What is left of the file.                                 *)
  buf,        (* The first buf_len cells of the buffer.                    *)
  bufSize,    (* buf_size                                                  *)
  scanned,    (* How much of buf was searched: cp - buf.                   *)
  parsed,     (* The documents nextXmlDoc() returned.                      *)
  over,       (* nextXmlDoc() returned NULL.                               *)
  whole       (* What was opened, and the sizes of its documents; no part  *)
              (* of the program.                                           *)

streamVars == <<stream, buf, bufSize, scanned, parsed, over, whole>>

FormFeed == [doc |-> 0, part |-> 0]

(* Plain text among the documents.                                         *)
PlainText == [doc |-> 0, part |-> 1]

(* Document number n of a size.                                            *)
Cells(n, size) == [p \in 1..size |-> [doc |-> n, part |-> p]]

(* xmlReadMemory(): the number of the document a text is; 0 is NULL.       *)
Parsed(text, sizes) ==
  IF text # << >> /\ text[1].doc # 0 /\ text = Cells(text[1].doc, sizes[text[1].doc])
  THEN text[1].doc ELSE 0

(* Faulty: goes on one place behind the one where the search ended.        *)
FindFormFeedBehind(s, from) ==
  IF \E i \in (from + 1)..Len(s) : s[i] = FormFeed
  THEN CHOOSE i \in (from + 1)..Len(s) :
         s[i] = FormFeed /\ \A j \in (from + 1)..(i - 1) : s[j] # FormFeed
  ELSE Len(s) + 1

(* find_form_feed() in s from where the search ended: its place, or the    *)
(* place behind s.                                                         *)
FindFormFeed(s, from) ==
  IF \E i \in from..Len(s) : s[i] = FormFeed
  THEN CHOOSE i \in from..Len(s) :
         s[i] = FormFeed /\ \A j \in from..(i - 1) : s[j] # FormFeed
  ELSE Len(s) + 1

OpenFile(cells, sizes) ==
  /\ stream' = cells /\ buf' = << >> /\ bufSize' = BufSize /\ scanned' = 0
  /\ parsed' = << >> /\ over' = FALSE /\ whole' = [cells |-> cells, sizes |-> sizes]

(* Faulty: the buffer grows when it is full.                               *)
ResizedFull(len, size) == IF len >= size THEN size + BufSize ELSE size

(* resize_buf(), before a chunk is read.                                   *)
Resized(len, size) == IF len + ChunkSize >= size THEN size + BufSize ELSE size

(* Faulty: the form feed stays in the buffer.                              *)
BehindText(s, ff) == SubSeq(s, ff, Len(s))

(* memmove(): what is behind the text and its form feed.                   *)
Behind(s, ff) == SubSeq(s, ff + 1, Len(s))

(* One round of the loop in nextXmlDoc() that finds no form feed, and gets *)
(* another chunk.                                                          *)
ReadChunk ==
  /\ FindFormFeed(buf, scanned + 1) > Len(buf) /\ stream # << >>
  /\ LET n == IF Len(stream) < ChunkSize THEN Len(stream) ELSE ChunkSize
     IN  buf' = buf \o SubSeq(stream, 1, n) /\ stream' = Behind(stream, n)
  /\ bufSize' = Resized(Len(buf), bufSize) /\ scanned' = Len(buf)
  /\ UNCHANGED <<parsed, over, whole>>

(* The text before the next form feed, or the rest of the file.            *)
NextText == SubSeq(buf, 1, FindFormFeed(buf, scanned + 1) - 1)

NextDoc == Parsed(NextText, whole.sizes)

(* The end of nextXmlDoc(): a form feed was found, or the file is over.    *)
NextXmlDoc ==
  LET ff == FindFormFeed(buf, scanned + 1)
  IN  /\ ff <= Len(buf) \/ stream = << >>
      /\ buf' = Behind(buf, ff) /\ scanned' = 0
      /\ bufSize' = IF ff > Len(buf) THEN Resized(Len(buf), bufSize) ELSE bufSize
      /\ parsed' = IF NextDoc = 0 THEN parsed ELSE Append(parsed, NextDoc)
      /\ over' = (NextDoc = 0)
      /\ UNCHANGED <<stream, whole>>

(***************************************************************************)
(* What nextXmlDoc() is to do.                                             *)
(***************************************************************************)

(* What is left to read, be it in the buffer or in the file.               *)
Unread == buf \o stream

(* The text up to the first form feed of the file, or its end, is taken    *)
(* away with its form feed.                                                *)
CutText ==
  /\ \A i \in DOMAIN NextText : NextText[i] # FormFeed
  /\ \/ Unread = NextText \o <<FormFeed>> \o Unread'
     \/ Unread = NextText /\ Unread' = << >>

(* nextXmlDoc() never writes behind the end of its buffer.                 *)
BufferFits == Len(buf) <= bufSize

(* However the chunks fall, and although what was searched is not searched *)
(* again: nextXmlDoc() returns the text up to the next form feed of the    *)
(* file, nothing is lost behind it, and reading a chunk loses nothing.     *)
(* After NULL the file is not read on.                                     *)
TextsInOrder ==
  [][/\ \/ ~over /\ (ReadChunk \/ NextXmlDoc)
        \/ OpenFile(stream', whole'.sizes)
     /\ ReadChunk => Unread' = Unread
     /\ NextXmlDoc => CutText]_streamVars

(* A text ends with a form feed or the file.                               *)
TextEnds == {i \in 1..(Len(whole.cells) + 1) : i > Len(whole.cells) \/ whole.cells[i] = FormFeed}

DocAt(e) ==
  Parsed(SubSeq(whole.cells, 1 + Max({0} \cup {x \in TextEnds : x < e}), e - 1), whole.sizes)

(* The ends of the documents at the front of the file, up to the first text*)
(* that is none, and these documents.                                      *)
Leading == {e \in TextEnds : \A x \in TextEnds : x <= e => DocAt(x) # 0}

LeadingDocs ==
  [k \in 1..Cardinality(Leading) |->
     DocAt(CHOOSE e \in Leading : Cardinality({x \in Leading : x <= e}) = k)]

(* README: a half ready file "contains always valid data of what has been  *)
(* done so far": all its complete documents are read, in order, however the*)
(* chunks fall, wherever it was cut.                                       *)
ReadsUpToFirstBad ==
  IsPrefix(parsed, LeadingDocs) /\ (over => parsed = LeadingDocs)
=============================================================================
