----------------------- MODULE DocumentPipelineProofs -----------------------
(***************************************************************************)
(* What is proved about DocumentPipeline for all versions, processes and   *)
(* bounds, and every layout of object storage: type correctness, that what *)
(* is processable has its artifact, that a document only goes forward,     *)
(* that its chunks are cut from its version's object (and are its own text *)
(* where no other version has that object), and that nothing is stranded   *)
(* but by a failure or a command.                                          *)
(***************************************************************************)
EXTENDS DocumentPipeline, TLAPS, FiniteSetTheorems

-----------------------------------------------------------------------------
(* Rows. *)

\* Whatever refers to a version refers to one that has its row.
KnownRows ==
    /\ \A v \in Versions : queue[v].status # "absent" => Present(v)
    /\ \A v \in taken \cup admin.locked : Present(v)
    /\ \A v \in Versions : retry[v] # "none" => Present(v)
    /\ doc.raw # None => Present(doc.raw)
    /\ \A c \in Collectors : collector[c].pc = "queueing" => Present(collector[c].ver)
    /\ \A k \in Chunkers : chunker[k].pc # "idle" => Present(chunker[k].ver)
    /\ \A g \in Indexers : indexer[g].pc # "idle" => Present(indexer[g].ver)

\* A row is put only once, and its place stays its own.
RowsInOrder ==
    /\ \A v \in Versions : raw[v].at <= rows
    /\ \A u, v \in Versions : raw[u].at = raw[v].at /\ raw[u].at # 0 => u = v

\* A parser that still has its queue row is at work on what is not processable.
ParsingUnprocessed ==
    \A v \in Versions : queue[v].status = "parsing" => raw[v].status \in {"fetched", "failed"}

\* The artifact is there before the row can refer to it.
ArtifactFirst ==
    /\ ProcessableHasArtifact
    /\ \A p \in Parsers : parser[p].pc = "stored" => stored[object[parser[p].ver]] # None

\* What was processable is, or has been taken back since.
StillProcessable(v) == Processable(v) \/ v \in taken

\* The document and every chunker at work are about a version that was processable.
OnProcessable ==
    /\ doc.raw # None => StillProcessable(doc.raw)
    /\ \A k \in Chunkers : chunker[k].pc # "idle" => StillProcessable(chunker[k].ver)

\* The row lock: only its holder is writing, and the document is there.
LockHeld ==
    /\ \A k \in Chunkers : chunker[k].pc = "writing" => lock = k
    /\ \A k \in Chunkers : chunker[k].pc \in {"upserted", "prepared", "writing"} => doc.raw # None

\* What is about to be written is not older than the document's version.
WritesForward ==
    \A k \in Chunkers : chunker[k].pc = "writing" /\ doc.raw \notin taken =>
        raw[doc.raw].at <= raw[chunker[k].ver].at

DocInv == OnProcessable /\ LockHeld /\ WritesForward

\* The texts that have the object of each version.
OwnTexts == [v \in Versions |-> TextsOf(v)]

\* Texts in hand are of the object of the version in hand, and without a document
\* nothing is searched.
TextsInHand ==
    /\ doc.raw = None => doc.chunks = None
    /\ \A k \in Chunkers : chunker[k].pc # "idle" => chunker[k].text \in OwnTexts[chunker[k].ver]

\* Chunks that matched the document's still fit them, unless a newer version has
\* come in between.
MatchesFit ==
    \A k \in Chunkers : chunker[k].pc \in {"prepared", "writing"} /\ chunker[k].match =>
        doc.chunks \in OwnTexts[chunker[k].ver] \/ raw[doc.raw].at > raw[chunker[k].ver].at

\* Nobody who compares or has compared is ahead of the one who writes.
WriterAhead ==
    \A k, l \in Chunkers :
        chunker[k].pc = "writing" /\ chunker[l].pc \in {"upserted", "prepared"} =>
        raw[chunker[l].ver].at <= raw[chunker[k].ver].at

\* What is at an object is a text of it.
StoredFit == \A v \in Versions : stored[object[v]] \in OwnTexts[v] \cup {None}

ChunksFit ==
    /\ StoredFit /\ TextsInHand
    /\ taken = {} => /\ doc.chunks # None => doc.chunks \in OwnTexts[doc.raw]
                     /\ MatchesFit /\ WriterAhead

-----------------------------------------------------------------------------
(* Rows: what one step does to them. *)

Rows == TypeOK /\ KnownRows /\ ParsingUnprocessed /\ RowsInOrder

\* A row keeps its place, and what is processable is taken back at most.
Kept == /\ object' = object
        /\ \A v \in Versions : Present(v) => Present(v)' /\ raw'[v].at = raw[v].at
        /\ \A v \in Versions : Processable(v) => StillProcessable(v)'
        /\ taken \subseteq taken'

LEMMA RowsInit == Init => Rows
<1> SUFFICES ASSUME Init PROVE Rows
  OBVIOUS
<1>1. TypeOK
  BY SourceAssumption, ParserAssumption, LayoutAssumption
     DEF Init, TypeOK, RawRows, QueueRows, Documents,
     CollectorStates, ParserStates, ChunkerStates, IndexerStates, AdminStates,
     IdleWorker, IdleParser, IdleChunker, RetryStates, NoRetry
<1>2. KnownRows
  BY DEF Init, KnownRows, IdleWorker, IdleChunker, NoRetry
<1>3. ParsingUnprocessed /\ RowsInOrder
  BY DEF Init, ParsingUnprocessed, RowsInOrder
<1> QED
  BY <1>1, <1>2, <1>3 DEF Rows

\* What every step but the insertion of a row does.
Change ==
    /\ rows' = rows /\ object' = object /\ taken \subseteq taken'
    /\ \A v \in Versions :
          /\ raw'[v].at = raw[v].at
          /\ raw'[v].status = "absent" <=> raw[v].status = "absent"
          /\ Processable(v) => StillProcessable(v)'
          /\ queue'[v].status # "absent" => Present(v)
          /\ queue'[v].status = "parsing" => raw'[v].status \in {"fetched", "failed"}
    /\ \A v \in taken' \cup admin'.locked : Present(v)
    /\ \A v \in Versions : retry'[v] # "none" => Present(v)
    /\ doc'.raw # None => Present(doc'.raw)
    /\ \A c \in Collectors : collector'[c].pc = "queueing" => Present(collector'[c].ver)
    /\ \A k \in Chunkers : chunker'[k].pc # "idle" => Present(chunker'[k].ver)
    /\ \A g \in Indexers : indexer'[g].pc # "idle" => Present(indexer'[g].ver)

LEMMA RowsChanged ==
    ASSUME Rows, TypeOK', Change
    PROVE  Rows' /\ Kept
<1>1. KnownRows'
  BY DEF KnownRows, Change, Present, TypeOK, AdminStates, Documents, CollectorStates,
         ChunkerStates, IndexerStates
<1>2. ParsingUnprocessed'
  BY DEF ParsingUnprocessed, Change
<1>3. RowsInOrder'
  BY DEF Rows, RowsInOrder, Change
<1>4. Kept
  BY DEF Kept, Change, Present
<1> QED
  BY <1>1, <1>2, <1>3, <1>4 DEF Rows

LEMMA RowsScan ==
    ASSUME Rows, NEW c \in Collectors, Scan(c)
    PROVE  Rows' /\ Kept
<1>1. PICK s \in CollectorStates : /\ collector' = [collector EXCEPT ![c] = s]
                                   /\ s.pc = "queueing" => Present(s.ver)
  BY DEF Rows, TypeOK, Scan, CollectorStates
<1>2. UNCHANGED <<raw, rows, queue, faults, source, object, stored, active, doc, lock, graph,
                  parser, chunker, indexer, admin, retry, taken, commands>>
  BY DEF Scan, SameCollector
<1>3. requeues' \in Nat
  BY DEF Rows, TypeOK, Scan, Present, QueueNeeded
<1>4. TypeOK'
  BY <1>1, <1>2, <1>3 DEF Rows, TypeOK
<1>5. Change
  BY <1>1, <1>2 DEF Rows, KnownRows, ParsingUnprocessed, TypeOK, Change, Present, Processable,
     StillProcessable
<1> QED
  BY <1>4, <1>5, RowsChanged

LEMMA RowsUpsert ==
    ASSUME Rows, NEW c \in Collectors, Upsert(c)
    PROVE  Rows' /\ Kept
<1>1. PICK v \in Versions : v = collector[c].ver
  BY DEF Rows, TypeOK, CollectorStates
<1>2. collector[c] \in CollectorStates /\ rows \in Nat
  BY DEF Rows, TypeOK
<1>3. UNCHANGED <<queue, source, object, stored, active, doc, lock, graph, parser, chunker, indexer,
                  admin, retry, taken, commands, faults, requeues>>
  BY DEF Upsert, SameCollector
<1> DEFINE s == IF QueueNeeded(v, ~Present(v)) THEN [collector[c] EXCEPT !.pc = "queueing"]
                                               ELSE IdleWorker
<1>4. /\ collector' = [collector EXCEPT ![c] = s]
      /\ s \in CollectorStates
      /\ s.pc = "queueing" => s.ver = v
  BY <1>1, <1>2, SourceAssumption DEF Upsert, CollectorStates, IdleWorker
<1> HIDE DEF s
<1>5. CASE Present(v)
  <2>1. UNCHANGED <<raw, rows>>
    BY <1>1, <1>5 DEF Upsert, Present
  <2>2. TypeOK'
    BY <1>3, <1>4, <2>1 DEF Rows, TypeOK
  <2>3. Change
    BY <1>2, <1>3, <1>5, <1>4, <2>1 DEF Rows, KnownRows, ParsingUnprocessed, TypeOK, Change,
       Present, Processable, StillProcessable
  <2> QED
    BY <2>2, <2>3, RowsChanged
<1>6. CASE ~Present(v)
  <2> DEFINE n == rows + 1
             r == [raw[v] EXCEPT !.status = "fetched", !.at = n]
  <2>1. rows' = n /\ raw' = [raw EXCEPT ![v] = r]
    BY <1>1, <1>6 DEF Upsert, Present
  <2>2. n \in Nat /\ n # 0 /\ n > rows
    BY <1>2
  <2>3. raw[v] \in RawRows
    BY <1>2 DEF Rows, TypeOK
  <2> HIDE DEF n
  <2>4. r \in RawRows /\ r.status = "fetched" /\ r.at = n
    BY <2>2, <2>3 DEF RawRows
  <2> HIDE DEF r
  <2>5. TypeOK'
    BY <1>2, <1>3, <1>4, <2>1, <2>4, <2>2 DEF Rows, TypeOK
  <2>6. /\ \A u \in Versions : u # v => raw'[u] = raw[u]
        /\ raw'[v].status = "fetched" /\ raw'[v].at = n
        /\ \A u \in Versions : Present(u) => Present(u)' /\ u # v
        /\ Present(v)'
    BY <1>2, <1>6, <2>1, <2>4 DEF Rows, TypeOK, Present
  <2>7. KnownRows'
    <3>1. \A v1 \in taken \cup admin.locked : v1 \in Versions
      BY DEF Rows, TypeOK, AdminStates
    <3>2. doc.raw # None => doc.raw \in Versions
      BY DEF Rows, TypeOK, Documents
    <3>3. /\ \A k \in Chunkers : chunker[k].ver \in Versions
          /\ \A g \in Indexers : indexer[g].ver \in Versions
          /\ \A d \in Collectors : collector[d].ver \in Versions
      BY DEF Rows, TypeOK, ChunkerStates, IndexerStates, CollectorStates
    <3>4. \A d \in Collectors : collector'[d].pc = "queueing" => Present(collector[d].ver)'
      <4> SUFFICES ASSUME NEW d \in Collectors, collector'[d].pc = "queueing"
                   PROVE  Present(collector[d].ver)'
        OBVIOUS
      <4>1. CASE d = c
        BY <4>1, <1>4, <2>6 DEF Rows, TypeOK, Present
      <4>2. CASE d # c
        BY <4>2, <1>4, <2>6, <3>3 DEF Rows, TypeOK, KnownRows, Present
      <4> QED
        BY <4>1, <4>2
    <3> QED
      BY <1>3, <2>6, <3>1, <3>2, <3>3, <3>4 DEF Rows, KnownRows
  <2>8. ParsingUnprocessed'
    BY <1>3, <2>6 DEF Rows, ParsingUnprocessed
  <2>9. RowsInOrder'
    BY <1>2, <2>1, <2>6, <2>2 DEF Rows, RowsInOrder, TypeOK, RawRows
  <2>10. Kept
    BY <1>3, <2>6 DEF Kept, StillProcessable, Processable, Present
  <2> QED
    BY <2>5, <2>7, <2>8, <2>9, <2>10 DEF Rows
<1> QED
  BY <1>5, <1>6

\* A queue row with another status, or as good as new.
LEMMA QueueType ==
    ASSUME TypeOK, NEW v \in Versions
    PROVE  /\ \A s \in {"pending", "parsed", "indexed", "failed", "held"} :
                 /\ QueueStatus(v, s) \in [Versions -> QueueRows]
                 /\ QueueUpdated(v, s) \in [Versions -> QueueRows]
           /\ [status |-> "pending", attempts |-> 0, live |-> FALSE] \in QueueRows
BY DEF TypeOK, QueueRows, QueueStatus, QueueUpdated

LEMMA RowsQueueCandidate ==
    ASSUME Rows, NEW c \in Collectors, QueueCandidate(c)
    PROVE  Rows' /\ Kept
<1>1. PICK v \in Versions : v = collector[c].ver
  BY DEF Rows, TypeOK, CollectorStates
<1>2. /\ collector[c].pc = "queueing"
      /\ queue' = [queue EXCEPT ![v] = [status |-> "pending", attempts |-> 0, live |-> FALSE]]
      /\ collector' = [collector EXCEPT ![c] = IdleWorker]
      /\ UNCHANGED <<raw, rows, faults, requeues, source, object, stored, active, doc, lock, graph,
                     parser, chunker, indexer, admin, retry, taken, commands>>
  BY <1>1 DEF QueueCandidate, SameCollector
<1>3. TypeOK'
  BY <1>2, QueueType, SourceAssumption DEF Rows, TypeOK, CollectorStates, IdleWorker
<1>4. Change
  BY <1>1, <1>2 DEF Rows, KnownRows, ParsingUnprocessed, TypeOK, IdleWorker,
     Change, Present, Processable, StillProcessable
<1> QED
  BY <1>3, <1>4, RowsChanged

LEMMA RowsCollectorStops ==
    ASSUME Rows, NEW c \in Collectors, CollectorStops(c)
    PROVE  Rows' /\ Kept
<1>1. /\ collector' = [collector EXCEPT ![c] = IdleWorker]
      /\ UNCHANGED <<raw, rows, queue, requeues, source, object, stored, active, doc, lock, graph,
                     parser, chunker, indexer, admin, retry, taken, commands>>
      /\ faults' \in Nat
  BY DEF CollectorStops, SameCollector, Charge, Rows, TypeOK
<1>2. TypeOK'
  BY <1>1, SourceAssumption DEF Rows, TypeOK, CollectorStates, IdleWorker
<1>3. Change
  BY <1>1 DEF Rows, KnownRows, ParsingUnprocessed, TypeOK, IdleWorker,
     Change, Present, Processable, StillProcessable
<1> QED
  BY <1>2, <1>3, RowsChanged

\* What the parser's steps leave as it is, and the state they put it into.
ParserFrame(p) ==
    /\ UNCHANGED <<source, rows, object, active, doc, lock, graph, collector, chunker, indexer,
                   admin, retry, taken, commands, requeues>>
    /\ \E s \in ParserStates : parser' = [parser EXCEPT ![p] = s]
    /\ faults' \in Nat

LEMMA ParserFrameKept ==
    ASSUME Rows, NEW p \in Parsers, ParserFrame(p), UNCHANGED <<raw, queue>>,
           stored' \in [Objects -> Texts \cup {None}]
    PROVE  Rows' /\ Kept
<1>1. TypeOK'
  BY DEF Rows, TypeOK, ParserFrame
<1>2. Change
  BY DEF Rows, KnownRows, ParsingUnprocessed, TypeOK, ParserFrame,
     Change, Present, Processable, StillProcessable
<1> QED
  BY <1>1, <1>2, RowsChanged

LEMMA IdleParserType == IdleParser \in ParserStates
BY SourceAssumption, ParserAssumption DEF IdleParser, ParserStates

LEMMA RowsDequeue ==
    ASSUME Rows, NEW p \in Parsers, NEW batch \in SUBSET Versions, Dequeue(p, batch)
    PROVE  Rows' /\ Kept
<1> DEFINE todo == [v \in Versions |-> IF v \in batch THEN queue[v].attempts + 1 ELSE 0]
           s == [parser[p] EXCEPT !.todo = todo]
<1>1. \A v \in Versions : queue[v] \in QueueRows /\ queue[v].attempts + 1 \in Nat
  BY DEF Rows, TypeOK, QueueRows
<1>2. s \in ParserStates
  <2>1. todo \in [Versions -> Nat]
    BY <1>1
  <2>2. parser[p] \in ParserStates
    BY DEF Rows, TypeOK
  <2> HIDE DEF todo
  <2> QED
    BY <2>1, <2>2 DEF ParserStates
<1>3. parser' = [parser EXCEPT ![p] = s]
  BY DEF Dequeue
<1> HIDE DEF s
<1>4. ParserFrame(p) /\ UNCHANGED <<raw, stored>>
  BY <1>2, <1>3 DEF ParserFrame, Dequeue, SameParser, Rows, TypeOK
<1>5. \A v \in Versions :
         queue'[v] = IF v \in batch THEN [status |-> "parsing", attempts |-> queue[v].attempts + 1,
                                          live |-> TRUE]
                     ELSE queue[v]
  BY DEF Dequeue
<1>6. queue' \in [Versions -> QueueRows]
  <2>1. \A n \in Nat : [status |-> "parsing", attempts |-> n, live |-> TRUE] \in QueueRows
    BY DEF QueueRows
  <2>2. \A v \in Versions : queue'[v] \in QueueRows
    BY <1>1, <1>5, <2>1
  <2>3. DOMAIN queue' = Versions /\ queue' = [v \in Versions |-> queue'[v]]
    BY DEF Dequeue
  <2> QED
    BY <2>2, <2>3
<1>7. TypeOK'
  BY <1>4, <1>6 DEF Rows, TypeOK, ParserFrame
<1>8. \A v \in batch : raw[v].status \in {"fetched", "failed"}
  BY DEF Dequeue, Dequeuable
<1>9. \A v \in Versions : /\ queue'[v].status # "absent" => Present(v)
                          /\ queue'[v].status = "parsing" => raw[v].status \in {"fetched", "failed"}
  BY <1>5, <1>8 DEF Rows, KnownRows, ParsingUnprocessed, Present
<1>10. Change
  BY <1>4, <1>9 DEF Rows, KnownRows, TypeOK, ParserFrame,
     Change, Present, Processable, StillProcessable
<1> QED
  BY <1>7, <1>10, RowsChanged

\* A text is one, and is not NULL.
LEMMA TextType ==
    \A v \in Versions, p \in ParserVersions : Text[v, p] \in Texts /\ Text[v, p] # None
BY TextAssumption DEF Texts

LEMMA RowsParserAlone ==
    ASSUME Rows, NEW p \in Parsers, Begin(p) \/ Put(p) \/ ParserStops(p)
    PROVE  Rows' /\ Kept
<1>1. CASE Begin(p)
  <2>1. ParserFrame(p)
    BY <1>1 DEF Begin, ParserFrame, SameParser, Rows, TypeOK, ParserStates
  <2> QED
    BY <1>1, <2>1, ParserFrameKept DEF Begin, Rows, TypeOK
<1>2. CASE Put(p)
  <2>1. ParserFrame(p)
    BY <1>2 DEF Put, ParserFrame, SameParser, Rows, TypeOK, ParserStates
  <2>2. stored' \in [Objects -> Texts \cup {None}]
    <3>1. parser[p].ver \in Versions /\ parser[p].pv \in ParserVersions
      BY DEF Rows, TypeOK, ParserStates
    <3>2. PICK t \in Texts : t = Text[parser[p].ver, parser[p].pv]
      BY <3>1, TextType
    <3>3. stored' = [stored EXCEPT ![object[parser[p].ver]] = t]
      BY <1>2, <3>2 DEF Put
    <3> QED
      BY <3>3 DEF Rows, TypeOK
  <2> QED
    BY <1>2, <2>1, <2>2, ParserFrameKept DEF Put
<1>3. CASE ParserStops(p)
  <2>1. faults' \in Nat
    BY <1>3 DEF ParserStops, Charge, Rows, TypeOK
  <2>2. ParserFrame(p)
    BY <1>3, <2>1, IdleParserType DEF ParserStops, ParserFrame, SameParser
  <2> QED
    BY <1>3, <2>2, ParserFrameKept DEF ParserStops, Rows, TypeOK
<1> QED
  BY <1>1, <1>2, <1>3

\* A parser that has lost its queue row changes no row.
LEMMA MarkLost ==
    ASSUME Rows, NEW p \in Parsers, NEW r, NEW status, Mark(p, r, status), ~Holds(p),
           UNCHANGED stored, SameParser, faults' \in Nat
    PROVE  Rows' /\ Kept
<1>1. parser' = [parser EXCEPT ![p] = IdleParser] /\ UNCHANGED <<raw, queue>>
  BY DEF Mark
<1>2. ParserFrame(p)
  BY <1>1, IdleParserType DEF ParserFrame, SameParser
<1> QED
  BY <1>1, <1>2, ParserFrameKept DEF Rows, TypeOK

\* What a parser records: only about what it still has, which is not processable.
LEMMA RowsMark ==
    ASSUME Rows, NEW p \in Parsers, NEW status \in {"parsed", "failed", "held"},
           NEW r \in RawRows, r.at = raw[parser[p].ver].at, r.status # "absent",
           Mark(p, r, status), Holds(p), UNCHANGED stored, SameParser, faults' \in Nat
    PROVE  Rows' /\ Kept
<1>1. PICK v \in Versions : v = parser[p].ver
  BY DEF Rows, TypeOK, ParserStates
<1>2. /\ queue' = QueueStatus(v, status)
      /\ raw' = [raw EXCEPT ![v] = r]
      /\ parser' = [parser EXCEPT ![p] = [IdleParser EXCEPT !.todo =
                       [parser[p].todo EXCEPT ![v] = 0]]]
  BY <1>1 DEF Mark
<1>3. ParserFrame(p)
  <2>1. [IdleParser EXCEPT !.todo = [parser[p].todo EXCEPT ![v] = 0]] \in ParserStates
    BY IdleParserType DEF Rows, TypeOK, ParserStates, IdleParser
  <2> QED
    BY <1>2, <2>1 DEF ParserFrame, SameParser
<1>4. raw[v].status \in {"fetched", "failed"}
  BY <1>1 DEF Holds, Rows, ParsingUnprocessed
<1>5. TypeOK'
  BY <1>2, <1>3, QueueType DEF Rows, TypeOK, ParserFrame
<1>6. \A u \in Versions : u # v => raw'[u] = raw[u] /\ queue'[u] = queue[u]
  BY <1>2 DEF Rows, TypeOK, QueueStatus
<1>7. raw'[v] = r /\ queue'[v].status = status
  BY <1>2 DEF Rows, TypeOK, QueueStatus, QueueRows
<1>8. \A u \in Versions :
         /\ raw'[u].at = raw[u].at
         /\ raw'[u].status = "absent" <=> raw[u].status = "absent"
         /\ Processable(u) => StillProcessable(u)'
         /\ queue'[u].status # "absent" => Present(u)
         /\ queue'[u].status = "parsing" => raw'[u].status \in {"fetched", "failed"}
  <2> TAKE u \in Versions
  <2>1. CASE u = v
    BY <2>1, <1>1, <1>4, <1>7 DEF Processable, Present
  <2>2. CASE u # v
    BY <2>2, <1>6 DEF Rows, KnownRows, ParsingUnprocessed, Processable, StillProcessable
  <2> QED
    BY <2>1, <2>2
<1>9. Change
  BY <1>3, <1>8 DEF Rows, KnownRows, TypeOK, ParserFrame, Change, Present
<1> QED
  BY <1>5, <1>9, RowsChanged

LEMMA RowsMarks ==
    ASSUME Rows, NEW p \in Parsers, MarkParsed(p) \/ MarkFailed(p) \/ MarkHeld(p)
    PROVE  Rows' /\ Kept
<1>1. PICK v \in Versions : v = parser[p].ver
  BY DEF Rows, TypeOK, ParserStates
<1>2. raw[v] \in RawRows /\ parser[p].pv \in ParserVersions /\ parser[p] \in ParserStates
  BY DEF Rows, TypeOK, ParserStates
<1>3. CASE MarkParsed(p)
  <2>1. UNCHANGED stored /\ SameParser /\ faults' \in Nat
    BY <1>3 DEF MarkParsed, Rows, TypeOK
  <2>2. CASE Holds(p)
    <3>1. raw[v].status # "absent"
      BY <1>1, <2>2 DEF Holds, Rows, ParsingUnprocessed
    <3>2. PICK r : r = ParsedRow(raw[v], p)
      OBVIOUS
    <3>3. r \in RawRows /\ r.at = raw[v].at /\ r.status # "absent"
      BY <1>2, <3>1, <3>2 DEF ParsedRow, RawRows
    <3>4. Mark(p, r, "parsed")
      BY <1>1, <1>3, <2>2, <3>2 DEF MarkParsed
    <3> QED
      BY <1>1, <2>1, <2>2, <3>3, <3>4, RowsMark
  <2>3. CASE ~Holds(p)
    <3>1. parser' = [parser EXCEPT ![p] = [parser[p] EXCEPT !.pc = "failing"]]
          /\ UNCHANGED <<raw, queue>>
      BY <1>3, <2>3 DEF MarkParsed
    <3>2. ParserFrame(p)
      BY <1>2, <2>1, <3>1 DEF ParserFrame, SameParser, ParserStates
    <3> QED
      BY <2>1, <3>1, <3>2, ParserFrameKept DEF Rows, TypeOK
  <2> QED
    BY <2>2, <2>3
<1>4. CASE MarkFailed(p)
  <2>1. UNCHANGED stored /\ SameParser
    BY <1>4 DEF MarkFailed
  <2>2. faults' \in Nat
    BY <1>4 DEF MarkFailed, Charge, Rows, TypeOK
  <2>3. PICK r : r = [raw[v] EXCEPT !.status = "failed", !.pv = parser[p].pv]
    OBVIOUS
  <2>4. Mark(p, r, "failed")
    BY <1>1, <1>4, <2>3 DEF MarkFailed
  <2>5. CASE Holds(p)
    <3>1. raw[v].status # "absent"
      BY <1>1, <2>5 DEF Holds, Rows, ParsingUnprocessed
    <3>2. r \in RawRows /\ r.at = raw[v].at /\ r.status # "absent"
      BY <1>2, <2>3, <3>1 DEF RawRows
    <3> QED
      BY <1>1, <2>1, <2>2, <2>4, <2>5, <3>2, RowsMark
  <2>6. CASE ~Holds(p)
    BY <2>1, <2>2, <2>4, <2>6, MarkLost
  <2> QED
    BY <2>5, <2>6
<1>5. CASE MarkHeld(p)
  <2>1. UNCHANGED stored /\ SameParser
    BY <1>5 DEF MarkHeld
  <2>2. faults' \in Nat
    BY <1>5 DEF MarkHeld, Charge, Rows, TypeOK
  <2>3. PICK pv \in {None, parser[p].pv} :
           Mark(p, [raw[v] EXCEPT !.status = "held", !.pv = pv], "held")
    BY <1>1, <1>5 DEF MarkHeld
  <2>4. PICK r : r = [raw[v] EXCEPT !.status = "held", !.pv = pv]
    OBVIOUS
  <2>5. Mark(p, r, "held")
    BY <2>3, <2>4
  <2>6. CASE Holds(p)
    <3>1. raw[v].status # "absent"
      BY <1>1, <2>6 DEF Holds, Rows, ParsingUnprocessed
    <3>2. r \in RawRows /\ r.at = raw[v].at /\ r.status # "absent"
      BY <1>2, <2>4, <3>1 DEF RawRows
    <3> QED
      BY <1>1, <2>1, <2>2, <2>5, <2>6, <3>2, RowsMark
  <2>7. CASE ~Holds(p)
    BY <2>1, <2>2, <2>5, <2>7, MarkLost
  <2> QED
    BY <2>6, <2>7
<1> QED
  BY <1>3, <1>4, <1>5

LEMMA RowsLeaseLapses ==
    ASSUME Rows, NEW v \in Versions, LeaseLapses(v)
    PROVE  Rows' /\ Kept
<1>1. /\ queue[v].status = "parsing"
      /\ queue' = [queue EXCEPT ![v].live = FALSE]
      /\ UNCHANGED <<raw, stored, parser, source, rows, object, active, doc, lock, graph, collector,
                     chunker, indexer, admin, retry, taken, commands, requeues>>
  BY DEF LeaseLapses, SameParser
<1>2. faults' \in Nat
  BY DEF LeaseLapses, Charge, Rows, TypeOK
<1>3. queue' \in [Versions -> QueueRows]
  BY <1>1 DEF Rows, TypeOK, QueueRows
<1>4. TypeOK'
  BY <1>1, <1>2, <1>3 DEF Rows, TypeOK
<1>5. \A u \in Versions : queue'[u].status = queue[u].status
  BY <1>1 DEF Rows, TypeOK, QueueRows
<1>6. Change
  BY <1>1, <1>5 DEF Rows, KnownRows, ParsingUnprocessed, TypeOK,
     Change, Present, Processable, StillProcessable
<1> QED
  BY <1>4, <1>6, RowsChanged

\* A version that has its row becomes indexed or failed with its queue row.
LEMMA RowStatus ==
    ASSUME Rows, NEW v \in Versions, Present(v), NEW s \in {"indexed", "failed"},
           raw' = [raw EXCEPT ![v].status = s], queue' = QueueUpdated(v, s),
           taken \subseteq taken', s = "failed" => v \in taken'
    PROVE  /\ raw' \in [Versions -> RawRows] /\ queue' \in [Versions -> QueueRows]
           /\ \A u \in Versions :
                 /\ raw'[u].at = raw[u].at
                 /\ raw'[u].status = "absent" <=> raw[u].status = "absent"
                 /\ Processable(u) => StillProcessable(u)'
                 /\ queue'[u].status # "absent" => Present(u)
                 /\ queue'[u].status = "parsing" => raw'[u].status \in {"fetched", "failed"}
<1>1. raw[v] \in RawRows
  BY DEF Rows, TypeOK
<1>2. [raw[v] EXCEPT !.status = s] \in RawRows
  BY <1>1 DEF RawRows, Present
<1>3. raw' \in [Versions -> RawRows]
  BY <1>2 DEF Rows, TypeOK
<1>4. queue' \in [Versions -> QueueRows]
  BY QueueType DEF Rows
<1>5. /\ raw'[v].at = raw[v].at /\ raw'[v].status = s /\ raw'[v].uri = raw[v].uri
      /\ \A u \in Versions : u # v => raw'[u] = raw[u]
  BY <1>1 DEF Rows, TypeOK, RawRows
<1>6. /\ queue'[v].status \in {"absent", s}
      /\ \A u \in Versions : u # v => queue'[u] = queue[u]
  BY DEF Rows, TypeOK, QueueUpdated, QueueStatus, QueueRows
<1>7. ASSUME NEW u \in Versions
      PROVE  /\ raw'[u].at = raw[u].at
             /\ raw'[u].status = "absent" <=> raw[u].status = "absent"
             /\ Processable(u) => StillProcessable(u)'
             /\ queue'[u].status # "absent" => Present(u)
             /\ queue'[u].status = "parsing" => raw'[u].status \in {"fetched", "failed"}
  <2>1. CASE u = v
    BY <2>1, <1>5, <1>6 DEF Processable, StillProcessable, Present
  <2>2. CASE u # v
    BY <2>2, <1>5, <1>6 DEF Rows, KnownRows, ParsingUnprocessed, Processable, StillProcessable
  <2> QED
    BY <2>1, <2>2
<1> QED
  BY <1>3, <1>4, <1>7

\* What a chunker's steps leave as it is, and the state they put it into.
ChunkerFrame(k) ==
    /\ UNCHANGED <<source, rows, object, stored, active, graph, collector, parser, indexer,
                   admin, retry, taken, commands, requeues>>
    /\ \E s \in ChunkerStates : /\ chunker' = [chunker EXCEPT ![k] = s]
                                /\ s.pc # "idle" => Present(s.ver)
    /\ doc' \in Documents /\ lock' \in Chunkers \cup {None} /\ faults' \in Nat
    /\ doc'.raw # None => Present(doc'.raw)

LEMMA ChunkerFrameKept ==
    ASSUME Rows, NEW k \in Chunkers, ChunkerFrame(k), UNCHANGED <<raw, queue>>
    PROVE  Rows' /\ Kept
<1>1. TypeOK'
  BY DEF Rows, TypeOK, ChunkerFrame
<1>2. Change
  BY DEF Rows, KnownRows, ParsingUnprocessed, TypeOK, ChunkerFrame,
     Change, Present, Processable, StillProcessable
<1> QED
  BY <1>1, <1>2, RowsChanged

LEMMA IdleChunkerType == IdleChunker \in ChunkerStates /\ IdleChunker.pc = "idle"
BY SourceAssumption DEF IdleChunker, ChunkerStates

LEMMA RowsReadTarget ==
    ASSUME Rows, NEW k \in Chunkers, ReadTarget(k)
    PROVE  Rows' /\ Kept
<1>1. PICK v \in Versions :
        /\ Latest(v) /\ stored[object[v]] # None
        /\ chunker' = [chunker EXCEPT ![k] = [pc |-> "read", ver |-> v,
                                              text |-> stored[object[v]], match |-> FALSE]]
  BY DEF ReadTarget
<1>2. object[v] \in Objects
  BY LayoutAssumption DEF Rows, TypeOK
<1>3. stored[object[v]] \in Texts
  BY <1>1, <1>2 DEF Rows, TypeOK
<1>4. \A t \in Texts : [pc |-> "read", ver |-> v, text |-> t, match |-> FALSE] \in ChunkerStates
  BY DEF ChunkerStates
<1>5. Present(v)
  BY <1>1 DEF Latest, Processable, Present
<1>6. UNCHANGED <<raw, queue, doc, lock, faults>> /\ SameChunker
  BY DEF ReadTarget
<1>7. ChunkerFrame(k)
  BY <1>1, <1>3, <1>4, <1>5, <1>6 DEF ChunkerFrame, SameChunker, Rows, TypeOK, KnownRows
<1> QED
  BY <1>6, <1>7, ChunkerFrameKept

LEMMA RowsChunkerAlone ==
    ASSUME Rows, NEW k \in Chunkers,
           UpsertDocument(k) \/ ListCurrentChunks(k) \/ Lock(k) \/ ChunkerStops(k)
    PROVE  Rows' /\ Kept
<1>1. chunker[k] \in ChunkerStates /\ (chunker[k].pc # "idle" => Present(chunker[k].ver))
  BY DEF Rows, TypeOK, KnownRows
<1>2. CASE UpsertDocument(k)
  <2>1. PICK s : s = [chunker[k] EXCEPT !.pc = "upserted"]
    OBVIOUS
  <2>2. s \in ChunkerStates /\ s.ver = chunker[k].ver
    BY <1>1, <2>1 DEF ChunkerStates
  <2>3. chunker[k].pc = "read" /\ chunker' = [chunker EXCEPT ![k] = s]
    BY <1>2, <2>1 DEF UpsertDocument
  <2>4. UNCHANGED <<raw, queue, lock, faults>> /\ SameChunker
    BY <1>2 DEF UpsertDocument
  <2>5. doc' \in Documents /\ (doc'.raw # None => Present(doc'.raw))
    BY <1>1, <1>2 DEF UpsertDocument, Rows, TypeOK, KnownRows, Documents, ChunkerStates
  <2>6. ChunkerFrame(k)
    BY <1>1, <2>2, <2>3, <2>4, <2>5 DEF ChunkerFrame, SameChunker, Rows, TypeOK
  <2> QED
    BY <2>4, <2>6, ChunkerFrameKept
<1>5. CASE ListCurrentChunks(k)
  <2>1. PICK b \in BOOLEAN : b = (doc.chunks = chunker[k].text)
    OBVIOUS
  <2>2. PICK s : s = [chunker[k] EXCEPT !.pc = "prepared", !.match = b]
    OBVIOUS
  <2>3. s \in ChunkerStates /\ s.ver = chunker[k].ver
    BY <1>1, <2>2 DEF ChunkerStates
  <2>4. chunker[k].pc = "upserted" /\ chunker' = [chunker EXCEPT ![k] = s]
    BY <1>5, <2>1, <2>2 DEF ListCurrentChunks
  <2>5. UNCHANGED <<raw, queue, doc, lock, faults>> /\ SameChunker
    BY <1>5 DEF ListCurrentChunks
  <2>6. ChunkerFrame(k)
    BY <1>1, <2>3, <2>4, <2>5 DEF ChunkerFrame, SameChunker, Rows, TypeOK, KnownRows
  <2> QED
    BY <2>5, <2>6, ChunkerFrameKept
<1>3. CASE Lock(k)
  <2>1. UNCHANGED <<raw, queue, doc, faults>> /\ SameChunker
    BY <1>3 DEF Lock
  <2>2. PICK s \in ChunkerStates : /\ chunker' = [chunker EXCEPT ![k] = s]
                                   /\ s.pc # "idle" => Present(s.ver)
    <3>1. [chunker[k] EXCEPT !.pc = "writing"] \in ChunkerStates
      BY <1>1 DEF ChunkerStates
    <3>2. [chunker[k] EXCEPT !.pc = "writing"].ver = chunker[k].ver
      BY <1>1 DEF ChunkerStates
    <3>3. chunker[k].pc # "idle"
      BY <1>3 DEF Lock
    <3> QED
      BY <1>1, <1>3, <3>1, <3>2, <3>3, IdleChunkerType DEF Lock
  <2>3. lock' \in Chunkers \cup {None}
    BY <1>3 DEF Lock, Rows, TypeOK
  <2>4. ChunkerFrame(k)
    BY <2>1, <2>2, <2>3 DEF ChunkerFrame, SameChunker, Rows, TypeOK, KnownRows
  <2> QED
    BY <2>1, <2>4, ChunkerFrameKept
<1>4. CASE ChunkerStops(k)
  <2>1. UNCHANGED <<raw, queue, doc>> /\ SameChunker
    BY <1>4 DEF ChunkerStops
  <2>2. lock' \in Chunkers \cup {None} /\ faults' \in Nat
    BY <1>4 DEF ChunkerStops, Charge, Rows, TypeOK
  <2>3. chunker' = [chunker EXCEPT ![k] = IdleChunker]
    BY <1>4 DEF ChunkerStops
  <2>4. ChunkerFrame(k)
    BY <2>1, <2>2, <2>3, IdleChunkerType DEF ChunkerFrame, SameChunker, Rows, TypeOK, KnownRows
  <2> QED
    BY <2>1, <2>4, ChunkerFrameKept
<1> QED
  BY <1>2, <1>3, <1>4, <1>5

LEMMA RowsCommit ==
    ASSUME Rows, NEW k \in Chunkers, Commit(k)
    PROVE  Rows' /\ Kept
<1>1. PICK v \in Versions : v = chunker[k].ver
  BY DEF Rows, TypeOK, ChunkerStates
<1>2. /\ chunker[k].pc = "writing"
      /\ doc' = [raw |-> v, chunks |-> NewChunks(k)]
      /\ raw' = [raw EXCEPT ![v].status = "indexed"]
      /\ queue' = QueueUpdated(v, "indexed")
      /\ lock' = None
      /\ chunker' = [chunker EXCEPT ![k] = IdleChunker]
      /\ UNCHANGED faults /\ SameChunker
  BY <1>1 DEF Commit
<1>3. Present(v)
  BY <1>1, <1>2 DEF Rows, KnownRows
<1>4. NewChunks(k) \in Texts \cup {None}
  BY DEF NewChunks, Rows, TypeOK, Documents, ChunkerStates
<1>5. doc' \in Documents /\ doc'.raw = v
  BY <1>2, <1>4 DEF Documents
<1>6. ChunkerFrame(k)
  BY <1>2, <1>3, <1>5, IdleChunkerType DEF ChunkerFrame, SameChunker, Rows, TypeOK
<1>7. taken' = taken
  BY <1>2 DEF SameChunker
<1>8. /\ raw' \in [Versions -> RawRows] /\ queue' \in [Versions -> QueueRows]
      /\ \A u \in Versions :
            /\ raw'[u].at = raw[u].at
            /\ raw'[u].status = "absent" <=> raw[u].status = "absent"
            /\ Processable(u) => StillProcessable(u)'
            /\ queue'[u].status # "absent" => Present(u)
            /\ queue'[u].status = "parsing" => raw'[u].status \in {"fetched", "failed"}
  BY <1>2, <1>3, <1>7, RowStatus
<1>9. TypeOK'
  BY <1>6, <1>8 DEF Rows, TypeOK, ChunkerFrame
<1>10. Change
  BY <1>6, <1>8 DEF Rows, KnownRows, TypeOK, ChunkerFrame, Change, Present
<1> QED
  BY <1>9, <1>10, RowsChanged

LEMMA RowsIndexer ==
    ASSUME Rows, NEW g \in Indexers, IndexerStep(g)
    PROVE  Rows' /\ Kept
<1> DEFINE Frame == /\ SameIndexer /\ faults' \in Nat /\ taken' \subseteq Versions
                    /\ graph' \in Versions \cup {None}
                    /\ \E s \in IndexerStates : /\ indexer' = [indexer EXCEPT ![g] = s]
                                                /\ s.pc # "idle" => Present(s.ver)
<1>1. IdleWorker \in IndexerStates /\ IdleWorker.pc = "idle"
  BY SourceAssumption DEF IndexerStates, IdleWorker
<1>2. PICK v \in Versions : v = indexer[g].ver
  BY DEF Rows, TypeOK, IndexerStates
<1>3. indexer[g].pc # "idle" => Present(v)
  BY <1>2 DEF Rows, KnownRows
<1>4. ASSUME Frame, UNCHANGED <<raw, queue, taken>> PROVE Rows' /\ Kept
  <2>1. TypeOK'
    BY <1>4 DEF Rows, TypeOK, SameIndexer
  <2>2. Change
    BY <1>4 DEF Rows, KnownRows, ParsingUnprocessed, TypeOK, SameIndexer,
       Change, Present, Processable, StillProcessable
  <2> QED
    BY <2>1, <2>2, RowsChanged
<1>5. ASSUME Frame, Present(v), NEW s \in {"indexed", "failed"},
             raw' = [raw EXCEPT ![v].status = s], queue' = QueueUpdated(v, s),
             taken' = taken \cup (IF s = "failed" THEN {v} ELSE {})
      PROVE  Rows' /\ Kept
  <2>1. /\ raw' \in [Versions -> RawRows] /\ queue' \in [Versions -> QueueRows]
        /\ \A u \in Versions :
              /\ raw'[u].at = raw[u].at
              /\ raw'[u].status = "absent" <=> raw[u].status = "absent"
              /\ Processable(u) => StillProcessable(u)'
              /\ queue'[u].status # "absent" => Present(u)
              /\ queue'[u].status = "parsing" => raw'[u].status \in {"fetched", "failed"}
    BY <1>5, RowStatus
  <2>2. TypeOK'
    BY <1>5, <2>1 DEF Rows, TypeOK, SameIndexer
  <2>3. \A u \in taken' \cup admin.locked : Present(u)
    BY <1>5 DEF Rows, KnownRows
  <2>4. Change
    BY <1>5, <2>1, <2>3 DEF Rows, KnownRows, TypeOK, SameIndexer, Change, Present
  <2> QED
    BY <2>2, <2>4, RowsChanged
<1>6. CASE ReadGraphTarget(g)
  <2>1. doc.raw \in Versions /\ Present(doc.raw)
    BY <1>6 DEF ReadGraphTarget, Rows, KnownRows, TypeOK, Documents
  <2>2. [pc |-> "indexing", ver |-> doc.raw] \in IndexerStates
    BY <2>1 DEF IndexerStates
  <2>3. Frame /\ UNCHANGED <<raw, queue, taken>>
    BY <1>6, <2>1, <2>2 DEF ReadGraphTarget, Rows, TypeOK
  <2> QED
    BY <1>4, <2>3
<1>7. CASE StoreGraph(g)
  <2>1. Frame /\ taken' = taken
    BY <1>1, <1>2, <1>7 DEF StoreGraph, Rows, TypeOK
  <2> QED
    BY <1>2, <1>3, <1>5, <1>7, <2>1 DEF StoreGraph
<1>8. CASE GraphFails(g)
  <2>1. faults' \in Nat
    BY <1>8 DEF GraphFails, Charge, Rows, TypeOK
  <2>2. Frame /\ taken' = taken \cup {v}
    BY <1>1, <1>2, <1>8, <2>1 DEF GraphFails, Rows, TypeOK
  <2> QED
    BY <1>2, <1>3, <1>5, <1>8, <2>2 DEF GraphFails
<1>9. CASE IndexerStops(g)
  <2>1. faults' \in Nat
    BY <1>9 DEF IndexerStops, Charge, Rows, TypeOK
  <2>2. Frame /\ UNCHANGED <<raw, queue, taken>>
    BY <1>1, <1>9, <2>1 DEF IndexerStops, Rows, TypeOK
  <2> QED
    BY <1>4, <2>2
<1> QED
  BY <1>6, <1>7, <1>8, <1>9 DEF IndexerStep

\* What operators leave as it is.
OperatorFrame == /\ SameOperator /\ commands' \in Nat
                 /\ active' \in ParserVersions /\ admin' \in AdminStates
                 /\ retry' \in RetryStates
                 /\ \A v \in Versions : retry'[v] # "none" => Present(v)
                 /\ taken' \subseteq Versions /\ taken \subseteq taken'
                 /\ \A v \in taken' \cup admin'.locked : Present(v)

LEMMA OperatorRows ==
    ASSUME Rows, OperatorFrame,
           raw' \in [Versions -> RawRows], queue' \in [Versions -> QueueRows],
           \A v \in Versions :
              /\ raw'[v].at = raw[v].at
              /\ raw'[v].status = "absent" <=> raw[v].status = "absent"
              /\ Processable(v) => StillProcessable(v)'
              /\ queue'[v].status # "absent" => Present(v)
              /\ queue'[v].status = "parsing" => raw'[v].status \in {"fetched", "failed"}
    PROVE  Rows' /\ Kept
<1>1. TypeOK'
  BY DEF Rows, TypeOK, OperatorFrame, SameOperator
<1>2. Change
  BY DEF Rows, KnownRows, TypeOK, OperatorFrame, SameOperator, Change, Present
<1> QED
  BY <1>1, <1>2, RowsChanged

LEMMA RowsRetrySelects ==
    ASSUME Rows, RetrySelects
    PROVE  Rows' /\ Kept
<1>1. commands' \in Nat
  BY DEF RetrySelects, Command, Rows, TypeOK
<1>2. UNCHANGED <<raw, queue, active, admin, taken>> /\ SameOperator
  BY DEF RetrySelects
<1>3. retry' = [v \in Versions |-> IF Resettable(v) THEN RetryStatus(v) ELSE "none"]
  BY DEF RetrySelects
<1>4. \A v \in Versions : Resettable(v) => Present(v)
  BY DEF Resettable, Present
<1>5. retry' \in RetryStates /\ \A v \in Versions : retry'[v] # "none" => Present(v)
  BY <1>3, <1>4 DEF RetryStates, RetryStatus
<1>6. OperatorFrame
  BY <1>1, <1>2, <1>5 DEF OperatorFrame, Rows, TypeOK, KnownRows
<1> QED
  BY <1>2, <1>6, OperatorRows
     DEF Rows, TypeOK, KnownRows, ParsingUnprocessed, Processable, StillProcessable

\* What the retry does to a row it has selected, and that it leaves the others.
LEMMA RetriedRow ==
    ASSUME Rows, RetryUpdates, NEW v \in Versions
    PROVE  /\ v \in Retried =>
                 /\ raw'[v] \in RawRows /\ queue'[v] \in QueueRows
                 /\ raw'[v].at = raw[v].at /\ raw'[v].uri = raw[v].uri
                 /\ raw[v].status # "absent" /\ retry[v] \in {"fetched", "parsed"}
                 /\ raw'[v].status = retry[v] /\ queue'[v].status = "pending"
           /\ v \notin Retried => raw'[v] = raw[v] /\ queue'[v] = queue[v]
<1>1. /\ raw'[v] = IF v \in Retried THEN [raw[v] EXCEPT !.status = retry[v]] ELSE raw[v]
      /\ queue'[v] = IF v \in Retried THEN [queue[v] EXCEPT !.status = "pending", !.live = FALSE]
                                       ELSE queue[v]
  BY DEF RetryUpdates
<1>2. raw[v] \in RawRows /\ queue[v] \in QueueRows /\ retry[v] \in {"none", "fetched", "parsed"}
  BY DEF Rows, TypeOK, RetryStates
<1>3. v \in Retried <=> retry[v] # "none"
  BY DEF Retried
<1>4. ASSUME v \in Retried
      PROVE  /\ raw'[v] \in RawRows /\ raw'[v].at = raw[v].at /\ raw'[v].uri = raw[v].uri
             /\ raw[v].status # "absent" /\ raw'[v].status = retry[v]
  <2>1. raw[v].status # "absent" /\ retry[v] \in {"fetched", "parsed"}
    BY <1>2, <1>3, <1>4 DEF Rows, KnownRows, Present
  <2>2. raw'[v] = [raw[v] EXCEPT !.status = retry[v]]
    BY <1>1, <1>4
  <2> QED
    BY <1>2, <2>1, <2>2 DEF RawRows
<1>5. ASSUME v \in Retried PROVE queue'[v] \in QueueRows /\ queue'[v].status = "pending"
  <2>1. queue'[v] = [queue[v] EXCEPT !.status = "pending", !.live = FALSE]
    BY <1>1, <1>5
  <2> QED
    BY <1>2, <2>1 DEF QueueRows
<1> QED
  BY <1>1, <1>2, <1>3, <1>4, <1>5

LEMMA RowsRetryUpdates ==
    ASSUME Rows, RetryUpdates
    PROVE  Rows' /\ Kept
<1>1. /\ taken' = taken \cup {v \in Retried : Processable(v) /\ retry[v] = "fetched"}
      /\ retry' = NoRetry /\ UNCHANGED <<active, admin, commands>> /\ SameOperator
  BY DEF RetryUpdates
<1>2. Retried \subseteq Versions /\ \A v \in Retried : Present(v)
  BY DEF Retried, Rows, KnownRows
<1>3. retry' \in RetryStates /\ \A v \in Versions : retry'[v] = "none"
  BY <1>1 DEF NoRetry, RetryStates
<1>4. OperatorFrame
  BY <1>1, <1>2, <1>3 DEF OperatorFrame, Rows, TypeOK, KnownRows
<1>5. raw' \in [Versions -> RawRows] /\ queue' \in [Versions -> QueueRows]
  <2>1. \A v \in Versions : raw'[v] \in RawRows /\ queue'[v] \in QueueRows
    BY RetriedRow DEF Rows, TypeOK
  <2>2. raw' = [v \in Versions |-> raw'[v]] /\ queue' = [v \in Versions |-> queue'[v]]
    BY DEF RetryUpdates
  <2> QED
    BY <2>1, <2>2
<1>6. ASSUME NEW v \in Versions
      PROVE  /\ raw'[v].at = raw[v].at
             /\ raw'[v].status = "absent" <=> raw[v].status = "absent"
             /\ Processable(v) => StillProcessable(v)'
             /\ queue'[v].status # "absent" => Present(v)
             /\ queue'[v].status = "parsing" => raw'[v].status \in {"fetched", "failed"}
  <2>1. CASE v \in Retried
    <3>1. Processable(v) => StillProcessable(v)'
      BY <1>1, <2>1, RetriedRow DEF Processable, StillProcessable
    <3> QED
      BY <2>1, <3>1, RetriedRow DEF Present
  <2>2. CASE v \notin Retried
    BY <1>1, <2>2, RetriedRow
       DEF Rows, KnownRows, ParsingUnprocessed, Processable, StillProcessable
  <2> QED
    BY <2>1, <2>2
<1> QED
  BY <1>4, <1>5, <1>6, OperatorRows

LEMMA RowsAdminRetries ==
    ASSUME Rows, AdminRetries
    PROVE  Rows' /\ Kept
<1>1. commands' \in Nat
  BY DEF AdminRetries, Command, Rows, TypeOK
<1>2. admin' = [busy |-> TRUE, locked |-> {v \in Versions : queue[v].status \in {"failed", "held"}}]
  BY DEF AdminRetries
<1>3. admin' \in AdminStates /\ \A v \in admin'.locked : Present(v)
  BY <1>2 DEF AdminStates, Rows, KnownRows
<1>4. UNCHANGED <<raw, queue, active, retry, taken>> /\ SameOperator
  BY DEF AdminRetries
<1>5. OperatorFrame
  BY <1>1, <1>3, <1>4 DEF OperatorFrame, Rows, TypeOK, KnownRows
<1> QED
  BY <1>4, <1>5, OperatorRows
     DEF Rows, TypeOK, KnownRows, ParsingUnprocessed, Processable, StillProcessable

LEMMA RowsAdminCommits ==
    ASSUME Rows, AdminCommits
    PROVE  Rows' /\ Kept
<1>1. /\ raw' = [v \in Versions |->
                   IF v \in admin.locked THEN [raw[v] EXCEPT !.status = "fetched"] ELSE raw[v]]
      /\ queue' = [v \in Versions |->
                     IF queue[v].status \in {"failed", "held"}
                     THEN [status |-> "pending", attempts |-> 0, live |-> FALSE] ELSE queue[v]]
      /\ taken' = taken \cup {v \in admin.locked : Processable(v)}
      /\ admin' = [busy |-> FALSE, locked |-> {}]
      /\ UNCHANGED <<active, retry, commands>> /\ SameOperator
  BY DEF AdminCommits
<1>2. admin.locked \subseteq Versions /\ \A v \in admin.locked : Present(v)
  BY DEF Rows, TypeOK, KnownRows, AdminStates
<1>3. OperatorFrame
  BY <1>1, <1>2 DEF OperatorFrame, Rows, TypeOK, KnownRows, AdminStates
<1>4. ASSUME NEW v \in Versions
      PROVE  /\ raw'[v] \in RawRows /\ raw'[v].at = raw[v].at
             /\ raw'[v].status = "absent" <=> raw[v].status = "absent"
             /\ Processable(v) => StillProcessable(v)'
             /\ raw'[v].status # "fetched" => raw'[v] = raw[v]
  <2>1. raw[v] \in RawRows
    BY DEF Rows, TypeOK
  <2>2. CASE v \in admin.locked
    <3>1. raw'[v] = [raw[v] EXCEPT !.status = "fetched"]
      BY <2>2, <1>1
    <3> QED
      BY <2>1, <2>2, <3>1, <1>1, <1>2 DEF RawRows, Present, StillProcessable
  <2>3. CASE v \notin admin.locked
    BY <2>1, <2>3, <1>1 DEF Processable, StillProcessable
  <2> QED
    BY <2>2, <2>3
<1>5. ASSUME NEW v \in Versions
      PROVE  /\ queue'[v] \in QueueRows
             /\ queue'[v].status # "absent" => Present(v)
             /\ queue'[v].status = "parsing" => queue'[v] = queue[v]
  BY <1>1, QueueType DEF Rows, TypeOK, KnownRows
<1>6. raw' \in [Versions -> RawRows] /\ queue' \in [Versions -> QueueRows]
  <2>1. raw' = [v \in Versions |-> raw'[v]] /\ queue' = [v \in Versions |-> queue'[v]]
    BY <1>1
  <2> QED
    BY <2>1, <1>4, <1>5
<1>7. \A v \in Versions : queue'[v].status = "parsing" => raw'[v].status \in {"fetched", "failed"}
  BY <1>4, <1>5 DEF Rows, ParsingUnprocessed
<1> QED
  BY <1>3, <1>4, <1>5, <1>6, <1>7, OperatorRows

LEMMA RowsPromote ==
    ASSUME Rows, Promote
    PROVE  Rows' /\ Kept
<1>1. commands' \in Nat
  BY DEF Promote, Command, Rows, TypeOK
<1>2. UNCHANGED <<raw, queue, admin, retry, taken>> /\ SameOperator /\ active' \in ParserVersions
  BY DEF Promote
<1>3. OperatorFrame
  BY <1>1, <1>2 DEF OperatorFrame, Rows, TypeOK, KnownRows
<1> QED
  BY <1>2, <1>3, OperatorRows
     DEF Rows, TypeOK, KnownRows, ParsingUnprocessed, Processable, StillProcessable

LEMMA RowsReprocess ==
    ASSUME Rows, Reprocess
    PROVE  Rows' /\ Kept
<1>1. commands' \in Nat
  BY DEF Reprocess, Command, Rows, TypeOK
<1>2. PICK v \in Versions :
        /\ Outdated(v)
        /\ raw' = [raw EXCEPT ![v] = [raw[v] EXCEPT !.status = "fetched", !.uri = FALSE, !.pv = None]]
        /\ queue' = QueueStatus(v, "pending")
        /\ taken' = taken \cup {v}
  BY DEF Reprocess
<1>3. UNCHANGED <<active, admin, retry>> /\ SameOperator
  BY DEF Reprocess
<1>4. Present(v) /\ queue[v].status # "absent"
  BY <1>2 DEF Outdated, Present
<1>5. OperatorFrame
  <2>1. taken' = taken \cup {v}
    BY <1>2
  <2>2. /\ active \in ParserVersions /\ admin \in AdminStates /\ retry \in RetryStates
        /\ taken \subseteq Versions
    BY DEF Rows, TypeOK
  <2>3. /\ \A u \in taken \cup admin.locked : Present(u)
        /\ \A u \in Versions : retry[u] # "none" => Present(u)
    BY DEF Rows, KnownRows
  <2>4. taken' \subseteq Versions /\ taken \subseteq taken'
    BY <2>1, <2>2
  <2>5. \A u \in taken' \cup admin'.locked : Present(u)
    BY <1>3, <1>4, <2>1, <2>3
  <2>6. \A u \in Versions : retry'[u] # "none" => Present(u)
    BY <1>3, <2>3
  <2> QED
    BY <1>1, <1>3, <2>2, <2>4, <2>5, <2>6 DEF OperatorFrame
<1>6. [raw[v] EXCEPT !.status = "fetched", !.uri = FALSE, !.pv = None] \in RawRows
  <2>1. raw[v] \in RawRows
    BY DEF Rows, TypeOK
  <2>2. raw[v].status # "absent"
    BY <1>4 DEF Present
  <2> QED
    BY <2>1, <2>2 DEF RawRows
<1>7. raw' \in [Versions -> RawRows] /\ queue' \in [Versions -> QueueRows]
  BY <1>2, <1>6, QueueType DEF Rows, TypeOK
<1>8. /\ raw'[v].at = raw[v].at /\ raw'[v].status = "fetched"
      /\ \A u \in Versions : u # v => raw'[u] = raw[u]
  BY <1>2 DEF Rows, TypeOK, RawRows
<1>9. queue'[v].status = "pending" /\ \A u \in Versions : u # v => queue'[u] = queue[u]
  BY <1>2 DEF Rows, TypeOK, QueueStatus, QueueRows
<1>10. ASSUME NEW u \in Versions
       PROVE  /\ raw'[u].at = raw[u].at
              /\ raw'[u].status = "absent" <=> raw[u].status = "absent"
              /\ Processable(u) => StillProcessable(u)'
              /\ queue'[u].status # "absent" => Present(u)
              /\ queue'[u].status = "parsing" => raw'[u].status \in {"fetched", "failed"}
  <2>1. CASE u = v
    BY <2>1, <1>2, <1>4, <1>8, <1>9 DEF Present, StillProcessable
  <2>2. CASE u # v
    BY <2>2, <1>8, <1>9 DEF Rows, KnownRows, ParsingUnprocessed, Processable, StillProcessable,
       OperatorFrame
  <2> QED
    BY <2>1, <2>2
<1> QED
  BY <1>5, <1>7, <1>10, OperatorRows

LEMMA RowsAlone ==
    ASSUME Rows, SourceChanges \/ UNCHANGED vars
    PROVE  Rows' /\ Kept
<1>1. UNCHANGED <<store, object, stored, active, lock, procs, taken, faults, commands, requeues>>
  BY DEF SourceChanges, vars
<1>2. source' \in Versions
  BY DEF SourceChanges, vars, Rows, TypeOK
<1>3. TypeOK'
  BY <1>1, <1>2 DEF Rows, TypeOK, store, procs
<1>4. Change
  BY <1>1 DEF Rows, KnownRows, ParsingUnprocessed, TypeOK, store, procs,
     Change, Present, Processable, StillProcessable
<1> QED
  BY <1>3, <1>4, RowsChanged

LEMMA RowsStep == Rows /\ [Next]_vars => Rows' /\ Kept
<1> SUFFICES ASSUME Rows, [Next]_vars PROVE Rows' /\ Kept
  OBVIOUS
<1>1. ASSUME NEW c \in Collectors, CollectorStep(c) PROVE Rows' /\ Kept
  BY <1>1, RowsScan, RowsUpsert, RowsQueueCandidate, RowsCollectorStops DEF CollectorStep
<1>2. ASSUME NEW p \in Parsers, ParserStep(p) PROVE Rows' /\ Kept
  BY <1>2, RowsDequeue, RowsParserAlone, RowsMarks DEF ParserStep
<1>3. ASSUME NEW v \in Versions, LeaseLapses(v) PROVE Rows' /\ Kept
  BY <1>3, RowsLeaseLapses
<1>4. ASSUME NEW k \in Chunkers, ChunkerStep(k) PROVE Rows' /\ Kept
  BY <1>4, RowsReadTarget, RowsChunkerAlone, RowsCommit DEF ChunkerStep
<1>5. ASSUME NEW g \in Indexers, IndexerStep(g) PROVE Rows' /\ Kept
  BY <1>5, RowsIndexer
<1>6. CASE OperatorStep
  BY <1>6, RowsRetrySelects, RowsRetryUpdates, RowsAdminRetries, RowsAdminCommits,
     RowsPromote, RowsReprocess
     DEF OperatorStep
<1>7. CASE SourceChanges \/ UNCHANGED vars
  BY <1>7, RowsAlone
<1> QED
  BY <1>1, <1>2, <1>3, <1>4, <1>5, <1>6, <1>7 DEF Next

\* Every reachable state has the declared shape.
THEOREM TypeCorrect == Spec => []TypeOK
<1>1. Rows => TypeOK
  BY DEF Rows
<1>2. Rows /\ [Next]_vars => Rows'
  BY RowsStep
<1> QED
  BY <1>1, <1>2, RowsInit, PTL DEF Spec

-----------------------------------------------------------------------------
(* Artifacts. *)

LEMMA ArtifactInit == Init => ArtifactFirst
BY DEF Init, ArtifactFirst, ProcessableHasArtifact, IdleParser

\* parsed_uri is set for what is stored only, and nothing stored is removed.
UriStep ==
    /\ \A v \in Versions : raw'[v].uri => raw[v].uri \/ stored[object[v]] # None
    /\ \A o \in Objects : stored[o] # None => stored'[o] # None
    /\ \A p \in Parsers : parser'[p].pc = "stored" =>
          \/ parser'[p] = parser[p]
          \/ stored'[object[parser'[p].ver]] # None

LEMMA UriStepKept ==
    ASSUME Rows, Rows', Kept, ArtifactFirst, UriStep
    PROVE  ArtifactFirst'
<1>1. object' = object /\ \A v \in Versions : object[v] \in Objects
  BY LayoutAssumption DEF Kept, Rows, TypeOK
<1>2. \A p \in Parsers : parser[p].ver \in Versions
  BY DEF Rows, TypeOK, ParserStates
<1> QED
  BY <1>1, <1>2 DEF ArtifactFirst, ProcessableHasArtifact, UriStep

LEMMA UriOfParser ==
    ASSUME Rows, ArtifactFirst, NEW p \in Parsers, ParserStep(p)
    PROVE  UriStep
<1>1. PICK v \in Versions : v = parser[p].ver
  BY DEF Rows, TypeOK, ParserStates
<1>2. parser[p] \in ParserStates /\ raw[v] \in RawRows
  BY DEF Rows, TypeOK
<1>3. CASE \/ \E batch \in SUBSET Versions : Dequeue(p, batch)
           \/ Begin(p) \/ ParserStops(p)
  <2>1. UNCHANGED <<raw, stored>>
    BY <1>3 DEF Dequeue, Begin, ParserStops
  <2>2. parser \in [Parsers -> ParserStates]
    BY DEF Rows, TypeOK
  <2>3. PICK s : parser' = [parser EXCEPT ![p] = s] /\ s.pc # "stored"
    <3>1. CASE \E batch \in SUBSET Versions : Dequeue(p, batch)
      <4>1. PICK t : parser' = [parser EXCEPT ![p] = [parser[p] EXCEPT !.todo = t]]
        BY <3>1 DEF Dequeue
      <4>2. [parser[p] EXCEPT !.todo = t].pc = "idle"
        BY <1>2, <3>1 DEF ParserStates, Dequeue
      <4> QED
        BY <4>1, <4>2
    <3>2. CASE Begin(p)
      <4>1. PICK w \in Versions :
               parser' = [parser EXCEPT ![p] = [parser[p] EXCEPT !.pc = "working", !.ver = w,
                                                                 !.pv = active]]
        BY <3>2 DEF Begin
      <4>2. [parser[p] EXCEPT !.pc = "working", !.ver = w, !.pv = active].pc = "working"
        BY <1>2 DEF ParserStates
      <4> QED
        BY <4>1, <4>2
    <3>3. CASE ParserStops(p)
      <4>1. parser' = [parser EXCEPT ![p] = IdleParser]
        BY <3>3 DEF ParserStops
      <4>2. IdleParser.pc # "stored"
        BY DEF IdleParser
      <4> QED
        BY <4>1, <4>2
    <3> QED
      BY <1>3, <3>1, <3>2, <3>3
  <2>4. \A q \in Parsers : q # p => parser'[q] = parser[q]
    BY <2>2, <2>3
  <2>5. parser'[p] = s
    BY <2>2, <2>3
  <2>6. ASSUME NEW q \in Parsers, parser'[q].pc = "stored" PROVE parser'[q] = parser[q]
    BY <2>3, <2>4, <2>5, <2>6
  <2> QED
    BY <2>1, <2>6 DEF UriStep
<1>4. CASE Put(p)
  <2>1. PICK t : t = Text[v, parser[p].pv]
    OBVIOUS
  <2>2. t # None
    BY <1>2, <2>1, TextType DEF ParserStates
  <2>4. /\ stored' = [stored EXCEPT ![object[v]] = t]
        /\ parser' = [parser EXCEPT ![p].pc = "stored"]
        /\ raw' = raw
    BY <1>1, <1>4, <2>1 DEF Put
  <2>5. object[v] \in Objects
    BY LayoutAssumption DEF Rows, TypeOK
  <2>3. parser'[p].ver = v /\ \A q \in Parsers : q # p => parser'[q] = parser[q]
    BY <1>1, <1>2, <2>4 DEF Rows, TypeOK, ParserStates
  <2> QED
    BY <2>2, <2>3, <2>4, <2>5 DEF UriStep, Rows, TypeOK
<1>5. ASSUME NEW r, NEW s, Mark(p, r, s), stored' = stored,
             r.uri => raw[v].uri \/ stored[object[v]] # None
      PROVE  UriStep
  <2>1. CASE Holds(p)
    <3>1. raw' = [raw EXCEPT ![v] = r]
      BY <1>1, <1>5, <2>1 DEF Mark
    <3>2. parser' = [parser EXCEPT ![p] = [IdleParser EXCEPT !.todo =
                        [parser[p].todo EXCEPT ![v] = 0]]]
      BY <1>1, <1>5, <2>1 DEF Mark
    <3>3. \A q \in Parsers : parser'[q].pc = "stored" => parser'[q] = parser[q]
      BY <3>2 DEF Rows, TypeOK, IdleParser
    <3> QED
      BY <1>5, <3>1, <3>3 DEF UriStep, Rows, TypeOK
  <2>2. CASE ~Holds(p)
    <3>1. parser' = [parser EXCEPT ![p] = IdleParser] /\ UNCHANGED <<raw, queue>>
      BY <1>5, <2>2 DEF Mark
    <3> QED
      BY <1>5, <3>1 DEF UriStep, Rows, TypeOK, IdleParser
  <2> QED
    BY <2>1, <2>2
<1>6. CASE MarkParsed(p)
  <2>1. stored[object[v]] # None
    BY <1>1, <1>6 DEF MarkParsed, ArtifactFirst
  <2>2. CASE Holds(p)
    BY <1>5, <1>6, <2>1, <2>2 DEF MarkParsed
  <2>3. CASE ~Holds(p)
    BY <1>6, <2>3 DEF MarkParsed, UriStep, Rows, TypeOK, ParserStates
  <2> QED
    BY <2>2, <2>3
<1>7. CASE MarkFailed(p)
  <2>1. PICK r : r = [raw[v] EXCEPT !.status = "failed", !.pv = parser[p].pv]
    OBVIOUS
  <2>2. r.uri = raw[v].uri
    BY <1>2, <2>1 DEF RawRows
  <2>3. Mark(p, r, "failed") /\ stored' = stored
    BY <1>1, <1>7, <2>1 DEF MarkFailed
  <2> QED
    BY <1>5, <2>2, <2>3
<1>8. CASE MarkHeld(p)
  <2>1. PICK pv \in {None, parser[p].pv} :
           Mark(p, [raw[v] EXCEPT !.status = "held", !.pv = pv], "held")
    BY <1>1, <1>8 DEF MarkHeld
  <2>2. PICK r : r = [raw[v] EXCEPT !.status = "held", !.pv = pv]
    OBVIOUS
  <2>3. r.uri = raw[v].uri
    BY <1>2, <2>2 DEF RawRows
  <2>4. Mark(p, r, "held") /\ stored' = stored
    BY <1>8, <2>1, <2>2 DEF MarkHeld
  <2> QED
    BY <1>5, <2>3, <2>4
<1> QED
  BY <1>3, <1>4, <1>6, <1>7, <1>8 DEF ParserStep

LEMMA ArtifactStep == Rows /\ ArtifactFirst /\ [Next]_vars => ArtifactFirst'
<1> SUFFICES ASSUME Rows, ArtifactFirst, [Next]_vars PROVE ArtifactFirst'
  OBVIOUS
<1>1. Rows' /\ Kept
  BY RowsStep
<1>2. ASSUME \A v \in Versions : raw'[v].uri => raw[v].uri, UNCHANGED <<stored, parser>>
      PROVE  UriStep
  BY <1>2 DEF UriStep
<1>3. \A v \in Versions : raw[v] \in RawRows
  BY DEF Rows, TypeOK
<1>4. ASSUME NEW c \in Collectors, CollectorStep(c) PROVE UriStep
  <2>1. UNCHANGED <<stored, parser>>
    BY <1>4 DEF CollectorStep, Scan, Upsert, QueueCandidate, CollectorStops, SameCollector
  <2>2. CASE raw' = raw
    BY <1>2, <2>1, <2>2
  <2>3. CASE Upsert(c)
    <3>1. PICK w \in Versions : w = collector[c].ver
      BY DEF Rows, TypeOK, CollectorStates
    <3> DEFINE n == rows + 1
               r == [raw[w] EXCEPT !.status = "fetched", !.at = n]
    <3>2. raw' = raw \/ raw' = [raw EXCEPT ![w] = r]
      BY <2>3, <3>1 DEF Upsert, Present
    <3> HIDE DEF n
    <3>3. r.uri = raw[w].uri
      BY <1>3 DEF RawRows
    <3> HIDE DEF r
    <3>4. ASSUME NEW v \in Versions PROVE raw'[v].uri => raw[v].uri
      BY <3>2, <3>3 DEF Rows, TypeOK
    <3> QED
      BY <1>2, <2>1, <3>4
  <2> QED
    BY <1>4, <2>2, <2>3 DEF CollectorStep, Scan, QueueCandidate, CollectorStops
<1>5. ASSUME NEW p \in Parsers, ParserStep(p) PROVE UriStep
  BY <1>5, UriOfParser
<1>6. ASSUME NEW v \in Versions, LeaseLapses(v) PROVE UriStep
  BY <1>2, <1>6 DEF LeaseLapses
<1>7. ASSUME NEW k \in Chunkers, ChunkerStep(k) PROVE UriStep
  <2>1. UNCHANGED <<stored, parser>>
    BY <1>7 DEF ChunkerStep, ReadTarget, UpsertDocument, ListCurrentChunks, Lock, Commit,
       ChunkerStops, SameChunker
  <2>2. CASE raw' = raw
    BY <1>2, <2>1, <2>2
  <2>3. CASE Commit(k)
    <3>1. raw' = [raw EXCEPT ![chunker[k].ver].status = "indexed"]
      BY <2>3 DEF Commit
    <3> QED
      BY <1>2, <1>3, <2>1, <3>1 DEF Rows, TypeOK, RawRows
  <2> QED
    BY <1>7, <2>2, <2>3 DEF ChunkerStep, ReadTarget, UpsertDocument, ListCurrentChunks,
       Lock, ChunkerStops
<1>8. ASSUME NEW g \in Indexers, IndexerStep(g) PROVE UriStep
  <2>1. UNCHANGED <<stored, parser>>
    BY <1>8 DEF IndexerStep, ReadGraphTarget, StoreGraph, GraphFails, IndexerStops, SameIndexer
  <2>2. CASE raw' = raw
    BY <1>2, <2>1, <2>2
  <2>3. CASE StoreGraph(g) \/ GraphFails(g)
    <3>1. \E s : raw' = [raw EXCEPT ![indexer[g].ver].status = s]
      BY <2>3 DEF StoreGraph, GraphFails
    <3> QED
      BY <1>2, <1>3, <2>1, <3>1 DEF Rows, TypeOK, RawRows
  <2> QED
    BY <1>8, <2>2, <2>3 DEF IndexerStep, ReadGraphTarget, IndexerStops
<1>9. ASSUME OperatorStep PROVE UriStep
  <2>1. UNCHANGED <<stored, parser>>
    BY <1>9 DEF OperatorStep, RetrySelects, RetryUpdates, AdminRetries, AdminCommits,
       Promote, Reprocess, SameOperator
  <2>2. CASE raw' = raw
    BY <1>2, <2>1, <2>2
  <2>3. CASE RetryUpdates
    <3>1. ASSUME NEW v \in Versions PROVE raw'[v].uri = raw[v].uri
      BY <2>3, RetriedRow
    <3> QED
      BY <1>2, <2>1, <3>1
  <2>4. CASE AdminCommits
    <3>1. ASSUME NEW v \in Versions PROVE raw'[v].uri = raw[v].uri
      <4>1. raw'[v] \in {raw[v], [raw[v] EXCEPT !.status = "fetched"]}
        BY <2>4 DEF AdminCommits
      <4> QED
        BY <1>3, <4>1 DEF RawRows
    <3> QED
      BY <1>2, <2>1, <3>1
  <2>5. CASE Reprocess
    <3>1. ASSUME NEW v \in Versions, raw'[v].uri PROVE raw[v].uri
      BY <1>3, <2>5, <3>1 DEF Reprocess, Rows, TypeOK, RawRows
    <3> QED
      BY <1>2, <2>1, <3>1
  <2> QED
    BY <1>9, <2>2, <2>3, <2>4, <2>5 DEF OperatorStep, RetrySelects, AdminRetries, Promote
<1>10. ASSUME SourceChanges \/ UNCHANGED vars PROVE UriStep
  BY <1>2, <1>10 DEF SourceChanges, vars, store, procs
<1> QED
  BY <1>1, <1>4, <1>5, <1>6, <1>7, <1>8, <1>9, <1>10, UriStepKept DEF Next

\* A row refers to its artifact only when it is there, however many parsers have
\* worked on it, with or without their leases.
THEOREM ArtifactBeforeRow == Spec => []ProcessableHasArtifact
<1> DEFINE Inv == Rows /\ ArtifactFirst
<1>1. Init => Inv
  BY RowsInit, ArtifactInit
<1>2. Inv /\ [Next]_vars => Inv'
  BY RowsStep, ArtifactStep
<1>3. Inv => ProcessableHasArtifact
  BY DEF ArtifactFirst
<1> QED
  BY <1>1, <1>2, <1>3, PTL DEF Spec

-----------------------------------------------------------------------------
(* The document. *)

\* The steps of everyone but the chunkers.
OtherStep ==
    \/ SourceChanges \/ UNCHANGED vars
    \/ \E c \in Collectors : CollectorStep(c)
    \/ \E p \in Parsers : ParserStep(p)
    \/ \E v \in Versions : LeaseLapses(v)
    \/ \E g \in Indexers : IndexerStep(g)
    \/ OperatorStep

LEMMA OtherStepOfDocument == OtherStep => UNCHANGED <<doc, lock, chunker>>
<1>1. ASSUME NEW c \in Collectors, CollectorStep(c) PROVE UNCHANGED <<doc, lock, chunker>>
  BY <1>1 DEF CollectorStep, Scan, Upsert, QueueCandidate, CollectorStops, SameCollector
<1>2. ASSUME NEW p \in Parsers, ParserStep(p) PROVE UNCHANGED <<doc, lock, chunker>>
  BY <1>2 DEF ParserStep, Dequeue, Begin, Put, MarkParsed, MarkFailed, MarkHeld, ParserStops,
     SameParser
<1>3. ASSUME NEW v \in Versions, LeaseLapses(v) PROVE UNCHANGED <<doc, lock, chunker>>
  BY <1>3 DEF LeaseLapses, SameParser
<1>4. ASSUME NEW g \in Indexers, IndexerStep(g) PROVE UNCHANGED <<doc, lock, chunker>>
  BY <1>4 DEF IndexerStep, ReadGraphTarget, StoreGraph, GraphFails, IndexerStops, SameIndexer
<1>5. CASE OperatorStep
  BY <1>5 DEF OperatorStep, RetrySelects, RetryUpdates, AdminRetries, AdminCommits,
     Promote, Reprocess, SameOperator
<1>6. CASE SourceChanges \/ UNCHANGED vars
  BY <1>6 DEF SourceChanges, vars, store, procs
<1> QED
  BY <1>1, <1>2, <1>3, <1>4, <1>5, <1>6 DEF OtherStep

LEMMA NextIsOther == [Next]_vars => OtherStep \/ \E k \in Chunkers : ChunkerStep(k)
BY DEF Next, OtherStep

\* A chunker's step changes its own state only.
LEMMA OneChunker ==
    ASSUME Rows, NEW k \in Chunkers, ChunkerStep(k)
    PROVE  \A l \in Chunkers : l # k => chunker'[l] = chunker[l]
<1> USE DEF Rows, TypeOK
<1>1. CASE ReadTarget(k)
  BY <1>1 DEF ReadTarget
<1>2. CASE UpsertDocument(k) \/ ListCurrentChunks(k)
  BY <1>2 DEF UpsertDocument, ListCurrentChunks
<1>3. CASE Lock(k)
  BY <1>3 DEF Lock
<1>4. CASE Commit(k)
  BY <1>4 DEF Commit
<1>5. CASE ChunkerStops(k)
  BY <1>5 DEF ChunkerStops
<1> QED
  BY <1>1, <1>2, <1>3, <1>4, <1>5 DEF ChunkerStep

\* What a chunker has in hand afterwards.
LEMMA InHandAfter ==
    ASSUME Rows, NEW k \in Chunkers, ChunkerStep(k)
    PROVE  /\ ReadTarget(k) => /\ chunker[k].pc = "idle" /\ chunker'[k].pc = "read"
                               /\ Processable(chunker'[k].ver)
                               /\ chunker'[k].text # None
                               /\ chunker'[k].text = stored[object[chunker'[k].ver]]
           /\ UpsertDocument(k) =>
                 /\ chunker[k].pc = "read" /\ chunker'[k].pc = "upserted"
                 /\ chunker'[k].ver = chunker[k].ver /\ chunker'[k].text = chunker[k].text
           /\ ListCurrentChunks(k) =>
                 /\ chunker[k].pc = "upserted" /\ chunker'[k].pc = "prepared"
                 /\ chunker'[k].ver = chunker[k].ver /\ chunker'[k].text = chunker[k].text
                 /\ chunker'[k].match => doc.chunks = chunker[k].text
           /\ Lock(k) /\ chunker'[k].pc # "idle" =>
                 /\ Latest(chunker[k].ver) /\ lock' = k
                 /\ chunker[k].pc = "prepared" /\ chunker'[k].pc = "writing"
                 /\ chunker'[k].ver = chunker[k].ver
                 /\ chunker'[k].text = chunker[k].text /\ chunker'[k].match = chunker[k].match
           /\ Commit(k) \/ ChunkerStops(k) => chunker'[k].pc = "idle"
<1>1. chunker \in [Chunkers -> ChunkerStates] /\ chunker[k] \in ChunkerStates
  BY DEF Rows, TypeOK
<1>2. ASSUME ReadTarget(k)
      PROVE  /\ chunker[k].pc = "idle" /\ chunker'[k].pc = "read"
             /\ Processable(chunker'[k].ver)
             /\ chunker'[k].text # None
             /\ chunker'[k].text = stored[object[chunker'[k].ver]]
  <2>1. PICK v \in Versions :
           /\ Latest(v) /\ stored[object[v]] # None
           /\ chunker' = [chunker EXCEPT ![k] = [pc |-> "read", ver |-> v,
                                                 text |-> stored[object[v]], match |-> FALSE]]
    BY <1>2 DEF ReadTarget
  <2>2. /\ chunker'[k].ver = v /\ chunker'[k].text = stored[object[v]]
        /\ chunker'[k].pc = "read"
    BY <1>1, <2>1
  <2> QED
    BY <1>2, <2>1, <2>2 DEF ReadTarget, Latest
<1>3. ASSUME UpsertDocument(k)
      PROVE  /\ chunker[k].pc = "read" /\ chunker'[k].pc = "upserted"
             /\ chunker'[k].ver = chunker[k].ver /\ chunker'[k].text = chunker[k].text
  BY <1>1, <1>3 DEF UpsertDocument, ChunkerStates
<1>6. ASSUME ListCurrentChunks(k)
      PROVE  /\ chunker[k].pc = "upserted" /\ chunker'[k].pc = "prepared"
             /\ chunker'[k].ver = chunker[k].ver /\ chunker'[k].text = chunker[k].text
             /\ chunker'[k].match => doc.chunks = chunker[k].text
  <2>1. PICK b \in BOOLEAN : b = (doc.chunks = chunker[k].text)
    OBVIOUS
  <2>2. PICK s : s = [chunker[k] EXCEPT !.pc = "prepared", !.match = b]
    OBVIOUS
  <2>3. /\ s.pc = "prepared" /\ s.ver = chunker[k].ver /\ s.text = chunker[k].text
        /\ s.match = b
    BY <1>1, <2>2 DEF ChunkerStates
  <2>4. chunker[k].pc = "upserted" /\ chunker' = [chunker EXCEPT ![k] = s]
    BY <1>6, <2>1, <2>2 DEF ListCurrentChunks
  <2>5. chunker'[k] = s
    BY <1>1, <2>4
  <2> QED
    BY <2>1, <2>3, <2>4, <2>5
<1>4. ASSUME Lock(k), chunker'[k].pc # "idle"
      PROVE  /\ Latest(chunker[k].ver) /\ lock' = k
             /\ chunker[k].pc = "prepared" /\ chunker'[k].pc = "writing"
             /\ chunker'[k].ver = chunker[k].ver
             /\ chunker'[k].text = chunker[k].text /\ chunker'[k].match = chunker[k].match
  <2>1. chunker[k].pc = "prepared"
    BY <1>4 DEF Lock
  <2>2. CASE Latest(chunker[k].ver)
    BY <1>1, <1>4, <2>1, <2>2 DEF Lock, ChunkerStates
  <2>3. CASE ~Latest(chunker[k].ver)
    BY <1>1, <1>4, <2>3, IdleChunkerType DEF Lock
  <2> QED
    BY <2>2, <2>3
<1>5. ASSUME Commit(k) \/ ChunkerStops(k) PROVE chunker'[k].pc = "idle"
  BY <1>1, <1>5, IdleChunkerType DEF Commit, ChunkerStops
<1> QED
  BY <1>2, <1>3, <1>4, <1>5, <1>6

LEMMA StillAfter ==
    Kept => \A v \in Versions : StillProcessable(v) => StillProcessable(v)'
BY DEF Kept, StillProcessable, Processable

\* Where the places are: what is in hand or the document's keeps its own.
LEMMA PlacesKept ==
    ASSUME Rows, Kept
    PROVE  /\ doc.raw # None => doc.raw \in Versions /\ raw'[doc.raw].at = raw[doc.raw].at
           /\ \A k \in Chunkers :
                 /\ chunker[k].ver \in Versions
                 /\ chunker[k].pc # "idle" =>
                       raw'[chunker[k].ver].at = raw[chunker[k].ver].at
<1>1. doc.raw # None => doc.raw \in Versions
  BY DEF Rows, TypeOK, Documents
<1>2. \A k \in Chunkers : chunker[k].ver \in Versions
  BY DEF Rows, TypeOK, ChunkerStates
<1> QED
  BY <1>1, <1>2 DEF Rows, KnownRows, Kept

LEMMA DocOther ==
    ASSUME Rows, Kept, DocInv, UNCHANGED <<doc, lock, chunker>>
    PROVE  DocInv'
<1>1. OnProcessable'
  BY StillAfter, PlacesKept DEF DocInv, OnProcessable
<1>2. LockHeld'
  BY DEF DocInv, LockHeld
<1>3. WritesForward'
  <2> SUFFICES ASSUME NEW k \in Chunkers, chunker[k].pc = "writing", doc.raw \notin taken'
               PROVE  raw'[doc.raw].at <= raw'[chunker[k].ver].at
    BY DEF WritesForward
  <2>1. doc.raw # None
    BY DEF DocInv, LockHeld
  <2>2. doc.raw \notin taken
    BY DEF Kept
  <2>3. raw[doc.raw].at <= raw[chunker[k].ver].at
    BY <2>2 DEF DocInv, WritesForward
  <2> QED
    BY <2>1, <2>3, PlacesKept
<1> QED
  BY <1>1, <1>2, <1>3 DEF DocInv

\* Nobody writes while the row is not locked, and only its holder does.
LEMMA OneWriter ==
    ASSUME LockHeld
    PROVE  /\ lock = None => \A l \in Chunkers : chunker[l].pc # "writing"
           /\ \A k, l \in Chunkers : chunker[k].pc = "writing" /\ k # l => chunker[l].pc # "writing"
BY NoneAssumption DEF LockHeld

LEMMA DocChunker ==
    ASSUME Rows, Rows', Kept, DocInv, NEW k \in Chunkers, ChunkerStep(k)
    PROVE  DocInv'
<1>1. \A l \in Chunkers : l # k => chunker'[l] = chunker[l]
  BY OneChunker
<1> DEFINE F == {v \in Versions :
                   \/ raw'[v].status \in {"parsed", "indexed"} /\ raw'[v].uri
                   \/ v \in taken'}
<1>2. \A v \in Versions : StillProcessable(v) => v \in F
  BY StillAfter DEF StillProcessable, Processable
<1>3. ASSUME doc'.raw # None => doc'.raw \in F,
             \A l \in Chunkers : chunker'[l].pc # "idle" => chunker'[l].ver \in F
      PROVE  OnProcessable'
  BY <1>3 DEF OnProcessable, StillProcessable, Processable
<1> HIDE DEF F
<1>4. \A l \in Chunkers : /\ chunker[l].ver \in Versions
                          /\ chunker[l].pc # "idle" => chunker[l].ver \in F
  BY <1>2, PlacesKept DEF DocInv, OnProcessable
<1>5. doc.raw # None => doc.raw \in Versions /\ doc.raw \in F
  BY <1>2, PlacesKept DEF DocInv, OnProcessable
<1>6. CASE ReadTarget(k)
  <2>1. UNCHANGED <<doc, lock, raw, taken>>
    BY <1>6 DEF ReadTarget, SameChunker
  <2>2. chunker'[k].pc = "read" /\ Processable(chunker'[k].ver)
    BY <1>6, InHandAfter
  <2>3. chunker'[k].ver \in F
    BY <1>2, <2>2 DEF Rows, TypeOK, ChunkerStates, StillProcessable
  <2>4. OnProcessable'
    BY <1>1, <1>4, <1>5, <1>3, <2>1, <2>3
  <2>5. LockHeld'
    BY <1>1, <2>1, <2>2 DEF DocInv, LockHeld
  <2>6. WritesForward'
    BY <1>1, <2>1, <2>2 DEF DocInv, WritesForward
  <2> QED
    BY <2>4, <2>5, <2>6 DEF DocInv
<1>7. CASE UpsertDocument(k)
  <2>1. UNCHANGED <<lock, raw, taken>> /\ lock = None
    BY <1>7 DEF UpsertDocument, SameChunker
  <2>2. /\ chunker[k].pc = "read" /\ chunker'[k].pc = "upserted"
        /\ chunker'[k].ver = chunker[k].ver
    BY <1>7, InHandAfter
  <2>3. doc'.raw = IF doc.raw = None THEN chunker[k].ver ELSE doc.raw
    BY <1>7 DEF UpsertDocument, Rows, TypeOK, Documents
  <2>4. doc'.raw # None
    BY <1>4, <2>3, NoneAssumption
  <2>5. doc'.raw \in F
    BY <1>4, <1>5, <2>2, <2>3
  <2>6. OnProcessable'
    BY <1>1, <1>4, <1>3, <2>2, <2>5
  <2>7. \A l \in Chunkers : chunker'[l].pc # "writing"
    BY <1>1, <2>1, <2>2, OneWriter DEF DocInv
  <2>8. LockHeld' /\ WritesForward'
    BY <2>4, <2>7 DEF LockHeld, WritesForward
  <2> QED
    BY <2>6, <2>8 DEF DocInv
<1>8. CASE Lock(k)
  <2>1. UNCHANGED <<doc, raw, taken>> /\ lock = None /\ chunker[k].pc = "prepared"
    BY <1>8 DEF Lock, SameChunker
  <2>2. \A l \in Chunkers : l # k => chunker'[l].pc # "writing"
    BY <1>1, <2>1, OneWriter DEF DocInv
  <2>3. chunker'[k].pc # "idle" =>
           /\ Latest(chunker[k].ver) /\ lock' = k
           /\ chunker'[k].pc = "writing" /\ chunker'[k].ver = chunker[k].ver
    BY <1>8, InHandAfter
  <2>4. OnProcessable'
    BY <1>1, <1>4, <1>5, <1>3, <2>1, <2>3
  <2>5. LockHeld'
    BY <1>1, <2>1, <2>2, <2>3 DEF DocInv, LockHeld
  <2>6. WritesForward'
    <3> SUFFICES ASSUME chunker'[k].pc = "writing", doc.raw \notin taken
                 PROVE  raw[doc.raw].at <= raw[chunker[k].ver].at
      BY <2>1, <2>2, <2>3 DEF WritesForward
    <3>1. doc.raw # None
      BY <2>1 DEF DocInv, LockHeld
    <3>2. Processable(doc.raw) /\ doc.raw \in Versions
      BY <1>5, <3>1 DEF DocInv, OnProcessable, StillProcessable
    <3>3. ~(raw[doc.raw].at > raw[chunker[k].ver].at)
      BY <2>3, <3>2 DEF Latest, Newer
    <3>4. raw[doc.raw].at \in Nat /\ raw[chunker[k].ver].at \in Nat
      BY <1>4, <3>2 DEF Rows, TypeOK, RawRows
    <3> QED
      BY <3>3, <3>4
  <2> QED
    BY <2>4, <2>5, <2>6 DEF DocInv
<1>9. CASE Commit(k)
  <2>1. /\ chunker[k].pc = "writing" /\ lock' = None
        /\ doc'.raw = chunker[k].ver
    BY <1>9 DEF Commit
  <2>2. chunker'[k].pc = "idle"
    BY <1>9, InHandAfter
  <2>3. \A l \in Chunkers : chunker'[l].pc # "writing"
    BY <1>1, <2>1, <2>2, OneWriter DEF DocInv
  <2>4. doc'.raw # None
    BY <1>4, <2>1, NoneAssumption
  <2>5. OnProcessable'
    BY <1>1, <1>4, <1>3, <2>1, <2>2
  <2>6. LockHeld' /\ WritesForward'
    BY <2>3, <2>4 DEF LockHeld, WritesForward
  <2> QED
    BY <2>5, <2>6 DEF DocInv
<1>10. CASE ChunkerStops(k)
  <2>1. /\ UNCHANGED <<raw, doc, taken>>
        /\ lock' = IF lock = k THEN None ELSE lock
    BY <1>10 DEF ChunkerStops, SameChunker
  <2>2. chunker'[k].pc = "idle"
    BY <1>10, InHandAfter
  <2>3. OnProcessable'
    BY <1>1, <1>4, <1>5, <1>3, <2>1, <2>2
  <2>4. LockHeld'
    BY <1>1, <2>1, <2>2 DEF DocInv, LockHeld
  <2>5. WritesForward'
    BY <1>1, <2>1, <2>2 DEF DocInv, WritesForward
  <2> QED
    BY <2>3, <2>4, <2>5 DEF DocInv
<1>11. CASE ListCurrentChunks(k)
  <2>1. UNCHANGED <<doc, lock, raw, taken>>
    BY <1>11 DEF ListCurrentChunks, SameChunker
  <2>2. /\ chunker[k].pc = "upserted" /\ chunker'[k].pc = "prepared"
        /\ chunker'[k].ver = chunker[k].ver
    BY <1>11, InHandAfter
  <2>3. OnProcessable'
    BY <1>1, <1>4, <1>5, <1>3, <2>1, <2>2
  <2>4. LockHeld'
    BY <1>1, <2>1, <2>2 DEF DocInv, LockHeld
  <2>5. WritesForward'
    BY <1>1, <2>1, <2>2 DEF DocInv, WritesForward
  <2> QED
    BY <2>3, <2>4, <2>5 DEF DocInv
<1> QED
  BY <1>6, <1>7, <1>8, <1>9, <1>10, <1>11 DEF ChunkerStep

LEMMA DocStep == Rows /\ DocInv /\ [Next]_vars => DocInv'
<1> SUFFICES ASSUME Rows, DocInv, [Next]_vars PROVE DocInv'
  OBVIOUS
<1>1. Rows' /\ Kept
  BY RowsStep
<1> QED
  BY <1>1, NextIsOther, OtherStepOfDocument, DocOther, DocChunker

LEMMA DocInit == Init => DocInv
BY DEF Init, DocInv, OnProcessable, LockHeld, WritesForward, IdleChunker

\* The document goes forward, whoever comes late with an older version.
THEOREM ForwardAlways == Spec => DocumentForward
<1> DEFINE Inv == Rows /\ DocInv
<1>1. Init => Inv
  BY RowsInit, DocInit
<1>2. Inv /\ [Next]_vars => Inv'
  BY RowsStep, DocStep
<1>3. ASSUME Inv, [Next]_vars, doc'.raw # doc.raw, doc.raw # None
      PROVE  raw'[doc'.raw].at > raw'[doc.raw].at \/ doc.raw \in taken
  <2>1. PICK k \in Chunkers : ChunkerStep(k)
    BY <1>3, NextIsOther, OtherStepOfDocument
  <2>2. Commit(k)
    BY <1>3, <2>1 DEF ChunkerStep, ReadTarget, UpsertDocument, ListCurrentChunks, Lock, ChunkerStops
  <2>3. chunker[k].pc = "writing" /\ doc'.raw = chunker[k].ver
    BY <2>2 DEF Commit
  <2>4. Kept
    BY <1>3, RowsStep
  <2>5. raw'[doc'.raw].at = raw[chunker[k].ver].at /\ raw'[doc.raw].at = raw[doc.raw].at
    BY <1>3, <2>3, <2>4, PlacesKept
  <2>6. doc.raw \in Versions /\ chunker[k].ver \in Versions
    BY <1>3, <2>4, PlacesKept
  <2>7. raw[doc.raw].at # 0 /\ raw[doc.raw] \in RawRows /\ raw[chunker[k].ver] \in RawRows
    BY <1>3, <2>6 DEF Rows, KnownRows, TypeOK, RawRows, Present
  <2>8. raw[chunker[k].ver].at # raw[doc.raw].at
    BY <1>3, <2>3, <2>6, <2>7 DEF Rows, RowsInOrder
  <2>9. raw[doc.raw].at \in Nat /\ raw[chunker[k].ver].at \in Nat
    BY <2>7 DEF RawRows
  <2>10. CASE doc.raw \notin taken
    <3>1. raw[doc.raw].at <= raw[chunker[k].ver].at
      BY <1>3, <2>3, <2>10 DEF DocInv, WritesForward
    <3> QED
      BY <2>5, <2>8, <2>9, <3>1
  <2> QED
    BY <2>10
<1>4. Inv /\ [Next]_vars => [doc'.raw # doc.raw /\ doc.raw # None =>
                               raw'[doc'.raw].at > raw'[doc.raw].at \/ doc.raw \in taken]_vars
  BY <1>3
<1> QED
  BY <1>1, <1>2, <1>4, PTL DEF Spec, DocumentForward

-----------------------------------------------------------------------------
(* The chunks. *)

LEMMA TextsKept == Kept => OwnTexts' = OwnTexts
BY DEF Kept, OwnTexts, TextsOf, TextsAt

\* What a parser puts is a text of every version that has the object.
LEMMA StoredStep ==
    ASSUME Rows, Kept, StoredFit, [Next]_vars
    PROVE  StoredFit'
<1>1. OwnTexts' = OwnTexts /\ object' = object /\ \A v \in Versions : object[v] \in Objects
  BY TextsKept, LayoutAssumption DEF Kept, Rows, TypeOK
<1>2. CASE stored' = stored
  BY <1>1, <1>2 DEF StoredFit
<1>3. ASSUME NEW p \in Parsers, Put(p) PROVE StoredFit'
  <2>1. PICK w \in Versions, n \in ParserVersions : w = parser[p].ver /\ n = parser[p].pv
    BY DEF Rows, TypeOK, ParserStates
  <2>2. PICK t : t = Text[w, n]
    OBVIOUS
  <2>3. stored' = [stored EXCEPT ![object[w]] = t]
    BY <1>3, <2>1, <2>2 DEF Put
  <2>4. ASSUME NEW v \in Versions, object[v] = object[w] PROVE t \in OwnTexts[v]
    <3>1. <<w, n>> \in {y \in Versions \X ParserVersions : object[y[1]] = object[v]}
      BY <2>4
    <3>2. t \in TextsOf(v)
      BY <2>2, <3>1 DEF TextsOf, TextsAt
    <3> QED
      BY <3>2 DEF OwnTexts
  <2>5. ASSUME NEW v \in Versions PROVE stored'[object[v]] \in OwnTexts[v] \cup {None}
    <3>1. stored'[object[v]] = IF object[v] = object[w] THEN t ELSE stored[object[v]]
      BY <1>1, <2>3 DEF Rows, TypeOK
    <3> QED
      BY <2>4, <3>1 DEF StoredFit
  <2> QED
    BY <1>1, <2>5 DEF StoredFit
<1>4. stored' = stored \/ \E p \in Parsers : Put(p)
  <2>1. ASSUME NEW c \in Collectors, CollectorStep(c) PROVE stored' = stored
    BY <2>1 DEF CollectorStep, Scan, Upsert, QueueCandidate, CollectorStops, SameCollector
  <2>2. ASSUME NEW p \in Parsers, ParserStep(p) PROVE stored' = stored \/ Put(p)
    BY <2>2 DEF ParserStep, Dequeue, Begin, MarkParsed, MarkFailed, MarkHeld, ParserStops
  <2>3. ASSUME NEW v \in Versions, LeaseLapses(v) PROVE stored' = stored
    BY <2>3 DEF LeaseLapses
  <2>4. ASSUME NEW k \in Chunkers, ChunkerStep(k) PROVE stored' = stored
    BY <2>4 DEF ChunkerStep, ReadTarget, UpsertDocument, ListCurrentChunks, Lock, Commit,
       ChunkerStops, SameChunker
  <2>5. ASSUME NEW g \in Indexers, IndexerStep(g) PROVE stored' = stored
    BY <2>5 DEF IndexerStep, ReadGraphTarget, StoreGraph, GraphFails, IndexerStops, SameIndexer
  <2>6. ASSUME OperatorStep PROVE stored' = stored
    BY <2>6 DEF OperatorStep, RetrySelects, RetryUpdates, AdminRetries, AdminCommits, Promote,
       Reprocess, SameOperator
  <2>7. ASSUME SourceChanges \/ UNCHANGED vars PROVE stored' = stored
    BY <2>7 DEF SourceChanges, vars
  <2> QED
    BY <2>1, <2>2, <2>3, <2>4, <2>5, <2>6, <2>7 DEF Next
<1> QED
  BY <1>2, <1>3, <1>4

LEMMA TakenKept == Kept /\ taken' = {} => taken = {}
BY DEF Kept

LEMMA ChunksOther ==
    ASSUME Rows, Kept, DocInv, ChunksFit, StoredFit', UNCHANGED <<doc, lock, chunker>>
    PROVE  ChunksFit'
<1>0. OwnTexts' = OwnTexts
  BY TextsKept
<1>1. TextsInHand'
  BY <1>0 DEF ChunksFit, TextsInHand
<1>2. ASSUME taken' = {}
      PROVE  /\ doc.chunks # None => doc.chunks \in OwnTexts[doc.raw]
             /\ MatchesFit' /\ WriterAhead'
  <2>1. taken = {}
    BY <1>2, TakenKept
  <2>2. MatchesFit'
    <3> SUFFICES ASSUME NEW k \in Chunkers, chunker[k].pc \in {"prepared", "writing"},
                        chunker[k].match
                 PROVE  \/ doc.chunks \in OwnTexts[chunker[k].ver]
                        \/ raw'[doc.raw].at > raw'[chunker[k].ver].at
      BY <1>0 DEF MatchesFit
    <3>1. doc.raw # None
      BY DEF DocInv, LockHeld
    <3> QED
      BY <2>1, <3>1, PlacesKept DEF ChunksFit, MatchesFit
  <2>3. WriterAhead'
    BY <2>1, PlacesKept DEF ChunksFit, WriterAhead
  <2> QED
    BY <2>1, <2>2, <2>3 DEF ChunksFit
<1> QED
  BY <1>0, <1>1, <1>2 DEF ChunksFit

\* What a writer leaves fits the version it writes.
LEMMA NewChunksFit ==
    ASSUME Rows, DocInv, ChunksFit, taken = {}, NEW k \in Chunkers, chunker[k].pc = "writing"
    PROVE  NewChunks(k) \in OwnTexts[chunker[k].ver]
<1>1. CASE ~chunker[k].match
  BY <1>1 DEF NewChunks, ChunksFit, TextsInHand
<1>2. CASE chunker[k].match
  <2>1. raw[doc.raw].at <= raw[chunker[k].ver].at
    BY DEF DocInv, WritesForward
  <2>2. doc.raw \in Versions /\ chunker[k].ver \in Versions
    BY DEF DocInv, LockHeld, Rows, TypeOK, Documents, ChunkerStates
  <2>3. raw[doc.raw].at \in Nat /\ raw[chunker[k].ver].at \in Nat
    BY <2>2 DEF Rows, TypeOK, RawRows
  <2>4. ~(raw[doc.raw].at > raw[chunker[k].ver].at)
    BY <2>1, <2>3
  <2> QED
    BY <1>2, <2>4 DEF NewChunks, ChunksFit, MatchesFit
<1> QED
  BY <1>1, <1>2

LEMMA ChunksChunker ==
    ASSUME Rows, Rows', Kept, DocInv, ChunksFit, StoredFit', NEW k \in Chunkers, ChunkerStep(k)
    PROVE  ChunksFit'
<1>0. OwnTexts' = OwnTexts
  BY TextsKept
<1>1. \A l \in Chunkers : l # k => chunker'[l] = chunker[l]
  BY OneChunker
<1>2. taken' = taken
  BY DEF ChunkerStep, ReadTarget, UpsertDocument, ListCurrentChunks, Lock, Commit,
     ChunkerStops, SameChunker
<1>3. ASSUME doc'.raw = None => doc'.chunks = None,
             chunker'[k].pc # "idle" => chunker'[k].text \in OwnTexts[chunker'[k].ver]
      PROVE  TextsInHand'
  <2> SUFFICES ASSUME NEW l \in Chunkers, chunker'[l].pc # "idle"
               PROVE  chunker'[l].text \in OwnTexts[chunker'[l].ver]
    BY <1>0, <1>3 DEF TextsInHand
  <2>1. CASE l = k
    BY <1>3, <2>1
  <2>2. CASE l # k
    BY <1>1, <2>2 DEF ChunksFit, TextsInHand
  <2> QED
    BY <2>1, <2>2
<1>4. ASSUME MatchesFit, UNCHANGED <<doc, raw>>,
             chunker'[k].pc \in {"prepared", "writing"} =>
                /\ chunker[k].pc \in {"prepared", "writing"}
                /\ chunker'[k].ver = chunker[k].ver /\ chunker'[k].match = chunker[k].match
      PROVE  MatchesFit'
  <2> SUFFICES ASSUME NEW l \in Chunkers, chunker'[l].pc \in {"prepared", "writing"},
                      chunker'[l].match
               PROVE  \/ doc'.chunks \in OwnTexts[chunker'[l].ver]
                      \/ raw'[doc'.raw].at > raw'[chunker'[l].ver].at
    BY <1>0 DEF MatchesFit
  <2>1. /\ chunker[l].pc \in {"prepared", "writing"} /\ chunker[l].match
        /\ chunker'[l].ver = chunker[l].ver
    BY <1>1, <1>4
  <2> QED
    BY <1>4, <2>1 DEF MatchesFit
<1>5. CASE ReadTarget(k)
  <2>1. UNCHANGED <<doc, raw>>
    BY <1>5 DEF ReadTarget, SameChunker
  <2>2. chunker'[k].pc = "read" /\ chunker'[k].text \in OwnTexts[chunker'[k].ver]
    <3>1. chunker'[k].ver \in Versions
      BY DEF Rows, TypeOK, ChunkerStates
    <3>2. /\ chunker'[k].pc = "read" /\ chunker'[k].text # None
          /\ chunker'[k].text = stored[object[chunker'[k].ver]]
      BY <1>5, InHandAfter
    <3> QED
      BY <3>1, <3>2 DEF ChunksFit, StoredFit
  <2>3. TextsInHand'
    BY <1>3, <2>1, <2>2 DEF ChunksFit, TextsInHand
  <2>4. MatchesFit => MatchesFit'
    BY <1>4, <2>1, <2>2
  <2>5. WriterAhead => WriterAhead'
    BY <1>1, <2>1, <2>2 DEF WriterAhead
  <2> QED
    BY <1>0, <1>2, <2>1, <2>3, <2>4, <2>5 DEF ChunksFit
<1>6. CASE UpsertDocument(k)
  <2>1. UNCHANGED raw /\ lock = None
    BY <1>6 DEF UpsertDocument, SameChunker
  <2>2. /\ chunker[k].pc = "read" /\ chunker'[k].pc = "upserted"
        /\ chunker'[k].ver = chunker[k].ver /\ chunker'[k].text = chunker[k].text
    BY <1>6, InHandAfter
  <2>3. /\ doc'.raw = IF doc.raw = None THEN chunker[k].ver ELSE doc.raw
        /\ doc'.chunks = doc.chunks
    BY <1>6 DEF UpsertDocument, Rows, TypeOK, Documents
  <2>4. chunker[k].text \in OwnTexts[chunker[k].ver]
    BY <2>2 DEF ChunksFit, TextsInHand
  <2>5. doc'.raw # None
    BY <2>3, NoneAssumption DEF Rows, TypeOK, ChunkerStates
  <2>6. TextsInHand'
    BY <1>3, <2>2, <2>4, <2>5
  <2>7. ASSUME taken = {}, doc.chunks # None PROVE doc'.chunks \in OwnTexts[doc'.raw]
    BY <2>3, <2>7 DEF ChunksFit, TextsInHand
  <2>8. ASSUME MatchesFit PROVE MatchesFit'
    <3> SUFFICES ASSUME NEW l \in Chunkers, chunker'[l].pc \in {"prepared", "writing"},
                        chunker'[l].match
                 PROVE  \/ doc'.chunks \in OwnTexts[chunker'[l].ver]
                        \/ raw'[doc'.raw].at > raw'[chunker'[l].ver].at
      BY <1>0 DEF MatchesFit
    <3>1. l # k
      BY <2>2
    <3>2. doc.raw # None /\ chunker'[l] = chunker[l]
      BY <1>1, <3>1 DEF DocInv, LockHeld
    <3> QED
      BY <2>1, <2>3, <2>8, <3>2 DEF MatchesFit
  <2>9. WriterAhead'
    BY <1>1, <2>1, <2>2, OneWriter DEF DocInv, WriterAhead
  <2> QED
    BY <1>0, <1>2, <2>3, <2>6, <2>7, <2>8, <2>9 DEF ChunksFit
<1>10. CASE ListCurrentChunks(k)
  <2>1. UNCHANGED <<doc, raw>>
    BY <1>10 DEF ListCurrentChunks, SameChunker
  <2>2. /\ chunker[k].pc = "upserted" /\ chunker'[k].pc = "prepared"
        /\ chunker'[k].ver = chunker[k].ver /\ chunker'[k].text = chunker[k].text
        /\ chunker'[k].match => doc.chunks = chunker[k].text
    BY <1>10, InHandAfter
  <2>3. chunker[k].text \in OwnTexts[chunker[k].ver]
    BY <2>2 DEF ChunksFit, TextsInHand
  <2>4. TextsInHand'
    BY <1>3, <2>1, <2>2, <2>3 DEF ChunksFit, TextsInHand
  <2>5. ASSUME MatchesFit PROVE MatchesFit'
    <3> SUFFICES ASSUME NEW l \in Chunkers, chunker'[l].pc \in {"prepared", "writing"},
                        chunker'[l].match
                 PROVE  \/ doc'.chunks \in OwnTexts[chunker'[l].ver]
                        \/ raw'[doc'.raw].at > raw'[chunker'[l].ver].at
      BY <1>0 DEF MatchesFit
    <3>1. CASE l = k
      BY <2>1, <2>2, <2>3, <3>1
    <3>2. CASE l # k
      BY <1>1, <2>1, <2>5, <3>2 DEF MatchesFit
    <3> QED
      BY <3>1, <3>2
  <2>6. WriterAhead => WriterAhead'
    BY <1>1, <2>1, <2>2 DEF WriterAhead
  <2> QED
    BY <1>0, <1>2, <2>1, <2>4, <2>5, <2>6 DEF ChunksFit
<1>7. CASE Lock(k)
  <2>1. UNCHANGED <<doc, raw>> /\ lock = None /\ chunker[k].pc = "prepared"
    BY <1>7 DEF Lock, SameChunker
  <2>2. chunker'[k].pc # "idle" =>
           /\ Latest(chunker[k].ver) /\ chunker'[k].pc = "writing"
           /\ chunker'[k].ver = chunker[k].ver
           /\ chunker'[k].text = chunker[k].text /\ chunker'[k].match = chunker[k].match
    BY <1>7, InHandAfter
  <2>3. TextsInHand'
    BY <1>3, <2>1, <2>2 DEF ChunksFit, TextsInHand
  <2>4. MatchesFit => MatchesFit'
    BY <1>4, <2>1, <2>2
  <2>5. ASSUME taken = {} PROVE WriterAhead'
    <3> SUFFICES ASSUME NEW l \in Chunkers, NEW m \in Chunkers,
                        chunker'[l].pc = "writing", chunker'[m].pc \in {"upserted", "prepared"}
                 PROVE  raw'[chunker'[m].ver].at <= raw'[chunker'[l].ver].at
      BY DEF WriterAhead
    <3>1. l = k /\ m # k
      BY <1>1, <2>1, <2>2, OneWriter DEF DocInv
    <3>2. chunker'[m] = chunker[m] /\ chunker[m].ver \in Versions /\ chunker[k].ver \in Versions
      BY <1>1, <3>1 DEF Rows, TypeOK, ChunkerStates
    <3>3. Processable(chunker[m].ver)
      BY <2>5, <3>2 DEF DocInv, OnProcessable, StillProcessable
    <3>4. ~(raw[chunker[m].ver].at > raw[chunker[k].ver].at)
      BY <2>2, <3>1, <3>2, <3>3 DEF Latest, Newer
    <3>5. raw[chunker[m].ver].at \in Nat /\ raw[chunker[k].ver].at \in Nat
      BY <3>2 DEF Rows, TypeOK, RawRows
    <3>6. chunker'[k].ver = chunker[k].ver
      BY <2>2, <3>1
    <3> QED
      BY <2>1, <3>1, <3>2, <3>4, <3>5, <3>6
  <2> QED
    BY <1>0, <1>2, <2>1, <2>3, <2>4, <2>5 DEF ChunksFit
<1>8. CASE Commit(k)
  <2>1. /\ chunker[k].pc = "writing"
        /\ doc' = [raw |-> chunker[k].ver, chunks |-> NewChunks(k)]
    BY <1>8 DEF Commit
  <2>2. chunker'[k].pc = "idle"
    BY <1>8, InHandAfter
  <2>3. doc'.raw = chunker[k].ver /\ doc'.chunks = NewChunks(k) /\ doc'.raw # None
    BY <2>1, NoneAssumption DEF Rows, TypeOK, ChunkerStates
  <2>4. TextsInHand'
    BY <1>3, <2>2, <2>3
  <2>5. ASSUME taken = {} PROVE doc'.chunks \in OwnTexts[doc'.raw]
    BY <2>1, <2>3, <2>5, NewChunksFit
  <2>6. \A l \in Chunkers : chunker'[l].pc # "writing"
    BY <1>1, <2>1, <2>2, OneWriter DEF DocInv
  <2>7. ASSUME taken = {} PROVE MatchesFit'
    <3> SUFFICES ASSUME NEW l \in Chunkers, chunker'[l].pc = "prepared"
                 PROVE  \/ doc'.chunks \in OwnTexts[chunker'[l].ver]
                        \/ raw'[doc'.raw].at > raw'[chunker'[l].ver].at
      BY <1>0, <2>6 DEF MatchesFit
    <3>1. l # k /\ chunker'[l] = chunker[l]
      BY <1>1, <2>2
    <3>2. raw[chunker[l].ver].at <= raw[chunker[k].ver].at
      BY <2>1, <2>7, <3>1 DEF ChunksFit, WriterAhead
    <3>3. chunker[l].ver \in Versions /\ chunker[k].ver \in Versions
      BY DEF Rows, TypeOK, ChunkerStates
    <3>4. /\ raw'[chunker[l].ver].at = raw[chunker[l].ver].at
          /\ raw'[chunker[k].ver].at = raw[chunker[k].ver].at
      BY <2>1, <3>1, PlacesKept
    <3>5. raw[chunker[l].ver] \in RawRows /\ raw[chunker[k].ver] \in RawRows
      BY <3>3 DEF Rows, TypeOK
    <3>6. CASE chunker[l].ver = chunker[k].ver
      BY <2>3, <2>5, <2>7, <3>1, <3>6
    <3>7. CASE chunker[l].ver # chunker[k].ver
      <4>1. raw[chunker[k].ver].at # 0
        BY <2>1, <3>5 DEF Rows, KnownRows, Present, RawRows
      <4>2. raw[chunker[l].ver].at # raw[chunker[k].ver].at
        BY <3>3, <3>7, <4>1 DEF Rows, RowsInOrder
      <4>3. raw[chunker[l].ver].at \in Nat /\ raw[chunker[k].ver].at \in Nat
        BY <3>5 DEF RawRows
      <4> QED
        BY <2>3, <3>1, <3>2, <3>4, <4>2, <4>3
    <3> QED
      BY <3>6, <3>7
  <2>8. WriterAhead'
    BY <2>6 DEF WriterAhead
  <2> QED
    BY <1>0, <1>2, <2>4, <2>5, <2>7, <2>8 DEF ChunksFit
<1>9. CASE ChunkerStops(k)
  <2>1. UNCHANGED <<raw, doc>>
    BY <1>9 DEF ChunkerStops, SameChunker
  <2>2. chunker'[k].pc = "idle"
    BY <1>9, InHandAfter
  <2>3. TextsInHand'
    BY <1>3, <2>1, <2>2 DEF ChunksFit, TextsInHand
  <2>4. MatchesFit => MatchesFit'
    BY <1>4, <2>1, <2>2
  <2>5. WriterAhead => WriterAhead'
    BY <1>1, <2>1, <2>2 DEF WriterAhead
  <2> QED
    BY <1>0, <1>2, <2>1, <2>3, <2>4, <2>5 DEF ChunksFit
<1> QED
  BY <1>5, <1>6, <1>7, <1>8, <1>9, <1>10 DEF ChunkerStep

LEMMA ChunksStep == Rows /\ DocInv /\ ChunksFit /\ [Next]_vars => ChunksFit'
<1> SUFFICES ASSUME Rows, DocInv, ChunksFit, [Next]_vars PROVE ChunksFit'
  OBVIOUS
<1>1. Rows' /\ Kept
  BY RowsStep
<1>2. StoredFit'
  BY <1>1, StoredStep DEF ChunksFit
<1> QED
  BY <1>1, <1>2, NextIsOther, OtherStepOfDocument, ChunksOther, ChunksChunker

LEMMA ChunksInit == Init => ChunksFit
<1> SUFFICES ASSUME Init PROVE ChunksFit
  OBVIOUS
<1>1. \A v \in Versions : object[v] \in Objects
  BY LayoutAssumption DEF Init
<1>2. StoredFit
  BY <1>1 DEF Init, StoredFit
<1> QED
  BY <1>2 DEF Init, ChunksFit, TextsInHand, MatchesFit, WriterAhead, IdleChunker

\* The chunks are cut from the object of the document's version, however versions
\* share objects, although they are compared in one transaction and activated in
\* another (replaceDocumentChunks, activateDocumentVersion).
THEOREM ChunksAlwaysFit == Spec => []ChunksOfDocument
<1> DEFINE Inv == Rows /\ DocInv /\ ChunksFit
<1>1. Init => Inv
  BY RowsInit, DocInit, ChunksInit
<1>2. Inv /\ [Next]_vars => Inv'
  BY RowsStep, DocStep, ChunksStep
<1>3. Inv => ChunksOfDocument
  <2> SUFFICES ASSUME Inv, doc.chunks # None, taken = {} PROVE doc.chunks \in TextsOf(doc.raw)
    BY DEF ChunksOfDocument
  <2>1. doc.raw \in Versions /\ doc.chunks \in OwnTexts[doc.raw]
    BY DEF ChunksFit, TextsInHand, Rows, TypeOK, Documents
  <2> QED
    BY <2>1 DEF OwnTexts
<1> QED
  BY <1>1, <1>2, <1>3, PTL DEF Spec

\* Where no other version has the object of the document's version (its source_id is
\* not cut), the chunks are a text of that very version.
THEOREM ChunksAlwaysOwn ==
    Spec => [](/\ doc.chunks # None /\ taken = {}
               /\ \A u \in Versions : object[u] = object[doc.raw] => u = doc.raw
               => \E n \in ParserVersions : doc.chunks = Text[doc.raw, n])
<1> DEFINE Own == /\ doc.chunks # None /\ taken = {}
                  /\ \A u \in Versions : object[u] = object[doc.raw] => u = doc.raw
                  => \E n \in ParserVersions : doc.chunks = Text[doc.raw, n]
<1>1. ChunksOfDocument => Own
  <2> SUFFICES ASSUME doc.chunks \in TextsOf(doc.raw),
                      \A u \in Versions : object[u] = object[doc.raw] => u = doc.raw
               PROVE  \E n \in ParserVersions : doc.chunks = Text[doc.raw, n]
    BY DEF ChunksOfDocument
  <2>1. PICK x \in Versions \X ParserVersions :
           object[x[1]] = object[doc.raw] /\ doc.chunks = Text[x]
    BY DEF TextsOf, TextsAt
  <2>2. PICK u \in Versions, n \in ParserVersions : x = <<u, n>>
    OBVIOUS
  <2>3. u = doc.raw
    BY <2>1, <2>2
  <2> QED
    BY <2>1, <2>2, <2>3
<1> QED
  BY <1>1, ChunksAlwaysFit, PTL

-----------------------------------------------------------------------------
(* Nothing is stranded but by a failure or a command. *)

\* A chunker or an indexer has the version in hand.
AtWork(v) ==
    \/ \E k \in Chunkers : chunker[k].pc # "idle" /\ chunker[k].ver = v
    \/ \E g \in Indexers : indexer[g].pc # "idle" /\ indexer[g].ver = v

\* The row of a version and its queue row go together: it is queued before it is
\* parsed, and the queue calls it parsed or indexed only if the row does.
Fit(v) ==
    /\ queue[v].status = "absent" => raw[v].status \in {"absent", "fetched"}
    /\ queue[v].status \in {"parsed", "indexed"} => raw[v].status \in {"parsed", "indexed"}

\* So it is for every version; what the administrator's transaction has locked is
\* still to be parsed, and what is in hand was queued.
Fitting ==
    /\ \A v \in Versions : Fit(v) /\ (AtWork(v) => queue[v].status # "absent")
    /\ \A v \in admin.locked : queue[v].status \notin {"absent", "parsed", "indexed"}

\* Inserted, not queued, and nobody is about to queue it.
Unqueued(v) ==
    /\ raw[v].status = "fetched" /\ queue[v].status = "absent"
    /\ \A c \in Collectors : ~(collector[c].pc = "queueing" /\ collector[c].ver = v)

\* Stranded, or on the way there: held (a retry around it may miss its queue row),
\* or sent back to the parser under a chunker, an indexer or a retry at work.
Owed(v) ==
    \/ Unqueued(v)
    \/ raw[v].status = "held"
    \/ ~raw[v].uri /\ \/ raw[v].status \in {"parsed", "indexed"}
                      \/ AtWork(v) \/ retry[v] = "parsed"

OwedVersions == {v \in Versions : Owed(v)}

\* Each of them is owed to a failure or a command of its own.
OwedCharged ==
    IsFiniteSet(OwedVersions) /\ Cardinality(OwedVersions) <= faults + commands

\* What a step does to them.
Free == OwedVersions' \subseteq OwedVersions /\ faults + commands <= faults' + commands'
Charged == /\ \E x : OwedVersions' \subseteq OwedVersions \cup {x}
           /\ faults' + commands' = faults + commands + 1

\* A set that gains one element at most.
LEMMA OneMore ==
    ASSUME NEW S, IsFiniteSet(S), NEW n \in Nat, Cardinality(S) <= n, NEW T
    PROVE  /\ T \subseteq S => IsFiniteSet(T) /\ Cardinality(T) <= n
           /\ \A x : T \subseteq S \cup {x} => IsFiniteSet(T) /\ Cardinality(T) <= n + 1
<1>1. ASSUME T \subseteq S PROVE IsFiniteSet(T) /\ Cardinality(T) <= n
  <2>1. IsFiniteSet(T) /\ Cardinality(T) <= Cardinality(S)
    BY <1>1, FS_Subset
  <2>2. Cardinality(S) \in Nat /\ Cardinality(T) \in Nat
    BY <2>1, FS_CardinalityType
  <2> QED
    BY <2>1, <2>2
<1>2. ASSUME NEW x, T \subseteq S \cup {x} PROVE IsFiniteSet(T) /\ Cardinality(T) <= n + 1
  <2>1. /\ IsFiniteSet(S \cup {x})
        /\ Cardinality(S \cup {x}) = IF x \in S THEN Cardinality(S) ELSE Cardinality(S) + 1
    BY FS_AddElement
  <2>2. IsFiniteSet(T) /\ Cardinality(T) <= Cardinality(S \cup {x})
    BY <1>2, <2>1, FS_Subset
  <2>3. Cardinality(S) \in Nat /\ Cardinality(T) \in Nat
    BY <2>2, FS_CardinalityType
  <2> QED
    BY <2>1, <2>2, <2>3
<1> QED
  BY <1>1, <1>2

\* What is stranded is owed.
LEMMA StrandedIsOwed ==
    ASSUME Fitting, NEW v \in Versions, Stranded(v)
    PROVE  Owed(v)
BY DEF Fitting, Fit, Stranded, Owed, Unqueued

\* A step of a collector: it inserts a row it will queue, queues one, or stops.
LEMMA CollectorOwes ==
    ASSUME Rows, Fitting, NEW c \in Collectors, CollectorStep(c)
    PROVE  Fitting' /\ (Charged \/ Free)
<1>0. faults \in Nat /\ commands \in Nat
  BY DEF Rows, TypeOK
<1>1. /\ collector \in [Collectors -> CollectorStates]
      /\ raw \in [Versions -> RawRows] /\ queue \in [Versions -> QueueRows]
      /\ source \in Versions
      /\ admin.locked \subseteq Versions
  BY DEF Rows, TypeOK, AdminStates
<1>2. UNCHANGED <<chunker, indexer, admin, retry, commands>>
  BY DEF CollectorStep, Scan, Upsert, QueueCandidate, CollectorStops, SameCollector
<1>3. \A v \in Versions : AtWork(v)' = AtWork(v)
  BY <1>2 DEF AtWork
<1>4. CASE Scan(c)
  <2>1. UNCHANGED <<raw, queue, faults>>
    BY <1>4 DEF Scan
  <2>2. Fitting'
    BY <1>2, <1>3, <2>1 DEF Fitting, Fit, AtWork
  <2>3. ASSUME NEW v \in Versions, Unqueued(v)' PROVE Unqueued(v)
    BY <1>1, <1>4, <2>1, <2>3 DEF Unqueued, Scan
  <2> QED
    BY <1>2, <1>3, <2>1, <2>2, <2>3, <1>0 DEF Free, OwedVersions, Owed
<1>5. CASE Upsert(c)
  <2>1. PICK v \in Versions : v = collector[c].ver
    BY <1>1 DEF CollectorStates
  <2>2. UNCHANGED <<queue, faults>> /\ collector[c].pc = "storing"
    BY <1>5 DEF Upsert
  <2>3. CASE Present(v)
    <3>1. UNCHANGED raw
      BY <1>5, <2>1, <2>3 DEF Upsert, Present
    <3>2. \A d \in Collectors : collector[d].pc = "queueing" => collector'[d] = collector[d]
      BY <1>1, <1>5, <2>2 DEF Upsert
    <3>3. Fitting'
      BY <1>2, <1>3, <2>2, <3>1 DEF Fitting, Fit, AtWork
    <3>4. ASSUME NEW u \in Versions, Unqueued(u)' PROVE Unqueued(u)
      BY <2>2, <3>1, <3>2, <3>4 DEF Unqueued
    <3> QED
      BY <1>2, <1>3, <2>2, <3>1, <3>3, <3>4, <1>0 DEF Free, OwedVersions, Owed
  <2>4. CASE ~Present(v)
    <3>1. /\ raw'[v].status = "fetched" /\ raw'[v].uri = raw[v].uri
          /\ \A u \in Versions : u # v => raw'[u] = raw[u]
      <4>1. raw' = [raw EXCEPT ![v] = [raw[v] EXCEPT !.status = "fetched", !.at = rows + 1]]
        BY <1>5, <2>1, <2>4 DEF Upsert, Present
      <4>2. raw[v] \in RawRows
        BY <1>1
      <4> QED
        BY <1>1, <4>1, <4>2 DEF RawRows
    <3>2. collector'[c].pc = "queueing" /\ collector'[c].ver = v
          /\ \A d \in Collectors : d # c => collector'[d] = collector[d]
      BY <1>1, <1>5, <2>1, <2>4 DEF Upsert, Present, QueueNeeded, CollectorStates
    <3>3. Fitting'
      BY <1>2, <1>3, <2>2, <2>4, <3>1 DEF Fitting, Fit, AtWork, Present
    <3>4. ASSUME NEW u \in Versions, Unqueued(u)' PROVE Unqueued(u)
      <4>1. u # v
        BY <3>2, <3>4 DEF Unqueued
      <4> QED
        BY <2>2, <3>1, <3>2, <3>4, <4>1 DEF Unqueued
    <3>5. ASSUME NEW u \in Versions, ~Unqueued(u)', Owed(u)' PROVE Owed(u)
      BY <1>2, <1>3, <3>1, <3>5 DEF Owed
    <3> QED
      BY <1>2, <2>2, <3>3, <3>4, <3>5, <1>0 DEF Free, OwedVersions, Owed
  <2> QED
    BY <2>3, <2>4
<1>6. CASE QueueCandidate(c)
  <2>1. PICK v \in Versions : v = collector[c].ver
    BY <1>1 DEF CollectorStates
  <2>2. UNCHANGED <<raw, faults>> /\ collector[c].pc = "queueing"
    BY <1>6 DEF QueueCandidate
  <2>3. /\ queue'[v].status = "pending"
        /\ \A u \in Versions : u # v => queue'[u] = queue[u]
        /\ \A d \in Collectors : d # c => collector'[d] = collector[d]
    BY <1>1, <1>6, <2>1 DEF QueueCandidate
  <2>4. Fitting'
    BY <1>1, <1>2, <1>3, <2>2, <2>3 DEF Fitting, Fit, AtWork
  <2>5. ASSUME NEW u \in Versions, Unqueued(u)' PROVE Unqueued(u)
    <3>1. u # v
      BY <2>3, <2>5 DEF Unqueued
    <3> QED
      BY <2>1, <2>2, <2>3, <2>5, <3>1 DEF Unqueued
  <2> QED
    BY <1>2, <1>3, <2>2, <2>4, <2>5, <1>0 DEF Free, OwedVersions, Owed
<1>7. CASE CollectorStops(c)
  <2>1. /\ UNCHANGED <<raw, queue>>
        /\ \A d \in Collectors : d # c => collector'[d] = collector[d]
        /\ faults' = faults + 1
    BY <1>1, <1>7 DEF CollectorStops, Charge
  <2>2. Fitting'
    BY <1>2, <1>3, <2>1 DEF Fitting, Fit, AtWork
  <2>3. ASSUME NEW u \in Versions, u # collector[c].ver, Unqueued(u)' PROVE Unqueued(u)
    BY <2>1, <2>3 DEF Unqueued
  <2>4. OwedVersions' \subseteq OwedVersions \cup {collector[c].ver}
    BY <1>2, <1>3, <2>1, <2>3 DEF OwedVersions, Owed
  <2>5. faults' + commands' = faults + commands + 1
    BY <1>2, <2>1 DEF Rows, TypeOK
  <2> QED
    BY <2>2, <2>4, <2>5 DEF Charged
<1> QED
  BY <1>4, <1>5, <1>6, <1>7 DEF CollectorStep

\* The budgets count.
LEMMA BudgetsCount ==
    ASSUME Rows, Next
    PROVE  {faults, commands, faults', commands'} \subseteq Nat
BY RowsStep DEF Rows, TypeOK

\* A step that changes no row and no hand of collectors, chunkers and indexers.
LEMMA NothingOwed ==
    ASSUME Rows, Fitting, UNCHANGED <<raw, queue, collector, chunker, indexer, admin, retry>>,
           faults + commands <= faults' + commands'
    PROVE  Fitting' /\ Free
<1>1. \A v \in Versions : AtWork(v)' = AtWork(v) /\ Unqueued(v)' = Unqueued(v)
  BY DEF AtWork, Unqueued
<1>2. Fitting'
  BY <1>1 DEF Fitting, Fit
<1>3. \A v \in Versions : Owed(v)' = Owed(v)
  BY <1>1 DEF Owed
<1> QED
  BY <1>2, <1>3 DEF Free, OwedVersions

\* What a parser records: held is charged, and what it failed or parsed is no more
\* owed than before.
LEMMA MarkOwes ==
    ASSUME Rows, Fitting, NEW p \in Parsers, NEW s \in {"parsed", "failed", "held"},
           NEW r \in RawRows, r.status = s, raw[parser[p].ver].uri => r.uri,
           s = "parsed" => r.uri,
           Mark(p, r, s), Holds(p), UNCHANGED <<collector, chunker, indexer, admin, retry>>
    PROVE  /\ Fitting'
           /\ OwedVersions' \subseteq OwedVersions \cup {parser[p].ver}
           /\ s # "held" => OwedVersions' \subseteq OwedVersions
<1>1. PICK v \in Versions : v = parser[p].ver
  BY DEF Rows, TypeOK, ParserStates
<1>2. /\ raw'[v] = r /\ queue'[v].status = s
      /\ \A u \in Versions : u # v => raw'[u] = raw[u] /\ queue'[u] = queue[u]
  <2>1. raw' = [raw EXCEPT ![v] = r] /\ queue' = QueueStatus(v, s)
    BY <1>1 DEF Mark
  <2>2. raw'[v] = r /\ \A u \in Versions : u # v => raw'[u] = raw[u]
    BY <2>1 DEF Rows, TypeOK
  <2>3. queue'[v].status = s /\ \A u \in Versions : u # v => queue'[u] = queue[u]
    BY <2>1 DEF Rows, TypeOK, QueueStatus, QueueRows
  <2> QED
    BY <2>2, <2>3
<1>3. v \notin admin.locked /\ admin.locked \subseteq Versions
  BY <1>1 DEF Mark, Unlocked, Rows, TypeOK, AdminStates
<1>4. \A u \in Versions : AtWork(u)' = AtWork(u)
  BY DEF AtWork
<1>5. Fitting'
  BY <1>2, <1>3, <1>4 DEF Fitting, Fit
<1>6. ASSUME NEW u \in Versions, Owed(u)' PROVE Owed(u) \/ (u = v /\ s = "held")
  <2>1. CASE u # v
    BY <1>2, <1>4, <1>6, <2>1 DEF Owed, Unqueued
  <2>2. CASE u = v
    BY <1>1, <1>2, <1>4, <1>6, <2>2 DEF Owed, Unqueued
  <2> QED
    BY <2>1, <2>2
<1> QED
  BY <1>1, <1>5, <1>6 DEF OwedVersions

\* A step of a parser: it dequeues, works, or records what came of it.
LEMMA ParserOwes ==
    ASSUME Rows, Fitting, NEW p \in Parsers, ParserStep(p)
    PROVE  Fitting' /\ (Charged \/ Free)
<1>1. /\ faults \in Nat /\ commands \in Nat
      /\ raw \in [Versions -> RawRows] /\ queue \in [Versions -> QueueRows]
      /\ parser[p] \in ParserStates /\ parser[p].ver \in Versions /\ parser[p].pv \in ParserVersions
      /\ raw[parser[p].ver] \in RawRows
      /\ admin.locked \subseteq Versions
  BY DEF Rows, TypeOK, AdminStates, ParserStates
<1>2. faults \in Nat /\ commands \in Nat /\ faults' \in Nat
  BY BudgetsCount DEF Next
<1>3. UNCHANGED <<collector, chunker, indexer, admin, retry, commands>>
  BY DEF ParserStep, Dequeue, Begin, Put, MarkParsed, MarkFailed, MarkHeld, ParserStops, SameParser
<1>4. ASSUME faults <= faults' PROVE faults + commands <= faults' + commands'
  <2>1. commands' = commands
    BY <1>3
  <2>2. \A m, n, k \in Nat : m <= n => m + k <= n + k
    OBVIOUS
  <2>3. faults + commands <= faults' + commands
    BY <1>2, <1>4, <2>2
  <2> QED
    BY <2>1, <2>3
<1>5. CASE \E batch \in SUBSET Versions : Dequeue(p, batch)
  <2>1. PICK batch \in SUBSET Versions : Dequeue(p, batch)
    BY <1>5
  <2>2. /\ UNCHANGED <<raw, faults>>
        /\ \A v \in Versions : \/ v \notin batch /\ queue'[v] = queue[v]
                               \/ /\ v \in batch /\ queue'[v].status = "parsing"
                                  /\ queue[v].status # "absent"
    BY <2>1 DEF Dequeue, Dequeuable, Expired
  <2>3. \A u \in Versions : AtWork(u)' = AtWork(u)
    BY <1>3 DEF AtWork
  <2>4. Fitting'
    BY <1>1, <1>3, <2>2, <2>3 DEF Fitting, Fit
  <2>5. \A u \in Versions : Owed(u)' => Owed(u)
    BY <1>3, <2>2, <2>3 DEF Owed, Unqueued
  <2> QED
    BY <1>1, <1>3, <2>2, <2>4, <2>5 DEF Free, OwedVersions
<1>6. CASE Begin(p) \/ Put(p) \/ ParserStops(p)
  <2>1. UNCHANGED <<raw, queue>> /\ faults <= faults'
    <3>1. CASE Begin(p) \/ Put(p)
      <4>1. UNCHANGED <<raw, queue>> /\ faults' = faults
        BY <3>1 DEF Begin, Put
      <4> QED
        BY <1>2, <4>1
    <3>2. CASE ParserStops(p)
      BY <1>1, <3>2 DEF ParserStops, Charge
    <3> QED
      BY <1>6, <3>1, <3>2
  <2>2. faults + commands <= faults' + commands'
    BY <1>4, <2>1
  <2> QED
    BY <1>3, <2>1, <2>2, NothingOwed
<1>7. ASSUME NEW r, NEW s, Mark(p, r, s), ~Holds(p), faults <= faults'
      PROVE  Fitting' /\ Free
  <2>1. UNCHANGED <<raw, queue>>
    BY <1>7 DEF Mark
  <2>2. faults + commands <= faults' + commands'
    BY <1>7, <1>4
  <2> QED
    BY <1>3, <2>1, <2>2, NothingOwed
<1>8. CASE MarkParsed(p)
  <2>1. faults' = faults
    BY <1>8 DEF MarkParsed
  <2>2. CASE Holds(p)
    <3>1. Mark(p, ParsedRow(raw[parser[p].ver], p), "parsed")
      BY <1>8, <2>2 DEF MarkParsed
    <3>2. raw[parser[p].ver].status \in {"fetched", "failed"}
      BY <1>1, <2>2 DEF Holds, Rows, ParsingUnprocessed
    <3>3. PICK r : r = ParsedRow(raw[parser[p].ver], p)
      OBVIOUS
    <3>4. r \in RawRows /\ r.status = "parsed" /\ r.uri
      BY <1>1, <3>2, <3>3 DEF ParsedRow, RawRows
    <3> QED
      BY <1>1, <1>3, <2>1, <2>2, <3>1, <3>3, <3>4, MarkOwes DEF Free
  <2>3. CASE ~Holds(p)
    <3>1. UNCHANGED <<raw, queue>>
      BY <1>8, <2>3 DEF MarkParsed
    <3> QED
      BY <1>1, <1>3, <2>1, <3>1, NothingOwed
  <2> QED
    BY <2>2, <2>3
<1>9. CASE MarkFailed(p)
  <2>1. faults <= faults'
    BY <1>1, <1>9 DEF MarkFailed, Charge
  <2>2. PICK r : r = [raw[parser[p].ver] EXCEPT !.status = "failed", !.pv = parser[p].pv]
    OBVIOUS
  <2>3. Mark(p, r, "failed")
    BY <1>9, <2>2 DEF MarkFailed
  <2>4. CASE Holds(p)
    <3>1. raw[parser[p].ver].status \in {"fetched", "failed"}
      BY <1>1, <2>4 DEF Holds, Rows, ParsingUnprocessed
    <3>2. r \in RawRows /\ r.status = "failed" /\ r.uri = raw[parser[p].ver].uri
      BY <1>1, <2>2, <3>1 DEF RawRows
    <3>3. Fitting' /\ OwedVersions' \subseteq OwedVersions
      BY <1>3, <2>3, <2>4, <3>2, MarkOwes
    <3>4. faults + commands <= faults' + commands'
      BY <1>4, <2>1
    <3> QED
      BY <3>3, <3>4 DEF Free
  <2> QED
    BY <1>7, <2>1, <2>3, <2>4
<1>10. CASE MarkHeld(p)
  <2>1. faults' = faults + 1
    BY <1>10 DEF MarkHeld, Charge
  <2>2. PICK pv \in {None, parser[p].pv} :
           Mark(p, [raw[parser[p].ver] EXCEPT !.status = "held", !.pv = pv], "held")
    BY <1>10 DEF MarkHeld
  <2>3. PICK r : r = [raw[parser[p].ver] EXCEPT !.status = "held", !.pv = pv]
    OBVIOUS
  <2>4. Mark(p, r, "held")
    BY <2>2, <2>3
  <2>5. CASE Holds(p)
    <3>1. raw[parser[p].ver].status \in {"fetched", "failed"}
      BY <1>1, <2>5 DEF Holds, Rows, ParsingUnprocessed
    <3>2. r \in RawRows /\ r.status = "held" /\ r.uri = raw[parser[p].ver].uri
      BY <1>1, <2>3, <3>1 DEF RawRows
    <3>3. Fitting' /\ OwedVersions' \subseteq OwedVersions \cup {parser[p].ver}
      BY <1>3, <2>4, <2>5, <3>2, MarkOwes
    <3> QED
      BY <1>1, <1>3, <2>1, <3>3 DEF Charged
  <2>6. CASE ~Holds(p)
    BY <1>1, <1>7, <2>1, <2>4, <2>6
  <2> QED
    BY <2>5, <2>6
<1> QED
  BY <1>5, <1>6, <1>8, <1>9, <1>10 DEF ParserStep

\* A step that only takes processable versions in hand, or lays them down.
LEMMA HandsOwe ==
    ASSUME Rows, Fitting, UNCHANGED <<raw, queue, collector, admin, retry>>,
           \A v \in Versions : AtWork(v)' => AtWork(v) \/ Processable(v)
    PROVE  Fitting' /\ OwedVersions' \subseteq OwedVersions
<1>1. \A v \in Versions : Processable(v) => raw[v].uri /\ queue[v].status # "absent"
  BY DEF Processable, Fitting, Fit
<1>2. admin.locked \subseteq Versions
  BY DEF Rows, TypeOK, AdminStates
<1>3. Fitting'
  BY <1>1, <1>2 DEF Fitting, Fit
<1>4. \A v \in Versions : Unqueued(v)' = Unqueued(v)
  BY DEF Unqueued
<1>5. \A v \in Versions : Owed(v)' => Owed(v)
  BY <1>1, <1>4 DEF Owed
<1> QED
  BY <1>3, <1>5 DEF OwedVersions

\* A step that changes the row of one version, and nothing in the others' way.
LEMMA RowOwes ==
    ASSUME Rows, Fitting, NEW v \in Versions, Unlocked(v), UNCHANGED <<collector, admin, retry>>,
           \A u \in Versions : u # v => raw'[u] = raw[u] /\ queue'[u] = queue[u],
           \A u \in Versions : AtWork(u)' => AtWork(u),
           raw'[v].status = "absent" => raw[v].status = "absent",
           Fit(v)', queue'[v].status # "absent"
    PROVE  /\ Fitting' /\ OwedVersions' \subseteq OwedVersions \cup {v}
           /\ (Owed(v)' => Owed(v)) => OwedVersions' \subseteq OwedVersions
<1>1. admin.locked \subseteq Versions /\ v \notin admin.locked
  BY DEF Rows, TypeOK, AdminStates, Unlocked
<1>2. \A u \in Versions : u # v => (Fit(u) => Fit(u)')
  BY DEF Fit
<1>3. Fitting'
  BY <1>1, <1>2 DEF Fitting
<1>4. \A u \in Versions : u # v => (Unqueued(u)' => Unqueued(u))
  BY DEF Unqueued
<1>5. \A u \in Versions : u # v => (Owed(u)' => Owed(u))
  BY <1>4 DEF Owed
<1> QED
  BY <1>3, <1>5 DEF OwedVersions

\* A chunker or an indexer marks the version it has in hand.
LEMMA MarkedInHand ==
    ASSUME Rows, Fitting, NEW v \in Versions, AtWork(v), NEW s \in {"indexed", "failed"},
           raw' = [raw EXCEPT ![v].status = s], queue' = QueueUpdated(v, s), Unlocked(v),
           UNCHANGED <<collector, admin, retry>>, \A u \in Versions : AtWork(u)' => AtWork(u)
    PROVE  Fitting' /\ OwedVersions' \subseteq OwedVersions
<1>1. raw[v] \in RawRows /\ queue[v].status # "absent"
  BY DEF Rows, TypeOK, Fitting
<1>2. queue' = QueueStatus(v, s)
  BY <1>1 DEF QueueUpdated
<1>3. /\ raw'[v].status = s /\ raw'[v].uri = raw[v].uri
      /\ \A u \in Versions : u # v => raw'[u] = raw[u]
  BY <1>1 DEF Rows, TypeOK, RawRows
<1>4. queue'[v].status = s /\ \A u \in Versions : u # v => queue'[u] = queue[u]
  BY <1>2 DEF Rows, TypeOK, QueueStatus, QueueRows
<1>5. Fit(v)'
  BY <1>3, <1>4 DEF Fit
<1>6. Owed(v)' => Owed(v)
  BY <1>3 DEF Owed, Unqueued
<1> QED
  BY <1>3, <1>4, <1>5, <1>6, RowOwes

\* What the budgets become when a failure or a command is charged, or nothing is.
LEMMA BudgetGrows ==
    ASSUME Rows, Next
    PROVE  /\ faults' = faults + 1 /\ commands' = commands =>
                 faults' + commands' = faults + commands + 1
           /\ commands' = commands + 1 /\ faults' = faults =>
                 faults' + commands' = faults + commands + 1
           /\ faults <= faults' /\ commands <= commands' =>
                 faults + commands <= faults' + commands'
<1>1. /\ faults \in Nat /\ commands \in Nat /\ faults' \in Nat /\ commands' \in Nat
  BY BudgetsCount
<1>2. \A f, c, g, d \in Nat : /\ g = f + 1 /\ d = c => g + d = f + c + 1
                              /\ d = c + 1 /\ g = f => g + d = f + c + 1
                              /\ f <= g /\ c <= d => f + c <= g + d
  OBVIOUS
<1> QED
  BY ONLY <1>1, <1>2

\* A step of a chunker.
LEMMA ChunkerOwes ==
    ASSUME Rows, Fitting, NEW k \in Chunkers, ChunkerStep(k)
    PROVE  Fitting' /\ (Charged \/ Free)
<1>1. chunker \in [Chunkers -> ChunkerStates] /\ chunker[k].ver \in Versions
      /\ faults \in Nat /\ commands \in Nat
  BY DEF Rows, TypeOK, ChunkerStates
<1>2. UNCHANGED <<collector, indexer, admin, retry>> /\ commands' = commands
  BY DEF ChunkerStep, ReadTarget, UpsertDocument, ListCurrentChunks, Lock, Commit,
     ChunkerStops, SameChunker
<1>3. \A l \in Chunkers : l # k => chunker'[l] = chunker[l]
  BY <1>1 DEF ChunkerStep, ReadTarget, UpsertDocument, ListCurrentChunks, Lock, Commit, ChunkerStops
<1>4. ASSUME chunker'[k].pc # "idle" => /\ chunker[k].pc # "idle" /\ chunker'[k].ver = chunker[k].ver
                                        \/ Processable(chunker'[k].ver)
      PROVE  \A v \in Versions : AtWork(v)' => AtWork(v) \/ Processable(v)
  BY <1>2, <1>3, <1>4 DEF AtWork
<1>5. ASSUME chunker'[k].pc = "idle" PROVE \A v \in Versions : AtWork(v)' => AtWork(v)
  BY <1>2, <1>3, <1>5 DEF AtWork
<1>6. faults <= faults' => faults + commands <= faults' + commands'
  BY <1>1, <1>2, BudgetGrows DEF Next
<1>7. CASE ReadTarget(k)
  <2>1. UNCHANGED <<raw, queue>> /\ faults' = faults
    BY <1>7 DEF ReadTarget
  <2>2. Processable(chunker'[k].ver)
    <3>1. PICK v \in Versions :
             /\ Latest(v)
             /\ \E t : chunker' = [chunker EXCEPT ![k] =
                                     [pc |-> "read", ver |-> v, text |-> t, match |-> FALSE]]
      BY <1>7 DEF ReadTarget
    <3>2. chunker'[k].ver = v
      BY <1>1, <3>1
    <3> QED
      BY <3>1, <3>2 DEF Latest
  <2>3. Fitting' /\ OwedVersions' \subseteq OwedVersions
    BY <1>2, <1>4, <2>1, <2>2, HandsOwe
  <2> QED
    BY <1>1, <1>6, <2>1, <2>3 DEF Free
<1>8. CASE UpsertDocument(k) \/ ListCurrentChunks(k) \/ Lock(k)
  <2>1. UNCHANGED <<raw, queue>> /\ faults' = faults
    BY <1>8 DEF UpsertDocument, ListCurrentChunks, Lock
  <2>2. chunker'[k].pc # "idle" => chunker[k].pc # "idle" /\ chunker'[k].ver = chunker[k].ver
    <3>1. CASE ListCurrentChunks(k)
      <4>1. PICK b : chunker' = [chunker EXCEPT ![k] = [@ EXCEPT !.pc = "prepared", !.match = b]]
        BY <3>1 DEF ListCurrentChunks
      <4>2. chunker[k].pc = "upserted" /\ chunker[k] \in ChunkerStates
        BY <1>1, <3>1 DEF ListCurrentChunks
      <4> QED
        BY <1>1, <4>1, <4>2 DEF ChunkerStates
    <3>2. CASE Lock(k)
      <4>1. \/ chunker' = [chunker EXCEPT ![k].pc = "writing"]
            \/ chunker' = [chunker EXCEPT ![k] = IdleChunker]
        BY <3>2 DEF Lock
      <4>2. chunker[k].pc = "prepared" /\ chunker[k] \in ChunkerStates
        BY <1>1, <3>2 DEF Lock
      <4> QED
        BY <1>1, <4>1, <4>2, IdleChunkerType DEF ChunkerStates
    <3>3. CASE UpsertDocument(k)
      BY <1>1, <3>3 DEF UpsertDocument, ChunkerStates
    <3> QED
      BY <1>8, <3>1, <3>2, <3>3
  <2>3. Fitting' /\ OwedVersions' \subseteq OwedVersions
    BY <1>2, <1>4, <2>1, <2>2, HandsOwe
  <2> QED
    BY <1>1, <1>6, <2>1, <2>3 DEF Free
<1>9. CASE Commit(k)
  <2>1. PICK v \in Versions : v = chunker[k].ver
    BY <1>1
  <2>2. /\ chunker[k].pc = "writing" /\ Unlocked(v) /\ faults' = faults
        /\ raw' = [raw EXCEPT ![v].status = "indexed"] /\ queue' = QueueUpdated(v, "indexed")
        /\ chunker'[k] = IdleChunker
    BY <1>1, <1>9, <2>1 DEF Commit
  <2>3. AtWork(v)
    BY <2>1, <2>2 DEF AtWork
  <2>4. Fitting' /\ OwedVersions' \subseteq OwedVersions
    BY <1>2, <1>5, <2>2, <2>3, MarkedInHand, IdleChunkerType
  <2> QED
    BY <1>1, <1>6, <2>2, <2>4 DEF Free
<1>10. CASE ChunkerStops(k)
  <2>1. UNCHANGED <<raw, queue>> /\ chunker'[k] = IdleChunker
    BY <1>1, <1>10 DEF ChunkerStops
  <2>2. faults <= faults'
    BY <1>1, <1>10 DEF ChunkerStops, Charge
  <2>3. Fitting' /\ OwedVersions' \subseteq OwedVersions
    BY <1>2, <1>5, <2>1, HandsOwe, IdleChunkerType
  <2> QED
    BY <1>6, <2>2, <2>3 DEF Free
<1> QED
  BY <1>7, <1>8, <1>9, <1>10 DEF ChunkerStep

\* A step of an indexer.
LEMMA IndexerOwes ==
    ASSUME Rows, Fitting, NEW g \in Indexers, IndexerStep(g)
    PROVE  Fitting' /\ (Charged \/ Free)
<1>1. indexer \in [Indexers -> IndexerStates] /\ indexer[g].ver \in Versions
      /\ faults \in Nat /\ commands \in Nat
  BY DEF Rows, TypeOK, IndexerStates
<1>2. UNCHANGED <<collector, chunker, admin, retry>> /\ commands' = commands
  BY DEF IndexerStep, ReadGraphTarget, StoreGraph, GraphFails, IndexerStops, SameIndexer
<1>3. \A h \in Indexers : h # g => indexer'[h] = indexer[h]
  BY <1>1 DEF IndexerStep, ReadGraphTarget, StoreGraph, GraphFails, IndexerStops
<1>4. ASSUME indexer'[g].pc = "idle" PROVE \A v \in Versions : AtWork(v)' => AtWork(v)
  BY <1>2, <1>3, <1>4 DEF AtWork
<1>5. IdleWorker.pc = "idle"
  BY DEF IdleWorker
<1>6. faults <= faults' => faults + commands <= faults' + commands'
  BY <1>1, <1>2, BudgetGrows DEF Next
<1>7. CASE ReadGraphTarget(g)
  <2>1. UNCHANGED <<raw, queue>> /\ faults' = faults
    BY <1>7 DEF ReadGraphTarget
  <2>2. Processable(indexer'[g].ver)
    BY <1>1, <1>7 DEF ReadGraphTarget
  <2>3. \A v \in Versions : AtWork(v)' => AtWork(v) \/ Processable(v)
    BY <1>2, <1>3, <2>2 DEF AtWork
  <2>4. Fitting' /\ OwedVersions' \subseteq OwedVersions
    BY <1>2, <2>1, <2>3, HandsOwe
  <2> QED
    BY <1>1, <1>6, <2>1, <2>4 DEF Free
<1>8. CASE StoreGraph(g) \/ GraphFails(g)
  <2>1. PICK v \in Versions : v = indexer[g].ver
    BY <1>1
  <2>2. PICK s \in {"indexed", "failed"} :
          raw' = [raw EXCEPT ![v].status = s] /\ queue' = QueueUpdated(v, s)
    BY <1>8, <2>1 DEF StoreGraph, GraphFails
  <2>3. indexer[g].pc = "indexing" /\ Unlocked(v) /\ indexer'[g] = IdleWorker
    BY <1>1, <1>8, <2>1 DEF StoreGraph, GraphFails
  <2>4. faults <= faults'
    BY <1>1, <1>8 DEF StoreGraph, GraphFails, Charge
  <2>5. AtWork(v)
    BY <2>1, <2>3 DEF AtWork
  <2>6. Fitting' /\ OwedVersions' \subseteq OwedVersions
    BY <1>2, <1>4, <1>5, <2>2, <2>3, <2>5, MarkedInHand
  <2> QED
    BY <1>6, <2>4, <2>6 DEF Free
<1>9. CASE IndexerStops(g)
  <2>1. UNCHANGED <<raw, queue>> /\ indexer'[g] = IdleWorker
    BY <1>1, <1>9 DEF IndexerStops
  <2>2. faults <= faults'
    BY <1>1, <1>9 DEF IndexerStops, Charge
  <2>3. Fitting' /\ OwedVersions' \subseteq OwedVersions
    BY <1>2, <1>4, <1>5, <2>1, HandsOwe
  <2> QED
    BY <1>6, <2>2, <2>3 DEF Free
<1> QED
  BY <1>7, <1>8, <1>9 DEF IndexerStep

\* A lease lapses.
LEMMA LapseOwes ==
    ASSUME Rows, Fitting, NEW v \in Versions, LeaseLapses(v)
    PROVE  Fitting' /\ (Charged \/ Free)
<1>1. /\ UNCHANGED <<raw, collector, chunker, indexer, admin, retry>> /\ commands' = commands
      /\ queue' = [queue EXCEPT ![v].live = FALSE]
  BY DEF LeaseLapses, SameParser
<1>2. \A u \in Versions : queue'[u].status = queue[u].status
  BY <1>1 DEF Rows, TypeOK, QueueRows
<1>3. \A u \in Versions : AtWork(u)' = AtWork(u) /\ Unqueued(u)' = Unqueued(u)
  BY <1>1, <1>2 DEF AtWork, Unqueued
<1>4. admin.locked \subseteq Versions
  BY DEF Rows, TypeOK, AdminStates
<1>5. Fitting'
  BY <1>1, <1>2, <1>3, <1>4 DEF Fitting, Fit
<1>6. \A u \in Versions : Owed(u)' = Owed(u)
  BY <1>1, <1>3 DEF Owed
<1>7. faults <= faults' /\ commands <= commands'
  BY <1>1 DEF LeaseLapses, Charge, Rows, TypeOK
<1>8. faults + commands <= faults' + commands'
  BY <1>7, BudgetGrows DEF Next
<1> QED
  BY <1>5, <1>6, <1>8 DEF Free, OwedVersions

\* ingest:retry: what it selects as parsed has its artifact, and if that is taken
\* from it before the update, the reprocessing has been charged for it.
LEMMA RetryOwes ==
    ASSUME Rows, Fitting, RetrySelects \/ RetryUpdates
    PROVE  Fitting' /\ OwedVersions' \subseteq OwedVersions
<1>1. UNCHANGED <<collector, chunker, indexer, admin>> /\ admin.locked \subseteq Versions
  BY DEF RetrySelects, RetryUpdates, SameOperator, Rows, TypeOK, AdminStates
<1>2. \A v \in Versions : AtWork(v)' = AtWork(v)
  BY <1>1 DEF AtWork
<1>3. CASE RetrySelects
  <2>1. /\ UNCHANGED <<raw, queue>>
        /\ retry' = [v \in Versions |-> IF Resettable(v) THEN RetryStatus(v) ELSE "none"]
    BY <1>3 DEF RetrySelects
  <2>2. Fitting'
    BY <1>1, <1>2, <2>1 DEF Fitting, Fit
  <2>3. \A v \in Versions : retry'[v] = "parsed" => raw[v].uri
    BY <2>1 DEF RetryStatus
  <2>4. \A v \in Versions : Unqueued(v)' = Unqueued(v)
    BY <1>1, <2>1 DEF Unqueued
  <2>5. \A v \in Versions : Owed(v)' => Owed(v)
    BY <1>2, <2>1, <2>3, <2>4 DEF Owed
  <2> QED
    BY <2>2, <2>5 DEF OwedVersions
<1>4. CASE RetryUpdates
  <2>1. /\ retry' = NoRetry /\ \A v \in Retried : v \notin admin.locked
        /\ \A v \in Versions : v \in Retried <=> retry[v] # "none"
    BY <1>4 DEF RetryUpdates, Retried, Unlocked
  <2>2. \A v \in Versions : retry'[v] # "parsed"
    BY <2>1 DEF NoRetry
  <2>3. \A v \in Versions : Fit(v)' /\ (AtWork(v)' => queue'[v].status # "absent")
    BY <1>2, <1>4, RetriedRow DEF Fitting, Fit
  <2>4. \A v \in admin.locked : queue'[v] = queue[v]
    BY <1>1, <1>4, <2>1, RetriedRow
  <2>5. Fitting'
    BY <1>1, <2>3, <2>4 DEF Fitting
  <2>6. ASSUME NEW v \in Versions, Owed(v)' PROVE Owed(v)
    <3>1. CASE v \in Retried
      BY <1>2, <1>4, <2>2, <2>6, <3>1, RetriedRow DEF Owed, Unqueued
    <3>2. CASE v \notin Retried
      <4>1. raw'[v] = raw[v] /\ queue'[v] = queue[v]
        BY <1>4, <3>2, RetriedRow
      <4>2. Unqueued(v)' => Unqueued(v)
        BY <1>1, <4>1 DEF Unqueued
      <4> QED
        BY <1>2, <2>2, <2>6, <4>1, <4>2 DEF Owed
    <3> QED
      BY <3>1, <3>2
  <2> QED
    BY <2>5, <2>6 DEF OwedVersions
<1> QED
  BY <1>3, <1>4

\* The administrator's retry: its first statement and its commit.
LEMMA AdminOwes ==
    ASSUME Rows, Fitting, AdminRetries \/ AdminCommits
    PROVE  Fitting' /\ OwedVersions' \subseteq OwedVersions
<1>1. UNCHANGED <<collector, chunker, indexer, retry>>
  BY DEF AdminRetries, AdminCommits, SameOperator
<1>2. \A v \in Versions : AtWork(v)' = AtWork(v)
  BY <1>1 DEF AtWork
<1>3. CASE AdminRetries
  <2>1. UNCHANGED <<raw, queue>>
        /\ admin'.locked = {v \in Versions : queue[v].status \in {"failed", "held"}}
    BY <1>3 DEF AdminRetries
  <2>2. Fitting'
    BY <1>2, <2>1 DEF Fitting, Fit
  <2>3. \A v \in Versions : Owed(v)' => Owed(v)
    BY <1>1, <1>2, <2>1 DEF Owed, Unqueued
  <2> QED
    BY <2>2, <2>3 DEF OwedVersions
<1>4. CASE AdminCommits
  <2>1. raw \in [Versions -> RawRows] /\ queue \in [Versions -> QueueRows] /\ admin'.locked = {}
    BY <1>4 DEF AdminCommits, Rows, TypeOK
  <2>2. ASSUME NEW v \in Versions
        PROVE  /\ v \in admin.locked => raw'[v].status = "fetched" /\ raw'[v].uri = raw[v].uri
               /\ v \notin admin.locked => raw'[v] = raw[v]
    <3>1. raw'[v] = IF v \in admin.locked THEN [raw[v] EXCEPT !.status = "fetched"] ELSE raw[v]
      BY <1>4 DEF AdminCommits
    <3> QED
      BY <2>1, <3>1 DEF RawRows
  <2>3. ASSUME NEW v \in Versions
        PROVE  \/ queue'[v].status = "pending" /\ queue[v].status \in {"failed", "held"}
               \/ queue'[v] = queue[v]
    BY <1>4 DEF AdminCommits
  <2>4. \A v \in Versions : v \in admin.locked => queue[v].status \notin {"absent", "parsed", "indexed"}
    BY DEF Fitting
  <2>5. \A v \in Versions : Fit(v)'
    BY <2>2, <2>3, <2>4 DEF Fitting, Fit
  <2>6. \A v \in Versions : AtWork(v)' => queue'[v].status # "absent"
    BY <1>2, <2>3 DEF Fitting
  <2>7. Fitting'
    BY <2>1, <2>5, <2>6 DEF Fitting
  <2>8. ASSUME NEW v \in Versions, Unqueued(v)' PROVE Unqueued(v)
    BY <1>1, <2>2, <2>3, <2>4, <2>8 DEF Unqueued
  <2>9. ASSUME NEW v \in Versions, Owed(v)', ~Unqueued(v)' PROVE Owed(v)
    BY <1>1, <1>2, <2>2, <2>9 DEF Owed
  <2>10. \A v \in Versions : Owed(v)' => Owed(v)
    BY <2>8, <2>9 DEF Owed
  <2> QED
    BY <2>7, <2>10 DEF OwedVersions
<1> QED
  BY <1>3, <1>4

\* ingest:reprocess sends one version back, which a chunker or an indexer may have
\* in hand.
LEMMA ReprocessOwes ==
    ASSUME Rows, Fitting, Reprocess
    PROVE  Fitting' /\ \E x : OwedVersions' \subseteq OwedVersions \cup {x}
<1>1. UNCHANGED <<collector, chunker, indexer, admin, retry>>
  BY DEF Reprocess, SameOperator
<1>2. \A v \in Versions : AtWork(v)' = AtWork(v)
  BY <1>1 DEF AtWork
<1>3. PICK v \in Versions :
        /\ Outdated(v) /\ Unlocked(v)
        /\ raw' = [raw EXCEPT ![v] = [@ EXCEPT !.status = "fetched", !.uri = FALSE, !.pv = None]]
        /\ queue' = QueueStatus(v, "pending")
  BY DEF Reprocess
<1>4. raw'[v].status = "fetched" /\ \A u \in Versions : u # v => raw'[u] = raw[u]
  BY <1>3 DEF Rows, TypeOK, RawRows
<1>5. queue'[v].status = "pending" /\ \A u \in Versions : u # v => queue'[u] = queue[u]
  BY <1>3 DEF Rows, TypeOK, QueueRows, QueueStatus
<1>6. Fit(v)'
  BY <1>4, <1>5 DEF Fit
<1> QED
  BY <1>1, <1>2, <1>3, <1>4, <1>5, <1>6, RowOwes

\* A step of an operator: it is charged, except for what follows one that was.
LEMMA OperatorOwes ==
    ASSUME Rows, Fitting, OperatorStep
    PROVE  Fitting' /\ (Charged \/ Free)
<1>1. faults' = faults
  BY DEF OperatorStep, RetrySelects, RetryUpdates, AdminRetries, AdminCommits,
     Promote, Reprocess, SameOperator
<1>2. CASE AdminCommits \/ RetryUpdates
  <2>1. commands' = commands
    BY <1>2 DEF AdminCommits, RetryUpdates
  <2>2. faults + commands <= faults' + commands'
    BY <1>1, <2>1, BudgetGrows DEF Next, Rows, TypeOK
  <2> QED
    BY <1>2, <2>2, AdminOwes, RetryOwes DEF Free
<1>3. CASE ~(AdminCommits \/ RetryUpdates)
  <2>1. commands' = commands + 1
    BY <1>3 DEF OperatorStep, RetrySelects, AdminRetries, Promote, Reprocess, Command
  <2>2. faults' + commands' = faults + commands + 1
    BY <1>1, <2>1, BudgetGrows DEF Next
  <2>3. Fitting' /\ \E x : OwedVersions' \subseteq OwedVersions \cup {x}
    <3>1. CASE RetrySelects \/ AdminRetries
      BY <3>1, RetryOwes, AdminOwes
    <3>2. CASE Reprocess
      BY <3>2, ReprocessOwes
    <3>3. CASE Promote
      <4>1. UNCHANGED <<raw, queue, collector, chunker, indexer, admin, retry>>
        BY <3>3 DEF Promote, SameOperator
      <4>2. \A v \in Versions : AtWork(v)' = AtWork(v)
        BY <4>1 DEF AtWork
      <4> QED
        BY <4>1, <4>2, HandsOwe
    <3> QED
      BY <1>3, <3>1, <3>2, <3>3 DEF OperatorStep
  <2> QED
    BY <2>2, <2>3 DEF Charged
<1> QED
  BY <1>2, <1>3

\* Initially nothing is owed.
LEMMA OwedInit == Init => Fitting /\ OwedCharged
<1> SUFFICES ASSUME Init PROVE Fitting /\ OwedCharged
  OBVIOUS
<1>1. \A v \in Versions : ~AtWork(v)
  BY DEF Init, AtWork, IdleChunker, IdleWorker
<1>2. /\ \A v \in Versions : raw[v].status = "absent" /\ queue[v].status = "absent"
      /\ admin.locked = {} /\ retry = NoRetry /\ faults = 0 /\ commands = 0
  BY DEF Init
<1>3. Fitting
  BY <1>1, <1>2 DEF Fitting, Fit
<1>4. OwedVersions = {}
  BY <1>1, <1>2 DEF OwedVersions, Owed, Unqueued, NoRetry
<1>5. IsFiniteSet(OwedVersions) /\ Cardinality(OwedVersions) = 0
  BY <1>4, FS_EmptySet
<1> QED
  BY <1>2, <1>3, <1>5 DEF OwedCharged

\* Every step charges what becomes owed by it.
LEMMA OwedStep == Rows /\ Fitting /\ OwedCharged /\ [Next]_vars => Fitting' /\ OwedCharged'
<1> SUFFICES ASSUME Rows, Fitting, OwedCharged, [Next]_vars PROVE Fitting' /\ OwedCharged'
  OBVIOUS
<1>1. Fitting' /\ (Charged \/ Free)
  <2>1. CASE SourceChanges \/ UNCHANGED vars
    <3>1. UNCHANGED <<raw, queue, collector, chunker, indexer, admin, retry>>
      BY <2>1 DEF SourceChanges, vars, store, procs
    <3>2. faults' = faults /\ commands' = commands
      BY <2>1 DEF SourceChanges, vars
    <3>3. faults + commands <= faults' + commands'
      BY <3>2 DEF Rows, TypeOK
    <3> QED
      BY <3>1, <3>3, NothingOwed
  <2> QED
    BY <2>1, CollectorOwes, ParserOwes, LapseOwes, ChunkerOwes, IndexerOwes, OperatorOwes DEF Next
<1>2. PICK n \in Nat : n = faults + commands
  BY DEF Rows, TypeOK
<1>3. PICK m \in Nat : m = faults' + commands'
  <2>1. Rows'
    BY RowsStep
  <2>2. faults' \in Nat /\ commands' \in Nat
    BY <2>1 DEF Rows, TypeOK
  <2>3. \A f, c \in Nat : f + c \in Nat
    OBVIOUS
  <2>4. faults' + commands' \in Nat
    BY <2>2, <2>3
  <2> QED
    BY <2>4
<1>4. PICK S : S = OwedVersions
  OBVIOUS
<1>5. PICK T : T = OwedVersions'
  OBVIOUS
<1>6. IsFiniteSet(S) /\ Cardinality(S) <= n
  BY <1>2, <1>4 DEF OwedCharged
<1>7. \/ T \subseteq S /\ n <= m
      \/ (\E x : T \subseteq S \cup {x}) /\ m = n + 1
  BY <1>1, <1>2, <1>3, <1>4, <1>5 DEF Charged, Free
<1>8. IsFiniteSet(T) /\ Cardinality(T) <= m
  <2>1. CASE T \subseteq S /\ n <= m
    <3>1. IsFiniteSet(T) /\ Cardinality(T) <= n
      BY <1>6, <2>1, OneMore
    <3> QED
      BY <2>1, <3>1, FS_CardinalityType
  <2>2. CASE (\E x : T \subseteq S \cup {x}) /\ m = n + 1
    BY <1>6, <2>2, OneMore
  <2> QED
    BY <1>7, <2>1, <2>2
<1> QED
  BY <1>1, <1>3, <1>5, <1>8 DEF OwedCharged

\* Each version that is inserted and not queued, held, or sent back under a chunker
\* or indexer at work is owed to a failure or a command of its own.
THEOREM OwedChargedAlways == Spec => [](Fitting /\ OwedCharged)
<1>1. Init => Rows /\ Fitting /\ OwedCharged
  BY RowsInit, OwedInit
<1>2. Rows /\ Fitting /\ OwedCharged /\ [Next]_vars => (Rows /\ Fitting /\ OwedCharged)'
  BY RowsStep, OwedStep
<1> QED
  BY <1>1, <1>2, PTL DEF Spec

\* No more versions are stranded than there were failures and commands: the
\* processes by themselves strand none, in whatever order they come.
THEOREM NothingStrandedAlways == Spec => []NothingStranded
<1>1. Rows /\ Fitting /\ OwedCharged => NothingStranded
  <2> SUFFICES ASSUME Rows, Fitting, OwedCharged PROVE NothingStranded
    OBVIOUS
  <2> DEFINE T == {v \in Versions : Stranded(v)}
  <2>1. T \subseteq OwedVersions
    BY StrandedIsOwed DEF OwedVersions
  <2>2. PICK n \in Nat : n = faults + commands
    BY DEF Rows, TypeOK
  <2>3. PICK S : S = OwedVersions
    OBVIOUS
  <2>4. IsFiniteSet(S) /\ Cardinality(S) <= n
    BY <2>2, <2>3 DEF OwedCharged
  <2> HIDE DEF T
  <2>5. Cardinality(T) <= n
    BY <2>1, <2>3, <2>4, OneMore
  <2> QED
    BY <2>2, <2>5 DEF NothingStranded, T
<1>2. Init => Rows
  BY RowsInit
<1>3. Rows /\ [Next]_vars => Rows'
  BY RowsStep
<1> QED
  BY <1>1, <1>2, <1>3, OwedChargedAlways, PTL DEF Spec
=============================================================================
