-------------------------- MODULE DocumentPipeline --------------------------
(***************************************************************************)
(* How one document of a source gets into the search index: collectors     *)
(* store each version they meet (raw_documents) and queue it               *)
(* (ingestion_queue), parsers turn it into a parsed artifact in object     *)
(* storage, chunkers make the newest parsed version the document's         *)
(* (documents, document_chunks), indexers relate it in the graph.  Each of *)
(* them is a process of its own (scripts/collect-source.ts,                *)
(* parse-raw-documents.ts, chunk-and-embed.ts, index-graph-relations.ts),  *)
(* run by ingest:run, by a dispatcher's job or by hand; operators put      *)
(* failed, held or outdated versions back.                                 *)
(*                                                                         *)
(* A step is a statement or a transaction that commits; a transaction      *)
(* whose statements see each other's rivals (READ COMMITTED) is two.  Text *)
(* says what a version parsed by a parser version reads like: chunks are   *)
(* the text they were cut from.  A parsed artifact is put at a path made   *)
(* of the version's source_id, lower-cased and cut after 160 characters:   *)
(* the versions of a page whose URL is long enough have one object.        *)
(*                                                                         *)
(* A definition that stands just before another one and bears its name     *)
(* with a qualifier is a faulty variant that the specification does not    *)
(* use: it shows which property would catch that fault.                    *)
(***************************************************************************)
EXTENDS Integers, FiniteSets

CONSTANTS
    Versions,        \* what the source may hold of the document (source_version)
    First,           \* the version it begins with
    Becomes,         \* the pairs of a version and one that may replace it
    ParserVersions,  \* approved parser versions
    FirstParser,     \* the one that is active first
    Text,            \* Text[v, p]: the text of version v parsed by p
    Objects,         \* parsed artifacts in object storage
    Layouts,         \* how paths may map versions to objects
    Collectors, Parsers, Chunkers, Indexers,   \* processes
    None,            \* SQL NULL
    Budgets,         \* bound: how many faults (crashes, failures, lapses of a parser's
                     \* lease) and how many operators' commands there may be together
    MaxRequeues      \* bound: failed versions that collectors queue again

ASSUME SourceAssumption == First \in Versions /\ Becomes \subseteq Versions \X Versions
ASSUME ParserAssumption == FirstParser \in ParserVersions
ASSUME TextAssumption   == None \notin {Text[x] : x \in Versions \X ParserVersions}
ASSUME LayoutAssumption == Layouts \subseteq [Versions -> Objects]
ASSUME NoneAssumption   == None \notin Versions \cup ParserVersions \cup Chunkers
ASSUME BoundAssumption  == Budgets \subseteq Nat \X Nat /\ MaxRequeues \in Nat

VARIABLES
    source,      \* the version the source holds
    raw,         \* raw_documents, one row for each version
    rows,        \* how many rows it has: the next one is the newest
    queue,       \* ingestion_queue, one row for each version
    object,      \* parsedStorageUri: the object each version is parsed into
    stored,      \* object storage: the text of each parsed artifact
    active,      \* the active parser version
    doc,         \* the documents row and the chunks it has
    lock,        \* the chunker whose transaction has the documents row
    graph,       \* the version the document's graph relations come from
    collector, parser, chunker, indexer,   \* what each process has in hand
    admin,       \* the administrator's retry: the raw rows its transaction has
    retry,       \* ingest:retry: what it has read that each raw row becomes
    taken,       \* the versions that have been taken back once they were processable
    faults, commands, requeues   \* how much of the budgets is spent

store == <<raw, rows, queue, doc, graph>>
procs == <<collector, parser, chunker, indexer, admin, retry>>
vars  == <<source, store, object, stored, active, lock, procs, taken, faults, commands, requeues>>

-----------------------------------------------------------------------------
(* State. *)

Texts == {Text[x] : x \in Versions \X ParserVersions}

\* at: the row's place in the order of (created_at, id); uri: parsed_uri is set;
\* pv: parser_version_id.
RawRows ==
    {r \in [status : {"absent", "fetched", "held", "parsed", "indexed", "failed"},
            at : Nat, uri : BOOLEAN, pv : ParserVersions \cup {None}] :
        r.status = "absent" <=> r.at = 0}

\* live: a row in "parsing" whose lease has not run out.
QueueRows ==
    {q \in [status : {"absent", "pending", "parsing", "parsed", "indexed", "failed", "held"},
            attempts : Nat, live : BOOLEAN] :
        q.live => q.status = "parsing"}

Documents == [raw : Versions \cup {None}, chunks : Texts \cup {None}]

\* todo: the attempts count with which each target was dequeued, 0 for none.
CollectorStates == [pc : {"idle", "storing", "queueing"}, ver : Versions]
ParserStates    == [pc : {"idle", "working", "stored", "failing"}, todo : [Versions -> Nat],
                    ver : Versions, pv : ParserVersions]
ChunkerStates   == [pc : {"idle", "read", "upserted", "prepared", "writing"}, ver : Versions,
                    text : Texts \cup {None}, match : BOOLEAN]
IndexerStates   == [pc : {"idle", "indexing"}, ver : Versions]
AdminStates     == [busy : BOOLEAN, locked : SUBSET Versions]
RetryStates     == [Versions -> {"none", "fetched", "parsed"}]

TypeOK == /\ source \in Versions
          /\ raw \in [Versions -> RawRows] /\ rows \in Nat
          /\ queue \in [Versions -> QueueRows]
          /\ object \in Layouts /\ stored \in [Objects -> Texts \cup {None}]
          /\ active \in ParserVersions
          /\ doc \in Documents
          /\ lock \in Chunkers \cup {None}
          /\ graph \in Versions \cup {None}
          /\ collector \in [Collectors -> CollectorStates]
          /\ parser \in [Parsers -> ParserStates]
          /\ chunker \in [Chunkers -> ChunkerStates]
          /\ indexer \in [Indexers -> IndexerStates]
          /\ admin \in AdminStates /\ retry \in RetryStates
          /\ taken \subseteq Versions
          /\ faults \in Nat /\ commands \in Nat /\ requeues \in Nat

IdleWorker  == [pc |-> "idle", ver |-> First]
IdleParser  == [pc |-> "idle", todo |-> [v \in Versions |-> 0], ver |-> First, pv |-> FirstParser]
IdleChunker == [pc |-> "idle", ver |-> First, text |-> None, match |-> FALSE]
NoRetry     == [v \in Versions |-> "none"]

Init == /\ source = First
        /\ raw = [v \in Versions |-> [status |-> "absent", at |-> 0, uri |-> FALSE, pv |-> None]]
        /\ rows = 0
        /\ queue = [v \in Versions |-> [status |-> "absent", attempts |-> 0, live |-> FALSE]]
        /\ object \in Layouts /\ stored = [o \in Objects |-> None]
        /\ active = FirstParser
        /\ doc = [raw |-> None, chunks |-> None]
        /\ lock = None
        /\ graph = None
        /\ collector = [c \in Collectors |-> IdleWorker]
        /\ parser = [p \in Parsers |-> IdleParser]
        /\ chunker = [k \in Chunkers |-> IdleChunker]
        /\ indexer = [g \in Indexers |-> IdleWorker]
        /\ admin = [busy |-> FALSE, locked |-> {}] /\ retry = NoRetry
        /\ taken = {} /\ faults = 0 /\ commands = 0 /\ requeues = 0

-----------------------------------------------------------------------------
(* Rows. *)

Within(f, c) == \E b \in Budgets : f <= b[1] /\ c <= b[2]
Charge(n) == Within(faults + n, commands) /\ faults' = faults + n
Command == Within(faults, commands + 1) /\ commands' = commands + 1

Present(v) == raw[v].status # "absent"
Newer(u, v) == raw[u].at > raw[v].at

\* What chunkers and indexers read.
Processable(v) == raw[v].status \in {"parsed", "indexed"} /\ raw[v].uri

\* The newest of them (readParsedDocuments, lockLatestProcessableDocumentVersion).
LatestAny(v) == Processable(v)
Latest(v) == Processable(v) /\ \A u \in Versions : Processable(u) => ~Newer(u, v)

\* The raw rows are not locked by the administrator's open transaction.
Unlocked(v) == v \notin admin.locked

QueueStatusLeased(v, s) == [queue EXCEPT ![v].status = s]
QueueStatus(v, s) == [queue EXCEPT ![v] = [@ EXCEPT !.status = s, !.live = FALSE]]

\* The queue row of an indexed or failed version, if it has one.
QueueUpdated(v, s) == IF queue[v].status = "absent" THEN queue ELSE QueueStatus(v, s)

-----------------------------------------------------------------------------
(* The source. *)

SourceChanges ==
    \E v \in Versions :
        /\ <<source, v>> \in Becomes
        /\ source' = v
        /\ UNCHANGED <<store, object, stored, active, lock, procs, taken, faults, commands,
                       requeues>>

-----------------------------------------------------------------------------
(* Collecting: fetch what the source holds and look it up; a new version is  *)
(* inserted and queued, one that failed is queued again.                     *)

SameCollector == UNCHANGED <<source, object, stored, active, doc, lock, graph, parser, chunker,
                             indexer, admin, retry, taken, commands>>

\* queueCandidate is called for a row just inserted and for a failed one.
QueueNeededForFailed(v, inserted) == raw[v].status = "failed"
QueueNeeded(v, inserted) == inserted \/ raw[v].status = "failed"

Scan(c) ==
    /\ collector[c].pc = "idle"
    /\ \/ /\ ~Present(source)
          /\ collector' = [collector EXCEPT ![c] = [pc |-> "storing", ver |-> source]]
          /\ UNCHANGED requeues
       \/ /\ Present(source) /\ QueueNeeded(source, FALSE)
          /\ requeues < MaxRequeues /\ requeues' = requeues + 1
          /\ collector' = [collector EXCEPT ![c] = [pc |-> "queueing", ver |-> source]]
    /\ UNCHANGED <<raw, rows, queue, faults>> /\ SameCollector

\* INSERT ... ON CONFLICT DO NOTHING; the row of a rival is read instead.
Upsert(c) ==
    LET v == collector[c].ver IN
    /\ collector[c].pc = "storing"
    /\ IF Present(v) THEN UNCHANGED <<raw, rows>>
       ELSE /\ rows' = rows + 1
            /\ raw' = [raw EXCEPT ![v] = [@ EXCEPT !.status = "fetched", !.at = rows + 1]]
    /\ collector' = [collector EXCEPT ![c] =
                       IF QueueNeeded(v, ~Present(v)) THEN [@ EXCEPT !.pc = "queueing"]
                                                      ELSE IdleWorker]
    /\ UNCHANGED <<queue, faults, requeues>> /\ SameCollector

\* ON CONFLICT DO UPDATE: the row is pending again, whoever is at work on it.
QueueCandidate(c) ==
    /\ collector[c].pc = "queueing"
    /\ queue' = [queue EXCEPT ![collector[c].ver] =
                   [status |-> "pending", attempts |-> 0, live |-> FALSE]]
    /\ collector' = [collector EXCEPT ![c] = IdleWorker]
    /\ UNCHANGED <<raw, rows, faults, requeues>> /\ SameCollector

CollectorStops(c) ==
    /\ collector[c].pc # "idle"
    /\ Charge(1)
    /\ collector' = [collector EXCEPT ![c] = IdleWorker]
    /\ UNCHANGED <<raw, rows, queue, requeues>> /\ SameCollector

-----------------------------------------------------------------------------
(* Parsing: a batch of targets is dequeued with a lease, then worked on one  *)
(* after the other.  The artifact is put before the rows are updated, and    *)
(* they are only if the queue row still has the attempts count of the        *)
(* dequeue; if it has not, the process ends.                                 *)

SameParser == UNCHANGED <<source, rows, object, active, doc, lock, graph, collector, chunker,
                          indexer, admin, retry, taken, commands, requeues>>

Expired(v) == queue[v].status = "parsing" /\ ~queue[v].live
DequeuableFresh(v) == /\ queue[v].status \in {"pending", "failed"}
                      /\ raw[v].status \in {"fetched", "failed"}
Dequeuable(v) == /\ queue[v].status \in {"pending", "failed"} \/ Expired(v)
                 /\ raw[v].status \in {"fetched", "failed"}

Dequeue(p, batch) ==
    /\ parser[p].pc = "idle"
    /\ parser[p].todo = IdleParser.todo
    /\ batch # {} /\ \A v \in batch : Dequeuable(v)
    /\ queue' = [v \in Versions |->
                   IF v \in batch THEN [status |-> "parsing", attempts |-> queue[v].attempts + 1,
                                        live |-> TRUE]
                                  ELSE queue[v]]
    /\ parser' = [parser EXCEPT ![p].todo =
                    [v \in Versions |-> IF v \in batch THEN queue[v].attempts + 1 ELSE 0]]
    /\ UNCHANGED <<raw, stored, faults>> /\ SameParser

\* The active parser version is looked up for each target.
Begin(p) ==
    /\ parser[p].pc = "idle"
    /\ \E v \in Versions :
          /\ parser[p].todo[v] > 0
          /\ parser' = [parser EXCEPT ![p] = [@ EXCEPT !.pc = "working", !.ver = v, !.pv = active]]
    /\ UNCHANGED <<raw, queue, stored, faults>> /\ SameParser

\* What is there is overwritten, the artifact of another version included.
Put(p) ==
    /\ parser[p].pc = "working"
    /\ stored' = [stored EXCEPT ![object[parser[p].ver]] = Text[parser[p].ver, parser[p].pv]]
    /\ parser' = [parser EXCEPT ![p].pc = "stored"]
    /\ UNCHANGED <<raw, queue, faults>> /\ SameParser

\* WHERE status = 'parsing' AND attempts = expectedAttempts
Holds(p) == LET v == parser[p].ver IN
            queue[v].status = "parsing" /\ queue[v].attempts = parser[p].todo[v]

\* markParsed, markFailed and markHeld.  Without the row they throw: markParsed
\* into markFailed, the others out of the process, which leaves the rest of its
\* batch until the leases run out.
Mark(p, r, status) ==
    LET v == parser[p].ver IN
    IF Holds(p)
    THEN /\ Unlocked(v)
         /\ queue' = QueueStatus(v, status)
         /\ raw' = [raw EXCEPT ![v] = r]
         /\ parser' = [parser EXCEPT ![p] = [IdleParser EXCEPT !.todo =
                         [parser[p].todo EXCEPT ![v] = 0]]]
    ELSE /\ parser' = [parser EXCEPT ![p] = IdleParser]
         /\ UNCHANGED <<raw, queue>>

ParsedRow(r, p) == [r EXCEPT !.status = "parsed", !.uri = TRUE, !.pv = parser[p].pv]

MarkParsedFirst(p) ==
    /\ parser[p].pc \in {"working", "stored"}
    /\ Mark(p, ParsedRow(raw[parser[p].ver], p), "parsed")
    /\ UNCHANGED <<stored, faults>> /\ SameParser
MarkParsed(p) ==
    /\ parser[p].pc = "stored"
    /\ IF Holds(p)
       THEN Mark(p, ParsedRow(raw[parser[p].ver], p), "parsed")
       ELSE parser' = [parser EXCEPT ![p].pc = "failing"] /\ UNCHANGED <<raw, queue>>
    /\ UNCHANGED <<stored, faults>> /\ SameParser

MarkFailed(p) ==
    /\ parser[p].pc # "idle"
    /\ Charge(IF parser[p].pc = "failing" THEN 0 ELSE 1)
    /\ Mark(p, [raw[parser[p].ver] EXCEPT !.status = "failed", !.pv = parser[p].pv], "failed")
    /\ UNCHANGED stored /\ SameParser

\* No approved parser, or the raw does not match its contract.
MarkHeld(p) ==
    /\ parser[p].pc = "working"
    /\ Charge(1)
    /\ \E pv \in {None, parser[p].pv} :
          Mark(p, [raw[parser[p].ver] EXCEPT !.status = "held", !.pv = pv], "held")
    /\ UNCHANGED stored /\ SameParser

ParserStops(p) ==
    /\ parser[p] # IdleParser
    /\ Charge(1)
    /\ parser' = [parser EXCEPT ![p] = IdleParser]
    /\ UNCHANGED <<raw, queue, stored>> /\ SameParser

\* A lease of 15 minutes is not renewed: if its parser is at work it is late.
InHand(v) == \E p \in Parsers : parser[p].todo[v] > 0 /\ parser[p].todo[v] = queue[v].attempts
LeaseLapses(v) ==
    /\ queue[v].status = "parsing" /\ queue[v].live
    /\ Charge(IF InHand(v) THEN 1 ELSE 0)
    /\ queue' = [queue EXCEPT ![v].live = FALSE]
    /\ UNCHANGED <<raw, stored, parser>> /\ SameParser

-----------------------------------------------------------------------------
(* Chunking: the newest processable version is read, the document found or   *)
(* inserted and its chunks compared; then one transaction locks the          *)
(* document, looks whether the version is still the newest, and makes it the *)
(* document's.                                                               *)

SameChunker == UNCHANGED <<source, rows, object, stored, active, graph, collector, parser, indexer,
                           admin, retry, taken, commands, requeues>>

\* The version's object is read, whatever was put there last.
ReadTarget(k) ==
    /\ chunker[k].pc = "idle"
    /\ \E v \in Versions :
          /\ Latest(v) /\ stored[object[v]] # None
          /\ chunker' = [chunker EXCEPT ![k] = [pc |-> "read", ver |-> v,
                                                text |-> stored[object[v]], match |-> FALSE]]
    /\ UNCHANGED <<raw, queue, doc, lock, faults>> /\ SameChunker

\* ORDER BY ingest_status DESC, parsed_at LIMIT: versions that are parsed come
\* before those that are indexed, which a batch may never get to.
ReadParsed(k) == (\E v \in Versions : Latest(v) /\ raw[v].status = "parsed") /\ ReadTarget(k)

\* It waits for the row's lock.
UpsertDocument(k) ==
    /\ chunker[k].pc = "read"
    /\ lock = None
    /\ doc' = IF doc.raw = None THEN [doc EXCEPT !.raw = chunker[k].ver] ELSE doc
    /\ chunker' = [chunker EXCEPT ![k].pc = "upserted"]
    /\ UNCHANGED <<raw, queue, lock, faults>> /\ SameChunker

ListCurrentChunks(k) ==
    /\ chunker[k].pc = "upserted"
    /\ chunker' = [chunker EXCEPT ![k] = [@ EXCEPT !.pc = "prepared",
                                                   !.match = (doc.chunks = chunker[k].text)]]
    /\ UNCHANGED <<raw, queue, doc, lock, faults>> /\ SameChunker

\* lockLatestProcessableDocumentVersion; false: the version is superseded.
Lock(k) ==
    /\ chunker[k].pc = "prepared"
    /\ lock = None
    /\ IF Latest(chunker[k].ver)
       THEN lock' = k /\ chunker' = [chunker EXCEPT ![k].pc = "writing"]
       ELSE chunker' = [chunker EXCEPT ![k] = IdleChunker] /\ UNCHANGED lock
    /\ UNCHANGED <<raw, queue, doc, faults>> /\ SameChunker

\* activateDocumentVersion if the chunks match, replaceDocumentChunks if not.
NewChunks(k) == IF chunker[k].match THEN doc.chunks ELSE chunker[k].text

Commit(k) ==
    LET v == chunker[k].ver IN
    /\ chunker[k].pc = "writing"
    /\ Unlocked(v)
    /\ doc' = [raw |-> v, chunks |-> NewChunks(k)]
    /\ raw' = [raw EXCEPT ![v].status = "indexed"]
    /\ queue' = QueueUpdated(v, "indexed")
    /\ lock' = None
    /\ chunker' = [chunker EXCEPT ![k] = IdleChunker]
    /\ UNCHANGED faults /\ SameChunker

\* The process dies or a statement, a read or the embedding fails.
ChunkerStops(k) ==
    /\ chunker[k].pc # "idle"
    /\ Charge(1)
    /\ chunker' = [chunker EXCEPT ![k] = IdleChunker]
    /\ lock' = IF lock = k THEN None ELSE lock
    /\ UNCHANGED <<raw, queue, doc>> /\ SameChunker

-----------------------------------------------------------------------------
(* The graph: documents without a node, those whose version is parsed but    *)
(* not indexed, and indexed ones that lack an edge to a document they name;  *)
(* one transaction writes the relations and marks the version.               *)

SameIndexer == UNCHANGED <<source, rows, object, stored, active, doc, lock, collector, parser,
                           chunker, admin, retry, commands, requeues>>

\* An edge is missing as long as the other document is not there, and again once
\* it is: any document may be taken, at any time.
ReadGraphTarget(g) ==
    /\ indexer[g].pc = "idle"
    /\ doc.raw # None /\ Processable(doc.raw)
    /\ indexer' = [indexer EXCEPT ![g] = [pc |-> "indexing", ver |-> doc.raw]]
    /\ UNCHANGED <<raw, queue, graph, taken, faults>> /\ SameIndexer

StoreGraph(g) ==
    LET v == indexer[g].ver IN
    /\ indexer[g].pc = "indexing"
    /\ Unlocked(v)
    /\ graph' = v
    /\ raw' = [raw EXCEPT ![v].status = "indexed"]
    /\ queue' = QueueUpdated(v, "indexed")
    /\ indexer' = [indexer EXCEPT ![g] = IdleWorker]
    /\ UNCHANGED <<taken, faults>> /\ SameIndexer

\* The graph transaction is rolled back and the version marked failed.
GraphFails(g) ==
    LET v == indexer[g].ver IN
    /\ indexer[g].pc = "indexing"
    /\ Unlocked(v)
    /\ Charge(1)
    /\ raw' = [raw EXCEPT ![v].status = "failed"]
    /\ queue' = QueueUpdated(v, "failed")
    /\ taken' = taken \cup {v}
    /\ indexer' = [indexer EXCEPT ![g] = IdleWorker]
    /\ UNCHANGED graph /\ SameIndexer

IndexerStops(g) ==
    /\ indexer[g].pc # "idle"
    /\ Charge(1)
    /\ indexer' = [indexer EXCEPT ![g] = IdleWorker]
    /\ UNCHANGED <<raw, queue, graph, taken>> /\ SameIndexer

-----------------------------------------------------------------------------
(* Operators. *)

SameOperator == UNCHANGED <<source, rows, object, stored, doc, lock, graph, collector, parser,
                            chunker, indexer, faults, requeues>>

\* ingest:retry (resetFailedQueue), one statement: it selects from its snapshot and
\* updates by id what it has selected, whatever has become of it by then.
Resettable(v) ==
    \/ queue[v].status = "failed" /\ raw[v].status = "failed"
    \/ Expired(v) /\ raw[v].status \in {"fetched", "failed"}

\* A version that had been parsed needs no parser.
RetryStatus(v) == IF raw[v].uri THEN "parsed" ELSE "fetched"

RetrySelects ==
    /\ retry = NoRetry
    /\ Command
    /\ \E v \in Versions : Resettable(v)
    /\ retry' = [v \in Versions |-> IF Resettable(v) THEN RetryStatus(v) ELSE "none"]
    /\ UNCHANGED <<raw, queue, active, admin, taken>> /\ SameOperator

Retried == {v \in Versions : retry[v] # "none"}

RetryUpdates ==
    /\ Retried # {}
    /\ \A v \in Retried : Unlocked(v)
    /\ raw' = [v \in Versions |->
                 IF v \in Retried THEN [raw[v] EXCEPT !.status = retry[v]] ELSE raw[v]]
    /\ queue' = [v \in Versions |->
                   IF v \in Retried THEN [queue[v] EXCEPT !.status = "pending", !.live = FALSE]
                                    ELSE queue[v]]
    /\ taken' = taken \cup {v \in Retried : Processable(v) /\ retry[v] = "fetched"}
    /\ retry' = NoRetry
    /\ UNCHANGED <<active, admin, commands>> /\ SameOperator

\* The administrator's retry (retryFailedQueue), a transaction of two statements:
\* the raw rows of what is failed or held now, the queue rows of what is then.
AdminRetries ==
    /\ ~admin.busy
    /\ Command
    /\ \E v \in Versions : queue[v].status \in {"failed", "held"}
    /\ admin' = [busy |-> TRUE, locked |-> {v \in Versions : queue[v].status \in {"failed", "held"}}]
    /\ UNCHANGED <<raw, queue, active, retry, taken>> /\ SameOperator

AdminCommits ==
    /\ admin.busy
    /\ raw' = [v \in Versions |->
                 IF v \in admin.locked THEN [raw[v] EXCEPT !.status = "fetched"] ELSE raw[v]]
    /\ queue' = [v \in Versions |->
                   IF queue[v].status \in {"failed", "held"}
                   THEN [status |-> "pending", attempts |-> 0, live |-> FALSE] ELSE queue[v]]
    /\ taken' = taken \cup {v \in admin.locked : Processable(v)}
    /\ admin' = [busy |-> FALSE, locked |-> {}]
    /\ UNCHANGED <<active, retry, commands>> /\ SameOperator

\* Another parser version becomes active (the built-in profiles are seeded anew).
Promote ==
    /\ Command
    /\ active' \in ParserVersions \ {active}
    /\ UNCHANGED <<raw, queue, admin, retry, taken>> /\ SameOperator

\* ingest:reprocess (resetStaleParserRawDocuments): the newest version, if it was
\* parsed by another parser version than the active one, back to the beginning.
Outdated(v) ==
    /\ queue[v].status # "absent"
    /\ raw[v].status \in {"parsed", "indexed"}
    /\ raw[v].pv # active
    /\ \A u \in Versions : raw[u].status \in {"parsed", "indexed"} => ~Newer(u, v)

Reprocess ==
    /\ Command
    /\ \E v \in Versions :
          /\ Outdated(v) /\ Unlocked(v)
          /\ raw' = [raw EXCEPT ![v] = [@ EXCEPT !.status = "fetched", !.uri = FALSE, !.pv = None]]
          /\ queue' = QueueStatus(v, "pending")
          /\ taken' = taken \cup {v}
    /\ UNCHANGED <<active, admin, retry>> /\ SameOperator

-----------------------------------------------------------------------------

CollectorStep(c) == Scan(c) \/ Upsert(c) \/ QueueCandidate(c) \/ CollectorStops(c)
ParserStep(p) == \/ \E batch \in SUBSET Versions : Dequeue(p, batch)
                 \/ Begin(p) \/ Put(p) \/ MarkParsed(p) \/ MarkFailed(p) \/ MarkHeld(p)
                 \/ ParserStops(p)
ChunkerStep(k) == \/ ReadTarget(k) \/ UpsertDocument(k) \/ ListCurrentChunks(k)
                  \/ Lock(k) \/ Commit(k) \/ ChunkerStops(k)
IndexerStep(g) == ReadGraphTarget(g) \/ StoreGraph(g) \/ GraphFails(g) \/ IndexerStops(g)
OperatorStep == \/ RetrySelects \/ RetryUpdates \/ AdminRetries \/ AdminCommits
                \/ Promote \/ Reprocess

Next == \/ SourceChanges
        \/ \E c \in Collectors : CollectorStep(c)
        \/ \E p \in Parsers : ParserStep(p)
        \/ \E v \in Versions : LeaseLapses(v)
        \/ \E k \in Chunkers : ChunkerStep(k)
        \/ \E g \in Indexers : IndexerStep(g)
        \/ OperatorStep

Spec == Init /\ [][Next]_vars

\* Collecting and ingesting are started again and again (a dispatcher's schedule,
\* ingest:run with drain), and a process that is alive goes on; versions leave the
\* queue in the order of (scheduled_at, created_at), so none is passed over for
\* good.  A chunker comes to what is parsed (drain goes on until nothing is); that
\* it reads an indexed version again is not assumed, its batch being limited.
Fairness ==
    /\ \A c \in Collectors : WF_vars(Scan(c)) /\ WF_vars(Upsert(c)) /\ WF_vars(QueueCandidate(c))
    /\ \A p \in Parsers : /\ WF_vars(Begin(p)) /\ WF_vars(Put(p)) /\ WF_vars(MarkParsed(p))
                          /\ WF_vars(parser[p].pc = "failing" /\ MarkFailed(p))
                          /\ \A v \in Versions :
                                SF_vars(\E batch \in SUBSET Versions :
                                           v \in batch /\ Dequeue(p, batch))
    /\ \A v \in Versions : WF_vars(LeaseLapses(v))
    /\ \A k \in Chunkers : /\ WF_vars(ReadParsed(k)) /\ WF_vars(ListCurrentChunks(k))
                           /\ WF_vars(Commit(k))
                           /\ SF_vars(UpsertDocument(k)) /\ SF_vars(Lock(k))
    /\ WF_vars(AdminCommits)

FairSpec == Spec /\ Fairness
-----------------------------------------------------------------------------
(* Properties. *)

\* What no process takes up again by itself or after ingest:retry or the
\* administrator's retry: neither queued nor held, or parsed without its artifact.
Stranded(v) ==
    \/ /\ raw[v].status \in {"fetched", "failed"}
       /\ queue[v].status \in {"absent", "parsed", "indexed"}
       /\ \A c \in Collectors : ~(collector[c].pc = "queueing" /\ collector[c].ver = v)
    \/ raw[v].status = "held" /\ queue[v].status # "held"
    \/ raw[v].status \in {"parsed", "indexed"} /\ ~raw[v].uri

\* Each version that is stranded is owed to a crash, a failure or a command that
\* came between two steps (a row inserted but not queued; a retry around a
\* version just held; a reprocessing under a chunker, an indexer or a retry at
\* work).  The processes by themselves strand nothing, in whatever order they come.
NothingStranded == Cardinality({v \in Versions : Stranded(v)}) <= faults + commands

\* The artifact is in the storage before the row refers to it (parseQueueTarget:
\* storage.put, then markParsed), also if several parsers have worked on it.
ProcessableHasArtifact == \A v \in Versions : raw[v].uri => stored[object[v]] # None

\* What has been put at the object of a version may be the text of any version
\* that has the same object.
TextsAt(o) == {Text[x] : x \in {y \in Versions \X ParserVersions : object[y[1]] = o}}
TextsOf(v) == TextsAt(object[v])

\* The chunks that are searched are cut from the object of the version the
\* document refers to, which is that version's own text where no other version
\* has the object, although they are compared in one transaction and activated in
\* another, unless a version was taken back in between (replaceDocumentChunks and
\* activateDocumentVersion lock the document and look again).
ChunksOfDocument ==
    doc.chunks # None /\ taken = {} => doc.chunks \in TextsOf(doc.raw)

\* A chunker that read an older version late does not put the document back: it
\* refers to an older version only if the one it had was taken back
\* (lockLatestProcessableDocumentVersion).
DocumentForward ==
    [][doc'.raw # doc.raw /\ doc.raw # None =>
          raw'[doc'.raw].at > raw'[doc.raw].at \/ doc.raw \in taken]_vars

\* Indexed in the graph after its chunker failed: a chunker takes it again only if
\* its batch has room for what is indexed.
Unchunked(v) ==
    /\ faults > 0
    /\ doc = [raw |-> v, chunks |-> None] /\ raw[v].status = "indexed"
    /\ \A k \in Chunkers : chunker[k].pc = "idle"

\* What the source holds is in the end what is searched (as far as its object is
\* its own), unless the source changes, the version is held by its parser's
\* contract, or it was stranded, left unchunked or taken back (see above).
DocumentFollowsSource ==
    \A v \in Versions :
        source = v ~> \/ source # v
                      \/ doc.raw = v /\ doc.chunks \in TextsOf(v)
                      \/ raw[v].status = "held" \/ Stranded(v) \/ Unchunked(v) \/ v \in taken
=============================================================================
