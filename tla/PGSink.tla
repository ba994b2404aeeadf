------------------------------- MODULE PGSink -------------------------------
(***************************************************************************)
(* packages/kafka-pg-sink/src/PGSinkStream.ts: the Writable that inserts   *)
(* Kafka messages into the table of their topic, fed by a pipe; and the    *)
(* one of packages/bigquery-pg-sink, which makes of the rows of a query    *)
(* the inserts an application's insert() gives, one for each or for all.   *)
(*                                                                         *)
(* Chunk n is the n-th message of Log; a message that Kafka delivers twice *)
(* is there twice, with the same key.  The pipe and the buffer are those   *)
(* of node's streams: _write() and _writev() run one at a time, a chunk    *)
(* that comes meanwhile is buffered, success writes all that is buffered,  *)
(* an error unpipes and leaves the buffer for after the next write.        *)
(***************************************************************************)
EXTENDS Integers, Sequences, FiniteSets, SequencesExt

CONSTANTS
  Topics,         (* the topics of the stream, each with its table *)
  Configured,     (* those with a PGSinkConfig *)
  Keys,           (* primary keys of the rows the resolvers make *)
  Sources,        (* what is piped into which sink: [batches, log] *)
  HighWaterMark   (* the Writable's highWaterMark *)

ASSUME TopicsAssumption == Configured \subseteq Topics
ASSUME SourcesAssumption ==
  Sources \subseteq [batches : {"topic", "row", "all"}, log : Seq([topic : Topics, key : Keys])]
(* All rows of a query are inserted into one table, which needs no config. *)
ASSUME TablesAssumption == \A s \in Sources : s.batches # "topic" =>
  \E t \in Configured : \A n \in DOMAIN s.log : s.log[n].topic = t
ASSUME HighWaterMarkAssumption == HighWaterMark \in Nat \ {0}

VARIABLES
  source,    (* the one of Sources; batches is "topic" for Kafka's sink *)
  written,   (* how many chunks of the log were written to the stream *)
  buffer,    (* the chunks that wait in the Writable *)
  chunks,    (* the argument of the running _write() or _writev() *)
  todo,      (* those of its chunks that are still to be inserted *)
  piped,     (* whether the source is piped into the sink *)
  paused,    (* whether it waits for 'drain' *)
  rows,      (* the chunks that made the rows of each table, in their order *)
  acked,     (* the chunks of the calls that ended with callback(null) *)
  reported   (* the chunks of the errors the stream emitted *)

stream == <<written, buffer, chunks, todo, piped, paused>>
vars == <<source, stream, rows, acked, reported>>

Init ==
  /\ source \in Sources
  /\ written = 0 /\ buffer = <<>> /\ chunks = <<>> /\ todo = <<>>
  /\ piped = TRUE /\ paused = FALSE
  /\ rows = [t \in Topics |-> <<>>]
  /\ acked = {} /\ reported = {}

Log == source.log

topic(n) == Log[n].topic

key(n) == Log[n].key

-----------------------------------------------------------------------------
(* The pipe and the Writable.                                              *)

(* Call _write() (one chunk) or _writev(). *)
Call(ns) == chunks' = ns /\ todo' = ns

Write ==
  /\ piped /\ ~paused
  /\ written < Len(Log)
  /\ written' = written + 1
  /\ IF chunks = <<>>
     THEN Call(<<written'>>) /\ UNCHANGED buffer
     ELSE buffer' = Append(buffer, written') /\ UNCHANGED <<chunks, todo>>
  /\ paused' = (Len(chunks') + Len(buffer') >= HighWaterMark)
  /\ UNCHANGED <<source, piped, rows, acked, reported>>

(* callback(null) *)
Ack ==
  /\ acked' = acked \cup ToSet(chunks)
  /\ Call(buffer)
  /\ buffer' = <<>>
  /\ paused' = (paused /\ buffer # <<>>)
  /\ UNCHANGED <<written, piped, reported>>

(* Faulty variant: the error names only the chunks not inserted yet. *)
ReportRest ==
  /\ reported' = reported \cup ToSet(todo)
  /\ Call(<<>>)
  /\ piped' = FALSE
  /\ UNCHANGED <<written, buffer, paused, acked>>

(* callback(new PGSinkError(...)), callback(new PGSinkMultipleError(...))  *)
(* or, of BigQuery's sink, an error that does not say of which chunks.     *)
Report ==
  /\ reported' = reported \cup ToSet(chunks)
  /\ Call(<<>>)
  /\ piped' = FALSE
  /\ UNCHANGED <<written, buffer, paused, acked>>

(* The application handles the error and pipes again. *)
Repipe ==
  /\ ~piped
  /\ piped' = TRUE /\ paused' = FALSE
  /\ UNCHANGED <<source, written, buffer, chunks, todo, rows, acked, reported>>

-----------------------------------------------------------------------------
(* _write() and _writev(): Object.keys(groupChunks(chunks)) has the topics *)
(* in the order of their first chunk, so the next group is that of the     *)
(* first chunk left.                                                       *)

(* The chunks of the next query *)
Group ==
  CASE source.batches = "topic" -> {n \in ToSet(todo) : topic(n) = topic(Head(todo))}
    [] source.batches = "row" -> {Head(todo)}
    [] source.batches = "all" -> ToSet(todo)

(* Those of the chunks s that are in ns, in the order of s: there is one   *)
(* such sequence, as no chunk is twice in s.                               *)
Filtered(s, ns) == {r \in [1..Cardinality(ns) -> ns] :
  /\ ToSet(r) = ns
  /\ \A i, j \in DOMAIN r : i < j =>
       \E k, l \in DOMAIN s : k < l /\ s[k] = r[i] /\ s[l] = r[j]}

Others == ToSet(todo) \ Group

(* ON CONFLICT DO NOTHING: of the chunks of a key that the table does not  *)
(* have yet the first makes a row.  The plain INSERT of the README of      *)
(* bigquery-pg-sink has no such clause: every chunk makes one.             *)
NewRows(table) ==
  IF source.batches = "topic"
  THEN {n \in Group : /\ \A m \in ToSet(table) : key(m) # key(n)
                     /\ \A m \in Group : key(m) = key(n) => n <= m}
  ELSE Group

(* Faulty variant: a chunk goes in front of its group. *)
InsertReversed(t) ==
  \E new \in Filtered(todo, NewRows(rows[t])) :
    rows' = [rows EXCEPT ![t] = @ \o Reverse(new)]

(* The query is atomic. *)
Insert(t) ==
  \E new \in Filtered(todo, NewRows(rows[t])) :
    rows' = [rows EXCEPT ![t] = @ \o new]

InsertGroup == Insert(topic(Head(todo)))

(* Faulty variant: the callback does not wait for the groups to come. *)
QuerySucceedsEarly ==
  /\ todo # <<>> /\ topic(Head(todo)) \in Configured
  /\ InsertGroup
  /\ Ack

QuerySucceeds ==
  /\ todo # <<>> /\ topic(Head(todo)) \in Configured
  /\ InsertGroup
  /\ IF Others = {} THEN Ack
     ELSE /\ todo' \in Filtered(todo, Others)
          /\ UNCHANGED <<written, buffer, chunks, piped, paused, acked, reported>>

(* The query rejects; when it is the connection that is lost, the database *)
(* may have committed all the same.  A resolver that throws ends here too. *)
QueryFails ==
  /\ todo # <<>> /\ topic(Head(todo)) \in Configured
  /\ InsertGroup \/ UNCHANGED rows
  /\ Report

(* Faulty variant: a missing config is thrown outside the try. *)
ConfigMissingUncaught ==
  /\ todo # <<>> /\ topic(Head(todo)) \notin Configured
  /\ UNCHANGED vars

(* configForTopic() throws, the groups before are inserted. *)
ConfigMissing ==
  /\ todo # <<>> /\ topic(Head(todo)) \notin Configured
  /\ Report
  /\ UNCHANGED rows

Sink == (QuerySucceeds \/ QueryFails \/ ConfigMissing) /\ UNCHANGED source

Next == Write \/ Repipe \/ Sink

Spec == Init /\ [][Next]_vars

(* Queries are answered or fail with the connection. *)
FairSpec == Spec /\ WF_vars(Sink)

-----------------------------------------------------------------------------
Chunks == 1..Len(Log)
MaxLength == Max({Len(s.log) : s \in Sources})

TypeOK ==
  /\ source \in Sources
  /\ written \in 0..Len(Log)
  /\ buffer \in Seq(Chunks) /\ chunks \in Seq(Chunks) /\ todo \in Seq(Chunks)
  /\ piped \in BOOLEAN /\ paused \in BOOLEAN
  /\ rows \in [Topics -> Seq(Chunks)]
  /\ acked \subseteq Chunks /\ reported \subseteq Chunks

(* A chunk whose callback came without an error has its row in the table   *)
(* of its own topic, made by it or by another delivery of its message.  A  *)
(* table has only rows of messages of its topic; with ON CONFLICT it has   *)
(* one of each key, however often a message is delivered.                  *)
AckedIsStored ==
  /\ \A n \in acked : \E m \in ToSet(rows[topic(n)]) : key(m) = key(n)
  /\ \A t \in Topics : \A i \in DOMAIN rows[t] :
       /\ rows[t][i] \in 1..written /\ topic(rows[t][i]) = t
       /\ source.batches = "topic" =>
            \A j \in DOMAIN rows[t] : key(rows[t][i]) = key(rows[t][j]) => i = j

(* Every chunk written to the stream is in exactly one place: buffered, in *)
(* the running call, acknowledged or reported in an error.  A failure part *)
(* of the way through a batch loses none of its chunks.  (The invariant    *)
(* begins with the types of the variables.)                                *)
EveryChunkAccounted ==
  /\ TypeOK
  /\ 1..written = ToSet(buffer) \cup ToSet(chunks) \cup acked \cup reported
  /\ written = Len(buffer) + Len(chunks) + Cardinality(acked) + Cardinality(reported)

(* Until a first error a table has the rows of its topic in the order of   *)
(* the log.                                                                *)
OrderedUntilError ==
  reported = {} =>
    \A t \in Topics : \A i, j \in DOMAIN rows[t] : i < j => rows[t][i] < rows[t][j]

(* Every call of _write() and _writev() ends with its callback. *)
CallbackAlwaysCalled ==
  \A n \in 1..MaxLength : n \in ToSet(chunks) ~> n \in acked \cup reported
=============================================================================
