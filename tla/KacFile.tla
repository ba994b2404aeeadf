------------------------------ MODULE KacFile --------------------------------
(***************************************************************************)
(* A topic saved by "kac consume --output-file" and produced again by "kac *)
(* produce" (packages/kafka-avro-cli): FileWritable gathers the events by  *)
(* partition and rewrites the whole file for each of them, FileReadable    *)
(* reads the partitions back, AvroSerializer encodes them for the producer.*)
(***************************************************************************)
EXTENDS Integers, Sequences, SequencesExt

CONSTANTS
  TopicPartitions,
  Keys, Schemas, Payloads,  (* what events have *)
  Encodes,     (* the pairs of a schema and a value it can encode *)
  Json,        (* what JSON.parse(JSON.stringify()) makes of a value *)
  Topics       (* the topics considered: a sequence of events per partition *)

Event == [key : Keys, schema : Schemas, value : Payloads]

(* Kafka numbers the partitions of a topic from 0. *)
ASSUME TopicPartitionsAssumption ==
  TopicPartitions \subseteq Nat /\ \A p \in TopicPartitions : 0..p \subseteq TopicPartitions
ASSUME JsonAssumption == Json \in [Payloads -> Payloads]
(* What was decoded with a schema can be encoded with it. *)
ASSUME TopicsAssumption ==
  /\ Topics \subseteq [TopicPartitions -> Seq(Event)]
  /\ \A topic \in Topics, p \in TopicPartitions : \A i \in 1..Len(topic[p]) :
       <<topic[p][i].schema, topic[p][i].value>> \in Encodes

VARIABLES
  topic,     (* the events of each partition, in order *)
  taken,     (* how many of them _write() has called back for *)
  requests,  (* FileWritable.requests: the partitions met so far *)
  file,      (* what there is of the file, and the requests in it *)
  consume,   (* kac consume: ready for an event, writing the file, or over *)
  reader,    (* FileReadable: the requests read, the next partition, its end *)
  queue,     (* the requests waiting for AvroSerializer *)
  sending,   (* those waiting for the producer, encoded *)
  produced,  (* the events sent to each partition by kac produce *)
  failed     (* what broke the pipeline of kac produce *)

consumeVars == <<topic, taken, requests, file, consume>>
produceVars == <<reader, queue, sending, produced, failed>>
fileVars == <<topic, taken, requests, file, consume, reader, queue, sending, produced, failed>>

FileInit ==
  /\ topic \in Topics
  /\ taken = [p \in TopicPartitions |-> 0]
  /\ requests = <<>>
  /\ file = [state |-> "none", requests |-> <<>>]
  /\ consume = "ready"
  /\ reader = [open |-> FALSE, requests |-> <<>>, partition |-> 0, ended |-> FALSE]
  /\ queue = <<>> /\ sending = <<>>
  /\ produced = [p \in TopicPartitions |-> <<>>]
  /\ failed = "no"

-----------------------------------------------------------------------------
(* Faulty variant: the key of the first event of all. *)
RequestOfFirst(p, event) ==
  IF p \in DOMAIN requests THEN requests[p]
  ELSE [partition |-> p, schema |-> event.schema, messages |-> <<>>,
        key |-> IF DOMAIN requests = {} THEN event.key
                ELSE requests[CHOOSE q \in DOMAIN requests : TRUE].key]

RequestOf(p, event) ==
  IF p \in DOMAIN requests THEN requests[p]
  ELSE [partition |-> p, key |-> event.key, schema |-> event.schema, messages |-> <<>>]

(* The first event of a partition makes its request, with its key and its  *)
(* schema; the later ones add their value, which JSON changes in the file. *)
With(p, event) ==
  [q \in DOMAIN requests \cup {p} |->
     IF q = p THEN [RequestOf(p, event) EXCEPT !.messages = Append(@, Json[event.value])]
     ELSE requests[q]]

(* FileWritable._write(): writeFileSync() empties the file,                *)
Empty ==
  /\ consume = "ready" /\ \E p \in TopicPartitions : taken[p] < Len(topic[p])
  /\ file' = [state |-> "torn", requests |-> <<>>]
  /\ consume' = "writing"
  /\ UNCHANGED <<topic, taken, requests>> /\ UNCHANGED produceVars

(* Faulty variant: the file is written before the event is added. *)
WriteBefore(p) ==
  /\ consume = "writing" /\ taken[p] < Len(topic[p])
  /\ requests' = With(p, topic[p][taken[p] + 1])
  /\ file' = [state |-> "whole", requests |-> requests]
  /\ taken' = [taken EXCEPT ![p] = @ + 1]
  /\ consume' = "ready"
  /\ UNCHANGED topic /\ UNCHANGED produceVars

(* writes all of it, with the event, and the next one is asked for.        *)
Write(p) ==
  /\ consume = "writing" /\ taken[p] < Len(topic[p])
  /\ requests' = With(p, topic[p][taken[p] + 1])
  /\ file' = [state |-> "whole", requests |-> requests']
  /\ taken' = [taken EXCEPT ![p] = @ + 1]
  /\ consume' = "ready"
  /\ UNCHANGED topic /\ UNCHANGED produceVars

(* kac consume ends, is interrupted, or cannot write: any time, also       *)
(* between emptying the file and the last byte of what it should hold.     *)
Stop ==
  /\ consume # "over"
  /\ consume' = "over"
  /\ UNCHANGED <<topic, taken, requests, file>> /\ UNCHANGED produceVars

-----------------------------------------------------------------------------
(* "kac produce" is run on the file afterwards.  A file that is not there, *)
(* or of which a part is missing, cannot be read.                          *)
Open ==
  /\ consume = "over" /\ ~reader.open
  /\ reader' = [reader EXCEPT !.open = TRUE, !.requests = file.requests]
  /\ failed' = IF file.state = "whole" THEN "no" ELSE "unread"
  /\ UNCHANGED <<queue, sending, produced>> /\ UNCHANGED consumeVars

(* FileReadable._read(): push(next()), where the first partition that is   *)
(* missing ends the stream.                                                *)
Read ==
  /\ reader.open /\ ~reader.ended /\ failed = "no"
  /\ IF reader.partition \in DOMAIN reader.requests
     THEN /\ queue' = Append(queue, reader.requests[reader.partition])
          /\ reader' = [reader EXCEPT !.partition = @ + 1]
     ELSE reader' = [reader EXCEPT !.ended = TRUE] /\ UNCHANGED queue
  /\ UNCHANGED <<sending, produced, failed>> /\ UNCHANGED consumeVars

Fits(request) ==
  \A i \in 1..Len(request.messages) : <<request.schema, request.messages[i]>> \in Encodes

(* AvroSerializer._transform(): an error leaves it without its input.      *)
Serialize ==
  /\ queue # <<>> /\ failed = "no"
  /\ \/ /\ Fits(Head(queue))
        /\ queue' = Tail(queue)
        /\ sending' = Append(sending, Head(queue))
        /\ UNCHANGED failed
     \/ (* toBuffer() throws. *)
        /\ ~Fits(Head(queue))
        /\ failed' = "unencodable"
        /\ UNCHANGED <<queue, sending>>
     \/ (* resolver.toId() is rejected. *)
        /\ failed' = "unregistered"
        /\ UNCHANGED <<queue, sending>>
  /\ UNCHANGED <<reader, produced>> /\ UNCHANGED consumeVars

(* The events of a request, encoded with its schema, with its key. *)
EventsIn(request) ==
  [i \in 1..Len(request.messages) |->
     [key |-> request.key, schema |-> request.schema, value |-> request.messages[i]]]

(* The ProducerStream.  It may have sent what it reports an error of; what *)
(* it holds then stays with it.  What it held when another stream failed   *)
(* may still go out before it is closed.                                   *)
Send ==
  /\ sending # <<>> /\ failed # "unsent"
  /\ LET request == Head(sending)
         sent == [produced EXCEPT ![request.partition] = @ \o EventsIn(request)]
     IN  \/ produced' = sent /\ UNCHANGED failed
         \/ produced' \in {produced, sent} /\ failed' = "unsent"
  /\ sending' = Tail(sending)
  /\ UNCHANGED <<reader, queue>> /\ UNCHANGED consumeVars

FileNext ==
  Empty \/ (\E p \in TopicPartitions : Write(p)) \/ Stop \/ Open \/ Read \/ Serialize \/ Send

FileSpec == FileInit /\ [][FileNext]_fileVars

-----------------------------------------------------------------------------
Request == [partition : TopicPartitions, key : Keys, schema : Schemas, messages : Seq(Payloads)]

(* Requests by their partition *)
ByPartition(f) == f \in [DOMAIN f -> Request] /\ DOMAIN f \subseteq TopicPartitions

FileTypeOK ==
  /\ topic \in Topics
  /\ taken \in [TopicPartitions -> Nat]
  /\ ByPartition(requests) /\ ByPartition(file.requests) /\ ByPartition(reader.requests)
  /\ file \in [state : {"none", "torn", "whole"}, requests : {file.requests}]
  /\ consume \in {"ready", "writing", "over"}
  /\ reader \in [open : BOOLEAN, requests : {reader.requests}, partition : Nat, ended : BOOLEAN]
  /\ queue \in Seq(Request) /\ sending \in Seq(Request)
  /\ produced \in [TopicPartitions -> Seq(Event)]
  /\ failed \in {"no", "unread", "unencodable", "unregistered", "unsent"}

(* The values of the first n events of a partition, as JSON leaves them.   *)
Kept(p, n) == [i \in 1..n |-> Json[topic[p][i].value]]

(* FileWritable asks for an event only when the file holds all that came   *)
(* before it, each partition in its order; so wherever kac consume stops,  *)
(* nothing of that is missing, unless it stops inside the writing of the   *)
(* file: then nothing in it can be read, and all of it is lost.  (The      *)
(* invariant begins with the types of the variables.)                      *)
FileHoldsConsumed ==
  /\ FileTypeOK
  /\ consume = "ready" => file.state # "torn"
  /\ file.state # "torn" => \A p \in TopicPartitions :
       IF p \in DOMAIN file.requests
       THEN file.state = "whole" /\ file.requests[p].messages = Kept(p, taken[p])
       ELSE taken[p] = 0

(* Whatever the topic and whatever fails: what goes out to a partition is  *)
(* what was taken of it, from the start and in its order, as JSON left it. *)
Values(events) == [i \in 1..Len(events) |-> events[i].value]

ValuesKeepOrder ==
  \A p \in TopicPartitions : \E n \in 0..taken[p] : Values(produced[p]) = Kept(p, n)

ProduceEnded == reader.ended /\ queue = <<>> /\ sending = <<>> /\ failed = "no"

(* When kac produce ends without an error, all that was taken of the       *)
(* partitions before the first empty one went out again, each event once.  *)
EveryEventProduced ==
  ProduceEnded => \A p \in TopicPartitions :
    (\A q \in 0..p : taken[q] # 0) => Values(produced[p]) = Kept(p, taken[p])

(* A partition whose events have one key has it back when it is produced,  *)
(* and one whose events have one schema has that, whatever the others have.*)
OneKey(events) == \A i, j \in 1..Len(events) : events[i].key = events[j].key
OneSchema(events) == \A i, j \in 1..Len(events) : events[i].schema = events[j].schema

KeysAndSchemasKept ==
  \A p \in TopicPartitions : \A i \in 1..Len(produced[p]) :
    /\ OneKey(topic[p]) => produced[p][i].key = topic[p][i].key
    /\ OneSchema(topic[p]) => produced[p][i].schema = topic[p][i].schema

(* Only a partition with several schemas, or a value that JSON changes,    *)
(* cannot be encoded; only a file that holds no event, because none was    *)
(* given or because its writing was cut off, cannot be read.               *)
FailsForAReason ==
  /\ failed = "unencodable" => \E p \in TopicPartitions :
       ~OneSchema(topic[p]) \/ \E i \in 1..Len(topic[p]) : Json[topic[p][i].value] # topic[p][i].value
  /\ failed = "unread" =>
       file.state = "torn" \/ \A p \in TopicPartitions : taken[p] = 0

(* What "kac produce" makes of the file is what "kac consume" was given,   *)
(* in those four ways.                                                     *)
ProducedAsConsumed ==
  ValuesKeepOrder /\ EveryEventProduced /\ KeysAndSchemasKept /\ FailsForAReason

(* consume.ts:37: the results are saved "into a file, that can later be    *)
(* used to produce those events".  So when kac produce has gone through    *)
(* the file without an error, it produced every event that was consumed.   *)
FileProducesThoseEvents ==
  ProduceEnded => \A p \in TopicPartitions : Len(produced[p]) = taken[p]
=============================================================================
