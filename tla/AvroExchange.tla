---------------------------- MODULE AvroExchange ----------------------------
(***************************************************************************)
(* packages/avro-stream over packages/schema-registry-api: AvroSerializers *)
(* that look up or register the schema of each request, the messages with  *)
(* the id of their schema in front, and AvroDeserializers that share the   *)
(* cache of one SchemaRegistryResolver.                                    *)
(*                                                                         *)
(* An id is a position in the list of all schemas the registry ever got: a *)
(* DELETE hides a schema from its subject and keeps its id.  A buffer is   *)
(* the schema and the value it was made from.                              *)
(*                                                                         *)
(* Both are transforms.  As in RePipeline an 'error' unpipes a stream and  *)
(* leaves its buffer for after the next write, and the application pipes   *)
(* it again or does not.                                                   *)
(***************************************************************************)
EXTENDS Integers, Sequences, FiniteSets, SequencesExt

CONSTANTS
  Producers, Consumers,
  Subjects,      (* one for each topic: toSubject() *)
  Schemas,
  Values,
  Encodes,       (* the pairs of a schema and a value that is valid for it *)
  Malformed,     (* what Type.forSchema() does not take for a schema *)
  Requests,      (* those of each producer: [subject, schema, messages] *)
  IdBits,        (* width of the id in front of a message: 32 *)
  Foreign,       (* the buffer of a message that was not made here *)
  Starts,        (* the registry and the log as others left them: [ids, log] *)
  HighWaterMark, (* the highWaterMark of each stream *)
  MaxDeletes     (* bound on the subjects deleted *)

Streams == Producers \cup Consumers

ASSUME EncodesAssumption == Encodes \subseteq (Schemas \ Malformed) \X Values
ASSUME RequestsAssumption ==
  Requests \in [Producers -> Seq([subject : Subjects, schema : Schemas, messages : Seq(Values)])]
ASSUME ForeignAssumption == Foreign \notin Schemas \X Values
ASSUME StreamsAssumption == Producers \cap Consumers = {}
ASSUME StartsAssumption ==
  Starts \subseteq [ids : Seq(Schemas \ Malformed),
                    log : {<<>>, <<[schemaId |-> 0, buffer |-> Foreign]>>}]
ASSUME BoundsAssumption ==
  IdBits \in Nat \ {0} /\ HighWaterMark \in Nat \ {0} /\ MaxDeletes \in Nat

VARIABLES
  ids,        (* the registry: the schemas by their id *)
  subjects,   (* the registry: the ids of the versions of each subject *)
  deletes,    (* how many subjects were deleted *)
  read,       (* how many requests, or messages, were written to each stream *)
  writing,    (* the one it transforms, by its number, 0 if none *)
  waiting,    (* those that wait for it, of which the least came first *)
  piped,      (* whether its source is piped into it *)
  errors,     (* those it called back with an error for *)
  step,       (* how far the _transform() of each serializer is *)
  id,         (* the schemaId it goes on with *)
  log,        (* the Kafka log: [schemaId, buffer] *)
  cache,      (* the cache of the resolver that the consumers share *)
  fetching,   (* the consumers that await idToSchema() *)
  received    (* what came out of each deserializer, with its number *)

registry == <<ids, subjects, deletes>>
streams == <<read, writing, waiting, piped, errors>>
serializers == <<step, id>>
deserializers == <<cache, fetching, received>>
vars == <<registry, streams, serializers, log, deserializers>>

Init ==
  /\ \E start \in Starts : ids = start.ids /\ log = start.log
  /\ subjects = [s \in Subjects |-> {}] /\ deletes = 0
  /\ read = [s \in Streams |-> 0] /\ writing = [s \in Streams |-> 0]
  /\ waiting = [s \in Streams |-> {}] /\ piped = [s \in Streams |-> TRUE]
  /\ errors = [s \in Streams |-> {}]
  /\ step = [p \in Producers |-> "start"] /\ id = [p \in Producers |-> 0]
  /\ cache = <<>> /\ fetching = {} /\ received = [c \in Consumers |-> <<>>]

-----------------------------------------------------------------------------
(* The Writable side of a transform.                                       *)

Available(s) == IF s \in Producers THEN Len(Requests[s]) ELSE Len(log)

(* The pipe into s writes the next item of its source: at most as long as  *)
(* s holds less than its highWaterMark.                                    *)
Pipe(s) ==
  /\ piped[s] /\ read[s] < Available(s)
  /\ Cardinality(waiting[s] \cup ({writing[s]} \ {0})) < HighWaterMark
  /\ read' = [read EXCEPT ![s] = @ + 1]
  /\ IF writing[s] = 0
     THEN writing' = [writing EXCEPT ![s] = read[s] + 1] /\ UNCHANGED waiting
     ELSE waiting' = [waiting EXCEPT ![s] = @ \cup {read[s] + 1}] /\ UNCHANGED writing
  /\ UNCHANGED <<registry, piped, errors, serializers, log, deserializers>>

(* The application pipes s again, after an error. *)
Repipe(s) ==
  /\ ~piped[s]
  /\ piped' = [piped EXCEPT ![s] = TRUE]
  /\ UNCHANGED <<registry, read, writing, waiting, errors, serializers, log, deserializers>>

(* callback(undefined, ...): the first that waits is next. *)
Done(s) ==
  /\ \/ waiting[s] = {} /\ writing' = [writing EXCEPT ![s] = 0]
     \/ \E n \in waiting[s] :
          (\A m \in waiting[s] : n <= m) /\ writing' = [writing EXCEPT ![s] = n]
  /\ waiting' = [waiting EXCEPT ![s] = @ \ {writing'[s]}]
  /\ UNCHANGED <<read, piped, errors>>

(* callback(error): s is unpiped, what waits left for after the next write. *)
Error(s) ==
  /\ errors' = [errors EXCEPT ![s] = @ \cup {writing[s]}]
  /\ writing' = [writing EXCEPT ![s] = 0]
  /\ piped' = [piped EXCEPT ![s] = FALSE]
  /\ UNCHANGED <<read, waiting>>

-----------------------------------------------------------------------------
(* The id in front of a message: written without a sign, which throws when *)
(* it is too wide, and read with one.                                      *)

Writable(n) == n < 2^IdBits
writeUInt32BE(n) == n
readInt32BE(n) == IF n >= 2^(IdBits - 1) THEN n - 2^IdBits ELSE n

(* Faulty variant: the id is that of the message before. *)
constructStale(n, buffer) ==
  [schemaId |-> IF log = <<>> THEN n ELSE Last(log).schemaId, buffer |-> buffer]

constructMessage(n, buffer) == [schemaId |-> writeUInt32BE(n), buffer |-> buffer]
deconstructMessage(m) == [schemaId |-> readInt32BE(m.schemaId), buffer |-> m.buffer]

-----------------------------------------------------------------------------
(* Serializers: _transform(), SchemaRegistryResolver.toId(), schemaToId(). *)

Request(p) == Requests[p][writing[p]]

Settle(p) ==
  /\ step' = [step EXCEPT ![p] = "start"]
  /\ UNCHANGED <<id, deserializers>>

(* callback(new AvroSerializerError(...)) *)
Reject(p) == Error(p) /\ Settle(p) /\ UNCHANGED log

Proceed(p, to, n) ==
  /\ step' = [step EXCEPT ![p] = to]
  /\ id' = [id EXCEPT ![p] = n]
  /\ UNCHANGED <<streams, log, deserializers>>

Transform(p) ==
  /\ writing[p] # 0 /\ step[p] = "start"
  /\ IF Request(p).schema \in Malformed THEN Reject(p) ELSE Proceed(p, "checking", 0)
  /\ UNCHANGED registry

IdOf(schema) == IF Contains(ids, schema) THEN CHOOSE n \in DOMAIN ids : ids[n] = schema
                ELSE Len(ids) + 1

(* Faulty variant: whatever version the subject has is taken for it. *)
CheckAnyVersion(p) ==
  /\ step[p] = "checking"
  /\ IF subjects[Request(p).subject] # {}
     THEN \E n \in subjects[Request(p).subject] : Proceed(p, "serializing", n)
     ELSE Proceed(p, "adding", 0)
  /\ UNCHANGED registry

(* checkSubjectRegistered() finds the id, or answers with the code 40401   *)
(* or 40403.                                                               *)
CheckSubjectRegistered(p) ==
  /\ step[p] = "checking"
  /\ IF IdOf(Request(p).schema) \in subjects[Request(p).subject]
     THEN Proceed(p, "serializing", IdOf(Request(p).schema))
     ELSE Proceed(p, "adding", 0)
  /\ UNCHANGED registry

(* The registry adds a version; a schema it knows keeps its id. *)
Register(subject, schema) ==
  /\ ids' = IF Contains(ids, schema) THEN ids ELSE Append(ids, schema)
  /\ subjects' = [subjects EXCEPT ![subject] = @ \cup {IdOf(schema)}]
  /\ UNCHANGED deletes

AddSubjectVersion(p) ==
  /\ step[p] = "adding"
  /\ Register(Request(p).subject, Request(p).schema)
  /\ Proceed(p, "serializing", IdOf(Request(p).schema))

(* apiFetch() throws: the registry refuses with another code, or cannot be *)
(* reached, perhaps after it added the version.                            *)
FetchFails(p) ==
  /\ step[p] \in {"checking", "adding"}
  /\ \/ UNCHANGED registry
     \/ step[p] = "adding" /\ Register(Request(p).subject, Request(p).schema)
  /\ Reject(p)

Buffers(p) ==
  LET r == Request(p)
  IN  [i \in DOMAIN r.messages |-> constructMessage(id[p], <<r.schema, r.messages[i]>>)]

Encodable(p) == \A i \in DOMAIN Request(p).messages :
  <<Request(p).schema, Request(p).messages[i]>> \in Encodes /\ Writable(id[p])

(* Faulty variant: messages are sent up to the first that is not valid. *)
SerializeValid(p) ==
  /\ step[p] = "serializing"
  /\ log' = log \o SelectSeq(Buffers(p), LAMBDA m : m.buffer \in Encodes)
  /\ IF Encodable(p) THEN Done(p) ELSE Error(p)
  /\ Settle(p) /\ UNCHANGED registry

Serialize(p) ==
  /\ step[p] = "serializing"
  /\ IF Encodable(p) THEN Done(p) /\ Settle(p) /\ log' = log \o Buffers(p) ELSE Reject(p)
  /\ UNCHANGED registry

Produce(p) ==
  \/ Transform(p) \/ CheckSubjectRegistered(p) \/ AddSubjectVersion(p)
  \/ FetchFails(p) \/ Serialize(p)

(* Somebody deletes a subject: deleteSubject(). *)
DeleteSubject(s) ==
  /\ deletes < MaxDeletes /\ subjects[s] # {}
  /\ subjects' = [subjects EXCEPT ![s] = {}]
  /\ deletes' = deletes + 1
  /\ UNCHANGED <<ids, streams, serializers, log, deserializers>>

-----------------------------------------------------------------------------
(* Deserializers: _transform() and SchemaRegistryResolver.fromId().        *)

Message(c) == deconstructMessage(log[writing[c]])

Deliver(c, content) ==
  /\ Done(c)
  /\ received' = [received EXCEPT ![c] = Append(@, <<writing[c], content>>)]
  /\ fetching' = fetching \ {c}

(* type.fromBuffer(): with another schema the value is not what it was. *)
Decoded(schema, buffer) ==
  IF buffer = Foreign \/ buffer[1] # schema THEN <<schema, Foreign>> ELSE buffer

CallFromId(c) ==
  /\ writing[c] # 0 /\ c \notin fetching
  /\ LET m == Message(c)
     IN  IF m.schemaId \in DOMAIN cache
         THEN Deliver(c, Decoded(cache[m.schemaId], m.buffer))
         ELSE fetching' = fetching \cup {c} /\ UNCHANGED <<streams, received>>
  /\ UNCHANGED <<registry, serializers, log, cache>>

IdToSchema(c) ==
  LET n == Message(c).schemaId
  IN  /\ c \in fetching /\ n \in DOMAIN ids
      /\ cache' = [k \in DOMAIN cache \cup {n} |-> IF k = n THEN ids[n] ELSE cache[k]]
      /\ Deliver(c, Decoded(cache'[n], Message(c).buffer))
      /\ UNCHANGED <<registry, serializers, log>>

(* Faulty variant: the failure is not passed on and the message is lost. *)
DeserializeSilent(c) ==
  /\ c \in fetching
  /\ fetching' = fetching \ {c}
  /\ UNCHANGED <<registry, streams, serializers, log, cache, received>>

(* The fetch fails, or the message is a string, too short or not of its    *)
(* schema: callback(new AvroDeserializerError(...)).                       *)
DeserializeFails(c) ==
  /\ writing[c] # 0
  /\ Error(c)
  /\ fetching' = fetching \ {c}
  /\ UNCHANGED <<registry, serializers, log, cache, received>>

Consume(c) == CallFromId(c) \/ IdToSchema(c) \/ DeserializeFails(c)

Next ==
  \/ \E s \in Streams : Pipe(s) \/ Repipe(s)
  \/ \E p \in Producers : Produce(p)
  \/ \E s \in Subjects : DeleteSubject(s)
  \/ \E c \in Consumers : Consume(c)

Spec == Init /\ [][Next]_vars

(* Pipes flow, and the registry answers or the connection fails.  Nothing  *)
(* obliges an application to pipe again.                                   *)
FairSpec ==
  /\ Spec
  /\ \A s \in Streams : WF_vars(Pipe(s))
  /\ \A p \in Producers : WF_vars(Produce(p))
  /\ \A c \in Consumers : WF_vars(Consume(c))

-----------------------------------------------------------------------------
Content == (Schemas \X Values) \cup {Foreign}

TypeOK ==
  /\ ids \in Seq(Schemas \ Malformed) /\ subjects \in [Subjects -> SUBSET DOMAIN ids]
  /\ deletes \in 0..MaxDeletes
  /\ read \in [Streams -> Nat] /\ writing \in [Streams -> Nat]
  /\ waiting \in [Streams -> SUBSET Nat] /\ errors \in [Streams -> SUBSET Nat]
  /\ \A s \in Streams : read[s] <= Available(s)
  /\ piped \in [Streams -> BOOLEAN]
  /\ step \in [Producers -> {"start", "checking", "adding", "serializing"}]
  /\ \A p \in Producers : id[p] \in 0..Len(ids)
  /\ log \in Seq([schemaId : 0..Len(ids), buffer : Content])
  /\ DOMAIN cache \subseteq DOMAIN ids /\ fetching \subseteq Consumers
  /\ received \in [Consumers -> Seq(Nat \X Content)]

(* A message carries the id of the very schema it was encoded with, also   *)
(* when producers register schemas side by side and subjects are deleted.  *)
(* (The invariant begins with the types of the variables.)                 *)
EncodedAsRegistered ==
  /\ TypeOK
  /\ \A i \in DOMAIN log :
       log[i].buffer # Foreign => ids[log[i].schemaId] = log[i].buffer[1]

(* The messages of the requests that a serializer is done with and did not *)
(* reject, and what each of them is as a buffer.                           *)
Accepted(p) == (1..read[p]) \ (waiting[p] \cup {writing[p]} \cup errors[p])
Sent == UNION {UNION {{<<p, r, i>> : i \in DOMAIN Requests[p][r].messages} :
                      r \in Accepted(p)} : p \in Producers}
BufferOf(m) == <<Requests[m[1]][m[2]].schema, Requests[m[1]][m[2]].messages[m[3]]>>

(* A request is serialized whole or not at all: the log has each message   *)
(* of those that were not rejected as often as they have it, and nothing   *)
(* of the others, in whatever order the streams get to them.               *)
WholeRequestsOnly ==
  \A b \in Schemas \X Values :
    Cardinality({m \in Sent : BufferOf(m) = b})
      = Cardinality({i \in DOMAIN log : log[i].buffer = b})

(* Every _transform() calls back, whatever the registry does.  A stream    *)
(* that is piped reads its source to the end and leaves nothing behind; if *)
(* it had an error, what was buffered behind that may stay in it.          *)
EverythingSettles ==
  \A s \in Streams : []<>
    /\ writing[s] = 0
    /\ piped[s] => read[s] = Available(s)
    /\ errors[s] = {} => piped[s] /\ waiting[s] = {}

(* Consumers get what was sent, each message at most once, as it was, and  *)
(* in order but for what an error was reported ahead of.                   *)
Channel == INSTANCE AvroChannel WITH
  sent <- [i \in DOMAIN log |-> log[i].buffer],
  failed <- [c \in Consumers |-> errors[c]]
ImplementsChannel == Channel!Spec
=============================================================================
