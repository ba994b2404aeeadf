----------------------------- MODULE KacCommands -----------------------------
(***************************************************************************)
(* The schema, topic and create-topic commands of packages/kafka-avro-cli: *)
(* each runs once, one request after another, and any request may fail.    *)
(* Between two requests of schema somebody may delete versions.            *)
(***************************************************************************)
EXTENDS Settings

CONSTANTS
  Listed,      (* the names of the subjects or the topics, a sequence *)
  Searches,    (* what may be searched for, <<>> for nothing *)
  VersionIds   (* the versions a subject may have, a sequence *)

(* A subject or a topic has a name.                                        *)
ASSUME ListedAssumption ==
  Listed \in Seq(ToSet(Listed)) /\ \A i \in DOMAIN Listed : Listed[i] # <<>>
ASSUME VersionIdsAssumption == VersionIds \in Seq(ToSet(VersionIds))

VARIABLES
  command,     (* [name, search] *)
  step,        (* what the handler awaits, or how it ended *)
  subject,     (* the only match, <<>> before *)
  toGo,        (* the versions that are still to be requested *)
  versions,    (* the versions as they were listed *)
  saved,       (* those of which the schema was shown or saved *)
  registered,  (* the versions the subject really has *)
  client       (* the KafkaClient: "none", "open" or "closed" *)

kacVars == <<command, step, subject, toGo, versions, saved, registered, client>>

(* The ways a handler ends.  A rejection nobody handles is "rejected"; one *)
(* with an error event that has no listener ends the process, "crashed".   *)
Ends == {"done", "error", "rejected", "crashed"}

NoCommand ==
  /\ command = [name |-> "none", search |-> <<>>] /\ step = "done" /\ subject = <<>>
  /\ toGo = <<>> /\ versions = <<>> /\ saved = <<>> /\ registered = <<>> /\ client = "none"

KacInit ==
  /\ command \in [name : {"schema", "topic"}, search : Searches]
                   \cup [name : {"create-topic"}, search : {<<>>}]
  /\ step = IF command.name = "schema" THEN "subjects" ELSE "ready"
  /\ subject = <<>> /\ toGo = <<>> /\ versions = <<>> /\ saved = <<>>
  /\ registered = VersionIds
  /\ client = IF command.name = "schema" THEN "none" ELSE "open"

Matching == filterSearch(command.search, Listed)

(* A step that only goes on to the next, leaving the rest alone. *)
GoTo(next) == step' = next /\ UNCHANGED <<command, toGo, versions, saved, registered>>

-----------------------------------------------------------------------------
(* schema: getSubjects(), then the versions of the only match, then each. *)

Subjects ==
  /\ step = "subjects"
  /\ GoTo(IF Len(Matching) = 1 THEN "versions" ELSE "done")
  /\ subject' = IF Len(Matching) = 1 THEN Head(Matching) ELSE <<>>
  /\ UNCHANGED client

(* getSubjectVersions() answers, or there are none left, which is a 404. *)
SubjectVersions ==
  /\ step = "versions"
  /\ IF registered = <<>> THEN step' = "error" /\ UNCHANGED <<versions, toGo>>
     ELSE /\ versions' = registered
          /\ toGo' = registered
          /\ step' = "schema"
  /\ UNCHANGED <<command, subject, saved, registered, client>>

(* Faulty variant: a version that is gone is skipped. *)
VersionSchemaSkipping ==
  /\ step = "schema"
  /\ saved' = IF Contains(registered, Head(toGo)) THEN Append(saved, Head(toGo)) ELSE saved
  /\ toGo' = Tail(toGo)
  /\ step' = IF toGo' = <<>> THEN "done" ELSE "schema"
  /\ UNCHANGED <<command, subject, versions, registered, client>>

(* getSubjectVersionSchema(), then the file or the text of it *)
VersionSchema ==
  /\ step = "schema"
  /\ IF ~Contains(registered, Head(toGo))
     THEN step' = "error" /\ UNCHANGED <<saved, toGo>>
     ELSE /\ saved' = Append(saved, Head(toGo))
          /\ toGo' = Tail(toGo)
          /\ step' = IF toGo' = <<>> THEN "done" ELSE "schema"
  /\ UNCHANGED <<command, subject, versions, registered, client>>

(* A request to the registry or the writing of a file fails. *)
SchemaFails ==
  /\ step \in {"subjects", "versions", "schema"}
  /\ GoTo("error")
  /\ UNCHANGED <<subject, client>>

(* Somebody deletes a version with the API of the registry. *)
DeleteVersion ==
  /\ step \in {"subjects", "versions", "schema"}
  /\ \E i \in DOMAIN registered : registered' = RemoveAt(registered, i)
  /\ UNCHANGED <<command, step, subject, toGo, versions, saved, client>>

-----------------------------------------------------------------------------
(* topic and create-topic share the wait for 'ready'.                      *)

Ready ==
  /\ step = "ready"
  /\ GoTo(IF command.name = "topic" THEN "metadata" ELSE "create")
  /\ UNCHANGED <<subject, client>>

(* The client emits 'error', which nobody listens to. *)
Unreachable ==
  /\ step = "ready"
  /\ GoTo("crashed")
  /\ client' = "closed"
  /\ UNCHANGED subject

(* Faulty variant: closed only when the offsets of a topic were shown. *)
MetadataLeftOpen ==
  /\ step = "metadata"
  /\ GoTo(IF Len(Matching) = 1 THEN "offsets" ELSE "done")
  /\ subject' = IF Len(Matching) = 1 THEN Head(Matching) ELSE <<>>
  /\ UNCHANGED client

(* loadMetadataForTopics(); all but the only match leads to client.close() *)
Metadata ==
  /\ step = "metadata"
  /\ IF Len(Matching) = 1
     THEN GoTo("offsets") /\ subject' = Head(Matching) /\ UNCHANGED client
     ELSE GoTo("done") /\ client' = "closed" /\ UNCHANGED subject

(* clientOffset.fetch() and client.close() *)
Offsets ==
  /\ step = "offsets"
  /\ GoTo("done") /\ client' = "closed" /\ UNCHANGED subject

(* createTopics() and client.close() *)
Create ==
  /\ step = "create"
  /\ GoTo("done") /\ client' = "closed" /\ UNCHANGED subject

(* A request to Kafka fails: topic rejects, create-topic prints the error, *)
(* and neither closes the client.                                          *)
KafkaFails ==
  /\ step \in {"metadata", "offsets", "create"}
  /\ GoTo(IF step = "create" THEN "error" ELSE "rejected")
  /\ UNCHANGED <<subject, client>>

Handler ==
  \/ Subjects \/ SubjectVersions \/ VersionSchema \/ SchemaFails
  \/ Ready \/ Unreachable \/ Metadata \/ Offsets \/ Create \/ KafkaFails

KacNext == Handler \/ DeleteVersion

(* Every request is answered or fails. *)
KacFairness == WF_kacVars(Handler)

KacSpec == KacInit /\ [][KacNext]_kacVars /\ KacFairness

-----------------------------------------------------------------------------
(* The process ends when the handler has and holds no connection. *)
Exits == step \in Ends /\ client # "open"

(* A name that is listed is always found by itself, also when other names  *)
(* contain it: its details can be asked for.                               *)
ListedIsReachable ==
  \A i \in DOMAIN Listed :
    command.search = Listed[i] /\ step \in {"versions", "schema", "offsets", "done"}
      => subject = Listed[i]

(* A schema command that ends without an error has every version it listed *)
(* for the subject, each one once and in order; one that stops part of the *)
(* way leaves the versions before the failure.                             *)
SavedIsComplete ==
  /\ IsPrefix(saved, versions)
  /\ command.name = "schema" /\ step = "done" => saved = versions

(* What is asked for is found, and what is found is complete. *)
CommandsAreComplete == ListedIsReachable /\ SavedIsComplete

(* A command whose process does not end had a request to Kafka fail, and   *)
(* the registry failing never holds one up.                                *)
ExitsUnlessKafkaFails ==
  <>(Exits \/ (command.name # "schema" /\ step \in {"rejected", "error"}))
=============================================================================
