----------------------------- MODULE RePipeline -----------------------------
(***************************************************************************)
(* packages/re-pipeline/src/index.ts, rePipeline() and pipelinePromise(),  *)
(* and packages/kafka-consumer/src/index.ts, which pipes a consumer, the   *)
(* AvroDeserializer and the stream of its notifications with rePipeline(). *)
(*                                                                         *)
(* Stream 1 is the source, stream N the last one, those between are        *)
(* transforms; message n is the n-th of the source.  As in PGSink, an      *)
(* 'error' of a Writable unpipes it and leaves its buffer for after the    *)
(* next write.                                                             *)
(***************************************************************************)
EXTENDS Integers, Sequences, SequencesExt

CONSTANTS
  N,              (* how many streams *)
  Messages,       (* how many messages the source has *)
  HighWaterMark   (* the highWaterMark of each stream *)

ASSUME StreamsAssumption == N \in Nat /\ N >= 2
ASSUME MessagesAssumption == Messages \in Nat
ASSUME HighWaterMarkAssumption == HighWaterMark \in Nat \ {0}

VARIABLES
  pipeline,  (* which function made it *)
  ready,     (* what each stream but the last has for the next one *)
  buffer,    (* what waits to be written in each stream but the first *)
  writing,   (* the message each of them is writing, 0 if none *)
  piped,     (* whether the one before is piped into it *)
  paused,    (* whether that pipe waits for 'drain' *)
  out,       (* the messages the last stream is done with *)
  errors,    (* those of the errors given to the handler, or to reject() *)
  outcome,   (* what became of the pipeline *)
  stalled    (* whether the last stream waits for a callback for ever *)

flow == <<ready, buffer, writing, piped, paused>>
vars == <<pipeline, flow, out, errors, outcome, stalled>>

Pipelines == {"rePipeline", "pipelinePromise", "createKafkaConsumer"}
Outcomes == {"running", "finish", "rejected", "closed", "crashed"}
Sources == 1..(N - 1)
Dests == 2..N
Repipes == pipeline # "pipelinePromise"

Init ==
  /\ pipeline \in Pipelines
  /\ ready = [s \in Sources |-> IF s = 1 THEN [n \in 1..Messages |-> n] ELSE <<>>]
  /\ buffer = [s \in Dests |-> <<>>]
  /\ writing = [s \in Dests |-> 0]
  /\ piped = [s \in Dests |-> TRUE]
  /\ paused = [s \in Dests |-> FALSE]
  /\ out = <<>> /\ errors = <<>>
  /\ outcome = "running" /\ stalled = FALSE

Size(s) == Len(buffer[s]) + IF writing[s] = 0 THEN 0 ELSE 1

(* Faulty variant: pipe() that does not wait for 'drain'. *)
FlowingAlways(s) == piped[s]

Flowing(s) == piped[s] /\ ~paused[s]

(* The pipe into s writes the next message of the stream before it. *)
Pipe(s) ==
  /\ Flowing(s) /\ ready[s - 1] # <<>>
  /\ ready' = [ready EXCEPT ![s - 1] = Tail(@)]
  /\ IF writing[s] = 0
     THEN writing' = [writing EXCEPT ![s] = Head(ready[s - 1])] /\ UNCHANGED buffer
     ELSE buffer' = [buffer EXCEPT ![s] = Append(@, Head(ready[s - 1]))] /\ UNCHANGED writing
  /\ paused' = [paused EXCEPT ![s] = Size(s) + 1 >= HighWaterMark]
  /\ UNCHANGED <<pipeline, piped, out, errors, outcome, stalled>>

(* Faulty variant: what is written first waits longest. *)
WrittenLast(s) ==
  /\ writing' = [writing EXCEPT ![s] = IF buffer[s] = <<>> THEN 0 ELSE Last(buffer[s])]
  /\ buffer' = [buffer EXCEPT ![s] = IF @ = <<>> THEN @ ELSE Front(@)]
  /\ paused' = [paused EXCEPT ![s] = @ /\ buffer[s] # <<>>]

(* The callback of a write: the buffer is written, 'drain' when it is empty. *)
Written(s) ==
  /\ writing' = [writing EXCEPT ![s] = IF buffer[s] = <<>> THEN 0 ELSE Head(buffer[s])]
  /\ buffer' = [buffer EXCEPT ![s] = IF @ = <<>> THEN @ ELSE Tail(@)]
  /\ paused' = [paused EXCEPT ![s] = @ /\ buffer[s] # <<>>]

Busy(s) == writing[s] # 0 /\ ~(s = N /\ stalled)

Succeed(s) ==
  /\ Busy(s)
  /\ IF s = N THEN out' = Append(out, writing[s]) /\ UNCHANGED ready
     ELSE ready' = [ready EXCEPT ![s] = Append(@, writing[s])] /\ UNCHANGED out
  /\ Written(s)
  /\ UNCHANGED <<pipeline, piped, errors, outcome, stalled>>

(* Faulty variant: the handler of the error does not pipe again. *)
NoReconnect(s) ==
  /\ piped' = [piped EXCEPT ![s] = FALSE]
  /\ outcome' = IF Repipes \/ outcome # "running" THEN outcome ELSE "rejected"
  /\ UNCHANGED paused

(* The handler of a stream's 'error'; pipe() has unpiped it just before. *)
OnError(s) ==
  IF Repipes
  THEN /\ paused' = [paused EXCEPT ![s] = FALSE]
       /\ UNCHANGED <<piped, outcome>>
  ELSE /\ piped' = [piped EXCEPT ![s] = FALSE]
       /\ outcome' = IF outcome = "running" THEN "rejected" ELSE outcome
       /\ UNCHANGED paused

(* A write calls back with an error.  The one of createKafkaConsumer's     *)
(* notifications never does.                                               *)
Fail(s) ==
  /\ Busy(s) /\ ~(s = N /\ pipeline = "createKafkaConsumer")
  /\ errors' = Append(errors, writing[s])
  /\ writing' = [writing EXCEPT ![s] = 0]
  /\ OnError(s)
  /\ UNCHANGED <<pipeline, ready, buffer, out, stalled>>

(* onDetectNotification() rejects: write() never calls its callback. *)
NotificationRejected ==
  /\ pipeline = "createKafkaConsumer" /\ Busy(N)
  /\ stalled' = TRUE
  /\ UNCHANGED <<pipeline, flow, out, errors, outcome>>

(* Nothing listens to the errors of the first stream. *)
SourceFails == outcome = "running" /\ outcome' = "crashed"

(* What has ended: all its input written, none left in its buffer. *)
Idle(s) == writing[s] = 0 /\ buffer[s] = <<>>
Finished(s) ==
  \A d \in 2..s : ready[d - 1] = <<>> /\ piped[d] /\ Idle(d)

(* Faulty variant: the end of the source taken for that of the last stream. *)
FinishWithSource == outcome = "running" /\ ready[1] = <<>> /\ outcome' = "finish"

Finish == outcome = "running" /\ Finished(N) /\ outcome' = "finish"

(* The last stream of pipelinePromise() is closed before its end. *)
Close == outcome = "running" /\ pipeline = "pipelinePromise" /\ outcome' = "closed"

Settle ==
  /\ SourceFails \/ Finish \/ Close
  /\ UNCHANGED <<pipeline, flow, out, errors, stalled>>

Alive == outcome \in {"running", "rejected"}
Step(s) == Alive /\ (Pipe(s) \/ Succeed(s) \/ Fail(s))

Next ==
  \/ \E s \in Dests : Step(s)
  \/ Alive /\ NotificationRejected
  \/ Settle

Spec == Init /\ [][Next]_vars

(* The loop of events serves every stream, and transforms call back. *)
FairSpec ==
  /\ Spec
  /\ \A s \in Dests : WF_vars(Alive /\ Pipe(s)) /\ WF_vars(Alive /\ (Succeed(s) \/ Fail(s)))
  /\ WF_vars(Finish /\ UNCHANGED <<pipeline, flow, out, errors, stalled>>)

-----------------------------------------------------------------------------
TypeOK ==
  /\ pipeline \in Pipelines
  /\ ready \in [Sources -> Seq(1..Messages)]
  /\ buffer \in [Dests -> Seq(1..Messages)]
  /\ writing \in [Dests -> 0..Messages]
  /\ piped \in [Dests -> BOOLEAN] /\ paused \in [Dests -> BOOLEAN]
  /\ out \in Seq(1..Messages) /\ errors \in Seq(1..Messages)
  /\ outcome \in Outcomes /\ stalled \in BOOLEAN

(* Where messages are on their way: what is buffered, written and ready in *)
(* each stream, the last of which is ready with what is out.  Errors are   *)
(* aside of it.                                                            *)
Aside == <<0, 0>>
Places == {Aside, <<1, 2>>} \cup (Dests \X {0, 1, 2})
Line == [p \in Places |->
  IF p = Aside THEN errors
  ELSE IF p[2] = 0 THEN buffer[p[1]]
  ELSE IF p[2] = 1 THEN IF writing[p[1]] = 0 THEN <<>> ELSE <<writing[p[1]]>>
  ELSE IF p[1] = N THEN out ELSE ready[p[1]]]

Once(line) ==
  /\ \A n \in 1..Messages : \E p \in Places : \E i \in DOMAIN line[p] : line[p][i] = n
  /\ \A p, q \in Places : \A i \in DOMAIN line[p], j \in DOMAIN line[q] :
       line[p][i] = line[q][j] => p = q /\ i = j

(* Unpiping and piping again neither loses a message nor gives it twice:   *)
(* each is in one place, on its way, done, or named by an error.  The last *)
(* stream finishes, and the promise resolves by it, only when none is on   *)
(* its way, and the promise only if none failed.  (The invariant begins    *)
(* with the types of the variables.)                                       *)
EveryMessageOnce ==
  /\ TypeOK
  /\ Once(Line)
  /\ outcome = "finish" =>
       /\ \A n \in 1..Messages : n \in ToSet(out) \cup ToSet(errors)
       /\ ~Repipes => errors = <<>>

(* Piping again does not open the pipe for more than a stream may hold.    *)
BackpressureKept == \A s \in Dests : Size(s) <= HighWaterMark

(* A message is overtaken only if an earlier one failed before it: what    *)
(* was buffered behind the failure waits for the next write.               *)
OvertakenOnlyAfterError ==
  \A i, j \in DOMAIN out :
    i < j /\ out[i] > out[j] => \E n \in ToSet(errors) : n < out[j]

(* Whichever function made it, a pipeline gets somewhere, if the first     *)
(* stream has no error and no notification is rejected: one that           *)
(* reconnects reads its source to the end whatever errors the others have, *)
(* pipelinePromise() does not wait for ever, and one without any error     *)
(* finishes.                                                               *)
PipelineProceeds ==
  [](outcome # "crashed" /\ ~stalled) =>
    /\ Repipes ~> ready[1] = <<>>
    /\ ~Repipes ~> outcome # "running"
    /\ [](errors = <<>>) => <>(outcome \in {"finish", "closed"})

(* "Whenever an error is encountered by any of the streams", the first one *)
(* too, the handler of rePipeline() is called, and "if any error is        *)
(* encountered" the promise of pipelinePromise() is rejected: none is left *)
(* without a listener, which would end the process.                        *)
ErrorsReachTheHandler == outcome # "crashed"
=============================================================================
