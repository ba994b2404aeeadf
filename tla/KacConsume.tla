----------------------------- MODULE KacConsume ------------------------------
(***************************************************************************)
(* kac consume (packages/kafka-avro-cli, src/cli/commands/consume.ts): a   *)
(* ConsumerGroupStream piped through ConsumerProgressTransform,            *)
(* StopOnFinishProgressTransform, the AvroDeserializer and                 *)
(* LogConsumerProgressTransform, while others go on producing to the       *)
(* topic.  kafka-node, the broker and node's pipes are external.           *)
(***************************************************************************)
EXTENDS Integers, Sequences, FiniteSets, Functions

CONSTANTS
  Partitions,
  InitialLog,   (* the high water offset of each partition at the start *)
  FirstOffset,  (* the first offset the group is given, of each partition *)
  Faults,       (* what may fail: a subset of {"metadata", "decode"} *)
  BufferSize,   (* bound: how many messages wait between the two transforms *)
  MaxLog        (* bound: the largest high water offset *)

ASSUME PartitionsAssumption == IsFiniteSet(Partitions) /\ Partitions # {}
ASSUME LogAssumption ==
  /\ InitialLog \in [Partitions -> Nat]
  /\ FirstOffset \in [Partitions -> Nat]
  /\ \A p \in Partitions : FirstOffset[p] <= InitialLog[p]
ASSUME FaultsAssumption == Faults \subseteq {"metadata", "decode"}

VARIABLES
  tail,      (* the option of that name *)
  log,       (* the high water offset of each partition *)
  next,      (* the offset to fetch next, of each partition *)
  fetched,   (* the messages the consumer stream holds *)
  progress,  (* ConsumerProgressTransform.progress, one object for all messages *)
  waiting,   (* the progress messages StopOnFinishProgressTransform will take *)
  stop,      (* StopOnFinishProgressTransform *)
  consumer,  (* whether the consumer stream was closed *)
  out,       (* the progress messages StopOnFinishProgressTransform has pushed *)
  read,      (* how many of them were decoded and logged *)
  failure,   (* the fault that stopped the pipeline *)
  summary    (* what LogConsumerProgressTransform._flush() printed *)

vars == <<tail, log, next, fetched, progress, waiting, stop, consumer, out,
          read, failure, summary>>

(* A quotient is kept as its two integers: 0 / 0 is not a number. *)
Item == [offset : Nat, highWaterOffset : Nat, progress : Nat \X Nat]
Message == [partition : Partitions, offset : Nat, highWaterOffset : Nat]
ProgressMessage == [message : Message, finished : BOOLEAN, totalCount : Nat]

Init ==
  /\ tail \in BOOLEAN
  /\ log = InitialLog
  /\ next = FirstOffset
  /\ fetched = <<>>
  /\ progress = <<>>
  /\ waiting = <<>>
  /\ stop = "open"
  /\ consumer = "open"
  /\ out = <<>>
  /\ read = 0
  /\ failure = "none"
  /\ summary = [printed |-> FALSE, totalCount |-> 0, partitions |-> <<>>]

-----------------------------------------------------------------------------
(* Someone produces to the topic. *)
Produce(p) ==
  /\ log[p] < MaxLog
  /\ log' = [log EXCEPT ![p] = @ + 1]
  /\ UNCHANGED <<tail, next, fetched, progress, waiting, stop, consumer, out,
                 read, failure, summary>>

(* A fetch returns some of the messages that follow, and the high water    *)
(* offset the partition had then.                                          *)
Fetch(p) ==
  /\ consumer # "closed"
  /\ \E last \in next[p]..(log[p] - 1) :
       /\ fetched' = fetched \o
            [i \in 1..(last - next[p] + 1) |->
               [partition |-> p, offset |-> next[p] + i - 1,
                highWaterOffset |-> log[p]]]
       /\ next' = [next EXCEPT ![p] = last + 1]
  /\ UNCHANGED <<tail, log, progress, waiting, stop, consumer, out, read,
                 failure, summary>>

-----------------------------------------------------------------------------
InitialItem == [offset |-> 0, highWaterOffset |-> 0, progress |-> <<0, 1>>]

(* initPartionProgress(): on the first message, the partitions are asked   *)
(* of the broker.  A rejection leaves _transform() without calling the     *)
(* callback, so the pipeline hangs.                                        *)
InitPartitionProgress ==
  /\ DOMAIN progress = {}
  /\ fetched # <<>>
  /\ failure = "none"
  /\ \/ /\ progress' = [p \in Partitions |-> InitialItem]
        /\ UNCHANGED failure
     \/ /\ "metadata" \in Faults
        /\ failure' = "metadata"
        /\ UNCHANGED progress
  /\ UNCHANGED <<tail, log, next, fetched, waiting, stop, consumer, out, read, summary>>

(* Faulty variant: the last offset is taken to be the high water offset. *)
ItemOfHighWater(m) ==
  [offset |-> m.offset, highWaterOffset |-> m.highWaterOffset,
   progress |-> <<m.offset, m.highWaterOffset>>]

(* updateProgress() *)
ItemOf(m) ==
  [offset |-> m.offset, highWaterOffset |-> m.highWaterOffset,
   progress |-> <<m.offset, m.highWaterOffset - 1>>]

(* Faulty variant: the sum of the progresses, not their mean. *)
SumIsOne(items) ==
  \E p \in DOMAIN items : items[p].progress[2] # 0 /\ items[p].progress[1] >= items[p].progress[2]

(* totalProgress() >= 1: the mean of the quotients.  A comparison with a   *)
(* mean that is not a number is false.                                     *)
TotalIsOne(items) ==
  LET num == [p \in DOMAIN items |-> items[p].progress[1]]
      den == [p \in DOMAIN items |-> items[p].progress[2]]
      product(S) == FoldFunctionOnSet(LAMBDA a, b : a * b, 1, den, S)
      scaled == [p \in DOMAIN items |-> num[p] * product(DOMAIN items \ {p})] IN
  /\ 0 \notin Range(den)
  /\ SumFunction(scaled) >= Cardinality(DOMAIN items) * product(DOMAIN items)

TotalCount(items) == SumFunction([p \in DOMAIN items |-> items[p].offset + 1])

(* ConsumerProgressTransform._transform(): total and totalCount are taken  *)
(* here, the partitions are passed on by reference.                        *)
TransformProgress ==
  /\ DOMAIN progress # {}
  /\ fetched # <<>>
  /\ Len(waiting) < BufferSize
  /\ LET m == Head(fetched)
         items == [progress EXCEPT ![m.partition] = ItemOf(m)] IN
       /\ progress' = items
       /\ waiting' = Append(waiting, [message |-> m, finished |-> TotalIsOne(items),
                                      totalCount |-> TotalCount(items)])
  /\ fetched' = Tail(fetched)
  /\ UNCHANGED <<tail, log, next, stop, consumer, out, read, failure, summary>>

-----------------------------------------------------------------------------
(* StopOnFinishProgressTransform._transform(): the callback of a message   *)
(* that finishes the topic is called once the consumer is closed.          *)
StopTransform ==
  /\ stop = "open"
  /\ waiting # <<>>
  /\ out' = Append(out, Head(waiting))
  /\ waiting' = Tail(waiting)
  /\ IF ~tail /\ Head(waiting).finished
     THEN /\ stop' = "closing"
          /\ consumer' = IF consumer = "closed" THEN "closed" ELSE "closing"
     ELSE UNCHANGED <<stop, consumer>>
  /\ UNCHANGED <<tail, log, next, fetched, progress, read, failure, summary>>

(* The consumer is closed, whoever asked. *)
Closed ==
  /\ consumer = "closing"
  /\ consumer' = "closed"
  /\ UNCHANGED <<tail, log, next, fetched, progress, waiting, stop, out, read,
                 failure, summary>>

(* The callback of close(): push(null) and on to the next message. *)
End ==
  /\ stop = "closing"
  /\ consumer = "closed"
  /\ stop' = "ended"
  /\ UNCHANGED <<tail, log, next, fetched, progress, waiting, consumer, out,
                 read, failure, summary>>

(* A message that waited behind the end: push() emits an error, whose      *)
(* handler closes the consumer once more, and the message is dropped.      *)
PushAfterEnd ==
  /\ stop = "ended"
  /\ waiting # <<>>
  /\ waiting' = Tail(waiting)
  /\ UNCHANGED <<tail, log, next, fetched, progress, stop, consumer, out, read,
                 failure, summary>>

-----------------------------------------------------------------------------
(* AvroDeserializer and LogConsumerProgressTransform take a message. *)
Log ==
  /\ failure = "none"
  /\ read < Len(out)
  /\ read' = read + 1
  /\ UNCHANGED <<tail, log, next, fetched, progress, waiting, stop, consumer,
                 out, failure, summary>>

(* The deserializer emits an error: node unpipes it and errorHandler()     *)
(* closes the consumer.                                                    *)
DecodeFails ==
  /\ "decode" \in Faults
  /\ failure = "none"
  /\ read < Len(out)
  /\ failure' = "decode"
  /\ consumer' = IF consumer = "closed" THEN "closed" ELSE "closing"
  /\ UNCHANGED <<tail, log, next, fetched, progress, waiting, stop, out, read, summary>>

(* Faulty variant: the partitions show their offsets. *)
OffsetsOf(items) == [p \in DOMAIN items |-> items[p].offset]

CountsOf(items) == [p \in DOMAIN items |-> items[p].offset + 1]

(* LogConsumerProgressTransform._flush(): the total of the last message,   *)
(* and the partitions as they are now.                                     *)
Flush ==
  /\ stop = "ended"
  /\ failure = "none"
  /\ read = Len(out)
  /\ ~summary.printed
  /\ summary' = [printed |-> TRUE, totalCount |-> out[read].totalCount,
                 partitions |-> CountsOf(progress)]
  /\ UNCHANGED <<tail, log, next, fetched, progress, waiting, stop, consumer,
                 out, read, failure>>

Next ==
  \/ \E p \in Partitions : Produce(p) \/ Fetch(p)
  \/ InitPartitionProgress
  \/ TransformProgress
  \/ StopTransform
  \/ Closed
  \/ End
  \/ PushAfterEnd
  \/ Log
  \/ DecodeFails
  \/ Flush

Spec == Init /\ [][Next]_vars

(* The broker answers fetches, the metadata request and the close, and     *)
(* node runs its streams; nothing obliges anyone to produce.               *)
Fairness ==
  /\ \A p \in Partitions : WF_vars(Fetch(p))
  /\ WF_vars(InitPartitionProgress)
  /\ WF_vars(TransformProgress)
  /\ WF_vars(StopTransform)
  /\ WF_vars(Closed)
  /\ WF_vars(End)
  /\ WF_vars(PushAfterEnd)
  /\ WF_vars(Log)
  /\ WF_vars(Flush)

FairSpec == Spec /\ Fairness

-----------------------------------------------------------------------------
TypeOK ==
  /\ tail \in BOOLEAN
  /\ log \in [Partitions -> Nat]
  /\ next \in [Partitions -> Nat]
  /\ fetched \in Seq(Message)
  /\ DOMAIN progress \in {{}, Partitions}
  /\ \A p \in DOMAIN progress : progress[p] \in Item
  /\ waiting \in Seq(ProgressMessage)
  /\ stop \in {"open", "closing", "ended"}
  /\ consumer \in {"open", "closing", "closed"}
  /\ out \in Seq(ProgressMessage)
  /\ read \in 0..Len(out)
  /\ failure \in {"none", "metadata", "decode"}

(* The offsets of partition p the pipeline has passed on to be decoded. *)
Consumed(p) ==
  {out[i].message.offset : i \in {j \in DOMAIN out : out[j].message.partition = p}}

AllConsumed ==
  \A p \in Partitions : FirstOffset[p]..(InitialLog[p] - 1) \subseteq Consumed(p)

(* The command stops by itself only without --tail and only after every    *)
(* message the topic held at the start was passed on, however the fetches  *)
(* of the partitions interleave and whatever is produced meanwhile.        *)
StopsOnlyWhenConsumed == stop # "open" => ~tail /\ AllConsumed

(* The number of messages the summary prints is the number of messages     *)
(* that were decoded and shown (README.md:251-268).  Its partitions, which *)
(* are read when it is printed, hold at least as many, and at most those   *)
(* that were fetched: they may differ by the messages that waited behind   *)
(* the end.  (The invariant begins with the types of the variables.)       *)
SummaryIsConsumed ==
  /\ TypeOK
  /\ summary.printed => summary.totalCount = read
  /\ summary.printed =>
       SumFunction(summary.partitions) \in summary.totalCount..SumFunction(next)

(* README.md:245: without --tail the consumer is closed once all the       *)
(* messages have been consumed.                                            *)
EndsOnceConsumed == (~tail /\ AllConsumed) ~> consumer = "closed"
=============================================================================
