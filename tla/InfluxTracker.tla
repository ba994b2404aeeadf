---------------------------- MODULE InfluxTracker ----------------------------
(***************************************************************************)
(* packages/influx-metrics-tracker: trackPoint() of src/base.ts, the batch *)
(* of src/helpers/batch-calls.ts that every tracker of the process shares, *)
(* and the retries of src/helpers/exponential-backoff.ts.  Point n is the  *)
(* n-th point tracked in the process.  Nothing awaits a delivery, so any   *)
(* number of them sleep and write at the same time.                        *)
(***************************************************************************)
EXTENDS Integers, Sequences, FiniteSets

CONSTANTS
  Trackers,                (* each with an InfluxDB connection of its own *)
  BATCH_SIZE_LIMIT,        (* batch-calls.ts *)
  MAX_NUMBER_OF_ATTEMPTS,  (* exponential-backoff.ts *)
  ONE_SECOND,              (* exponential-backoff.ts, the first sleep *)
  MAX_TIMEOUT,             (* the longest sleep setTimeout takes, in the same unit *)
  MaxPoints                (* bound: how many points are tracked in a run *)

ASSUME TrackersAssumption == Trackers # {}
ASSUME LimitAssumption == BATCH_SIZE_LIMIT \in Nat \ {0}
ASSUME AttemptsAssumption == MAX_NUMBER_OF_ATTEMPTS \in Nat
ASSUME SecondAssumption == ONE_SECOND \in Nat \ {0} /\ MAX_TIMEOUT \in Nat
ASSUME MaxPointsAssumption == MaxPoints \in Nat

VARIABLES
  tracked,     (* the tracker of each point, in the order of trackPoint() *)
  batch,       (* batchManagement._batchData *)
  deliveries,  (* the activations of executeCallbackOrExponentiallyBackOff *)
  stored       (* the points in the database of each tracker *)

vars == <<tracked, batch, deliveries, stored>>

Delivery == [points : Seq(Nat), to : Trackers, timer : Nat, attempts : Nat,
             state : {"sleeping", "writing", "completed", "abandoned"}]

Init ==
  /\ tracked = <<>>
  /\ batch = <<>>
  /\ deliveries = <<>>
  /\ stored = [t \in Trackers |-> {}]

Elements(seq) == {seq[i] : i \in DOMAIN seq}

-----------------------------------------------------------------------------
(* isBatchFull(), of the batch with the new item in it. *)
IsBatchFull(items) == Len(items) >= BATCH_SIZE_LIMIT

(* Faulty variant: the batch is emptied before it is copied. *)
SendFlushed(items, t) ==
  [points |-> <<>>, to |-> t, timer |-> 0, attempts |-> 0, state |-> "sleeping"]

(* Faulty variant: the batch goes to the tracker of its first point. *)
SendPointsOfFirst(items, t) ==
  [points |-> items, to |-> tracked[items[1]], timer |-> 0, attempts |-> 0,
   state |-> "sleeping"]

(* The first activation for a batch: sendPointsToInflux() of the tracker   *)
(* whose addToBatch() filled it.                                           *)
SendPoints(items, t) ==
  [points |-> items, to |-> t, timer |-> 0, attempts |-> 0, state |-> "sleeping"]

(* trackPoint(): no await from the push to the first sleep. *)
TrackPoint(t) ==
  /\ Len(tracked) < MaxPoints
  /\ tracked' = Append(tracked, t)
  /\ LET items == Append(batch, Len(tracked) + 1) IN
       IF IsBatchFull(items)
       THEN /\ batch' = <<>>
            /\ deliveries' = Append(deliveries, SendPoints(items, t))
       ELSE batch' = items /\ UNCHANGED deliveries
  /\ UNCHANGED stored

(* The sleep of a delivery is over: writePoints() is called. *)
Wake(i) ==
  /\ deliveries[i].state = "sleeping"
  /\ deliveries' = [deliveries EXCEPT ![i].state = "writing"]
  /\ UNCHANGED <<tracked, batch, stored>>

Store(i) ==
  stored' = [stored EXCEPT ![deliveries[i].to] = @ \cup Elements(deliveries[i].points)]

(* Faulty variant: the write is not awaited. *)
CompleteUnawaited(i) ==
  /\ deliveries[i].state = "writing"
  /\ deliveries' = [deliveries EXCEPT ![i].state = "completed"]
  /\ UNCHANGED <<tracked, batch, stored>>

Complete(i) ==
  /\ deliveries[i].state = "writing"
  /\ Store(i)
  /\ deliveries' = [deliveries EXCEPT ![i].state = "completed"]
  /\ UNCHANGED <<tracked, batch>>

(* writePoints() rejects.  The database may have taken the points before   *)
(* the answer was lost.                                                    *)
Rejected(i) ==
  /\ deliveries[i].state = "writing"
  /\ Store(i) \/ UNCHANGED stored
  /\ UNCHANGED <<tracked, batch>>

(* Faulty variant: the first retry does not wait. *)
NextTimerWithoutStart(timer) == timer * 2

NextTimer(timer) == IF timer # 0 THEN timer * 2 ELSE ONE_SECOND

(* Faulty variant: the retry starts over, without timer and attempts. *)
BackOffFromScratch(i) ==
  /\ deliveries[i].attempts < MAX_NUMBER_OF_ATTEMPTS
  /\ Rejected(i)
  /\ deliveries' = [deliveries EXCEPT ![i].state = "sleeping"]

BackOff(i) ==
  /\ deliveries[i].attempts < MAX_NUMBER_OF_ATTEMPTS
  /\ Rejected(i)
  /\ deliveries' = [deliveries EXCEPT ![i].state = "sleeping",
                      ![i].timer = NextTimer(@), ![i].attempts = @ + 1]

(* "Too many failed attempts": the points are logged and let go. *)
Abandon(i) ==
  /\ deliveries[i].attempts >= MAX_NUMBER_OF_ATTEMPTS
  /\ Rejected(i)
  /\ deliveries' = [deliveries EXCEPT ![i].state = "abandoned"]

Deliver(i) == Wake(i) \/ Complete(i) \/ BackOff(i) \/ Abandon(i)

Next ==
  \/ \E t \in Trackers : TrackPoint(t)
  \/ \E i \in DOMAIN deliveries : Deliver(i)

Spec == Init /\ [][Next]_vars

(* Timers fire, and every call of writePoints() is answered: the influx    *)
(* client times its requests out.                                          *)
DeliverAny(i) == i \in DOMAIN deliveries /\ Deliver(i)

FairSpec == Spec /\ \A i \in 1..MaxPoints : WF_vars(DeliverAny(i))

-----------------------------------------------------------------------------
TypeOK ==
  /\ tracked \in Seq(Trackers)
  /\ batch \in Seq(Nat)
  /\ deliveries \in Seq(Delivery)
  /\ stored \in [Trackers -> SUBSET Nat]

(* The batch that waits is never full once trackPoint() has returned.      *)
BatchBelowLimit == Len(batch) < BATCH_SIZE_LIMIT

(* No point is lost, repeated or displaced between trackPoint() and the    *)
(* deliveries, whatever trackers interleave: delivery i carries exactly    *)
(* the i-th run of BATCH_SIZE_LIMIT points and the batch carries the rest. *)
Partitioned ==
  /\ \A i \in DOMAIN deliveries :
       /\ Len(deliveries[i].points) = BATCH_SIZE_LIMIT
       /\ \A k \in 1..BATCH_SIZE_LIMIT :
            deliveries[i].points[k] = (i - 1) * BATCH_SIZE_LIMIT + k
  /\ \A k \in DOMAIN batch :
       batch[k] = Len(deliveries) * BATCH_SIZE_LIMIT + k
  /\ Len(tracked) = Len(deliveries) * BATCH_SIZE_LIMIT + Len(batch)

(* A shared batch is written by the tracker that filled it, so by the one  *)
(* that tracked its last point: the others' points go where it writes.     *)
FillerDelivers ==
  \A i \in DOMAIN deliveries :
    deliveries[i].to = tracked[i * BATCH_SIZE_LIMIT]

(* A database holds no point of a batch that was not for it, and all those *)
(* of the batches reported completed, in whatever order they were written. *)
StoredIsDelivered ==
  \A t \in Trackers :
    LET mine == {i \in DOMAIN deliveries : deliveries[i].to = t}
        done == {i \in mine : deliveries[i].state = "completed"} IN
    /\ stored[t] \subseteq UNION {Elements(deliveries[i].points) : i \in mine}
    /\ UNION {Elements(deliveries[i].points) : i \in done} \subseteq stored[t]

(* The sleep before retry n is ONE_SECOND doubled n - 1 times and never    *)
(* beyond the 32 bits of setTimeout, which would fire at once; points are  *)
(* let go only after the last of the retries.                              *)
BackoffDoubles ==
  \A i \in DOMAIN deliveries :
    LET d == deliveries[i] IN
    /\ d.attempts <= MAX_NUMBER_OF_ATTEMPTS
    /\ d.timer = IF d.attempts = 0 THEN 0 ELSE ONE_SECOND * 2 ^ (d.attempts - 1)
    /\ d.timer <= MAX_TIMEOUT
    /\ d.state = "abandoned" => d.attempts = MAX_NUMBER_OF_ATTEMPTS

(* Every full batch is stored or, after the last retry, given up.          *)
FullBatchSettles ==
  \A i \in 1..MaxPoints :
    i \in DOMAIN deliveries
      ~> i \in DOMAIN deliveries
           /\ deliveries[i].state \in {"completed", "abandoned"}

(* README line 3: metrics are tracked and stored, or logged when Influx is *)
(* unavailable.                                                            *)
PointStoredOrLogged ==
  \A n \in 1..MaxPoints :
    n <= Len(tracked)
      ~> \/ \E t \in Trackers : n \in stored[t]
         \/ \E i \in DOMAIN deliveries :
              deliveries[i].state = "abandoned" /\ n \in Elements(deliveries[i].points)
=============================================================================
