------------------------- MODULE InfluxTrackerProofs -------------------------
(***************************************************************************)
(* The safety of InfluxTracker for any trackers, any batch size, any       *)
(* number of retries and any number of points.                             *)
(***************************************************************************)
EXTENDS InfluxTracker, TLAPS, FiniteSetTheorems

IInv ==
  /\ TypeOK
  /\ BatchBelowLimit
  /\ Partitioned
  /\ FillerDelivers
  /\ StoredIsDelivered

(* The products the positions of points are made of.                       *)
LEMMA Products ==
  /\ \A n \in Nat : n * BATCH_SIZE_LIMIT \in Nat
  /\ \A n \in Nat : (n + 1) * BATCH_SIZE_LIMIT = n * BATCH_SIZE_LIMIT + BATCH_SIZE_LIMIT
  /\ \A n \in Nat : \A i \in 1..n : /\ i * BATCH_SIZE_LIMIT <= n * BATCH_SIZE_LIMIT
                                    /\ i * BATCH_SIZE_LIMIT \in Nat \ {0}
<1>1. BATCH_SIZE_LIMIT \in Nat \ {0}
  BY LimitAssumption
<1>2. ASSUME NEW n \in Nat, NEW i \in 1..n
      PROVE  /\ i * BATCH_SIZE_LIMIT <= n * BATCH_SIZE_LIMIT
             /\ i * BATCH_SIZE_LIMIT \in Nat \ {0}
  <2>1. PICK d \in Nat : n = i + d
    <3>1. n - i \in Nat /\ n = i + (n - i)
      OBVIOUS
    <3>2. QED
      BY <3>1
  <2>2. n * BATCH_SIZE_LIMIT = i * BATCH_SIZE_LIMIT + d * BATCH_SIZE_LIMIT
    BY <1>1, <2>1
  <2>3. d * BATCH_SIZE_LIMIT >= 0 /\ d * BATCH_SIZE_LIMIT \in Int
    BY <1>1, <2>1
  <2>4. i * BATCH_SIZE_LIMIT > 0 /\ i * BATCH_SIZE_LIMIT \in Int
    BY <1>1
  <2>5. QED
    BY <2>2, <2>3, <2>4
<1>3. QED
  BY <1>1, <1>2

-----------------------------------------------------------------------------
LEMMA InitIInv == Init => IInv
<1> SUFFICES ASSUME Init PROVE IInv
  OBVIOUS
<1> USE DEF Init
<1>1. TypeOK
  BY DEF TypeOK
<1>2. BatchBelowLimit
  BY LimitAssumption DEF BatchBelowLimit
<1>3. Partitioned
  BY LimitAssumption DEF Partitioned
<1>4. FillerDelivers /\ StoredIsDelivered
  BY DEF FillerDelivers, StoredIsDelivered, Elements
<1>5. QED
  BY <1>1, <1>2, <1>3, <1>4 DEF IInv

LEMMA TrackPointIInv == ASSUME IInv, NEW t \in Trackers, TrackPoint(t) PROVE IInv'
<1> USE DEF IInv
<1> DEFINE L == BATCH_SIZE_LIMIT
           D == Len(deliveries)
           items == Append(batch, Len(tracked) + 1)
           new == SendPoints(items, t)
<1>1. L \in Nat \ {0} /\ D \in Nat /\ Len(batch) \in Nat /\ Len(tracked) \in Nat
  BY LimitAssumption DEF TypeOK
<1>2. /\ tracked' = Append(tracked, t) /\ tracked' \in Seq(Trackers)
      /\ Len(tracked') = Len(tracked) + 1 /\ tracked'[Len(tracked) + 1] = t
      /\ \A n \in 1..Len(tracked) : tracked'[n] = tracked[n]
  BY DEF TrackPoint, TypeOK
<1>3. /\ items \in Seq(Nat) /\ Len(items) = Len(batch) + 1
      /\ items[Len(batch) + 1] = Len(tracked) + 1
      /\ \A k \in 1..Len(batch) : items[k] = batch[k]
  BY <1>1 DEF TypeOK
<1>4. Len(tracked) = D * L + Len(batch) /\ D * L \in Nat
  BY <1>1, Products DEF Partitioned
<1>5. \A k \in 1..(Len(batch) + 1) : items[k] = D * L + k
  <2>1. \A k \in 1..Len(batch) : batch[k] = D * L + k
    BY DEF Partitioned, TypeOK
  <2>2. QED
    BY <1>1, <1>3, <1>4, <2>1, SMTT(30)
<1>6. stored' = stored
  BY DEF TrackPoint
<1>7. CASE IsBatchFull(items)
  <2>1. batch' = <<>> /\ deliveries' = Append(deliveries, new)
    BY <1>7 DEF TrackPoint
  <2>2. Len(batch) + 1 = L
    BY <1>1, <1>3, <1>7 DEF IsBatchFull, BatchBelowLimit
  <2>3. /\ new \in Delivery /\ new.points = items /\ new.to = t
        /\ new.state = "sleeping"
    BY <1>3 DEF SendPoints, Delivery
  <2>4. /\ deliveries' \in Seq(Delivery) /\ Len(deliveries') = D + 1
        /\ deliveries'[D + 1] = new
        /\ \A i \in 1..D : deliveries'[i] = deliveries[i]
    BY <2>1, <2>3 DEF TypeOK
  <2>5. DOMAIN deliveries' = 1..(D + 1) /\ DOMAIN deliveries = 1..D
    BY <2>4 DEF TypeOK
  <2>6. TypeOK'
    BY <1>2, <1>6, <2>1, <2>4 DEF TypeOK
  <2>7. BatchBelowLimit'
    BY <1>1, <2>1 DEF BatchBelowLimit
  <2>8. Partitioned'
    <3>1. ASSUME NEW i \in 1..(D + 1)
          PROVE  /\ Len(deliveries'[i].points) = L
                 /\ \A k \in 1..L : deliveries'[i].points[k] = (i - 1) * L + k
      <4>1. CASE i = D + 1
        <5>1. deliveries'[i].points = items /\ Len(items) = L
          BY <1>1, <1>3, <2>2, <2>3, <2>4, <4>1
        <5>2. i - 1 = D
          BY <1>1, <4>1
        <5>3. QED
          BY <1>5, <2>2, <5>1, <5>2
      <4>2. CASE i \in 1..D
        BY <2>4, <2>5, <4>2, SMTT(30) DEF Partitioned
      <4>3. QED
        BY <1>1, <4>1, <4>2, SMTT(30)
    <3>2. (D + 1) * L = D * L + L
      BY <1>1, Products
    <3>3. Len(tracked') = Len(deliveries') * L + Len(batch')
      BY <1>1, <1>2, <1>4, <2>1, <2>2, <2>4, <3>2
    <3>4. \A k \in DOMAIN batch' : batch'[k] = Len(deliveries') * L + k
      BY <2>1
    <3>5. QED
      BY <2>5, <3>1, <3>3, <3>4 DEF Partitioned
  <2>9. FillerDelivers'
    <3>1. ASSUME NEW i \in 1..(D + 1) PROVE deliveries'[i].to = tracked'[i * L]
      <4>1. CASE i = D + 1
        <5>1. i * L = Len(tracked) + 1
          BY <1>1, <1>4, <2>2, <4>1, Products
        <5>2. QED
          BY <1>2, <2>3, <2>4, <4>1, <5>1
      <4>2. CASE i \in 1..D
        <5>1. i * L \in 1..Len(tracked)
          BY <1>1, <1>4, <4>2, Products
        <5>2. deliveries[i].to = tracked[i * L]
          BY <2>5, <4>2 DEF FillerDelivers
        <5>3. QED
          BY <1>2, <2>4, <4>2, <5>1, <5>2
      <4>3. QED
        BY <1>1, <4>1, <4>2
    <3>2. QED
      BY <2>5, <3>1 DEF FillerDelivers
  <2>10. StoredIsDelivered'
    <3>1. ASSUME NEW u \in Trackers, NEW n \in stored[u]
          PROVE  \E i \in DOMAIN deliveries' : deliveries'[i].to = u
                                            /\ n \in Elements(deliveries'[i].points)
      <4>1. PICK i \in DOMAIN deliveries : deliveries[i].to = u
                                        /\ n \in Elements(deliveries[i].points)
        BY DEF StoredIsDelivered
      <4>2. QED
        BY <1>1, <2>4, <2>5, <4>1
    <3>2. ASSUME NEW i \in DOMAIN deliveries', deliveries'[i].state = "completed"
          PROVE  Elements(deliveries'[i].points) \subseteq stored[deliveries'[i].to]
      <4>1. i \in DOMAIN deliveries /\ deliveries'[i] = deliveries[i]
        BY <1>1, <2>3, <2>4, <2>5, <3>2
      <4>2. deliveries[i] \in Delivery
        BY <4>1 DEF TypeOK
      <4>3. deliveries[i].to \in Trackers
        BY <4>2 DEF Delivery
      <4>4. QED
        BY <3>2, <4>1, <4>3 DEF StoredIsDelivered
    <3>3. QED
      BY <1>6, <3>1, <3>2 DEF StoredIsDelivered, Elements
  <2>11. QED
    BY <2>6, <2>7, <2>8, <2>9, <2>10
<1>8. CASE ~IsBatchFull(items)
  <2>1. batch' = items /\ deliveries' = deliveries
    BY <1>8 DEF TrackPoint
  <2>2. TypeOK' /\ BatchBelowLimit'
    BY <1>1, <1>2, <1>3, <1>6, <1>8, <2>1 DEF TypeOK, BatchBelowLimit, IsBatchFull
  <2>3. DOMAIN batch' = 1..(Len(batch) + 1)
    BY <1>3, <2>1
  <2>4. Partitioned'
    BY <1>1, <1>2, <1>3, <1>4, <1>5, <2>1, <2>3, SMTT(30) DEF Partitioned
  <2>5. FillerDelivers'
    <3>1. ASSUME NEW i \in DOMAIN deliveries
          PROVE  deliveries[i].to = tracked'[i * L]
      <4>1. i \in 1..D
        BY DEF TypeOK
      <4>2. i * L \in 1..Len(tracked)
        BY <1>1, <1>4, <4>1, Products
      <4>3. QED
        BY <1>2, <4>2 DEF FillerDelivers
    <3>2. QED
      BY <2>1, <3>1 DEF FillerDelivers
  <2>6. StoredIsDelivered'
    BY <1>6, <2>1 DEF StoredIsDelivered
  <2>7. QED
    BY <2>2, <2>4, <2>5, <2>6
<1>9. QED
  BY <1>7, <1>8

(* A step of delivery i changes neither what it carries nor where to, and  *)
(* the database it writes to may take its points; it has when it completes.*)
LEMMA DeliverIInv ==
  ASSUME IInv, NEW i \in DOMAIN deliveries, NEW d \in Delivery,
         d.points = deliveries[i].points, d.to = deliveries[i].to,
         deliveries[i].state # "completed",
         deliveries' = [deliveries EXCEPT ![i] = d],
         Store(i) \/ (stored' = stored /\ d.state # "completed"),
         UNCHANGED <<tracked, batch>>
  PROVE  IInv'
<1> USE DEF IInv
<1>1. /\ deliveries' \in Seq(Delivery) /\ Len(deliveries') = Len(deliveries)
      /\ DOMAIN deliveries' = DOMAIN deliveries
  BY DEF TypeOK
<1>2. \A j \in DOMAIN deliveries : /\ deliveries'[j].points = deliveries[j].points
                                   /\ deliveries'[j].to = deliveries[j].to
                                   /\ j # i => deliveries'[j] = deliveries[j]
  BY DEF TypeOK
<1>3. deliveries'[i] = d /\ deliveries[i] \in Delivery
  BY DEF TypeOK
<1>4. Elements(deliveries[i].points) \subseteq Nat /\ deliveries[i].to \in Trackers
  BY <1>3 DEF Elements, Delivery
<1>5. \A u \in Trackers : /\ stored'[u] \subseteq stored[u] \cup
                             (IF u = deliveries[i].to
                              THEN Elements(deliveries[i].points) ELSE {})
                          /\ stored[u] \subseteq stored'[u]
  BY DEF Store, TypeOK
<1>6. d.state = "completed" => Elements(deliveries[i].points) \subseteq stored'[d.to]
  BY <1>4 DEF Store, TypeOK
<1>7. stored' \in [Trackers -> SUBSET Nat]
  BY <1>4 DEF Store, TypeOK
<1>8. TypeOK' /\ BatchBelowLimit'
  BY <1>1, <1>7 DEF TypeOK, BatchBelowLimit
<1>9. Partitioned'
  BY <1>1, <1>2, SMTT(30) DEF Partitioned
<1>10. FillerDelivers'
  BY <1>1, <1>2 DEF FillerDelivers
<1>11. StoredIsDelivered'
  <2>1. ASSUME NEW u \in Trackers, NEW n \in stored'[u]
        PROVE  \E j \in DOMAIN deliveries' : deliveries'[j].to = u
                                          /\ n \in Elements(deliveries'[j].points)
    <3>1. CASE n \in stored[u]
      <4>1. PICK j \in DOMAIN deliveries : deliveries[j].to = u
                                        /\ n \in Elements(deliveries[j].points)
        BY <3>1 DEF StoredIsDelivered
      <4>2. QED
        BY <1>1, <1>2, <4>1
    <3>2. CASE n \notin stored[u]
      <4>1. u = deliveries[i].to /\ n \in Elements(deliveries[i].points)
        BY <1>5, <3>2
      <4>2. QED
        BY <1>1, <1>2, <4>1
    <3>3. QED
      BY <3>1, <3>2
  <2>2. ASSUME NEW j \in DOMAIN deliveries', deliveries'[j].state = "completed"
        PROVE  Elements(deliveries'[j].points) \subseteq stored'[deliveries'[j].to]
    <3>1. CASE j = i
      BY <1>2, <1>3, <1>6, <2>2, <3>1
    <3>2. CASE j # i
      <4>1. j \in DOMAIN deliveries /\ deliveries'[j] = deliveries[j]
        BY <1>1, <1>2, <3>2
      <4>2. deliveries[j] \in Delivery
        BY <4>1 DEF TypeOK
      <4>3. deliveries[j].to \in Trackers
        BY <4>2 DEF Delivery
      <4>4. Elements(deliveries[j].points) \subseteq stored[deliveries[j].to]
        BY <2>2, <4>1, <4>3 DEF StoredIsDelivered
      <4>5. QED
        BY <1>5, <4>1, <4>3, <4>4
    <3>3. QED
      BY <3>1, <3>2
  <2>3. QED
    BY <2>1, <2>2, SMTT(30) DEF StoredIsDelivered, Elements
<1>12. QED
  BY <1>8, <1>9, <1>10, <1>11

LEMMA NextIInv == IInv /\ [Next]_vars => IInv'
<1> SUFFICES ASSUME IInv, [Next]_vars PROVE IInv'
  OBVIOUS
<1>1. ASSUME NEW t \in Trackers, TrackPoint(t) PROVE IInv'
  BY <1>1, TrackPointIInv
<1>2. ASSUME NEW i \in DOMAIN deliveries, Deliver(i) PROVE IInv'
  <2> DEFINE d == deliveries[i]
  <2>1. d \in Delivery
    BY DEF IInv, TypeOK
  <2>2. CASE Wake(i)
    <3> DEFINE e == [d EXCEPT !.state = "writing"]
    <3>1. e \in Delivery /\ e.points = d.points /\ e.to = d.to /\ e.state = "writing"
      BY <2>1 DEF Delivery
    <3>2. /\ deliveries' = [deliveries EXCEPT ![i] = e] /\ d.state # "completed"
          /\ UNCHANGED <<tracked, batch>> /\ stored' = stored
      BY <2>2 DEF Wake
    <3>3. QED
      BY <3>1, <3>2, DeliverIInv
  <2>3. CASE Complete(i)
    <3> DEFINE e == [d EXCEPT !.state = "completed"]
    <3>1. e \in Delivery /\ e.points = d.points /\ e.to = d.to
      BY <2>1 DEF Delivery
    <3>2. /\ deliveries' = [deliveries EXCEPT ![i] = e] /\ d.state # "completed"
          /\ UNCHANGED <<tracked, batch>> /\ Store(i)
      BY <2>3 DEF Complete
    <3>3. QED
      BY <3>1, <3>2, DeliverIInv
  <2>4. CASE BackOff(i)
    <3> DEFINE e == [d EXCEPT !.state = "sleeping", !.timer = NextTimer(@),
                              !.attempts = @ + 1]
    <3>1. NextTimer(d.timer) \in Nat /\ d.attempts + 1 \in Nat
      BY <2>1, SecondAssumption DEF NextTimer, Delivery
    <3>2. e \in Delivery /\ e.points = d.points /\ e.to = d.to /\ e.state = "sleeping"
      BY <2>1, <3>1 DEF Delivery
    <3>3. /\ deliveries' = [deliveries EXCEPT ![i] = e] /\ d.state # "completed"
          /\ UNCHANGED <<tracked, batch>> /\ (Store(i) \/ stored' = stored)
      BY <2>1, <2>4 DEF BackOff, Rejected
    <3>4. QED
      BY <3>2, <3>3, DeliverIInv
  <2>5. CASE Abandon(i)
    <3> DEFINE e == [d EXCEPT !.state = "abandoned"]
    <3>1. e \in Delivery /\ e.points = d.points /\ e.to = d.to /\ e.state = "abandoned"
      BY <2>1 DEF Delivery
    <3>2. /\ deliveries' = [deliveries EXCEPT ![i] = e] /\ d.state # "completed"
          /\ UNCHANGED <<tracked, batch>> /\ (Store(i) \/ stored' = stored)
      BY <2>5 DEF Abandon, Rejected
    <3>3. QED
      BY <3>1, <3>2, DeliverIInv
  <2>6. QED
    BY <1>2, <2>2, <2>3, <2>4, <2>5 DEF Deliver
<1>3. CASE UNCHANGED vars
  BY <1>3 DEF vars, IInv, TypeOK, BatchBelowLimit, Partitioned, FillerDelivers,
              StoredIsDelivered
<1>4. QED
  BY <1>1, <1>2, <1>3 DEF Next

LEMMA Inductive == Spec => []IInv
BY InitIInv, NextIInv, PTL DEF Spec

-----------------------------------------------------------------------------
(* No point is lost, repeated or displaced on its way into a batch, the    *)
(* variables stay in their types, and the batch never stays full.          *)
THEOREM PointsPartitioned == Spec => [](TypeOK /\ BatchBelowLimit /\ Partitioned)
<1>1. IInv => TypeOK /\ BatchBelowLimit /\ Partitioned
  BY DEF IInv
<1>2. QED
  BY <1>1, Inductive, PTL

(* A batch is written by the tracker that filled it. *)
THEOREM FillerDeliversBatch == Spec => []FillerDelivers
<1>1. IInv => FillerDelivers
  BY DEF IInv
<1>2. QED
  BY <1>1, Inductive, PTL

(* A database has all the points of the batches reported complete and no   *)
(* point of another tracker's batch.                                       *)
THEOREM StoredAsDelivered == Spec => []StoredIsDelivered
<1>1. IInv => StoredIsDelivered
  BY DEF IInv
<1>2. QED
  BY <1>1, Inductive, PTL

-----------------------------------------------------------------------------
(* The sleeps.  A power of two counts the subsets of 1..n.                 *)
LEMMA Powers ==
  /\ 2 ^ 0 = 1
  /\ \A n \in Nat : 2 ^ n \in Nat \ {0}
  /\ \A n \in Nat : 2 ^ (n + 1) = 2 * 2 ^ n
  /\ \A n \in Nat : \A m \in 0..n : 2 ^ m <= 2 ^ n
<1>1. \A n \in Nat : /\ IsFiniteSet(SUBSET (1..n)) /\ Cardinality(SUBSET (1..n)) = 2 ^ n
                     /\ 2 ^ n \in Nat
  <2>1. \A n \in Nat : IsFiniteSet(1..n) /\ Cardinality(1..n) = n
    BY FS_Interval
  <2>2. QED
    BY <2>1, FS_SUBSET, FS_CardinalityType, ZenonT(30)
<1>2. 2 ^ 0 = 1
  <2>1. 1..0 = {} /\ SUBSET {} = {{}}
    OBVIOUS
  <2>2. Cardinality({{}}) = 1
    BY FS_Singleton
  <2>3. QED
    BY <1>1, <2>1, <2>2
<1>3. ASSUME NEW n \in Nat, NEW m \in 0..n
      PROVE  2 ^ m <= 2 ^ n
  <2>1. SUBSET (1..m) \subseteq SUBSET (1..n)
    BY <1>3
  <2>2. m \in Nat
    BY <1>3
  <2>3. Cardinality(SUBSET (1..m)) <= Cardinality(SUBSET (1..n))
    BY <1>1, <2>1, FS_Subset
  <2>4. QED
    BY <1>1, <2>2, <2>3
<1>4. ASSUME NEW n \in Nat
      PROVE  2 ^ (n + 1) = 2 * 2 ^ n
  <2> DEFINE N == 1..n
             S == SUBSET N
             T == {y \in SUBSET (N \cup {n + 1}) : n + 1 \in y}
             f == [x \in S |-> x \cup {n + 1}]
  <2>0. 1..(n + 1) = N \cup {n + 1} /\ n + 1 \notin N
    BY <1>4
  <2> HIDE DEF N
  <2>1. f \in Bijection(S, T)
    <3>1. f \in [S -> T]
      <4>1. \A x \in S : x \cup {n + 1} \in T
        OBVIOUS
      <4>2. QED
        BY <4>1
    <3>2. ASSUME NEW x \in S, NEW y \in S, f[x] = f[y]
          PROVE  x = y
      <4>1. n + 1 \notin x /\ n + 1 \notin y
        BY <2>0
      <4>2. x \cup {n + 1} = y \cup {n + 1}
        BY <3>2
      <4>3. QED
        BY <4>1, <4>2
    <3>3. ASSUME NEW y \in T
          PROVE  \E x \in S : f[x] = y
      <4>1. y \subseteq N \cup {n + 1} /\ n + 1 \in y
        BY <3>3
      <4>2. y \ {n + 1} \subseteq N
        BY <4>1
      <4>3. f[y \ {n + 1}] = (y \ {n + 1}) \cup {n + 1}
        BY <4>2
      <4>4. (y \ {n + 1}) \cup {n + 1} = y
        BY <4>1
      <4>5. y \ {n + 1} \in S
        BY <4>2
      <4>6. QED
        BY <4>3, <4>4, <4>5, Zenon
    <3> HIDE DEF S, T, f
    <3>4. QED
      BY <3>1, <3>2, <3>3 DEF Bijection, Injection, Surjection, IsInjective
  <2> HIDE DEF f
  <2>2. IsFiniteSet(S) /\ Cardinality(S) = 2 ^ n /\ 2 ^ n \in Nat
    BY <1>1, <1>4 DEF N
  <2>3. ExistsBijection(S, T)
    BY <2>1 DEF ExistsBijection
  <2>4. IsFiniteSet(T) /\ Cardinality(T) = 2 ^ n
    BY <2>2, <2>3, FS_Bijection, FS_SameCardinalityBij
  <2>5. S \cup T = SUBSET (1..(n + 1)) /\ S \cap T = {}
    <3>1. \A x : x \subseteq N \cup {n + 1} => x \subseteq N \/ n + 1 \in x
      OBVIOUS
    <3>2. S \cup T \subseteq SUBSET (N \cup {n + 1})
      OBVIOUS
    <3>3. SUBSET (N \cup {n + 1}) \subseteq S \cup T
      BY <3>1
    <3>4. S \cap T = {}
      BY <2>0
    <3>5. S \cup T = SUBSET (1..(n + 1))
      BY <2>0, <3>2, <3>3
    <3>6. QED
      BY <3>4, <3>5
  <2> HIDE DEF S, T
  <2>6. Cardinality(S \cup T) = 2 ^ n + 2 ^ n
    <3>1. Cardinality(S \cup T) = Cardinality(S) + Cardinality(T) - Cardinality(S \cap T)
      BY <2>2, <2>4, FS_Union
    <3>2. Cardinality(S \cap T) = 0
      BY <2>5, FS_EmptySet
    <3>3. QED
      BY <2>2, <2>4, <3>1, <3>2
  <2>7. n + 1 \in Nat
    BY <1>4
  <2>8. QED
    BY <1>1, <2>2, <2>5, <2>6, <2>7, SMTT(30)
<1>5. ASSUME NEW n \in Nat
      PROVE  2 ^ n # 0
  <2>1. 0 \in 0..n
    OBVIOUS
  <2>2. 2 ^ 0 <= 2 ^ n
    BY <1>3, <2>1
  <2>3. QED
    BY <1>1, <1>2, <2>2
<1>6. QED
  BY <1>1, <1>2, <1>3, <1>4, <1>5

(* The sleeps and the attempts of one delivery.                            *)
Sleeps(n) == IF n = 0 THEN 0 ELSE ONE_SECOND * 2 ^ (n - 1)

Backed(d) ==
  /\ d.attempts <= MAX_NUMBER_OF_ATTEMPTS
  /\ d.timer = Sleeps(d.attempts)
  /\ d.state = "abandoned" => d.attempts = MAX_NUMBER_OF_ATTEMPTS

BackedOff == \A i \in DOMAIN deliveries : Backed(deliveries[i])

LEMMA SleepsDouble ==
  ASSUME NEW n \in Nat
  PROVE  Sleeps(n) \in Nat /\ NextTimer(Sleeps(n)) = Sleeps(n + 1)
<1>1. ONE_SECOND \in Nat \ {0}
  BY SecondAssumption
<1>2. CASE n = 0
  <2>1. Sleeps(0) = 0 /\ Sleeps(1) = ONE_SECOND * 2 ^ 0
    BY DEF Sleeps
  <2>2. Sleeps(1) = ONE_SECOND
    BY <1>1, <2>1, Powers
  <2>3. QED
    BY <1>1, <1>2, <2>1, <2>2 DEF NextTimer
<1>3. CASE n # 0
  <2> DEFINE p == 2 ^ (n - 1)
             q == 2 ^ n
  <2>1. n - 1 \in Nat /\ (n - 1) + 1 = n
    BY <1>3
  <2>2. p \in Nat \ {0} /\ q = 2 * p
    BY <2>1, Powers
  <2>3. Sleeps(n) = ONE_SECOND * p /\ Sleeps(n + 1) = ONE_SECOND * q
    <3>1. n + 1 # 0 /\ (n + 1) - 1 = n
      OBVIOUS
    <3>2. QED
      BY <1>3, <3>1 DEF Sleeps
  <2> HIDE DEF p, q
  <2>4. ONE_SECOND * p \in Nat \ {0} /\ ONE_SECOND * q = (ONE_SECOND * p) * 2
    BY <1>1, <2>2
  <2>5. QED
    BY <2>3, <2>4 DEF NextTimer
<1>4. QED
  BY <1>2, <1>3

(* A step that leaves the sleeps and the attempts of the deliveries, but   *)
(* for delivery i, which becomes e.                                        *)
LEMMA OneBackedOff ==
  ASSUME TypeOK, BackedOff, NEW i \in DOMAIN deliveries, NEW e, Backed(e),
         deliveries' = [deliveries EXCEPT ![i] = e]
  PROVE  BackedOff'
<1>1. deliveries \in Seq(Delivery)
  BY DEF TypeOK
<1>2. DOMAIN deliveries' = DOMAIN deliveries /\ deliveries'[i] = e
      /\ \A j \in DOMAIN deliveries \ {i} : deliveries'[j] = deliveries[j]
  BY <1>1
<1>3. QED
  BY <1>2 DEF BackedOff

LEMMA NextBackedOff == TypeOK /\ BackedOff /\ [Next]_vars => BackedOff'
<1> SUFFICES ASSUME TypeOK, BackedOff, [Next]_vars PROVE BackedOff'
  OBVIOUS
<1>1. MAX_NUMBER_OF_ATTEMPTS \in Nat
  BY AttemptsAssumption
<1>2. ASSUME NEW t \in Trackers, TrackPoint(t) PROVE BackedOff'
  <2> DEFINE items == Append(batch, Len(tracked) + 1)
             new == SendPoints(items, t)
  <2>1. deliveries' = deliveries \/ deliveries' = Append(deliveries, new)
    BY <1>2 DEF TrackPoint
  <2>2. Backed(new)
    BY <1>1 DEF SendPoints, Backed, Sleeps
  <2> HIDE DEF new, items
  <2>3. CASE deliveries' = Append(deliveries, new)
    <3>1. deliveries \in Seq(Delivery)
      BY DEF TypeOK
    <3>2. \A j \in DOMAIN deliveries' :
            \/ j \in DOMAIN deliveries /\ deliveries'[j] = deliveries[j]
            \/ deliveries'[j] = new
      BY <2>3, <3>1
    <3>3. QED
      BY <2>2, <3>2 DEF BackedOff
  <2>4. QED
    BY <2>1, <2>3 DEF BackedOff
<1>3. ASSUME NEW i \in DOMAIN deliveries, Deliver(i) PROVE BackedOff'
  <2> DEFINE d == deliveries[i]
  <2>1. d \in Delivery /\ Backed(d) /\ d.attempts \in Nat
    <3>1. d \in Delivery /\ Backed(d)
      BY DEF TypeOK, BackedOff
    <3>2. QED
      BY <3>1 DEF Delivery
  <2>2. CASE Wake(i) \/ Complete(i) \/ Abandon(i)
    <3>1. PICK state \in {"writing", "completed", "abandoned"} :
            /\ deliveries' = [deliveries EXCEPT ![i] = [d EXCEPT !.state = state]]
            /\ state = "abandoned" => d.attempts >= MAX_NUMBER_OF_ATTEMPTS
      <4>1. CASE Wake(i)
        BY <4>1 DEF Wake
      <4>2. CASE Complete(i)
        BY <4>2 DEF Complete
      <4>3. CASE Abandon(i)
        BY <4>3 DEF Abandon
      <4>4. QED
        BY <2>2, <4>1, <4>2, <4>3
    <3> DEFINE e == [d EXCEPT !.state = state]
    <3>2. e.attempts = d.attempts /\ e.timer = d.timer /\ e.state = state
      BY <2>1 DEF Delivery
    <3>3. Backed(e)
      BY <1>1, <2>1, <3>1, <3>2 DEF Backed
    <3> HIDE DEF e
    <3>4. QED
      BY <3>1, <3>3, OneBackedOff DEF e
  <2>3. CASE BackOff(i)
    <3> DEFINE e == [d EXCEPT !.state = "sleeping", !.timer = NextTimer(@), !.attempts = @ + 1]
    <3>1. deliveries' = [deliveries EXCEPT ![i] = e] /\ d.attempts < MAX_NUMBER_OF_ATTEMPTS
      BY <2>3 DEF BackOff
    <3>2. /\ e.attempts = d.attempts + 1 /\ e.timer = NextTimer(d.timer)
          /\ e.state = "sleeping"
      BY <2>1 DEF Delivery
    <3>3. d.timer = Sleeps(d.attempts)
      BY <2>1 DEF Backed
    <3>4. e.timer = Sleeps(d.attempts + 1)
      BY <2>1, <3>2, <3>3, SleepsDouble
    <3>5. Backed(e)
      BY <1>1, <2>1, <3>1, <3>2, <3>4 DEF Backed
    <3> HIDE DEF e
    <3>6. QED
      BY <3>1, <3>5, OneBackedOff
  <2>4. QED
    BY <1>3, <2>2, <2>3 DEF Deliver
<1>4. CASE UNCHANGED vars
  BY <1>4 DEF vars, BackedOff
<1>5. QED
  BY <1>2, <1>3, <1>4 DEF Next

(* Whatever the shortest sleep and the number of retries are, the sleeps   *)
(* double and points are let go only after the last retry; and none sleeps *)
(* longer than setTimeout() can if the last retry does not.  The code's    *)
(* 15 retries from 1000 milliseconds reach 16384000, of 2147483647.        *)
THEOREM RetriesDouble ==
  ASSUME MAX_NUMBER_OF_ATTEMPTS = 0
           \/ ONE_SECOND * 2 ^ (MAX_NUMBER_OF_ATTEMPTS - 1) <= MAX_TIMEOUT
  PROVE  Spec => []BackoffDoubles
<1>1. Init => BackedOff
  BY DEF Init, BackedOff
<1>2. IInv => TypeOK
  BY DEF IInv
<1>3. TypeOK /\ BackedOff => BackoffDoubles
  <2>1. SUFFICES ASSUME TypeOK, BackedOff, NEW i \in DOMAIN deliveries
                 PROVE  deliveries[i].timer <= MAX_TIMEOUT
    BY DEF BackoffDoubles, BackedOff, Backed, Sleeps
  <2> DEFINE n == deliveries[i].attempts
             m == MAX_NUMBER_OF_ATTEMPTS
  <2>2. n \in Nat /\ m \in Nat /\ n <= m /\ deliveries[i].timer = Sleeps(n)
    <3>1. deliveries[i] \in Delivery
      BY <2>1 DEF TypeOK
    <3>2. n \in Nat
      BY <3>1 DEF Delivery
    <3>3. QED
      BY <2>1, <3>2, AttemptsAssumption DEF BackedOff, Backed
  <2>3. CASE n = 0
    BY <2>2, <2>3, SecondAssumption DEF Sleeps
  <2>4. CASE n # 0
    <3> DEFINE p == 2 ^ (n - 1)
               q == 2 ^ (m - 1)
    <3>1. n - 1 \in 0..(m - 1) /\ m - 1 \in Nat /\ n - 1 \in Nat
      BY <2>2, <2>4
    <3>2. p \in Nat /\ q \in Nat /\ p <= q
      BY <3>1, Powers
    <3>3. Sleeps(n) = ONE_SECOND * p /\ ONE_SECOND * q <= MAX_TIMEOUT
      BY <2>2, <2>4, <3>1 DEF Sleeps
    <3> HIDE DEF p, q
    <3>4. ONE_SECOND * p <= ONE_SECOND * q
      BY <3>2, SecondAssumption
    <3>5. ONE_SECOND * p \in Int /\ ONE_SECOND * q \in Int /\ MAX_TIMEOUT \in Int
      BY <3>2, SecondAssumption
    <3>6. QED
      BY <2>2, <3>3, <3>4, <3>5
  <2>5. QED
    BY <2>3, <2>4
<1>4. QED
  BY <1>1, <1>2, <1>3, NextBackedOff, Inductive, PTL DEF Spec
=============================================================================
