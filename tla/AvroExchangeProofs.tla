------------------------- MODULE AvroExchangeProofs -------------------------
(***************************************************************************)
(* The safety of AvroExchange, and that it implements AvroChannel, for any *)
(* producers, consumers, schemas and requests, and ids of any width.       *)
(***************************************************************************)
EXTENDS AvroExchange, TLAPS, FiniteSetTheorems

(* A stream of whose source r items were written to it, that transforms w, *)
(* has q waiting and had an error for those in e.                          *)
Past(r, w, q, e) == (1..r) \ (q \cup {w} \cup e)

(* What waits does so behind what is being transformed, or was left behind *)
(* by an error; only the latter is passed by.                              *)
Fine(r, w, q, e) ==
  /\ r \in Nat /\ w \in 0..r /\ q \subseteq 1..r /\ e \subseteq 1..r
  /\ w \notin q \cup e /\ q \cap e = {}
  /\ \A m \in q : (w # 0 /\ w < m) \/ \E x \in e : x < m
  /\ \A m \in q \cup {w}, a \in Past(r, w, q, e) : m # 0 /\ m < a => \E x \in e : x < m

StreamsOK ==
  /\ read \in [Streams -> Nat] /\ writing \in [Streams -> Nat]
  /\ waiting \in [Streams -> SUBSET Nat] /\ errors \in [Streams -> SUBSET Nat]
  /\ piped \in [Streams -> BOOLEAN]
  /\ \A s \in Streams :
       read[s] <= Available(s) /\ Fine(read[s], writing[s], waiting[s], errors[s])

(* A message of these producers has the id of its schema, one that could   *)
(* be written; the one that is not theirs has none.                        *)
MessageOK(m) ==
  IF m.buffer = Foreign THEN m.schemaId = 0
  ELSE /\ m.schemaId \in DOMAIN ids /\ Writable(m.schemaId)
       /\ ids[m.schemaId] = m.buffer[1]

(* What a consumer found of the registry is what it still says. *)
RegistryOK ==
  /\ ids \in Seq(Schemas \ Malformed) /\ subjects \in [Subjects -> SUBSET DOMAIN ids]
  /\ deletes \in 0..MaxDeletes
  /\ log \in Seq([schemaId : 0..Len(ids), buffer : Content])
  /\ \A i \in DOMAIN log : MessageOK(log[i])
  /\ DOMAIN cache \subseteq DOMAIN ids /\ \A n \in DOMAIN cache : cache[n] = ids[n]

(* A serializer that is at a request goes on with the id that the registry *)
(* has for its schema.                                                     *)
SerializerOK(p) ==
  /\ id[p] \in 0..Len(ids)
  /\ step[p] # "start" => writing[p] # 0 /\ Request(p).schema \notin Malformed
  /\ step[p] = "serializing" =>
       id[p] \in DOMAIN ids /\ ids[id[p]] = Request(p).schema

SerializersOK ==
  /\ step \in [Producers -> {"start", "checking", "adding", "serializing"}]
  /\ id \in [Producers -> Nat]
  /\ \A p \in Producers : SerializerOK(p)

(* What came out of a deserializer is what it is done with. *)
Got(c) == {received[c][i][1] : i \in DOMAIN received[c]}

DeserializersOK ==
  /\ fetching \subseteq Consumers /\ received \in [Consumers -> Seq(Nat \X Content)]
  /\ \A c \in Consumers :
       /\ Got(c) = Past(read[c], writing[c], waiting[c], errors[c])
       /\ c \in fetching => writing[c] # 0

IInv == StreamsOK /\ RegistryOK /\ SerializersOK /\ DeserializersOK

-----------------------------------------------------------------------------
(* Powers of two, as the number of the subsets of a set.                   *)
LEMMA PowerPositive == ASSUME NEW n \in Nat PROVE 2^n \in Nat /\ 2^n >= 1
<1>1. IsFiniteSet(1..n) /\ Cardinality(1..n) = n
  BY FS_Interval
<1>2. IsFiniteSet(SUBSET (1..n)) /\ Cardinality(SUBSET (1..n)) = 2^n
  BY <1>1, FS_SUBSET
<1>3. Cardinality(SUBSET (1..n)) \in Nat /\ Cardinality(SUBSET (1..n)) # 0
  BY <1>2, FS_CardinalityType, FS_EmptySet
<1>4. QED
  BY <1>2, <1>3

(* An id that could be written is read back as itself, or as a negative    *)
(* number, which is no id; the 0 of a foreign message is read as 0.        *)
LEMMA ReadBack ==
  ASSUME NEW n \in Nat, n = 0 \/ Writable(n)
  PROVE  \/ readInt32BE(writeUInt32BE(n)) = n
         \/ n # 0 /\ readInt32BE(writeUInt32BE(n)) < 0
<1>1. IdBits \in Nat /\ IdBits - 1 \in Nat
  BY BoundsAssumption
<1>2. 2^(IdBits - 1) \in Nat /\ 2^(IdBits - 1) >= 1 /\ 2^IdBits \in Nat
  BY <1>1, PowerPositive
<1>3. CASE n >= 2^(IdBits - 1)
  BY <1>2, <1>3 DEF Writable, readInt32BE, writeUInt32BE
<1>4. CASE ~(n >= 2^(IdBits - 1))
  BY <1>4 DEF readInt32BE, writeUInt32BE
<1>5. QED
  BY <1>3, <1>4

LEMMA SeqMono == ASSUME NEW A, NEW B, A \subseteq B, NEW s \in Seq(A) PROVE s \in Seq(B)
OBVIOUS

LEMMA SeqElement == ASSUME NEW A, NEW s \in Seq(A), NEW i \in DOMAIN s PROVE s[i] \in A
OBVIOUS

LEMMA SeqOfElements ==
  ASSUME NEW A, NEW n \in Nat, NEW s, s = [i \in 1..n |-> s[i]],
         \A i \in 1..n : s[i] \in A
  PROVE  s \in Seq(A)
OBVIOUS

(* Concatenation and prefix, as the proofs below use them.                 *)
LEMMA Longer ==
  ASSUME NEW A, NEW s \in Seq(A), NEW t \in Seq(A)
  PROVE  /\ s \o t \in Seq(A) /\ Len(s \o t) = Len(s) + Len(t)
         /\ \A i \in 1..Len(s) : (s \o t)[i] = s[i]
         /\ \A i \in 1..Len(t) : (s \o t)[Len(s) + i] = t[i]
OBVIOUS

-----------------------------------------------------------------------------
(* The steps of a stream: it is done with w and goes on with n, the first  *)
(* of those that wait, or with none;                                       *)
LEMMA FineDone ==
  ASSUME NEW r \in Nat, NEW w \in Nat, NEW q \in SUBSET Nat, NEW e \in SUBSET Nat,
         Fine(r, w, q, e), w # 0,
         NEW n \in Nat, n \in q \/ (n = 0 /\ q = {}), \A m \in q : n <= m
  PROVE  /\ Fine(r, n, q \ {n}, e)
         /\ Past(r, n, q \ {n}, e) = Past(r, w, q, e) \cup {w}
<1>1. /\ r \in Nat /\ w \in 1..r /\ q \subseteq 1..r /\ e \subseteq 1..r
      /\ w \notin q /\ w \notin e /\ q \cap e = {} /\ n \in 0..r
  <2>1. /\ r \in Nat /\ w \in 0..r /\ q \subseteq 1..r /\ e \subseteq 1..r
        /\ w \notin q /\ w \notin e /\ q \cap e = {}
    BY DEF Fine
  <2>2. w \in 1..r
    BY <2>1
  <2>3. n \in 0..r
    <3>1. CASE n \in q
      BY <2>1, <3>1
    <3>2. CASE n = 0
      BY <2>1, <3>2
    <3>3. QED
      BY <3>1, <3>2
  <2>4. QED
    BY <2>1, <2>2, <2>3
<1>2. Past(r, n, q \ {n}, e) = Past(r, w, q, e) \cup {w}
  BY <1>1 DEF Past
<1>3. n \notin (q \ {n}) \cup e /\ (q \ {n}) \cap e = {}
  BY <1>1
<1>4. ASSUME NEW m \in q \ {n} PROVE n # 0 /\ n < m
  <2>1. n \in q /\ n <= m /\ n # m /\ n \in Nat /\ m \in Nat /\ n # 0
    BY <1>1
  <2>2. QED
    BY <2>1
<1>5. ASSUME NEW m \in (q \ {n}) \cup {n}, NEW a \in Past(r, n, q \ {n}, e), m # 0, m < a
      PROVE  \E x \in e : x < m
  <2>1. m \in q
    BY <1>5
  <2>2. CASE a = w
    <3>1. ~(w < m)
      BY <1>1, <1>5, <2>1, <2>2
    <3>2. QED
      BY <2>1, <3>1 DEF Fine
  <2>3. CASE a \in Past(r, w, q, e)
    BY <1>5, <2>1, <2>3 DEF Fine
  <2>4. QED
    BY <1>2, <2>2, <2>3
<1>6. QED
  BY <1>1, <1>2, <1>3, <1>4, <1>5 DEF Fine

(* it has an error;                                                        *)
LEMMA FineError ==
  ASSUME NEW r \in Nat, NEW w \in Nat, NEW q \in SUBSET Nat, NEW e \in SUBSET Nat,
         Fine(r, w, q, e), w # 0
  PROVE  /\ Fine(r, 0, q, e \cup {w})
         /\ Past(r, 0, q, e \cup {w}) = Past(r, w, q, e)
<1>1. /\ r \in Nat /\ w \in 1..r /\ q \subseteq 1..r /\ e \subseteq 1..r
      /\ w \notin q /\ w \notin e /\ q \cap e = {}
  BY DEF Fine
<1>2. Past(r, 0, q, e \cup {w}) = Past(r, w, q, e)
  BY <1>1 DEF Past
<1>3. \A m \in q : \E x \in e \cup {w} : x < m
  BY DEF Fine
<1>4. e \cup {w} \subseteq 1..r /\ 0 \notin q \cup (e \cup {w}) /\ q \cap (e \cup {w}) = {}
      /\ 0 \in 0..r
  BY <1>1
<1>5. \A m \in q \cup {0}, a \in Past(r, 0, q, e \cup {w}) :
        m # 0 /\ m < a => \E x \in e \cup {w} : x < m
  BY <1>3
<1>6. QED
  BY <1>1, <1>2, <1>3, <1>4, <1>5 DEF Fine

(* the next item is written to it.                                         *)
LEMMA FinePipe ==
  ASSUME NEW r \in Nat, NEW w \in Nat, NEW q \in SUBSET Nat, NEW e \in SUBSET Nat,
         Fine(r, w, q, e)
  PROVE  /\ w = 0 => /\ Fine(r + 1, r + 1, q, e)
                     /\ Past(r + 1, r + 1, q, e) = Past(r, w, q, e)
         /\ w # 0 => /\ Fine(r + 1, w, q \cup {r + 1}, e)
                     /\ Past(r + 1, w, q \cup {r + 1}, e) = Past(r, w, q, e)
<1>1. /\ r \in Nat /\ w \in 0..r /\ q \subseteq 1..r /\ e \subseteq 1..r
      /\ w \notin q /\ w \notin e /\ q \cap e = {}
      /\ 1..(r + 1) = (1..r) \cup {r + 1} /\ r + 1 \notin 1..r /\ r + 1 # 0
  BY DEF Fine
<1>2. \A a \in Past(r, w, q, e) : a \in 1..r /\ ~(r + 1 < a)
  BY <1>1 DEF Past
<1>3. ASSUME w = 0
      PROVE  /\ Fine(r + 1, r + 1, q, e)
             /\ Past(r + 1, r + 1, q, e) = Past(r, w, q, e)
  <2>1. Past(r + 1, r + 1, q, e) = Past(r, w, q, e)
    BY <1>1, <1>3 DEF Past
  <2>2. \A m \in q : \E x \in e : x < m
    BY <1>3 DEF Fine
  <2>3. r + 1 \notin q \cup e /\ q \subseteq 1..(r + 1) /\ e \subseteq 1..(r + 1)
        /\ r + 1 \in Nat /\ r + 1 \in 0..(r + 1)
    BY <1>1
  <2>4. \A m \in q \cup {r + 1}, a \in Past(r + 1, r + 1, q, e) :
          m # 0 /\ m < a => \E x \in e : x < m
    BY <1>2, <2>1, <2>2
  <2>5. QED
    BY <1>1, <2>1, <2>2, <2>3, <2>4 DEF Fine
<1>4. ASSUME w # 0
      PROVE  /\ Fine(r + 1, w, q \cup {r + 1}, e)
             /\ Past(r + 1, w, q \cup {r + 1}, e) = Past(r, w, q, e)
  <2>1. Past(r + 1, w, q \cup {r + 1}, e) = Past(r, w, q, e)
    BY <1>1, <1>4 DEF Past
  <2>2. w < r + 1 /\ w \in 0..(r + 1) /\ w # r + 1 /\ r + 1 \in Nat
    BY <1>1
  <2>3. \A m \in q \cup {r + 1} : (w # 0 /\ w < m) \/ \E x \in e : x < m
    BY <1>4, <2>2 DEF Fine
  <2>4. w \notin (q \cup {r + 1}) \cup e /\ (q \cup {r + 1}) \cap e = {}
        /\ q \cup {r + 1} \subseteq 1..(r + 1) /\ e \subseteq 1..(r + 1)
    BY <1>1, <2>2
  <2>5. ASSUME NEW m \in (q \cup {r + 1}) \cup {w},
               NEW a \in Past(r + 1, w, q \cup {r + 1}, e), m # 0, m < a
        PROVE  \E x \in e : x < m
    <3>1. a \in Past(r, w, q, e) /\ m # r + 1
      BY <1>2, <2>1, <2>5
    <3>2. QED
      BY <2>5, <3>1 DEF Fine
  <2>6. QED
    BY <2>1, <2>2, <2>3, <2>4, <2>5 DEF Fine
<1>5. QED
  BY <1>3, <1>4

(* The other streams are as they were. *)
Others(s) ==
  \A t \in Streams \ {s} :
    /\ read'[t] = read[t] /\ writing'[t] = writing[t]
    /\ waiting'[t] = waiting[t] /\ errors'[t] = errors[t]

LEMMA StreamsStep ==
  ASSUME StreamsOK, NEW s \in Streams, Others(s),
         read' \in [Streams -> Nat], writing' \in [Streams -> Nat],
         waiting' \in [Streams -> SUBSET Nat], errors' \in [Streams -> SUBSET Nat],
         piped' \in [Streams -> BOOLEAN],
         Len(log) \in Nat, Len(log') \in Nat, Len(log') >= Len(log),
         read'[s] <= Available(s),
         Fine(read'[s], writing'[s], waiting'[s], errors'[s])
  PROVE  StreamsOK'
<1>1. ASSUME NEW t \in Streams
      PROVE  /\ read'[t] <= Available(t)
             /\ Fine(read'[t], writing'[t], waiting'[t], errors'[t])
  BY DEF StreamsOK, Others
<1>2. \A t \in Streams : read'[t] \in Nat /\ Available(t) \in Nat
                         /\ Available(t)' \in Nat /\ Available(t) <= Available(t)'
  BY RequestsAssumption DEF Available
<1>3. ASSUME NEW t \in Streams PROVE read'[t] <= Available(t)'
  BY <1>1, <1>2
<1>4. QED
  BY <1>1, <1>3 DEF StreamsOK

LEMMA StreamsDone ==
  ASSUME StreamsOK, NEW s \in Streams, writing[s] # 0, Done(s),
         Len(log) \in Nat, Len(log') \in Nat, Len(log') >= Len(log)
  PROVE  /\ StreamsOK' /\ Others(s)
         /\ read' = read /\ errors' = errors
         /\ Past(read[s], writing'[s], waiting'[s], errors[s])
              = Past(read[s], writing[s], waiting[s], errors[s]) \cup {writing[s]}
<1>1. /\ read \in [Streams -> Nat] /\ writing \in [Streams -> Nat]
      /\ waiting \in [Streams -> SUBSET Nat] /\ errors \in [Streams -> SUBSET Nat]
      /\ piped \in [Streams -> BOOLEAN] /\ read[s] <= Available(s)
      /\ Fine(read[s], writing[s], waiting[s], errors[s])
  BY DEF StreamsOK
<1>2. PICK n \in Nat : /\ writing' = [writing EXCEPT ![s] = n]
                       /\ n \in waiting[s] \/ (n = 0 /\ waiting[s] = {})
                       /\ \A m \in waiting[s] : n <= m
  <2>1. CASE waiting[s] = {} /\ writing' = [writing EXCEPT ![s] = 0]
    BY <2>1
  <2>2. CASE \E n \in waiting[s] :
               (\A m \in waiting[s] : n <= m) /\ writing' = [writing EXCEPT ![s] = n]
    BY <1>1, <2>2
  <2>3. QED
    BY <2>1, <2>2 DEF Done
<1>3. /\ writing'[s] = n /\ waiting' = [waiting EXCEPT ![s] = waiting[s] \ {n}]
      /\ read' = read /\ piped' = piped /\ errors' = errors
  BY <1>1, <1>2 DEF Done
<1>4. /\ waiting'[s] = waiting[s] \ {n} /\ Others(s)
      /\ writing' \in [Streams -> Nat] /\ waiting' \in [Streams -> SUBSET Nat]
  BY <1>1, <1>2, <1>3 DEF Others
<1>5. /\ Fine(read[s], n, waiting[s] \ {n}, errors[s])
      /\ Past(read[s], n, waiting[s] \ {n}, errors[s])
           = Past(read[s], writing[s], waiting[s], errors[s]) \cup {writing[s]}
  <2>1. /\ read[s] \in Nat /\ writing[s] \in Nat
        /\ waiting[s] \in SUBSET Nat /\ errors[s] \in SUBSET Nat
    BY <1>1
  <2>2. /\ Fine(read[s], writing[s], waiting[s], errors[s]) /\ writing[s] # 0 /\ n \in Nat
        /\ n \in waiting[s] \/ (n = 0 /\ waiting[s] = {})
        /\ \A m \in waiting[s] : n <= m
    BY <1>1, <1>2
  <2>3. PICK r \in Nat, w \in Nat, q \in SUBSET Nat, e \in SUBSET Nat :
          r = read[s] /\ w = writing[s] /\ q = waiting[s] /\ e = errors[s]
    BY <2>1
  <2>4. /\ Fine(r, w, q, e) /\ w # 0 /\ (n \in q \/ (n = 0 /\ q = {}))
        /\ \A m \in q : n <= m
    BY <2>2, <2>3
  <2>5. Fine(r, n, q \ {n}, e) /\ Past(r, n, q \ {n}, e) = Past(r, w, q, e) \cup {w}
    BY <2>4, FineDone, SMTT(30)
  <2>6. QED
    BY <2>3, <2>5
<1>6. QED
  BY <1>1, <1>3, <1>4, <1>5, StreamsStep

LEMMA StreamsError ==
  ASSUME StreamsOK, NEW s \in Streams, writing[s] # 0, Error(s), log' = log, Len(log) \in Nat
  PROVE  /\ StreamsOK' /\ Others(s) /\ writing'[s] = 0
         /\ Past(read'[s], writing'[s], waiting'[s], errors'[s])
              = Past(read[s], writing[s], waiting[s], errors[s])
         /\ read' = read /\ waiting' = waiting /\ errors'[s] = errors[s] \cup {writing[s]}
<1>1. /\ read \in [Streams -> Nat] /\ writing \in [Streams -> Nat]
      /\ waiting \in [Streams -> SUBSET Nat] /\ errors \in [Streams -> SUBSET Nat]
      /\ piped \in [Streams -> BOOLEAN] /\ read[s] <= Available(s)
      /\ Fine(read[s], writing[s], waiting[s], errors[s])
  BY DEF StreamsOK
<1>2. /\ read' = read /\ waiting' = waiting
      /\ writing'[s] = 0 /\ errors'[s] = errors[s] \cup {writing[s]} /\ Others(s)
      /\ writing' \in [Streams -> Nat] /\ errors' \in [Streams -> SUBSET Nat]
      /\ piped' \in [Streams -> BOOLEAN]
  BY <1>1 DEF Error, Others
<1>3. /\ Fine(read[s], 0, waiting[s], errors[s] \cup {writing[s]})
      /\ Past(read[s], 0, waiting[s], errors[s] \cup {writing[s]})
           = Past(read[s], writing[s], waiting[s], errors[s])
  <2>1. /\ read[s] \in Nat /\ writing[s] \in Nat
        /\ waiting[s] \in SUBSET Nat /\ errors[s] \in SUBSET Nat
    BY <1>1
  <2>2. PICK r \in Nat, w \in Nat, q \in SUBSET Nat, e \in SUBSET Nat :
          r = read[s] /\ w = writing[s] /\ q = waiting[s] /\ e = errors[s]
    BY <2>1
  <2>3. Fine(r, w, q, e) /\ w # 0
    BY <1>1, <2>2
  <2>4. Fine(r, 0, q, e \cup {w}) /\ Past(r, 0, q, e \cup {w}) = Past(r, w, q, e)
    BY <2>3, FineError, SMTT(30)
  <2>5. QED
    BY <2>2, <2>4
<1>4. Len(log') \in Nat /\ Len(log') >= Len(log)
  OBVIOUS
<1>5. StreamsOK'
  BY <1>1, <1>2, <1>3, <1>4, StreamsStep
<1>6. QED
  BY <1>2, <1>3, <1>5

LEMMA StreamsPipe ==
  ASSUME StreamsOK, NEW s \in Streams, Pipe(s), Len(log) \in Nat
  PROVE  /\ StreamsOK' /\ Others(s) /\ errors' = errors
         /\ Past(read'[s], writing'[s], waiting'[s], errors'[s])
              = Past(read[s], writing[s], waiting[s], errors[s])
         /\ writing[s] # 0 => writing'[s] = writing[s]
<1>1. /\ read \in [Streams -> Nat] /\ writing \in [Streams -> Nat]
      /\ waiting \in [Streams -> SUBSET Nat] /\ errors \in [Streams -> SUBSET Nat]
      /\ piped \in [Streams -> BOOLEAN]
      /\ Fine(read[s], writing[s], waiting[s], errors[s])
  BY DEF StreamsOK
<1>2. /\ read[s] < Available(s) /\ read' = [read EXCEPT ![s] = read[s] + 1]
      /\ piped' = piped /\ errors' = errors /\ log' = log
      /\ writing[s] = 0 => /\ writing' = [writing EXCEPT ![s] = read[s] + 1]
                           /\ waiting' = waiting
      /\ writing[s] # 0 => /\ waiting' = [waiting EXCEPT ![s] = waiting[s] \cup {read[s] + 1}]
                           /\ writing' = writing
  BY DEF Pipe
<1>3. /\ Available(s) \in Nat /\ read[s] \in Nat /\ read[s] + 1 \in Nat
      /\ read[s] + 1 <= Available(s)
  <2>1. Available(s) \in Nat
    BY RequestsAssumption DEF Available
  <2>2. QED
    BY <1>1, <1>2, <2>1
<1>4. /\ read'[s] = read[s] + 1 /\ Others(s)
      /\ read' \in [Streams -> Nat] /\ writing' \in [Streams -> Nat]
      /\ waiting' \in [Streams -> SUBSET Nat]
      /\ writing[s] = 0 => writing'[s] = read[s] + 1 /\ waiting'[s] = waiting[s]
      /\ writing[s] # 0 => waiting'[s] = waiting[s] \cup {read[s] + 1} /\ writing'[s] = writing[s]
  <2>1. /\ read'[s] = read[s] + 1 /\ read' \in [Streams -> Nat]
        /\ \A t \in Streams \ {s} : read'[t] = read[t]
    BY <1>1, <1>2, <1>3
  <2>2. CASE writing[s] = 0
    <3>1. /\ writing'[s] = read[s] + 1 /\ writing' \in [Streams -> Nat]
          /\ \A t \in Streams \ {s} : writing'[t] = writing[t]
      BY <1>1, <1>2, <1>3, <2>2
    <3>2. QED
      BY <1>1, <1>2, <2>1, <2>2, <3>1 DEF Others
  <2>3. CASE writing[s] # 0
    <3>1. /\ waiting'[s] = waiting[s] \cup {read[s] + 1} /\ waiting' \in [Streams -> SUBSET Nat]
          /\ \A t \in Streams \ {s} : waiting'[t] = waiting[t]
      BY <1>1, <1>2, <1>3, <2>3
    <3>2. QED
      BY <1>1, <1>2, <2>1, <2>3, <3>1 DEF Others
  <2>4. QED
    BY <2>2, <2>3
<1>5. /\ Fine(read'[s], writing'[s], waiting'[s], errors'[s])
      /\ Past(read'[s], writing'[s], waiting'[s], errors'[s])
           = Past(read[s], writing[s], waiting[s], errors[s])
  <2>1. /\ read[s] \in Nat /\ writing[s] \in Nat
        /\ waiting[s] \in SUBSET Nat /\ errors[s] \in SUBSET Nat /\ errors'[s] = errors[s]
    BY <1>1, <1>2
  <2>2. Fine(read[s], writing[s], waiting[s], errors[s])
    BY <1>1
  <2>3. CASE writing[s] = 0
    <3>1. /\ Fine(read[s] + 1, read[s] + 1, waiting[s], errors[s])
          /\ Past(read[s] + 1, read[s] + 1, waiting[s], errors[s])
               = Past(read[s], writing[s], waiting[s], errors[s])
      BY <2>1, <2>2, <2>3, FinePipe, ZenonT(30)
    <3>2. QED
      BY <1>4, <2>1, <2>3, <3>1
  <2>4. CASE writing[s] # 0
    <3>1. /\ Fine(read[s] + 1, writing[s], waiting[s] \cup {read[s] + 1}, errors[s])
          /\ Past(read[s] + 1, writing[s], waiting[s] \cup {read[s] + 1}, errors[s])
               = Past(read[s], writing[s], waiting[s], errors[s])
      BY <2>1, <2>2, <2>4, FinePipe, ZenonT(30)
    <3>2. QED
      BY <1>4, <2>1, <2>4, <3>1
  <2>5. QED
    BY <2>3, <2>4
<1>6. Len(log') \in Nat /\ Len(log') >= Len(log)
  BY <1>2
<1>7. StreamsOK'
  BY <1>1, <1>2, <1>3, <1>4, <1>5, <1>6, StreamsStep
<1>8. QED
  BY <1>2, <1>4, <1>5, <1>7

-----------------------------------------------------------------------------
(* The registry keeps the id of every schema it knows.                     *)
IdsGrow ==
  /\ ids' \in Seq(Schemas \ Malformed)
  /\ Len(ids') >= Len(ids)
  /\ \A n \in DOMAIN ids : ids'[n] = ids[n]

LEMMA IdsStay == ASSUME RegistryOK, ids' = ids PROVE IdsGrow
BY DEF RegistryOK, IdsGrow

LEMMA IdOfKnown ==
  ASSUME RegistryOK, NEW s
  PROVE  /\ Contains(ids, s) => IdOf(s) \in DOMAIN ids /\ ids[IdOf(s)] = s
         /\ ~Contains(ids, s) => IdOf(s) = Len(ids) + 1
BY DEF RegistryOK, Contains, IdOf

LEMMA RegisterOK ==
  ASSUME RegistryOK, NEW u \in Subjects, NEW s \in Schemas \ Malformed, Register(u, s)
  PROVE  /\ IdsGrow
         /\ subjects' \in [Subjects -> SUBSET DOMAIN ids'] /\ deletes' \in 0..MaxDeletes
         /\ IdOf(s) \in DOMAIN ids' /\ ids'[IdOf(s)] = s
<1>1. /\ ids \in Seq(Schemas \ Malformed) /\ subjects \in [Subjects -> SUBSET DOMAIN ids]
      /\ deletes \in 0..MaxDeletes
  BY DEF RegistryOK
<1>2. IdsGrow /\ IdOf(s) \in DOMAIN ids' /\ ids'[IdOf(s)] = s
  <2>1. CASE Contains(ids, s)
    BY <1>1, <2>1, IdOfKnown, IdsStay DEF Register
  <2>2. CASE ~Contains(ids, s)
    BY <1>1, <2>2, IdOfKnown DEF Register, IdsGrow
  <2>3. QED
    BY <2>1, <2>2
<1>3. DOMAIN ids \subseteq DOMAIN ids'
  BY <1>1, <1>2 DEF IdsGrow
<1>4. subjects' \in [Subjects -> SUBSET DOMAIN ids']
  BY <1>1, <1>2, <1>3 DEF Register
<1>5. QED
  BY <1>1, <1>2, <1>4 DEF Register

(* The log and the cache are not touched by the growth of the registry.    *)
LEMMA RegistryGrows ==
  ASSUME RegistryOK, IdsGrow,
         subjects' \in [Subjects -> SUBSET DOMAIN ids'], deletes' \in 0..MaxDeletes,
         log' = log, cache' = cache
  PROVE  RegistryOK'
<1> DEFINE M == [schemaId : 0..Len(ids), buffer : Content]
           N == [schemaId : 0..Len(ids'), buffer : Content]
<1>1. /\ ids \in Seq(Schemas \ Malformed) /\ DOMAIN cache \subseteq DOMAIN ids
      /\ log \in Seq(M) /\ \A n \in DOMAIN cache : cache[n] = ids[n]
      /\ \A i \in DOMAIN log : MessageOK(log[i])
  BY DEF RegistryOK
<1>2. DOMAIN ids \subseteq DOMAIN ids' /\ 0..Len(ids) \subseteq 0..Len(ids')
  BY <1>1 DEF IdsGrow
<1>3. M \subseteq N
  BY <1>2
<1>4. log \in Seq(N)
  <2> HIDE DEF M, N
  <2>1. QED
    BY <1>1, <1>3, SeqMono
<1>5. ASSUME NEW i \in DOMAIN log PROVE MessageOK(log[i])'
  <2>1. MessageOK(log[i])
    BY <1>1
  <2>2. QED
    BY <1>2, <2>1 DEF MessageOK, IdsGrow, Writable
<1>6. \A n \in DOMAIN cache : cache[n] = ids'[n]
  BY <1>1 DEF IdsGrow
<1>7. QED
  BY <1>1, <1>2, <1>4, <1>5, <1>6 DEF RegistryOK, IdsGrow

LEMMA RegistryStays ==
  ASSUME RegistryOK, UNCHANGED registry
  PROVE  /\ IdsGrow /\ subjects' \in [Subjects -> SUBSET DOMAIN ids']
         /\ deletes' \in 0..MaxDeletes /\ ids' = ids
BY IdsStay DEF RegistryOK, registry

LEMMA LogTyped ==
  ASSUME RegistryOK
  PROVE  /\ Len(log) \in Nat /\ DOMAIN log = 1..Len(log)
         /\ Len(ids) \in Nat /\ DOMAIN ids = 1..Len(ids) /\ DOMAIN ids \subseteq 0..Len(ids)
         /\ \A i \in 1..Len(log) : log[i] \in [schemaId : 0..Len(ids), buffer : Content]
<1> DEFINE M == [schemaId : 0..Len(ids), buffer : Content]
<1>1. log \in Seq(M) /\ ids \in Seq(Schemas \ Malformed)
  BY DEF RegistryOK
<1>2. Len(ids) \in Nat /\ DOMAIN ids = 1..Len(ids) /\ DOMAIN ids \subseteq 0..Len(ids)
  BY <1>1
<1> HIDE DEF M
<1>3. /\ Len(log) \in Nat /\ DOMAIN log = 1..Len(log)
      /\ \A i \in 1..Len(log) : log[i] \in M
  BY <1>1
<1>4. QED
  BY <1>2, <1>3 DEF M

-----------------------------------------------------------------------------
(* A step of serializer p, with the registry it leaves: it is at to, with  *)
(* the id n.                                                               *)
LEMMA SerializersStep ==
  ASSUME RegistryOK, SerializersOK, IdsGrow, NEW p \in Producers,
         NEW to \in {"start", "checking", "adding", "serializing"}, NEW n \in 0..Len(ids'),
         step' = [step EXCEPT ![p] = to], id' = [id EXCEPT ![p] = n],
         \A q \in Producers \ {p} : writing'[q] = writing[q],
         to # "start" => /\ writing'[p] = writing[p] /\ writing[p] # 0
                         /\ Request(p).schema \notin Malformed,
         to = "serializing" => n \in DOMAIN ids' /\ ids'[n] = Request(p).schema
  PROVE  SerializersOK'
<1>1. /\ step \in [Producers -> {"start", "checking", "adding", "serializing"}]
      /\ id \in [Producers -> Nat] /\ n \in Nat
      /\ DOMAIN ids \subseteq DOMAIN ids' /\ 0..Len(ids) \subseteq 0..Len(ids')
  BY DEF SerializersOK, RegistryOK, IdsGrow
<1>2. ASSUME NEW q \in Producers PROVE SerializerOK(q)'
  <2>1. CASE q = p
    <3>1. id'[q] = n /\ step'[q] = to
      BY <1>1, <2>1
    <3>2. QED
      BY <2>1, <3>1 DEF SerializerOK, Request
  <2>2. CASE q # p
    <3>1. /\ id'[q] = id[q] /\ step'[q] = step[q] /\ writing'[q] = writing[q]
          /\ SerializerOK(q)
      BY <1>1, <2>2 DEF SerializersOK
    <3>2. QED
      BY <1>1, <3>1 DEF SerializerOK, Request, IdsGrow
  <2>3. QED
    BY <2>1, <2>2
<1>3. step' \in [Producers -> {"start", "checking", "adding", "serializing"}]
      /\ id' \in [Producers -> Nat]
  BY <1>1
<1>4. QED
  BY <1>2, <1>3 DEF SerializersOK

(* What serializers do when others move. *)
LEMMA SerializersStay ==
  ASSUME SerializersOK, UNCHANGED <<ids, step, id>>,
         \A p \in Producers : writing[p] # 0 => writing'[p] = writing[p]
  PROVE  SerializersOK'
<1>1. ASSUME NEW p \in Producers PROVE SerializerOK(p)'
  <2>1. SerializerOK(p)
    BY DEF SerializersOK
  <2>2. CASE writing[p] # 0
    BY <2>1, <2>2 DEF SerializerOK, Request
  <2>3. CASE writing[p] = 0
    BY <2>1, <2>3 DEF SerializerOK
  <2>4. QED
    BY <2>2, <2>3
<1>2. QED
  BY <1>1 DEF SerializersOK

LEMMA DeserializersStay ==
  ASSUME DeserializersOK, UNCHANGED <<fetching, received>>,
         \A c \in Consumers :
           /\ Past(read'[c], writing'[c], waiting'[c], errors'[c])
                = Past(read[c], writing[c], waiting[c], errors[c])
           /\ writing[c] # 0 => writing'[c] = writing[c]
  PROVE  DeserializersOK'
<1>1. ASSUME NEW c \in Consumers
      PROVE  /\ Got(c)' = Past(read'[c], writing'[c], waiting'[c], errors'[c])
             /\ c \in fetching' => writing'[c] # 0
  <2>1. Got(c)' = Got(c)
    BY DEF Got
  <2>2. /\ Got(c) = Past(read[c], writing[c], waiting[c], errors[c])
        /\ c \in fetching => writing[c] # 0
    BY DEF DeserializersOK
  <2>3. QED
    BY <2>1, <2>2, Zenon
<1>2. QED
  BY <1>1 DEF DeserializersOK

LEMMA OtherKind ==
  /\ Producers \subseteq Streams /\ Consumers \subseteq Streams
  /\ \A p \in Producers, c \in Consumers : p # c
BY StreamsAssumption DEF Streams

(* A serializer moves: consumers do not notice. *)
LEMMA ConsumersApart ==
  ASSUME DeserializersOK, UNCHANGED <<fetching, received>>, NEW p \in Producers, Others(p)
  PROVE  DeserializersOK'
<1>1. \A c \in Consumers : c \in Streams \ {p}
  BY OtherKind
<1>2. \A c \in Consumers :
        /\ read'[c] = read[c] /\ writing'[c] = writing[c]
        /\ waiting'[c] = waiting[c] /\ errors'[c] = errors[c]
  BY <1>1 DEF Others
<1>3. QED
  BY <1>2, DeserializersStay

-----------------------------------------------------------------------------
LEMMA InitIInv == Init => IInv
<1> SUFFICES ASSUME Init PROVE IInv
  OBVIOUS
<1> DEFINE M == [schemaId : 0..Len(ids), buffer : Content]
           f == [schemaId |-> 0, buffer |-> Foreign]
<1>1. ids \in Seq(Schemas \ Malformed) /\ (log = <<>> \/ log = <<f>>)
  BY StartsAssumption DEF Init
<1>2. Foreign \in Content /\ 0 \in 0..Len(ids) /\ 0 \in 0..MaxDeletes
  BY <1>1, BoundsAssumption DEF Content
<1>3. log \in Seq(M) /\ \A i \in DOMAIN log : MessageOK(log[i])
  <2>1. f \in M /\ MessageOK(f)
    BY <1>2 DEF MessageOK
  <2>2. CASE log = <<>>
    <3> HIDE DEF M
    <3>1. QED
      BY <2>2
  <2>3. CASE log = <<f>>
    <3> HIDE DEF M, f
    <3>1. log \in Seq(M) /\ DOMAIN log = {1} /\ log[1] = f
      BY <2>1, <2>3
    <3>2. QED
      BY <2>1, <3>1
  <2>4. QED
    BY <1>1, <2>2, <2>3
<1>4. RegistryOK
  <2>1. subjects \in [Subjects -> SUBSET DOMAIN ids] /\ deletes = 0 /\ cache = <<>>
    BY DEF Init
  <2>2. QED
    BY <1>1, <1>2, <1>3, <2>1 DEF RegistryOK
<1>5. Fine(0, 0, {}, {}) /\ Past(0, 0, {}, {}) = {}
  BY DEF Fine, Past
<1>6. StreamsOK
  <2>1. \A s \in Streams : Available(s) \in Nat
    BY <1>4, LogTyped, RequestsAssumption DEF Available
  <2>2. /\ read = [s \in Streams |-> 0] /\ writing = [s \in Streams |-> 0]
        /\ waiting = [s \in Streams |-> {}] /\ piped = [s \in Streams |-> TRUE]
        /\ errors = [s \in Streams |-> {}]
    BY DEF Init
  <2>3. QED
    BY <1>5, <2>1, <2>2 DEF StreamsOK
<1>7. SerializersOK
  BY <1>2 DEF Init, SerializersOK, SerializerOK
<1>8. DeserializersOK
  <2>1. ASSUME NEW c \in Consumers
        PROVE  Got(c) = {} /\ Past(read[c], writing[c], waiting[c], errors[c]) = {}
    BY <1>5, OtherKind DEF Got, Init
  <2>2. fetching = {} /\ received \in [Consumers -> Seq(Nat \X Content)]
    BY DEF Init
  <2>3. QED
    BY <2>1, <2>2 DEF DeserializersOK
<1>9. QED
  BY <1>4, <1>6, <1>7, <1>8 DEF IInv

LEMMA PipeIInv == ASSUME IInv, NEW s \in Streams, Pipe(s) \/ Repipe(s) PROVE IInv'
<1>1. StreamsOK /\ RegistryOK /\ SerializersOK /\ DeserializersOK /\ Len(log) \in Nat
  BY LogTyped DEF IInv
<1>2. UNCHANGED <<ids, subjects, deletes, step, id, log, cache, fetching, received>>
  BY DEF Pipe, Repipe, registry, serializers, deserializers
<1>3. RegistryOK'
  BY <1>1, <1>2 DEF RegistryOK, MessageOK
<1>4. /\ StreamsOK'
      /\ \A t \in Streams :
           /\ Past(read'[t], writing'[t], waiting'[t], errors'[t])
                = Past(read[t], writing[t], waiting[t], errors[t])
           /\ writing[t] # 0 => writing'[t] = writing[t]
  <2>1. CASE Pipe(s)
    BY <1>1, <2>1, StreamsPipe DEF Others
  <2>2. CASE Repipe(s)
    BY <1>1, <2>2 DEF Repipe, StreamsOK, Available
  <2>3. QED
    BY <2>1, <2>2
<1>5. SerializersOK' /\ DeserializersOK'
  BY <1>1, <1>2, <1>4, SerializersStay, DeserializersStay, OtherKind
<1>6. QED
  BY <1>3, <1>4, <1>5 DEF IInv

LEMMA RequestTyped ==
  ASSUME StreamsOK, NEW p \in Producers, writing[p] # 0
  PROVE  /\ writing[p] \in DOMAIN Requests[p] /\ writing[p] \in Nat
         /\ Request(p).subject \in Subjects /\ Request(p).schema \in Schemas
         /\ Request(p).messages \in Seq(Values)
<1> DEFINE R == [subject : Subjects, schema : Schemas, messages : Seq(Values)]
<1>1. /\ p \in Streams /\ read[p] \in Nat /\ writing[p] \in 1..read[p]
      /\ read[p] <= Len(Requests[p])
  BY OtherKind DEF StreamsOK, Fine, Available
<1>2. Requests[p] \in Seq(R)
  BY RequestsAssumption
<1>3. writing[p] \in DOMAIN Requests[p]
  BY <1>1, <1>2
<1>4. Requests[p][writing[p]] \in R
  BY <1>2, <1>3, SeqElement
<1>5. QED
  BY <1>1, <1>3, <1>4 DEF Request

(* callback(new AvroSerializerError(...)), whatever the registry did.      *)
LEMMA RejectIInv ==
  ASSUME IInv, IdsGrow, NEW p \in Producers, writing[p] # 0, Reject(p),
         subjects' \in [Subjects -> SUBSET DOMAIN ids'], deletes' \in 0..MaxDeletes
  PROVE  IInv'
<1>1. /\ StreamsOK /\ RegistryOK /\ SerializersOK /\ DeserializersOK
      /\ Len(log) \in Nat /\ p \in Streams
  BY LogTyped, OtherKind DEF IInv
<1>2. /\ Error(p) /\ log' = log /\ UNCHANGED <<cache, fetching, received>>
      /\ step' = [step EXCEPT ![p] = "start"] /\ id' = [id EXCEPT ![p] = id[p]]
  BY <1>1 DEF Reject, Settle, deserializers, SerializersOK
<1>3. StreamsOK' /\ Others(p)
  BY <1>1, <1>2, StreamsError
<1>4. RegistryOK'
  BY <1>1, <1>2, RegistryGrows
<1>5. SerializersOK'
  <2>1. id[p] \in 0..Len(ids')
    BY <1>1 DEF SerializersOK, SerializerOK, RegistryOK, IdsGrow
  <2>2. \A q \in Producers \ {p} : writing'[q] = writing[q]
    BY <1>3, OtherKind DEF Others
  <2>3. QED
    BY <1>1, <1>2, <2>1, <2>2, SerializersStep
<1>6. DeserializersOK'
  BY <1>1, <1>2, <1>3, ConsumersApart
<1>7. QED
  BY <1>3, <1>4, <1>5, <1>6 DEF IInv

(* The transform goes on to the request to, with the id n.                 *)
LEMMA ProceedIInv ==
  ASSUME IInv, IdsGrow, NEW p \in Producers, writing[p] # 0, Request(p).schema \notin Malformed,
         NEW to \in {"checking", "adding", "serializing"}, NEW n \in 0..Len(ids'),
         Proceed(p, to, n),
         to = "serializing" => n \in DOMAIN ids' /\ ids'[n] = Request(p).schema,
         subjects' \in [Subjects -> SUBSET DOMAIN ids'], deletes' \in 0..MaxDeletes
  PROVE  IInv'
<1>1. StreamsOK /\ RegistryOK /\ SerializersOK /\ DeserializersOK
  BY DEF IInv
<1>2. /\ step' = [step EXCEPT ![p] = to] /\ id' = [id EXCEPT ![p] = n]
      /\ UNCHANGED <<read, writing, waiting, piped, errors, log, cache, fetching, received>>
  BY DEF Proceed, streams, deserializers
<1>3. StreamsOK'
  BY <1>1, <1>2 DEF StreamsOK, Available
<1>4. RegistryOK'
  BY <1>1, <1>2, RegistryGrows
<1>5. SerializersOK'
  BY <1>1, <1>2, SerializersStep
<1>6. DeserializersOK'
  BY <1>1, <1>2, DeserializersStay
<1>7. QED
  BY <1>3, <1>4, <1>5, <1>6 DEF IInv

(* What a step of _transform() may rely on. *)
LEMMA AtRequest ==
  ASSUME IInv, NEW p \in Producers, writing[p] # 0 \/ step[p] # "start"
  PROVE  /\ writing[p] # 0 /\ Request(p).schema \in Schemas /\ Request(p).subject \in Subjects
         /\ step[p] # "start" => Request(p).schema \notin Malformed
<1>1. writing[p] # 0 /\ (step[p] # "start" => Request(p).schema \notin Malformed)
  BY DEF IInv, SerializersOK, SerializerOK
<1>2. QED
  BY <1>1, RequestTyped DEF IInv

LEMMA AskIInv ==
  ASSUME IInv, NEW p \in Producers, Transform(p) \/ CheckSubjectRegistered(p)
  PROVE  IInv'
<1>1. /\ writing[p] # 0 /\ (step[p] # "start" => Request(p).schema \notin Malformed)
      /\ Request(p).subject \in Subjects /\ RegistryOK
  <2>1. writing[p] # 0 \/ step[p] # "start"
    BY DEF Transform, CheckSubjectRegistered
  <2>2. QED
    BY <2>1, AtRequest DEF IInv
<1>2. /\ IdsGrow /\ subjects' \in [Subjects -> SUBSET DOMAIN ids']
      /\ deletes' \in 0..MaxDeletes /\ ids' = ids /\ 0 \in 0..Len(ids')
  BY <1>1, RegistryStays DEF Transform, CheckSubjectRegistered, IdsGrow
<1>3. CASE Reject(p)
  BY <1>1, <1>2, <1>3, RejectIInv
<1>4. CASE Request(p).schema \notin Malformed /\ (Proceed(p, "checking", 0) \/ Proceed(p, "adding", 0))
  BY <1>1, <1>2, <1>4, ProceedIInv
<1>5. CASE /\ CheckSubjectRegistered(p)
           /\ IdOf(Request(p).schema) \in subjects[Request(p).subject]
  <2> DEFINE n == IdOf(Request(p).schema)
  <2>1. n \in DOMAIN ids
    BY <1>1, <1>5 DEF RegistryOK
  <2>2. ids[n] = Request(p).schema
    <3>1. n # Len(ids) + 1
      BY <1>1, <2>1 DEF RegistryOK
    <3>2. QED
      BY <1>1, <3>1, IdOfKnown
  <2>3. n \in 0..Len(ids')
    BY <1>2, <2>1 DEF IdsGrow
  <2>4. Proceed(p, "serializing", n) /\ Request(p).schema \notin Malformed
    BY <1>1, <1>5 DEF CheckSubjectRegistered
  <2>5. QED
    BY <1>1, <1>2, <2>1, <2>2, <2>3, <2>4, ProceedIInv
<1>6. QED
  BY <1>1, <1>3, <1>4, <1>5 DEF Transform, CheckSubjectRegistered

LEMMA AddSubjectVersionIInv ==
  ASSUME IInv, NEW p \in Producers, AddSubjectVersion(p)
  PROVE  IInv'
<1> DEFINE s == Request(p).schema
<1>1. writing[p] # 0 /\ s \in Schemas \ Malformed /\ Request(p).subject \in Subjects
  BY AtRequest DEF AddSubjectVersion
<1>2. /\ IdsGrow /\ subjects' \in [Subjects -> SUBSET DOMAIN ids']
      /\ deletes' \in 0..MaxDeletes /\ IdOf(s) \in DOMAIN ids' /\ ids'[IdOf(s)] = s
  BY <1>1, RegisterOK DEF AddSubjectVersion, IInv
<1>3. IdOf(s) \in 0..Len(ids')
  BY <1>2 DEF IdsGrow
<1>4. QED
  BY <1>1, <1>2, <1>3, ProceedIInv DEF AddSubjectVersion

LEMMA FetchFailsIInv == ASSUME IInv, NEW p \in Producers, FetchFails(p) PROVE IInv'
<1>1. /\ writing[p] # 0 /\ Request(p).schema \in Schemas \ Malformed
      /\ Request(p).subject \in Subjects /\ Reject(p)
  BY AtRequest DEF FetchFails
<1>2. /\ IdsGrow /\ subjects' \in [Subjects -> SUBSET DOMAIN ids']
      /\ deletes' \in 0..MaxDeletes
  BY <1>1, RegisterOK, RegistryStays DEF FetchFails, IInv
<1>3. QED
  BY <1>1, <1>2, RejectIInv

(* Messages that were serialized: they go on the log with the id of their  *)
(* schema.                                                                 *)
LEMMA BuffersOK ==
  ASSUME IInv, NEW p \in Producers, step[p] = "serializing", Encodable(p)
  PROVE  /\ Buffers(p) \in Seq([schemaId : 0..Len(ids), buffer : Schemas \X Values])
         /\ \A i \in DOMAIN Buffers(p) : MessageOK(Buffers(p)[i])
<1> DEFINE r == Request(p)
           b == Buffers(p)
           M == [schemaId : 0..Len(ids), buffer : Schemas \X Values]
<1>1. /\ writing[p] # 0 /\ id[p] \in DOMAIN ids /\ ids[id[p]] = r.schema
      /\ ids \in Seq(Schemas \ Malformed) /\ id[p] \in 0..Len(ids)
  BY DEF IInv, RegistryOK, SerializersOK, SerializerOK
<1>2. r.schema \in Schemas /\ r.messages \in Seq(Values)
  BY <1>1, RequestTyped DEF IInv
<1>3. DOMAIN b = 1..Len(r.messages) /\ Len(r.messages) \in Nat
  BY <1>2 DEF Buffers
<1>4. ASSUME NEW i \in DOMAIN b PROVE b[i] \in M /\ MessageOK(b[i])
  <2> DEFINE v == r.messages[i]
  <2>1. i \in DOMAIN r.messages
    BY <1>2, <1>3
  <2>2. v \in Values
    <3> HIDE DEF r
    <3>1. QED
      BY <1>2, <2>1, SeqElement
  <2>3. Writable(id[p])
    BY <2>1 DEF Encodable
  <2>4. b[i] = [schemaId |-> id[p], buffer |-> <<r.schema, v>>]
    BY <1>2, <1>3 DEF Buffers, constructMessage, writeUInt32BE
  <2>5. <<r.schema, v>> \in Schemas \X Values /\ <<r.schema, v>> # Foreign
    BY <1>2, <2>2, ForeignAssumption
  <2>6. QED
    BY <1>1, <2>3, <2>4, <2>5 DEF MessageOK
<1>5. b = [i \in 1..Len(r.messages) |-> b[i]]
  BY <1>3 DEF Buffers
<1>6. b \in Seq(M)
  <2> HIDE DEF b, M, r
  <2>1. QED
    BY <1>3, <1>4, <1>5, SeqOfElements
<1>7. QED
  BY <1>4, <1>6

LEMMA SerializeIInv == ASSUME IInv, NEW p \in Producers, Serialize(p) PROVE IInv'
<1> DEFINE M == [schemaId : 0..Len(ids), buffer : Content]
<1>1. /\ StreamsOK /\ RegistryOK /\ SerializersOK /\ DeserializersOK
      /\ writing[p] # 0 /\ step[p] = "serializing" /\ p \in Streams
      /\ IdsGrow /\ subjects' \in [Subjects -> SUBSET DOMAIN ids']
      /\ deletes' \in 0..MaxDeletes /\ ids' = ids
  BY RegistryStays, AtRequest, OtherKind DEF Serialize, IInv
<1>2. CASE Reject(p)
  BY <1>1, <1>2, RejectIInv
<1>3. CASE /\ Encodable(p) /\ log' = log \o Buffers(p) /\ Settle(p) /\ Done(p)
  <2> DEFINE b == Buffers(p)
  <2>1. b \in Seq(M) /\ \A i \in DOMAIN b : MessageOK(b[i])
    <3> DEFINE N == [schemaId : 0..Len(ids), buffer : Schemas \X Values]
    <3>1. N \subseteq M
      BY DEF Content
    <3>2. b \in Seq(N) /\ \A i \in DOMAIN b : MessageOK(b[i])
      BY <1>1, <1>3, BuffersOK
    <3> HIDE DEF M, N, b
    <3>3. QED
      BY <3>1, <3>2, SeqMono
  <2>2. log \in Seq(M) /\ \A i \in DOMAIN log : MessageOK(log[i])
    BY <1>1 DEF RegistryOK
  <2> HIDE DEF M, b
  <2>3. /\ log' \in Seq(M) /\ Len(log') = Len(log) + Len(b)
        /\ \A i \in 1..Len(log) : log'[i] = log[i]
        /\ \A i \in 1..Len(b) : log'[Len(log) + i] = b[i]
        /\ Len(log) \in Nat /\ Len(b) \in Nat
        /\ DOMAIN log = 1..Len(log) /\ DOMAIN b = 1..Len(b)
    <3>1. log' = log \o b
      BY <1>3 DEF b
    <3>2. QED
      BY <2>1, <2>2, <3>1, Longer
  <2>4. ASSUME NEW i \in DOMAIN log' PROVE MessageOK(log'[i])
    <3>1. i \in 1..(Len(log) + Len(b))
      BY <2>3
    <3>2. CASE i <= Len(log)
      BY <2>2, <2>3, <3>1, <3>2
    <3>3. CASE ~(i <= Len(log))
      <4>1. i - Len(log) \in 1..Len(b) /\ i = Len(log) + (i - Len(log))
        BY <2>3, <3>1, <3>3
      <4>2. log'[i] = b[i - Len(log)]
        BY <2>3, <4>1
      <4>3. QED
        BY <2>1, <2>3, <4>1, <4>2
    <3>4. QED
      BY <3>2, <3>3
  <2>5. RegistryOK'
    <3>1. ASSUME NEW i \in DOMAIN log' PROVE MessageOK(log[i])'
      BY <1>1, <2>4 DEF MessageOK
    <3>2. cache' = cache /\ log' \in Seq([schemaId : 0..Len(ids'), buffer : Content])
      BY <1>1, <1>3, <2>3 DEF Settle, deserializers, M
    <3>3. QED
      BY <1>1, <3>1, <3>2 DEF RegistryOK
  <2>6. StreamsOK' /\ Others(p)
    <3>1. Len(log') \in Nat /\ Len(log') >= Len(log)
      BY <2>3
    <3>2. QED
      BY <1>1, <1>3, <2>3, <3>1, StreamsDone
  <2>7. SerializersOK'
    <3>1. /\ step' = [step EXCEPT ![p] = "start"] /\ id' = [id EXCEPT ![p] = id[p]]
          /\ id[p] \in 0..Len(ids')
      BY <1>1, <1>3 DEF Settle, SerializersOK, SerializerOK
    <3>2. \A q \in Producers \ {p} : writing'[q] = writing[q]
      BY <2>6, OtherKind DEF Others
    <3>3. QED
      BY <1>1, <3>1, <3>2, SerializersStep
  <2>8. DeserializersOK'
    BY <1>1, <1>3, <2>6, ConsumersApart DEF Settle, deserializers
  <2>9. QED
    BY <2>5, <2>6, <2>7, <2>8 DEF IInv
<1>4. QED
  BY <1>2, <1>3 DEF Serialize

LEMMA DeleteSubjectIInv == ASSUME IInv, NEW s \in Subjects, DeleteSubject(s) PROVE IInv'
<1>1. /\ UNCHANGED <<ids, read, writing, waiting, piped, errors, step, id, log,
                     cache, fetching, received>>
      /\ StreamsOK /\ RegistryOK /\ SerializersOK /\ DeserializersOK
  BY DEF DeleteSubject, streams, serializers, deserializers, IInv
<1>2. subjects' \in [Subjects -> SUBSET DOMAIN ids] /\ deletes' \in 0..MaxDeletes
  BY BoundsAssumption DEF DeleteSubject, IInv, RegistryOK
<1>3. RegistryOK'
  BY <1>1, <1>2 DEF RegistryOK, MessageOK
<1>4. StreamsOK'
  BY <1>1 DEF StreamsOK, Available
<1>5. SerializersOK' /\ DeserializersOK'
  BY <1>1, SerializersStay, DeserializersStay
<1>6. QED
  BY <1>3, <1>4, <1>5 DEF IInv

-----------------------------------------------------------------------------
(* The message a consumer is at. If the id it reads there is one of the    *)
(* registry, it is the id that was written, and that of its schema.        *)
At(c) == log[writing[c]]

LEMMA ConsumerTyped ==
  ASSUME StreamsOK, RegistryOK, NEW c \in Consumers, writing[c] # 0
  PROVE  writing[c] \in DOMAIN log /\ writing[c] \in Nat /\ c \in Streams
<1>1. /\ c \in Streams /\ read[c] \in Nat /\ writing[c] \in 1..read[c]
      /\ read[c] <= Len(log)
  BY OtherKind DEF StreamsOK, Fine, Available
<1>2. QED
  BY <1>1, LogTyped

LEMMA MessageRead ==
  ASSUME StreamsOK, RegistryOK, NEW c \in Consumers, writing[c] # 0
  PROVE  /\ At(c).buffer \in Content /\ Message(c).buffer = At(c).buffer
         /\ Message(c).schemaId \in DOMAIN ids =>
              Decoded(ids[Message(c).schemaId], Message(c).buffer) = At(c).buffer
<1>1. writing[c] \in DOMAIN log
  BY ConsumerTyped
<1>2. PICK m \in [schemaId : 0..Len(ids), buffer : Content] : m = At(c) /\ MessageOK(m)
  <2>1. At(c) \in [schemaId : 0..Len(ids), buffer : Content]
    BY <1>1, LogTyped DEF At
  <2>2. QED
    BY <1>1, <2>1 DEF RegistryOK, At
<1>3. Message(c) = [schemaId |-> readInt32BE(m.schemaId), buffer |-> m.buffer]
  BY <1>2 DEF Message, At, deconstructMessage
<1>4. m.schemaId \in Nat /\ DOMAIN ids = 1..Len(ids)
  BY <1>2, LogTyped
<1>5. m.schemaId = 0 \/ Writable(m.schemaId)
  BY <1>2 DEF MessageOK
<1>6. \/ readInt32BE(m.schemaId) = m.schemaId
      \/ m.schemaId # 0 /\ readInt32BE(m.schemaId) < 0
  BY <1>4, <1>5, ReadBack DEF writeUInt32BE
<1>7. ASSUME Message(c).schemaId \in DOMAIN ids
      PROVE  Decoded(ids[Message(c).schemaId], Message(c).buffer) = At(c).buffer
  <2>1. Message(c).schemaId = m.schemaId /\ m.schemaId # 0
    BY <1>3, <1>4, <1>6, <1>7
  <2>2. m.buffer # Foreign /\ ids[m.schemaId] = m.buffer[1]
    BY <1>2, <2>1 DEF MessageOK
  <2>3. QED
    BY <1>2, <1>3, <2>1, <2>2 DEF Decoded
<1>8. QED
  BY <1>2, <1>3, <1>7

(* What a consumer does to a message: it waits for its schema, or it has   *)
(* the message as it was sent, or an error.                                *)
LEMMA ConsumeDelivers ==
  ASSUME IInv, NEW c \in Consumers, Consume(c)
  PROVE  /\ UNCHANGED <<registry, serializers, log>> /\ writing[c] # 0
         /\ DOMAIN cache' \subseteq DOMAIN ids
         /\ \A n \in DOMAIN cache' : cache'[n] = ids[n]
         /\ \/ fetching' = fetching \cup {c} /\ UNCHANGED <<streams, received>>
            \/ Deliver(c, At(c).buffer)
            \/ Error(c) /\ UNCHANGED received /\ fetching' = fetching \ {c}
<1>1. /\ DOMAIN cache \subseteq DOMAIN ids /\ \A n \in DOMAIN cache : cache[n] = ids[n]
      /\ c \in fetching => writing[c] # 0
      /\ StreamsOK /\ RegistryOK
  BY DEF IInv, RegistryOK, DeserializersOK
<1> DEFINE n == Message(c).schemaId
<1>2. CASE CallFromId(c)
  <2>1. UNCHANGED <<registry, serializers, log>> /\ cache' = cache /\ writing[c] # 0
    BY <1>2 DEF CallFromId
  <2>2. CASE n \in DOMAIN cache
    <3>1. Deliver(c, Decoded(cache[n], Message(c).buffer))
      BY <1>2, <2>2 DEF CallFromId
    <3>2. Decoded(cache[n], Message(c).buffer) = At(c).buffer
      BY <1>1, <2>1, <2>2, MessageRead
    <3>3. QED
      BY <1>1, <2>1, <3>1, <3>2
  <2>3. CASE n \notin DOMAIN cache
    <3>1. fetching' = fetching \cup {c} /\ UNCHANGED <<streams, received>>
      BY <1>2, <2>3 DEF CallFromId
    <3>2. QED
      BY <1>1, <2>1, <3>1
  <2>4. QED
    BY <2>2, <2>3
<1>3. CASE IdToSchema(c)
  <2>1. /\ UNCHANGED <<registry, serializers, log>> /\ writing[c] # 0
        /\ n \in DOMAIN ids
        /\ cache' = [k \in DOMAIN cache \cup {n} |-> IF k = n THEN ids[n] ELSE cache[k]]
        /\ Deliver(c, Decoded(cache'[n], Message(c).buffer))
    BY <1>1, <1>3 DEF IdToSchema
  <2>2. DOMAIN cache' \subseteq DOMAIN ids /\ \A k \in DOMAIN cache' : cache'[k] = ids[k]
    BY <1>1, <2>1
  <2>3. cache'[n] = ids[n]
    BY <2>1
  <2>4. Decoded(ids[n], Message(c).buffer) = At(c).buffer
    BY <1>1, <2>1, MessageRead
  <2>5. QED
    BY <2>1, <2>2, <2>3, <2>4
<1>4. CASE DeserializeFails(c)
  BY <1>1, <1>4 DEF DeserializeFails
<1>5. QED
  BY <1>2, <1>3, <1>4 DEF Consume

(* Something came out of consumer c, which is done with one more message.  *)
LEMMA DeserializersDeliver ==
  ASSUME StreamsOK, RegistryOK, DeserializersOK, NEW c \in Consumers, writing[c] # 0,
         NEW m \in Content, Deliver(c, m), log' = log
  PROVE  StreamsOK' /\ DeserializersOK' /\ Others(c)
<1>1. c \in Streams /\ writing[c] \in Nat /\ Len(log) \in Nat
  BY ConsumerTyped, LogTyped
<1>2. /\ Done(c) /\ fetching' = fetching \ {c}
      /\ received' = [received EXCEPT ![c] = Append(received[c], <<writing[c], m>>)]
  BY DEF Deliver
<1>3. /\ StreamsOK' /\ Others(c) /\ read' = read /\ errors' = errors
      /\ Past(read[c], writing'[c], waiting'[c], errors[c])
           = Past(read[c], writing[c], waiting[c], errors[c]) \cup {writing[c]}
  <2>1. Len(log') \in Nat /\ Len(log') >= Len(log)
    BY <1>1
  <2>2. QED
    BY <1>1, <1>2, <2>1, StreamsDone
<1>4. received \in [Consumers -> Seq(Nat \X Content)] /\ fetching \subseteq Consumers
  BY DEF DeserializersOK
<1>5. /\ received' \in [Consumers -> Seq(Nat \X Content)]
      /\ Got(c)' = Got(c) \cup {writing[c]}
  <2> DEFINE S == received[c]
             x == <<writing[c], m>>
  <2>1. S \in Seq(Nat \X Content) /\ x \in Nat \X Content /\ x[1] = writing[c]
    BY <1>1, <1>4
  <2>2. /\ received'[c] = Append(S, x)
        /\ \A d \in Consumers \ {c} : received'[d] = received[d]
    BY <1>2, <1>4
  <2> HIDE DEF S, x
  <2>3. /\ Append(S, x) \in Seq(Nat \X Content)
        /\ DOMAIN Append(S, x) = DOMAIN S \cup {Len(S) + 1} /\ Len(S) \in Nat
        /\ Append(S, x)[Len(S) + 1] = x /\ \A i \in DOMAIN S : Append(S, x)[i] = S[i]
    BY <2>1
  <2>4. received' \in [Consumers -> Seq(Nat \X Content)]
    BY <1>2, <1>4, <2>2, <2>3 DEF S, x
  <2>5. {Append(S, x)[i][1] : i \in DOMAIN Append(S, x)} = {S[i][1] : i \in DOMAIN S} \cup {x[1]}
    BY <2>3
  <2>6. QED
    <3>1. Got(c) = {S[i][1] : i \in DOMAIN S}
      BY DEF Got, S
    <3>2. Got(c)' = {Append(S, x)[i][1] : i \in DOMAIN Append(S, x)}
      BY <2>2 DEF Got
    <3>3. QED
      BY <2>1, <2>4, <2>5, <3>1, <3>2
<1>6. ASSUME NEW d \in Consumers
      PROVE  /\ Got(d)' = Past(read'[d], writing'[d], waiting'[d], errors'[d])
             /\ d \in fetching' => writing'[d] # 0
  <2>1. /\ Got(d) = Past(read[d], writing[d], waiting[d], errors[d])
        /\ d \in fetching => writing[d] # 0
    BY DEF DeserializersOK
  <2>2. CASE d = c
    BY <1>2, <1>3, <1>5, <2>1, <2>2
  <2>3. CASE d # c
    <3>1. /\ read'[d] = read[d] /\ writing'[d] = writing[d]
          /\ waiting'[d] = waiting[d] /\ errors'[d] = errors[d]
      BY <1>3, <2>3, OtherKind DEF Others
    <3>2. Got(d)' = Got(d)
      BY <1>2, <1>4, <2>3 DEF Got
    <3>3. QED
      BY <1>2, <2>1, <3>1, <3>2
  <2>4. QED
    BY <2>2, <2>3
<1>7. QED
  BY <1>2, <1>3, <1>4, <1>5, <1>6 DEF DeserializersOK

(* It called back with an error, and nothing came out. *)
LEMMA DeserializersError ==
  ASSUME StreamsOK, RegistryOK, DeserializersOK, NEW c \in Consumers, writing[c] # 0,
         Error(c), UNCHANGED <<log, received>>, fetching' = fetching \ {c}
  PROVE  StreamsOK' /\ DeserializersOK' /\ Others(c)
<1>1. c \in Streams /\ Len(log) \in Nat
  BY ConsumerTyped, LogTyped
<1>2. /\ StreamsOK' /\ Others(c)
      /\ Past(read'[c], writing'[c], waiting'[c], errors'[c])
           = Past(read[c], writing[c], waiting[c], errors[c])
  BY <1>1, StreamsError
<1>3. ASSUME NEW d \in Consumers
      PROVE  /\ Got(d)' = Past(read'[d], writing'[d], waiting'[d], errors'[d])
             /\ d \in fetching' => writing'[d] # 0
  <2>1. /\ Got(d) = Past(read[d], writing[d], waiting[d], errors[d])
        /\ d \in fetching => writing[d] # 0 /\ Got(d)' = Got(d)
    BY DEF DeserializersOK, Got
  <2>2. CASE d = c
    BY <1>2, <2>1, <2>2 DEF Got
  <2>3. CASE d # c
    <3>1. /\ read'[d] = read[d] /\ writing'[d] = writing[d]
          /\ waiting'[d] = waiting[d] /\ errors'[d] = errors[d]
      BY <1>2, <2>3, OtherKind DEF Others
    <3>2. QED
      BY <2>1, <3>1 DEF Got
  <2>4. QED
    BY <2>2, <2>3
<1>4. QED
  BY <1>2, <1>3 DEF DeserializersOK

LEMMA ConsumeIInv == ASSUME IInv, NEW c \in Consumers, Consume(c) PROVE IInv'
<1>1. /\ UNCHANGED <<registry, serializers, log>> /\ writing[c] # 0
      /\ DOMAIN cache' \subseteq DOMAIN ids
      /\ \A n \in DOMAIN cache' : cache'[n] = ids[n]
      /\ \/ fetching' = fetching \cup {c} /\ UNCHANGED <<streams, received>>
         \/ Deliver(c, At(c).buffer)
         \/ Error(c) /\ UNCHANGED received /\ fetching' = fetching \ {c}
  BY ConsumeDelivers
<1>2. UNCHANGED <<ids, subjects, deletes, step, id, log>>
  BY <1>1 DEF registry, serializers
<1>3. StreamsOK /\ RegistryOK /\ SerializersOK /\ DeserializersOK
  BY DEF IInv
<1>4. StreamsOK' /\ DeserializersOK' /\ Others(c)
  <2>1. CASE fetching' = fetching \cup {c} /\ UNCHANGED <<streams, received>>
    <3>1. UNCHANGED <<read, writing, waiting, piped, errors>>
      BY <2>1 DEF streams
    <3>2. QED
      BY <1>1, <1>2, <1>3, <2>1, <3>1 DEF StreamsOK, Available, DeserializersOK, Got, Others
  <2>2. CASE Deliver(c, At(c).buffer)
    <3>1. At(c).buffer \in Content
      BY <1>1, <1>3, MessageRead
    <3>2. QED
      BY <1>1, <1>2, <1>3, <2>2, <3>1, DeserializersDeliver
  <2>3. CASE Error(c) /\ UNCHANGED received /\ fetching' = fetching \ {c}
    BY <1>1, <1>2, <1>3, <2>3, DeserializersError
  <2>4. QED
    BY <1>1, <2>1, <2>2, <2>3
<1>5. SerializersOK'
  <2>1. \A p \in Producers : writing'[p] = writing[p]
    BY <1>4, OtherKind DEF Others
  <2>2. QED
    BY <1>2, <1>3, <2>1, SerializersStay
<1>6. RegistryOK'
  BY <1>1, <1>2, <1>3 DEF RegistryOK, MessageOK
<1>7. QED
  BY <1>4, <1>5, <1>6 DEF IInv

-----------------------------------------------------------------------------
LEMMA NextIInv == IInv /\ [Next]_vars => IInv'
<1> SUFFICES ASSUME IInv, [Next]_vars PROVE IInv'
  OBVIOUS
<1>1. CASE UNCHANGED vars
  <2>1. UNCHANGED <<ids, subjects, deletes, read, writing, waiting, piped, errors, step, id,
                    log, cache, fetching, received>>
    BY <1>1 DEF vars, registry, streams, serializers, deserializers
  <2>2. StreamsOK' /\ RegistryOK'
    BY <2>1 DEF IInv, StreamsOK, Available, RegistryOK, MessageOK
  <2>3. SerializersOK' /\ DeserializersOK'
    BY <2>1, SerializersStay, DeserializersStay DEF IInv
  <2>4. QED
    BY <2>2, <2>3 DEF IInv
<1>2. ASSUME NEW s \in Streams, Pipe(s) \/ Repipe(s) PROVE IInv'
  BY <1>2, PipeIInv
<1>3. ASSUME NEW p \in Producers, Produce(p) PROVE IInv'
  BY <1>3, AskIInv, AddSubjectVersionIInv, FetchFailsIInv, SerializeIInv DEF Produce
<1>4. ASSUME NEW s \in Subjects, DeleteSubject(s) PROVE IInv'
  BY <1>4, DeleteSubjectIInv
<1>5. ASSUME NEW c \in Consumers, Consume(c) PROVE IInv'
  BY <1>5, ConsumeIInv
<1>6. QED
  BY <1>1, <1>2, <1>3, <1>4, <1>5 DEF Next

(* The invariant the properties below come from holds in every state.      *)
THEOREM Inductive == Spec => []IInv
<1>1. QED
  BY InitIInv, NextIInv, PTL DEF Spec

(* constructMessage(): a message carries the id of the very schema it was  *)
(* encoded with, whoever registers schemas at the same time and whatever   *)
(* subjects are deleted: a delete takes no id back.                        *)
THEOREM RegisteredIds == Spec => []EncodedAsRegistered
<1>1. IInv => EncodedAsRegistered
  <2> SUFFICES ASSUME IInv PROVE EncodedAsRegistered
    OBVIOUS
  <2>1. TypeOK
    BY DEF IInv, StreamsOK, RegistryOK, SerializersOK, SerializerOK, DeserializersOK, TypeOK
  <2>2. QED
    BY <2>1 DEF IInv, RegistryOK, MessageOK, EncodedAsRegistered
<1>2. QED
  BY <1>1, Inductive, PTL

-----------------------------------------------------------------------------
(* The channel that users of the package see: sent is the log without ids, *)
(* failed what an error was called back for.                               *)
Sending == [i \in DOMAIN log |-> log[i].buffer]
Failing == [c \in Consumers |-> errors[c]]

LEMMA InitChannel == Init => Channel!Init
<1> SUFFICES ASSUME Init PROVE Channel!Init
  OBVIOUS
<1> DEFINE M == [schemaId : 0..Len(ids), buffer : Content]
<1>1. /\ log \in Seq(M) /\ received = [c \in Consumers |-> <<>>]
      /\ Failing = [c \in Consumers |-> {}]
  BY InitIInv, OtherKind DEF IInv, RegistryOK, Init, Failing
<1>2. Sending \in Seq(Content)
  <2>1. log \in Seq(M) /\ \A m \in M : m.buffer \in Content
    BY <1>1
  <2> HIDE DEF M
  <2>2. /\ \A i \in 1..Len(log) : log[i] \in M
        /\ Len(log) \in Nat /\ DOMAIN log = 1..Len(log)
    BY <2>1, SeqElement
  <2>3. /\ Sending = [i \in 1..Len(log) |-> Sending[i]]
        /\ \A i \in 1..Len(log) : Sending[i] \in Content
    BY <2>1, <2>2 DEF Sending
  <2>4. QED
    BY <2>2, <2>3, SeqOfElements
<1>3. QED
  BY <1>1, <1>2 DEF Channel!Init, Sending, Failing

(* A step that leaves the log, and what consumers got, is none of the      *)
(* channel's.                                                              *)
LEMMA ChannelStays ==
  ASSUME UNCHANGED <<log, received>>, \A c \in Consumers : errors'[c] = errors[c]
  PROVE  UNCHANGED <<Sending, received, Failing>>
BY DEF Sending, Failing

LEMMA ProducerApart ==
  ASSUME StreamsOK, RegistryOK, NEW p \in Producers, Produce(p), writing[p] # 0
  PROVE  received' = received /\ \A c \in Consumers : errors'[c] = errors[c]
<1>1. received' = received /\ (UNCHANGED errors \/ errors' = [errors EXCEPT ![p] = errors'[p]])
  BY DEF Produce, Transform, CheckSubjectRegistered, AddSubjectVersion, FetchFails, Serialize,
         Proceed, Reject, Settle, Error, Done, streams, deserializers, StreamsOK
<1>2. ASSUME NEW c \in Consumers PROVE errors'[c] = errors[c]
  BY <1>1, OtherKind DEF StreamsOK
<1>3. QED
  BY <1>1, <1>2

(* Serialize: what was sent stays, and new messages follow it.             *)
LEMMA SerializeSends ==
  ASSUME IInv, NEW p \in Producers, Serialize(p)
  PROVE  Channel!Send \/ UNCHANGED <<Sending, received, Failing>>
<1>1. /\ received' = received /\ \A c \in Consumers : errors'[c] = errors[c]
      /\ StreamsOK /\ RegistryOK
  <2>1. writing[p] # 0 /\ StreamsOK /\ RegistryOK
    BY AtRequest DEF Serialize, IInv
  <2>2. QED
    BY <2>1, ProducerApart DEF Produce
<1>2. CASE Reject(p)
  BY <1>1, <1>2, ChannelStays DEF Reject
<1>3. CASE Encodable(p) /\ log' = log \o Buffers(p)
  <2> DEFINE b == Buffers(p)
             M == [schemaId : 0..Len(ids), buffer : Content]
  <2>1. log \in Seq(M) /\ b = [i \in 1..Len(b) |-> b[i]] /\ Len(b) \in Nat
    <3>1. b \in Seq([schemaId : 0..Len(ids), buffer : Schemas \X Values])
      BY <1>3, BuffersOK DEF Serialize
    <3>2. QED
      BY <1>1, <3>1 DEF RegistryOK
  <2> HIDE DEF b, M
  <2>2. /\ log' = log \o b /\ Len(log) \in Nat /\ DOMAIN log = 1..Len(log)
        /\ DOMAIN log' = 1..(Len(log) + Len(b))
        /\ \A i \in 1..Len(log) : log'[i] = log[i]
    BY <1>3, <2>1 DEF b
  <2>3. CASE Len(b) = 0
    <3>1. Sending' = Sending
      BY <2>1, <2>2, <2>3 DEF Sending
    <3>2. QED
      BY <1>1, <3>1 DEF Failing
  <2>4. CASE Len(b) # 0
    <3>1. Len(Sending') = Len(log) + Len(b) /\ Len(b) \in 1..Len(Sending')
      BY <2>1, <2>2, <2>4 DEF Sending
    <3>2. Sending = SubSeq(Sending', 1, Len(Sending') - Len(b))
      BY <2>1, <2>2, <3>1 DEF Sending
    <3>3. Failing' = Failing
      BY <1>1 DEF Failing
    <3>4. QED
      BY <1>1, <3>1, <3>2, <3>3 DEF Channel!Send, Sending, Failing
  <2>5. QED
    BY <2>3, <2>4
<1>4. QED
  BY <1>2, <1>3 DEF Serialize

(* What is transformed is pending, and only what an error was reported     *)
(* ahead of waits for longer.                                              *)
LEMMA ConsumerTakes ==
  ASSUME StreamsOK, RegistryOK, DeserializersOK, NEW c \in Consumers, writing[c] # 0
  PROVE  /\ writing[c] \in Channel!Pending(c) /\ Channel!MayTake(c, writing[c])
         /\ Sending[writing[c]] = At(c).buffer
<1>1. /\ writing[c] \in DOMAIN log /\ writing[c] \in Nat /\ c \in Streams
      /\ DOMAIN log = 1..Len(log) /\ Len(log) \in Nat
  BY ConsumerTyped, LogTyped
<1>2. PICK r \in Nat, w \in Nat, q \in SUBSET Nat, e \in SUBSET Nat :
        r = read[c] /\ w = writing[c] /\ q = waiting[c] /\ e = errors[c]
  BY <1>1 DEF StreamsOK
<1>3. Fine(r, w, q, e) /\ Got(c) = Past(r, w, q, e)
  BY <1>1, <1>2 DEF StreamsOK, DeserializersOK
<1>4. /\ Len(Sending) = Len(log) /\ Sending[w] = At(c).buffer /\ Failing[c] = e
  BY <1>1, <1>2 DEF Sending, At, Failing
<1>5. Channel!Pending(c) = {n \in 1..Len(log) : n \notin e /\ n \notin Got(c)}
  BY <1>4 DEF Channel!Pending, Sending, Failing, Got
<1>6. w \in Channel!Pending(c)
  BY <1>1, <1>2, <1>3, <1>5 DEF Fine, Past
<1>7. ASSUME NEW m \in Channel!Pending(c), m < w PROVE \E x \in e : x < m
  <2>1. m \in q /\ ~(w < m)
    BY <1>1, <1>2, <1>3, <1>5, <1>7 DEF Fine, Past
  <2>2. QED
    BY <1>3, <2>1 DEF Fine
<1>8. Channel!MayTake(c, w)
  BY <1>4, <1>7 DEF Channel!MayTake, Failing
<1>9. QED
  BY <1>2, <1>4, <1>6, <1>8

LEMMA ConsumeReceives ==
  ASSUME IInv, NEW c \in Consumers, Consume(c)
  PROVE  Channel!Receive(c) \/ Channel!Fail(c) \/ UNCHANGED <<Sending, received, Failing>>
<1>1. /\ UNCHANGED log /\ writing[c] # 0
      /\ \/ UNCHANGED <<streams, received>>
         \/ Deliver(c, At(c).buffer)
         \/ Error(c) /\ UNCHANGED received
      /\ StreamsOK /\ RegistryOK /\ DeserializersOK
  BY ConsumeDelivers DEF IInv
<1>2. /\ writing[c] \in Channel!Pending(c) /\ Channel!MayTake(c, writing[c])
      /\ Sending[writing[c]] = At(c).buffer /\ Sending' = Sending
  BY <1>1, ConsumerTakes DEF Sending
<1>3. CASE UNCHANGED <<streams, received>>
  BY <1>1, <1>3, ChannelStays DEF streams
<1>4. CASE Deliver(c, At(c).buffer)
  <2>1. /\ received' = [received EXCEPT ![c] = Append(@, <<writing[c], Sending[writing[c]]>>)]
        /\ Failing' = Failing
    BY <1>2, <1>4 DEF Deliver, Done, Failing
  <2>2. Channel!Receive(c)
    BY <1>2, <2>1 DEF Channel!Receive, Sending, Failing
  <2>3. QED
    BY <2>2
<1>5. CASE Error(c) /\ UNCHANGED received
  <2>1. Failing' = [Failing EXCEPT ![c] = @ \cup {writing[c]}]
    BY <1>1, <1>5, OtherKind DEF Error, Failing, StreamsOK
  <2>2. Channel!Fail(c)
    BY <1>2, <1>5, <2>1 DEF Channel!Fail, Sending, Failing
  <2>3. QED
    BY <2>2
<1>6. QED
  BY <1>1, <1>3, <1>4, <1>5

LEMMA StepChannel == IInv /\ [Next]_vars => [Channel!Next]_Channel!vars
<1> SUFFICES ASSUME IInv, [Next]_vars
             PROVE  Channel!Next \/ UNCHANGED <<Sending, received, Failing>>
  BY DEF Channel!vars, Sending, Failing
<1>1. CASE UNCHANGED vars
  BY <1>1, ChannelStays DEF vars, streams, deserializers
<1>2. ASSUME NEW s \in Streams, Pipe(s) \/ Repipe(s)
      PROVE  UNCHANGED <<Sending, received, Failing>>
  BY <1>2, ChannelStays DEF Pipe, Repipe, deserializers
<1>3. ASSUME NEW p \in Producers, Produce(p)
      PROVE  Channel!Next \/ UNCHANGED <<Sending, received, Failing>>
  <2>1. CASE Serialize(p)
    BY <2>1, SerializeSends DEF Channel!Next
  <2>2. CASE ~Serialize(p)
    <3>1. log' = log /\ writing[p] # 0
      <4>1. writing[p] # 0 \/ step[p] # "start"
        BY <1>3, <2>2 DEF Produce, Transform, CheckSubjectRegistered, AddSubjectVersion, FetchFails
      <4>2. QED
        BY <1>3, <2>2, <4>1, AtRequest DEF Produce, Transform, CheckSubjectRegistered,
           AddSubjectVersion, FetchFails, Proceed, Reject
    <3>2. QED
      BY <1>3, <3>1, ProducerApart, ChannelStays DEF IInv
  <2>3. QED
    BY <2>1, <2>2
<1>4. ASSUME NEW s \in Subjects, DeleteSubject(s)
      PROVE  UNCHANGED <<Sending, received, Failing>>
  BY <1>4, ChannelStays DEF DeleteSubject, streams, deserializers
<1>5. ASSUME NEW c \in Consumers, Consume(c)
      PROVE  Channel!Next \/ UNCHANGED <<Sending, received, Failing>>
  BY <1>5, ConsumeReceives DEF Channel!Next
<1>6. QED
  BY <1>1, <1>2, <1>3, <1>4, <1>5 DEF Next

(* AvroSerializer, AvroDeserializer and the registry between them are the  *)
(* channel of AvroChannel: whatever id a message travels with and whenever *)
(* its schema was registered, fetched or deleted, a consumer gets it at    *)
(* most once, as it was sent or as an error, and in order, but for what an *)
(* error was reported ahead of.                                            *)
THEOREM ChannelImplemented == Spec => ImplementsChannel
<1>1. QED
  BY InitChannel, StepChannel, Inductive, PTL DEF Spec, ImplementsChannel, Channel!Spec

-----------------------------------------------------------------------------
(* Where in the log the requests are.  The messages of request r of p come *)
(* after position start[p][r], one after the other; no two of them are at  *)
(* one place, every message that is not foreign is one of them, and those  *)
(* of a producer are in the order of its requests, but that a request may  *)
(* be passed by later ones once an error was called back for one before it.*)
Size(p, r) == Len(Requests[p][r].messages)

Within(start, acc, l) ==
  \A p \in Producers : \A r \in acc[p] :
    /\ start[p][r] + Size(p, r) <= Len(l)
    /\ \A i \in 1..Size(p, r) :
         l[start[p][r] + i].buffer = <<Requests[p][r].schema, Requests[p][r].messages[i]>>

Apart(start, acc) ==
  \A p, q \in Producers : \A r \in acc[p], t \in acc[q] :
    \A i \in 1..Size(p, r), j \in 1..Size(q, t) :
      start[p][r] + i = start[q][t] + j => p = q /\ r = t /\ i = j

Covering(start, acc, l) ==
  \A k \in 1..Len(l) :
    \/ l[k].buffer = Foreign
    \/ \E p \in Producers : \E r \in acc[p] : \E i \in 1..Size(p, r) : k = start[p][r] + i

InTurn(start, acc, err) ==
  \A p \in Producers : \A r, t \in acc[p] :
    r < t => start[p][r] + Size(p, r) <= start[p][t] \/ \E e \in err[p] : e < r

Placed(start, acc, err, l) ==
  /\ start \in [Producers -> [Nat -> Nat]]
  /\ Within(start, acc, l)
  /\ Apart(start, acc)
  /\ Covering(start, acc, l)
  /\ InTurn(start, acc, err)

accepted == [p \in Producers |-> Accepted(p)]

rejected == [p \in Producers |-> errors[p]]

(* The log is made of the requests that were not rejected, each of them    *)
(* whole and in one piece, those of a producer in order but for what an    *)
(* error was called back ahead of.                                         *)
RequestsStayWhole == \E start : Placed(start, accepted, rejected, log)

LEMMA MessagesTyped ==
  ASSUME NEW p \in Producers, NEW r \in DOMAIN Requests[p]
  PROVE  /\ Size(p, r) \in Nat /\ DOMAIN Requests[p][r].messages = 1..Size(p, r)
         /\ Requests[p][r].schema \in Schemas
         /\ \A i \in 1..Size(p, r) : Requests[p][r].messages[i] \in Values
<1> DEFINE R == [subject : Subjects, schema : Schemas, messages : Seq(Values)]
<1>1. Requests[p] \in Seq(R)
  BY RequestsAssumption
<1>2. Requests[p][r] \in R
  BY <1>1, SeqElement
<1>3. PICK m \in Seq(Values) : m = Requests[p][r].messages
  BY <1>2
<1>4. Len(m) \in Nat /\ DOMAIN m = 1..Len(m) /\ \A i \in 1..Len(m) : m[i] \in Values
  OBVIOUS
<1>5. QED
  BY <1>2, <1>3, <1>4 DEF Size

(* One more request, after all that is in the log.                         *)
LEMMA PlacedGrows ==
  ASSUME NEW start, NEW acc \in [Producers -> SUBSET Nat], NEW M, NEW l \in Seq(M),
         NEW err, Placed(start, acc, err, l),
         \A q \in Producers : acc[q] \subseteq DOMAIN Requests[q],
         NEW p \in Producers, NEW k \in DOMAIN Requests[p], k \in Nat,
         k \notin acc[p], \A r \in acc[p] : k < r => \E e \in err[p] : e < k,
         NEW b \in Seq(M), Len(b) = Size(p, k),
         \A i \in 1..Size(p, k) :
           b[i].buffer = <<Requests[p][k].schema, Requests[p][k].messages[i]>>,
         NEW now, now = [acc EXCEPT ![p] = acc[p] \cup {k}]
  PROVE  \E after : Placed(after, now, err, l \o b)
<1> DEFINE after == [start EXCEPT ![p] = [start[p] EXCEPT ![k] = Len(l)]]
           n == Len(l)
           a == l \o b
<1>1. /\ n \in Nat /\ Len(b) \in Nat /\ a \in Seq(M) /\ Len(a) = n + Len(b)
      /\ \A i \in 1..n : a[i] = l[i]
      /\ \A i \in 1..Len(b) : a[n + i] = b[i]
  <2>1. n \in Nat /\ Len(b) \in Nat
    OBVIOUS
  <2>2. /\ l \o b \in Seq(M) /\ Len(l \o b) = Len(l) + Len(b)
        /\ \A i \in 1..Len(l) : (l \o b)[i] = l[i]
        /\ \A i \in 1..Len(b) : (l \o b)[Len(l) + i] = b[i]
    <3>1. l \in Seq(M) /\ b \in Seq(M)
      OBVIOUS
    <3>2. \A x, y \in Seq(M) :
            /\ x \o y \in Seq(M) /\ Len(x \o y) = Len(x) + Len(y)
            /\ \A i \in 1..Len(x) : (x \o y)[i] = x[i]
            /\ \A i \in 1..Len(y) : (x \o y)[Len(x) + i] = y[i]
      BY Longer
    <3>3. QED
      BY <3>1, <3>2
  <2>3. QED
    BY <2>1, <2>2
<1>2. \A q \in Producers : \A r \in acc[q] : r \in Nat /\ Size(q, r) \in Nat
  BY MessagesTyped
<1>3. Size(p, k) \in Nat
  BY MessagesTyped
<1>4. start \in [Producers -> [Nat -> Nat]]
  BY DEF Placed
<1>5. /\ after \in [Producers -> [Nat -> Nat]]
      /\ after[p][k] = n
      /\ \A q \in Producers : \A r \in acc[q] : after[q][r] = start[q][r] /\ start[q][r] \in Nat
  <2>1. after \in [Producers -> [Nat -> Nat]] /\ after[p][k] = n
    BY <1>1, <1>4
  <2>2. ASSUME NEW q \in Producers, NEW r \in acc[q]
        PROVE  after[q][r] = start[q][r] /\ start[q][r] \in Nat
    <3>1. (q = p => r # k) /\ r \in Nat
      BY <1>2
    <3>2. start[q] \in [Nat -> Nat] /\ start[p] \in [Nat -> Nat]
      BY <1>4
    <3>3. CASE q = p
      BY <1>4, <3>1, <3>2, <3>3
    <3>4. CASE q # p
      BY <1>4, <3>1, <3>2, <3>4
    <3>5. QED
      BY <3>3, <3>4
  <2>3. QED
    BY <2>1, <2>2
<1>6. now \in [Producers -> SUBSET Nat]
      /\ \A q \in Producers : \A r \in now[q] : r \in acc[q] \/ (q = p /\ r = k)
  OBVIOUS
<1>7. \A q \in Producers : acc[q] \subseteq now[q]
      /\ k \in now[p]
  OBVIOUS
<1> HIDE DEF after, n, a
<1>8. ASSUME NEW q \in Producers, NEW r \in acc[q]
      PROVE  /\ start[q][r] + Size(q, r) <= n
             /\ \A i \in 1..Size(q, r) :
                  /\ start[q][r] + i \in 1..n
                  /\ l[start[q][r] + i].buffer = <<Requests[q][r].schema, Requests[q][r].messages[i]>>
  <2>1. start[q][r] \in Nat /\ Size(q, r) \in Nat /\ start[q][r] + Size(q, r) <= n
    BY <1>2, <1>5 DEF Placed, Within, n
  <2>2. ASSUME NEW i \in 1..Size(q, r) PROVE start[q][r] + i \in 1..n
    <3>1. PICK x \in Nat, y \in Nat : x = start[q][r] /\ y = Size(q, r)
      BY <2>1
    <3>2. i \in 1..y /\ x + y <= n
      BY <2>1, <3>1
    <3>3. x + i \in 1..n
      BY <1>1, <3>2
    <3>4. QED
      BY <3>1, <3>3
  <2>3. QED
    BY <2>1, <2>2 DEF Placed, Within
<1>9. Within(after, now, a)
  <2> SUFFICES ASSUME NEW q \in Producers, NEW r \in now[q]
               PROVE  /\ after[q][r] + Size(q, r) <= Len(a)
                      /\ \A i \in 1..Size(q, r) : a[after[q][r] + i].buffer
                           = <<Requests[q][r].schema, Requests[q][r].messages[i]>>
    BY DEF Within
  <2>1. CASE r \in acc[q]
    <3>1. after[q][r] = start[q][r] /\ start[q][r] \in Nat /\ Size(q, r) \in Nat
      BY <1>2, <1>5, <2>1
    <3>2. start[q][r] + Size(q, r) <= Len(a)
      BY <1>1, <1>8, <2>1, <3>1
    <3>3. ASSUME NEW i \in 1..Size(q, r)
          PROVE  a[after[q][r] + i].buffer = <<Requests[q][r].schema, Requests[q][r].messages[i]>>
      <4>1. start[q][r] + i \in 1..n
            /\ l[start[q][r] + i].buffer = <<Requests[q][r].schema, Requests[q][r].messages[i]>>
        BY <1>8, <2>1
      <4>2. a[start[q][r] + i] = l[start[q][r] + i]
        BY <1>1, <4>1
      <4>3. QED
        BY <3>1, <4>1, <4>2
    <3>4. QED
      BY <3>1, <3>2, <3>3
  <2>2. CASE q = p /\ r = k
    <3>1. after[q][r] + Size(q, r) <= Len(a)
      <4>1. after[q][r] + Size(q, r) = n + Len(b)
        BY <1>5, <2>2
      <4>2. QED
        BY <1>1, <4>1
    <3>2. ASSUME NEW i \in 1..Size(q, r)
          PROVE  a[after[q][r] + i].buffer = <<Requests[q][r].schema, Requests[q][r].messages[i]>>
      <4>1. i \in 1..Len(b) /\ i \in 1..Size(p, k) /\ after[q][r] + i = n + i
        BY <1>5, <2>2
      <4>2. a[after[q][r] + i] = b[i]
        BY <1>1, <4>1
      <4>3. QED
        BY <2>2, <4>1, <4>2
    <3>3. QED
      BY <3>1, <3>2
  <2>3. QED
    BY <1>6, <2>1, <2>2
<1>10. Apart(after, now)
  <2> SUFFICES ASSUME NEW q \in Producers, NEW u \in Producers, NEW r \in now[q], NEW t \in now[u],
                      NEW i \in 1..Size(q, r), NEW j \in 1..Size(u, t),
                      after[q][r] + i = after[u][t] + j
               PROVE  q = u /\ r = t /\ i = j
    BY DEF Apart
  <2>1. ASSUME NEW v \in Producers, NEW x \in acc[v], NEW m \in 1..Size(v, x)
        PROVE  after[v][x] + m <= n /\ after[v][x] + m \in Nat
    <3>1. start[v][x] + m \in 1..n /\ after[v][x] = start[v][x]
      BY <1>5, <1>8
    <3>2. PICK e \in 1..n : e = after[v][x] + m
      BY <3>1
    <3>3. e <= n /\ e \in Nat
      BY <1>1
    <3>4. QED
      BY <3>2, <3>3
  <2>2. ASSUME NEW m \in 1..Size(p, k)
        PROVE  ~(after[p][k] + m <= n)
    <3>1. after[p][k] = n /\ m \in Nat /\ m >= 1 /\ n \in Nat
      BY <1>1, <1>3, <1>5
    <3>2. QED
      BY <3>1
  <2>3. CASE r \in acc[q] /\ t \in acc[u]
    <3>1. start[q][r] + i = start[u][t] + j
      BY <1>5, <2>3
    <3>2. \A x \in 1..Size(q, r), y \in 1..Size(u, t) :
            start[q][r] + x = start[u][t] + y => q = u /\ r = t /\ x = y
      <4>1. \A p1, p2 \in Producers : \A r1 \in acc[p1], r2 \in acc[p2] :
              \A x \in 1..Size(p1, r1), y \in 1..Size(p2, r2) :
                start[p1][r1] + x = start[p2][r2] + y => p1 = p2 /\ r1 = r2 /\ x = y
        BY DEF Placed, Apart
      <4>2. QED
        BY <2>3, <4>1
    <3>3. QED
      BY <3>1, <3>2
  <2>4. CASE r \in acc[q] /\ u = p /\ t = k
    <3>1. PICK e \in Nat : e = after[q][r] + i /\ e <= n
      BY <2>1, <2>4
    <3>2. ~(e <= n)
      BY <2>2, <2>4, <3>1
    <3>3. QED
      BY <3>1, <3>2
  <2>5. CASE t \in acc[u] /\ q = p /\ r = k
    <3>1. PICK e \in Nat : e = after[u][t] + j /\ e <= n
      BY <2>1, <2>5
    <3>2. ~(e <= n)
      BY <2>2, <2>5, <3>1
    <3>3. QED
      BY <3>1, <3>2
  <2>6. CASE q = p /\ r = k /\ u = p /\ t = k
    <3>1. i \in Nat /\ j \in Nat
      BY <1>3, <2>6
    <3>2. after[q][r] = n /\ after[u][t] = n
      BY <1>5, <2>6
    <3>3. n + i = n + j
      BY <3>2
    <3>4. QED
      BY <1>1, <2>6, <3>1, <3>3
  <2>7. QED
    BY <1>6, <2>3, <2>4, <2>5, <2>6
<1>11. Covering(after, now, a)
  <2> SUFFICES ASSUME NEW m \in 1..Len(a), a[m].buffer # Foreign
               PROVE  \E q \in Producers : \E r \in now[q] : \E i \in 1..Size(q, r) :
                        m = after[q][r] + i
    BY DEF Covering
  <2>1. CASE m \in 1..n
    <3>1. l[m].buffer # Foreign
      BY <1>1, <2>1
    <3>2. PICK q \in Producers :
            \E r \in acc[q] : \E i \in 1..Size(q, r) : m = start[q][r] + i
      BY <2>1, <3>1 DEF Placed, Covering, n
    <3>3. PICK r \in acc[q] : \E i \in 1..Size(q, r) : m = start[q][r] + i
      BY <3>2
    <3>4. after[q][r] = start[q][r] /\ r \in now[q]
      BY <1>5, <1>7
    <3>5. QED
      BY <3>3, <3>4
  <2>2. CASE m \in (n + 1)..(n + Len(b))
    <3>1. PICK i \in 1..Size(p, k) : m = n + i
      <4>1. m - n \in 1..Size(p, k) /\ m = n + (m - n)
        BY <1>1, <2>2
      <4>2. QED
        BY <4>1
    <3>2. after[p][k] = n /\ k \in now[p]
      BY <1>5, <1>7
    <3>3. QED
      BY <3>1, <3>2
  <2>3. QED
    BY <1>1, <2>1, <2>2
<1>12. InTurn(after, now, err)
  <2> SUFFICES ASSUME NEW q \in Producers, NEW r \in now[q], NEW t \in now[q], r < t
               PROVE  after[q][r] + Size(q, r) <= after[q][t] \/ \E e \in err[q] : e < r
    BY DEF InTurn
  <2>1. CASE r \in acc[q] /\ t \in acc[q]
    BY <1>5, <2>1 DEF Placed, InTurn
  <2>2. CASE r \in acc[q] /\ q = p /\ t = k
    <3>1. after[q][r] = start[q][r] /\ after[q][t] = n
      BY <1>5, <2>2
    <3>2. start[q][r] + Size(q, r) <= n
      BY <1>8, <2>2
    <3>3. QED
      BY <3>1, <3>2
  <2>3. CASE q = p /\ r = k /\ (t \in acc[q] \/ t = k)
    <3>1. t \in acc[p]
      BY <2>3
    <3>2. QED
      BY <2>3, <3>1
  <2>4. QED
    BY <1>6, <2>1, <2>2, <2>3
<1>13. QED
  BY <1>5, <1>9, <1>10, <1>11, <1>12 DEF Placed, a

LEMMA AcceptedTyped ==
  ASSUME IInv
  PROVE  /\ accepted \in [Producers -> SUBSET Nat]
         /\ \A p \in Producers : accepted[p] \subseteq DOMAIN Requests[p]
         /\ \A p \in Producers :
              Accepted(p) = Past(read[p], writing[p], waiting[p], errors[p])
<1>1. ASSUME NEW p \in Producers
      PROVE  /\ Accepted(p) \subseteq Nat /\ Accepted(p) \subseteq DOMAIN Requests[p]
             /\ Accepted(p) = Past(read[p], writing[p], waiting[p], errors[p])
  <2>1. /\ read[p] \in Nat /\ read[p] <= Len(Requests[p])
        /\ Len(Requests[p]) \in Nat /\ DOMAIN Requests[p] = 1..Len(Requests[p])
    BY RequestsAssumption, OtherKind DEF IInv, StreamsOK, Available
  <2>2. QED
    BY <2>1 DEF Accepted, Past
<1>2. QED
  BY <1>1 DEF accepted

(* A step at which no serializer is done with a request it accepts. Errors *)
(* only allow more.                                                        *)
LEMMA NothingAccepted ==
  ASSUME RequestsStayWhole, log' = log,
         \A p \in Producers : Accepted(p)' = Accepted(p) /\ errors[p] \subseteq errors'[p]
  PROVE  RequestsStayWhole'
<1>1. PICK start : Placed(start, accepted, rejected, log)
  BY DEF RequestsStayWhole
<1>2. accepted' = accepted
  BY DEF accepted
<1>3. InTurn(start, accepted, rejected')
  BY <1>1 DEF Placed, InTurn, rejected
<1>4. Placed(start, accepted, rejected', log)
  BY <1>1, <1>3 DEF Placed
<1>5. QED
  BY <1>2, <1>4 DEF RequestsStayWhole

LEMMA AcceptedStays ==
  ASSUME NEW p \in Producers,
         UNCHANGED <<read[p], writing[p], waiting[p], errors[p]>>
  PROVE  Accepted(p)' = Accepted(p) /\ errors[p] \subseteq errors'[p]
BY DEF Accepted

LEMMA RejectKeepsWhole ==
  ASSUME IInv, RequestsStayWhole, NEW p \in Producers, writing[p] # 0, Reject(p)
  PROVE  RequestsStayWhole'
<1>1. /\ StreamsOK /\ p \in Streams /\ Error(p) /\ log' = log /\ Len(log) \in Nat
  BY OtherKind, LogTyped DEF IInv, Reject
<1>2. /\ Others(p)
      /\ Past(read'[p], writing'[p], waiting'[p], errors'[p])
           = Past(read[p], writing[p], waiting[p], errors[p])
      /\ errors'[p] = errors[p] \cup {writing[p]}
  BY <1>1, StreamsError
<1>3. ASSUME NEW q \in Producers
      PROVE  Accepted(q)' = Accepted(q) /\ errors[q] \subseteq errors'[q]
  <2>1. CASE q = p
    BY <1>2, <2>1 DEF Accepted, Past
  <2>2. CASE q # p
    BY <1>2, <2>2, OtherKind, AcceptedStays DEF Others
  <2>3. QED
    BY <2>1, <2>2
<1>4. QED
  BY <1>1, <1>3, NothingAccepted

LEMMA SerializeKeepsWhole ==
  ASSUME IInv, RequestsStayWhole, NEW p \in Producers, Serialize(p)
  PROVE  RequestsStayWhole'
<1>1. /\ writing[p] # 0 /\ StreamsOK /\ RegistryOK /\ p \in Streams
  BY AtRequest, OtherKind DEF Serialize, IInv
<1>2. CASE Reject(p)
  BY <1>1, <1>2, RejectKeepsWhole
<1>3. CASE Encodable(p) /\ log' = log \o Buffers(p) /\ Done(p)
  <2> DEFINE k == writing[p]
             M == [schemaId : 0..Len(ids), buffer : Content]
             b == Buffers(p)
  <2>1. k \in DOMAIN Requests[p] /\ k \in Nat
    BY <1>1, RequestTyped
  <2>2. /\ log \in Seq(M) /\ b \in Seq(M) /\ Len(b) = Size(p, k)
        /\ \A i \in 1..Size(p, k) :
             b[i].buffer = <<Requests[p][k].schema, Requests[p][k].messages[i]>>
    <3>1. b \in Seq([schemaId : 0..Len(ids), buffer : Schemas \X Values])
      BY <1>3, BuffersOK DEF Serialize
    <3>2. [schemaId : 0..Len(ids), buffer : Schemas \X Values] \subseteq M
      BY DEF Content
    <3>3. log \in Seq(M) /\ b \in Seq(M)
      <4> HIDE DEF b, M
      <4>1. b \in Seq(M)
        BY <3>1, <3>2, SeqMono, Zenon
      <4>2. QED
        BY <1>1, <4>1 DEF RegistryOK, M
    <3>4. DOMAIN Requests[p][k].messages = 1..Size(p, k) /\ Size(p, k) \in Nat
      BY <2>1, MessagesTyped
    <3>5. b = [i \in 1..Size(p, k) |->
                 [schemaId |-> id[p], buffer |-> <<Requests[p][k].schema, Requests[p][k].messages[i]>>]]
      BY <3>4 DEF Buffers, Request, constructMessage, writeUInt32BE
    <3>6. Len(b) = Size(p, k)
      BY <3>4, <3>5
    <3>7. \A i \in 1..Size(p, k) :
            b[i].buffer = <<Requests[p][k].schema, Requests[p][k].messages[i]>>
      <4> HIDE DEF b, k
      <4>1. QED
        BY <3>5
    <3>8. QED
      BY <3>3, <3>6, <3>7
  <2> HIDE DEF k, M, b
  <2>3. Len(log) \in Nat /\ Len(log') \in Nat /\ Len(log') >= Len(log)
    <3>1. log' = log \o b /\ log \in Seq(M) /\ b \in Seq(M)
      BY <1>3, <2>2 DEF b
    <3>2. QED
      BY <3>1
  <2>4. /\ Others(p) /\ read' = read /\ errors' = errors
        /\ Past(read[p], writing'[p], waiting'[p], errors[p])
             = Past(read[p], k, waiting[p], errors[p]) \cup {k}
    BY <1>1, <1>3, <2>3, StreamsDone DEF k
  <2>5. accepted' = [accepted EXCEPT ![p] = accepted[p] \cup {k}] /\ rejected' = rejected
    <3>1. ASSUME NEW q \in Producers, q # p PROVE Accepted(q)' = Accepted(q)
      BY <2>4, <3>1, OtherKind, AcceptedStays DEF Others
    <3>2. Accepted(p)' = Accepted(p) \cup {k}
      BY <2>4 DEF Accepted, Past, k
    <3>3. QED
      BY <2>4, <3>1, <3>2 DEF accepted, rejected
  <2>6. PICK start : Placed(start, accepted, rejected, log)
    BY DEF RequestsStayWhole
  <2>7. /\ k \notin accepted[p]
        /\ \A r \in accepted[p] : k < r => \E e \in rejected[p] : e < k
    <3>1. accepted[p] = Past(read[p], k, waiting[p], errors[p]) /\ rejected[p] = errors[p]
      BY AcceptedTyped DEF accepted, rejected, k
    <3>2. Fine(read[p], k, waiting[p], errors[p]) /\ k # 0
      BY <1>1 DEF StreamsOK, k
    <3>3. QED
      BY <3>1, <3>2 DEF Fine, Past
  <2>8. \E after : Placed(after, accepted', rejected, log \o b)
    BY <2>1, <2>2, <2>5, <2>6, <2>7, AcceptedTyped, PlacedGrows
  <2>9. QED
    BY <1>3, <2>5, <2>8 DEF RequestsStayWhole, b
<1>4. QED
  BY <1>2, <1>3 DEF Serialize

LEMMA InitWhole == Init => RequestsStayWhole
<1> SUFFICES ASSUME Init PROVE RequestsStayWhole
  OBVIOUS
<1>1. \A p \in Producers : accepted[p] = {}
  BY OtherKind DEF Init, accepted, Accepted
<1>2. \A k \in 1..Len(log) : log[k].buffer = Foreign
  BY StartsAssumption DEF Init
<1> DEFINE start == [p \in Producers |-> [r \in Nat |-> 0]]
<1>3. Placed(start, accepted, rejected, log)
  <2>1. start \in [Producers -> [Nat -> Nat]]
    OBVIOUS
  <2> HIDE DEF start
  <2>2. QED
    BY <1>1, <1>2, <2>1 DEF Placed, Within, Apart, Covering, InTurn
<1>4. QED
  BY <1>3 DEF RequestsStayWhole

LEMMA PipeKeepsWhole ==
  ASSUME IInv, RequestsStayWhole, NEW s \in Streams, Pipe(s) \/ Repipe(s)
  PROVE  RequestsStayWhole'
<1>1. StreamsOK /\ Len(log) \in Nat
  BY LogTyped DEF IInv
<1>2. \A p \in Producers : Accepted(p)' = Accepted(p) /\ errors[p] \subseteq errors'[p]
  <2>1. CASE Pipe(s)
    <3>1. /\ Others(s) /\ errors' = errors
          /\ Past(read'[s], writing'[s], waiting'[s], errors'[s])
               = Past(read[s], writing[s], waiting[s], errors[s])
      BY <1>1, <2>1, StreamsPipe
    <3>2. QED
      BY <3>1, OtherKind DEF Others, Accepted, Past
  <2>2. CASE Repipe(s)
    BY <2>2 DEF Repipe, Accepted
  <2>3. QED
    BY <2>1, <2>2
<1>3. log' = log
  BY DEF Pipe, Repipe
<1>4. QED
  BY <1>2, <1>3, NothingAccepted

LEMMA NextWhole == IInv /\ RequestsStayWhole /\ [Next]_vars => RequestsStayWhole'
<1> SUFFICES ASSUME IInv, RequestsStayWhole, [Next]_vars PROVE RequestsStayWhole'
  OBVIOUS
<1>1. CASE UNCHANGED <<log, streams>>
  <2>1. \A p \in Producers : Accepted(p)' = Accepted(p) /\ errors[p] \subseteq errors'[p]
    BY <1>1, AcceptedStays DEF streams
  <2>2. QED
    BY <1>1, <2>1, NothingAccepted
<1>2. ASSUME NEW s \in Streams, Pipe(s) \/ Repipe(s) PROVE RequestsStayWhole'
  BY <1>2, PipeKeepsWhole
<1>3. ASSUME NEW p \in Producers, Produce(p) PROVE RequestsStayWhole'
  <2>1. CASE Serialize(p)
    BY <2>1, SerializeKeepsWhole
  <2>2. CASE Reject(p) /\ ~Serialize(p)
    <3>1. writing[p] # 0 \/ step[p] # "start"
      BY <1>3, <2>2 DEF Produce, Transform, CheckSubjectRegistered, AddSubjectVersion, FetchFails
    <3>2. QED
      BY <2>2, <3>1, AtRequest, RejectKeepsWhole
  <2>3. CASE ~Serialize(p) /\ ~Reject(p)
    <3>1. UNCHANGED <<log, streams>>
      BY <1>3, <2>3 DEF Produce, Transform, CheckSubjectRegistered, AddSubjectVersion,
                        FetchFails, Proceed
    <3>2. QED
      BY <1>1, <3>1
  <2>4. QED
    BY <2>1, <2>2, <2>3
<1>4. ASSUME NEW s \in Subjects, DeleteSubject(s) PROVE RequestsStayWhole'
  BY <1>1, <1>4 DEF DeleteSubject
<1>5. ASSUME NEW c \in Consumers, Consume(c) PROVE RequestsStayWhole'
  <2>1. Others(c) /\ log' = log
    <3>1. /\ StreamsOK /\ RegistryOK /\ DeserializersOK /\ writing[c] # 0 /\ log' = log
          /\ \/ UNCHANGED streams
             \/ Deliver(c, At(c).buffer)
             \/ Error(c) /\ UNCHANGED received /\ fetching' = fetching \ {c}
      BY <1>5, ConsumeDelivers DEF IInv
    <3>2. At(c).buffer \in Content
      BY <3>1, MessageRead
    <3>3. CASE UNCHANGED streams
      BY <3>1, <3>3 DEF streams, Others
    <3>4. QED
      BY <3>1, <3>2, <3>3, DeserializersDeliver, DeserializersError
  <2>2. \A p \in Producers : Accepted(p)' = Accepted(p) /\ errors[p] \subseteq errors'[p]
    BY <2>1, OtherKind, AcceptedStays DEF Others
  <2>3. QED
    BY <2>1, <2>2, NothingAccepted
<1>6. QED
  BY <1>1, <1>2, <1>3, <1>4, <1>5 DEF Next, vars

(* However producers, consumers and deletions interleave, the log consists *)
(* of whole requests, the messages of each adjacent and in their order,    *)
(* and those of a producer are in its order, but that what was buffered    *)
(* behind a rejected one may be passed by later ones.                      *)
THEOREM RequestsWhole == Spec => []RequestsStayWhole
<1>1. QED
  BY InitWhole, NextWhole, Inductive, PTL DEF Spec

LEMMA SentMember ==
  ASSUME NEW m
  PROVE  m \in Sent <=>
           \E p \in Producers : \E r \in Accepted(p) :
             \E i \in DOMAIN Requests[p][r].messages : m = <<p, r, i>>
BY DEF Sent

(* What was accepted is in the log as often as it was to be sent.          *)
LEMMA WholeCounts ==
  ASSUME IInv, NEW start, Placed(start, accepted, rejected, log), NEW b \in Schemas \X Values
  PROVE  Cardinality({m \in Sent : BufferOf(m) = b})
           = Cardinality({i \in DOMAIN log : log[i].buffer = b})
<1> DEFINE S == {i \in DOMAIN log : log[i].buffer = b}
           T == {m \in Sent : BufferOf(m) = b}
           place(m) == start[m[1]][m[2]] + m[3]
<1>1. DOMAIN log = 1..Len(log) /\ Len(log) \in Nat
  BY LogTyped DEF IInv
<1>2. b # Foreign
  BY ForeignAssumption
<1>3. ASSUME NEW m \in T
      PROVE  /\ m = <<m[1], m[2], m[3]>> /\ m[1] \in Producers /\ m[2] \in accepted[m[1]]
             /\ m[3] \in 1..Size(m[1], m[2])
  <2>1. PICK p \in Producers :
          \E r \in Accepted(p) : \E i \in DOMAIN Requests[p][r].messages : m = <<p, r, i>>
    BY SentMember
  <2>2. PICK r \in Accepted(p) : \E i \in DOMAIN Requests[p][r].messages : m = <<p, r, i>>
    BY <2>1
  <2>3. r \in accepted[p] /\ r \in DOMAIN Requests[p]
    BY <2>2, AcceptedTyped DEF accepted
  <2>4. DOMAIN Requests[p][r].messages = 1..Size(p, r)
    BY <2>3, MessagesTyped
  <2>5. QED
    BY <2>2, <2>3, <2>4
<1>4. ASSUME NEW m \in T PROVE place(m) \in S
  <2>1. /\ start[m[1]][m[2]] \in Nat /\ Size(m[1], m[2]) \in Nat
        /\ start[m[1]][m[2]] + Size(m[1], m[2]) <= Len(log)
        /\ log[place(m)].buffer = BufferOf(m)
    <3>1. m[2] \in Nat /\ m[2] \in DOMAIN Requests[m[1]]
      BY <1>3, AcceptedTyped
    <3>2. start[m[1]][m[2]] \in Nat /\ Size(m[1], m[2]) \in Nat
      <4>1. start \in [Producers -> [Nat -> Nat]] /\ m[1] \in Producers
        BY <1>3 DEF Placed
      <4>2. Size(m[1], m[2]) \in Nat
        BY <1>3, <3>1, MessagesTyped
      <4>3. QED
        BY <3>1, <4>1, <4>2
    <3>3. /\ start[m[1]][m[2]] + Size(m[1], m[2]) <= Len(log)
          /\ \A i \in 1..Size(m[1], m[2]) : log[start[m[1]][m[2]] + i].buffer
               = <<Requests[m[1]][m[2]].schema, Requests[m[1]][m[2]].messages[i]>>
      BY <1>3 DEF Placed, Within
    <3>4. QED
      BY <1>3, <3>2, <3>3 DEF BufferOf
  <2>2. place(m) \in 1..Len(log)
    <3>1. PICK x \in Nat, y \in Nat : x = start[m[1]][m[2]] /\ y = Size(m[1], m[2])
      BY <2>1
    <3>2. x + y <= Len(log) /\ m[3] \in 1..y /\ place(m) = x + m[3]
      BY <1>3, <2>1, <3>1
    <3> HIDE DEF place
    <3>3. QED
      BY <1>1, <3>2
  <2>3. QED
    BY <1>1, <2>1, <2>2
<1>5. ASSUME NEW m \in T, NEW o \in T, place(m) = place(o) PROVE m = o
  <2>1. \A p, q \in Producers : \A r \in accepted[p], t \in accepted[q] :
          \A i \in 1..Size(p, r), j \in 1..Size(q, t) :
            start[p][r] + i = start[q][t] + j => p = q /\ r = t /\ i = j
    BY DEF Placed, Apart
  <2>2. m[1] = o[1] /\ m[2] = o[2] /\ m[3] = o[3]
    BY <1>3, <1>5, <2>1
  <2>3. QED
    BY <1>3, <2>2
<1>6. ASSUME NEW k \in S PROVE \E m \in T : place(m) = k
  <2>1. k \in 1..Len(log) /\ log[k].buffer = b
    BY <1>1
  <2>2. PICK p \in Producers :
          \E r \in accepted[p] : \E i \in 1..Size(p, r) : k = start[p][r] + i
    BY <1>2, <2>1 DEF Placed, Covering
  <2>3. PICK r \in accepted[p] : \E i \in 1..Size(p, r) : k = start[p][r] + i
    BY <2>2
  <2>4. PICK i \in 1..Size(p, r) : k = start[p][r] + i
    BY <2>3
  <2>5. r \in Accepted(p) /\ r \in DOMAIN Requests[p] /\ i \in DOMAIN Requests[p][r].messages
    BY <2>3, <2>4, AcceptedTyped, MessagesTyped DEF accepted
  <2>6. <<p, r, i>> \in Sent /\ place(<<p, r, i>>) = k
    BY <2>4, <2>5, SentMember
  <2>7. BufferOf(<<p, r, i>>) = b
    BY <2>1, <2>3, <2>4 DEF Placed, Within, BufferOf
  <2>8. QED
    BY <2>6, <2>7
<1>7. IsFiniteSet(S)
  <2>1. IsFiniteSet(1..Len(log)) /\ S \subseteq 1..Len(log)
    BY <1>1, FS_Interval
  <2>2. QED
    BY <2>1, FS_Subset
<1> DEFINE g == [k \in S |-> CHOOSE m \in T : place(m) = k]
<1> HIDE DEF S, T, place
<1>8. \A k \in S : g[k] \in T /\ place(g[k]) = k
  BY <1>6
<1>9. g \in Bijection(S, T)
  <2>1. g \in [S -> T]
    BY <1>8
  <2>2. \A k, l \in S : g[k] = g[l] => k = l
    BY <1>8
  <2>3. \A m \in T : \E k \in S : g[k] = m
    <3>1. SUFFICES ASSUME NEW m \in T PROVE place(m) \in S /\ g[place(m)] = m
      OBVIOUS
    <3>2. place(m) \in S
      BY <1>4
    <3>3. g[place(m)] \in T /\ place(g[place(m)]) = place(m)
      BY <1>8, <3>2
    <3>4. QED
      BY <1>5, <3>2, <3>3
  <2> HIDE DEF g
  <2>4. QED
    BY <2>1, <2>2, <2>3 DEF Bijection, Injection, Surjection, IsInjective
<1>10. ExistsBijection(S, T)
  BY <1>9 DEF ExistsBijection
<1>11. Cardinality(T) = Cardinality(S)
  BY <1>7, <1>10, FS_Bijection
<1>12. QED
  BY <1>11 DEF S, T

(* A request is serialized whole or not at all: the log has each message   *)
(* of those that were not rejected as often as they have it, and nothing   *)
(* of the others.                                                          *)
THEOREM WholeRequests == Spec => []WholeRequestsOnly
<1>1. IInv /\ RequestsStayWhole => WholeRequestsOnly
  BY WholeCounts DEF WholeRequestsOnly, RequestsStayWhole
<1>2. QED
  BY <1>1, Inductive, RequestsWhole, PTL
=============================================================================
