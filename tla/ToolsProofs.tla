----------------------------- MODULE ToolsProofs -----------------------------
(***************************************************************************)
(* What a file holds and what is produced from it, for any topics, keys,   *)
(* schemas and values; and what the commands schema, topic and             *)
(* create-topic find and list, for any names, searches and versions; and   *)
(* what the functions behind Helpers return, for any width and number of   *)
(* bytes, any settings, chains of loggers, values and paths to redact.     *)
(***************************************************************************)
EXTENDS KacFile, KacCommands, Helpers, NaturalsInduction, WellFoundedInduction, TLAPS

(* A request stands for the first n events of its partition. *)
IsRequestOf(r, p, n) ==
  /\ r.partition = p /\ n \in 1..Len(topic[p])
  /\ r.key = topic[p][1].key /\ r.schema = topic[p][1].schema
  /\ Len(r.messages) = n
  /\ \A i \in 1..n : r.messages[i] = Json[topic[p][i].value]

(* The requests are those of the events taken; so is the file, but while   *)
(* it is written.                                                          *)
GatheredOK ==
  /\ file.state # "torn" => file.requests = requests
  /\ file.state # "whole" => file.requests = <<>>
  /\ consume = "ready" => file.state # "torn"
  /\ \A p \in TopicPartitions :
       /\ taken[p] <= Len(topic[p])
       /\ (p \in DOMAIN requests <=> taken[p] # 0)
       /\ (p \in DOMAIN requests => IsRequestOf(requests[p], p, taken[p]))

(* kac produce is run when kac consume is over. *)
ReaderOK ==
  /\ reader.open => reader.requests = file.requests /\ consume = "over"
  /\ reader.open /\ failed = "no" => file.state = "whole"
  /\ ~reader.open => queue = <<>> /\ sending = <<>> /\ ~reader.ended /\ reader.partition = 0
                     /\ failed = "no"
  /\ \A q \in 0..(reader.partition - 1) : q \in DOMAIN file.requests
  /\ reader.ended => reader.partition \notin DOMAIN file.requests

(* The first partitions that are not encoded and not sent. *)
Waiting == reader.partition - Len(queue)
Unsent == Waiting - Len(sending)

(* Requests are read, encoded and produced in the order of the partitions. *)
QueueOK ==
  /\ Len(queue) + Len(sending) <= reader.partition
  /\ \A i \in 1..Len(queue) : queue[i] = file.requests[Waiting + i - 1]
  /\ \A i \in 1..Len(sending) : sending[i] = file.requests[Unsent + i - 1]
  /\ \A p \in TopicPartitions :
       IF p < Unsent
       THEN \/ produced[p] = EventsIn(file.requests[p])
            \/ (produced[p] = <<>> /\ failed = "unsent")
       ELSE produced[p] = <<>>

FileIInv ==
  /\ FileTypeOK
  /\ GatheredOK
  /\ ReaderOK
  /\ QueueOK
  /\ FailsForAReason

-----------------------------------------------------------------------------
LEMMA SeqFacts ==
  ASSUME NEW A, NEW s \in Seq(A)
  PROVE  Len(s) \in Nat /\ DOMAIN s = 1..Len(s) /\ \A i \in DOMAIN s : s[i] \in A
OBVIOUS

LEMMA AppendFacts ==
  ASSUME NEW A, NEW s \in Seq(A), NEW x \in A
  PROVE  /\ Append(s, x) \in Seq(A) /\ Len(Append(s, x)) = Len(s) + 1
         /\ \A i \in 1..Len(s) : Append(s, x)[i] = s[i]
         /\ Append(s, x)[Len(s) + 1] = x
OBVIOUS

LEMMA TailFacts ==
  ASSUME NEW A, NEW s \in Seq(A), s # <<>>
  PROVE  /\ Head(s) = s[1] /\ 1 \in 1..Len(s) /\ Len(s) \in Nat
         /\ Tail(s) \in Seq(A) /\ Len(Tail(s)) = Len(s) - 1
         /\ \A i \in 1..(Len(s) - 1) : Tail(s)[i] = s[i + 1]
OBVIOUS

LEMMA EmptyFacts ==
  ASSUME NEW A
  PROVE  /\ <<>> \in Seq(A) /\ Len(<<>>) = 0 /\ DOMAIN <<>> = {}
         /\ \A s \in Seq(A) : s = <<>> <=> Len(s) = 0
         /\ \A s \in Seq(A) : <<>> \o s = s
OBVIOUS

LEMMA NothingWaits ==
  ASSUME queue = <<>>, sending = <<>>, reader.partition = 0
  PROVE  Len(queue) = 0 /\ Len(sending) = 0 /\ Waiting = 0 /\ Unsent = 0
<1>1. Len(<<>>) = 0
  OBVIOUS
<1>2. Len(queue) = 0 /\ Len(sending) = 0
  BY <1>1
<1>3. Waiting = 0 - 0
  BY <1>2, Zenon DEF Waiting
<1>4. 0 - 0 = 0
  OBVIOUS
<1>5. Unsent = 0 - 0
  BY <1>2, <1>3, <1>4, Zenon DEF Unsent
<1>6. QED
  BY <1>2, <1>3, <1>4, <1>5, Zenon

(* Sequences of one length and the same elements are one. *)
LEMMA SameSeq ==
  ASSUME NEW A, NEW s \in Seq(A), NEW B, NEW t \in Seq(B), Len(s) = Len(t),
         \A i \in 1..Len(s) : s[i] = t[i]
  PROVE  s = t
OBVIOUS

LEMMA FirstOf ==
  ASSUME NEW A, NEW s \in Seq(A), NEW n \in 0..Len(s)
  PROVE  /\ SubSeq(s, 1, n) \in Seq(A) /\ Len(SubSeq(s, 1, n)) = n
         /\ \A i \in 1..n : SubSeq(s, 1, n)[i] = s[i]
OBVIOUS

(* Events are partition by partition.                                      *)
LEMMA TopicTyped ==
  ASSUME FileTypeOK, NEW p \in TopicPartitions
  PROVE  /\ p \in Nat /\ topic[p] \in Seq(Event) /\ Len(topic[p]) \in Nat
         /\ \A i \in 1..Len(topic[p]) :
              /\ topic[p][i] \in Event /\ topic[p][i].key \in Keys
              /\ topic[p][i].schema \in Schemas /\ topic[p][i].value \in Payloads
              /\ Json[topic[p][i].value] \in Payloads
              /\ <<topic[p][i].schema, topic[p][i].value>> \in Encodes
<1>1. topic \in [TopicPartitions -> Seq(Event)] /\ p \in Nat
  BY TopicsAssumption, TopicPartitionsAssumption DEF FileTypeOK
<1>2. PICK s \in Seq(Event) : s = topic[p]
  BY <1>1
<1>3. Len(s) \in Nat /\ \A i \in 1..Len(s) : s[i] \in Event
  BY SeqFacts
<1>4. \A i \in 1..Len(topic[p]) : <<topic[p][i].schema, topic[p][i].value>> \in Encodes
  BY TopicsAssumption DEF FileTypeOK
<1>5. QED
  BY <1>1, <1>2, <1>3, <1>4, JsonAssumption DEF Event

LEMMA RequestTyped ==
  ASSUME NEW r \in Request
  PROVE  /\ r.partition \in TopicPartitions /\ r.key \in Keys /\ r.schema \in Schemas
         /\ r.messages \in Seq(Payloads) /\ Len(r.messages) \in Nat
         /\ DOMAIN r.messages = 1..Len(r.messages)
         /\ \A i \in 1..Len(r.messages) : r.messages[i] \in Payloads
         /\ EventsIn(r) \in Seq(Event) /\ Len(EventsIn(r)) = Len(r.messages)
         /\ \A i \in 1..Len(r.messages) :
              EventsIn(r)[i] = [key |-> r.key, schema |-> r.schema, value |-> r.messages[i]]
<1>1. /\ r.partition \in TopicPartitions /\ r.key \in Keys /\ r.schema \in Schemas
      /\ r.messages \in Seq(Payloads)
  BY DEF Request
<1>2. PICK m \in Seq(Payloads) : m = r.messages
  BY <1>1
<1>3. Len(m) \in Nat /\ DOMAIN m = 1..Len(m) /\ \A i \in 1..Len(m) : m[i] \in Payloads
  BY SeqFacts
<1>4. EventsIn(r) = [i \in 1..Len(m) |-> [key |-> r.key, schema |-> r.schema, value |-> m[i]]]
  BY <1>2, <1>3 DEF EventsIn
<1>5. \A i \in 1..Len(m) : [key |-> r.key, schema |-> r.schema, value |-> m[i]] \in Event
  BY <1>1, <1>3 DEF Event
<1>6. EventsIn(r) \in Seq(Event) /\ Len(EventsIn(r)) = Len(m)
  BY <1>3, <1>4, <1>5
<1>7. QED
  BY <1>1, <1>2, <1>3, <1>4, <1>6

LEMMA EmptyRequests == ByPartition(<<>>)
BY DEF ByPartition

(* The values of the first n events, as JSON leaves them.                  *)
LEMMA KeptIs ==
  ASSUME FileTypeOK, NEW p \in TopicPartitions, NEW n \in 0..Len(topic[p]),
         NEW m \in Seq(Payloads), Len(m) = n,
         \A i \in 1..n : m[i] = Json[topic[p][i].value]
  PROVE  m = Kept(p, n)
<1>1. n \in Nat /\ m = [i \in 1..n |-> m[i]]
  BY TopicTyped
<1>2. QED
  BY <1>1 DEF Kept

-----------------------------------------------------------------------------
(* FileWritable: one more event of partition p.                            *)
LEMMA WithFacts ==
  ASSUME FileTypeOK, GatheredOK, NEW p \in TopicPartitions, taken[p] < Len(topic[p]),
         NEW n, n = taken[p] + 1, NEW f, f = With(p, topic[p][n])
  PROVE  /\ n \in 1..Len(topic[p])
         /\ DOMAIN f = DOMAIN requests \cup {p} /\ ByPartition(f)
         /\ IsRequestOf(f[p], p, n)
         /\ \A q \in DOMAIN requests \ {p} : f[q] = requests[q]
<1> DEFINE e == topic[p][n]
           v == Json[e.value]
           r == RequestOf(p, e)
           d == [r EXCEPT !.messages = Append(@, v)]
<1>1. /\ taken[p] \in Nat /\ n \in 1..Len(topic[p]) /\ n \in Nat /\ 1 \in 1..Len(topic[p])
      /\ Len(topic[p]) \in Nat
      /\ e.key \in Keys /\ e.schema \in Schemas /\ v \in Payloads
  <2>1. taken[p] \in Nat /\ Len(topic[p]) \in Nat
    BY TopicTyped DEF FileTypeOK
  <2>2. n \in 1..Len(topic[p]) /\ n \in Nat /\ 1 \in 1..Len(topic[p])
    BY <2>1
  <2>3. QED
    BY <2>1, <2>2, TopicTyped
<1>2. /\ r \in Request /\ r.partition = p
      /\ r.key = topic[p][1].key /\ r.schema = topic[p][1].schema
      /\ Len(r.messages) = taken[p]
      /\ \A i \in 1..taken[p] : r.messages[i] = Json[topic[p][i].value]
  <2>1. CASE p \in DOMAIN requests
    <3>1. r = requests[p]
      BY <2>1 DEF RequestOf
    <3>2. r \in Request /\ IsRequestOf(r, p, taken[p])
      BY <2>1, <3>1 DEF FileTypeOK, ByPartition, GatheredOK
    <3>3. QED
      BY <3>2 DEF IsRequestOf
  <2>2. CASE p \notin DOMAIN requests
    <3>1. r = [partition |-> p, key |-> e.key, schema |-> e.schema, messages |-> <<>>]
      BY <2>2 DEF RequestOf
    <3>2. taken[p] = 0 /\ n = 1
      BY <1>1, <2>2 DEF GatheredOK
    <3>3. <<>> \in Seq(Payloads) /\ Len(<<>>) = 0
      BY EmptyFacts
    <3>4. r \in Request
      BY <1>1, <3>1, <3>3 DEF Request
    <3>5. QED
      BY <3>1, <3>2, <3>3, <3>4
  <2>3. QED
    BY <2>1, <2>2
<1> HIDE DEF r, e, v
<1>3. /\ d \in Request /\ d.partition = p
      /\ d.key = topic[p][1].key /\ d.schema = topic[p][1].schema
      /\ d.messages = Append(r.messages, v)
  <2>1. Append(r.messages, v) \in Seq(Payloads)
    BY <1>1, <1>2, RequestTyped, AppendFacts
  <2>2. QED
    BY <1>2, <2>1 DEF Request
<1>4. /\ Len(d.messages) = n
      /\ \A i \in 1..n : d.messages[i] = Json[topic[p][i].value]
  <2>1. PICK m \in Seq(Payloads) : m = r.messages
    BY <1>2, RequestTyped
  <2>2. /\ Len(Append(m, v)) = Len(m) + 1
        /\ \A i \in 1..Len(m) : Append(m, v)[i] = m[i]
        /\ Append(m, v)[Len(m) + 1] = v
    BY <1>1, AppendFacts
  <2>3. \A i \in 1..n : i \in 1..taken[p] \/ i = taken[p] + 1
    BY <1>1
  <2>4. /\ Len(m) = taken[p] /\ n = taken[p] + 1
        /\ \A i \in 1..taken[p] : m[i] = Json[topic[p][i].value]
    BY <1>1, <1>2, <2>1
  <2>5. d.messages = Append(m, v) /\ v = Json[topic[p][n].value]
    BY <1>3, <2>1 DEF e, v
  <2>6. QED
    BY <2>2, <2>3, <2>4, <2>5
<1>5. f = [q \in DOMAIN requests \cup {p} |-> IF q = p THEN d ELSE requests[q]]
  BY DEF With, r, e, v
<1> HIDE DEF d
<1>6. /\ DOMAIN f = DOMAIN requests \cup {p} /\ f[p] = d
      /\ \A q \in DOMAIN requests \ {p} : f[q] = requests[q]
  BY <1>5
<1>7. ByPartition(f)
  <2>1. DOMAIN requests \subseteq TopicPartitions /\ \A q \in DOMAIN requests : requests[q] \in Request
    BY DEF FileTypeOK, ByPartition
  <2>2. QED
    BY <1>3, <1>5, <1>6, <2>1 DEF ByPartition
<1>8. QED
  BY <1>1, <1>3, <1>4, <1>6, <1>7 DEF IsRequestOf

LEMMA WriteKeeps ==
  ASSUME FileIInv, NEW p \in TopicPartitions, Write(p)
  PROVE  FileIInv'
<1> DEFINE n == taken[p] + 1
<1>1. /\ consume = "writing" /\ consume' = "ready"
      /\ taken[p] < Len(topic[p]) /\ requests' = With(p, topic[p][n])
      /\ file' = [state |-> "whole", requests |-> requests']
      /\ taken' = [taken EXCEPT ![p] = n]
      /\ UNCHANGED <<topic, reader, queue, sending, produced, failed>>
  BY DEF Write, produceVars
<1>2. FileTypeOK /\ GatheredOK /\ ReaderOK /\ QueueOK /\ FailsForAReason
  BY DEF FileIInv
<1>3. /\ n \in 1..Len(topic[p])
      /\ DOMAIN requests' = DOMAIN requests \cup {p} /\ ByPartition(requests')
      /\ IsRequestOf(requests'[p], p, n)
      /\ \A q \in DOMAIN requests \ {p} : requests'[q] = requests[q]
  BY <1>1, <1>2, WithFacts, ZenonT(30)
<1>4. /\ taken \in [TopicPartitions -> Nat] /\ taken[p] \in Nat /\ Len(topic[p]) \in Nat
      /\ taken' \in [TopicPartitions -> Nat] /\ taken'[p] = n
      /\ \A q \in TopicPartitions \ {p} : taken'[q] = taken[q]
  BY <1>1, <1>2, TopicTyped DEF FileTypeOK
<1>5. /\ ~reader.open /\ queue = <<>> /\ sending = <<>> /\ ~reader.ended
      /\ reader.partition = 0 /\ failed = "no"
  BY <1>1, <1>2 DEF ReaderOK
<1>6. /\ file'.state = "whole" /\ file'.requests = requests'
      /\ file' \in [state : {"none", "torn", "whole"}, requests : {file'.requests}]
  BY <1>1
<1>7. FileTypeOK'
  BY <1>1, <1>2, <1>3, <1>4, <1>6 DEF FileTypeOK, ByPartition, Request
<1>8. GatheredOK'
  <2>1. ASSUME NEW q \in TopicPartitions
        PROVE  /\ taken'[q] <= Len(topic[q])
               /\ (q \in DOMAIN requests' <=> taken'[q] # 0)
               /\ (q \in DOMAIN requests' => IsRequestOf(requests'[q], q, taken'[q]))
    <3>1. CASE q = p
      BY <1>3, <1>4, <3>1
    <3>2. CASE q # p
      BY <1>2, <1>3, <1>4, <3>2 DEF GatheredOK
    <3>3. QED
      BY <3>1, <3>2
  <2>2. ASSUME NEW q \in TopicPartitions, IsRequestOf(requests'[q], q, taken'[q])
        PROVE  IsRequestOf(requests[q], q, taken[q])'
    BY <1>1, <2>2 DEF IsRequestOf
  <2>3. topic' = topic
    BY <1>1
  <2>4. QED
    BY <1>6, <2>1, <2>2, <2>3 DEF GatheredOK
<1>9. ReaderOK'
  BY <1>1, <1>5 DEF ReaderOK
<1>10. QueueOK'
  <2>1. /\ Len(queue) = 0 /\ Len(sending) = 0 /\ Waiting = 0 /\ Unsent = 0
        /\ Waiting' = 0 /\ Unsent' = 0
    <3>1. Waiting' = Waiting /\ Unsent' = Unsent
      BY <1>1 DEF Waiting, Unsent
    <3>2. QED
      BY <1>5, <3>1, NothingWaits
  <2>2. \A q \in TopicPartitions : ~(q < 0)
    BY TopicPartitionsAssumption
  <2>3. QED
    BY <1>1, <1>2, <1>5, <2>1, <2>2 DEF QueueOK
<1>11. FailsForAReason'
  BY <1>1, <1>5 DEF FailsForAReason
<1>12. QED
  BY <1>7, <1>8, <1>9, <1>10, <1>11 DEF FileIInv

(* The file is emptied, or kac consume is over: nothing is read yet.       *)
LEMMA ConsumeKeeps ==
  ASSUME FileIInv, Empty \/ Stop
  PROVE  FileIInv'
<1>1. /\ UNCHANGED <<topic, taken, requests, reader, queue, sending, produced, failed>>
      /\ \/ /\ consume = "ready" /\ consume' = "writing"
            /\ file' = [state |-> "torn", requests |-> <<>>]
         \/ consume # "over" /\ consume' = "over" /\ file' = file
  BY DEF Empty, Stop, produceVars
<1>2. FileTypeOK /\ GatheredOK /\ ReaderOK /\ QueueOK /\ FailsForAReason
  BY DEF FileIInv
<1>3. /\ ~reader.open /\ queue = <<>> /\ sending = <<>> /\ ~reader.ended
      /\ reader.partition = 0 /\ failed = "no"
  BY <1>1, <1>2 DEF ReaderOK
<1>4. ByPartition(<<>>)
  BY EmptyRequests
<1>5. FileTypeOK'
  <2>1. /\ file' \in [state : {"none", "torn", "whole"}, requests : {file'.requests}]
        /\ ByPartition(file'.requests)
    <3>1. CASE file' = [state |-> "torn", requests |-> <<>>]
      <4>1. file'.requests = <<>>
        BY <3>1
      <4>2. QED
        BY <1>4, <3>1, <4>1
    <3>2. CASE file' = file
      BY <1>2, <3>2 DEF FileTypeOK
    <3>3. QED
      BY <1>1, <3>1, <3>2
  <2>2. consume' \in {"ready", "writing", "over"}
    BY <1>1
  <2>3. ByPartition(file.requests)' <=> ByPartition(file'.requests)
    BY DEF ByPartition, Request
  <2>4. ByPartition(requests)' /\ ByPartition(reader.requests)'
    BY <1>1, <1>2 DEF FileTypeOK, ByPartition, Request
  <2>5. QED
    BY <1>1, <1>2, <2>1, <2>2, <2>3, <2>4 DEF FileTypeOK, Request
<1>6. GatheredOK'
  BY <1>1, <1>2 DEF GatheredOK, IsRequestOf
<1>7. ReaderOK'
  BY <1>1, <1>3 DEF ReaderOK
<1>8. QueueOK'
  <2>1. Len(queue) = 0 /\ Len(sending) = 0 /\ Waiting = 0 /\ Unsent = 0
    BY <1>3, NothingWaits
  <2>2. Waiting' = 0 /\ Unsent' = 0 /\ Len(queue') = 0 /\ Len(sending') = 0
    BY <1>1, <1>3, <2>1 DEF Waiting, Unsent
  <2>3. \A q \in TopicPartitions : ~(q < 0)
    BY TopicPartitionsAssumption
  <2>4. QED
    BY <1>1, <1>2, <1>3, <2>1, <2>2, <2>3 DEF QueueOK
<1>9. FailsForAReason'
  BY <1>1, <1>3 DEF FailsForAReason
<1>10. QED
  BY <1>5, <1>6, <1>7, <1>8, <1>9 DEF FileIInv

(* FileReadable: the file is read, and its requests in their order.        *)
LEMMA OpenKeeps ==
  ASSUME FileIInv, Open
  PROVE  FileIInv'
<1>1. /\ consume = "over" /\ ~reader.open
      /\ reader' = [reader EXCEPT !.open = TRUE, !.requests = file.requests]
      /\ failed' = IF file.state = "whole" THEN "no" ELSE "unread"
      /\ UNCHANGED <<topic, taken, requests, file, consume, queue, sending, produced>>
  BY DEF Open, consumeVars
<1>2. FileTypeOK /\ GatheredOK /\ ReaderOK /\ QueueOK /\ FailsForAReason
  BY DEF FileIInv
<1>3. /\ reader'.open = TRUE /\ reader'.requests = file.requests
      /\ reader'.partition = reader.partition /\ reader'.ended = reader.ended
      /\ reader' \in [open : BOOLEAN, requests : {reader'.requests}, partition : Nat, ended : BOOLEAN]
  BY <1>1, <1>2 DEF FileTypeOK
<1>4. FileTypeOK'
  BY <1>1, <1>2, <1>3 DEF FileTypeOK, ByPartition
<1>5. GatheredOK'
  BY <1>1, <1>2 DEF GatheredOK, IsRequestOf
<1>6. ReaderOK'
  BY <1>1, <1>2, <1>3 DEF ReaderOK
<1>7. QueueOK'
  <2>1. failed = "no"
    BY <1>1, <1>2 DEF ReaderOK
  <2>2. QED
    BY <1>1, <1>2, <1>3, <2>1 DEF QueueOK, Waiting, Unsent, EventsIn
<1>8. FailsForAReason'
  <2>1. CASE file.state = "whole"
    BY <1>1, <2>1 DEF FailsForAReason
  <2>2. CASE file.state = "torn"
    BY <1>1, <2>2 DEF FailsForAReason
  <2>3. CASE file.state = "none"
    <3>1. requests = <<>>
      BY <1>2, <2>3 DEF GatheredOK
    <3>2. \A p \in TopicPartitions : taken[p] = 0
      BY <1>2, <3>1, EmptyFacts DEF GatheredOK
    <3>3. QED
      BY <1>1, <2>3, <3>2 DEF FailsForAReason
  <2>4. QED
    BY <1>2, <2>1, <2>2, <2>3 DEF FileTypeOK
<1>9. QED
  BY <1>4, <1>5, <1>6, <1>7, <1>8 DEF FileIInv

LEMMA ReadKeeps ==
  ASSUME FileIInv, Read
  PROVE  FileIInv'
<1> DEFINE k == reader.partition
<1>1. /\ reader.open /\ ~reader.ended
      /\ UNCHANGED <<topic, taken, requests, file, consume, sending, produced, failed>>
  BY DEF Read, consumeVars
<1>2. /\ FileTypeOK /\ GatheredOK /\ ReaderOK /\ QueueOK /\ FailsForAReason
      /\ reader.requests = file.requests /\ k \in Nat
      /\ queue \in Seq(Request) /\ Len(queue) \in Nat
      /\ sending \in Seq(Request) /\ Len(sending) \in Nat
  BY <1>1, SeqFacts DEF FileIInv, ReaderOK, FileTypeOK
<1>3. GatheredOK' /\ FailsForAReason'
  BY <1>1, <1>2 DEF GatheredOK, IsRequestOf, FailsForAReason, OneSchema
<1>4. CASE k \in DOMAIN file.requests
  <2>1. /\ queue' = Append(queue, file.requests[k]) /\ reader' = [reader EXCEPT !.partition = k + 1]
    BY <1>2, <1>4 DEF Read
  <2>2. /\ reader'.open = reader.open /\ reader'.requests = reader.requests
        /\ reader'.partition = k + 1 /\ reader'.ended = reader.ended
        /\ reader' \in [open : BOOLEAN, requests : {reader'.requests}, partition : Nat, ended : BOOLEAN]
    <3>1. /\ reader \in [open : BOOLEAN, requests : {reader.requests}, partition : Nat, ended : BOOLEAN]
          /\ k + 1 \in Nat
      BY <1>2 DEF FileTypeOK
    <3>2. reader' \in [open : BOOLEAN, requests : {reader.requests}, partition : Nat, ended : BOOLEAN]
      BY <2>1, <3>1
    <3>3. /\ reader'.open = reader.open /\ reader'.requests = reader.requests
          /\ reader'.partition = k + 1 /\ reader'.ended = reader.ended
      BY <2>1, <3>1
    <3>4. QED
      BY <3>2, <3>3
  <2>3. file.requests[k] \in Request
    BY <1>2, <1>4 DEF FileTypeOK, ByPartition
  <2>4. /\ queue' \in Seq(Request) /\ Len(queue') = Len(queue) + 1
        /\ \A i \in 1..Len(queue) : queue'[i] = queue[i]
        /\ queue'[Len(queue) + 1] = file.requests[k]
    BY <1>2, <2>1, <2>3, AppendFacts
  <2>5. FileTypeOK'
    BY <1>1, <1>2, <2>2, <2>4 DEF FileTypeOK, ByPartition
  <2>6. ReaderOK'
    BY <1>1, <1>2, <1>4, <2>2 DEF ReaderOK
  <2>7. QueueOK'
    <3>1. Waiting' = Waiting /\ Unsent' = Unsent /\ Waiting \in Int
      BY <1>1, <1>2, <2>2, <2>4 DEF Waiting, Unsent
    <3>2. Len(queue') + Len(sending') <= reader'.partition
      BY <1>1, <1>2, <2>2, <2>4 DEF QueueOK
    <3>3. Waiting + (Len(queue) + 1) - 1 = k
      BY <1>2 DEF Waiting
    <3>4. \A i \in 1..Len(queue') : queue'[i] = file.requests[Waiting + i - 1]
      <4>1. \A i \in 1..Len(queue') : i \in 1..Len(queue) \/ i = Len(queue) + 1
        BY <1>2, <2>4
      <4>2. QED
        BY <1>2, <2>4, <3>3, <4>1 DEF QueueOK
    <3>5. QED
      BY <1>1, <1>2, <3>1, <3>2, <3>4 DEF QueueOK, EventsIn
  <2>8. QED
    BY <1>3, <2>5, <2>6, <2>7 DEF FileIInv
<1>5. CASE k \notin DOMAIN file.requests
  <2>1. queue' = queue /\ reader' = [reader EXCEPT !.ended = TRUE]
    BY <1>2, <1>5 DEF Read
  <2>2. /\ reader'.open = reader.open /\ reader'.requests = reader.requests
        /\ reader'.partition = k /\ reader'.ended = TRUE
        /\ reader' \in [open : BOOLEAN, requests : {reader'.requests}, partition : Nat, ended : BOOLEAN]
    <3>1. reader \in [open : BOOLEAN, requests : {reader.requests}, partition : Nat, ended : BOOLEAN]
      BY <1>2 DEF FileTypeOK
    <3>2. reader' \in [open : BOOLEAN, requests : {reader.requests}, partition : Nat, ended : BOOLEAN]
      BY <2>1, <3>1
    <3>3. /\ reader'.open = reader.open /\ reader'.requests = reader.requests
          /\ reader'.partition = k /\ reader'.ended = TRUE
      BY <2>1, <3>1
    <3>4. QED
      BY <3>2, <3>3
  <2>3. FileTypeOK'
    BY <1>1, <1>2, <2>1, <2>2 DEF FileTypeOK, ByPartition
  <2>4. ReaderOK'
    BY <1>1, <1>2, <1>5, <2>2 DEF ReaderOK
  <2>5. QueueOK'
    BY <1>1, <1>2, <2>1, <2>2 DEF QueueOK, Waiting, Unsent, EventsIn
  <2>6. QED
    BY <1>3, <2>3, <2>4, <2>5 DEF FileIInv
<1>6. QED
  BY <1>4, <1>5

(* A request that its schema does not encode has events of several, or a   *)
(* value that JSON changed.                                                *)
LEMMA UnfitTopic ==
  ASSUME FileTypeOK, NEW p \in TopicPartitions, NEW r \in Request, NEW n,
         IsRequestOf(r, p, n), ~Fits(r)
  PROVE  ~OneSchema(topic[p]) \/ \E i \in 1..Len(topic[p]) : Json[topic[p][i].value] # topic[p][i].value
<1>1. /\ Len(topic[p]) \in Nat /\ n \in 1..Len(topic[p]) /\ Len(r.messages) = n
      /\ r.schema = topic[p][1].schema
      /\ \A i \in 1..n : r.messages[i] = Json[topic[p][i].value]
  BY TopicTyped DEF IsRequestOf
<1>2. PICK i \in 1..n : <<r.schema, r.messages[i]>> \notin Encodes
  BY <1>1 DEF Fits
<1>3. i \in 1..Len(topic[p]) /\ 1 \in 1..Len(topic[p])
  BY <1>1
<1>4. <<topic[p][i].schema, topic[p][i].value>> \in Encodes
  BY <1>3, TopicTyped
<1>5. QED
  BY <1>1, <1>2, <1>3, <1>4 DEF OneSchema

(* AvroSerializer: the first request that waits goes on, or fails.         *)
LEMMA SerializeKeeps ==
  ASSUME FileIInv, Serialize
  PROVE  FileIInv'
<1> DEFINE r == Head(queue)
           w == Waiting
<1>1. /\ queue # <<>> /\ failed = "no"
      /\ UNCHANGED <<topic, taken, requests, file, consume, reader, produced>>
      /\ \/ queue' = Tail(queue) /\ sending' = Append(sending, r) /\ failed' = "no"
         \/ ~Fits(r) /\ failed' = "unencodable" /\ queue' = queue /\ sending' = sending
         \/ failed' = "unregistered" /\ queue' = queue /\ sending' = sending
  BY DEF Serialize, consumeVars
<1>2. FileTypeOK /\ GatheredOK /\ ReaderOK /\ QueueOK /\ FailsForAReason
  BY DEF FileIInv
<1>3. /\ queue \in Seq(Request) /\ Len(queue) \in Nat /\ 1 \in 1..Len(queue)
      /\ sending \in Seq(Request) /\ Len(sending) \in Nat
      /\ r = queue[1]
      /\ Tail(queue) \in Seq(Request) /\ Len(Tail(queue)) = Len(queue) - 1
      /\ \A i \in 1..(Len(queue) - 1) : Tail(queue)[i] = queue[i + 1]
  <2>1. queue \in Seq(Request) /\ sending \in Seq(Request)
    BY <1>2 DEF FileTypeOK
  <2>2. Len(sending) \in Nat
    BY <2>1, SeqFacts
  <2>3. /\ Head(queue) = queue[1] /\ 1 \in 1..Len(queue) /\ Len(queue) \in Nat
        /\ Tail(queue) \in Seq(Request) /\ Len(Tail(queue)) = Len(queue) - 1
        /\ \A i \in 1..(Len(queue) - 1) : Tail(queue)[i] = queue[i + 1]
    BY <1>1, <2>1, TailFacts
  <2>4. QED
    BY <2>1, <2>2, <2>3, Zenon
<1>4. /\ w \in Nat /\ w + 1 - 1 = w /\ w \in 0..(reader.partition - 1)
      /\ reader.partition \in Nat /\ w = reader.partition - Len(queue)
      /\ Unsent = w - Len(sending) /\ Unsent \in Nat
  <2>1. reader.partition \in Nat /\ Len(queue) + Len(sending) <= reader.partition
    BY <1>2 DEF FileTypeOK, QueueOK
  <2>2. QED
    BY <1>3, <2>1 DEF Waiting, Unsent
<1>5. /\ r = file.requests[w] /\ w \in DOMAIN file.requests /\ w \in TopicPartitions /\ r \in Request
  <2>1. r = file.requests[w]
    BY <1>2, <1>3, <1>4 DEF QueueOK
  <2>2. QED
    BY <1>2, <1>4, <2>1 DEF ReaderOK, FileTypeOK, ByPartition
<1> HIDE DEF r, w
<1>6. GatheredOK'
  BY <1>1, <1>2 DEF GatheredOK, IsRequestOf
<1>7. reader.open /\ file.state = "whole"
  BY <1>1, <1>2 DEF ReaderOK
<1>8. ReaderOK'
  BY <1>1, <1>2, <1>7 DEF ReaderOK
<1>9. CASE queue' = Tail(queue) /\ sending' = Append(sending, r) /\ failed' = "no"
  <2>1. /\ sending' \in Seq(Request) /\ Len(sending') = Len(sending) + 1
        /\ \A i \in 1..Len(sending) : sending'[i] = sending[i]
        /\ sending'[Len(sending) + 1] = r
    BY <1>3, <1>5, <1>9, AppendFacts
  <2>2. FileTypeOK'
    BY <1>1, <1>2, <1>3, <1>9, <2>1 DEF FileTypeOK, ByPartition
  <2>3. Waiting' = w + 1 /\ Unsent' = Unsent
    <3>1. /\ Waiting' = reader.partition - (Len(queue) - 1)
          /\ Unsent' = reader.partition - (Len(queue) - 1) - (Len(sending) + 1)
      BY <1>1, <1>3, <1>9, <2>1 DEF Waiting, Unsent
    <3>2. /\ reader.partition - (Len(queue) - 1) = w + 1
          /\ reader.partition - (Len(queue) - 1) - (Len(sending) + 1) = w - Len(sending)
      <4>1. PICK a, b, c \in Nat : a = reader.partition /\ b = Len(queue) /\ c = Len(sending)
        BY <1>3, <1>4, Zenon
      <4>2. w = a - b
        BY <1>4, <4>1, Zenon
      <4>3. a - (b - 1) = a - b + 1 /\ a - (b - 1) - (c + 1) = a - b - c
        OBVIOUS
      <4>4. a - b + 1 = w + 1 /\ a - b - c = w - c
        BY <4>2, Zenon
      <4>5. a - (b - 1) = w + 1 /\ a - (b - 1) - (c + 1) = w - c
        BY <4>3, <4>4, Zenon
      <4>6. QED
        BY <4>1, <4>5, Zenon
    <3>3. QED
      BY <1>4, <3>1, <3>2, Zenon
  <2>4. \A i \in 1..Len(queue') : queue'[i] = file.requests[w + 1 + i - 1]
    <3>1. \A i \in 1..(Len(queue) - 1) :
            i + 1 \in 1..Len(queue) /\ w + (i + 1) - 1 = w + 1 + i - 1
      BY <1>3, <1>4
    <3>2. QED
      BY <1>2, <1>3, <1>9, <3>1 DEF QueueOK, w
  <2>5. \A i \in 1..Len(sending') : sending'[i] = file.requests[Unsent + i - 1]
    <3>1. \A i \in 1..Len(sending') : i \in 1..Len(sending) \/ i = Len(sending) + 1
      BY <1>3, <2>1
    <3>2. Unsent + (Len(sending) + 1) - 1 = w
      BY <1>3, <1>4
    <3>3. QED
      BY <1>2, <1>5, <2>1, <3>1, <3>2 DEF QueueOK
  <2>6. Len(queue') + Len(sending') <= reader.partition
    BY <1>2, <1>3, <1>4, <1>9, <2>1 DEF QueueOK
  <2>7. QueueOK'
    BY <1>1, <1>2, <1>9, <2>3, <2>4, <2>5, <2>6 DEF QueueOK, EventsIn
  <2>8. FailsForAReason'
    BY <1>1, <1>9 DEF FailsForAReason
  <2>9. QED
    BY <1>6, <1>8, <2>2, <2>7, <2>8 DEF FileIInv
<1>10. CASE failed' \in {"unencodable", "unregistered"} /\ queue' = queue /\ sending' = sending
  <2>1. FileTypeOK' /\ QueueOK'
    BY <1>1, <1>2, <1>10 DEF FileTypeOK, ByPartition, QueueOK, EventsIn, Waiting, Unsent
  <2>2. FailsForAReason'
    <3>1. CASE failed' = "unregistered"
      BY <3>1 DEF FailsForAReason
    <3>2. CASE failed' = "unencodable"
      <4>1. ~Fits(r)
        BY <1>1, <3>2
      <4>2. IsRequestOf(r, w, taken[w])
        BY <1>2, <1>5, <1>7 DEF GatheredOK
      <4>3. ~OneSchema(topic[w]) \/ \E i \in 1..Len(topic[w]) : Json[topic[w][i].value] # topic[w][i].value
        BY <1>2, <1>5, <4>1, <4>2, UnfitTopic
      <4>4. QED
        BY <1>1, <1>5, <3>2, <4>3 DEF FailsForAReason, OneSchema
    <3>3. QED
      BY <1>10, <3>1, <3>2
  <2>3. QED
    BY <1>6, <1>8, <2>1, <2>2 DEF FileIInv
<1>11. QED
  BY <1>1, <1>9, <1>10

(* The producer: the events of the first request it holds go out, or an    *)
(* error is reported of them.                                              *)
LEMMA SendKeeps ==
  ASSUME FileIInv, Send
  PROVE  FileIInv'
<1> DEFINE r == Head(sending)
           u == Unsent
           sent == [produced EXCEPT ![r.partition] = @ \o EventsIn(r)]
<1>1. /\ sending # <<>> /\ failed # "unsent" /\ sending' = Tail(sending)
      /\ UNCHANGED <<topic, taken, requests, file, consume, reader, queue>>
      /\ \/ produced' = sent /\ failed' = failed
         \/ produced' \in {produced, sent} /\ failed' = "unsent"
  BY DEF Send, consumeVars
<1>2. FileTypeOK /\ GatheredOK /\ ReaderOK /\ QueueOK /\ FailsForAReason
  BY DEF FileIInv
<1>3. /\ sending \in Seq(Request) /\ Len(sending) \in Nat /\ 1 \in 1..Len(sending)
      /\ queue \in Seq(Request) /\ Len(queue) \in Nat
      /\ r = sending[1]
      /\ Tail(sending) \in Seq(Request) /\ Len(Tail(sending)) = Len(sending) - 1
      /\ \A i \in 1..(Len(sending) - 1) : Tail(sending)[i] = sending[i + 1]
  <2>1. queue \in Seq(Request) /\ sending \in Seq(Request)
    BY <1>2 DEF FileTypeOK
  <2>2. Len(queue) \in Nat
    BY <2>1, SeqFacts
  <2>3. /\ Head(sending) = sending[1] /\ 1 \in 1..Len(sending) /\ Len(sending) \in Nat
        /\ Tail(sending) \in Seq(Request) /\ Len(Tail(sending)) = Len(sending) - 1
        /\ \A i \in 1..(Len(sending) - 1) : Tail(sending)[i] = sending[i + 1]
    BY <1>1, <2>1, TailFacts
  <2>4. QED
    BY <2>1, <2>2, <2>3, Zenon
<1>4. /\ u \in Nat /\ u + 1 - 1 = u /\ u \in 0..(reader.partition - 1)
      /\ reader.partition \in Nat /\ u = Waiting - Len(sending) /\ Waiting \in Nat
  <2>1. reader.partition \in Nat /\ Len(queue) + Len(sending) <= reader.partition
    BY <1>2 DEF FileTypeOK, QueueOK
  <2>2. QED
    BY <1>3, <2>1 DEF Waiting, Unsent
<1>5. /\ r = file.requests[u] /\ u \in DOMAIN file.requests /\ u \in TopicPartitions /\ r \in Request
      /\ IsRequestOf(r, u, taken[u])
  <2>1. r = file.requests[u]
    BY <1>2, <1>3, <1>4 DEF QueueOK
  <2>2. u \in DOMAIN file.requests /\ u \in TopicPartitions /\ r \in Request
    BY <1>2, <1>4, <2>1 DEF ReaderOK, FileTypeOK, ByPartition
  <2>3. file.requests = requests
    <3>1. file.requests # <<>>
      BY <2>2, EmptyFacts
    <3>2. QED
      BY <1>2, <3>1 DEF GatheredOK
  <2>4. QED
    BY <1>2, <2>1, <2>2, <2>3 DEF GatheredOK
<1>6. produced[u] = <<>> /\ produced \in [TopicPartitions -> Seq(Event)]
  BY <1>2, <1>4, <1>5 DEF QueueOK, FileTypeOK
<1> HIDE DEF r, u
<1>7. /\ sent \in [TopicPartitions -> Seq(Event)] /\ sent[u] = EventsIn(r)
      /\ \A p \in TopicPartitions \ {u} : sent[p] = produced[p]
  <2>1. r.partition = u /\ EventsIn(r) \in Seq(Event)
    BY <1>5, RequestTyped DEF IsRequestOf
  <2>2. <<>> \o EventsIn(r) = EventsIn(r)
    BY <2>1, EmptyFacts
  <2>3. QED
    BY <1>5, <1>6, <2>1, <2>2
<1> HIDE DEF sent
<1>8. GatheredOK'
  BY <1>1, <1>2 DEF GatheredOK, IsRequestOf
<1>9. reader.open
  BY <1>1, <1>2 DEF ReaderOK
<1>10. ReaderOK'
  BY <1>1, <1>2, <1>9 DEF ReaderOK
<1>11. FileTypeOK'
  BY <1>1, <1>2, <1>3, <1>6, <1>7 DEF FileTypeOK, ByPartition
<1>12. Waiting' = Waiting /\ Unsent' = u + 1 /\ Len(queue') + Len(sending') <= reader'.partition
  <2>1. Waiting' = Waiting /\ Unsent' = Waiting - (Len(sending) - 1)
    BY <1>1, <1>3 DEF Waiting, Unsent
  <2>2. Len(queue) + Len(sending) <= reader.partition
    BY <1>2 DEF QueueOK
  <2>3. QED
    BY <1>1, <1>3, <1>4, <2>1, <2>2
<1>13. \A i \in 1..Len(sending') : sending'[i] = file.requests[u + 1 + i - 1]
  <2>1. \A i \in 1..(Len(sending) - 1) :
          i + 1 \in 1..Len(sending) /\ u + (i + 1) - 1 = u + 1 + i - 1
    BY <1>3, <1>4
  <2>2. QED
    BY <1>1, <1>2, <1>3, <2>1 DEF QueueOK, u
<1>14. \A p \in TopicPartitions :
         IF p < u + 1
         THEN \/ produced'[p] = EventsIn(file.requests[p])
              \/ (produced'[p] = <<>> /\ failed' = "unsent")
         ELSE produced'[p] = <<>>
  <2>1. u < u + 1 /\ \A p \in TopicPartitions \ {u} : p < u + 1 <=> p < u
    BY <1>4, TopicPartitionsAssumption
  <2>2. \A p \in TopicPartitions \ {u} :
          produced[p] = IF p < u THEN EventsIn(file.requests[p]) ELSE <<>>
    BY <1>1, <1>2 DEF QueueOK, u
  <2>3. \A p \in TopicPartitions \ {u} : produced'[p] = produced[p]
    BY <1>1, <1>7
  <2>4. \/ produced'[u] = EventsIn(file.requests[u])
        \/ (produced'[u] = <<>> /\ failed' = "unsent")
    <3>1. CASE produced' = sent
      BY <1>5, <1>7, <3>1
    <3>2. CASE produced' = produced /\ failed' = "unsent"
      BY <1>6, <3>2
    <3>3. QED
      BY <1>1, <3>1, <3>2
  <2>5. QED
    BY <1>5, <2>1, <2>2, <2>3, <2>4
<1>15. QueueOK'
  BY <1>1, <1>2, <1>12, <1>13, <1>14 DEF QueueOK, EventsIn
<1>16. FailsForAReason'
  BY <1>1, <1>2 DEF FailsForAReason, OneSchema
<1>17. QED
  BY <1>8, <1>10, <1>11, <1>15, <1>16 DEF FileIInv

-----------------------------------------------------------------------------
LEMMA FileStarts == FileInit => FileIInv
<1> SUFFICES ASSUME FileInit PROVE FileIInv
  OBVIOUS
<1>1. /\ topic \in Topics /\ taken = [p \in TopicPartitions |-> 0]
      /\ requests = <<>> /\ file = [state |-> "none", requests |-> <<>>]
      /\ consume = "ready" /\ queue = <<>> /\ sending = <<>>
      /\ reader = [open |-> FALSE, requests |-> <<>>, partition |-> 0, ended |-> FALSE]
      /\ produced = [p \in TopicPartitions |-> <<>>] /\ failed = "no"
  BY DEF FileInit
<1>2. /\ <<>> \in Seq(Request) /\ <<>> \in Seq(Event) /\ Len(<<>>) = 0 /\ DOMAIN <<>> = {}
  OBVIOUS
<1>3. FileTypeOK
  <2>1. produced \in [TopicPartitions -> Seq(Event)] /\ taken \in [TopicPartitions -> Nat]
    BY <1>1, <1>2
  <2>2. /\ reader.requests = <<>> /\ file.requests = <<>>
        /\ reader \in [open : BOOLEAN, requests : {<<>>}, partition : Nat, ended : BOOLEAN]
        /\ file \in [state : {"none", "torn", "whole"}, requests : {<<>>}]
    BY <1>1
  <2>3. QED
    BY <1>1, <1>2, EmptyRequests, <2>1, <2>2 DEF FileTypeOK
<1>4. GatheredOK
  <2>1. \A p \in TopicPartitions : 0 <= Len(topic[p])
    BY <1>3, TopicTyped
  <2>2. QED
    BY <1>1, <1>2, <2>1 DEF GatheredOK
<1>5. ReaderOK /\ FailsForAReason
  BY <1>1 DEF ReaderOK, FailsForAReason
<1>6. QueueOK
  <2>1. Len(queue) = 0 /\ Len(sending) = 0 /\ reader.partition = 0
    BY <1>1
  <2>2. Waiting = 0 /\ Unsent = 0
    BY <2>1 DEF Waiting, Unsent
  <2>3. \A p \in TopicPartitions : ~(p < 0)
    BY TopicPartitionsAssumption
  <2>4. QED
    BY <1>1, <2>1, <2>2, <2>3 DEF QueueOK
<1>7. QED
  BY <1>3, <1>4, <1>5, <1>6 DEF FileIInv

LEMMA FileNextKeeps ==
  ASSUME FileIInv, [FileNext]_fileVars
  PROVE  FileIInv'
<1>1. ASSUME NEW p \in TopicPartitions, Write(p) PROVE FileIInv'
  BY <1>1, WriteKeeps
<1>2. CASE Empty \/ Stop
  BY <1>2, ConsumeKeeps
<1>3. CASE Open
  BY <1>3, OpenKeeps
<1>4. CASE Read
  BY <1>4, ReadKeeps
<1>5. CASE Serialize
  BY <1>5, SerializeKeeps
<1>6. CASE Send
  BY <1>6, SendKeeps
<1>7. CASE UNCHANGED fileVars
  BY <1>7 DEF fileVars, FileIInv, FileTypeOK, ByPartition, GatheredOK, IsRequestOf, ReaderOK,
              QueueOK, EventsIn, Waiting, Unsent, FailsForAReason, OneSchema
<1>8. QED
  BY <1>1, <1>2, <1>3, <1>4, <1>5, <1>6, <1>7 DEF FileNext

(* FileIInv is an invariant: but for the writing of it the file has a      *)
(* request for each partition met, and they are read, encoded and produced *)
(* in the order of their partitions.                                       *)
THEOREM FileInductive == FileSpec => []FileIInv
<1>1. FileInit => FileIInv
  BY FileStarts
<1>2. FileIInv /\ [FileNext]_fileVars => FileIInv'
  BY FileNextKeeps
<1>3. QED
  BY <1>1, <1>2, PTL DEF FileSpec

(* FileWritable._write() asks for the next event when the file holds all   *)
(* those before: an interrupted command has lost none of them, unless the  *)
(* interruption fell inside the writing of the file.                       *)
THEOREM FileHolds == FileSpec => []FileHoldsConsumed
<1>1. FileIInv => FileHoldsConsumed
  <2>1. SUFFICES ASSUME FileIInv, file.state # "torn", NEW p \in TopicPartitions,
                        p \in DOMAIN file.requests
                 PROVE  /\ file.state = "whole"
                        /\ file.requests[p].messages = Kept(p, taken[p])
    BY DEF FileIInv, GatheredOK, FileHoldsConsumed
  <2>2. FileTypeOK /\ GatheredOK /\ file.requests = requests
    BY <2>1 DEF FileIInv, GatheredOK
  <2>3. /\ requests[p] \in Request /\ IsRequestOf(requests[p], p, taken[p])
        /\ taken[p] \in 0..Len(topic[p])
    <3>1. requests[p] \in Request /\ IsRequestOf(requests[p], p, taken[p])
      BY <2>1, <2>2 DEF FileTypeOK, ByPartition, GatheredOK
    <3>2. taken[p] \in Nat /\ taken[p] <= Len(topic[p]) /\ Len(topic[p]) \in Nat
      BY <2>2, TopicTyped DEF FileTypeOK, GatheredOK
    <3>3. QED
      BY <3>1, <3>2
  <2>4. requests[p].messages = Kept(p, taken[p])
    BY <2>2, <2>3, RequestTyped, KeptIs DEF IsRequestOf
  <2>5. file.state = "whole"
    BY <2>1, <2>2, EmptyFacts DEF GatheredOK
  <2>6. QED
    BY <2>2, <2>4, <2>5
<1>2. QED
  BY <1>1, FileInductive, PTL

(* What is sent of a partition: the values taken of it, with the key and   *)
(* the schema of the first event.                                          *)
LEMMA SentIs ==
  ASSUME FileIInv, NEW p \in TopicPartitions, p < Unsent,
         produced[p] = EventsIn(file.requests[p])
  PROVE  /\ Values(produced[p]) = Kept(p, taken[p])
         /\ taken[p] \in 1..Len(topic[p]) /\ Len(produced[p]) = taken[p]
         /\ \A i \in 1..taken[p] : /\ produced[p][i].key = topic[p][1].key
                                   /\ produced[p][i].schema = topic[p][1].schema
<1>1. FileTypeOK /\ GatheredOK /\ ReaderOK /\ QueueOK
  BY DEF FileIInv
<1>2. p \in 0..(reader.partition - 1)
  <2>1. /\ p \in Nat /\ reader.partition \in Nat
        /\ queue \in Seq(Request) /\ sending \in Seq(Request)
    BY <1>1, TopicTyped DEF FileTypeOK
  <2>2. Len(queue) \in Nat /\ Len(sending) \in Nat
    BY <2>1, SeqFacts
  <2>3. QED
    BY <2>1, <2>2 DEF Waiting, Unsent
<1>3. p \in DOMAIN file.requests /\ file.requests = requests
  <2>1. p \in DOMAIN file.requests
    BY <1>1, <1>2 DEF ReaderOK
  <2>2. QED
    BY <1>1, <2>1, EmptyFacts DEF GatheredOK
<1> DEFINE r == file.requests[p]
           n == taken[p]
<1>4. r \in Request /\ IsRequestOf(r, p, n)
  BY <1>1, <1>3 DEF FileTypeOK, ByPartition, GatheredOK
<1> HIDE DEF r
<1>5. /\ n \in 1..Len(topic[p]) /\ Len(topic[p]) \in Nat /\ Len(r.messages) = n
      /\ r.key = topic[p][1].key /\ r.schema = topic[p][1].schema
      /\ \A i \in 1..n : r.messages[i] = Json[topic[p][i].value]
  BY <1>1, <1>4, TopicTyped DEF IsRequestOf
<1>6. produced[p] = [i \in 1..n |-> [key |-> r.key, schema |-> r.schema, value |-> r.messages[i]]]
  BY <1>5 DEF EventsIn, r
<1>7. /\ Len(produced[p]) = n
      /\ \A i \in 1..n : /\ produced[p][i].key = topic[p][1].key
                         /\ produced[p][i].schema = topic[p][1].schema
                         /\ produced[p][i].value = Json[topic[p][i].value]
  <2>1. n \in Nat
    BY <1>5
  <2>2. Len(produced[p]) = n
    BY <1>6, <2>1
  <2>3. QED
    BY <1>5, <1>6, <2>2
<1>8. Values(produced[p]) = Kept(p, n)
  BY <1>7 DEF Values, Kept
<1>9. QED
  BY <1>5, <1>7, <1>8

(* What "kac produce" sends is what "kac consume" was given: the values of *)
(* each partition in their order, as JSON leaves them, all of those before *)
(* the first empty one unless a stream fails, with the key and the schema  *)
(* they had where a partition has but one; and it fails for a reason.      *)
THEOREM ProducedAgain == FileSpec => []ProducedAsConsumed
<1>1. ASSUME FileIInv, NEW p \in TopicPartitions
      PROVE  \/ produced[p] = <<>>
             \/ p < Unsent /\ produced[p] = EventsIn(file.requests[p])
  BY <1>1 DEF FileIInv, QueueOK
<1>2. ASSUME FileIInv, NEW p \in TopicPartitions
      PROVE  taken[p] \in Nat /\ taken[p] <= Len(topic[p]) /\ Len(topic[p]) \in Nat
  BY <1>2, TopicTyped DEF FileIInv, FileTypeOK, GatheredOK
<1>3. ASSUME FileIInv PROVE ValuesKeepOrder
  <2>1. SUFFICES ASSUME NEW p \in TopicPartitions
                 PROVE  \E n \in 0..taken[p] : Values(produced[p]) = Kept(p, n)
    BY DEF ValuesKeepOrder
  <2>2. 0 \in 0..taken[p] /\ taken[p] \in 0..taken[p]
    BY <1>2, <1>3
  <2>3. CASE produced[p] = <<>>
    <3>1. Values(produced[p]) = Kept(p, 0)
      BY <2>3 DEF Values, Kept
    <3>2. QED
      BY <2>2, <3>1
  <2>4. CASE p < Unsent /\ produced[p] = EventsIn(file.requests[p])
    BY <1>3, <2>2, <2>4, SentIs
  <2>5. QED
    BY <1>1, <1>3, <2>3, <2>4
<1>4. ASSUME FileIInv PROVE KeysAndSchemasKept
  <2>1. SUFFICES ASSUME NEW p \in TopicPartitions, NEW i \in 1..Len(produced[p])
                 PROVE  /\ OneKey(topic[p]) => produced[p][i].key = topic[p][i].key
                        /\ OneSchema(topic[p]) => produced[p][i].schema = topic[p][i].schema
    BY DEF KeysAndSchemasKept
  <2>2. produced[p] # <<>>
    BY <2>1
  <2>3. /\ taken[p] \in 1..Len(topic[p]) /\ i \in 1..taken[p]
        /\ produced[p][i].key = topic[p][1].key /\ produced[p][i].schema = topic[p][1].schema
    BY <1>1, <1>4, <2>1, <2>2, SentIs
  <2>4. i \in 1..Len(topic[p]) /\ 1 \in 1..Len(topic[p])
    BY <1>2, <1>4, <2>3
  <2>5. QED
    BY <2>3, <2>4 DEF OneKey, OneSchema
<1>5. ASSUME FileIInv PROVE EveryEventProduced
  <2>1. SUFFICES ASSUME ProduceEnded, NEW p \in TopicPartitions, \A q \in 0..p : taken[q] # 0
                 PROVE  Values(produced[p]) = Kept(p, taken[p])
    BY DEF EveryEventProduced
  <2>2. Unsent = reader.partition /\ reader.partition \in Nat /\ p \in Nat
    <3>1. Len(queue) = 0 /\ Len(sending) = 0 /\ reader.partition \in Nat /\ p \in Nat
      BY <1>5, <2>1, TopicPartitionsAssumption, EmptyFacts DEF ProduceEnded, FileIInv, FileTypeOK
    <3>2. QED
      BY <3>1 DEF Waiting, Unsent
  <2>3. p < Unsent
    <3>1. SUFFICES ASSUME reader.partition \in 0..p
                   PROVE  FALSE
      BY <2>2
    <3>2. reader.partition \in TopicPartitions
      BY <3>1, TopicPartitionsAssumption
    <3>3. /\ reader.partition \notin DOMAIN file.requests /\ reader.open
          /\ failed = "no"
      BY <1>5, <2>1 DEF ProduceEnded, FileIInv, ReaderOK
    <3>4. file.requests = requests
      BY <1>5, <3>3 DEF FileIInv, ReaderOK, GatheredOK
    <3>5. taken[reader.partition] = 0
      BY <1>5, <3>2, <3>3, <3>4 DEF FileIInv, GatheredOK
    <3>6. QED
      BY <2>1, <3>1, <3>5
  <2>4. produced[p] = EventsIn(file.requests[p])
    BY <1>5, <2>1, <2>3 DEF FileIInv, QueueOK, ProduceEnded
  <2>5. QED
    BY <1>5, <2>3, <2>4, SentIs
<1>6. FileIInv => ProducedAsConsumed
  BY <1>3, <1>4, <1>5 DEF ProducedAsConsumed, FileIInv
<1>7. QED
  BY <1>6, FileInductive, PTL

-----------------------------------------------------------------------------
(* The commands schema, topic and create-topic.                            *)
Versions == ToSet(VersionIds)

VersionsTyped ==
  /\ registered \in Seq(Versions) /\ versions \in Seq(Versions)
  /\ toGo \in Seq(Versions) /\ saved \in Seq(Versions)

(* A handler makes the requests of its command only; create-topic searches *)
(* for nothing.                                                            *)
StepFits ==
  /\ step \in {"subjects", "versions", "schema"} => command.name = "schema"
  /\ step \in {"ready", "metadata", "offsets", "create"} => command.name # "schema"
  /\ step \in {"metadata", "offsets"} => command.name = "topic"
  /\ step = "create" => command.name = "create-topic"
  /\ command.name \in {"schema", "topic", "create-topic"}
  /\ command.name = "create-topic" => command.search = <<>>

(* What was listed is what was saved and what is still to go.              *)
ListedOnce ==
  /\ versions = saved \o toGo
  /\ step = "schema" => toGo # <<>>
  /\ step \in {"subjects", "versions"} => saved = <<>> /\ toGo = <<>>
  /\ command.name = "schema" /\ step = "done" => toGo = <<>>

(* A client is open until it is closed, and only a failure leaves it open. *)
ClientFits ==
  /\ command.name = "schema" <=> client = "none"
  /\ step \in {"done", "crashed"} => client # "open"

CommandIInv ==
  /\ VersionsTyped
  /\ StepFits
  /\ ListedOnce
  /\ ClientFits
  /\ ListedIsReachable

LEMMA HeadOfOne ==
  ASSUME NEW x
  PROVE  Len(<<x>>) = 1 /\ Head(<<x>>) = x
OBVIOUS

(* A name that is listed is the only match of itself.                      *)
LEMMA OnlyMatch ==
  ASSUME NEW i \in DOMAIN Listed, command.search = Listed[i]
  PROVE  command.search # <<>> /\ Len(Matching) = 1 /\ Head(Matching) = Listed[i]
<1>1. command.search # <<>> /\ Contains(Listed, command.search)
  <2>1. PICK s : s = Listed
    OBVIOUS
  <2>2. s \in Seq(ToSet(s)) /\ i \in DOMAIN s
    BY <2>1, ListedAssumption
  <2>3. i \in 1..Len(s)
    BY <2>2
  <2>4. QED
    BY <2>1, <2>3, ListedAssumption DEF Contains
<1>2. Matching = <<command.search>>
  BY <1>1 DEF Matching, filterSearch
<1>3. QED
  BY <1>1, <1>2, HeadOfOne

LEMMA ConcatMoves ==
  ASSUME NEW A, NEW s \in Seq(A), NEW t \in Seq(A), t # <<>>
  PROVE  /\ Head(t) \in A /\ Tail(t) \in Seq(A) /\ Append(s, Head(t)) \in Seq(A)
         /\ s \o t = Append(s, Head(t)) \o Tail(t)
<1>1. /\ Head(t) = t[1] /\ Tail(t) \in Seq(A) /\ Len(t) \in Nat /\ Len(t) >= 1
      /\ Len(Tail(t)) = Len(t) - 1 /\ \A i \in 1..(Len(t) - 1) : Tail(t)[i] = t[i + 1]
  OBVIOUS
<1>2. Head(t) \in A
  BY <1>1
<1>3. /\ Append(s, Head(t)) \in Seq(A) /\ Len(Append(s, Head(t))) = Len(s) + 1
      /\ \A i \in 1..Len(s) : Append(s, Head(t))[i] = s[i]
      /\ Append(s, Head(t))[Len(s) + 1] = Head(t)
  BY <1>2
<1>4. PICK u \in Seq(A) : u = Append(s, Head(t))
  BY <1>3
<1>5. PICK r \in Seq(A) : r = Tail(t)
  BY <1>1
<1>6. /\ s \o t \in Seq(A) /\ Len(s \o t) = Len(s) + Len(t)
      /\ \A i \in 1..(Len(s) + Len(t)) :
           (s \o t)[i] = IF i <= Len(s) THEN s[i] ELSE t[i - Len(s)]
  OBVIOUS
<1>7. /\ u \o r \in Seq(A) /\ Len(u \o r) = Len(u) + Len(r)
      /\ \A i \in 1..(Len(u) + Len(r)) :
           (u \o r)[i] = IF i <= Len(u) THEN u[i] ELSE r[i - Len(u)]
  OBVIOUS
<1>8. Len(s) \in Nat /\ Len(u) = Len(s) + 1 /\ Len(r) = Len(t) - 1
  BY <1>1, <1>3, <1>4, <1>5
<1>9. ASSUME NEW i \in 1..(Len(s) + Len(t)) PROVE (s \o t)[i] = (u \o r)[i]
  <2>1. CASE i <= Len(s)
    BY <1>3, <1>4, <1>6, <1>7, <1>8, <2>1
  <2>2. CASE i = Len(s) + 1
    BY <1>1, <1>3, <1>4, <1>6, <1>7, <1>8, <2>2
  <2>3. CASE i > Len(s) + 1
    <3>1. (u \o r)[i] = r[i - Len(u)] /\ (s \o t)[i] = t[i - Len(s)]
      BY <1>1, <1>6, <1>7, <1>8, <2>3
    <3>2. i - Len(u) \in 1..(Len(t) - 1) /\ (i - Len(u)) + 1 = i - Len(s)
      BY <1>1, <1>8, <2>3
    <3>3. QED
      BY <1>1, <1>5, <3>1, <3>2
  <2>4. QED
    BY <1>1, <1>8, <2>1, <2>2, <2>3
<1>10. s \o t = u \o r
  <2>1. PICK a \in Seq(A), b \in Seq(A) : a = s \o t /\ b = u \o r
    BY <1>6, <1>7
  <2>2. Len(a) = Len(b) /\ Len(a) = Len(s) + Len(t)
    <3>1. \A k, l, m, n \in Nat : k = l + 1 /\ m + 1 = n => k + m = l + n
      OBVIOUS
    <3>2. Len(r) \in Nat /\ Len(r) + 1 = Len(t) /\ Len(s) \in Nat /\ Len(u) \in Nat
      BY <1>1, <1>8
    <3>3. Len(u) + Len(r) = Len(s) + Len(t)
      BY <1>1, <1>8, <3>1, <3>2
    <3>4. QED
      BY <1>6, <1>7, <2>1, <3>3, Zenon
  <2>3. \A i \in 1..Len(a) : a[i] = b[i]
    BY <1>9, <2>1, <2>2
  <2>4. QED
    BY <2>1, <2>2, <2>3, SameSeq
<1>11. QED
  BY <1>1, <1>2, <1>3, <1>4, <1>5, <1>10

LEMMA CommandInit == KacInit => CommandIInv
<1> SUFFICES ASSUME KacInit PROVE CommandIInv
  OBVIOUS
<1>1. VersionIds \in Seq(Versions) /\ <<>> \in Seq(Versions) /\ <<>> \o <<>> = <<>>
  BY VersionIdsAssumption, EmptyFacts DEF Versions
<1>2. VersionsTyped
  BY <1>1 DEF KacInit, VersionsTyped
<1>3. command.name \in {"schema", "topic", "create-topic"}
      /\ (command.name = "create-topic" => command.search = <<>>)
  BY DEF KacInit
<1>4. StepFits
  BY <1>3 DEF KacInit, StepFits
<1>5. ListedOnce
  BY <1>1, <1>3 DEF KacInit, ListedOnce
<1>6. ClientFits
  BY <1>3 DEF KacInit, ClientFits
<1>7. ListedIsReachable
  BY DEF KacInit, ListedIsReachable
<1>8. QED
  BY <1>2, <1>4, <1>5, <1>6, <1>7 DEF CommandIInv

(* A version that is deleted leaves the others.                            *)
LEMMA RemoveTyped ==
  ASSUME NEW A, NEW s \in Seq(A), NEW i \in DOMAIN s
  PROVE  RemoveAt(s, i) \in Seq(A)
<1>1. SubSeq(s, 1, i - 1) \in Seq(A) /\ SubSeq(s, i + 1, Len(s)) \in Seq(A)
  OBVIOUS
<1>2. QED
  BY <1>1 DEF RemoveAt

LEMMA CommandVersionsTyped ==
  ASSUME CommandIInv, [KacNext]_kacVars
  PROVE  VersionsTyped'
<1> USE DEF CommandIInv, VersionsTyped
<1>1. CASE UNCHANGED kacVars
  BY <1>1 DEF kacVars
<1>2. CASE SubjectVersions
  BY <1>2 DEF SubjectVersions
<1>3. CASE VersionSchema
  <2>1. toGo # <<>>
    BY <1>3 DEF VersionSchema, ListedOnce
  <2>2. Tail(toGo) \in Seq(Versions) /\ Append(saved, Head(toGo)) \in Seq(Versions)
    BY <2>1, ConcatMoves
  <2>3. QED
    BY <1>3, <2>2 DEF VersionSchema
<1>4. CASE DeleteVersion
  BY <1>4, RemoveTyped DEF DeleteVersion
<1>5. CASE Subjects \/ SchemaFails \/ Ready \/ Unreachable \/ Metadata \/ Offsets \/ Create \/ KafkaFails
  BY <1>5 DEF Subjects, SchemaFails, Ready, Unreachable, Metadata, Offsets, Create, KafkaFails, GoTo
<1>6. QED
  BY <1>1, <1>2, <1>3, <1>4, <1>5 DEF KacNext, Handler

LEMMA CommandStepFits ==
  ASSUME CommandIInv, [KacNext]_kacVars
  PROVE  StepFits' /\ ClientFits'
<1>1. StepFits /\ ClientFits
  BY DEF CommandIInv
<1>2. CASE UNCHANGED kacVars
  BY <1>1, <1>2 DEF kacVars, StepFits, ClientFits
<1>3. CASE Subjects
  BY <1>1, <1>3 DEF Subjects, GoTo, StepFits, ClientFits
<1>4. CASE SubjectVersions
  BY <1>1, <1>4 DEF SubjectVersions, StepFits, ClientFits
<1>5. CASE VersionSchema
  BY <1>1, <1>5 DEF VersionSchema, StepFits, ClientFits
<1>6. CASE SchemaFails
  BY <1>1, <1>6 DEF SchemaFails, GoTo, StepFits, ClientFits
<1>7. CASE Ready
  BY <1>1, <1>7 DEF Ready, GoTo, StepFits, ClientFits
<1>8. CASE Unreachable
  BY <1>1, <1>8 DEF Unreachable, GoTo, StepFits, ClientFits
<1>9. CASE Metadata
  BY <1>1, <1>9 DEF Metadata, GoTo, StepFits, ClientFits
<1>10. CASE Offsets \/ Create
  BY <1>1, <1>10 DEF Offsets, Create, GoTo, StepFits, ClientFits
<1>11. CASE KafkaFails
  BY <1>1, <1>11 DEF KafkaFails, GoTo, StepFits, ClientFits
<1>12. CASE DeleteVersion
  BY <1>1, <1>12 DEF DeleteVersion, StepFits, ClientFits
<1>13. QED
  BY <1>2, <1>3, <1>4, <1>5, <1>6, <1>7, <1>8, <1>9, <1>10, <1>11, <1>12 DEF KacNext, Handler

LEMMA CommandListedOnce ==
  ASSUME CommandIInv, [KacNext]_kacVars
  PROVE  ListedOnce'
<1>1. VersionsTyped /\ StepFits /\ ListedOnce
  BY DEF CommandIInv
<1>2. CASE UNCHANGED kacVars
  BY <1>1, <1>2 DEF kacVars, ListedOnce
<1>3. CASE Subjects
  BY <1>1, <1>3 DEF Subjects, GoTo, ListedOnce
<1>4. CASE SubjectVersions
  <2>1. saved = <<>> /\ saved' = saved /\ toGo = <<>> /\ command.name' = command.name
    BY <1>1, <1>4 DEF SubjectVersions, ListedOnce
  <2>2. CASE registered = <<>>
    BY <1>1, <1>4, <2>1, <2>2 DEF SubjectVersions, ListedOnce
  <2>3. CASE registered # <<>>
    <3>1. <<>> \o registered = registered
      BY <1>1, EmptyFacts DEF VersionsTyped
    <3>2. versions' = registered /\ toGo' = registered /\ step' = "schema"
      BY <1>4, <2>3 DEF SubjectVersions
    <3>3. QED
      BY <2>1, <2>3, <3>1, <3>2 DEF ListedOnce
  <2>4. QED
    BY <2>2, <2>3
<1>5. CASE VersionSchema
  <2>1. toGo # <<>> /\ versions = saved \o toGo /\ versions' = versions /\ step = "schema"
    BY <1>1, <1>5 DEF VersionSchema, ListedOnce
  <2>2. CASE Contains(registered, Head(toGo))
    <3>1. saved' = Append(saved, Head(toGo)) /\ toGo' = Tail(toGo)
          /\ step' = IF toGo' = <<>> THEN "done" ELSE "schema"
      BY <1>5, <2>2 DEF VersionSchema
    <3>2. saved \o toGo = Append(saved, Head(toGo)) \o Tail(toGo)
      BY <1>1, <2>1, ConcatMoves DEF VersionsTyped
    <3>3. QED
      BY <2>1, <3>1, <3>2 DEF ListedOnce
  <2>3. CASE ~Contains(registered, Head(toGo))
    BY <1>5, <2>1, <2>3 DEF VersionSchema, ListedOnce
  <2>4. QED
    BY <2>2, <2>3
<1>6. CASE SchemaFails
  BY <1>1, <1>6 DEF SchemaFails, GoTo, ListedOnce
<1>7. CASE DeleteVersion
  BY <1>1, <1>7 DEF DeleteVersion, ListedOnce
<1>8. CASE Ready \/ Unreachable \/ Metadata \/ Offsets \/ Create \/ KafkaFails
  <2>1. command.name' # "schema" /\ step' \notin {"schema", "subjects", "versions"}
        /\ versions' = versions /\ saved' = saved /\ toGo' = toGo
    BY <1>1, <1>8
       DEF Ready, Unreachable, Metadata, Offsets, Create, KafkaFails, GoTo, StepFits
  <2>2. QED
    BY <1>1, <2>1 DEF ListedOnce
<1>9. QED
  BY <1>2, <1>3, <1>4, <1>5, <1>6, <1>7, <1>8 DEF KacNext, Handler

LEMMA CommandReaches ==
  ASSUME CommandIInv, [KacNext]_kacVars
  PROVE  ListedIsReachable'
<1>1. StepFits /\ ListedIsReachable
  BY DEF CommandIInv
<1>2. SUFFICES ASSUME NEW i \in DOMAIN Listed, command'.search = Listed[i],
                      step' \in {"versions", "schema", "offsets", "done"}
               PROVE  subject' = Listed[i]
  BY DEF ListedIsReachable
<1>3. command' = command
  BY DEF kacVars, KacNext, Handler, Subjects, SubjectVersions, VersionSchema, SchemaFails, Ready,
         Unreachable, Metadata, Offsets, Create, KafkaFails, DeleteVersion, GoTo
<1>4. command.search # <<>> /\ Len(Matching) = 1 /\ Head(Matching) = Listed[i]
  BY <1>2, <1>3, OnlyMatch
<1>5. step \in {"versions", "schema", "offsets", "done"} => subject = Listed[i]
  BY <1>1, <1>2, <1>3 DEF ListedIsReachable
<1>6. CASE UNCHANGED kacVars \/ DeleteVersion
  BY <1>2, <1>5, <1>6 DEF kacVars, DeleteVersion
<1>7. CASE Subjects
  BY <1>4, <1>7 DEF Subjects
<1>8. CASE SubjectVersions \/ VersionSchema
  BY <1>5, <1>8 DEF SubjectVersions, VersionSchema
<1>9. CASE Metadata
  BY <1>4, <1>9 DEF Metadata
<1>10. CASE Offsets
  BY <1>5, <1>10 DEF Offsets
<1>11. CASE Create
  BY <1>1, <1>4, <1>11 DEF Create, StepFits
<1>12. CASE SchemaFails \/ Ready \/ Unreachable \/ KafkaFails
  BY <1>2, <1>12 DEF SchemaFails, Ready, Unreachable, KafkaFails, GoTo
<1>13. QED
  BY <1>6, <1>7, <1>8, <1>9, <1>10, <1>11, <1>12 DEF KacNext, Handler

THEOREM CommandInductive == KacSpec => []CommandIInv
<1>1. CommandIInv /\ [KacNext]_kacVars => CommandIInv'
  BY CommandVersionsTyped, CommandStepFits, CommandListedOnce, CommandReaches DEF CommandIInv
<1>2. QED
  BY <1>1, CommandInit, PTL DEF KacSpec

LEMMA PrefixOfConcat ==
  ASSUME NEW A, NEW s \in Seq(A), NEW t \in Seq(A)
  PROVE  IsPrefix(s, s \o t)
<1>1. /\ s \o t \in Seq(A) /\ Len(s \o t) = Len(s) + Len(t)
      /\ Len(s) \in Nat /\ Len(t) \in Nat
      /\ \A i \in 1..Len(s) : (s \o t)[i] = s[i]
  OBVIOUS
<1>2. PICK u \in Seq(A) : u = s \o t
  BY <1>1
<1>3. Len(s) \in 0..Len(u) /\ Len(s) \in 0..Len(s) /\ Len(s) <= Len(u)
  BY <1>1, <1>2
<1>4. SubSeq(s, 1, Len(s)) = SubSeq(u, 1, Len(s))
  <2>1. /\ SubSeq(s, 1, Len(s)) \in Seq(A) /\ Len(SubSeq(s, 1, Len(s))) = Len(s)
        /\ \A i \in 1..Len(s) : SubSeq(s, 1, Len(s))[i] = s[i]
    BY <1>3, FirstOf
  <2>2. /\ SubSeq(u, 1, Len(s)) \in Seq(A) /\ Len(SubSeq(u, 1, Len(s))) = Len(s)
        /\ \A i \in 1..Len(s) : SubSeq(u, 1, Len(s))[i] = u[i]
    BY <1>3, FirstOf
  <2>3. QED
    BY <1>1, <1>2, <2>1, <2>2, SameSeq
<1>5. QED
  BY <1>2, <1>3, <1>4 DEF IsPrefix

(* A name that is listed is found by itself, whichever other names contain *)
(* it, and a schema command that ends without an error has saved every     *)
(* version it listed, once and in order, whatever is deleted meanwhile.    *)
THEOREM CommandsComplete == KacSpec => []CommandsAreComplete
<1>1. CommandIInv => SavedIsComplete
  <2>1. SUFFICES ASSUME CommandIInv PROVE SavedIsComplete
    OBVIOUS
  <2>2. saved \in Seq(Versions) /\ toGo \in Seq(Versions) /\ versions = saved \o toGo
    BY <2>1 DEF CommandIInv, VersionsTyped, ListedOnce
  <2>3. IsPrefix(saved, versions)
    BY <2>2, PrefixOfConcat
  <2>4. toGo = <<>> => versions = saved
    BY <2>2
  <2>5. QED
    BY <2>1, <2>3, <2>4 DEF SavedIsComplete, CommandIInv, ListedOnce
<1>2. CommandIInv => CommandsAreComplete
  BY <1>1 DEF CommandsAreComplete, CommandIInv
<1>3. QED
  BY <1>2, CommandInductive, PTL

(* A handler that has ended lets the process end, unless a request to      *)
(* Kafka failed: the registry failing never holds a command up.            *)
EndsOpenOnlyByKafka ==
  step \in Ends => Exits \/ (command.name # "schema" /\ step \in {"rejected", "error"})

THEOREM EndsOpenOnly == KacSpec => []EndsOpenOnlyByKafka
<1>1. CommandIInv => EndsOpenOnlyByKafka
  BY DEF CommandIInv, ClientFits, EndsOpenOnlyByKafka, Ends, Exits
<1>2. QED
  BY <1>1, CommandInductive, PTL
-----------------------------------------------------------------------------
(* The calls of Helpers: what is answered is what the function gives.      *)
Gives(function, result) == Of(function) => answer = [is |-> result]

AnswerIsGiven ==
  /\ Gives("decimal", bufferToDecimal(decimalToBuffer(call.decimal)))
  /\ Gives("buffer", IF Supported(call.buffer) THEN {bufferToDecimal(call.buffer)} ELSE {})
  /\ Gives("stored", toValue(call.stored.type, fromValue(call.stored.type, call.stored.val)))
  /\ Gives("date", toValue(call.date.type, [is |-> "Date", ms |-> call.date.ms]))
  /\ Gives("point", trackPoint(call.point.store, call.point.staticMeta, call.point.tags))
  /\ Gives("time", distribution(call.time))
  /\ Gives("line", log(Derive(Logger(call.line.staticMeta, call.line.sanitizers), call.line.chain),
                       call.line.meta))
  /\ Gives("load", loadConfigFile(call.load.found, call.load.env,
                                  call.load.defaults, call.load.required))
  /\ Gives("exchange", onResponse(call.exchange))

CallIInv == call \in Calls /\ (answer = Pending \/ AnswerIsGiven)

THEOREM CallInductive == CallSpec => []CallIInv
<1>1. CallInit => CallIInv
  BY DEF CallInit, CallIInv
<1>2. CallIInv /\ [CallNext]_<<call, answer>> => CallIInv'
  <2> SUFFICES ASSUME CallIInv, [CallNext]_<<call, answer>> PROVE CallIInv'
    OBVIOUS
  <2>1. CASE UNCHANGED <<call, answer>>
    BY <2>1 DEF CallIInv, AnswerIsGiven, Gives, Of
  <2>2. CASE CallNext
    <3>1. \A function, other \in DOMAIN call : function = other
      BY CallsAssumption DEF CallIInv
    <3>2. call' = call /\ call' \in Calls
      BY <2>2 DEF CallNext, CallIInv
    <3>3. AnswerIsGiven'
      BY <2>2, <3>1, <3>2 DEF CallNext, Make, AnswerIsGiven, Gives, Of
    <3>4. QED
      BY <3>2, <3>3 DEF CallIInv
  <2>3. QED
    BY <2>1, <2>2
<1>3. QED
  BY <1>1, <1>2, PTL DEF CallSpec

-----------------------------------------------------------------------------
(* What loadConfigFile() gives.                                            *)
LEMMA Counting ==
  ASSUME NEW Good, 0 \in Good, \A n \in Nat : n \in Good => n + 1 \in Good
  PROVE  Nat \subseteq Good
<1> DEFINE Bad == Nat \ Good
<1> SUFFICES ASSUME Bad # {} PROVE FALSE
  OBVIOUS
<1>1. PICK n \in Bad : \A m \in Bad : ~(<<m, n>> \in OpToRel(<, Nat))
  <2>1. Bad \subseteq Nat
    OBVIOUS
  <2> HIDE DEF Bad
  <2>2. QED
    BY <2>1, NatLessThanWellFounded, WFMin
<1>2. \A m, k \in Nat : m < k => <<m, k>> \in OpToRel(<, Nat)
  BY DEF OpToRel
<1>3. n # 0 /\ n \in Nat /\ n \notin Good
  BY <1>1
<1>4. n - 1 \in Nat /\ n - 1 < n /\ (n - 1) + 1 = n
  BY <1>3
<1>5. n - 1 \in Good
  BY <1>1, <1>2, <1>3, <1>4
<1>6. QED
  BY <1>3, <1>4, <1>5

(* FlattenSeq concatenates from the left.                                  *)
Flattening(f, ss) ==
  f = [i \in 1..Len(ss) |-> IF i = 1 THEN ss[i] ELSE f[i - 1] \o ss[i]]

LEMMA FlatteningExists ==
  ASSUME NEW A, NEW ss \in Seq(A)
  PROVE  \E f : Flattening(f, ss)
<1> DEFINE Upto(f, n) == f = [i \in 1..n |-> IF i = 1 THEN ss[i] ELSE f[i - 1] \o ss[i]]
           Good == {n \in Nat : \E f : Upto(f, n)}
<1>1. 0 \in Good
  <2>1. Upto([i \in {} |-> {}], 0)
    OBVIOUS
  <2>2. QED
    BY <2>1
<1>2. ASSUME NEW n \in Nat, n \in Good PROVE n + 1 \in Good
  <2>1. PICK f : Upto(f, n)
    BY <1>2
  <2> DEFINE g == [i \in 1..(n + 1) |->
                     IF i <= n THEN f[i] ELSE IF i = 1 THEN ss[i] ELSE f[i - 1] \o ss[i]]
  <2>2. ASSUME NEW i \in 1..(n + 1)
        PROVE  g[i] = IF i = 1 THEN ss[i] ELSE g[i - 1] \o ss[i]
    <3>1. i # 1 => i - 1 \in 1..n /\ g[i - 1] = f[i - 1]
      OBVIOUS
    <3>2. CASE i <= n
      <4>1. i \in 1..n /\ g[i] = f[i]
        BY <3>2
      <4>2. f[i] = IF i = 1 THEN ss[i] ELSE f[i - 1] \o ss[i]
        BY <2>1, <4>1
      <4> HIDE DEF g, Upto
      <4>3. QED
        BY <3>1, <4>1, <4>2
    <3>3. CASE i = n + 1
      <4>1. g[i] = IF i = 1 THEN ss[i] ELSE f[i - 1] \o ss[i]
        BY <3>3
      <4> HIDE DEF g, Upto
      <4>2. QED
        BY <3>1, <4>1
    <3>4. QED
      BY <3>2, <3>3
  <2>3. Upto(g, n + 1)
    <3>1. g = [i \in 1..(n + 1) |-> g[i]]
      OBVIOUS
    <3> HIDE DEF g
    <3>2. QED
      BY <2>2, <3>1
  <2> HIDE DEF g, Upto
  <2>4. QED
    BY <2>3
<1> HIDE DEF Good
<1>3. Nat \subseteq Good
  BY <1>1, <1>2, Counting
<1>4. Len(ss) \in Good
  BY <1>3
<1>5. QED
  BY <1>4 DEF Good, Flattening

LEMMA ConcatElements ==
  ASSUME NEW B, NEW s \in Seq(B), NEW t \in Seq(B)
  PROVE  s \o t \in Seq(B) /\ ToSet(s \o t) = ToSet(s) \cup ToSet(t)
<1>1. /\ s \o t \in Seq(B) /\ DOMAIN (s \o t) = 1..(Len(s) + Len(t))
      /\ Len(s) \in Nat /\ Len(t) \in Nat /\ DOMAIN s = 1..Len(s) /\ DOMAIN t = 1..Len(t)
      /\ \A i \in 1..Len(s) : (s \o t)[i] = s[i]
      /\ \A i \in 1..Len(t) : (s \o t)[Len(s) + i] = t[i]
  OBVIOUS
<1>2. PICK u : u = s \o t
  OBVIOUS
<1>3. ASSUME NEW x \in ToSet(u) PROVE x \in ToSet(s) \cup ToSet(t)
  <2>1. PICK i \in 1..(Len(s) + Len(t)) : x = u[i]
    BY <1>1, <1>2 DEF ToSet
  <2>2. CASE i \in 1..Len(s)
    BY <1>1, <1>2, <2>1, <2>2 DEF ToSet
  <2>3. CASE i \notin 1..Len(s)
    <3>1. i - Len(s) \in 1..Len(t) /\ Len(s) + (i - Len(s)) = i
      BY <1>1, <2>3
    <3>2. QED
      BY <1>1, <1>2, <2>1, <3>1 DEF ToSet
  <2>4. QED
    BY <2>2, <2>3
<1>4. ASSUME NEW x \in ToSet(s) \cup ToSet(t) PROVE x \in ToSet(u)
  <2>1. CASE x \in ToSet(s)
    BY <1>1, <1>2, <2>1 DEF ToSet
  <2>2. CASE x \in ToSet(t)
    <3>1. PICK i \in 1..Len(t) : x = t[i]
      BY <1>1, <2>2 DEF ToSet
    <3>2. Len(s) + i \in 1..(Len(s) + Len(t)) /\ u[Len(s) + i] = x
      BY <1>1, <1>2, <3>1
    <3>3. QED
      BY <1>1, <1>2, <3>2 DEF ToSet
  <2>3. QED
    BY <2>1, <2>2
<1>5. QED
  BY <1>1, <1>2, <1>3, <1>4

(* The elements of a concatenation are those of its parts.                 *)
LEMMA FlattenedElements ==
  ASSUME NEW B, NEW ss \in Seq(Seq(B))
  PROVE  FlattenSeq(ss) \in Seq(B)
         /\ ToSet(FlattenSeq(ss)) = UNION {ToSet(ss[i]) : i \in DOMAIN ss}
<1>1. CASE ss = <<>>
  <2>1. FlattenSeq(ss) = <<>> /\ DOMAIN ss = {}
    BY <1>1 DEF FlattenSeq
  <2>2. ToSet(<<>>) = {} /\ <<>> \in Seq(B)
    BY DEF ToSet
  <2>3. UNION {ToSet(ss[i]) : i \in DOMAIN ss} = {}
    BY <2>1
  <2>4. QED
    BY <2>1, <2>2, <2>3
<1>2. CASE ss # <<>>
  <2>1. Len(ss) \in Nat /\ Len(ss) # 0 /\ DOMAIN ss = 1..Len(ss)
    BY <1>2
  <2> DEFINE f == CHOOSE f : Flattening(f, ss)
  <2>2. Flattening(f, ss)
    BY FlatteningExists
  <2>3. FlattenSeq(ss) = f[Len(ss)]
    BY <2>1 DEF FlattenSeq, Flattening
  <2> HIDE DEF f
  <2> DEFINE Upto(n) == f[n] \in Seq(B) /\ ToSet(f[n]) = UNION {ToSet(ss[i]) : i \in 1..n}
             Good == {n \in Nat : n \in 1..Len(ss) => Upto(n)}
  <2>4. \A n \in 1..Len(ss) : ss[n] \in Seq(B)
    BY <2>1
  <2>5. 0 \in Good
    OBVIOUS
  <2>6. ASSUME NEW n \in Nat, n \in Good PROVE n + 1 \in Good
    <3> SUFFICES ASSUME n + 1 \in 1..Len(ss) PROVE Upto(n + 1)
      OBVIOUS
    <3>1. f[n + 1] = IF n + 1 = 1 THEN ss[n + 1] ELSE f[n] \o ss[n + 1]
      <4>1. \A i \in 1..Len(ss) : f[i] = IF i = 1 THEN ss[i] ELSE f[i - 1] \o ss[i]
        BY <2>2 DEF Flattening
      <4>2. (n + 1) - 1 = n
        OBVIOUS
      <4>3. f[n + 1] = IF n + 1 = 1 THEN ss[n + 1] ELSE f[(n + 1) - 1] \o ss[n + 1]
        BY <4>1
      <4>4. QED
        BY <4>2, <4>3
    <3>2. CASE n = 0
      <4>1. 1..(n + 1) = {n + 1}
        BY <3>2
      <4>2. QED
        BY <2>4, <3>1, <3>2, <4>1
    <3>3. CASE n # 0
      <4>1. n \in 1..Len(ss) /\ Upto(n)
        BY <2>6, <3>3
      <4>2. f[n + 1] = f[n] \o ss[n + 1] /\ ss[n + 1] \in Seq(B)
        <5>1. n + 1 # 1
          BY <3>3
        <5>2. f[n + 1] = f[n] \o ss[n + 1]
          BY <3>1, <5>1
        <5>3. QED
          BY <2>4, <5>2
      <4>3. f[n + 1] \in Seq(B) /\ ToSet(f[n + 1]) = ToSet(f[n]) \cup ToSet(ss[n + 1])
        BY <4>1, <4>2, ConcatElements
      <4>4. 1..(n + 1) = (1..n) \cup {n + 1}
        OBVIOUS
      <4>5. QED
        BY <4>1, <4>3, <4>4
    <3>4. QED
      BY <3>2, <3>3
  <2> HIDE DEF Good
  <2>7. Nat \subseteq Good
    BY <2>5, <2>6, Counting
  <2>8. Len(ss) \in Good /\ Len(ss) \in 1..Len(ss)
    BY <2>1, <2>7
  <2> HIDE DEF Upto
  <2>9. Upto(Len(ss))
    BY <2>8 DEF Good
  <2> USE DEF Upto
  <2>10. QED
    BY <2>1, <2>3, <2>9
<1>3. QED
  BY <1>1, <1>2

(* A ${name} is left only where the environment has one in a value.        *)
LEMMA ReplaceLeaves ==
  ASSUME NEW parts \in Seq(Part), NEW env, \A name \in DOMAIN env : env[name] \in Seq(Part)
  PROVE  ToSet(Replace(parts, env)) \cap Names
           = UNION {ToSet(EnvText(env, n)) \cap Names : n \in ToSet(parts) \cap Names}
<1> DEFINE piece(i) == IF parts[i] \in Names THEN EnvText(env, parts[i]) ELSE <<parts[i]>>
           ss == [i \in DOMAIN parts |-> piece(i)]
<1>1. \A n : EnvText(env, n) \in Seq(Part)
  <2>1. <<"undefined">> \in Seq(Part)
    BY TextsAssumption DEF Part
  <2>2. QED
    BY <2>1 DEF EnvText
<1>2. DOMAIN parts = 1..Len(parts) /\ Len(parts) \in Nat /\ \A i \in DOMAIN parts : parts[i] \in Part
  OBVIOUS
<1>3. \A i \in DOMAIN parts : piece(i) \in Seq(Part)
  BY <1>1, <1>2
<1>4. ss \in Seq(Seq(Part)) /\ DOMAIN ss = DOMAIN parts /\ \A i \in DOMAIN parts : ss[i] = piece(i)
  <2>1. ss \in [1..Len(parts) -> Seq(Part)]
    <3> HIDE DEF piece
    <3>1. QED
      BY <1>2, <1>3
  <2> HIDE DEF piece
  <2>2. DOMAIN ss = DOMAIN parts /\ \A i \in DOMAIN parts : ss[i] = piece(i)
    OBVIOUS
  <2> HIDE DEF ss
  <2>3. QED
    BY <1>2, <2>1, <2>2
<1>5. Replace(parts, env) = FlattenSeq(ss)
  BY DEF Replace
<1> HIDE DEF ss
<1>6. ToSet(FlattenSeq(ss)) = UNION {ToSet(ss[i]) : i \in DOMAIN ss}
  BY <1>4, FlattenedElements
<1>7. ASSUME NEW x \in Names
      PROVE  (\E i \in DOMAIN parts : x \in ToSet(piece(i)))
               <=> \E n \in ToSet(parts) \cap Names : x \in ToSet(EnvText(env, n))
  <2>1. ASSUME NEW i \in DOMAIN parts, x \in ToSet(piece(i))
        PROVE  \E n \in ToSet(parts) \cap Names : x \in ToSet(EnvText(env, n))
    <3>1. parts[i] \in Names
      <4>1. SUFFICES ASSUME parts[i] \notin Names PROVE FALSE
        OBVIOUS
      <4>2. x \in ToSet(<<parts[i]>>)
        BY <2>1, <4>1
      <4>3. x = parts[i]
        BY <4>2 DEF ToSet
      <4>4. QED
        BY <4>1, <4>3
    <3>2. parts[i] \in ToSet(parts) /\ x \in ToSet(EnvText(env, parts[i]))
      BY <2>1, <3>1 DEF ToSet
    <3>3. QED
      BY <3>1, <3>2
  <2>2. ASSUME NEW n \in ToSet(parts) \cap Names, x \in ToSet(EnvText(env, n))
        PROVE  \E i \in DOMAIN parts : x \in ToSet(piece(i))
    <3>1. PICK i \in DOMAIN parts : n = parts[i]
      BY DEF ToSet
    <3>2. piece(i) = EnvText(env, n)
      BY <3>1
    <3>3. QED
      BY <2>2, <3>2
  <2>3. QED
    BY <2>1, <2>2
<1> HIDE DEF piece
<1>8. QED
  BY <1>4, <1>5, <1>6, <1>7

(* A configuration that is loaded has every required key from the file; a  *)
(* ${name} is left in it only where it came out of the environment, in a   *)
(* nested value or in a default.                                           *)
THEOREM SettingsResolved == CallSpec => []SettingsComeResolved
<1>1. CallIInv => SettingsComeResolved
  <2>1. SUFFICES ASSUME CallIInv, Answered("load") PROVE SettingsComeResolved
    BY DEF SettingsComeResolved
  <2> DEFINE x == call.load
             user == CHOOSE f \in x.found : TRUE
  <2>2. answer.is = loadConfigFile(x.found, x.env, x.defaults, x.required)
    BY <2>1 DEF CallIInv, AnswerIsGiven, Gives, Answered
  <2>3. /\ \A f \in x.found : IsObject(f) /\ \A key \in DOMAIN f : IsSetting(f[key])
        /\ \A name \in DOMAIN x.env : x.env[name] \in Seq(Part)
    BY <2>1, CallsAssumption DEF CallIInv, Answered, Of
  <2>4. CASE x.found = {}
    <3>1. answer.is = [error |-> "not found"]
      BY <2>2, <2>4 DEF loadConfigFile
    <3>2. "config" \notin DOMAIN answer.is
      BY <3>1
    <3>3. QED
      BY <2>4, <3>2 DEF SettingsComeResolved
  <2>5. CASE x.found # {} /\ x.required \ DOMAIN user # {}
    <3>1. answer.is = [missing |-> x.required \ DOMAIN user]
      BY <2>2, <2>5 DEF loadConfigFile
    <3>2. "config" \notin DOMAIN answer.is
      BY <3>1
    <3>3. QED
      BY <2>5, <3>2 DEF SettingsComeResolved
  <2>6. CASE x.found # {} /\ x.required \ DOMAIN user = {}
    <3> DEFINE resolved == resolveValues(user, x.env)
               config == Spread(x.defaults, resolved)
    <3>1. answer.is = [config |-> config]
      BY <2>2, <2>6 DEF loadConfigFile
    <3>2. "config" \in DOMAIN answer.is /\ answer.is.config = config
      BY <3>1
    <3>3. user \in x.found
      BY <2>6
    <3>4. /\ DOMAIN resolved = DOMAIN user
          /\ \A key \in DOMAIN user :
               resolved[key] = IF "text" \in DOMAIN user[key]
                               THEN [text |-> Replace(user[key].text, x.env)] ELSE user[key]
      BY DEF resolveValues
    <3>5. /\ DOMAIN config = DOMAIN x.defaults \cup DOMAIN resolved
          /\ \A key \in DOMAIN x.defaults \cup DOMAIN resolved :
               config[key] = IF key \in DOMAIN resolved THEN resolved[key] ELSE x.defaults[key]
      BY DEF Spread
    <3> HIDE DEF resolved, config
    <3>6. ASSUME NEW key \in DOMAIN user, "text" \in DOMAIN user[key]
          PROVE  ToSet(config[key].text) \cap Names
                   = UNION {ToSet(EnvText(x.env, n)) \cap Names :
                              n \in ToSet(user[key].text) \cap Names}
      <4>1. config[key].text = Replace(user[key].text, x.env)
        BY <3>4, <3>5, <3>6
      <4>2. user[key].text \in Seq(Part)
        BY <2>3, <3>3, <3>6 DEF IsSetting
      <4> HIDE DEF user
      <4>3. QED
        BY <2>3, <4>1, <4>2, ReplaceLeaves
    <3>7. ASSUME NEW key \in DOMAIN config, ~(key \in DOMAIN user /\ "text" \in DOMAIN user[key])
          PROVE  config[key] = IF key \in DOMAIN user THEN user[key] ELSE x.defaults[key]
      BY <3>4, <3>5, <3>7
    <3>8. DOMAIN config = DOMAIN user \cup DOMAIN x.defaults /\ x.required \subseteq DOMAIN user
      BY <2>6, <3>4, <3>5
    <3>9. QED
      BY <3>2, <3>6, <3>7, <3>8 DEF SettingsComeResolved
  <2>7. QED
    BY <2>4, <2>5, <2>6
<1>2. QED
  BY <1>1, CallInductive, PTL
-----------------------------------------------------------------------------
(* Trackers and loggers.                                                   *)
LEMMA TagsFacts == CallIInv => TagsAccounted
<1> SUFFICES ASSUME CallIInv, Answered("point") PROVE TagsAccounted
  BY DEF TagsAccounted
<1> DEFINE tags == call.point.tags
           static == call.point.staticMeta
           lost == \E n \in DOMAIN tags : tags[n] = "undefined"
<1>1. answer.is = trackPoint(call.point.store, static, tags)
  BY DEF CallIInv, AnswerIsGiven, Gives, Answered
<1>2. CASE call.point.store = "influx" /\ lost
  <2>1. answer.is.rejected = TRUE
    BY <1>1, <1>2 DEF trackPoint
  <2>2. QED
    BY <1>2, <2>1 DEF TagsAccounted
<1>3. CASE ~(call.point.store = "influx" /\ lost)
  <2> DEFINE sent == PointTags(static, tags)
  <2>1. answer.is = [sent |-> {sent}, warned |-> getInvalidTagNames(tags), rejected |-> FALSE]
    BY <1>1, <1>3 DEF trackPoint
  <2>2. answer.is.rejected = FALSE /\ sent \in answer.is.sent
        /\ answer.is.warned = getInvalidTagNames(tags)
    BY <2>1
  <2>3. ASSUME NEW n \in DOMAIN tags \cup DOMAIN static
        PROVE  LET Given == n \in DOMAIN tags /\ tags[n] \notin {"", "undefined"}
               IN  /\ n \in DOMAIN sent <=> Given \/ n \in DOMAIN static
                   /\ n \in DOMAIN sent => sent[n] = IF Given THEN tags[n] ELSE static[n]
                   /\ n \in getInvalidTagNames(tags) <=> n \in DOMAIN tags /\ tags[n] = ""
    BY DEF PointTags, Spread, getValidTags, getInvalidTagNames, Only
  <2> HIDE DEF sent
  <2>4. QED
    BY <1>3, <2>2, <2>3 DEF TagsAccounted
<1>4. QED
  BY <1>2, <1>3

LEMMA TimeFacts == CallIInv => TimeIsRounded
<1> SUFFICES ASSUME CallIInv, Answered("time") PROVE TimeIsRounded
  BY DEF TimeIsRounded
<1>1. PICK t \in Nat : t = call.time
  BY CallsAssumption DEF CallIInv, Answered, Of
<1>2. answer.is = distribution(t)
  BY <1>1 DEF CallIInv, AnswerIsGiven, Gives, Answered
<1>3. PICK q \in Int : q = (t + 5) \div 10 /\ q * 10 <= t + 5 /\ t + 5 < q * 10 + 10
  OBVIOUS
<1>4. answer.is = IF q = 0 THEN 1 ELSE q
  BY <1>2, <1>3 DEF distribution, round
<1>5. answer.is * 10 - t \in -4..5 \/ (t < 5 /\ answer.is = 1)
  BY <1>3, <1>4
<1>6. QED
  BY <1>1, <1>5 DEF TimeIsRounded

(* The metadata and the sanitizers that a line x has gathered at the i-th  *)
(* of its loggers, or at the call of log().                                *)
MetadataOf(m, x, i) ==
  /\ \A k : k \in DOMAIN m <=> \E h \in 0..i : k \in DOMAIN MetaOf(x, h)
  /\ \A k \in DOMAIN m : \E h \in 0..i :
       /\ k \in DOMAIN MetaOf(x, h) /\ m[k] = MetaOf(x, h)[k]
       /\ \A j \in (h + 1)..i : k \notin DOMAIN MetaOf(x, j)

SanitizersAre(s, x, i) ==
  /\ s \in Seq(Sanitizers)
  /\ Drops(s) <=> \E h \in 0..i : Drops(SanitizersOf(x, h))
  /\ Shows(s) <=> \E h \in 0..i :
       Shows(SanitizersOf(x, h)) /\ \A j \in 0..(h - 1) : ~Drops(SanitizersOf(x, j))

LEMMA MetadataGrows ==
  ASSUME NEW m, NEW x, NEW i \in Nat, MetadataOf(m, x, i)
  PROVE  MetadataOf(Spread(m, MetaOf(x, i + 1)), x, i + 1)
<1> DEFINE a == Spread(m, MetaOf(x, i + 1))
<1>1. /\ \A k : k \in DOMAIN a <=> k \in DOMAIN m \/ k \in DOMAIN MetaOf(x, i + 1)
      /\ \A k \in DOMAIN MetaOf(x, i + 1) : a[k] = MetaOf(x, i + 1)[k]
      /\ \A k \in DOMAIN m : k \notin DOMAIN MetaOf(x, i + 1) => a[k] = m[k]
  BY DEF Spread
<1> HIDE DEF a
<1>2. 0..(i + 1) = (0..i) \cup {i + 1}
  OBVIOUS
<1>3. \A k : k \in DOMAIN a <=> \E h \in 0..(i + 1) : k \in DOMAIN MetaOf(x, h)
  BY <1>1, <1>2 DEF MetadataOf
<1>4. ASSUME NEW k \in DOMAIN a
      PROVE  \E h \in 0..(i + 1) :
               /\ k \in DOMAIN MetaOf(x, h) /\ a[k] = MetaOf(x, h)[k]
               /\ \A j \in (h + 1)..(i + 1) : k \notin DOMAIN MetaOf(x, j)
  <2>1. CASE k \in DOMAIN MetaOf(x, i + 1)
    <3>1. ((i + 1) + 1)..(i + 1) = {}
      OBVIOUS
    <3>2. QED
      BY <1>1, <1>2, <2>1, <3>1
  <2>2. CASE k \notin DOMAIN MetaOf(x, i + 1)
    <3>1. k \in DOMAIN m /\ a[k] = m[k]
      BY <1>1, <2>2
    <3>2. PICK h \in 0..i :
            /\ k \in DOMAIN MetaOf(x, h) /\ m[k] = MetaOf(x, h)[k]
            /\ \A j \in (h + 1)..i : k \notin DOMAIN MetaOf(x, j)
      BY <3>1 DEF MetadataOf
    <3>3. (h + 1)..(i + 1) = ((h + 1)..i) \cup {i + 1}
      OBVIOUS
    <3>4. QED
      BY <1>2, <2>2, <3>1, <3>2, <3>3
  <2>3. QED
    BY <2>1, <2>2
<1>5. QED
  BY <1>3, <1>4 DEF MetadataOf, a

LEMMA MetadataStays ==
  ASSUME NEW m, NEW x, NEW i \in Nat, MetadataOf(m, x, i), DOMAIN MetaOf(x, i + 1) = {}
  PROVE  MetadataOf(m, x, i + 1)
<1>1. 0..(i + 1) = (0..i) \cup {i + 1}
  OBVIOUS
<1>2. \A h \in 0..i : (h + 1)..(i + 1) = ((h + 1)..i) \cup {i + 1}
  OBVIOUS
<1>3. \A k : k \in DOMAIN m <=> \E h \in 0..(i + 1) : k \in DOMAIN MetaOf(x, h)
  BY <1>1 DEF MetadataOf
<1>4. ASSUME NEW k \in DOMAIN m
      PROVE  \E h \in 0..(i + 1) :
               /\ k \in DOMAIN MetaOf(x, h) /\ m[k] = MetaOf(x, h)[k]
               /\ \A j \in (h + 1)..(i + 1) : k \notin DOMAIN MetaOf(x, j)
  BY <1>1, <1>2 DEF MetadataOf
<1>5. QED
  BY <1>3, <1>4 DEF MetadataOf

LEMMA ConcatShows ==
  ASSUME NEW s \in Seq(Sanitizers), NEW t \in Seq(Sanitizers)
  PROVE  /\ s \o t \in Seq(Sanitizers)
         /\ Drops(s \o t) <=> Drops(s) \/ Drops(t)
         /\ Shows(s \o t) <=> Shows(s) \/ (~Drops(s) /\ Shows(t))
<1>1. /\ s \o t \in Seq(Sanitizers) /\ DOMAIN (s \o t) = 1..(Len(s) + Len(t))
      /\ Len(s) \in Nat /\ Len(t) \in Nat /\ DOMAIN s = 1..Len(s) /\ DOMAIN t = 1..Len(t)
      /\ \A i \in 1..Len(s) : (s \o t)[i] = s[i]
      /\ \A i \in 1..Len(t) : (s \o t)[Len(s) + i] = t[i]
  OBVIOUS
<1>2. PICK u : u = s \o t
  OBVIOUS
<1>3. PICK n \in Nat, m \in Nat : n = Len(s) /\ m = Len(t)
  BY <1>1
<1>4. /\ DOMAIN u = 1..(n + m) /\ DOMAIN s = 1..n /\ DOMAIN t = 1..m
      /\ \A i \in 1..n : i \in 1..(n + m) /\ u[i] = s[i]
      /\ \A i \in 1..m : n + i \in 1..(n + m) /\ u[n + i] = t[i]
      /\ \A i \in 1..(n + m) : i \in 1..n \/ (i - n \in 1..m /\ u[i] = t[i - n])
  <2>1. ASSUME NEW i \in 1..(n + m), i \notin 1..n PROVE i - n \in 1..m /\ n + (i - n) = i
    BY <2>1
  <2>2. \A i \in 1..n : i \in 1..(n + m)
    OBVIOUS
  <2>3. \A i \in 1..m : n + i \in 1..(n + m)
    OBVIOUS
  <2>4. \A i \in 1..m : u[n + i] = t[i]
    BY <1>1, <1>2, <1>3
  <2>5. \A i \in 1..(n + m) : i \in 1..n \/ (i - n \in 1..m /\ u[i] = t[i - n])
    BY <2>1, <2>4
  <2>6. QED
    BY <1>1, <1>2, <1>3, <2>2, <2>3, <2>4, <2>5
<1>5. Drops(u) <=> Drops(s) \/ Drops(t)
  BY <1>4 DEF Drops
<1>6. Shows(u) => Shows(s) \/ (~Drops(s) /\ Shows(t))
  <2>1. SUFFICES ASSUME Shows(u), ~Shows(s) PROVE ~Drops(s) /\ Shows(t)
    OBVIOUS
  <2>2. PICK i \in 1..(n + m) : u[i] = "emailAsUser" /\ \A j \in 1..(i - 1) : u[j] # "dropEmail"
    BY <1>4, <2>1 DEF Shows
  <2>3. i \notin 1..n
    <3>1. SUFFICES ASSUME i \in 1..n PROVE Shows(s)
      BY <2>1
    <3>2. s[i] = "emailAsUser"
      BY <1>4, <2>2, <3>1
    <3>3. ASSUME NEW j \in 1..(i - 1) PROVE s[j] # "dropEmail"
      <4>1. j \in 1..n
        BY <3>1
      <4>2. QED
        BY <1>4, <2>2, <4>1
    <3>4. QED
      BY <1>4, <3>1, <3>2, <3>3 DEF Shows
  <2>4. i - n \in 1..m /\ t[i - n] = "emailAsUser"
    BY <1>4, <2>2, <2>3
  <2>5. ~Drops(s)
    <3>1. \A j \in 1..n : j \in 1..(i - 1)
      BY <2>3
    <3>2. QED
      BY <1>4, <2>2, <3>1 DEF Drops
  <2>6. ASSUME NEW j \in 1..((i - n) - 1) PROVE t[j] # "dropEmail"
    <3>1. j \in 1..m /\ n + j \in 1..(i - 1)
      BY <2>4
    <3>2. QED
      BY <1>4, <2>2, <3>1
  <2>7. QED
    BY <1>4, <2>4, <2>5, <2>6 DEF Shows
<1>7. Shows(s) => Shows(u)
  <2>1. SUFFICES ASSUME Shows(s) PROVE Shows(u)
    OBVIOUS
  <2>2. PICK i \in 1..n : s[i] = "emailAsUser" /\ \A j \in 1..(i - 1) : s[j] # "dropEmail"
    BY <1>4, <2>1 DEF Shows
  <2>3. \A j \in 1..(i - 1) : j \in 1..n
    OBVIOUS
  <2>4. i \in DOMAIN u /\ u[i] = "emailAsUser" /\ \A j \in 1..(i - 1) : u[j] # "dropEmail"
    BY <1>4, <2>2, <2>3
  <2>5. QED
    BY <2>4 DEF Shows
<1>8. ~Drops(s) /\ Shows(t) => Shows(u)
  <2>1. SUFFICES ASSUME ~Drops(s), Shows(t) PROVE Shows(u)
    OBVIOUS
  <2>2. PICK i \in 1..m : t[i] = "emailAsUser" /\ \A j \in 1..(i - 1) : t[j] # "dropEmail"
    BY <1>4, <2>1 DEF Shows
  <2>3. n + i \in DOMAIN u /\ u[n + i] = "emailAsUser"
    BY <1>4, <2>2
  <2>4. ASSUME NEW j \in 1..((n + i) - 1) PROVE u[j] # "dropEmail"
    <3>1. CASE j \in 1..n
      BY <1>4, <2>1, <3>1 DEF Drops
    <3>2. CASE j \notin 1..n
      <4>1. j - n \in 1..(i - 1) /\ j \in 1..(n + m)
        BY <3>2
      <4>2. QED
        BY <1>4, <2>2, <3>2, <4>1
    <3>3. QED
      BY <3>1, <3>2
  <2>5. QED
    BY <2>3, <2>4 DEF Shows
<1>9. QED
  BY <1>1, <1>2, <1>5, <1>6, <1>7, <1>8

LEMMA SanitizersGrow ==
  ASSUME NEW s, NEW x, NEW i \in Nat, SanitizersAre(s, x, i),
         SanitizersOf(x, i + 1) \in Seq(Sanitizers)
  PROVE  SanitizersAre(s \o SanitizersOf(x, i + 1), x, i + 1)
<1>1. PICK t \in Seq(Sanitizers) : t = SanitizersOf(x, i + 1)
  OBVIOUS
<1>2. 0..(i + 1) = (0..i) \cup {i + 1} /\ 0..((i + 1) - 1) = 0..i
  OBVIOUS
<1>3. s \in Seq(Sanitizers)
  BY DEF SanitizersAre
<1>4. /\ s \o t \in Seq(Sanitizers)
      /\ Drops(s \o t) <=> Drops(s) \/ Drops(t)
      /\ Shows(s \o t) <=> Shows(s) \/ (~Drops(s) /\ Shows(t))
  BY <1>3, ConcatShows
<1>5. PICK u : u = s \o t
  OBVIOUS
<1>6. u \in Seq(Sanitizers) /\ (Drops(u) <=> \E h \in 0..(i + 1) : Drops(SanitizersOf(x, h)))
  BY <1>1, <1>2, <1>4, <1>5 DEF SanitizersAre
<1>7. Shows(u) <=> \E h \in 0..(i + 1) :
        Shows(SanitizersOf(x, h)) /\ \A j \in 0..(h - 1) : ~Drops(SanitizersOf(x, j))
  BY <1>1, <1>2, <1>4, <1>5 DEF SanitizersAre
<1>8. QED
  BY <1>1, <1>5, <1>6, <1>7 DEF SanitizersAre
LEMMA SanitizersStay ==
  ASSUME NEW s, NEW x, NEW i \in Nat, SanitizersAre(s, x, i), SanitizersOf(x, i + 1) = <<>>
  PROVE  SanitizersAre(s, x, i + 1)
<1>1. <<>> \in Seq(Sanitizers) /\ s \in Seq(Sanitizers)
  BY DEF SanitizersAre
<1>2. s \o <<>> = s
  BY <1>1
<1>3. QED
  BY <1>1, <1>2, SanitizersGrow

(* Derive() and log() as what their functions satisfy.                     *)
Derived(l, step0) ==
  IF "meta" \in DOMAIN step0 THEN withStaticMeta(l, step0.meta)
  ELSE withSanitizers(l, step0.sanitizers)

Deriving(f, logger, chain) ==
  f = [i \in 0..Len(chain) |-> IF i = 0 THEN logger ELSE Derived(f[i - 1], chain[i])]

Logging(f, first, sanitizers) ==
  f = [i \in 0..Len(sanitizers) |-> IF i = 0 THEN first ELSE Sanitize(sanitizers[i], f[i - 1])]

LEMMA DerivingExists ==
  ASSUME NEW logger, NEW chain, Len(chain) \in Nat
  PROVE  \E f : Deriving(f, logger, chain)
<1> DEFINE Upto(f, n) ==
             f = [i \in 0..n |-> IF i = 0 THEN logger ELSE Derived(f[i - 1], chain[i])]
           Good == {n \in Nat : \E f : Upto(f, n)}
<1>1. 0 \in Good
  <2> DEFINE f == [i \in 0..0 |-> logger]
  <2>1. f = [i \in 0..0 |-> IF i = 0 THEN logger ELSE Derived(f[i - 1], chain[i])]
    OBVIOUS
  <2> HIDE DEF f
  <2>2. QED
    BY <2>1
<1>2. ASSUME NEW n \in Nat, n \in Good PROVE n + 1 \in Good
  <2>1. PICK f : Upto(f, n)
    BY <1>2
  <2> DEFINE g == [i \in 0..(n + 1) |-> IF i <= n THEN f[i] ELSE Derived(f[i - 1], chain[i])]
  <2>2. ASSUME NEW i \in 0..(n + 1)
        PROVE  g[i] = IF i = 0 THEN logger ELSE Derived(g[i - 1], chain[i])
    <3>1. i # 0 => i - 1 \in 0..n /\ g[i - 1] = f[i - 1]
      OBVIOUS
    <3>2. CASE i <= n
      <4>1. i \in 0..n /\ g[i] = f[i]
        BY <3>2
      <4>2. f[i] = IF i = 0 THEN logger ELSE Derived(f[i - 1], chain[i])
        BY <2>1, <4>1
      <4> HIDE DEF g, Upto
      <4>3. QED
        BY <3>1, <4>1, <4>2
    <3>3. CASE i = n + 1
      <4>1. g[i] = Derived(f[i - 1], chain[i]) /\ i # 0
        BY <3>3
      <4> HIDE DEF g, Upto
      <4>2. QED
        BY <3>1, <4>1
    <3>4. QED
      BY <3>2, <3>3
  <2>3. Upto(g, n + 1)
    <3>1. g = [i \in 0..(n + 1) |-> g[i]]
      OBVIOUS
    <3> HIDE DEF g
    <3>2. QED
      BY <2>2, <3>1
  <2> HIDE DEF g, Upto
  <2>4. QED
    BY <2>3
<1> HIDE DEF Good
<1>3. Nat \subseteq Good
  BY <1>1, <1>2, Counting
<1>4. Len(chain) \in Good
  BY <1>3
<1>5. QED
  BY <1>4 DEF Good, Deriving

LEMMA LoggingExists ==
  ASSUME NEW first, NEW sanitizers, Len(sanitizers) \in Nat
  PROVE  \E f : Logging(f, first, sanitizers)
<1> DEFINE Upto(f, n) ==
             f = [i \in 0..n |-> IF i = 0 THEN first ELSE Sanitize(sanitizers[i], f[i - 1])]
           Good == {n \in Nat : \E f : Upto(f, n)}
<1>1. 0 \in Good
  <2> DEFINE f == [i \in 0..0 |-> first]
  <2>1. f = [i \in 0..0 |-> IF i = 0 THEN first ELSE Sanitize(sanitizers[i], f[i - 1])]
    OBVIOUS
  <2> HIDE DEF f
  <2>2. QED
    BY <2>1
<1>2. ASSUME NEW n \in Nat, n \in Good PROVE n + 1 \in Good
  <2>1. PICK f : Upto(f, n)
    BY <1>2
  <2> DEFINE g == [i \in 0..(n + 1) |->
                     IF i <= n THEN f[i] ELSE Sanitize(sanitizers[i], f[i - 1])]
  <2>2. ASSUME NEW i \in 0..(n + 1)
        PROVE  g[i] = IF i = 0 THEN first ELSE Sanitize(sanitizers[i], g[i - 1])
    <3>1. i # 0 => i - 1 \in 0..n /\ g[i - 1] = f[i - 1]
      OBVIOUS
    <3>2. CASE i <= n
      <4>1. i \in 0..n /\ g[i] = f[i]
        BY <3>2
      <4>2. f[i] = IF i = 0 THEN first ELSE Sanitize(sanitizers[i], f[i - 1])
        BY <2>1, <4>1
      <4> HIDE DEF g, Upto
      <4>3. QED
        BY <3>1, <4>1, <4>2
    <3>3. CASE i = n + 1
      <4>1. g[i] = Sanitize(sanitizers[i], f[i - 1]) /\ i # 0
        BY <3>3
      <4> HIDE DEF g, Upto
      <4>2. QED
        BY <3>1, <4>1
    <3>4. QED
      BY <3>2, <3>3
  <2>3. Upto(g, n + 1)
    <3>1. g = [i \in 0..(n + 1) |-> g[i]]
      OBVIOUS
    <3> HIDE DEF g
    <3>2. QED
      BY <2>2, <3>1
  <2> HIDE DEF g, Upto
  <2>4. QED
    BY <2>3
<1> HIDE DEF Good
<1>3. Nat \subseteq Good
  BY <1>1, <1>2, Counting
<1>4. Len(sanitizers) \in Good
  BY <1>3
<1>5. QED
  BY <1>4 DEF Good, Logging

(* What a line may be called with.                                         *)
IsLine(x) ==
  /\ x.sanitizers \in Seq(Sanitizers)
  /\ x.chain \in Seq(ToSet(x.chain))
  /\ \A i \in DOMAIN x.chain : IsStep(x.chain[i])

(* The logger at the end of a chain has gathered what the chain gives.     *)
LEMMA DeriveGathers ==
  ASSUME NEW x, IsLine(x),
         NEW logger, logger = Derive(Logger(x.staticMeta, x.sanitizers), x.chain)
  PROVE  /\ MetadataOf(logger.staticMeta, x, Len(x.chain))
         /\ SanitizersAre(logger.sanitizers, x, Len(x.chain))
<1>1. Len(x.chain) \in Nat /\ DOMAIN x.chain = 1..Len(x.chain)
  BY DEF IsLine
<1> DEFINE first == Logger(x.staticMeta, x.sanitizers)
           f == CHOOSE f : Deriving(f, first, x.chain)
<1>2. Deriving(f, first, x.chain)
  BY <1>1, DerivingExists
<1>3. logger = f[Len(x.chain)]
  BY DEF Derive, Deriving, Derived
<1> HIDE DEF f
<1> DEFINE Gathered(i) == /\ MetadataOf(f[i].staticMeta, x, i)
                          /\ SanitizersAre(f[i].sanitizers, x, i)
           Good == {i \in Nat : i \in 0..Len(x.chain) => Gathered(i)}
<1>4. 0 \in Good
  <2>1. f[0] = first
    BY <1>1, <1>2 DEF Deriving
  <2>2. f[0].staticMeta = x.staticMeta /\ f[0].sanitizers = x.sanitizers
    BY <2>1 DEF Logger
  <2>3. MetaOf(x, 0) = x.staticMeta /\ SanitizersOf(x, 0) = x.sanitizers
    BY DEF MetaOf, SanitizersOf
  <2>4. 0..0 = {0} /\ (0 + 1)..0 = {} /\ 0..(0 - 1) = {}
    OBVIOUS
  <2>5. MetadataOf(x.staticMeta, x, 0)
    BY <2>3, <2>4 DEF MetadataOf
  <2>6. SanitizersAre(x.sanitizers, x, 0)
    BY <2>3, <2>4 DEF SanitizersAre, IsLine
  <2>7. QED
    BY <2>2, <2>5, <2>6
<1>5. ASSUME NEW i \in Nat, i \in Good PROVE i + 1 \in Good
  <2> SUFFICES ASSUME i + 1 \in 0..Len(x.chain) PROVE Gathered(i + 1)
    OBVIOUS
  <2>1. i \in 0..Len(x.chain) /\ i + 1 \in DOMAIN x.chain /\ i + 1 # Len(x.chain) + 1
        /\ i + 1 # 0
    BY <1>1
  <2>2. Gathered(i)
    BY <1>5, <2>1
  <2>3. f[i + 1] = Derived(f[i], x.chain[i + 1])
    <3>1. \A j \in 0..Len(x.chain) :
            f[j] = IF j = 0 THEN first ELSE Derived(f[j - 1], x.chain[j])
      BY <1>2 DEF Deriving
    <3>2. (i + 1) - 1 = i
      OBVIOUS
    <3>3. f[i + 1] = Derived(f[(i + 1) - 1], x.chain[i + 1])
      BY <2>1, <3>1
    <3>4. QED
      BY <3>2, <3>3
  <2>4. CASE "meta" \in DOMAIN x.chain[i + 1]
    <3>1. MetaOf(x, i + 1) = x.chain[i + 1].meta /\ SanitizersOf(x, i + 1) = <<>>
      BY <2>1, <2>4 DEF MetaOf, SanitizersOf
    <3>2. /\ f[i + 1].staticMeta = Spread(f[i].staticMeta, MetaOf(x, i + 1))
          /\ f[i + 1].sanitizers = f[i].sanitizers
      BY <2>3, <2>4, <3>1 DEF Derived, withStaticMeta, Logger
    <3>3. QED
      BY <2>2, <3>1, <3>2, MetadataGrows, SanitizersStay
  <2>5. CASE "meta" \notin DOMAIN x.chain[i + 1]
    <3>1. MetaOf(x, i + 1) = <<>> /\ SanitizersOf(x, i + 1) = x.chain[i + 1].sanitizers
      BY <2>1, <2>5 DEF MetaOf, SanitizersOf
    <3>2. DOMAIN MetaOf(x, i + 1) = {}
      BY <3>1
    <3>3. SanitizersOf(x, i + 1) \in Seq(Sanitizers)
      BY <2>1, <2>5, <3>1 DEF IsLine, IsStep
    <3>4. /\ f[i + 1].staticMeta = f[i].staticMeta
          /\ f[i + 1].sanitizers = f[i].sanitizers \o SanitizersOf(x, i + 1)
      <4>1. PICK given : given = x.chain[i + 1].sanitizers
        OBVIOUS
      <4>2. PICK before : before = f[i]
        OBVIOUS
      <4>3. PICK both : both = before.sanitizers \o given
        OBVIOUS
      <4>4. f[i + 1] = withSanitizers(f[i], x.chain[i + 1].sanitizers)
        BY <2>3, <2>5, Zenon DEF Derived
      <4>5. f[i + 1] = Logger(before.staticMeta, both)
        BY <4>1, <4>2, <4>3, <4>4, Zenon DEF withSanitizers
      <4>6. f[i + 1].staticMeta = before.staticMeta /\ f[i + 1].sanitizers = both
        BY <4>5 DEF Logger
      <4>7. both = f[i].sanitizers \o SanitizersOf(x, i + 1)
        BY <3>1, <4>1, <4>2, <4>3, Zenon
      <4>8. QED
        BY <4>2, <4>6, <4>7, Zenon
    <3>5. QED
      BY <2>2, <3>2, <3>3, <3>4, MetadataStays, SanitizersGrow
  <2>6. QED
    BY <2>4, <2>5
<1> HIDE DEF Good, Gathered
<1>6. Nat \subseteq Good
  BY <1>4, <1>5, Counting
<1>7. Gathered(Len(x.chain))
  BY <1>1, <1>6 DEF Good
<1>8. QED
  BY <1>3, <1>7 DEF Gathered

(* What the sanitizers make of the metadata m that a line starts with.     *)
SanitizedFrom(line, m, drops, shows) ==
  /\ "email" \in DOMAIN line <=> "email" \in DOMAIN m /\ ~drops
  /\ "email" \in DOMAIN line => line["email"] = m["email"]
  /\ "user" \in DOMAIN line <=> "user" \in DOMAIN m \/ (shows /\ "email" \in DOMAIN m)
  /\ "user" \in DOMAIN line =>
       line["user"] = IF shows /\ "email" \in DOMAIN m THEN m["email"] ELSE m["user"]

LEMMA SanitizeStep ==
  ASSUME NEW m, NEW line, NEW z \in Sanitizers, NEW drops \in BOOLEAN, NEW shows \in BOOLEAN,
         SanitizedFrom(line, m, drops, shows)
  PROVE  SanitizedFrom(Sanitize(z, line), m, drops \/ z = "dropEmail",
                       shows \/ (~drops /\ z = "emailAsUser"))
<1>1. CASE z = "dropEmail"
  <2>1. PICK after : after = Only(DOMAIN line \ {"email"}, line)
    OBVIOUS
  <2>2. Sanitize(z, line) = after
    BY <1>1, <2>1 DEF Sanitize
  <2>3. /\ "email" \notin DOMAIN after
        /\ "user" \in DOMAIN after <=> "user" \in DOMAIN line
        /\ "user" \in DOMAIN after => after["user"] = line["user"]
    BY <2>1 DEF Only
  <2>4. SanitizedFrom(after, m, TRUE, shows)
    BY <2>3 DEF SanitizedFrom
  <2>5. z # "emailAsUser"
    BY <1>1
  <2>6. QED
    BY <1>1, <2>2, <2>4, <2>5
<1>2. CASE z = "emailAsUser" /\ "email" \in DOMAIN line
  <2>1. PICK after : after = Spread(line, [user |-> line["email"]])
    OBVIOUS
  <2>2. Sanitize(z, line) = after
    BY <1>2, <2>1 DEF Sanitize
  <2>3. /\ "email" \in DOMAIN after /\ after["email"] = line["email"]
        /\ "user" \in DOMAIN after /\ after["user"] = line["email"]
    BY <1>2, <2>1 DEF Spread
  <2>4. ~drops
    BY <1>2 DEF SanitizedFrom
  <2>5. SanitizedFrom(after, m, FALSE, TRUE)
    BY <1>2, <2>3, <2>4 DEF SanitizedFrom
  <2>6. QED
    BY <1>2, <2>2, <2>4, <2>5
<1>3. CASE z = "emailAsUser" /\ "email" \notin DOMAIN line
  <2>1. Sanitize(z, line) = line
    BY <1>3 DEF Sanitize
  <2>2. drops \/ "email" \notin DOMAIN m
    BY <1>3 DEF SanitizedFrom
  <2>3. SanitizedFrom(line, m, drops, shows \/ ~drops)
    BY <2>2 DEF SanitizedFrom
  <2>4. QED
    BY <1>3, <2>1, <2>3
<1>4. QED
  BY <1>1, <1>2, <1>3 DEF Sanitizers

LEMMA LogSanitizes ==
  ASSUME NEW logger, logger.sanitizers \in Seq(Sanitizers), NEW meta
  PROVE  SanitizedFrom(log(logger, meta), Spread(logger.staticMeta, meta),
                       Drops(logger.sanitizers), Shows(logger.sanitizers))
<1>0. PICK m : m = Spread(logger.staticMeta, meta)
  OBVIOUS
<1>1. PICK s \in Seq(Sanitizers) : s = logger.sanitizers
  OBVIOUS
<1>2. PICK n \in Nat : n = Len(s) /\ DOMAIN s = 1..n /\ \A i \in 1..n : s[i] \in Sanitizers
  OBVIOUS
<1> DEFINE f == CHOOSE f : Logging(f, m, s)
<1>3. Logging(f, m, s)
  BY <1>2, LoggingExists
<1>4. log(logger, meta) = f[n]
  BY <1>0, <1>1, <1>2 DEF log, Logging
<1> HIDE DEF f
<1>5. f[0] = m /\ \A i \in 0..n : i # 0 => f[i] = Sanitize(s[i], f[i - 1])
  <2>1. 0 \in 0..n
    OBVIOUS
  <2>2. \A i \in 0..n : f[i] = IF i = 0 THEN m ELSE Sanitize(s[i], f[i - 1])
    BY <1>2, <1>3 DEF Logging
  <2>3. QED
    BY <2>1, <2>2
<1> DEFINE DropsAt(i) == \E h \in 1..i : s[h] = "dropEmail"
           ShowsAt(i) == \E h \in 1..i :
             s[h] = "emailAsUser" /\ \A j \in 1..(h - 1) : s[j] # "dropEmail"
           GoodAt(i) == i <= n => SanitizedFrom(f[i], m, DropsAt(i), ShowsAt(i))
           Good == {i \in Nat : GoodAt(i)}
<1>6. 0 \in Good
  <2>1. ~DropsAt(0) /\ ~ShowsAt(0)
    OBVIOUS
  <2>2. SanitizedFrom(m, m, FALSE, FALSE)
    BY DEF SanitizedFrom
  <2>3. SanitizedFrom(f[0], m, DropsAt(0), ShowsAt(0))
    BY <1>5, <2>1, <2>2
  <2>4. QED
    BY <2>3
<1>7. ASSUME NEW i \in Nat, i \in Good PROVE i + 1 \in Good
  <2>0. GoodAt(i)
    BY <1>7
  <2> SUFFICES GoodAt(i + 1)
    <3> HIDE DEF GoodAt
    <3>1. QED
      OBVIOUS
  <2> SUFFICES ASSUME i + 1 <= n
               PROVE  SanitizedFrom(f[i + 1], m, DropsAt(i + 1), ShowsAt(i + 1))
    OBVIOUS
  <2>1. SanitizedFrom(f[i], m, DropsAt(i), ShowsAt(i))
    <3>1. i <= n
      OBVIOUS
    <3> HIDE DEF DropsAt, ShowsAt, Good
    <3>2. QED
      BY <2>0, <3>1
  <2>2. f[i + 1] = Sanitize(s[i + 1], f[i]) /\ s[i + 1] \in Sanitizers
    <3>1. i + 1 \in 0..n /\ i + 1 # 0 /\ (i + 1) - 1 = i /\ i + 1 \in 1..n
      OBVIOUS
    <3> HIDE DEF DropsAt, ShowsAt, Good, GoodAt
    <3>2. QED
      BY <1>2, <1>5, <3>1
  <2>3. 1..(i + 1) = (1..i) \cup {i + 1} /\ 1..((i + 1) - 1) = 1..i
    OBVIOUS
  <2>4. DropsAt(i + 1) <=> DropsAt(i) \/ s[i + 1] = "dropEmail"
    BY <2>3
  <2>5. ShowsAt(i + 1) <=> ShowsAt(i) \/ (~DropsAt(i) /\ s[i + 1] = "emailAsUser")
    BY <2>3
  <2>6. PICK d \in BOOLEAN, e \in BOOLEAN : (d <=> DropsAt(i)) /\ (e <=> ShowsAt(i))
    OBVIOUS
  <2> HIDE DEF DropsAt, ShowsAt, Good, GoodAt
  <2>7. SanitizedFrom(f[i], m, d, e)
    BY <2>1, <2>6 DEF SanitizedFrom
  <2>8. SanitizedFrom(f[i + 1], m, d \/ s[i + 1] = "dropEmail",
                      e \/ (~d /\ s[i + 1] = "emailAsUser"))
    BY <2>2, <2>7, SanitizeStep
  <2>9. QED
    BY <2>4, <2>5, <2>6, <2>8 DEF SanitizedFrom
<1> HIDE DEF Good
<1>8. Nat \subseteq Good
  BY <1>6, <1>7, Counting
<1>9. SanitizedFrom(f[n], m, DropsAt(n), ShowsAt(n))
  <2> HIDE DEF DropsAt, ShowsAt
  <2>1. n <= n
    OBVIOUS
  <2>2. GoodAt(n)
    BY <1>8 DEF Good
  <2>3. QED
    BY <2>1, <2>2
<1>10. (DropsAt(n) <=> Drops(s)) /\ (ShowsAt(n) <=> Shows(s))
  BY <1>2 DEF Drops, Shows
<1> HIDE DEF DropsAt, ShowsAt
<1>11. QED
  BY <1>0, <1>1, <1>4, <1>9, <1>10 DEF SanitizedFrom

(* What the call and the loggers say of a line, the sanitizers applied.    *)
LEMMA SanitizersFacts == CallIInv => SanitizersHold
<1> SUFFICES ASSUME CallIInv, Answered("line") PROVE SanitizersHold
  BY DEF SanitizersHold
<1>1. PICK x : x = call.line
  OBVIOUS
<1>2. IsLine(x)
  BY <1>1, CallsAssumption DEF CallIInv, Answered, Of, IsLine
<1>3. PICK n \in Nat : n = Len(x.chain)
  BY <1>2 DEF IsLine
<1>4. PICK logger : logger = Derive(Logger(x.staticMeta, x.sanitizers), x.chain)
  OBVIOUS
<1>5. MetadataOf(logger.staticMeta, x, n) /\ SanitizersAre(logger.sanitizers, x, n)
  BY <1>2, <1>3, <1>4, DeriveGathers
<1>6. PICK line : line = log(logger, x.meta)
  OBVIOUS
<1>7. answer.is = line
  BY <1>1, <1>4, <1>6 DEF CallIInv, AnswerIsGiven, Gives, Answered
<1>8. PICK m : m = Spread(logger.staticMeta, x.meta)
  OBVIOUS
<1>9. MetadataOf(m, x, n + 1)
  <2>1. MetaOf(x, n + 1) = x.meta
    BY <1>3 DEF MetaOf
  <2>2. QED
    BY <1>5, <1>8, <2>1, MetadataGrows
<1> DEFINE Has(k) == \E i \in 0..(n + 1) : k \in DOMAIN MetaOf(x, i)
           IsLatest(v, k) == \E i \in 0..(n + 1) :
             /\ k \in DOMAIN MetaOf(x, i) /\ v = MetaOf(x, i)[k]
             /\ \A j \in (i + 1)..(n + 1) : k \notin DOMAIN MetaOf(x, j)
           dropped == \E i \in 0..n : Drops(SanitizersOf(x, i))
           showing == \E i \in 0..n :
             Shows(SanitizersOf(x, i)) /\ \A j \in 0..(i - 1) : ~Drops(SanitizersOf(x, j))
<1>10. \A k : (k \in DOMAIN m <=> Has(k)) /\ (k \in DOMAIN m => IsLatest(m[k], k))
  BY <1>9 DEF MetadataOf
<1>11. (Drops(logger.sanitizers) <=> dropped) /\ (Shows(logger.sanitizers) <=> showing)
  BY <1>5 DEF SanitizersAre
<1>12. SanitizedFrom(line, m, Drops(logger.sanitizers), Shows(logger.sanitizers))
  BY <1>5, <1>6, <1>8, LogSanitizes DEF SanitizersAre
<1> HIDE DEF Has, IsLatest, dropped, showing
<1>13. /\ "email" \in DOMAIN line <=> Has("email") /\ ~dropped
       /\ "email" \in DOMAIN line => IsLatest(line["email"], "email")
       /\ "user" \in DOMAIN line <=> (Has("email") /\ showing) \/ Has("user")
       /\ "user" \in DOMAIN line =>
            IsLatest(line["user"], IF Has("email") /\ showing THEN "email" ELSE "user")
  BY <1>10, <1>11, <1>12 DEF SanitizedFrom
<1>14. QED
  BY <1>1, <1>3, <1>7, <1>13 DEF SanitizersHold, Has, IsLatest, dropped, showing

(* Nothing that a tracker sends or a logger writes is lost or shown beyond *)
(* what the application said of it: the tags of a point, the value of a    *)
(* distribution and the metadata of a line, through any chain of loggers   *)
(* and any sequence of the sanitizers.                                     *)
THEOREM TelemetryHolds == CallSpec => []TelemetryAccounted
<1>1. CallIInv => TelemetryAccounted
  BY TagsFacts, TimeFacts, SanitizersFacts DEF TelemetryAccounted
<1>2. QED
  BY <1>1, CallInductive, PTL

-----------------------------------------------------------------------------
(* Division and the bytes of a number.                                     *)
LEMMA Division ==
  ASSUME NEW a \in Int, NEW d \in Nat \ {0}
  PROVE  a \div d \in Int /\ a % d \in 0..(d - 1) /\ a = ((a \div d) * d) + (a % d)
OBVIOUS

LEMMA DivisionIs ==
  ASSUME NEW q \in Int, NEW d \in Nat \ {0}, NEW r \in 0..(d - 1)
  PROVE  (q * d + r) \div d = q /\ (q * d + r) % d = r
OBVIOUS

LEMMA Product ==
  ASSUME NEW a \in Nat \ {0}, NEW b \in Nat \ {0}
  PROVE  a * b \in Nat \ {0}
OBVIOUS

LEMMA DivideTwice ==
  ASSUME NEW m \in Int, NEW w \in Nat \ {0}, NEW b \in Nat \ {0}
  PROVE  m \div w = (m \div (w * b)) * b + ((m \div w) % b)
<1>1. PICK q \in Int, r \in 0..(w - 1) : q = m \div w /\ m = q * w + r
  BY Division
<1>2. PICK p \in Int, t \in 0..(b - 1) : p = q \div b /\ t = q % b /\ q = p * b + t
  BY Division
<1>3. m = p * (w * b) + (t * w + r)
  <2>1. (p * b + t) * w = p * (w * b) + t * w
    OBVIOUS
  <2>2. q * w = p * (w * b) + t * w
    BY <1>2, <2>1
  <2>3. p * (w * b) \in Int /\ t * w \in Int
    OBVIOUS
  <2>4. QED
    BY <1>1, <2>2, <2>3
<1>4. t * w + r \in 0..(w * b - 1)
  <2>1. t * w <= (b - 1) * w /\ 0 <= t * w
    OBVIOUS
  <2>2. (b - 1) * w = w * b - w
    OBVIOUS
  <2>3. QED
    BY <2>1, <2>2
<1>5. m \div (w * b) = p
  <2>1. w * b \in Nat \ {0}
    BY Product
  <2>2. PICK d \in Nat \ {0} : d = w * b
    BY <2>1
  <2>3. PICK s \in 0..(d - 1) : s = t * w + r
    BY <1>4, <2>2
  <2>4. (p * d + s) \div d = p
    BY DivisionIs
  <2>5. QED
    BY <1>3, <2>2, <2>3, <2>4
<1>6. QED
  BY <1>1, <1>2, <1>5

LEMMA PositionalExists ==
  ASSUME NEW n \in Nat, NEW first \in Int, NEW digits \in [1..n -> Int]
  PROVE  \E f : f = [i \in 0..n |-> IF i = 0 THEN first ELSE f[i - 1] * Byte + digits[i]]
                /\ f \in [0..n -> Int]
<1>0. Byte \in Int
  BY LogicalTypesAssumption
<1> DEFINE Upto(f, k) ==
             /\ f \in [0..k -> Int]
             /\ \A i \in 0..k : f[i] = IF i = 0 THEN first ELSE f[i - 1] * Byte + digits[i]
           Good == {k \in Nat : k <= n => \E f : Upto(f, k)}
<1>1. 0 \in Good
  <2> DEFINE f == [i \in 0..0 |-> first]
  <2>1. Upto(f, 0)
    OBVIOUS
  <2> HIDE DEF f, Upto
  <2>2. QED
    BY <2>1
<1>2. ASSUME NEW k \in Nat, k \in Good PROVE k + 1 \in Good
  <2> SUFFICES ASSUME k + 1 <= n PROVE \E f : Upto(f, k + 1)
    <3> HIDE DEF Upto
    <3>1. QED
      OBVIOUS
  <2>1. PICK f : Upto(f, k)
    <3> HIDE DEF Upto
    <3>1. k <= n
      <4>1. \A i, j \in Nat : i + 1 <= j => i <= j
        OBVIOUS
      <4>2. QED
        BY <4>1
    <3>2. QED
      BY <1>2, <3>1
  <2> DEFINE last == f[k] * Byte + digits[k + 1]
             g == [i \in 0..(k + 1) |-> IF i <= k THEN f[i] ELSE last]
  <2>2. last \in Int
    BY <1>0, <2>1
  <2>3. g \in [0..(k + 1) -> Int]
    <3> HIDE DEF last
    <3>1. \A i \in 0..(k + 1) : i <= k => i \in 0..k
      OBVIOUS
    <3>2. \A i \in 0..k : f[i] \in Int
      BY <2>1
    <3>3. QED
      BY <2>2, <3>1, <3>2
  <2>4. ASSUME NEW i \in 0..(k + 1)
        PROVE  g[i] = IF i = 0 THEN first ELSE g[i - 1] * Byte + digits[i]
    <3>1. i # 0 => i - 1 \in 0..k /\ g[i - 1] = f[i - 1]
      OBVIOUS
    <3>2. CASE i <= k
      <4>1. i \in 0..k /\ g[i] = f[i]
        BY <3>2
      <4>2. f[i] = IF i = 0 THEN first ELSE f[i - 1] * Byte + digits[i]
        BY <2>1, <4>1
      <4> HIDE DEF g, Upto
      <4>3. QED
        BY <3>1, <4>1, <4>2
    <3>3. CASE i = k + 1
      <4>1. g[i] = last /\ i # 0 /\ i - 1 = k
        BY <3>3
      <4> HIDE DEF g, Upto
      <4>2. QED
        BY <3>1, <3>3, <4>1
    <3>4. QED
      BY <3>2, <3>3
  <2>5. Upto(g, k + 1)
    <3> HIDE DEF g
    <3>1. QED
      BY <2>3, <2>4
  <2> HIDE DEF g, Upto
  <2>6. QED
    BY <2>5
<1> HIDE DEF Good
<1>3. Nat \subseteq Good
  BY <1>1, <1>2, Counting
<1>4. n \in Good /\ n <= n
  BY <1>3
<1>5. PICK f : Upto(f, n)
  BY <1>4 DEF Good
<1>6. f = [i \in 0..n |-> IF i = 0 THEN first ELSE f[i - 1] * Byte + digits[i]]
  BY <1>5
<1>7. QED
  BY <1>5, <1>6

(* The weights of the bytes.                                               *)
LEMMA WeightFacts ==
  /\ Weight[0] = 1
  /\ \A i \in 0..Bytes : Weight[i] \in Nat \ {0}
  /\ \A i \in 0..(Bytes - 1) : Weight[i + 1] = Weight[i] * Byte
<1>1. Byte \in Nat \ {0} /\ Bytes \in Nat \ {0}
  BY LogicalTypesAssumption
<1> DEFINE Is(w) == w = [i \in 0..Bytes |-> IF i = 0 THEN 1 ELSE w[i - 1] * Byte]
<1>2. \E w : Is(w)
  <2> DEFINE digits == [i \in 1..Bytes |-> 0]
  <2>1. digits \in [1..Bytes -> Int] /\ \A i \in 1..Bytes : digits[i] = 0
    OBVIOUS
  <2> HIDE DEF digits
  <2>2. PICK w : w = [i \in 0..Bytes |-> IF i = 0 THEN 1 ELSE w[i - 1] * Byte + digits[i]]
                 /\ w \in [0..Bytes -> Int]
    <3>1. ASSUME NEW n \in Nat, NEW first \in Int, NEW d \in [1..n -> Int]
          PROVE  \E f : f = [i \in 0..n |-> IF i = 0 THEN first ELSE f[i - 1] * Byte + d[i]]
                       /\ f \in [0..n -> Int]
      BY PositionalExists
    <3>2. Bytes \in Nat /\ 1 \in Int /\ digits \in [1..Bytes -> Int]
      BY <1>1, <2>1
    <3>3. QED
      BY <3>1, <3>2, Zenon
  <2>3. ASSUME NEW i \in 0..Bytes PROVE w[i] = IF i = 0 THEN 1 ELSE w[i - 1] * Byte
    <3>1. w[i] = IF i = 0 THEN 1 ELSE w[i - 1] * Byte + digits[i]
      BY <2>2
    <3>2. i # 0 => i - 1 \in 0..Bytes /\ i \in 1..Bytes
      BY <1>1
    <3>3. i # 0 => w[i - 1] * Byte \in Int /\ digits[i] = 0
      BY <1>1, <2>1, <2>2, <3>2
    <3>4. QED
      BY <3>1, <3>3
  <2>4. w = [i \in 0..Bytes |-> w[i]]
    BY <2>2
  <2>5. Is(w)
    BY <2>3, <2>4
  <2> HIDE DEF Is
  <2>6. QED
    BY <2>5
<1>3. Is(Weight)
  <2>1. Weight = CHOOSE w : Is(w)
    BY DEF Weight
  <2> HIDE DEF Is
  <2>2. QED
    BY <1>2, <2>1
<1>4. \A i \in 0..Bytes : Weight[i] = IF i = 0 THEN 1 ELSE Weight[i - 1] * Byte
  BY <1>3
<1> HIDE DEF Is
<1>5. Weight[0] = 1
  BY <1>1, <1>4
<1>6. ASSUME NEW i \in 0..(Bytes - 1) PROVE Weight[i + 1] = Weight[i] * Byte
  <2>1. i + 1 \in 0..Bytes /\ i + 1 # 0 /\ (i + 1) - 1 = i
    BY <1>1
  <2>2. QED
    BY <1>4, <2>1
<1> DEFINE Good == {i \in Nat : i <= Bytes => Weight[i] \in Nat \ {0}}
<1>7. 0 \in Good
  BY <1>5
<1>8. ASSUME NEW i \in Nat, i \in Good PROVE i + 1 \in Good
  <2> SUFFICES ASSUME i + 1 <= Bytes PROVE Weight[i + 1] \in Nat \ {0}
    OBVIOUS
  <2>1. i \in 0..(Bytes - 1) /\ Weight[i] \in Nat \ {0}
    BY <1>1, <1>8
  <2> HIDE DEF Good
  <2>2. Weight[i + 1] = Weight[i] * Byte
    BY <1>6, <2>1
  <2>3. QED
    BY <1>1, <2>1, <2>2, Product
<1> HIDE DEF Good
<1>9. Nat \subseteq Good
  BY <1>7, <1>8, Counting
<1>10. \A i \in 0..Bytes : Weight[i] \in Nat \ {0}
  BY <1>9 DEF Good
<1>11. QED
  BY <1>5, <1>6, <1>10

(* The value of a buffer, byte by byte.                                    *)
Octets == 0..(Byte - 1)

Adding(f, buf) ==
  /\ f \in [0..Len(buf) -> Int] /\ f[0] = 0
  /\ \A i \in 1..Len(buf) : f[i] = f[i - 1] * Byte + buf[i]

LEMMA UnsignedAdds ==
  ASSUME NEW buf \in Seq(Octets)
  PROVE  \E f : Adding(f, buf) /\ Unsigned(buf) = f[Len(buf)]
<1>1. Byte \in Nat \ {0}
  BY LogicalTypesAssumption
<1>2. PICK n \in Nat : n = Len(buf) /\ buf \in [1..n -> Octets]
  OBVIOUS
<1>3. buf \in [1..n -> Int]
  <2>1. Octets \subseteq Int
    BY <1>1 DEF Octets
  <2>2. QED
    BY <1>2, <2>1
<1> DEFINE Is(f) == f = [i \in 0..n |-> IF i = 0 THEN 0 ELSE f[i - 1] * Byte + buf[i]]
<1>4. PICK g : Is(g) /\ g \in [0..n -> Int]
  <2>1. ASSUME NEW k \in Nat, NEW first \in Int, NEW d \in [1..k -> Int]
        PROVE  \E f : f = [i \in 0..k |-> IF i = 0 THEN first ELSE f[i - 1] * Byte + d[i]]
                     /\ f \in [0..k -> Int]
    BY PositionalExists
  <2>2. 0 \in Int
    OBVIOUS
  <2>3. QED
    BY <1>3, <2>1, <2>2, Zenon
<1> DEFINE f == CHOOSE f : Is(f)
<1>5. Is(f) /\ Unsigned(buf) = f[n]
  <2>1. Unsigned(buf) = f[n]
    BY <1>2 DEF Unsigned
  <2> HIDE DEF Is
  <2>2. Is(f)
    BY <1>4
  <2>3. QED
    BY <2>1, <2>2
<1> HIDE DEF f
<1>6. f[0] = 0 /\ \A i \in 1..n : f[i] = f[i - 1] * Byte + buf[i]
  <2>1. \A i \in 0..n : f[i] = IF i = 0 THEN 0 ELSE f[i - 1] * Byte + buf[i]
    BY <1>5
  <2>2. 0 \in 0..n /\ \A i \in 1..n : i \in 0..n /\ i # 0
    OBVIOUS
  <2> HIDE DEF Is
  <2>3. QED
    BY <2>1, <2>2
<1> DEFINE Good == {i \in Nat : i <= n => f[i] \in Int}
<1>7. 0 \in Good
  BY <1>6
<1>8. ASSUME NEW i \in Nat, i \in Good PROVE i + 1 \in Good
  <2> SUFFICES ASSUME i + 1 <= n PROVE f[i + 1] \in Int
    OBVIOUS
  <2>1. i + 1 \in 1..n /\ (i + 1) - 1 = i /\ f[i] \in Int
    BY <1>8
  <2>2. f[i + 1] = f[i] * Byte + buf[i + 1] /\ buf[i + 1] \in Int
    BY <1>3, <1>6, <2>1
  <2>3. QED
    BY <1>1, <2>1, <2>2
<1> HIDE DEF Good
<1>9. Nat \subseteq Good
  BY <1>7, <1>8, Counting
<1>10. f \in [0..n -> Int]
  <2>1. \A i \in 0..n : f[i] \in Int
    BY <1>9 DEF Good
  <2>2. QED
    BY <1>5, <2>1
<1>11. QED
  BY <1>2, <1>5, <1>6, <1>10 DEF Adding

(* There is only one.                                                      *)
LEMMA UnsignedIs ==
  ASSUME NEW buf \in Seq(Octets), NEW g, Adding(g, buf)
  PROVE  Unsigned(buf) = g[Len(buf)]
<1>1. PICK f : Adding(f, buf) /\ Unsigned(buf) = f[Len(buf)]
  BY UnsignedAdds
<1>2. PICK n \in Nat : n = Len(buf)
  OBVIOUS
<1> DEFINE Good == {i \in Nat : i <= n => f[i] = g[i]}
<1>3. 0 \in Good
  BY <1>1 DEF Adding
<1>4. ASSUME NEW i \in Nat, i \in Good PROVE i + 1 \in Good
  <2> SUFFICES ASSUME i + 1 <= n PROVE f[i + 1] = g[i + 1]
    OBVIOUS
  <2>1. i + 1 \in 1..n /\ (i + 1) - 1 = i /\ f[i] = g[i]
    BY <1>4
  <2>2. f[i + 1] = f[i] * Byte + buf[i + 1] /\ g[i + 1] = g[i] * Byte + buf[i + 1]
    BY <1>1, <1>2, <2>1 DEF Adding
  <2>3. QED
    BY <2>1, <2>2
<1> HIDE DEF Good
<1>5. Nat \subseteq Good
  BY <1>3, <1>4, Counting
<1>6. f[n] = g[n]
  BY <1>5 DEF Good
<1>7. QED
  BY <1>1, <1>2, <1>6

LEMMA UnsignedRange ==
  ASSUME NEW buf \in Seq(Octets), Len(buf) <= Bytes
  PROVE  Unsigned(buf) \in 0..(Weight[Len(buf)] - 1)
<1>1. PICK f : Adding(f, buf) /\ Unsigned(buf) = f[Len(buf)]
  BY UnsignedAdds
<1>2. PICK n \in Nat : n = Len(buf) /\ \A i \in 1..n : buf[i] \in Octets
  OBVIOUS
<1>3. Byte \in Nat \ {0} /\ Bytes \in Nat
  BY LogicalTypesAssumption
<1> DEFINE Good == {i \in Nat : i <= n => f[i] \in 0..(Weight[i] - 1)}
<1>4. 0 \in Good
  BY <1>1, WeightFacts DEF Adding
<1>5. ASSUME NEW i \in Nat, i \in Good PROVE i + 1 \in Good
  <2> SUFFICES ASSUME i + 1 <= n PROVE f[i + 1] \in 0..(Weight[i + 1] - 1)
    OBVIOUS
  <2>1. i + 1 \in 1..n /\ (i + 1) - 1 = i /\ f[i] \in 0..(Weight[i] - 1)
        /\ i \in 0..(Bytes - 1) /\ i \in 0..Bytes
    BY <1>2, <1>3, <1>5
  <2> HIDE DEF Good
  <2>2. PICK w \in Nat \ {0} : w = Weight[i] /\ Weight[i + 1] = w * Byte
    BY <2>1, WeightFacts
  <2>3. PICK v \in 0..(w - 1), b \in 0..(Byte - 1) :
          v = f[i] /\ b = buf[i + 1] /\ f[i + 1] = v * Byte + b
    BY <1>1, <1>2, <2>1, <2>2 DEF Adding, Octets
  <2>4. 0 <= v * Byte /\ v * Byte <= (w - 1) * Byte /\ v * Byte \in Int
    BY <1>3
  <2>5. (w - 1) * Byte = w * Byte - Byte /\ w * Byte \in Int
    BY <1>3
  <2>6. v * Byte + b \in 0..(w * Byte - 1)
    BY <1>3, <2>4, <2>5
  <2>7. QED
    BY <2>2, <2>3, <2>6
<1> HIDE DEF Good
<1>6. Nat \subseteq Good
  BY <1>4, <1>5, Counting
<1>7. f[n] \in 0..(Weight[n] - 1)
  BY <1>6 DEF Good
<1>8. QED
  BY <1>1, <1>2, <1>7

LEMMA UnsignedConcat ==
  ASSUME NEW s \in Seq(Octets), NEW t \in Seq(Octets), Len(t) <= Bytes
  PROVE  /\ s \o t \in Seq(Octets) /\ Len(s \o t) = Len(s) + Len(t)
         /\ Unsigned(s \o t) = Unsigned(s) * Weight[Len(t)] + Unsigned(t)
<1>1. PICK f : Adding(f, s) /\ Unsigned(s) = f[Len(s)]
  BY UnsignedAdds
<1>2. PICK h : Adding(h, t) /\ Unsigned(t) = h[Len(t)]
  BY UnsignedAdds
<1>3. PICK n \in Nat, k \in Nat : n = Len(s) /\ k = Len(t) /\ k <= Bytes
  OBVIOUS
<1>4. Byte \in Nat \ {0} /\ Bytes \in Nat
  BY LogicalTypesAssumption
<1>5. PICK u \in Seq(Octets) : u = s \o t /\ Len(u) = n + k
  <2>1. s \o t \in Seq(Octets) /\ Len(s \o t) = Len(s) + Len(t)
    OBVIOUS
  <2>2. PICK u : u = s \o t
    OBVIOUS
  <2>3. u \in Seq(Octets) /\ Len(u) = n + k
    BY <1>3, <2>1, <2>2
  <2>4. QED
    BY <2>2, <2>3
<1>6. /\ \A i \in 1..n : u[i] = s[i]
      /\ \A i \in 1..k : u[n + i] = t[i]
  BY <1>3, <1>5
<1>7. PICK v \in Int : v = f[n]
  BY <1>1, <1>3 DEF Adding
<1> DEFINE g == [i \in 0..(n + k) |-> IF i <= n THEN f[i] ELSE v * Weight[i - n] + h[i - n]]
<1>8. g[0] = 0
  BY <1>1 DEF Adding
<1>9. ASSUME NEW i \in 0..(n + k) PROVE g[i] \in Int
  <2>1. CASE i <= n
    <3>1. f \in [0..n -> Int] /\ i \in 0..n /\ g[i] = f[i]
      BY <1>1, <1>3, <2>1 DEF Adding
    <3> HIDE DEF g
    <3>2. QED
      BY <3>1
  <2>2. CASE i > n
    <3> HIDE DEF g
    <3>0. i \in Int /\ i <= n + k
      BY <1>3
    <3>1. PICK j \in 0..k : j = i - n /\ j \in 0..Bytes
      <4>1. i - n \in 0..k
        BY <1>3, <2>2, <3>0
      <4>2. \A j \in 0..k : j \in 0..Bytes
        BY <1>3, <1>4
      <4>3. QED
        BY <4>1, <4>2
    <3>2. Weight[i - n] \in Int /\ h[i - n] \in Int
      <4>1. h \in [0..k -> Int]
        BY <1>2, <1>3 DEF Adding
      <4>2. QED
        BY <3>1, <4>1, WeightFacts
    <3>3. v * Weight[i - n] \in Int
      BY <3>2
    <3>4. g[i] = v * Weight[i - n] + h[i - n]
      BY <2>2 DEF g
    <3>5. QED
      BY <3>2, <3>3, <3>4
  <2>3. QED
    BY <2>1, <2>2
<1>10. ASSUME NEW i \in 1..(n + k) PROVE g[i] = g[i - 1] * Byte + u[i]
  <2>1. i \in 0..(n + k) /\ i - 1 \in 0..(n + k)
    OBVIOUS
  <2>2. CASE i <= n
    <3>1. g[i] = f[i] /\ g[i - 1] = f[i - 1] /\ i \in 1..n
      BY <2>1, <2>2
    <3> HIDE DEF g
    <3>2. QED
      BY <1>1, <1>3, <1>6, <3>1 DEF Adding
  <2>3. CASE i > n
    <3>1. PICK j \in 1..k : j = i - n /\ i = n + j
      BY <2>3
    <3>2. g[i] = v * Weight[j] + h[j]
      BY <2>1, <2>3, <3>1
    <3>3. g[i - 1] = v * Weight[j - 1] + h[j - 1]
      <4>1. CASE j = 1
        <5>1. g[i - 1] = v /\ j - 1 = 0
          BY <1>7, <2>1, <3>1, <4>1
        <5>2. Weight[0] = 1 /\ h[0] = 0
          BY <1>2, WeightFacts DEF Adding
        <5> HIDE DEF g
        <5>3. QED
          BY <5>1, <5>2
      <4>2. CASE j # 1
        <5>1. ~(i - 1 <= n) /\ (i - 1) - n = j - 1
          BY <3>1, <4>2
        <5>2. QED
          BY <2>1, <5>1
      <4>3. QED
        BY <4>1, <4>2
    <3> HIDE DEF g
    <3>4. u[i] = t[j] /\ h[j] = h[j - 1] * Byte + t[j]
      BY <1>2, <1>3, <1>6, <3>1 DEF Adding
    <3>5. j - 1 \in 0..(Bytes - 1) /\ (j - 1) + 1 = j /\ j - 1 \in 0..Bytes /\ j - 1 \in 0..k
      BY <1>3, <1>4
    <3>6. PICK w \in Int : w = Weight[j - 1] /\ Weight[j] = w * Byte
      BY <3>5, WeightFacts
    <3>7. PICK e \in Int, b \in Int : e = h[j - 1] /\ b = t[j]
      <4>1. t[j] \in Octets
        BY <1>3
      <4>2. t[j] \in Int
        BY <1>4, <4>1 DEF Octets
      <4>3. h[j - 1] \in Int
        BY <1>2, <1>3, <3>5 DEF Adding
      <4>4. QED
        BY <4>2, <4>3
    <3>8. v * (w * Byte) = (v * w) * Byte /\ v * w \in Int
      BY <1>4
    <3>9. (v * w + e) * Byte = (v * w) * Byte + e * Byte
      BY <1>4, <3>8
    <3>10. (v * w) * Byte \in Int /\ e * Byte \in Int
      BY <1>4, <3>8
    <3>11. g[i] = (v * w) * Byte + (e * Byte + b)
      BY <3>2, <3>4, <3>6, <3>7, <3>8
    <3>12. g[i - 1] * Byte + u[i] = ((v * w) * Byte + e * Byte) + b
      BY <3>3, <3>4, <3>6, <3>7, <3>9
    <3>13. QED
      BY <3>7, <3>10, <3>11, <3>12
  <2>4. QED
    BY <2>2, <2>3
<1>11. g[n + k] = v * Weight[k] + h[k]
  <2>1. CASE k = 0
    <3>1. g[n + k] = v
      BY <1>7, <2>1
    <3>2. Weight[0] = 1 /\ h[0] = 0
      BY <1>2, WeightFacts DEF Adding
    <3> HIDE DEF g
    <3>3. QED
      BY <2>1, <3>1, <3>2
  <2>2. CASE k # 0
    <3>1. ~(n + k <= n) /\ (n + k) - n = k /\ n + k \in 0..(n + k)
      BY <2>2
    <3>2. QED
      BY <3>1
  <2>3. QED
    BY <2>1, <2>2
<1>12. g = [i \in 0..(n + k) |-> g[i]]
  OBVIOUS
<1> HIDE DEF g
<1>13. Adding(g, u)
  BY <1>5, <1>8, <1>9, <1>10, <1>12 DEF Adding
<1>14. Unsigned(u) = v * Weight[k] + h[k]
  BY <1>5, <1>11, <1>13, UnsignedIs
<1>15. QED
  BY <1>1, <1>2, <1>3, <1>5, <1>7, <1>14

(* The bytes of an Int64BE hold the number modulo 2^64.                    *)
LEMMA BytesHold ==
  ASSUME NEW n \in Int
  PROVE  /\ Int64Bytes(n) \in Seq(Octets) /\ Len(Int64Bytes(n)) = Bytes
         /\ Unsigned(Int64Bytes(n)) = n % Range64
<1>1. Byte \in Nat \ {0} /\ Bytes \in Nat \ {0}
  BY LogicalTypesAssumption
<1>2. PICK r \in Nat \ {0} : r = Range64 /\ r = Weight[Bytes]
  BY <1>1, WeightFacts DEF Range64
<1>3. PICK m \in 0..(r - 1) : m = n % r
  BY Division
<1>4. \A i \in 1..Bytes : Bytes - i \in 0..(Bytes - 1) /\ Bytes - i \in 0..Bytes
  BY <1>1
<1>5. \A i \in 0..Bytes : Bytes - i \in 0..Bytes
  BY <1>1
<1>6. PICK buf : buf = Int64Bytes(n)
  OBVIOUS
<1>7. \A i \in 1..Bytes : buf[i] = (m \div Weight[Bytes - i]) % Byte
  BY <1>2, <1>3, <1>6 DEF Int64Bytes
<1>8. buf \in Seq(Octets) /\ Len(buf) = Bytes
  <2>1. ASSUME NEW i \in 1..Bytes PROVE buf[i] \in Octets
    <3>1. PICK w \in Nat \ {0} : w = Weight[Bytes - i]
      BY <1>4, WeightFacts
    <3>2. m \div w \in Int
      BY Division
    <3>3. (m \div w) % Byte \in 0..(Byte - 1)
      BY <1>1, <3>2, Division
    <3>4. QED
      BY <1>7, <3>1, <3>3 DEF Octets
  <2>2. buf = [i \in 1..Bytes |-> buf[i]]
    BY <1>6 DEF Int64Bytes
  <2>3. buf \in [1..Bytes -> Octets]
    BY <2>1, <2>2
  <2>4. QED
    BY <1>1, <2>3
<1> DEFINE g == [i \in 0..Bytes |-> m \div Weight[Bytes - i]]
<1>9. g[0] = 0
  <2>1. g[0] = m \div r
    BY <1>1, <1>2
  <2>2. (0 * r + m) \div r = 0
    BY DivisionIs
  <2>3. 0 * r + m = m
    OBVIOUS
  <2>4. QED
    BY <2>1, <2>2, <2>3
<1>10. g[Bytes] = m
  <2>1. g[Bytes] = m \div 1
    BY <1>1, WeightFacts
  <2>2. m \div 1 = m
    OBVIOUS
  <2>3. QED
    BY <2>1, <2>2
<1>11. ASSUME NEW i \in 0..Bytes PROVE g[i] \in Int
  <2>1. PICK w \in Nat \ {0} : w = Weight[Bytes - i]
    BY <1>5, WeightFacts
  <2>2. m \div w \in Int
    BY Division
  <2>3. QED
    BY <2>1, <2>2
<1>12. ASSUME NEW i \in 1..Bytes PROVE g[i] = g[i - 1] * Byte + buf[i]
  <2>1. PICK j \in 0..(Bytes - 1) : j = Bytes - i /\ j + 1 = Bytes - (i - 1)
    BY <1>1
  <2>2. PICK w \in Nat \ {0} : w = Weight[j] /\ Weight[j + 1] = w * Byte
    <3>1. j \in 0..Bytes
      BY <1>1
    <3>2. QED
      BY <3>1, WeightFacts
  <2>3. i \in 0..Bytes /\ i - 1 \in 0..Bytes
    BY <1>1
  <2>4. g[i] = m \div w
    BY <2>1, <2>2, <2>3
  <2>5. g[i - 1] = m \div (w * Byte)
    BY <2>1, <2>2, <2>3
  <2>6. buf[i] = (m \div w) % Byte
    BY <1>7, <2>1, <2>2
  <2> HIDE DEF g
  <2>7. m \div w = (m \div (w * Byte)) * Byte + ((m \div w) % Byte)
    <3>1. m \in Int
      OBVIOUS
    <3>2. QED
      BY <1>1, <3>1, DivideTwice, Zenon
  <2>8. QED
    BY <2>4, <2>5, <2>6, <2>7
<1>13. g = [i \in 0..Bytes |-> g[i]]
  OBVIOUS
<1> HIDE DEF g
<1>14. Adding(g, buf)
  BY <1>8, <1>9, <1>11, <1>12, <1>13 DEF Adding
<1>15. Unsigned(buf) = m
  BY <1>8, <1>10, <1>14, UnsignedIs
<1>16. QED
  BY <1>2, <1>3, <1>6, <1>8, <1>15

LEMMA WeightsMultiply ==
  ASSUME NEW p \in Nat, NEW q \in Nat, p + q <= Bytes
  PROVE  Weight[p] * Weight[q] = Weight[p + q]
<1>1. Byte \in Nat \ {0} /\ Bytes \in Nat \ {0}
  BY LogicalTypesAssumption
<1>2. PICK w \in Nat \ {0} : w = Weight[p]
  <2>1. p \in 0..Bytes
    BY <1>1
  <2>2. QED
    BY <2>1, WeightFacts
<1> DEFINE Good == {i \in Nat : i <= q => w * Weight[i] = Weight[p + i]}
<1>3. 0 \in Good
  <2>1. p + 0 = p /\ w * 1 = w
    OBVIOUS
  <2>2. QED
    BY <1>2, <2>1, WeightFacts
<1>4. ASSUME NEW i \in Nat, i \in Good PROVE i + 1 \in Good
  <2> SUFFICES ASSUME i + 1 <= q PROVE w * Weight[i + 1] = Weight[p + (i + 1)]
    OBVIOUS
  <2>1. w * Weight[i] = Weight[p + i]
    BY <1>4
  <2>2. i \in 0..(Bytes - 1) /\ p + i \in 0..(Bytes - 1) /\ (p + i) + 1 = p + (i + 1)
        /\ i \in 0..Bytes
    BY <1>1
  <2> HIDE DEF Good
  <2>3. PICK v \in Nat \ {0} : v = Weight[i] /\ Weight[i + 1] = v * Byte
    BY <2>2, WeightFacts
  <2>4. Weight[p + (i + 1)] = Weight[p + i] * Byte
    BY <2>2, WeightFacts
  <2>5. w * (v * Byte) = (w * v) * Byte
    BY <1>1
  <2>6. QED
    BY <2>1, <2>3, <2>4, <2>5
<1> HIDE DEF Good
<1>5. Nat \subseteq Good
  BY <1>3, <1>4, Counting
<1>6. w * Weight[q] = Weight[p + q]
  BY <1>5 DEF Good
<1>7. QED
  BY <1>2, <1>6

(* Filling a buffer up with one byte.                                      *)
LEMMA PadHolds ==
  ASSUME NEW n \in 0..Bytes, NEW b \in {0, Byte - 1}, NEW pad, pad = [i \in 1..n |-> b]
  PROVE  /\ pad \in Seq(Octets) /\ Len(pad) = n
         /\ Unsigned(pad) = IF b = 0 THEN 0 ELSE Weight[n] - 1
<1>1. Byte \in Nat \ {0} /\ Bytes \in Nat \ {0}
  BY LogicalTypesAssumption
<1>2. n \in Nat /\ n <= Bytes
  BY <1>1
<1>3. pad \in Seq(Octets) /\ Len(pad) = n /\ \A i \in 1..n : pad[i] = b
  <2>1. b \in Octets
    BY <1>1 DEF Octets
  <2>2. pad \in [1..n -> Octets]
    BY <2>1
  <2>3. QED
    BY <1>2, <2>2
<1> DEFINE g == [i \in 0..n |-> IF b = 0 THEN 0 ELSE Weight[i] - 1]
<1>4. g[0] = 0
  BY <1>2, WeightFacts
<1>5. ASSUME NEW i \in 0..n PROVE g[i] \in Int
  <2>1. i \in 0..Bytes
    BY <1>1, <1>2
  <2>2. Weight[i] \in Int
    BY <2>1, WeightFacts
  <2>3. QED
    BY <2>2
<1>6. ASSUME NEW i \in 1..n PROVE g[i] = g[i - 1] * Byte + pad[i]
  <2>1. i \in 0..n /\ i - 1 \in 0..n /\ i - 1 \in 0..(Bytes - 1) /\ (i - 1) + 1 = i
        /\ i - 1 \in 0..Bytes
    BY <1>1, <1>2
  <2>2. PICK w \in Nat \ {0} : w = Weight[i - 1] /\ Weight[i] = w * Byte
    BY <2>1, WeightFacts
  <2>3. CASE b = 0
    <3>1. g[i] = 0 /\ g[i - 1] = 0 /\ pad[i] = 0
      BY <1>3, <2>1, <2>3
    <3> HIDE DEF g
    <3>2. QED
      BY <1>1, <3>1
  <2>4. CASE b # 0
    <3>1. g[i] = w * Byte - 1 /\ g[i - 1] = w - 1 /\ pad[i] = Byte - 1
      BY <1>3, <2>1, <2>2, <2>4
    <3>2. (w - 1) * Byte = w * Byte - Byte /\ w * Byte \in Int
      BY <1>1
    <3> HIDE DEF g
    <3>3. QED
      BY <1>1, <3>1, <3>2
  <2>5. QED
    BY <2>3, <2>4
<1>7. g[n] = IF b = 0 THEN 0 ELSE Weight[n] - 1
  BY <1>2
<1>8. g = [i \in 0..n |-> g[i]]
  OBVIOUS
<1> HIDE DEF g
<1>9. Adding(g, pad)
  BY <1>3, <1>4, <1>5, <1>6, <1>8 DEF Adding
<1>10. QED
  BY <1>3, <1>7, <1>9, UnsignedIs

Negative(buf) == buf # <<>> /\ Head(buf) >= Byte \div 2

LEMMA FilledUp ==
  ASSUME NEW buf \in Seq(Octets), NEW n \in Nat, n = Len(buf), n <= Bytes
  PROVE  Unsigned(to64Bit(buf)) =
           (IF Negative(buf) THEN Range64 - Weight[n] ELSE 0) + Unsigned(buf)
<1>1. Byte \in Nat \ {0} /\ Bytes \in Nat \ {0} /\ Byte % 2 = 0
  BY LogicalTypesAssumption
<1>2. PICK p \in Nat : p = Bytes - n /\ p \in 0..Bytes /\ n \in 0..Bytes /\ p + n = Bytes
  <2>1. PICK k \in Nat : k = Bytes /\ n <= k
    BY <1>1
  <2>2. k - n \in Nat /\ k - n \in 0..k /\ n \in 0..k /\ (k - n) + n = k
    BY <2>1
  <2>3. QED
    BY <2>1, <2>2
<1>3. PICK b \in {0, Byte - 1} : b = IF Negative(buf) THEN Byte - 1 ELSE 0
  <2>1. CASE Negative(buf)
    BY <2>1
  <2>2. CASE ~Negative(buf)
    BY <2>2
  <2>3. QED
    BY <2>1, <2>2
<1>4. PICK pad : pad = [i \in 1..p |-> b]
  OBVIOUS
<1>5. to64Bit(buf) = pad \o buf
  BY <1>2, <1>3, <1>4 DEF to64Bit, Negative
<1>6. pad \in Seq(Octets) /\ Unsigned(pad) = IF b = 0 THEN 0 ELSE Weight[p] - 1
  BY <1>2, <1>4, PadHolds
<1>7. PICK w \in Nat \ {0}, v \in Nat \ {0} : w = Weight[n] /\ v = Weight[p] /\ v * w = Range64
  <2>1. Weight[p] * Weight[n] = Weight[p + n]
    BY <1>2, WeightsMultiply
  <2>2. Weight[n] \in Nat \ {0} /\ Weight[p] \in Nat \ {0}
    BY <1>2, WeightFacts
  <2>3. QED
    BY <1>2, <2>1, <2>2 DEF Range64
<1>8. PICK u \in Int : u = Unsigned(buf)
  <2>1. Unsigned(buf) \in 0..(Weight[Len(buf)] - 1)
    BY UnsignedRange
  <2>2. QED
    BY <1>7, <2>1
<1>9. Unsigned(pad \o buf) = Unsigned(pad) * w + u
  BY <1>6, <1>7, <1>8, UnsignedConcat
<1>10. (v - 1) * w = v * w - w /\ v * w \in Int /\ 0 * w = 0
  OBVIOUS
<1>11. Byte - 1 # 0
  BY <1>1
<1>12. QED
  BY <1>3, <1>5, <1>6, <1>7, <1>8, <1>9, <1>10, <1>11

LEMMA HalfByte == \E half \in Nat \ {0} : Byte = 2 * half /\ Byte \div 2 = half
<1>1. Byte \in Nat \ {0} /\ Byte % 2 = 0
  BY LogicalTypesAssumption
<1>2. PICK b \in Nat \ {0} : b = Byte /\ b % 2 = 0
  BY <1>1
<1>3. b = 2 * (b \div 2) /\ b \div 2 \in Nat \ {0}
  BY <1>2
<1>4. QED
  BY <1>2, <1>3

(* The first bit is set in the buffers of more than half of the range.     *)
LEMMA FirstBit ==
  ASSUME NEW buf \in Seq(Octets), NEW n \in Nat, n = Len(buf), n \in 1..Bytes
  PROVE  Negative(buf) <=> 2 * Unsigned(buf) >= Weight[n]
<1>1. Byte \in Nat \ {0} /\ Bytes \in Nat \ {0}
  BY LogicalTypesAssumption
<1>2. PICK half \in Nat : Byte = 2 * half /\ Byte \div 2 = half
  BY HalfByte
<1>3. PICK h \in Octets, t \in Seq(Octets) :
        h = Head(buf) /\ t = Tail(buf) /\ Len(t) = n - 1 /\ buf = <<h>> \o t /\ buf # <<>>
  <2>1. Head(buf) \in Octets /\ Tail(buf) \in Seq(Octets) /\ Len(Tail(buf)) = n - 1 /\ buf # <<>>
    OBVIOUS
  <2>2. buf = <<Head(buf)>> \o Tail(buf)
    OBVIOUS
  <2>3. QED
    BY <2>1, <2>2
<1>4. PICK j \in Nat : j = n - 1 /\ j + 1 = n /\ j \in 0..(Bytes - 1) /\ j \in 0..Bytes /\ j <= Bytes
  BY <1>1
<1>5. PICK w \in Nat \ {0} : w = Weight[j] /\ Weight[n] = w * Byte
  BY <1>4, WeightFacts
<1>6. <<h>> \in Seq(Octets) /\ Unsigned(<<h>>) = h
  <2>1. <<h>> \in Seq(Octets) /\ Len(<<h>>) = 1 /\ <<h>>[1] = h
    OBVIOUS
  <2>2. h \in Int
    BY <1>1 DEF Octets
  <2> DEFINE g == [i \in 0..1 |-> IF i = 0 THEN 0 ELSE h]
  <2>3. g \in [0..1 -> Int] /\ g[0] = 0 /\ g[1] = h
    BY <2>2
  <2> HIDE DEF g
  <2>4. g[1] = g[0] * Byte + h
    BY <1>1, <2>2, <2>3
  <2>5. \A i \in 1..1 : i = 1 /\ i - 1 = 0
    OBVIOUS
  <2>6. Adding(g, <<h>>)
    BY <2>1, <2>3, <2>4, <2>5 DEF Adding
  <2>7. Unsigned(<<h>>) = g[Len(<<h>>)]
    BY <2>1, <2>6, UnsignedIs
  <2>8. QED
    BY <2>1, <2>3, <2>7
<1>7. PICK u \in 0..(w - 1) : u = Unsigned(t)
  BY <1>3, <1>4, <1>5, UnsignedRange
<1>8. Unsigned(buf) = h * w + u
  <2>1. Len(t) <= Bytes
    BY <1>3, <1>4
  <2>2. Unsigned(<<h>> \o t) = Unsigned(<<h>>) * Weight[Len(t)] + Unsigned(t)
    BY <1>6, <2>1, UnsignedConcat
  <2>3. QED
    BY <1>3, <1>4, <1>5, <1>6, <1>7, <2>2
<1>9. PICK a \in Nat : a = h /\ h * w = a * w /\ a * w \in Int
  BY <1>1 DEF Octets
<1>10. Weight[n] = 2 * (half * w) /\ half * w \in Int
  <2>1. w * (2 * half) = 2 * (half * w)
    OBVIOUS
  <2>2. QED
    BY <1>2, <1>5, <2>1
<1>11. a >= half => a * w >= half * w
  OBVIOUS
<1>12. ~(a >= half) => a * w <= half * w - w
  <2>1. ~(a >= half) => a <= half - 1
    OBVIOUS
  <2>2. a <= half - 1 => a * w <= (half - 1) * w
    OBVIOUS
  <2>3. (half - 1) * w = half * w - w
    OBVIOUS
  <2>4. QED
    BY <2>1, <2>2, <2>3
<1>13. a >= half <=> 2 * (a * w + u) >= 2 * (half * w)
  BY <1>9, <1>10, <1>11, <1>12
<1>14. Negative(buf) <=> a >= half
  BY <1>2, <1>3, <1>9 DEF Negative
<1>15. QED
  BY <1>8, <1>9, <1>10, <1>13, <1>14

LEMMA RangeFacts ==
  /\ Range64 = Weight[Bytes]
  /\ \E h \in Nat \ {0} : Range64 = 2 * h /\ Range64 \div 2 = h
  /\ \A i \in 0..Bytes : Weight[i] \in Nat \ {0} /\ Weight[i] <= Range64
<1>1. Byte \in Nat \ {0} /\ Bytes \in Nat \ {0}
  BY LogicalTypesAssumption
<1>2. Range64 = Weight[Bytes]
  BY DEF Range64
<1>3. \E h \in Nat \ {0} : Range64 = 2 * h /\ Range64 \div 2 = h
  <2>1. PICK half \in Nat \ {0} : Byte = 2 * half
    BY HalfByte
  <2>2. PICK j \in 0..(Bytes - 1) : j + 1 = Bytes /\ j \in 0..Bytes
    BY <1>1
  <2>3. PICK w \in Nat \ {0} : w = Weight[j] /\ Range64 = w * Byte
    BY <1>2, <2>2, WeightFacts
  <2>4. PICK h \in Nat \ {0} : h = w * half
    BY Product
  <2>5. w * (2 * half) = 2 * (w * half)
    OBVIOUS
  <2>6. Range64 = 2 * h
    BY <2>1, <2>3, <2>4, <2>5
  <2>7. (2 * h) \div 2 = h
    OBVIOUS
  <2>8. QED
    BY <2>6, <2>7
<1>4. ASSUME NEW i \in 0..Bytes PROVE Weight[i] \in Nat \ {0} /\ Weight[i] <= Range64
  <2>1. PICK p \in Nat : p \in 0..Bytes /\ p + i = Bytes
    <3>1. PICK k \in Nat : k = Bytes
      BY <1>1
    <3>2. k - i \in 0..k /\ (k - i) + i = k /\ k - i \in Nat
      BY <3>1
    <3>3. QED
      BY <3>1, <3>2
  <2>2. Weight[p] * Weight[i] = Weight[p + i]
    BY <1>1, <2>1, WeightsMultiply
  <2>3. PICK v \in Nat \ {0}, w \in Nat \ {0} : v = Weight[p] /\ w = Weight[i] /\ v * w = Range64
    BY <1>2, <2>1, <2>2, WeightFacts
  <2>4. v * w >= w
    <3>1. v >= 1
      OBVIOUS
    <3>2. v * w >= 1 * w
      BY <3>1
    <3>3. QED
      BY <3>2
  <2>5. QED
    BY <2>3, <2>4
<1>5. QED
  BY <1>2, <1>3, <1>4

(* A buffer is read as the two's complement number that it holds.          *)
LEMMA TwosComplement ==
  ASSUME NEW buf \in Seq(Octets), NEW n \in Nat, n = Len(buf), n <= Bytes
  PROVE  Int64(to64Bit(buf)) =
           IF n # 0 /\ 2 * Unsigned(buf) >= Weight[n] THEN Unsigned(buf) - Weight[n]
           ELSE Unsigned(buf)
<1>1. n \in 0..Bytes /\ (n # 0 => n \in 1..Bytes)
  BY LogicalTypesAssumption
<1>2. PICK h \in Nat \ {0}, w \in Nat \ {0} :
        Range64 = 2 * h /\ Range64 \div 2 = h /\ w = Weight[n] /\ w <= 2 * h
  BY <1>1, RangeFacts
<1>3. PICK u \in 0..(w - 1) : u = Unsigned(buf)
  BY <1>2, UnsignedRange
<1>4. PICK x : x = Unsigned(to64Bit(buf))
  OBVIOUS
<1>5. x = (IF Negative(buf) THEN 2 * h - w ELSE 0) + u
  BY <1>2, <1>3, <1>4, FilledUp
<1>6. Int64(to64Bit(buf)) = IF x < h THEN x ELSE x - 2 * h
  BY <1>2, <1>4 DEF Int64
<1>7. n = 0 <=> buf = <<>>
  OBVIOUS
<1>8. CASE n = 0
  <2>1. ~Negative(buf)
    BY <1>7, <1>8 DEF Negative
  <2>2. w = 1
    BY <1>2, <1>8, WeightFacts
  <2>3. x = u /\ u < h
    BY <1>3, <1>5, <2>1, <2>2
  <2>4. QED
    BY <1>3, <1>6, <1>8, <2>3
<1>9. CASE n # 0
  <2>1. Negative(buf) <=> 2 * u >= w
    BY <1>1, <1>2, <1>3, <1>9, FirstBit
  <2>2. CASE 2 * u >= w
    <3>1. x = (2 * h - w) + u
      BY <1>5, <2>1, <2>2
    <3>2. ~(x < h) /\ x - 2 * h = u - w
      BY <1>2, <2>2, <3>1
    <3>3. QED
      BY <1>2, <1>3, <1>6, <1>9, <2>2, <3>2
  <2>3. CASE ~(2 * u >= w)
    <3>1. x = u
      BY <1>5, <2>1, <2>3
    <3>2. x < h
      BY <1>2, <2>3, <3>1
    <3>3. QED
      BY <1>2, <1>3, <1>6, <1>9, <2>3, <3>1, <3>2
  <2>4. QED
    BY <2>2, <2>3
<1>10. QED
  BY <1>8, <1>9

LEMMA NumbersReturn ==
  ASSUME NEW t \in Int, NEW h \in Nat, Range64 = 2 * h, -h <= t, t < h
  PROVE  Int64(to64Bit(Int64Bytes(t))) = t
<1>1. PICK buf \in Seq(Octets) :
        buf = Int64Bytes(t) /\ Len(buf) = Bytes /\ Unsigned(buf) = t % Range64
  BY BytesHold
<1>2. PICK n \in Nat : n = Bytes /\ n # 0 /\ n <= Bytes /\ Weight[n] = 2 * h /\ 2 * h \in Nat \ {0}
  BY LogicalTypesAssumption, RangeFacts, WeightFacts DEF Range64
<1>3. PICK r \in Nat \ {0} : r = 2 * h
  BY <1>2
<1>4. Int64(to64Bit(buf)) = IF 2 * (t % r) >= r THEN (t % r) - r ELSE t % r
  BY <1>1, <1>2, <1>3, TwosComplement
<1>5. t % r = IF t >= 0 THEN t ELSE t + r
  <2>1. CASE t >= 0
    <3>1. t \in 0..(r - 1)
      BY <1>3, <2>1
    <3>2. (0 * r + t) % r = t
      BY <3>1, DivisionIs
    <3>3. 0 * r + t = t
      OBVIOUS
    <3>4. QED
      BY <2>1, <3>2, <3>3
  <2>2. CASE ~(t >= 0)
    <3>1. PICK s \in 0..(r - 1) : s = t + r
      BY <1>3, <2>2
    <3>2. ((-1) * r + s) % r = s
      BY DivisionIs
    <3>3. (-1) * r + s = t
      BY <3>1
    <3>4. QED
      BY <2>2, <3>1, <3>2, <3>3
  <2>3. QED
    BY <2>1, <2>2
<1>6. QED
  BY <1>1, <1>3, <1>4, <1>5

(* A non-empty set of numbers has a least one. *)
LEMMA Least ==
  ASSUME NEW S \in SUBSET Nat, S # {}
  PROVE  \E x \in S : \A y \in S : x <= y
<1>1. PICK x \in S : \A y \in S : ~(<<y, x>> \in OpToRel(<, Nat))
  BY NatLessThanWellFounded, WFMin
<1>2. \A y, z \in Nat : y < z => <<y, z>> \in OpToRel(<, Nat)
  BY DEF OpToRel
<1>3. \A y \in S : ~(y < x)
  BY <1>1, <1>2, Zenon
<1>4. QED
  BY <1>3

(* Rounding to a place g does not pass a multiple of g.                    *)
LEMMA RoundFacts ==
  ASSUME NEW a \in Nat, NEW g \in Nat \ {0}
  PROVE  LET r == ((2 * a + g) \div (2 * g)) * g
         IN  /\ r \in Int /\ 2 * (r - a) \in (1 - g)..g
             /\ \A m \in Int : m * g <= a => m * g <= r
             /\ \A m \in Int : a <= m * g => r <= m * g
<1>1. PICK e \in Nat \ {0} : e = 2 * g
  OBVIOUS
<1>2. PICK k \in Int, s \in 0..(e - 1) : k = (2 * a + g) \div e /\ 2 * a + g = k * e + s
  <2>1. 2 * a + g \in Int
    OBVIOUS
  <2>2. QED
    BY <2>1, Division
<1>3. PICK r \in Int : r = k * g
  OBVIOUS
<1>4. k * e = 2 * r
  <2>1. k * (2 * g) = 2 * (k * g)
    OBVIOUS
  <2>2. QED
    BY <1>1, <1>3, <2>1
<1>5. 2 * (r - a) = g - s /\ g - s \in (1 - g)..g
  BY <1>1, <1>2, <1>4
<1>6. ASSUME NEW m \in Int, m * g <= a PROVE m * g <= r
  <2>1. SUFFICES ASSUME k <= m - 1 PROVE FALSE
    <3>1. k >= m => k * g >= m * g
      OBVIOUS
    <3>2. QED
      BY <1>3, <3>1
  <2>2. k * g <= (m - 1) * g
    BY <2>1
  <2>3. (m - 1) * g = m * g - g
    OBVIOUS
  <2>4. m * g \in Int
    OBVIOUS
  <2>5. QED
    BY <1>3, <1>5, <1>6, <2>2, <2>3, <2>4
<1>7. ASSUME NEW m \in Int, a <= m * g PROVE r <= m * g
  <2>1. SUFFICES ASSUME k >= m + 1 PROVE FALSE
    <3>1. k <= m => k * g <= m * g
      OBVIOUS
    <3>2. QED
      BY <1>3, <3>1
  <2>2. k * g >= (m + 1) * g
    BY <2>1
  <2>3. (m + 1) * g = m * g + g
    OBVIOUS
  <2>4. m * g \in Int
    OBVIOUS
  <2>5. QED
    BY <1>3, <1>5, <1>7, <2>2, <2>3, <2>4
<1>8. r = ((2 * a + g) \div (2 * g)) * g
  BY <1>1, <1>2, <1>3
<1>9. QED
  BY <1>5, <1>6, <1>7, <1>8

(* The last place that is kept of a number is one of a digit that the      *)
(* scale cuts off, and 1 if the number has no more digits than are kept.   *)
LEMMA LastPlaceFacts ==
  ASSUME NEW a \in Nat, a < Precision * Finer
  PROVE  /\ LastPlace(a) \in Nat \ {0} /\ Finer % LastPlace(a) = 0
         /\ a < Precision => LastPlace(a) = 1
<1> DEFINE S == {g \in Places : a < Precision * g}
<1>1. /\ Finer \in Places /\ 1 \in Places /\ Places \subseteq Nat \ {0}
      /\ \A f, g \in Places : f <= g => g % f = 0
      /\ Precision \in Nat
  BY LogicalTypesAssumption
<1>2. Finer \in S /\ S \in SUBSET Nat
  BY <1>1
<1>3. PICK x \in S : \A y \in S : x <= y
  <2> HIDE DEF S
  <2>1. S # {}
    BY <1>2
  <2>2. QED
    BY <1>2, <2>1, Least
<1>4. \E g \in Places : /\ a < Precision * g
                        /\ \A finer \in Places : finer < g => a >= Precision * finer
  <2>1. x \in Places /\ a < Precision * x
    BY <1>3
  <2>2. ASSUME NEW finer \in Places, finer < x PROVE a >= Precision * finer
    <3>1. finer \notin S
      BY <1>1, <1>2, <1>3, <2>2
    <3>2. finer \in Nat /\ Precision * finer \in Nat
      BY <1>1
    <3>3. QED
      BY <3>1, <3>2
  <2>3. QED
    BY <2>1, <2>2
<1>5. PICK g \in Nat \ {0} :
        /\ g = LastPlace(a) /\ g \in Places /\ a < Precision * g
        /\ \A finer \in Places : finer < g => a >= Precision * finer
  BY <1>1, <1>4 DEF LastPlace
<1>6. g <= Finer
  <2>1. Finer < g => a >= Precision * Finer
    BY <1>1, <1>5
  <2>2. Finer \in Nat /\ Precision * Finer \in Nat
    BY <1>1
  <2>3. QED
    BY <2>1, <2>2
<1>7. Finer % g = 0
  BY <1>1, <1>5, <1>6
<1>8. a < Precision => g = 1
  <2>1. 1 < g => a >= Precision * 1
    BY <1>1, <1>5
  <2>2. Precision * 1 = Precision
    BY <1>1
  <2>3. QED
    BY <1>1, <2>1, <2>2
<1>9. QED
  BY <1>5, <1>7, <1>8

(* mul() rounds within the unit of the scale.                              *)
LEMMA MulFacts ==
  ASSUME NEW a \in Nat, NEW h \in Nat, NEW d \in Nat \ {0}, d = Finer,
         a < Precision * Finer, a <= h * d
  PROVE  \E r \in Nat : /\ r = mul(a) /\ r <= h * d
                        /\ \A q \in Int : q * d <= a => q * d <= r
                        /\ r > a => a >= Precision /\ 2 * (r - a) <= LastPlace(a)
<1>1. PICK g \in Nat \ {0} : g = LastPlace(a) /\ d % g = 0 /\ (a < Precision => g = 1)
  BY LastPlaceFacts
<1>2. PICK n \in Int : d = n * g
  <2>1. d = ((d \div g) * g) + (d % g) /\ d \div g \in Int
    BY Division
  <2>2. QED
    BY <1>1, <2>1
<1>3. PICK r \in Int :
        /\ r = ((2 * a + g) \div (2 * g)) * g
        /\ 2 * (r - a) \in (1 - g)..g
        /\ \A m \in Int : m * g <= a => m * g <= r
        /\ \A m \in Int : a <= m * g => r <= m * g
  BY RoundFacts
<1>4. r = mul(a)
  BY <1>1, <1>3 DEF mul
<1>5. \A q \in Int : q * d = (q * n) * g
  BY <1>2
<1>6. ASSUME NEW q \in Int, q * d <= a PROVE q * d <= r
  <2>1. q * n \in Int
    OBVIOUS
  <2>2. (q * n) * g <= a => (q * n) * g <= r
    BY <1>3, <2>1
  <2>3. QED
    BY <1>5, <1>6, <2>2
<1>7. r <= h * d
  <2>1. h * n \in Int
    OBVIOUS
  <2>2. a <= (h * n) * g => r <= (h * n) * g
    BY <1>3, <2>1
  <2>3. QED
    BY <1>5, <2>2
<1>8. r \in Nat
  <2>1. 0 * g <= a => 0 * g <= r
    BY <1>3
  <2>2. 0 * g = 0
    OBVIOUS
  <2>3. QED
    BY <2>1, <2>2
<1>9. ASSUME r > a PROVE a >= Precision /\ 2 * (r - a) <= LastPlace(a)
  <2>1. 2 * (r - a) <= g
    BY <1>3
  <2>2. g # 1
    BY <1>9, <2>1
  <2>3. Precision \in Nat
    BY LogicalTypesAssumption
  <2>4. QED
    BY <1>1, <2>1, <2>2, <2>3
<1>10. QED
  BY <1>4, <1>6, <1>7, <1>8, <1>9

(* Of a rounded number that is below no multiple of d that the number      *)
(* itself reaches, the multiple below it is less than d below the number.  *)
LEMMA CutOff ==
  ASSUME NEW a \in Nat, NEW r \in Nat, NEW d \in Nat \ {0}, NEW q \in Int,
         NEW t \in 0..(d - 1), r = q * d + t,
         \A p \in Int : p * d <= a => p * d <= r
  PROVE  a - q * d <= d - 1
<1>1. PICK p \in Int, u \in 0..(d - 1) : a = p * d + u
  <2>1. a \div d \in Int /\ a % d \in 0..(d - 1) /\ a = ((a \div d) * d) + (a % d)
    BY Division
  <2>2. QED
    BY <2>1
<1>2. p * d <= r
  <2>1. p * d \in Int
    OBVIOUS
  <2>2. p * d <= a
    BY <1>1, <2>1
  <2>3. QED
    BY <2>2
<1>3. p <= q
  <2>1. SUFFICES ASSUME q + 1 <= p PROVE FALSE
    OBVIOUS
  <2>2. (q + 1) * d <= p * d
    BY <2>1
  <2>3. (q + 1) * d = q * d + d /\ q * d \in Int /\ p * d \in Int
    OBVIOUS
  <2>4. QED
    BY <1>2, <2>2, <2>3
<1>4. p * d <= q * d
  BY <1>3
<1>5. p * d \in Int /\ q * d \in Int
  OBVIOUS
<1>6. QED
  BY <1>1, <1>4, <1>5

(* trunc() gives the units below the rounded number: those of the number   *)
(* itself, or more only where rounding has made it larger.                 *)
LEMMA TruncFacts ==
  ASSUME NEW val \in Int, NEW h \in Nat, NEW a \in Nat, NEW d \in Nat \ {0}, d = Finer,
         a = IF val < 0 THEN -val ELSE val, a < Precision * Finer, a <= h * d
  PROVE  \E q \in Nat :
           /\ q <= h /\ trunc(val) = IF val < 0 THEN -q ELSE q
           /\ a - q * d <= d - 1 /\ q * d \in Nat
           /\ q * d > a => a >= Precision /\ 2 * (q * d - a) <= LastPlace(a)
<1>1. PICK r \in Nat : /\ r = mul(a) /\ r <= h * d
                       /\ \A q \in Int : q * d <= a => q * d <= r
                       /\ r > a => a >= Precision /\ 2 * (r - a) <= LastPlace(a)
  BY MulFacts
<1>2. PICK q \in Int, t \in 0..(d - 1) : q = r \div d /\ r = q * d + t
  <2>1. r \in Int
    BY <1>1
  <2>2. r \div d \in Int /\ r % d \in 0..(d - 1) /\ r = ((r \div d) * d) + (r % d)
    BY <2>1, Division
  <2>3. QED
    BY <2>2
<1>3. q \in Nat
  <2>1. SUFFICES ASSUME q <= -1 PROVE FALSE
    OBVIOUS
  <2>2. q * d <= (-1) * d
    BY <2>1
  <2>3. QED
    BY <1>2, <2>2
<1>4. q <= h
  <2>1. SUFFICES ASSUME h + 1 <= q PROVE FALSE
    BY <1>3
  <2>2. (h + 1) * d <= q * d
    BY <2>1
  <2>3. (h + 1) * d = h * d + d /\ h * d \in Int /\ q * d \in Int
    OBVIOUS
  <2>4. QED
    BY <1>1, <1>2, <2>2, <2>3
<1>5. trunc(val) = IF val < 0 THEN -q ELSE q
  BY <1>1, <1>2 DEF trunc
<1>6. q * d \in Nat
  BY <1>3
<1>7. a - q * d <= d - 1
  BY <1>1, <1>2, CutOff
<1>8. ASSUME q * d > a PROVE a >= Precision /\ 2 * (q * d - a) <= LastPlace(a)
  <2>1. PICK m \in Nat : m = q * d
    BY <1>6
  <2>2. m <= r /\ m > a /\ r > a
    BY <1>2, <1>8, <2>1
  <2>3. LastPlace(a) \in Nat \ {0}
    BY LastPlaceFacts
  <2>4. PICK g \in Nat : g = LastPlace(a) /\ 2 * (r - a) <= g /\ a >= Precision
    BY <1>1, <2>2, <2>3
  <2>5. 2 * (m - a) <= g
    BY <2>2, <2>4
  <2>6. QED
    BY <2>1, <2>4, <2>5
<1>9. QED
  BY <1>3, <1>4, <1>5, <1>6, <1>7, <1>8

LEMMA DecimalFacts == CallIInv => DecimalIsCutOff
<1> SUFFICES ASSUME CallIInv, Answered("decimal") PROVE DecimalIsCutOff
  BY DEF DecimalIsCutOff
<1>1. PICK val \in Int : val = call.decimal /\ -(Precision * Finer) < val /\ val < Precision * Finer
  BY CallsAssumption DEF CallIInv, Answered, Of
<1>2. PICK x : x = bufferToDecimal(decimalToBuffer(val))
  OBVIOUS
<1>3. answer.is = x
  BY <1>1, <1>2 DEF CallIInv, AnswerIsGiven, Gives, Answered
<1>4. PICK d \in Nat \ {0}, half \in Nat \ {0} :
        d = Finer /\ Range64 = 2 * half /\ Range64 \div 2 = half
  BY LogicalTypesAssumption, RangeFacts
<1>5. PICK a \in Nat : a = IF val < 0 THEN -val ELSE val
  OBVIOUS
<1>6. a < Precision * Finer
  <2>1. Precision * Finer \in Int
    BY LogicalTypesAssumption
  <2>2. QED
    BY <1>1, <1>5, <2>1
<1>7. PICK h \in Nat : h = half - 1
  OBVIOUS
<1>8. SUFFICES ASSUME a < h * d
      PROVE  LET abs(n) == IF n < 0 THEN -n ELSE n
                 lost == abs(val) - abs(x)
             IN  /\ x % d = 0
                 /\ \/ lost \in 0..(d - 1)
                    \/ a >= Precision /\ lost < 0 /\ -2 * lost <= LastPlace(a)
                 /\ val * x >= 0
  <2>1. (IF val < 0 THEN -val ELSE val) = a
    BY <1>5
  <2>2. QED
    BY <1>1, <1>3, <1>4, <1>7, <2>1 DEF DecimalIsCutOff
<1>9. PICK q \in Nat :
        /\ q <= h /\ trunc(val) = IF val < 0 THEN -q ELSE q
        /\ a - q * d <= d - 1 /\ q * d \in Nat
        /\ q * d > a => a >= Precision /\ 2 * (q * d - a) <= LastPlace(a)
  <2>1. a <= h * d
    <3>1. h * d \in Int
      OBVIOUS
    <3>2. QED
      BY <1>8, <3>1
  <2>2. a = (IF val < 0 THEN -val ELSE val)
    BY <1>5
  <2>3. QED
    BY <1>4, <1>6, <2>1, <2>2, TruncFacts
<1>10. PICK t \in Int : t = trunc(val) /\ t = (IF val < 0 THEN -q ELSE q) /\ -half <= t /\ t < half
  BY <1>7, <1>9
<1>11. x = t * d
  <2>1. Int64(to64Bit(Int64Bytes(t))) = t
    BY <1>4, <1>10, NumbersReturn
  <2>2. QED
    BY <1>2, <1>4, <1>10, <2>1 DEF bufferToDecimal, decimalToBuffer
<1>12. x % d = 0
  <2>1. (t * d + 0) % d = 0
    BY DivisionIs
  <2>2. t * d + 0 = t * d
    OBVIOUS
  <2>3. QED
    BY <1>11, <2>1, <2>2
<1>13. PICK m \in Nat : m = q * d /\ x = IF val < 0 THEN -m ELSE m
  <2>1. (-q) * d = -(q * d)
    OBVIOUS
  <2>2. QED
    BY <1>9, <1>10, <1>11, <2>1
<1>14. (IF x < 0 THEN -x ELSE x) = m /\ (IF val < 0 THEN -val ELSE val) = a
  BY <1>5, <1>13
<1>15. val * x >= 0
  <2>1. CASE val < 0
    <3>1. PICK b \in Nat : val = -b
      BY <2>1
    <3>2. (-b) * (-m) = b * m /\ b * m >= 0
      OBVIOUS
    <3>3. QED
      BY <1>13, <2>1, <3>1, <3>2
  <2>2. CASE ~(val < 0)
    <3>1. val \in Nat
      BY <2>2
    <3>2. val * m >= 0
      BY <3>1
    <3>3. QED
      BY <1>13, <2>2, <3>2
  <2>3. QED
    BY <2>1, <2>2
<1>16. PICK lost \in Int : lost = a - m
  OBVIOUS
<1>17. lost \in 0..(d - 1) \/ (a >= Precision /\ lost < 0 /\ -2 * lost <= LastPlace(a))
  <2>1. a - m <= d - 1 /\ (m > a => a >= Precision /\ 2 * (m - a) <= LastPlace(a))
    BY <1>9, <1>13
  <2>2. CASE m > a
    <3>1. -2 * lost = 2 * (m - a) /\ lost < 0
      BY <1>16, <2>2
    <3>2. QED
      BY <2>1, <2>2, <3>1
  <2>3. CASE ~(m > a)
    BY <1>16, <2>1, <2>3
  <2>4. QED
    BY <2>2, <2>3
<1>18. QED
  BY <1>12, <1>14, <1>15, <1>16, <1>17

LEMMA BufferFacts == CallIInv => ShortBuffersKeepSign
<1> SUFFICES ASSUME CallIInv, Answered("buffer") PROVE ShortBuffersKeepSign
  BY DEF ShortBuffersKeepSign
<1>1. PICK buf \in Seq(Octets) : buf = call.buffer
  BY CallsAssumption DEF CallIInv, Answered, Of, Octets
<1>2. PICK n \in Nat : n = Len(buf) /\ (n = 0 <=> buf = <<>>)
  OBVIOUS
<1>3. answer.is = IF n <= Bytes THEN {bufferToDecimal(buf)} ELSE {}
  <2>1. answer = [is |-> IF Supported(buf) THEN {bufferToDecimal(buf)} ELSE {}]
    BY <1>1 DEF CallIInv, AnswerIsGiven, Gives, Answered
  <2>2. Supported(buf) <=> n <= Bytes
    BY <1>2 DEF Supported
  <2>3. QED
    BY <2>1, <2>2
<1>4. CASE n > Bytes
  <2>1. ~(n <= Bytes)
    BY <1>4, LogicalTypesAssumption
  <2>2. QED
    BY <1>1, <1>2, <1>3, <1>4, <2>1 DEF ShortBuffersKeepSign
<1>5. CASE n <= Bytes
  <2>1. ~(n > Bytes)
    BY <1>5, LogicalTypesAssumption
  <2>2. PICK u, w : u = Unsigned(buf) /\ w = Weight[n]
    OBVIOUS
  <2>3. PICK y : y = Int64(to64Bit(buf))
    OBVIOUS
  <2>4. y = IF n # 0 /\ 2 * u >= w THEN u - w ELSE u
    BY <1>2, <1>5, <2>2, <2>3, TwosComplement
  <2>5. answer.is = {y * Finer}
    BY <1>3, <1>5, <2>3 DEF bufferToDecimal
  <2>6. answer.is = {(IF 2 * u >= w /\ buf # <<>> THEN u - w ELSE u) * Finer}
    BY <1>2, <2>4, <2>5
  <2>7. QED
    BY <1>1, <1>2, <2>1, <2>2, <2>6 DEF ShortBuffersKeepSign
<1>6. QED
  BY <1>2, <1>4, <1>5, LogicalTypesAssumption

LEMMA DateFacts == CallIInv => DatesKeepTheirDay
<1>1. PICK d \in Nat \ {0}, max \in Nat : d = DayMs /\ max = MaxMs /\ max % d = 0
  BY LogicalTypesAssumption
<1>2. ASSUME CallIInv, Answered("stored")
      PROVE  LET type == call.stored.type
                 val == call.stored.val
                 ms == IF type = "DateAsDateType" THEN val * DayMs ELSE val
             IN  (answer.is = [is |-> "number", ms |-> val])
                   <=> type \in {"DateAsDateType", "TimestampAsDateType"} /\ ms \in -MaxMs..MaxMs
  <2>1. PICK type \in DateTypes, val \in Int : type = call.stored.type /\ val = call.stored.val
    BY <1>2, CallsAssumption DEF CallIInv, Answered, Of
  <2>2. answer.is = toValue(type, fromValue(type, val))
    BY <1>2, <2>1 DEF CallIInv, AnswerIsGiven, Gives, Answered
  <2>3. (val * d) \div d = val
    <3>1. (val * d + 0) \div d = val
      BY DivisionIs
    <3>2. val * d + 0 = val * d
      OBVIOUS
    <3>3. QED
      BY <3>1, <3>2
  <2>4. CASE type \in {"DateType", "TimestampType"}
    <3>1. fromValue(type, val).is \in {"iso", "RangeError"}
      BY <2>4 DEF fromValue, toISOString
    <3>2. answer.is.is \in {"iso", "RangeError"}
      BY <2>2, <3>1 DEF toValue
    <3>3. answer.is # [is |-> "number", ms |-> val]
      BY <3>2
    <3>4. QED
      BY <2>1, <2>4, <3>3
  <2>5. CASE type = "DateAsDateType"
    <3>1. PICK ms \in Int : ms = val * d
      OBVIOUS
    <3>2. fromValue(type, val) = NewDate(ms)
      BY <1>1, <2>5, <3>1 DEF fromValue, toDate
    <3>3. CASE ms \in -max..max
      <4>1. PICK date : date = fromValue(type, val) /\ date = [is |-> "Date", ms |-> ms]
        BY <1>1, <3>2, <3>3 DEF NewDate
      <4>2. answer.is = [is |-> "number", ms |-> val]
        <5>1. date.is = "Date" /\ date.ms = ms
          BY <4>1
        <5>2. ms \div d = val
          BY <2>3, <3>1
        <5>3. QED
          BY <1>1, <2>2, <2>5, <4>1, <5>1, <5>2 DEF toValue, fromDate
      <4>3. QED
        BY <1>1, <2>1, <2>5, <3>1, <3>3, <4>2
    <3>4. CASE ms \notin -max..max
      <4>1. PICK date : date = fromValue(type, val) /\ date = [is |-> "Invalid Date"]
        BY <1>1, <3>2, <3>4 DEF NewDate
      <4>2. answer.is = [is |-> "NaN"]
        <5>1. date = [is |-> "Invalid Date"]
          BY <4>1, Zenon
        <5>2. date.is = "Invalid Date"
          BY <5>1, Zenon
        <5>3. QED
          BY <2>2, <4>1, <5>2 DEF toValue
      <4>3. answer.is # [is |-> "number", ms |-> val]
        BY <4>2
      <4>4. QED
        BY <1>1, <2>1, <2>5, <3>1, <3>4, <4>3
    <3>5. QED
      BY <3>3, <3>4
  <2>6. CASE type = "TimestampAsDateType"
    <3>1. fromValue(type, val) = NewDate(val)
      BY <2>6 DEF fromValue
    <3>2. CASE val \in -max..max
      <4>1. PICK date : date = fromValue(type, val) /\ date = [is |-> "Date", ms |-> val]
        BY <1>1, <3>1, <3>2 DEF NewDate
      <4>2. answer.is = [is |-> "number", ms |-> val]
        <5>1. date.is = "Date" /\ date.ms = val
          BY <4>1
        <5>2. QED
          BY <2>2, <2>6, <4>1, <5>1 DEF toValue
      <4>3. QED
        BY <1>1, <2>1, <2>6, <3>2, <4>2
    <3>3. CASE val \notin -max..max
      <4>1. PICK date : date = fromValue(type, val) /\ date = [is |-> "Invalid Date"]
        BY <1>1, <3>1, <3>3 DEF NewDate
      <4>2. answer.is = [is |-> "NaN"]
        <5>1. date = [is |-> "Invalid Date"]
          BY <4>1, Zenon
        <5>2. date.is = "Invalid Date"
          BY <5>1, Zenon
        <5>3. QED
          BY <2>2, <4>1, <5>2 DEF toValue
      <4>3. answer.is # [is |-> "number", ms |-> val]
        BY <4>2
      <4>4. QED
        BY <1>1, <2>1, <2>6, <3>3, <4>3
    <3>4. QED
      BY <3>2, <3>3
  <2>7. QED
    BY <2>4, <2>5, <2>6 DEF DateTypes
<1>3. ASSUME CallIInv, Answered("date")
      PROVE  call.date.ms - fromValue(call.date.type, answer.is.ms).ms
               \in 0..(IF call.date.type \in {"DateType", "DateAsDateType"} THEN DayMs - 1 ELSE 0)
  <2>1. PICK type \in DateTypes, ms \in -max..max : type = call.date.type /\ ms = call.date.ms
    BY <1>1, <1>3, CallsAssumption DEF CallIInv, Answered, Of
  <2>2. answer.is = toValue(type, [is |-> "Date", ms |-> ms])
    BY <1>3, <2>1 DEF CallIInv, AnswerIsGiven, Gives, Answered
  <2>3. CASE type \in {"DateType", "DateAsDateType"}
    <3>1. answer.is.ms = ms \div d
      BY <1>1, <2>2, <2>3 DEF toValue, fromDate
    <3>2. PICK day \in Int : day = ms \div d /\ ms - day * d \in 0..(d - 1)
      BY Division
    <3>3. day * d \in -max..max
      <4>1. PICK n \in Int : max = n * d
        <5>1. max \in Int
          OBVIOUS
        <5>2. max \div d \in Int /\ max = ((max \div d) * d) + (max % d)
          BY <5>1, Division
        <5>3. PICK n \in Int : n = max \div d
          BY <5>2
        <5>4. n * d + 0 = n * d
          OBVIOUS
        <5>5. QED
          BY <1>1, <5>2, <5>3, <5>4
      <4>2. -n <= day
        <5>1. SUFFICES ASSUME day + 1 <= -n PROVE FALSE
          OBVIOUS
        <5>2. (day + 1) * d <= (-n) * d
          BY <5>1
        <5>3. (day + 1) * d = day * d + d /\ (-n) * d = -max /\ day * d \in Int
          BY <4>1
        <5>4. QED
          BY <3>2, <5>2, <5>3
      <4>3. (-n) * d <= day * d
        BY <4>2
      <4>4. (-n) * d = -max /\ day * d \in Int
        BY <4>1
      <4>5. QED
        BY <3>2, <4>3, <4>4
    <3>4. PICK at \in Int : at = day * d
      OBVIOUS
    <3>5. NewDate(at) = [is |-> "Date", ms |-> at]
      BY <1>1, <3>3, <3>4 DEF NewDate
    <3>6. fromValue(type, answer.is.ms).ms = at
      BY <1>1, <2>3, <3>1, <3>2, <3>4, <3>5 DEF fromValue, toDate, toISOString
    <3>7. QED
      BY <1>1, <2>1, <2>3, <3>2, <3>4, <3>6
  <2>4. CASE type \notin {"DateType", "DateAsDateType"}
    <3>1. answer.is.ms = ms
      BY <2>2, <2>4 DEF toValue
    <3>2. NewDate(ms) = [is |-> "Date", ms |-> ms]
      BY <1>1, <2>1 DEF NewDate
    <3>3. fromValue(type, answer.is.ms).ms = ms
      BY <2>4, <3>1, <3>2 DEF fromValue, toISOString
    <3>4. ms - ms \in 0..0
      OBVIOUS
    <3>5. QED
      BY <2>1, <2>4, <3>3, <3>4
  <2>5. QED
    BY <2>3, <2>4
<1>4. QED
  BY <1>2, <1>3 DEF DatesKeepTheirDay

(* A decimal that fits comes back cut off to the scale, but where rounding *)
(* to the digits that are kept made it larger; a short buffer as the       *)
(* number it holds; and a date as its day, where there is such a Date: for *)
(* bytes and numbers of any size, any scale, precision and length of a day.*)
THEOREM ConversionsKeep == CallSpec => []ConversionsKeepValues
<1>1. CallIInv => ConversionsKeepValues
  BY DecimalFacts, BufferFacts, DateFacts DEF ConversionsKeepValues
<1>2. QED
  BY <1>1, CallInductive, PTL

-----------------------------------------------------------------------------
(* What redactPaths() leaves of a value.                                   *)

(* A value some of whose nodes are replaced. *)
Tree(v) ==
  /\ IsObject(v) /\ DOMAIN v \subseteq Seq(STRING) /\ <<>> \in DOMAIN v
  /\ \A at \in DOMAIN v : \A i \in 1..Len(at) :
       /\ Prefix(at, i - 1) \in DOMAIN v
       /\ v[Prefix(at, i - 1)] = IF at[i] \in Items THEN "array" ELSE "object"

Follows(path, at, i) == path[i] = at[i] \/ (path[i] = "*" /\ at[i] \in Items)

(* The sets of redactPath(). *)
Reached(path, v) ==
  {at \in DOMAIN v : Len(at) <= Len(path) /\ \A i \in 1..Len(at) : GoesOn(path, v, at, i)}
RemovedAt(path, v) ==
  {at \in Reached(path, v) : Len(at) = Len(path) /\ v[Front(at)] = "object"}

LEMMA PrefixIs ==
  ASSUME NEW S, NEW at \in Seq(S), NEW i \in 0..Len(at)
  PROVE  /\ Prefix(at, i) \in Seq(S) /\ Len(Prefix(at, i)) = i
         /\ Prefix(at, i) = [k \in 1..i |-> at[k]]
<1>1. Len(at) \in Nat /\ i \in Int /\ \A k \in 1..i : at[k] \in S
  OBVIOUS
<1>2. Prefix(at, i) = [k \in 1..i |-> at[k]]
  BY <1>1 DEF Prefix
<1>3. QED
  BY <1>1, <1>2

LEMMA PrefixesOf ==
  ASSUME NEW S, NEW at \in Seq(S)
  PROVE  /\ Prefix(at, Len(at)) = at /\ Prefix(at, 0) = <<>>
         /\ \A i \in 0..Len(at) : \A k \in 0..i : Prefix(Prefix(at, i), k) = Prefix(at, k)
<1>1. Len(at) \in Nat /\ Len(at) \in 0..Len(at) /\ 0 \in 0..Len(at)
  OBVIOUS
<1>2. at = [k \in 1..Len(at) |-> at[k]]
  OBVIOUS
<1>3. Prefix(at, Len(at)) = at
  BY <1>1, <1>2, PrefixIs
<1>4. Prefix(at, 0) = <<>>
  <2>1. Prefix(at, 0) \in Seq(S) /\ Len(Prefix(at, 0)) = 0
    BY <1>1, PrefixIs
  <2>2. QED
    BY <2>1
<1>5. ASSUME NEW i \in 0..Len(at), NEW k \in 0..i
      PROVE  Prefix(Prefix(at, i), k) = Prefix(at, k)
  <2>1. PICK b : b = Prefix(at, i)
    OBVIOUS
  <2>2. b \in Seq(S) /\ Len(b) = i /\ b = [j \in 1..i |-> at[j]]
    BY <2>1, PrefixIs
  <2>3. k \in 0..Len(b) /\ k \in 0..Len(at)
    BY <2>2
  <2>4. Prefix(b, k) = [j \in 1..k |-> b[j]] /\ Prefix(at, k) = [j \in 1..k |-> at[j]]
    <3>1. b \in Seq(S) /\ k \in 0..Len(b)
      BY <2>2, <2>3
    <3>2. Prefix(b, k) = [j \in 1..k |-> b[j]]
      BY <3>1, PrefixIs
    <3>3. Prefix(at, k) = [j \in 1..k |-> at[j]]
      BY <2>3, PrefixIs
    <3>4. QED
      BY <3>2, <3>3
  <2>5. \A j \in 1..k : b[j] = at[j]
    BY <2>2
  <2>6. QED
    BY <2>1, <2>4, <2>5
<1>6. QED
  BY <1>3, <1>4, <1>5

(* A path stops where a value that is falsy is, unless it is an item.      *)
LEMMA ReachedMeans ==
  ASSUME NEW v, Tree(v), NEW path, IsPath(path), NEW at \in DOMAIN v
  PROVE  at \in Reached(path, v) <=>
           /\ Len(at) <= Len(path) /\ \A i \in 1..Len(at) : Follows(path, at, i)
           /\ at = <<>> \/ at[Len(at)] \in Items \/ Truthy(v[at])
<1>1. at \in Seq(STRING) /\ Len(at) \in Nat /\ Len(path) \in Nat
  BY DEF Tree, IsPath
<1>2. Prefix(at, Len(at)) = at /\ (at = <<>> <=> Len(at) = 0)
  BY <1>1, PrefixesOf
<1>3. ASSUME Len(at) <= Len(path), NEW i \in 1..Len(at)
      PROVE  GoesOn(path, v, at, i) <=>
               Follows(path, at, i) /\ (at[i] \in Items \/ Truthy(v[Prefix(at, i)]))
  <2>1. path[i] \notin Items
    BY <1>1, <1>3 DEF IsPath
  <2>2. v[Prefix(at, i - 1)] = IF at[i] \in Items THEN "array" ELSE "object"
    BY DEF Tree
  <2>3. QED
    BY <2>1, <2>2 DEF GoesOn, Follows
<1>4. ASSUME NEW i \in 1..Len(at), i # Len(at)
      PROVE  Truthy(v[Prefix(at, i)])
  <2>1. i + 1 \in 1..Len(at) /\ (i + 1) - 1 = i
    BY <1>1, <1>4
  <2>2. v[Prefix(at, i)] \in {"array", "object"}
    BY <2>1 DEF Tree
  <2>3. QED
    BY <2>2 DEF Truthy
<1>5. at \in Reached(path, v) <=>
        Len(at) <= Len(path) /\ \A i \in 1..Len(at) : GoesOn(path, v, at, i)
  BY DEF Reached
<1>6. CASE ~(Len(at) <= Len(path))
  BY <1>5, <1>6
<1>7. CASE Len(at) <= Len(path) /\ Len(at) = 0
  BY <1>1, <1>2, <1>5, <1>7
<1>8. CASE Len(at) <= Len(path) /\ Len(at) # 0
  <2>1. Len(at) \in 1..Len(at)
    BY <1>1, <1>8
  <2>2. \A i \in 1..Len(at) : i # Len(at) => (GoesOn(path, v, at, i) <=> Follows(path, at, i))
    BY <1>3, <1>4, <1>8
  <2>3. GoesOn(path, v, at, Len(at)) <=>
          Follows(path, at, Len(at)) /\ (at[Len(at)] \in Items \/ Truthy(v[at]))
    BY <1>2, <1>3, <1>8, <2>1
  <2>4. QED
    BY <1>2, <1>5, <1>8, <2>1, <2>2, <2>3
<1>9. QED
  BY <1>6, <1>7, <1>8

LEMMA RemovedMeans ==
  ASSUME NEW v, Tree(v), NEW path, IsPath(path), NEW at \in DOMAIN v
  PROVE  at \in RemovedAt(path, v) <=> Targets(path, at, Len(at)) /\ Truthy(v[at])
<1>1. at \in Seq(STRING) /\ Len(at) \in Nat /\ Len(path) \in Nat \ {0}
  BY DEF Tree, IsPath
<1>2. at = <<>> <=> Len(at) = 0
  BY <1>1
<1>3. CASE Len(at) # Len(path)
  BY <1>3 DEF RemovedAt, Targets
<1>4. CASE Len(at) = Len(path)
  <2>1. Len(at) \in 1..Len(at) /\ path[Len(at)] \notin Items
    BY <1>1, <1>4 DEF IsPath
  <2>2. v[Front(at)] = IF at[Len(at)] \in Items THEN "array" ELSE "object"
    <3>1. v[Prefix(at, Len(at) - 1)] = IF at[Len(at)] \in Items THEN "array" ELSE "object"
      BY <2>1 DEF Tree
    <3>2. QED
      BY <3>1 DEF Front, Prefix
  <2>3. at \in Reached(path, v) <=>
           /\ \A i \in 1..Len(at) : Follows(path, at, i)
           /\ at[Len(at)] \in Items \/ Truthy(v[at])
    BY <1>1, <1>2, <1>4, <2>1, ReachedMeans
  <2>4. at \in RemovedAt(path, v) <=> at \in Reached(path, v) /\ at[Len(at)] \notin Items
    BY <1>4, <2>2 DEF RemovedAt
  <2>5. Targets(path, at, Len(at)) <=>
          path[Len(at)] = at[Len(at)] /\ \A i \in 1..Len(at) : Follows(path, at, i)
    BY <1>4 DEF Targets, Follows
  <2>6. QED
    BY <2>1, <2>3, <2>4, <2>5 DEF Follows
<1>5. QED
  BY <1>3, <1>4

LEMMA ThrownBy ==
  ASSUME NEW v, Tree(v), NEW path, IsPath(path), redactPath(path, v) = TypeError
  PROVE  \E at \in Reached(path, v) : Nullish(v[at])
<1> SUFFICES ASSUME ~\E at \in Reached(path, v) : Nullish(v[at]) PROVE FALSE
  OBVIOUS
<1> DEFINE left == {a \in DOMAIN v : \A i \in 1..(Len(a) - 1) : Prefix(a, i) \notin RemovedAt(path, v)}
<1>1. redactPath(path, v)
        = [at \in left |-> IF at \in RemovedAt(path, v) THEN "<Removed>" ELSE v[at]]
  BY DEF redactPath, Reached, RemovedAt
<1>2. <<>> \in left
  BY DEF Tree
<1>3. DOMAIN TypeError = {}
  BY DEF TypeError
<1> HIDE DEF left
<1>4. QED
  BY <1>1, <1>2, <1>3

(* An exception is thrown by an item that is null.                         *)
LEMMA ThrowsAt ==
  ASSUME NEW v, Tree(v), v[<<>>] = "object", NEW path, IsPath(path),
         NEW at \in Reached(path, v), Nullish(v[at])
  PROVE  /\ at # <<>> /\ at[Len(at)] \in Items
         /\ \E i \in 1..Len(path) : path[i] = "*"
<1>1. /\ at \in DOMAIN v /\ at \in Seq(STRING) /\ Len(at) \in Nat /\ Len(path) \in Nat
      /\ ~Truthy(v[at])
  BY DEF Reached, Tree, IsPath, Nullish, Truthy
<1>2. at # <<>>
  BY DEF Nullish
<1>3. at[Len(at)] \in Items /\ Len(at) <= Len(path) /\ \A i \in 1..Len(at) : Follows(path, at, i)
  BY <1>1, <1>2, ReachedMeans
<1>4. Len(at) \in 1..Len(at) /\ Len(at) \in 1..Len(path)
  BY <1>1, <1>2, <1>3
<1>5. path[Len(at)] \notin Items
  BY <1>4 DEF IsPath
<1>6. path[Len(at)] = "*"
  BY <1>3, <1>4, <1>5 DEF Follows
<1>7. QED
  BY <1>2, <1>3, <1>4, <1>6

LEMMA TargetsPrefix ==
  ASSUME NEW at \in Seq(STRING), NEW i \in 1..Len(at), NEW path
  PROVE  Targets(path, Prefix(at, i), i) <=> Targets(path, at, i)
<1>1. Prefix(at, i) = [k \in 1..i |-> at[k]] /\ i \in 1..i
  BY PrefixIs
<1>2. QED
  BY <1>1 DEF Targets

(* What one path leaves.                                                   *)
LeftBy(path, v) ==
  [at \in {a \in DOMAIN v : \A i \in 1..(Len(a) - 1) : ~Targets(path, a, i)} |->
     IF Targets(path, at, Len(at)) /\ Truthy(v[at]) THEN "<Removed>" ELSE v[at]]

LEMMA Redacts ==
  ASSUME NEW v, Tree(v), NEW path, IsPath(path),
         NEW r, r = redactPath(path, v), r # TypeError
  PROVE  r = LeftBy(path, v) /\ Tree(r)
<1> DEFINE removed == RemovedAt(path, v)
           left == {a \in DOMAIN v : \A i \in 1..(Len(a) - 1) : Prefix(a, i) \notin removed}
           stays == {a \in DOMAIN v : \A i \in 1..(Len(a) - 1) : ~Targets(path, a, i)}
<1>1. r = [at \in left |-> IF at \in removed THEN "<Removed>" ELSE v[at]]
  BY DEF redactPath, Reached, RemovedAt
<1>2. \A at \in DOMAIN v : at \in removed <=> Targets(path, at, Len(at)) /\ Truthy(v[at])
  BY RemovedMeans
<1> HIDE DEF removed
<1>3. ASSUME NEW at \in DOMAIN v, NEW i \in 1..(Len(at) - 1)
      PROVE  /\ Prefix(at, i) \in removed <=> Targets(path, at, i)
             /\ Prefix(at, i) \in DOMAIN v /\ i \in 1..Len(at)
             /\ v[Prefix(at, i)] = IF at[i + 1] \in Items THEN "array" ELSE "object"
  <2>1. /\ at \in Seq(STRING) /\ Len(at) \in Nat /\ i + 1 \in 1..Len(at) /\ (i + 1) - 1 = i
        /\ i \in 0..Len(at) /\ i \in 1..Len(at)
    BY DEF Tree
  <2>2. Prefix(at, i) \in DOMAIN v
        /\ v[Prefix(at, i)] = IF at[i + 1] \in Items THEN "array" ELSE "object"
    BY <2>1 DEF Tree
  <2>3. Truthy(v[Prefix(at, i)]) /\ Len(Prefix(at, i)) = i
    BY <2>1, <2>2, PrefixIs DEF Truthy
  <2>4. QED
    BY <1>2, <2>1, <2>2, <2>3, TargetsPrefix
<1>4. left = stays
  BY <1>3
<1>5. r = [at \in stays |->
             IF Targets(path, at, Len(at)) /\ Truthy(v[at]) THEN "<Removed>" ELSE v[at]]
  BY <1>1, <1>2, <1>4
<1>6. Tree(r)
  <2>1. DOMAIN r = stays /\ r = [at \in DOMAIN r |-> r[at]]
    BY <1>5
  <2>2. stays \subseteq Seq(STRING) /\ <<>> \in stays
    BY DEF Tree
  <2>3. ASSUME NEW at \in stays, NEW i \in 1..Len(at)
        PROVE  /\ Prefix(at, i - 1) \in stays
               /\ r[Prefix(at, i - 1)] = IF at[i] \in Items THEN "array" ELSE "object"
    <3>1. at \in Seq(STRING) /\ Len(at) \in Nat /\ i - 1 \in 0..Len(at) /\ at \in DOMAIN v
      BY <2>2
    <3>2. PICK b : b = Prefix(at, i - 1)
      OBVIOUS
    <3>3. b \in Seq(STRING) /\ Len(b) = i - 1 /\ b = [k \in 1..(i - 1) |-> at[k]]
      BY <3>1, <3>2, PrefixIs
    <3>4. b \in DOMAIN v /\ v[b] = IF at[i] \in Items THEN "array" ELSE "object"
      BY <3>1, <3>2 DEF Tree
    <3>5. ASSUME NEW j \in 1..(i - 1) PROVE ~Targets(path, b, j)
      <4>1. j \in 1..(Len(at) - 1)
        BY <3>1, <3>5
      <4>2. ~Targets(path, at, j)
        BY <4>1
      <4>3. \A k \in 1..j : b[k] = at[k]
        BY <3>3, <3>5
      <4>4. j \in 1..j
        BY <3>5
      <4>5. QED
        BY <4>2, <4>3, <4>4 DEF Targets
    <3>6. \A j \in 1..(Len(b) - 1) : j \in 1..(i - 1)
      BY <3>1, <3>3
    <3>7. b \in stays
      BY <3>4, <3>5, <3>6
    <3>8. ~Targets(path, b, Len(b))
      <4>1. CASE i = 1
        <5>1. Len(b) = 0 /\ Len(path) # 0
          BY <3>3, <4>1 DEF IsPath
        <5>2. QED
          BY <5>1 DEF Targets
      <4>2. CASE i # 1
        <5>1. i - 1 \in 1..(i - 1)
          BY <3>1, <4>2
        <5>2. QED
          BY <3>3, <3>5, <5>1
      <4>3. QED
        BY <4>1, <4>2
    <3>9. r[b] = v[b]
      BY <1>5, <3>7, <3>8
    <3>10. QED
      BY <3>2, <3>4, <3>7, <3>9
  <2>4. QED
    BY <2>1, <2>2, <2>3 DEF Tree, IsObject
<1>7. QED
  BY <1>5, <1>6 DEF LeftBy

(* redactPaths() as what its function satisfies.                           *)
RedactOne(path, object) ==
  IF object = TypeError THEN TypeError ELSE redactPath(path, object)

Redacting(f, paths, object) ==
  f = [k \in 0..Len(paths) |-> IF k = 0 THEN object ELSE RedactOne(paths[k], f[k - 1])]

LEMMA RedactingExists ==
  ASSUME NEW paths, NEW object, Len(paths) \in Nat
  PROVE  \E f : Redacting(f, paths, object)
<1> DEFINE Upto(f, n) ==
             f = [k \in 0..n |-> IF k = 0 THEN object ELSE RedactOne(paths[k], f[k - 1])]
           Good == {n \in Nat : \E f : Upto(f, n)}
<1>1. 0 \in Good
  <2> DEFINE f == [k \in 0..0 |-> object]
  <2>1. f = [k \in 0..0 |-> IF k = 0 THEN object ELSE RedactOne(paths[k], f[k - 1])]
    OBVIOUS
  <2> HIDE DEF f
  <2>2. QED
    BY <2>1
<1>2. ASSUME NEW n \in Nat, n \in Good PROVE n + 1 \in Good
  <2>1. PICK f : Upto(f, n)
    BY <1>2
  <2> DEFINE g == [k \in 0..(n + 1) |-> IF k <= n THEN f[k] ELSE RedactOne(paths[k], f[k - 1])]
  <2>2. ASSUME NEW k \in 0..(n + 1)
        PROVE  g[k] = IF k = 0 THEN object ELSE RedactOne(paths[k], g[k - 1])
    <3>1. k # 0 => k - 1 \in 0..n /\ g[k - 1] = f[k - 1]
      OBVIOUS
    <3>2. CASE k <= n
      <4>1. k \in 0..n /\ g[k] = f[k]
        BY <3>2
      <4>2. f[k] = IF k = 0 THEN object ELSE RedactOne(paths[k], f[k - 1])
        BY <2>1, <4>1
      <4> HIDE DEF g, Upto
      <4>3. QED
        BY <3>1, <4>1, <4>2
    <3>3. CASE k = n + 1
      <4>1. g[k] = RedactOne(paths[k], f[k - 1]) /\ k # 0
        BY <3>3
      <4> HIDE DEF g, Upto
      <4>2. QED
        BY <3>1, <4>1
    <3>4. QED
      BY <3>2, <3>3
  <2>3. Upto(g, n + 1)
    <3>1. g = [k \in 0..(n + 1) |-> g[k]]
      OBVIOUS
    <3> HIDE DEF g
    <3>2. QED
      BY <2>2, <3>1
  <2> HIDE DEF g, Upto
  <2>4. QED
    BY <2>3
<1> HIDE DEF Good
<1>3. Nat \subseteq Good
  BY <1>1, <1>2, Counting
<1>4. Len(paths) \in Good
  BY <1>3
<1>5. QED
  BY <1>4 DEF Good, Redacting

(* What is left after the first k paths.                                   *)
NamedBy(paths, k, at, i) == \E j \in 1..k : Targets(paths[j], at, i)

Left(paths, k, v) ==
  [at \in {a \in DOMAIN v : \A i \in 1..(Len(a) - 1) : ~NamedBy(paths, k, a, i)} |->
     IF NamedBy(paths, k, at, Len(at)) /\ Truthy(v[at]) THEN "<Removed>" ELSE v[at]]

LEMMA NoneNamed ==
  ASSUME NEW v, Tree(v), NEW paths
  PROVE  Left(paths, 0, v) = v
<1>1. \A at, i : ~NamedBy(paths, 0, at, i)
  BY DEF NamedBy
<1>2. v = [at \in DOMAIN v |-> v[at]]
  BY DEF Tree, IsObject
<1>3. QED
  BY <1>1, <1>2 DEF Left

LEMMA OneMoreNamed ==
  ASSUME NEW v, NEW paths, NEW k \in Nat,
         Tree(Left(paths, k, v)), IsPath(paths[k + 1]),
         NEW r, r = redactPath(paths[k + 1], Left(paths, k, v)), r # TypeError
  PROVE  r = Left(paths, k + 1, v) /\ Tree(r)
<1> DEFINE Stays(n) == {a \in DOMAIN v : \A i \in 1..(Len(a) - 1) : ~NamedBy(paths, n, a, i)}
<1>0. PICK l, path : l = Left(paths, k, v) /\ path = paths[k + 1]
  OBVIOUS
<1>1. l = Left(paths, k, v) /\ Tree(l) /\ IsPath(path) /\ r = redactPath(path, l)
  BY <1>0
<1>2. /\ r = [at \in {a \in DOMAIN l : \A i \in 1..(Len(a) - 1) : ~Targets(path, a, i)} |->
                IF Targets(path, at, Len(at)) /\ Truthy(l[at]) THEN "<Removed>" ELSE l[at]]
      /\ Tree(r)
  <2>1. r = LeftBy(path, l) /\ Tree(r)
    BY <1>1, Redacts
  <2>2. QED
    BY <2>1 DEF LeftBy
<1>3. /\ DOMAIN l = Stays(k)
      /\ \A at \in Stays(k) :
           l[at] = IF NamedBy(paths, k, at, Len(at)) /\ Truthy(v[at]) THEN "<Removed>" ELSE v[at]
  BY <1>1 DEF Left
<1>4. \A at, i : NamedBy(paths, k + 1, at, i) <=> NamedBy(paths, k, at, i) \/ Targets(path, at, i)
  <2>1. 1..(k + 1) = (1..k) \cup {k + 1}
    OBVIOUS
  <2>2. QED
    BY <1>0, <2>1 DEF NamedBy
<1>5. {a \in DOMAIN l : \A i \in 1..(Len(a) - 1) : ~Targets(path, a, i)} = Stays(k + 1)
  BY <1>3, <1>4
<1>6. ASSUME NEW at \in Stays(k + 1)
      PROVE  (IF Targets(path, at, Len(at)) /\ Truthy(l[at]) THEN "<Removed>" ELSE l[at])
               = (IF NamedBy(paths, k + 1, at, Len(at)) /\ Truthy(v[at]) THEN "<Removed>" ELSE v[at])
  <2>1. at \in Stays(k)
    BY <1>4
  <2>2. l[at] = IF NamedBy(paths, k, at, Len(at)) /\ Truthy(v[at]) THEN "<Removed>" ELSE v[at]
    BY <1>3, <2>1
  <2>3. Truthy("<Removed>")
    BY DEF Truthy
  <2>4. QED
    BY <1>4, <2>2, <2>3
<1>7. Left(paths, k + 1, v) =
        [at \in Stays(k + 1) |->
           IF NamedBy(paths, k + 1, at, Len(at)) /\ Truthy(v[at]) THEN "<Removed>" ELSE v[at]]
  BY DEF Left
<1> DEFINE new(at) == IF Targets(path, at, Len(at)) /\ Truthy(l[at]) THEN "<Removed>" ELSE l[at]
           kept(at) == IF NamedBy(paths, k + 1, at, Len(at)) /\ Truthy(v[at])
                       THEN "<Removed>" ELSE v[at]
<1>8. r = [at \in Stays(k + 1) |-> new(at)]
  BY <1>2, <1>5
<1>9. \A at \in Stays(k + 1) : new(at) = kept(at)
  BY <1>6
<1>10. Left(paths, k + 1, v) = [at \in Stays(k + 1) |-> kept(at)]
  BY <1>7
<1> HIDE DEF Stays, new, kept
<1>11. r = Left(paths, k + 1, v)
  BY <1>8, <1>9, <1>10
<1>12. QED
  BY <1>2, <1>11

(* An item that is null, and a path with a star.                           *)
Star(path) == \E i \in 1..Len(path) : path[i] = "*"
NullItem(v) == \E at \in DOMAIN v : at # <<>> /\ at[Len(at)] \in Items /\ v[at] = "null"

LEMMA RedactPathsGives ==
  ASSUME NEW v, Tree(v), v[<<>>] = "object",
         \A at \in DOMAIN v : /\ v[at] # "<Removed>"
                             /\ at # <<>> /\ at[Len(at)] \in Items => v[at] # "undefined",
         NEW paths, NEW n \in Nat, n = Len(paths), \A k \in 1..n : IsPath(paths[k]),
         NEW r, r = redactPaths(paths, v)
  PROVE  IF r = TypeError THEN NullItem(v) /\ \E k \in 1..n : Star(paths[k])
         ELSE r = Left(paths, n, v)
<1> DEFINE f == CHOOSE f : Redacting(f, paths, v)
<1>1. Redacting(f, paths, v)
  BY RedactingExists
<1>2. r = f[n]
  BY DEF redactPaths, Redacting, RedactOne
<1> HIDE DEF f
<1> DEFINE Sofar(k) ==
             IF f[k] = TypeError THEN NullItem(v) /\ \E j \in 1..n : Star(paths[j])
             ELSE f[k] = Left(paths, k, v) /\ Tree(f[k])
           Good == {k \in Nat : k <= n => Sofar(k)}
<1>3. 0 \in Good
  <2>1. f[0] = v
    BY <1>1 DEF Redacting
  <2>2. v # TypeError
    <3>1. <<>> \in DOMAIN v /\ DOMAIN TypeError = {}
      BY DEF Tree, TypeError
    <3>2. QED
      BY <3>1
  <2>3. QED
    BY <2>1, <2>2, NoneNamed
<1>4. ASSUME NEW k \in Nat, k \in Good PROVE k + 1 \in Good
  <2> SUFFICES ASSUME k + 1 <= n PROVE Sofar(k + 1)
    OBVIOUS
  <2>1. k <= n /\ k + 1 \in 0..n /\ k + 1 # 0 /\ (k + 1) - 1 = k /\ k + 1 \in 1..n
    OBVIOUS
  <2>2. f[k + 1] = RedactOne(paths[k + 1], f[k])
    BY <1>1, <2>1 DEF Redacting
  <2>3. Sofar(k)
    BY <1>4, <2>1
  <2>4. CASE f[k] = TypeError
    BY <2>2, <2>3, <2>4 DEF RedactOne
  <2>5. CASE f[k] # TypeError
    <3>1. PICK l, path : l = Left(paths, k, v) /\ path = paths[k + 1]
      OBVIOUS
    <3>2. f[k] = l /\ Tree(l) /\ IsPath(path) /\ f[k + 1] = redactPath(path, l)
      BY <2>1, <2>2, <2>3, <2>5, <3>1 DEF RedactOne
    <3>3. CASE f[k + 1] # TypeError
      <4>1. f[k + 1] = Left(paths, k + 1, v) /\ Tree(f[k + 1])
        BY <3>1, <3>2, <3>3, OneMoreNamed
      <4>2. QED
        BY <3>3, <4>1
    <3>4. CASE f[k + 1] = TypeError
      <4>1. PICK at \in Reached(path, l) : Nullish(l[at])
        BY <3>2, <3>4, ThrownBy
      <4>2. DOMAIN l \subseteq DOMAIN v /\ <<>> \in DOMAIN l
            /\ \A a \in DOMAIN l : l[a] \in {"<Removed>", v[a]}
        BY <3>1, <3>2 DEF Left, Tree
      <4>3. l[<<>>] = "object"
        <5>1. ~NamedBy(paths, k, <<>>, Len(<<>>))
          <6>1. \A j \in 1..k : Len(paths[j]) # 0
            BY <2>1 DEF IsPath
          <6>2. QED
            BY <6>1 DEF NamedBy, Targets
        <5>2. QED
          BY <3>1, <4>2, <5>1 DEF Left
      <4>4. at # <<>> /\ at[Len(at)] \in Items /\ Star(path)
        BY <3>2, <4>1, <4>3, ThrowsAt DEF Star
      <4>5. at \in DOMAIN l /\ at \in DOMAIN v
        BY <4>1, <4>2 DEF Reached
      <4>6. v[at] = "null"
        BY <4>1, <4>2, <4>4, <4>5 DEF Nullish
      <4>7. QED
        BY <2>1, <3>1, <3>4, <4>4, <4>5, <4>6 DEF NullItem
    <3>5. QED
      BY <3>3, <3>4
  <2>6. QED
    BY <2>4, <2>5
<1> HIDE DEF Good, Sofar
<1>5. Nat \subseteq Good
  BY <1>3, <1>4, Counting
<1>6. Sofar(n)
  BY <1>5 DEF Good
<1>7. QED
  BY <1>2, <1>6 DEF Sofar

-----------------------------------------------------------------------------
(* The value that is redacted: an object of values.                        *)
LEMMA Below ==
  ASSUME NEW S, NEW n \in S, NEW rest \in Seq(S), NEW at, at = <<n>> \o rest
  PROVE  /\ at \in Seq(S) /\ at # <<>> /\ Len(at) = Len(rest) + 1
         /\ Head(at) = n /\ Tail(at) = rest /\ at[1] = n
         /\ \A i \in 1..Len(rest) : at[i + 1] = rest[i]
<1>1. <<n>> \in Seq(S) /\ Len(<<n>>) = 1 /\ Len(rest) \in Nat
  OBVIOUS
<1>2. at \in Seq(S) /\ Len(at) = Len(rest) + 1 /\ at # <<>>
  BY <1>1
<1>3. at[1] = n /\ \A i \in 1..Len(rest) : at[i + 1] = rest[i]
  BY <1>1
<1>4. Head(at) = n
  BY <1>2, <1>3
<1>5. Tail(at) = rest
  <2>1. PICK t : t = Tail(at)
    OBVIOUS
  <2>2. t \in Seq(S) /\ Len(t) = Len(rest) /\ \A i \in 1..Len(rest) : t[i] = at[i + 1]
    BY <1>1, <1>2, <2>1
  <2>3. \A i \in 1..Len(rest) : t[i] = rest[i]
    BY <1>3, <2>2
  <2>4. t = rest
    BY <2>2, <2>3, SameSeq
  <2>5. QED
    BY <2>1, <2>4
<1>6. QED
  BY <1>2, <1>3, <1>4, <1>5

LEMMA PrefixBelow ==
  ASSUME NEW S, NEW n \in S, NEW rest \in Seq(S), NEW i \in 0..Len(rest)
  PROVE  Prefix(<<n>> \o rest, i + 1) = <<n>> \o Prefix(rest, i)
<1>1. PICK at, short, b : at = <<n>> \o rest /\ short = Prefix(rest, i) /\ b = <<n>> \o short
  OBVIOUS
<1>2. Len(rest) \in Nat /\ i \in Nat /\ i <= Len(rest) /\ i + 1 \in 0..(Len(rest) + 1)
  OBVIOUS
<1>3. short \in Seq(S) /\ Len(short) = i /\ short = [k \in 1..i |-> rest[k]]
  BY <1>1, PrefixIs
<1>4. /\ at \in Seq(S) /\ Len(at) = Len(rest) + 1 /\ at[1] = n
      /\ \A k \in 1..Len(rest) : at[k + 1] = rest[k]
  BY <1>1, Below
<1>5. /\ b \in Seq(S) /\ Len(b) = i + 1 /\ b[1] = n
      /\ \A k \in 1..i : b[k + 1] = short[k]
  BY <1>1, <1>3, Below
<1>6. Prefix(at, i + 1) = [k \in 1..(i + 1) |-> at[k]]
  BY <1>2, <1>4, PrefixIs
<1>7. \A k \in 1..(i + 1) : at[k] = b[k]
  <2>1. ASSUME NEW k \in 1..(i + 1), k # 1 PROVE at[k] = b[k]
    <3>1. k - 1 \in 1..i /\ k - 1 \in 1..Len(rest) /\ (k - 1) + 1 = k
      BY <1>2, <2>1
    <3>2. at[k] = rest[k - 1] /\ b[k] = short[k - 1]
      BY <1>4, <1>5, <3>1
    <3>3. QED
      BY <1>3, <3>1, <3>2
  <2>2. QED
    BY <1>4, <1>5, <2>1
<1>8. b = [k \in 1..(i + 1) |-> b[k]]
  BY <1>5
<1>9. QED
  BY <1>1, <1>6, <1>7, <1>8

LEMMA ObjectIsTree ==
  ASSUME NEW f, DOMAIN f \subseteq STRING \ Items, \A n \in DOMAIN f : IsValue(f[n]),
         NEW o, o = Object(f)
  PROVE  /\ Tree(o) /\ o[<<>>] = "object"
         /\ \A at \in DOMAIN o : /\ o[at] # "<Removed>"
                                 /\ at # <<>> /\ at[Len(at)] \in Items => o[at] # "undefined"
<1> DEFINE below == UNION {{<<n>> \o rest : rest \in DOMAIN f[n]} : n \in DOMAIN f}
<1>1. o = [at \in {<<>>} \cup below |-> IF at = <<>> THEN "object" ELSE f[Head(at)][Tail(at)]]
  BY DEF Object
<1>2. ASSUME NEW at
      PROVE  at \in below <=> \E n \in DOMAIN f : \E rest \in DOMAIN f[n] : at = <<n>> \o rest
  <2>1. ASSUME at \in below
        PROVE  \E n \in DOMAIN f : \E rest \in DOMAIN f[n] : at = <<n>> \o rest
    <3>1. PICK n \in DOMAIN f : at \in {<<n>> \o rest : rest \in DOMAIN f[n]}
      BY <2>1
    <3>2. PICK rest \in DOMAIN f[n] : at = <<n>> \o rest
      BY <3>1
    <3>3. QED
      BY <3>2
  <2>2. ASSUME NEW n \in DOMAIN f, NEW rest, rest \in DOMAIN f[n], at = <<n>> \o rest
        PROVE  at \in below
    <3>1. at \in {<<n>> \o r : r \in DOMAIN f[n]}
      BY <2>2
    <3>2. QED
      BY <3>1
  <2> HIDE DEF below
  <2>3. QED
    BY <2>1, <2>2
<1> HIDE DEF below
<1>3. DOMAIN o = {<<>>} \cup below /\ o[<<>>] = "object" /\ IsObject(o)
  BY <1>1 DEF IsObject
<1>4. ASSUME NEW n \in DOMAIN f, NEW rest, rest \in DOMAIN f[n], NEW at, at = <<n>> \o rest
      PROVE  /\ at \in DOMAIN o /\ o[at] = f[n][rest]
             /\ n \in STRING /\ n \notin Items /\ rest \in Seq(STRING)
  <2>1. n \in STRING /\ n \notin Items /\ rest \in Seq(STRING)
    <3>1. IsValue(f[n]) /\ n \in STRING \ Items
      OBVIOUS
    <3>2. DOMAIN f[n] \subseteq Seq(STRING)
      BY <3>1 DEF IsValue
    <3>3. QED
      BY <1>4, <3>1, <3>2
  <2>2. at # <<>> /\ Head(at) = n /\ Tail(at) = rest
    BY <1>4, <2>1, Below
  <2>3. at \in below
    BY <1>2, <1>4
  <2>4. QED
    BY <1>1, <2>1, <2>2, <2>3
<1>5. ASSUME NEW at \in DOMAIN o, at # <<>>
      PROVE  /\ at \in Seq(STRING) /\ o[at] # "<Removed>"
             /\ at[Len(at)] \in Items => o[at] # "undefined"
             /\ \A i \in 1..Len(at) :
                  /\ Prefix(at, i - 1) \in DOMAIN o
                  /\ o[Prefix(at, i - 1)] = IF at[i] \in Items THEN "array" ELSE "object"
  <2>0. PICK n \in DOMAIN f : \E rest \in DOMAIN f[n] : at = <<n>> \o rest
    BY <1>2, <1>3, <1>5
  <2>1. PICK rest \in DOMAIN f[n] : at = <<n>> \o rest
    BY <2>0
  <2>2. n \in STRING /\ n \notin Items /\ rest \in Seq(STRING) /\ o[at] = f[n][rest]
    BY <1>4, <2>1
  <2>3. /\ at \in Seq(STRING) /\ Len(at) = Len(rest) + 1 /\ at[1] = n /\ Len(rest) \in Nat
        /\ \A i \in 1..Len(rest) : at[i + 1] = rest[i]
    BY <2>1, <2>2, Below
  <2>4. IsValue(f[n])
    OBVIOUS
  <2>5. o[at] # "<Removed>" /\ (rest # <<>> => o[at] # "undefined")
    BY <2>2, <2>4 DEF IsValue
  <2>6. rest = <<>> => at[Len(at)] \notin Items
    BY <2>2, <2>3
  <2>7. ASSUME NEW i \in 1..Len(at)
        PROVE  /\ Prefix(at, i - 1) \in DOMAIN o
               /\ o[Prefix(at, i - 1)] = IF at[i] \in Items THEN "array" ELSE "object"
    <3>1. CASE i = 1
      <4>1. Prefix(at, 0) = <<>>
        BY <2>3, PrefixesOf
      <4>2. QED
        BY <1>3, <2>2, <2>3, <3>1, <4>1
    <3>2. CASE i # 1
      <4>1. PICK j \in 1..Len(rest) : i = j + 1 /\ j - 1 \in 0..Len(rest) /\ i - 1 = (j - 1) + 1
        <5>1. i - 1 \in 1..Len(rest) /\ i = (i - 1) + 1 /\ (i - 1) - 1 \in 0..Len(rest)
              /\ i - 1 = ((i - 1) - 1) + 1
          BY <2>3, <3>2
        <5>2. QED
          BY <5>1
      <4>2. PICK short : short = Prefix(rest, j - 1)
        OBVIOUS
      <4>3. Prefix(at, i - 1) = <<n>> \o short
        <5>1. Prefix(<<n>> \o rest, (j - 1) + 1) = <<n>> \o Prefix(rest, j - 1)
          <6>1. n \in STRING /\ rest \in Seq(STRING) /\ j - 1 \in 0..Len(rest)
            BY <2>2, <4>1
          <6>2. QED
            BY <6>1, PrefixBelow
        <5>2. QED
          BY <2>1, <4>1, <4>2, <5>1
      <4>4. short \in DOMAIN f[n] /\ f[n][short] = IF rest[j] \in Items THEN "array" ELSE "object"
        BY <2>4, <4>2 DEF IsValue
      <4>5. at[i] = rest[j]
        BY <2>3, <4>1
      <4>6. QED
        BY <1>4, <4>3, <4>4, <4>5
    <3>3. QED
      BY <3>1, <3>2
  <2>8. QED
    BY <2>3, <2>5, <2>6, <2>7
<1>6. Tree(o)
  <2>1. DOMAIN o \subseteq Seq(STRING) /\ <<>> \in DOMAIN o
    <3>1. <<>> \in Seq(STRING)
      OBVIOUS
    <3>2. QED
      BY <1>3, <1>5, <3>1
  <2>2. \A i \in 1..Len(<<>>) : FALSE
    OBVIOUS
  <2>3. QED
    BY <1>3, <1>5, <2>1, <2>2 DEF Tree
<1>7. \A at \in DOMAIN o : /\ o[at] # "<Removed>"
                           /\ at # <<>> /\ at[Len(at)] \in Items => o[at] # "undefined"
  BY <1>3, <1>5
<1>8. QED
  BY <1>3, <1>6, <1>7

(* What the interceptors log, and what they give back.                     *)
Given(x) == /\ IsValue(x.data) /\ IsValue(x.responseBody) /\ Len(x.redact) \in Nat
            /\ \A i \in 1..Len(x.redact) : IsPath(x.redact[i])

LEMMA FieldNames ==
  \A n \in {"uri", "requestBody", "params", "responseBody"} : n \in STRING \ Items /\ n # "*"
BY ItemsAssumption

LEMMA PathsAre ==
  ASSUME NEW x, Given(x), NEW paths, paths = Redacted(x)
  PROVE  /\ Len(paths) \in Nat /\ \A k \in 1..Len(paths) : IsPath(paths[k])
         /\ (\E k \in 1..Len(paths) : Star(paths[k])) => \E k \in 1..Len(x.redact) : Star(x.redact[k])
<1>1. CASE x.redact = <<>>
  <2>1. paths = defaultRedact
    BY <1>1 DEF Redacted
  <2>2. Len(paths) = 4
    BY <2>1 DEF defaultRedact
  <2>3. ASSUME NEW k \in 1..Len(paths)
        PROVE  IsPath(paths[k]) /\ ~Star(paths[k])
    <3>1. PICK n \in {"requestBody", "uri", "params", "responseBody"} : paths[k] = <<n>>
      <4>1. k \in {1, 2, 3, 4}
        BY <2>2
      <4>2. QED
        BY <2>1, <4>1 DEF defaultRedact
    <3>2. n \in STRING \ Items /\ n # "*"
      BY FieldNames
    <3>3. <<n>> \in Seq(STRING \ Items) /\ <<n>> # <<>>
      <4>1. PICK S : S = STRING \ Items
        OBVIOUS
      <4>2. n \in S
        BY <3>2, <4>1
      <4>3. <<n>> \in Seq(S) /\ <<n>> # <<>>
        BY <4>2
      <4>4. QED
        BY <4>1, <4>3
    <3>4. Len(<<n>>) = 1 /\ <<n>>[1] = n
      OBVIOUS
    <3>5. QED
      BY <3>1, <3>2, <3>3, <3>4 DEF IsPath, Star
  <2>4. QED
    BY <2>2, <2>3
<1>2. CASE x.redact # <<>>
  BY <1>2 DEF Redacted, Given
<1>3. QED
  BY <1>1, <1>2

LEMMA MetaIs ==
  ASSUME NEW x, Given(x), NEW m, m = Meta(x)
  PROVE  /\ Tree(m) /\ m[<<>>] = "object"
         /\ \A at \in DOMAIN m : /\ m[at] # "<Removed>"
                                 /\ at # <<>> /\ at[Len(at)] \in Items => m[at] # "undefined"
<1> DEFINE f == [uri |-> Leaf("text"), requestBody |-> x.data, responseBody |-> x.responseBody]
<1>1. m = Object(f)
  BY DEF Meta
<1>2. DOMAIN f = {"uri", "requestBody", "responseBody"}
  OBVIOUS
<1>3. DOMAIN f \subseteq STRING \ Items
  <2>1. \A n \in DOMAIN f : n \in {"uri", "requestBody", "responseBody"}
    BY <1>2
  <2> HIDE DEF f
  <2>2. \A n \in DOMAIN f : n \in STRING \ Items
    BY <2>1, FieldNames
  <2>3. QED
    BY <2>2
<1>4. IsValue(Leaf("text"))
  <2>1. PICK l : l = Leaf("text")
    OBVIOUS
  <2>2. l = [at \in {<<>>} |-> "text"]
    BY <2>1 DEF Leaf
  <2>3. DOMAIN l = {<<>>} /\ l[<<>>] = "text" /\ l = [at \in DOMAIN l |-> l[at]]
    BY <2>2
  <2>4. <<>> \in Seq(STRING) /\ \A i \in 1..Len(<<>>) : FALSE
    OBVIOUS
  <2>5. IsValue(l)
    BY <2>3, <2>4 DEF IsValue, IsObject
  <2>6. QED
    BY <2>1, <2>5
<1>5. \A n \in DOMAIN f : IsValue(f[n])
  BY <1>2, <1>4 DEF Given
<1> HIDE DEF f
<1>6. QED
  BY <1>1, <1>3, <1>5, ObjectIsTree

LEMMA GetMetaGives ==
  ASSUME NEW x, Given(x), NEW meta, meta = getMeta(x), ~Unparsable(x.data)
  PROVE  IF meta = TypeError
         THEN NullItem(Meta(x)) /\ \E k \in 1..Len(x.redact) : Star(x.redact[k])
         ELSE meta = Left(Redacted(x), Len(Redacted(x)), Meta(x))
<1>1. PICK m, paths, n : m = Meta(x) /\ paths = Redacted(x) /\ n = Len(paths)
  OBVIOUS
<1>2. meta = redactPaths(paths, m)
  BY <1>1 DEF getMeta
<1>3. /\ Tree(m) /\ m[<<>>] = "object"
      /\ \A at \in DOMAIN m : /\ m[at] # "<Removed>"
                              /\ at # <<>> /\ at[Len(at)] \in Items => m[at] # "undefined"
  BY <1>1, MetaIs
<1>4. /\ n \in Nat /\ \A k \in 1..n : IsPath(paths[k])
      /\ (\E k \in 1..n : Star(paths[k])) => \E k \in 1..Len(x.redact) : Star(x.redact[k])
  BY <1>1, PathsAre
<1>5. IF meta = TypeError THEN NullItem(m) /\ \E k \in 1..n : Star(paths[k])
      ELSE meta = Left(paths, n, m)
  BY <1>1, <1>2, <1>3, <1>4, RedactPathsGives
<1>6. QED
  BY <1>1, <1>4, <1>5

LEMMA LoggedOf ==
  ASSUME NEW x, NEW meta, ~(meta = TypeError),
         meta = Left(Redacted(x), Len(Redacted(x)), Meta(x)),
         NEW logged, logged = IF x.end = "response" THEN meta ELSE WithoutBody(meta)
  PROVE  logged = WhatIsDiscreet(x)
<1> DEFINE Named(at, i) == \E k \in 1..Len(Redacted(x)) : Targets(Redacted(x)[k], at, i)
           node(at) == IF Named(at, Len(at)) /\ Truthy(Meta(x)[at])
                       THEN "<Removed>" ELSE Meta(x)[at]
           all == {at \in DOMAIN Meta(x) : \A i \in 1..(Len(at) - 1) : ~Named(at, i)}
           shown == {at \in DOMAIN Meta(x) : /\ x.end = "response" \/ OfRequest(at)
                                            /\ \A i \in 1..(Len(at) - 1) : ~Named(at, i)}
<1>1. WhatIsDiscreet(x) = [at \in shown |-> node(at)]
  BY DEF WhatIsDiscreet
<1>2. meta = [at \in all |-> node(at)]
  BY DEF Left, NamedBy
<1>3. CASE x.end = "response"
  <2>1. shown = all
    BY <1>3
  <2> HIDE DEF shown, all, node
  <2>2. QED
    BY <1>1, <1>2, <1>3, <2>1
<1>4. CASE ~(x.end = "response")
  <2>1. shown = {p \in all : OfRequest(p)} /\ shown \subseteq all
    BY <1>4
  <2> HIDE DEF shown, all, node
  <2>2. DOMAIN meta = all /\ \A at \in all : meta[at] = node(at)
    BY <1>2
  <2>3. logged = [at \in shown |-> meta[at]]
    BY <1>4, <2>1, <2>2 DEF WithoutBody
  <2>4. QED
    BY <1>1, <2>1, <2>2, <2>3
<1>5. QED
  BY <1>3, <1>4

LEMMA ExchangeFacts == CallIInv => LoggingIsDiscreet
<1> SUFFICES ASSUME CallIInv, Answered("exchange") PROVE LoggingIsDiscreet
  BY DEF LoggingIsDiscreet, RedactsWhatIsNamed, LoggingKeepsTheAnswer
<1>1. PICK x : x = call.exchange
  OBVIOUS
<1>2. Given(x)
  BY <1>1, CallsAssumption DEF CallIInv, Answered, Of, Given
<1>3. answer.is = onResponse(x)
  BY <1>1 DEF CallIInv, AnswerIsGiven, Gives, Answered
<1>4. PICK meta : meta = getMeta(x)
  OBVIOUS
<1>5. meta = TypeError => \/ Unparsable(x.data)
                          \/ NullItem(Meta(x)) /\ \E k \in 1..Len(x.redact) : Star(x.redact[k])
  BY <1>2, <1>4, GetMetaGives
<1>6. meta # TypeError => meta = Left(Redacted(x), Len(Redacted(x)), Meta(x))
  <2>1. Unparsable(x.data) => meta = TypeError
    BY <1>4 DEF getMeta
  <2>2. QED
    BY <1>2, <1>4, <2>1, GetMetaGives
<1>7. LoggingKeepsTheAnswer
  <2>1. (x.end # "noResponse" /\ meta = TypeError) \/ answer.is.given = x.end
    BY <1>3, <1>4 DEF onResponse
  <2>2. QED
    BY <1>1, <1>5, <2>1 DEF LoggingKeepsTheAnswer, NullItem, Star, Last
<1>8. RedactsWhatIsNamed
  <2>0. (\A logged \in answer.is.logged : logged = WhatIsDiscreet(x)) => RedactsWhatIsNamed
    BY <1>1 DEF RedactsWhatIsNamed
  <2>1. SUFFICES ASSUME NEW logged \in answer.is.logged PROVE logged = WhatIsDiscreet(x)
    BY <2>0
  <2>2. /\ meta # TypeError
        /\ logged = IF x.end = "response" THEN meta ELSE WithoutBody(meta)
    BY <1>3, <1>4 DEF onResponse
  <2>3. QED
    BY <1>6, <2>2, LoggedOf
<1>9. QED
  BY <1>7, <1>8 DEF LoggingIsDiscreet

(* Of an exchange, for any values and any paths, a truthy field that a     *)
(* path names by its last name is logged as '<Removed>' and nothing below  *)
(* it is; falsy values, the items of a path that ends in *, and all else   *)
(* are logged as they were.  Logging turns an answer into an exception     *)
(* only where the body sent is no JSON or, if a path has a *, an item is   *)
(* null (axios-logger, index.ts).                                          *)
THEOREM LoggingDiscreet == CallSpec => []LoggingIsDiscreet
BY ExchangeFacts, CallInductive, PTL
=============================================================================
