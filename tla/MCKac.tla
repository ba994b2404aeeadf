------------------------------- MODULE MCKac --------------------------------
(* kac consume with its progress, and the file that it writes with what is *)
(* produced from that file: a behaviour is of the one or of the other.     *)
EXTENDS MCKacConsume, MCKacFile

VARIABLE part

kacPartVars == <<vars, fileVars, part>>

(* Nothing is consumed. *)
NoConsumer ==
  /\ tail = TRUE
  /\ log = InitialLog /\ next = FirstOffset
  /\ fetched = <<>> /\ progress = <<>> /\ waiting = <<>>
  /\ stop = "open" /\ consumer = "closed"
  /\ out = <<>> /\ read = 0
  /\ failure = "none"
  /\ summary = [printed |-> FALSE, totalCount |-> 0, partitions |-> <<>>]

NoFile == FileInit /\ topic = [p \in TopicPartitions |-> <<>>]

KacPartInit ==
  \/ part = "consume" /\ Init /\ NoFile
  \/ part = "file" /\ FileInit /\ NoConsumer

KacPartNext ==
  /\ UNCHANGED part
  /\ \/ part = "consume" /\ Next /\ UNCHANGED fileVars
     \/ part = "file" /\ FileNext /\ UNCHANGED vars

KacPartSpec == KacPartInit /\ [][KacPartNext]_kacPartVars /\ Fairness
=============================================================================
