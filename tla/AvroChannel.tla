---------------------------- MODULE AvroChannel ----------------------------
(***************************************************************************)
(* What avro-stream promises to those who use it: what was sent arrives    *)
(* once with its schema and value, or is reported as an error, and nothing *)
(* else arrives; it is in order, but that a message may be passed by later *)
(* ones once an error was reported ahead of it.  How schemas travel as ids *)
(* of a registry, and streams buffer, is the matter of AvroExchange.       *)
(***************************************************************************)
EXTENDS Integers, Sequences

CONSTANTS
  Consumers,  (* those who read all that is sent *)
  Content     (* what may be sent *)

VARIABLES
  sent,      (* what was sent, in order *)
  received,  (* the messages each consumer got, with their place in sent *)
  failed     (* those it got an error for, by their place *)

vars == <<sent, received, failed>>

Init ==
  /\ sent \in Seq(Content)
  /\ received = [c \in Consumers |-> <<>>] /\ failed = [c \in Consumers |-> {}]

Send ==
  /\ \E n \in 1..Len(sent') : sent = SubSeq(sent', 1, Len(sent') - n)
  /\ UNCHANGED <<received, failed>>

Pending(c) ==
  {n \in 1..Len(sent) : n \notin failed[c] /\ \A i \in DOMAIN received[c] : received[c][i][1] # n}

(* Only what an error was reported ahead of waits while n is taken. *)
MayTake(c, n) == \A m \in Pending(c) : m < n => \E e \in failed[c] : e < m

Receive(c) ==
  \E n \in Pending(c) :
    /\ MayTake(c, n)
    /\ received' = [received EXCEPT ![c] = Append(@, <<n, sent[n]>>)]
    /\ UNCHANGED <<sent, failed>>

Fail(c) ==
  \E n \in Pending(c) :
    /\ MayTake(c, n)
    /\ failed' = [failed EXCEPT ![c] = @ \cup {n}]
    /\ UNCHANGED <<sent, received>>

Next == Send \/ \E c \in Consumers : Receive(c) \/ Fail(c)

Spec == Init /\ [][Next]_vars
=============================================================================
