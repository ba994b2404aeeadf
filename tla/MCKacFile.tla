------------------------------ MODULE MCKacFile ------------------------------
(* Small topics for TLC.  The value of event i of partition p is <<p, i>>  *)
(* and what it is made of: plain values stay what they are in JSON; a Date *)
(* becomes a string, which its schema takes; a Buffer becomes an object,   *)
(* which it does not take.                                                 *)
EXTENDS KacFile

CONSTANTS k1, k2, s1, s2

MCPayloads == TopicPartitions \X (1..2) \X {"plain", "Date", "string", "Buffer", "object"}

Stringified == [plain |-> "plain", Date |-> "string", string |-> "string",
                Buffer |-> "object", object |-> "object"]
MCJson == [v \in MCPayloads |-> <<v[1], v[2], Stringified[v[3]]>>]

EventsOf(p, n, key, schema, of) ==
  [i \in 1..n |-> [key |-> key[i], schema |-> schema[i], value |-> <<p, i, of[i]>>]]

Same(x) == <<x, x>>
Lengths == [TopicPartitions -> 0..2]

(* s1 encodes all but objects; s2 the second events of partitions only.    *)
MCEncodes ==
  {s1} \X {v \in MCPayloads : v[3] # "object"} \cup {s2} \X {v \in MCPayloads : v[2] = 2}

(* Some partitions may be empty; or each has a key of its own, or its      *)
(* events have keys, schemas or kinds of value of their own.               *)
MCTopics ==
  {[p \in TopicPartitions |-> EventsOf(p, n[p], Same(k1), Same(s1), Same("plain"))] : n \in Lengths}
    \cup {[p \in TopicPartitions |-> EventsOf(p, 2, key[p], Same(s1), Same("plain"))] :
             key \in [TopicPartitions -> {<<k1, k1>>, <<k2, k2>>, <<k1, k2>>}]}
    \cup {[p \in TopicPartitions |-> EventsOf(p, 2, Same(k1), schema[p], Same("plain"))] :
             schema \in [TopicPartitions -> {<<s1, s1>>, <<s1, s2>>}]}
    \cup {[p \in TopicPartitions |-> EventsOf(p, 2, Same(k1), Same(s1), of[p])] :
             of \in [TopicPartitions -> {Same("plain"), Same("Date"), <<"plain", "Buffer">>}]}
=============================================================================
