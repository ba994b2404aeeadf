------------------------------ MODULE MCPGSink ------------------------------
(* Small instances of PGSink for TLC. *)
EXTENDS PGSink

CONSTANTS a, b, x  (* topics; x has no config *)

m(t, k) == [topic |-> t, key |-> k]

(* Two topics that alternate, a message delivered twice, and one of a      *)
(* topic without config between them.                                      *)
MCLog == << m(a, 1), m(b, 1), m(a, 2), m(a, 3), m(x, 1), m(a, 1), m(b, 2), m(b, 1) >>

(* The rows of a query, with keys of their own. *)
MCRows == << m(a, 3), m(a, 1), m(a, 4), m(a, 2), m(a, 5) >>

MCSources ==
  {[batches |-> "topic", log |-> MCLog]} \cup [batches : {"row", "all"}, log : {MCRows}]
=============================================================================
