--------------------------- MODULE MCAvroExchange ---------------------------
(* A small instance of AvroExchange for TLC. *)
EXTENDS AvroExchange, TLC

CONSTANTS p1, p2, c1, c2, orders, bills, v1, v2, old1, old2, broken, x, y

(* p1 has a message that v1 does not encode; p2 has a schema that is none, *)
(* then both versions, the later one first.                                *)
MCRequests ==
  p1 :> << [subject |-> orders, schema |-> v1, messages |-> <<x, y>>] >> @@
  p2 :> << [subject |-> bills, schema |-> broken, messages |-> <<x>>],
           [subject |-> orders, schema |-> v2, messages |-> <<y>>],
           [subject |-> orders, schema |-> v1, messages |-> <<x>>] >>

MCEncodes == {<<v1, x>>, <<v2, x>>, <<v2, y>>}

(* A registry where both versions have ids that are read back, and one     *)
(* whose next ids are 3, the last that is, and 4.                          *)
MCStarts ==
  { [ids |-> <<>>, log |-> <<[schemaId |-> 0, buffer |-> Foreign]>>],
    [ids |-> <<old1, old2>>, log |-> <<>>] }
=============================================================================
