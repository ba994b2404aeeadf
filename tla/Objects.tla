------------------------------- MODULE Objects -------------------------------
(* JavaScript objects as functions from the names of their properties. *)

IsObject(o) == o = [n \in DOMAIN o |-> o[n]]

Only(names, f) == [n \in names |-> f[n]]

(* {...a, ...b} *)
Spread(a, b) == [n \in DOMAIN a \cup DOMAIN b |-> IF n \in DOMAIN b THEN b[n] ELSE a[n]]
=============================================================================
