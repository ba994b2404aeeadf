---------------------------- MODULE MCHttpCache ----------------------------
(* Small data sources for TLC: two of different base urls whose requests   *)
(* one url, with different params of one text, share a key; the resource   *)
(* of one of them is also posted to.                                       *)
EXTENDS HttpCache, TLC

CONSTANTS c1, c2, c3, api, other

Get(base, u, p) == [method |-> "get", baseURL |-> base, url |-> u, params |-> p]
MCRequests == {Get(api, 1, "x"), Get(other, 1, "y"),
               [Get(api, 1, "x") EXCEPT !.method = "post"]}
MCText == [x |-> "[object Object]", y |-> "[object Object]"]
MCPostMaxAges == {-1, 1}
ClientSymmetry == Permutations(Clients)
=============================================================================
