----------------------------- MODULE AxiosLogger -----------------------------
(***************************************************************************)
(* packages/axios-logger: what the interceptors log of an exchange, with   *)
(* the redacted paths removed, and what they return to the caller.         *)
(*                                                                         *)
(* A value is a function from the positions in it, sequences of the names  *)
(* that lead there, to what is there: "object", "array" or one of "text",  *)
(* which is truthy, "zero", "null" and "undefined".                        *)
(***************************************************************************)
EXTENDS Integers, Sequences, SequencesExt

CONSTANT Items   (* the names of the items of arrays *)

ASSUME ItemsAssumption ==
  /\ Items \subseteq STRING
  /\ {"*", "uri", "requestBody", "params", "responseBody"} \subseteq STRING \ Items

Leaf(v) == [at \in {<<>>} |-> v]
Object(f) ==
  [at \in {<<>>} \cup UNION {{<<n>> \o rest : rest \in DOMAIN f[n]} : n \in DOMAIN f} |->
     IF at = <<>> THEN "object" ELSE f[Head(at)][Tail(at)]]

(* An exception in the place of a value: nothing is anywhere in it. *)
TypeError == <<>>

Nullish(v) == v \in {"null", "undefined"}
Truthy(v) == v \notin {"null", "undefined", "zero"}

Prefix(at, i) == SubSeq(at, 1, i)

(* Faulty variant: a field may have any value. *)
GoesOnAnywhere(path, obj, at, i) ==
  \/ path[i] = "*" /\ obj[Prefix(at, i - 1)] = "array"
  \/ path[i] = at[i] /\ obj[Prefix(at, i - 1)] = "object"

(* redactPath() goes on from a value with the i-th name of the path: to    *)
(* every item of an array, or to the field of that name if it is truthy.   *)
GoesOn(path, obj, at, i) ==
  \/ path[i] = "*" /\ obj[Prefix(at, i - 1)] = "array"
  \/ path[i] = at[i] /\ obj[Prefix(at, i - 1)] = "object" /\ Truthy(obj[Prefix(at, i)])

(* redactPath() from one call to the next: it is called for the positions  *)
(* its steps lead to, but for the fields the whole path leads to, which    *)
(* are replaced.  obj[current] throws where there is no obj.               *)
redactPath(path, obj) ==
  LET reached == {at \in DOMAIN obj :
                    Len(at) <= Len(path) /\ \A i \in 1..Len(at) : GoesOn(path, obj, at, i)}
      removed == {at \in reached : Len(at) = Len(path) /\ obj[Front(at)] = "object"}
      left == {at \in DOMAIN obj : \A i \in 1..(Len(at) - 1) : Prefix(at, i) \notin removed}
  IN  IF \E at \in reached : Nullish(obj[at]) THEN TypeError
      ELSE [at \in left |-> IF at \in removed THEN "<Removed>" ELSE obj[at]]

redactPaths(paths, object) ==
  LET current[k \in 0..Len(paths)] ==
        IF k = 0 THEN object
        ELSE IF current[k - 1] = TypeError THEN TypeError
        ELSE redactPath(paths[k], current[k - 1])
  IN  current[Len(paths)]

defaultRedact == << <<"requestBody">>, <<"uri">>, <<"params">>, <<"responseBody">> >>

(* JSON.parse(data) throws at a body that is not JSON; undefined is not parsed. *)
Unparsable(data) == data = Leaf("form")

Redacted(exchange) == IF exchange.redact = <<>> THEN defaultRedact ELSE exchange.redact
Meta(exchange) == Object([uri |-> Leaf("text"), requestBody |-> exchange.data,
                          responseBody |-> exchange.responseBody])

getMeta(exchange) ==
  IF Unparsable(exchange.data) THEN TypeError
  ELSE redactPaths(Redacted(exchange), Meta(exchange))

(* const { responseBody, ...meta } = getMeta(error.response) *)
OfRequest(at) == at = <<>> \/ at[1] # "responseBody"
WithoutBody(meta) == [at \in {p \in DOMAIN meta : OfRequest(p)} |-> meta[at]]

(* onFulfilled and onRejected of the response: what is logged, and what    *)
(* the caller is given, the response or the error itself or what getMeta() *)
(* throws.  An error without a response is not logged.                     *)
onResponse(exchange) ==
  LET meta == getMeta(exchange) IN
  IF exchange.end = "noResponse" THEN [logged |-> {}, given |-> exchange.end]
  ELSE IF meta = TypeError THEN [logged |-> {}, given |-> "exception"]
  ELSE IF exchange.end = "response" THEN [logged |-> {meta}, given |-> exchange.end]
  ELSE [logged |-> {WithoutBody(meta)}, given |-> exchange.end]
=============================================================================
