------------------------------- MODULE Helpers -------------------------------
(***************************************************************************)
(* The packages without state of their own, one call at a time: a call is  *)
(* chosen, made, and its answer compared with what the function should     *)
(* have given, said in another way than the code computes it.              *)
(***************************************************************************)
EXTENDS LogicalTypes, Telemetry, AxiosLogger, Settings

CONSTANT Calls   (* records of one field, named for the function called *)

DateTypes == {"DateType", "DateAsDateType", "TimestampType", "TimestampAsDateType"}

(* What a logger of the chain of a line is given. *)
IsStep(given) ==
  IF "meta" \in DOMAIN given THEN IsObject(given.meta) ELSE given.sanitizers \in Seq(Sanitizers)

IsSetting(value) == "text" \in DOMAIN value => value.text \in Seq(Part)

(* A value of JSON, or what there is in the place of one: a position is in *)
(* an object or in an array, and the names of items are used in arrays     *)
(* only.                                                                   *)
IsValue(v) ==
  /\ IsObject(v) /\ DOMAIN v \subseteq Seq(STRING) /\ <<>> \in DOMAIN v
  /\ \A at \in DOMAIN v :
       /\ v[at] # "<Removed>" /\ (at # <<>> => v[at] # "undefined")
       /\ \A i \in 1..Len(at) :
            /\ Prefix(at, i - 1) \in DOMAIN v
            /\ v[Prefix(at, i - 1)] = IF at[i] \in Items THEN "array" ELSE "object"

(* A path to redact has at least one name, and none that is an item's. *)
IsPath(path) == path \in Seq(STRING \ Items) /\ path # <<>>

(* The arguments a function may be called with. *)
ASSUME CallsAssumption ==
  \A c \in Calls :
    /\ \A function, other \in DOMAIN c : function = other
    /\ "decimal" \in DOMAIN c =>
         c.decimal \in Int /\ -(Precision * Finer) < c.decimal /\ c.decimal < Precision * Finer
    /\ "buffer" \in DOMAIN c => c.buffer \in Seq(0..(Byte - 1))
    /\ "stored" \in DOMAIN c => c.stored.type \in DateTypes /\ c.stored.val \in Int
    /\ "date" \in DOMAIN c => c.date.type \in DateTypes /\ c.date.ms \in -MaxMs..MaxMs
    /\ "point" \in DOMAIN c => IsObject(c.point.staticMeta) /\ IsObject(c.point.tags)
    /\ "time" \in DOMAIN c => c.time \in Nat
    /\ "line" \in DOMAIN c =>
         /\ IsObject(c.line.staticMeta) /\ IsObject(c.line.meta)
         /\ c.line.sanitizers \in Seq(Sanitizers)
         /\ c.line.chain \in Seq(ToSet(c.line.chain))
         /\ \A i \in DOMAIN c.line.chain : IsStep(c.line.chain[i])
    /\ "load" \in DOMAIN c =>
         /\ \A user \in c.load.found :
              IsObject(user) /\ \A key \in DOMAIN user : IsSetting(user[key])
         /\ IsObject(c.load.defaults)
         /\ \A name \in DOMAIN c.load.env : c.load.env[name] \in Seq(Part)
    /\ "exchange" \in DOMAIN c =>
         /\ IsValue(c.exchange.data) /\ IsValue(c.exchange.responseBody)
         /\ Len(c.exchange.redact) \in Nat
         /\ \A i \in 1..Len(c.exchange.redact) : IsPath(c.exchange.redact[i])

VARIABLES call, answer

Pending == [pending |-> TRUE]
NoCall == call = Pending /\ answer = Pending

CallInit == call \in Calls /\ answer = Pending

Of(function) == function \in DOMAIN call
Make(function, result) == Of(function) /\ answer = Pending /\ answer' = [is |-> result]
Answered(function) == Of(function) /\ answer # Pending

CallNext ==
  /\ UNCHANGED call
  /\ \/ Make("decimal", bufferToDecimal(decimalToBuffer(call.decimal)))
     \/ Make("buffer",
          IF Supported(call.buffer) THEN {bufferToDecimal(call.buffer)} ELSE {})
     \/ Make("stored",
          toValue(call.stored.type, fromValue(call.stored.type, call.stored.val)))
     \/ Make("date", toValue(call.date.type, [is |-> "Date", ms |-> call.date.ms]))
     \/ Make("point",
          trackPoint(call.point.store, call.point.staticMeta, call.point.tags))
     \/ Make("time", distribution(call.time))
     \/ Make("line",
          log(Derive(Logger(call.line.staticMeta, call.line.sanitizers), call.line.chain),
              call.line.meta))
     \/ Make("load", loadConfigFile(call.load.found, call.load.env,
                                     call.load.defaults, call.load.required))
     \/ Make("exchange", onResponse(call.exchange))

-----------------------------------------------------------------------------
(* A decimal that fits comes back with the digits of the scale, cut off    *)
(* towards zero: never larger than it was, less than a unit smaller.  One  *)
(* of more than 20 digits is rounded to 20 before, and may come back as    *)
(* the next unit, larger by at most half of the last place kept.           *)
DecimalIsCutOff ==
  Answered("decimal") =>
    LET val == call.decimal
        abs(n) == IF n < 0 THEN -n ELSE n
        lost == abs(val) - abs(answer.is)
    IN  abs(val) < (Range64 \div 2 - 1) * Finer =>
          /\ answer.is % Finer = 0
          /\ \/ lost \in 0..(Finer - 1)
             \/ abs(val) >= Precision /\ lost < 0 /\ -2 * lost <= LastPlace(abs(val))
          /\ val * answer.is >= 0

(* A buffer of any length up to 64 bits, from another writer of avro, is   *)
(* read as the two's complement number it holds; a longer one is refused.  *)
ShortBuffersKeepSign ==
  Answered("buffer") =>
    LET buf == call.buffer
        limit == Weight[Len(buf)]
        negative == 2 * Unsigned(buf) >= limit
    IN  answer.is = IF Len(buf) > Bytes THEN {}
                    ELSE {(IF negative /\ buf # <<>> THEN Unsigned(buf) - limit
                           ELSE Unsigned(buf)) * Finer}

(* What the types that give Dates read is written again as it was stored,  *)
(* unless there is no such Date; those that give ISO strings write a       *)
(* string, which avro refuses.  A Date is stored as the day it is in,      *)
(* before the epoch too.                                                   *)
DatesKeepTheirDay ==
  /\ Answered("stored") =>
       LET type == call.stored.type
           val == call.stored.val
           ms == IF type = "DateAsDateType" THEN val * DayMs ELSE val
       IN  (answer.is = [is |-> "number", ms |-> val])
             <=> type \in {"DateAsDateType", "TimestampAsDateType"} /\ ms \in -MaxMs..MaxMs
  /\ Answered("date") => call.date.ms - fromValue(call.date.type, answer.is.ms).ms
       \in 0..(IF call.date.type \in {"DateType", "DateAsDateType"} THEN DayMs - 1 ELSE 0)

(* The tags of a point are its own where they have a value, and the        *)
(* tracker's metadata elsewhere; one that is empty is named in the warning *)
(* whether or not the metadata takes its place.  A tag without a value     *)
(* (undefined) is not warned of: it rejects the caller of Influx, and      *)
(* Datadog sends the point without it.  That is what the code does; the    *)
(* README of both packages (line 3) has secondary logging "if ... invalid  *)
(* input is provided".                                                     *)
TagsAccounted ==
  Answered("point") =>
    LET tags == call.point.tags
        static == call.point.staticMeta
        Given(n) == n \in DOMAIN tags /\ tags[n] \notin {"", "undefined"}
        lost == \E n \in DOMAIN tags : tags[n] = "undefined"
    IN  /\ answer.is.rejected <=> lost /\ call.point.store = "influx"
        /\ ~answer.is.rejected =>
             \E sent \in answer.is.sent : \A n \in DOMAIN tags \cup DOMAIN static :
               /\ n \in DOMAIN sent <=> Given(n) \/ n \in DOMAIN static
               /\ n \in DOMAIN sent => sent[n] = IF Given(n) THEN tags[n] ELSE static[n]
               /\ n \in answer.is.warned <=> n \in DOMAIN tags /\ tags[n] = ""

(* The value of a distribution is within half a millisecond of the time    *)
(* measured, but for the shortest times, of which 0 is sent as 1.          *)
TimeIsRounded ==
  Answered("time") =>
    \/ answer.is * 10 - call.time \in -4..5
    \/ call.time < 5 /\ answer.is = 1

(* The metadata and the sanitizers a line has from the first logger, from  *)
(* each that was derived and from the call of log().                       *)
MetaOf(x, i) ==
  IF i = 0 THEN x.staticMeta
  ELSE IF i = Len(x.chain) + 1 THEN x.meta
  ELSE IF "meta" \in DOMAIN x.chain[i] THEN x.chain[i].meta
  ELSE <<>>

SanitizersOf(x, i) ==
  IF i = 0 THEN x.sanitizers
  ELSE IF "meta" \in DOMAIN x.chain[i] THEN <<>>
  ELSE x.chain[i].sanitizers

Drops(sanitizers) == \E i \in DOMAIN sanitizers : sanitizers[i] = "dropEmail"

(* The email is made the user before it is dropped. *)
Shows(sanitizers) ==
  \E i \in DOMAIN sanitizers :
    /\ sanitizers[i] = "emailAsUser"
    /\ \A j \in 1..(i - 1) : sanitizers[j] # "dropEmail"

(* A sanitizer holds for the logger it was added to and for all that are   *)
(* derived from it: no line has an email once it is dropped, and it only   *)
(* shows elsewhere through a sanitizer that was added earlier.  What the   *)
(* call and the loggers say otherwise stands, the latest of them.          *)
SanitizersHold ==
  Answered("line") =>
    LET x == call.line
        line == answer.is
        loggers == 0..Len(x.chain)
        all == 0..(Len(x.chain) + 1)
        Has(k) == \E i \in all : k \in DOMAIN MetaOf(x, i)
        IsLatest(v, k) == \E i \in all :
          /\ k \in DOMAIN MetaOf(x, i) /\ v = MetaOf(x, i)[k]
          /\ \A j \in (i + 1)..(Len(x.chain) + 1) : k \notin DOMAIN MetaOf(x, j)
        dropped == \E i \in loggers : Drops(SanitizersOf(x, i))
        shown == Has("email") /\ \E i \in loggers :
                   Shows(SanitizersOf(x, i)) /\ \A j \in 0..(i - 1) : ~Drops(SanitizersOf(x, j))
    IN  /\ "email" \in DOMAIN line <=> Has("email") /\ ~dropped
        /\ "email" \in DOMAIN line => IsLatest(line["email"], "email")
        /\ "user" \in DOMAIN line <=> shown \/ Has("user")
        /\ "user" \in DOMAIN line => IsLatest(line["user"], IF shown THEN "email" ELSE "user")

(* What avro stores of a number or a date is what can be read again. *)
ConversionsKeepValues == DecimalIsCutOff /\ ShortBuffersKeepSign /\ DatesKeepTheirDay

(* Nothing that is tracked or logged is lost or shown beyond what the      *)
(* application said of it.                                                 *)
TelemetryAccounted == TagsAccounted /\ TimeIsRounded /\ SanitizersHold

-----------------------------------------------------------------------------
(* A configuration that is loaded has every required key from the file;    *)
(* a ${name} is left in it only where it came out of the environment, in a *)
(* nested value or in a default: a default is given as it is.              *)
SettingsComeResolved ==
  Answered("load") =>
    LET x == call.load
        user == CHOOSE f \in x.found : TRUE
        Left(parts) == ToSet(parts) \cap Names
        FromEnv(parts) == UNION {Left(EnvText(x.env, n)) : n \in Left(parts)}
    IN  IF "config" \notin DOMAIN answer.is
        THEN x.found = {} \/ ~(x.required \subseteq DOMAIN user)
        ELSE LET config == answer.is.config IN
             /\ DOMAIN config = DOMAIN user \cup DOMAIN x.defaults
             /\ x.required \subseteq DOMAIN user
             /\ \A key \in DOMAIN config :
                  IF key \in DOMAIN user /\ "text" \in DOMAIN user[key]
                  THEN Left(config[key].text) = FromEnv(user[key].text)
                  ELSE config[key] = IF key \in DOMAIN user THEN user[key] ELSE x.defaults[key]

-----------------------------------------------------------------------------
(* Whether a path names the field that the first i names of a position     *)
(* lead to.  A path that ends in * names no item, as ItemsAreTargeted has  *)
(* it against the code.                                                    *)
Targets(path, at, i) ==
  /\ Len(path) = i /\ path[i] = at[i]
  /\ \A k \in 1..i : path[k] = at[k] \/ (path[k] = "*" /\ at[k] \in Items)

WhatIsDiscreet(x) ==
  LET Named(at, i) == \E k \in 1..Len(Redacted(x)) : Targets(Redacted(x)[k], at, i)
      shown == {at \in DOMAIN Meta(x) : /\ x.end = "response" \/ OfRequest(at)
                                       /\ \A i \in 1..(Len(at) - 1) : ~Named(at, i)}
  IN  [at \in shown |-> IF Named(at, Len(at)) /\ Truthy(Meta(x)[at])
                        THEN "<Removed>" ELSE Meta(x)[at]]

(* A truthy value that a path names is logged as '<Removed>', whatever     *)
(* the other paths are and in whatever order they come, nothing below it   *)
(* is logged, and all else is logged as it was.  A response that is an     *)
(* error is logged without its body.                                       *)
RedactsWhatIsNamed ==
  Answered("exchange") => answer.is.logged \subseteq {WhatIsDiscreet(call.exchange)}

(* Logging changes what the caller is given only when the body sent is not *)
(* JSON or a path leads through an item of an array that is null.          *)
LoggingKeepsTheAnswer ==
  Answered("exchange") =>
    LET x == call.exchange IN
    \/ answer.is.given = x.end
    \/ /\ x.end # "noResponse"
       /\ \/ Unparsable(x.data)
          \/ /\ \E k \in 1..Len(x.redact) : \E i \in 1..Len(x.redact[k]) : x.redact[k][i] = "*"
             /\ \E at \in DOMAIN Meta(x) :
                  at # <<>> /\ Last(at) \in Items /\ Meta(x)[at] = "null"

(* packages/axios-logger/README.md:51: a path "can contain wildcard `*`    *)
(* path to target all array items", to be redacted.  So an item that a     *)
(* path leads to is not in the log.                                        *)
ItemsAreTargeted ==
  Answered("exchange") =>
    LET paths == Redacted(call.exchange)
        Leads(path, at) ==
          Len(path) = Len(at) /\ \A i \in 1..Len(at) :
            path[i] = at[i] \/ (path[i] = "*" /\ at[i] \in Items)
    IN  \A meta \in answer.is.logged, k \in 1..Len(paths) : \A at \in DOMAIN meta :
          Leads(paths[k], at) => ~Truthy(meta[at]) \/ meta[at] = "<Removed>"

(* Logging an exchange hides what the code takes a path to name and leaves *)
(* the answer alone.                                                       *)
LoggingIsDiscreet == RedactsWhatIsNamed /\ LoggingKeepsTheAnswer

CallSpec == CallInit /\ [][CallNext]_<<call, answer>>
=============================================================================
