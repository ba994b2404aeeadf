------------------------------ MODULE Telemetry ------------------------------
(***************************************************************************)
(* What packages/influx-metrics-tracker, packages/datadog-metrics-tracker  *)
(* and packages/winston-logger make of one call: the tags of a point, the  *)
(* warning about those without a value, the metadata of a log line.  What  *)
(* becomes of a point of Influx afterwards is in InfluxTracker.            *)
(*                                                                         *)
(* Tags and metadata are functions from names to values; "" is the empty   *)
(* string and "undefined" a name that has no value.                        *)
(***************************************************************************)
EXTENDS Integers, Sequences, Objects

-----------------------------------------------------------------------------
(* The trackers *)

getValidTags(tags) == Only({n \in DOMAIN tags : tags[n] \notin {"", "undefined"}}, tags)

getInvalidTagNames(tags) == {n \in DOMAIN tags : tags[n] = ""}

PointTags(staticMeta, tags) == Spread(staticMeta, getValidTags(tags))

(* trackPoint().  value.length of an undefined tag throws in Influx's      *)
(* tracker, before its try; Datadog's has value?.length, which skips it.   *)
trackPoint(store, staticMeta, tags) ==
  IF store = "influx" /\ \E n \in DOMAIN tags : tags[n] = "undefined"
  THEN [sent |-> {}, warned |-> {}, rejected |-> TRUE]
  ELSE [sent |-> {PointTags(staticMeta, tags)},
        warned |-> getInvalidTagNames(tags), rejected |-> FALSE]

(* statusCode ? statusCode.toString() : '' *)
Status(statusCode) == IF statusCode \in {"undefined", "0"} THEN "" ELSE statusCode

(* trackRequestTime(), trackOwnResponseTime(), trackEventReceived() and    *)
(* trackEventProcessed()                                                   *)
RequestTags(externalServiceName, requestName, statusCode) ==
  [requestName |-> requestName, externalServiceName |-> externalServiceName,
   status |-> Status(statusCode)]
ResponseTags(requestName, statusCode) ==
  [requestName |-> requestName, status |-> Status(statusCode)]
ReceivedTags(eventName) == [eventName |-> eventName]
ProcessedTags(eventName, processingState) ==
  [eventName |-> eventName, processingState |-> processingState]

(* Math.round() of a time in tenths of a millisecond *)
round(tenths) == (tenths + 5) \div 10

(* value || 1 *)
distribution(tenths) == IF round(tenths) = 0 THEN 1 ELSE round(tenths)

-----------------------------------------------------------------------------
(* Logger: [staticMeta, sanitizers].  A sanitizer is known by its name.    *)

Logger(staticMeta, sanitizers) == [staticMeta |-> staticMeta, sanitizers |-> sanitizers]

(* Faulty variant: the sanitizers are forgotten. *)
withStaticMetaOnly(logger, meta) == Logger(Spread(logger.staticMeta, meta), <<>>)

withStaticMeta(logger, meta) ==
  Logger(Spread(logger.staticMeta, meta), logger.sanitizers)

withSanitizers(logger, sanitizers) ==
  Logger(logger.staticMeta, logger.sanitizers \o sanitizers)

(* Two sanitizers of an application: one drops the email, one shows it as  *)
(* the user when there is one.                                             *)
Sanitizers == {"dropEmail", "emailAsUser"}
Sanitize(sanitizer, meta) ==
  CASE sanitizer = "dropEmail" -> Only(DOMAIN meta \ {"email"}, meta)
    [] sanitizer = "emailAsUser" ->
         IF "email" \in DOMAIN meta THEN Spread(meta, [user |-> meta["email"]]) ELSE meta

(* The metadata log() gives to winston *)
log(logger, meta) ==
  LET current[i \in 0..Len(logger.sanitizers)] ==
        IF i = 0 THEN Spread(logger.staticMeta, meta)
        ELSE Sanitize(logger.sanitizers[i], current[i - 1])
  IN  current[Len(logger.sanitizers)]

(* What a chain of withStaticMeta() and withSanitizers() makes of a logger *)
Derive(logger, chain) ==
  LET derived[i \in 0..Len(chain)] ==
        IF i = 0 THEN logger
        ELSE IF "meta" \in DOMAIN chain[i] THEN withStaticMeta(derived[i - 1], chain[i].meta)
        ELSE withSanitizers(derived[i - 1], chain[i].sanitizers)
  IN  derived[Len(chain)]
=============================================================================
