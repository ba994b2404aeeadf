# Verification of bit-node-tools

TLA+ models of the packages of this repository that keep state, wait, retry or
run concurrently, the TLC configurations that check them on small instances,
and TLAPS proofs of what matters most. A module names the source it translates
in its header, and `PROJECT.json` maps its definitions to lines.

## The system

The repository is a lerna monorepo of small node packages (`src/packages/*`).
There is no shared process: a service picks the packages it needs. Node runs
one callback at a time, so a step of a model is the code between two awaits (or
stream callbacks), and concurrency is the interleaving of those steps with the
network, the clock and other activations of the same code.

| Part | State it keeps | Operations | What is hard | What makes it correct |
| --- | --- | --- | --- | --- |
| `keycloak-auth` api, `KeycloakAuth` | the token held (`previous`), the request in flight (`authPromise`) | `authenticate`, `login`, `refresh`, `toAuth`, `isExpired` | callers that arrive during a fetch, tokens that expire while it runs, refused and lost exchanges | one request at a time, nobody left behind, expiries never optimistic, the token never goes back |
| `keycloak-auth` axios interceptor | `previous`, shared by the requests of a client | the request interceptor | no single flight: replies assign `previous` in any order | no header older than the token held at the call; requests do not hold each other up |
| `influx-metrics-tracker` | the batch all trackers share, deliveries asleep or writing | `trackPoint`, `addToBatch`, the backoff | deliveries nobody awaits, retries, writes whose answer is lost | every point in exactly one batch, batches settle, sleeps double and end |
| `kafka-pg-sink` | the stream's buffer, the tables | `_write`, `_writev` | a batch that fails part of the way, redelivery, a topic without config | acknowledged means stored, once and in order; every chunk acknowledged or reported |
| `bigquery-pg-sink` | the same; one insert per row, or one for the buffer | `_write`, `_writev` | a batch that fails part of the way | as above, for rows that are each written once |
| `kafka-avro-cli` consume | progress per partition, open or closing consumer | `_transform` of the progress and stop transforms | growing logs, empty and one-message partitions, messages buffered behind the end | stops when, and only when, all was consumed |
| `kafka-avro-cli` files | the requests gathered per partition, the file, the next partition to read | `FileWritable._write`, `FileReadable.next`, the serializer and producer behind it | interruptions, also inside the rewriting of the file; gaps between partitions; keys and schemas of single events; values JSON changes; a registry or a producer that fails | what goes out again is a beginning of what came in, and all of it up to the first empty partition |
| `kafka-avro-cli` commands | where the handler is, the Kafka client | `schema`, `topic`, `create-topic` | requests that fail, versions deleted while they are listed | names are found, what is saved is complete, the process ends |
| `re-pipeline`, `kafka-consumer` | which streams are piped, what waits in each | `rePipeline`, `pipelinePromise`, the notification writable | errors between writes, a rejected notification | no message lost or repeated, backpressure kept; a promise settles |
| `schema-registry-api`, `avro-stream` | the registry's schemas, the resolver's cache, the buffers of the streams | `schemaToId`, `toId`, `fromId`, framing of messages | clients that register the same schema at once, subjects deleted, failing requests, errors that unpipe a stream with a full buffer | messages arrive as they were sent or as errors, once, and in order up to an error |
| `apollo-datasource-axios` | the response cache, requests on their way, writes to the cache nobody awaits | `get`, `post`, `cacheAdapter` | concurrent misses, keys that different resources share, late writes, responses that go stale, adapters wrapped twice | an answer is of a request with the same key, and was current when it was fetched, or is fresh |
| `datadog-metrics-tracker`, `winston-logger`, `axios-logger`, `config-file`, `avro-logical-types` | none to speak of | pure functions and one-line calls | values without meaning, signs, paths through arrays | agreement with a reference definition |

## Modules

| Module | Models | State |
| --- | --- | --- |
| `KeycloakApi` | `authenticate()` of `api.ts`, its HTTP exchanges, the clock | `run[c]`: the activation of caller `c` with its timestamp, the `previous` it was given and the state of its exchange; `issued`: what the server granted and when; `previous`, the token that callers share |
| `KeycloakAuth` | the class of that name, over `KeycloakApi` | `authPromise`, and what each caller awaits and was answered |
| `TokenSource` | the abstract promise `KeycloakAuth` keeps | who asks, the newest token, the last answers |
| `KeycloakAxios` | the interceptor made from options, over `KeycloakApi` | the token in the header of each request |
| `InfluxTracker` | `trackPoint()`, the batch, the backoff | the points tracked, the batch, the deliveries, the databases |
| `PGSink` | `PGSinkStream` of `kafka-pg-sink` and of `bigquery-pg-sink` between a pipe and Postgres | which of the two and what comes (`source`), the Writable's buffer and running call, the chunks that made the rows of each table, what was acknowledged and reported |
| `KacConsume` | `kac consume`: progress, stop and log transforms between a consumer and a growing topic | the log, the progress object all messages share, what waits between the transforms, what was passed on, the summary |
| `KacFile` | `--output-file` and `kac produce` | the requests gathered; the file, which is not there, torn while it is rewritten, or whole; the reader's next partition; what waits for the serializer and for the producer; what was produced |
| `KacCommands` | the `schema`, `topic` and `create-topic` commands | what the handler awaits, the versions listed and saved, the client |
| `RePipeline` | `rePipeline()`, `pipelinePromise()` and the streams of `createKafkaConsumer()` | for each stream what it has ready, what it buffers and writes, whether it is piped or paused; `Line` reads this as the messages in each place |
| `AvroChannel` | the abstract promise of `avro-stream` | what was sent, what each consumer received |
| `AvroExchange` | serializers, the registry, deserializers with a shared cache | the registry's ids and subjects; of each stream what was written to it, what it transforms and what waits, its errors, whether it is piped; where each serializer's `_transform()` is; the log; the cache |
| `HttpCache` | `AxiosDataSource`s with base urls of their own and `cacheAdapter()` | the origin's versions, the cache, the writes to it that are under way, the request of each client |
| `LogicalTypes` | decimals, days and timestamps of `avro-logical-types` | none |
| `Telemetry` | the trackers of both metrics packages, `winston-logger` | none |
| `AxiosLogger` | redaction and the interceptors of `axios-logger`; a value is a function from positions, the names that lead there, to what is there | none |
| `Settings` | `config-file`, `filterSearch()` of `kafka-avro-cli` | none |
| `Objects` | JavaScript objects as functions, the spread of one over another | none |
| `Helpers` | a call of one of the functions of the four modules before, and its answer, with the reference definitions | the call, the answer |

`MC*` modules instantiate these for TLC (`RePipeline` needs none).
`MCServices`, `MCKac` and `MCTools` put two components into one run, for economy
only: they share no state, `part` says which of the two a behaviour is of, and
the other stays in an initial state. `*Proofs` modules hold the theorems: each
extends the module its name begins with, `KeycloakProofs` both that
`KeycloakApi` is part of, and `ToolsProofs` `KacFile`, `KacCommands` and
`Helpers`. A definition commented "Faulty variant" is no part of a
specification: it is a plausible bug in the definition that follows it, and the
property named for it in `PROJECT.json` fails with it.

How actions correspond to code:

* `KeycloakAuth`: `Start` is `authenticate()` up to the first await of
  `fetchAuth()`, `Join` is a caller who finds `authPromise` set, `Resolve` and
  `Reject` are the two ways out of `fetchAuth()` together with the `finally`
  that resets the promise and with the callers who awaited it. `KeycloakApi`
  has the steps below: the request sent, granted, refused or broken, and the
  login that follows a refused refresh. The answer may be lost after the server
  granted a token.
* `KeycloakAxios`: `Intercept` reads `previous` and starts an activation,
  `Authorize` assigns the result and sets the header, in the order in which the
  answers come.
* `InfluxTracker`: `TrackPoint` is everything from the push to the batch to the
  start of a delivery, `Wake` the end of a sleep, `Complete`, `BackOff` and
  `Abandon` the ways a write ends.
* `PGSink`: `Write` is the pipe; `QuerySucceeds`, `QueryFails` and
  `ConfigMissing` are the steps of the loop over the groups; `Ack` and `Report`
  are the callback without and with an error, and what node does then; `Repipe`
  is the application attaching the pipe again. A row is the chunk that made it,
  so that a table tells which delivery of a message it has. `source.batches` is how rows go
  into statements: `topic` is `kafka-pg-sink`, whose `_writev` groups by topic;
  `row` and `all` are the `insert` and the bulk queries of `bigquery-pg-sink`.
* `KacConsume`: `TransformProgress` and `StopTransform` are the two
  `_transform()` methods with the queue between them; `Closed`, `End` and
  `PushAfterEnd` what follows a `close()`; `Log`, `DecodeFails`, `Flush` the
  streams behind. `fetched` and `Fetch` stand for kafka-node.
* `KacFile`: `Empty` and `Write` are `FileWritable._write()`: `writeFileSync()`
  truncates the file and then fills it, and the command may be over in between
  (`Stop`). `Open` and `Read` are `FileReadable`, `Serialize` the
  `AvroSerializer` with the ways it fails, `Send` the producer stream, which may
  have sent what it reports an error of. `Json` is what
  `JSON.parse(JSON.stringify())` makes of a value.
* `KacCommands`: one action per request of a handler (`Subjects`,
  `SubjectVersions`, `VersionSchema`; `Ready`, `Metadata`, `Offsets`, `Create`),
  with what runs up to the next await. `SchemaFails`, `KafkaFails` and
  `Unreachable` are the ways a request fails; `DeleteVersion` is somebody else.
* `RePipeline`: `Pipe` is a `data` event of the stream before, written to the
  next, which pauses the pipe at the high water mark; `Succeed` and `Fail` are
  the callback of a write, with what follows in the same tick: the next write,
  `drain`, the `error` event and its handler. `SourceFails`, `Finish` and
  `Close` end a pipeline, `NotificationRejected` is a promise the notification
  writable of `kafka-consumer` awaits and never calls back for.
* `AvroExchange`: `Pipe`, `Repipe`, `Done` and `Error` are the Writable side of a
  transform, of serializers and deserializers alike: an error unpipes the stream
  and leaves its buffer for after the next write, which comes when the
  application has piped it again. `Transform`, `CheckSubjectRegistered`,
  `AddSubjectVersion` and `Serialize` are the code of
  `AvroSerializer._transform()` between its awaits, `FetchFails` a request that
  throws, perhaps after the registry has served it. `CallFromId` is
  `AvroDeserializer._transform()` up to the answer of the cache or the request,
  `IdToSchema` its answer, `DeserializeFails` any of its errors. Sending and
  receiving map to `AvroChannel`.
* `HttpCache`: `Call` goes to the outermost adapter, `CacheGet` reads the entry,
  `Decide` runs when that await ends and serves the entry or goes on inwards,
  `Serve` and `ServeError` are the origin, `Arrive` makes the policy, calls
  `cache.set()` and answers; `CacheFails` is a `cache.get()` that rejects.
  `SetLands` and `SetEnds` are what becomes of a set, later, in any order or
  not at all. Time may pass between any two of them.
* `Helpers`: one step per call, which gives what the module of the function
  computes.

## Runs

Passing runs:

| Run | Shows | Bounds, and why they are enough |
| --- | --- | --- |
| `keycloak_auth` | at most one flight, and nobody awaits a settled one; recorded expiries never exceed the real ones; a token from the cache has more than the margin left; the token held is never replaced by an older one; every caller is answered; `KeycloakAuth` implements `TokenSource` | two callers (one fetches, the other joins or comes later), three seconds, three grants, so that a token is refreshed twice. Responses: a plain token, one without a refresh token, one born inside the margin. The proofs cover any number of callers |
| `influx_batches` | every point in exactly one batch in order; the filler writes; databases hold what was delivered; sleeps double and fit in setTimeout; batches settle | two trackers, batches of two, five points: two deliveries that overtake each other and a partial batch; the real limit of 15 retries. Sleeps are in seconds: `MAX_TIMEOUT` is 2^31 - 1 ms |
| `services`: the sinks | acknowledged means stored, once, in order; every chunk is in one place; every call ends | eight messages of two configured topics and one without config, one delivered twice, and five rows of BigQuery inserted one by one or in bulk, in any batching up to four; any query may fail, with and without having committed |
| `services`: the interceptor | no header older than the token held at the call, conservative expiries, a request is held up by its own exchange only | two requests that race with two grants: enough for `previous` to go back |
| `kac_consume`: progress | stops only when, and whenever, all initial messages are consumed; the count is of what was shown; the partitions printed cover the total | two partitions of two messages that grow to three, two messages waiting between the transforms (node allows 16): enough for a message behind the one that ends the stream |
| `kac_consume`: files | an interrupted consume leaves all it was given in the file, unless it is interrupted inside the rewriting of it; what goes out again is a beginning of what came in; without an error it is every event before an empty partition, with the key it had if its partition has but one, and likewise the schema; encoding fails only where a partition has several schemas or JSON changed a value | three partitions of none to two events; keys, schemas and kinds of values the same everywhere, per partition, or changing; `Date`s, whose strings their schema takes, and `Buffer`s, whose objects it does not; any request to the registry and any write of the producer may fail |
| `re_pipeline` | no message lost or given twice; no stream above its high water mark; none overtaken but after an error; finish means complete; as long as the source has no error, errors do not stop it and the promise settles | three streams, so that there is one that both reads and writes; six messages and a high water mark of three, so that a pipe pauses, fails with a buffer and drains; any write may fail, in each of the three pipelines |
| `avro_exchange` | a message carries the id of its schema; requests are logged whole or not at all; every `_transform()` calls back and a piped stream reads on; what is received is what was sent or an error, once, and in order but for what an error was ahead of | two producers that register schemas of one subject side by side, of which one has three requests and a high water mark of 2, so that one waits behind an error; a malformed schema and an invalid message; a deleted subject; a foreign message at the start of the log; two consumers with one cache. `IdBits` is 3 for 32: of a new registry the ids 1 and 2 are read back; of one with two schemas the next ids are 3, the last that is read back, and 4, which reads as a negative number |
| `tools`: functions and commands | the functions agree with their reference definitions; names are reachable, what is saved is complete, a command ends unless Kafka fails | bytes of two bits (`Byte` is 4) and numbers of three bytes for the arithmetic (both signs, both ends of the range, and what wraps); three digits kept of a decimal (`Precision` is 1000) with two below the scale, so that some are rounded up before they are cut off; days of 4 ms and the last `Date` after four of them; chains of two steps over each logger; pairs of paths over bodies with arrays and null items; four names of which some contain others; three versions |
| `tools`: the cache | an answer is to a request with the same key, and of the resource asked for where the key is of no other; it was current during the exchange that fetched it and is fresh; a post whose response may not be kept was performed for the call | three symmetric clients, two base urls and two params of one text, so that a key is shared, a get and a post of one resource, two layers (two calls of `initialize()`), a second of three ticks with something happening at 0, 1 and 3, so that an age is rounded down or up; two sets under way; posts whose responses are kept (`PostMaxAges` has 1) and are not |

Where an invariant of a run begins with the type of the variables or is a
conjunction of named parts, the parts are checked with it: `AxiosTypeOK`,
`FileTypeOK`, `CacheTypeOK`, `TypeOK` of `PGSink`, `KacConsume`, `RePipeline` and
`AvroExchange`, the four ways of `ProducedAsConsumed`, the three of
`PipelineProceeds`, and the reference definitions of `Helpers`. `NoOrphans` implies `SingleFlight`, which is also
proved, like `TypeOK` and `BatchBelowLimit` of `InfluxTracker`.

Runs that find a disagreement with a statement of the repository:

| Run | What TLC finds |
| --- | --- |
| `influx_partial_batch` | a point that does not fill a batch is never stored or logged: nothing flushes the batch |
| `kac_consume_single` | a partition of one message makes the mean 0 / 0: everything was consumed and the command does not stop. With an empty partition (`InitialLog` 0 for it) it does not stop either |
| `kac_file` | `kac produce` goes through a file without an error and leaves out the events of the partitions after an empty one, where `consume.ts:37` says the file is used "to produce those events" |
| `re_pipeline_source` | an error of the first stream ends the process: it has no handler, where the README of `re-pipeline` has the handler called, or the promise rejected, for "any of the streams" |
| `axios_logger_items` | the path `requestBody.cards.*` leaves the items in the log, where the README of `axios-logger` says that `*` targets all items |

Deadlock is not checked where a bounded environment stops: all points are
tracked, the log is written, the topic consumed, the clock at its bound, the
call answered.

Further disagreements that were met and are not kept as runs; the models have
the behaviour of the code, and the properties are stated for what it does:

* `kac consume` prints the partitions of the live progress object under the
  total of the message that ended it, so partitions may add up to more
  (`SummaryIsConsumed` says at least).
* The total of `kac consume` counts what lies before the offsets the group is
  given first, as if it were read (`CountsFromZero`, proved).
* `kac produce` produces every event of a partition with the key and the schema
  of the first, and values as JSON left them; an interruption inside
  `writeFileSync()` loses everything the file held (`KeysAndSchemasKept`,
  `FailsForAReason`, `FileHoldsConsumed`).
* A tag that is undefined rejects the caller of an Influx tracker before its
  `try`, and Datadog drops it without a warning, where `README.md:3` of both
  packages promises secondary logging of invalid input (`TagsAccounted` in
  `TelemetryAccounted`).
* A body that is not JSON, or a null item, makes the interceptors of
  `axios-logger` throw in the place of the answer (`LoggingIsDiscreet`).
* A decimal of more than 20 digits is rounded before it is cut off, so that
  1234567890123456789.99 with scale 0 comes back as 1234567890123456790
  (`DecimalIsCutOff` in `ConversionsKeepValues`).
* `DateType` and `TimestampType` read ISO strings that they cannot write again,
  and throw for a number beyond the last `Date`, 1e8 days from 1970
  (`DatesKeepTheirDay`).
* `kac topic` and `kac create-topic` leave the client open when a request fails
  and their process stays (`ExitsUnlessKafkaFails`).
* The key of the HTTP cache has neither the base url, nor the data, nor what is
  nested in the params. Data sources of different base urls that share a cache
  answer for one another, as do requests with such params, and a post may be
  answered with the kept response to another one. `AnswersTheRequest` says when
  an answer is of the resource that was asked for; nothing in the repository
  says that it always is.

## Fairness

* `KeycloakAuth`: what runs in the process runs (weak fairness of `Fetch`), and
  each exchange ends. `fetch()` has no timeout, so the second is an assumption
  about the network: without it callers of a `KeycloakAuth` wait. That is why
  `HeldUpByOwnExchangeOnly` of `KeycloakAxios` states its own premise: the
  request whose exchange ends is answered, whatever the others do.
* `InfluxTracker`: timers fire and writes settle (the influx client times its
  requests out). Each delivery is fair on its own.
* `PGSink`: queries are answered or fail with the connection. Nothing obliges
  the application to attach the pipe again.
* `KacConsume`: the broker answers fetches, the metadata request and `close()`;
  node runs its streams. Producers are not fair.
* `RePipeline`: the event loop serves each stream, and what a transform or a
  write starts calls back, except the rejected notification. Nothing obliges the
  source to fail or the last stream to be closed. `PipelineProceeds` excuses an
  error of the first stream and a notification that is rejected: the first is
  what `re_pipeline_source` shows, the second ends in a wait for ever.
* `AvroExchange`: pipes flow, and the registry answers or the connection fails;
  fetch, again, has no timeout of its own. Nothing obliges the application to
  pipe a stream again after an error, nor anybody to delete a subject, so
  `EverythingSettles` is about what a stream does while it is piped: what waits
  behind an error may stay there for ever.
* `KacCommands`: each request is answered or fails.
* `HttpCache` and `KacFile` state no liveness: that `kac produce` ends, or that
  a request through the cache does, is not claimed.

`EndsOnceConsumed` is checked for a log that grows up to `MaxLog`: that the
command stops although producers never do is not covered.

## Proofs

Eight modules prove, for every value of the constants, every invariant and
every action property that the passing runs check, and both refinements. Each
has the same layout: the parts of an inductive invariant `IInv`, lemmas about
the operators, a lemma for each action or each part an action disturbs, the
lemma or theorem `Inductive` (`Spec => []IInv`), and the theorems that follow
from it. `PROJECT.json` lists those. Few of the properties are inductive by
themselves; what follows says what `IInv` adds and why. The bounds on clocks,
grants, posts, points and deletes are arbitrary numbers throughout.

| Module | Theorems | Assumptions on the constants |
| --- | --- | --- |
| `KeycloakProofs` | of `KeycloakAuth`: `TypeCorrect`, `OneFlight`, `NobodyOrphaned`, `ExpiriesConservative`, `CachedTokensAlive`, `NeverBack`, `Refinement`; of `KeycloakAxios`: `PreviousConservative`, `HeaderFresh` | callers are finite, margin and bounds are numbers, `NoFlight` is no caller |
| `InfluxTrackerProofs` | `PointsPartitioned`, `FillerDeliversBatch`, `StoredAsDelivered`, `RetriesDouble` | there is a tracker, the batch size and the first sleep are positive; `RetriesDouble` also that the last retry fits `setTimeout` |
| `PGSinkProofs` | `ChunksAccounted`, `AckedStored`, `InOrder` | the high water mark is positive; configured topics are topics; all rows of a BigQuery query go to one configured table |
| `KacConsumeProofs` | `StopsOnlyWhenConsumedHolds`, `StopsByTheEndHolds`, `CountsFromZeroHolds`, `SummaryIsConsumedHolds` | partitions are finite and there is one; first offsets are within the log; `SummaryIsConsumedHolds` also that they are 0 |
| `RePipelineProofs` | `MessagesOnce`, `Backpressure`, `OrderUntilFailure` | at least two streams, a positive high water mark |
| `AvroExchangeProofs` | `RegisteredIds`, `WholeRequests`, `RequestsWhole`, `ChannelImplemented` | no stream is a producer and a consumer; requests are of the subjects, schemas and values there are; values are encoded with schemas that are no malformed ones; the foreign buffer is none that was made here, and the only one in the log at the start; a width of ids and a high water mark that are positive |
| `HttpCacheProofs` | `AnswersBelong`, `AnswersWereCurrent` | at least one layer, a second of at least one tick, instants that begin with 0, whole numbers of seconds (`CacheAssumption`). Nothing is assumed of requests, base urls and texts |
| `ToolsProofs` | of `KacFile`: `FileHolds`, `ProducedAgain`; of `KacCommands`: `CommandsComplete`, `EndsOpenOnly`; of `Helpers`: `ConversionsKeep`, `TelemetryHolds`, `SettingsResolved`, `LoggingDiscreet` | partitions are numbered from 0; what was decoded with a schema can be encoded with it; names have a part; a byte has an even number of values; the last `Date` is a whole number of days from 1970; of two places of digits the smaller divides the larger (`LogicalTypesAssumption`); the names of items are no names of fields; functions are called with arguments of their types (`CallsAssumption`) |

**`KeycloakAuth`.** `IInv` adds:

* `FlightOK`: the activation under way is that of `authPromise`, and whoever
  awaits awaits it;
* `ActivationOK(c)`: an activation works on the `previous` the instance still
  holds, one that is about to return it from the cache found it alive at its
  timestamp, the timestamp is not in the future, and a granted exchange has the
  last grant, made no earlier than the timestamp;
* `Conservative` of `previous` and of every answer: a recorded expiry is no
  later than that of the grant the token came from.

That the grant is not earlier than the timestamp is what makes the expiries
conservative, and the reason for the code to take the timestamp before the
request. `TokenNeverGoesBack` follows from `IInv` because the token of a flight
is the last one granted when the flight ends.

**`KeycloakAxios`.** Nothing ties an activation to the shared `previous`, which
another request may have assigned since. `Sound(act)` therefore says of each
activation by itself that its `previous` is conservative, that a granted token
was granted no earlier than its timestamp, and that it is newer than the token
of its `previous`. The last makes a header no older than the token held at the
call, although `previous` itself may go back.

**`InfluxTracker`.** `IInv` is the conjunction of the type invariant,
`BatchBelowLimit`, `Partitioned`, `FillerDelivers` and `StoredIsDelivered`,
which is inductive as it stands: `Partitioned` gives the number of points
tracked when a batch fills, and so the tracker of its last point. `Products`
has the arithmetic of positions; `DeliverIInv` covers all the steps of a
delivery at once, which carry the same points to the same place.
`RetriesDouble` rests on `Powers`, the powers of two as numbers of subsets,
because the provers know nothing of `^` where the exponent is no number they
see. Its premise says that the longest sleep the constants lead to is one that
`setTimeout` takes; the code's 15 retries from 1000 ms end at 16384000 of
2147483647.

**`PGSink`.** `CallOK`: chunks are buffered and called with in the order of the
log, and a running call has some of them still to insert. `Apart`: no chunk is
in two places. `StoredOK`: every chunk acknowledged, or of the running call and
no longer to be inserted, has its row, which is why `callback(null)` may be
called when nothing is left to do. `RowsOK` is the part of `AckedIsStored`
about the tables. `OrderOK`: without errors the chunks of a call come before
those in the buffer, and the rows of a table before the chunks of its topic
that are still to come. The least chunk of what is left, by which the model
takes a group, exists by `Least`, a consequence of the library's
well-foundedness of the numbers.

**`KacConsume`.** The properties compare counts and totals that folds add up
over the partitions. Such a fold is a recursion over the subsets of its domain:
`SubsetInduction`, a consequence of the library's well-foundedness of strict
subsets, gives its equation (`SumFunctionOnSet` of a set is that of the set
without an element and the element), and from it that sums grow, agree and
compare term by term. `Taken(p)` is the offset that is taken next. `FetchedOK`:
the consumer stream holds of each partition the messages from that one to the
last fetched, in order. `PassedOK`: what was taken was passed on or waits, and
a message marked as the last has all the initial ones before it. That rests on
`MeanIsOne`: fractions of at most 1 whose mean is 1 are all 1, so that a
progress of 1 is one of every partition. `CountOK` counts messages by the sum
of what was taken. `StopOK` and `SummaryOK` carry this over the end. For the
other direction, `StopsByTheEnd`, `LastOK` says that the message taken last is
marked exactly when the progress is that of the end, and `HighOK` that no
message promises more than the log has. It has the premise that each partition
holds more than one message, and one that is still to be read: the run
`kac_consume_single` shows what happens otherwise.

**`KacFile`.** `GatheredOK`: the request of a partition stands for the events
taken of it, with the key and schema of the first, and the file is the
requests, but while it is torn. `ReaderOK`: the reader goes through a file that
is whole, is past partitions that are all in it, and has ended at one that is
not. `QueueOK`: what waits for the serializer and what waits for the producer
are requests of adjacent partitions, in their order, and every partition before
them was sent or, if the producer failed, perhaps not. `FailsForAReason` is a
part of the invariant. `FileHolds` therefore says both what an interruption
leaves and that one inside the rewriting leaves nothing.

**`KacCommands`.** `CommandIInv`: a handler makes the requests of its command
only (`StepFits`); the versions that were listed are those saved and those to
go, in this order (`ListedOnce`), whatever is deleted meanwhile; a client is
open while a handler needs it (`ClientFits`). `EndsOpenOnly` is the safety half
of `ExitsUnlessKafkaFails`.

**`Helpers`.** `CallIInv` is small: the answer is what the function gives. The
work is in what the functions give for any arguments. Each recursion is a
function over numbers, whose defining equation is proved with `Counting`,
induction over sets of numbers, itself a consequence of the library's
well-foundedness of `<`:

* `ConversionsKeep`: `Weight[n]` is the product of `n` bytes (the provers know
  nothing of `^`), `Unsigned` a positional sum. `BytesHold` says that the
  bytes of a number make it up again, `PadHolds` and `FilledUp` that filling a
  short buffer with its sign adds what the two's complement needs, `FirstBit`
  that the first byte of a buffer tells its sign. This needs a byte with an
  even number of values, and nothing else of it. `LastPlaceFacts`: there is a
  least place at which the digits that are kept reach, or none of the places
  considered is rough enough; `MulFacts` bounds what rounding to it adds or
  takes by half of it, and `TruncFacts` what is left of that when the digits
  below the scale are cut off. So a decimal of no more digits than are kept is
  cut off towards zero, and another is within half of its last place.
  `DateFacts`: a number of days is a `Date` or `Invalid Date`, and what is a
  `Date` comes back as its day.
* `TelemetryHolds`: `MetadataGrows` and `SanitizersGrow` describe what a chain
  of derived loggers has gathered after each step, `SanitizeStep` what a
  sanitizer does to the email and the user.
* `SettingsResolved`: `FlattenedElements` gives the elements of a text made of
  several, `ReplaceLeaves` the names that are left.
* `LoggingDiscreet`: `RemovedMeans` says that one path removes exactly the
  truthy field it names, wherever the removal of others left one, and
  `ThrowsAt` that it throws only at an item that is null; `OneMoreNamed` that
  removing along one more path amounts to naming one more, so that neither
  order nor overlap of the paths matters. `ObjectIsTree`: the metadata is a
  tree of positions.

**`RePipeline`.** `Line` gives the messages in each place of the pipeline, from
the source over what is ready, buffered and being written in each stream to the
output, and `Aside` those that failed. `Once(Line)` says that every message is
in one place, at one position. `Ordered(Line)` says that a message further down
the line is an earlier one, unless a still earlier one failed; `LeftBehind`
says the same of what waits in a stream that writes nothing, which a later
message may overtake. `Room` ties the pipe to the buffer: a pipe that is not
paused ends in a stream below its mark. Every step of a message is a move from
the head of one place to the end of another; `MoveOnce` and `MoveOrdered` are
about such moves, whatever the places.

**`AvroExchange`.** `ids` only grows, since a delete hides a schema from its
subject and keeps its id. `SerializerOK`: a serializer that goes on has the id
the registry has for its schema. `RegistryOK`: so has every message of the log
(`MessageOK`), and the cache of the consumers agrees with the registry. With
these a buffer is decoded with the schema it was made with, or with none: an id
that does not fit the sign reads as a negative number, which nobody has
registered (`ReadBack`). `StreamsOK` is about the buffers: what a stream was
given is past, written, waiting or in error (`Past`), and `Fine` says that what
waits or is being written has been passed by something later only if there was
an error for something before it. That is what a stream keeps of the order
after an error, and what `AvroChannel` allows (`MayTake`). `DeserializersOK`
says that what came out of a deserializer is what it is done with.
`ChannelImplemented` maps `Serialize` to sending a whole request, the steps of a
consumer that deliver or call back with an error to receiving or failing, and
the rest, piping and unpiping among it, to stuttering.

`WholeRequests` compares the number of messages of a kind in the log with the
number that the accepted requests have. Its invariant `RequestsStayWhole` says
where each of them is: there is a `start` for every accepted request, such that
its messages follow one another from there (`Within`), no two share a place
(`Apart`), every place is taken but by foreign messages (`Covering`), and of two
requests of a producer the later is first only if an error was called back for
one before both (`InTurn`). A step that logs a request starts it at the end of
the log. The placement is a bijection between the messages of the requests and
those of the log, and so the numbers are equal. `RequestsWhole` states the
placement itself, which also says that requests do not interleave.

**`HttpCache`.** `EntryOK(e)`: the version of an entry existed when the response
arrived and was not replaced before it was asked for, and its policy counts from
no less than its age but for half a second each time it was stored again. It is
about past moments, so that later posts and the passage of time take nothing
from it. `StoredOK(k, e)`: what is stored under a key is the response to a
request with that key, for what is in the cache (`CacheOK`) and for what is
still to land there (`SetsOK`): a set that lands late, out of order or twice
puts such an entry in the place of such an entry. `ClientOK(c)`: what a request
read is stored under its key, what it fetched was its own and was asked for
after the call, and a post it has the answer of was performed since. That the
key decides no more than method, url and the text of the params is what
`AnswersTheRequest` says, with the resource where these decide it.

Each `IInv` was also checked by TLC as an invariant of the run of its component,
but `RequestsStayWhole`, whose `start` is any function at all.

Only model-checked is liveness (`EveryCallerAnswered`, `HeldUpByOwnExchangeOnly`,
`FullBatchSettles`, `CallbackAlwaysCalled`, `EndsOnceConsumed`,
`PipelineProceeds`, `EverythingSettles`, `ExitsUnlessKafkaFails`), which is
out of the prover's reach. `StopsByTheEnd` and `EndsOpenOnlyByKafka` are what
two of these need besides fairness.

## Not modelled

`PROJECT.json` lists every part with its note. What is left out:

* `KeycloakBouncer`, which hands one token to a library and keeps nothing.
* `createInfluxConnection()`, which fills in default options.
* Of `schema-registry-api` the functions that send one request and return its
  answer, beyond those the serializers, the resolver and `kac schema` use.
* Of `avro-stream` the sender of topics and the mocks.
* Of `apollo-datasource-axios` the mapping of errors to those of Apollo, the
  interceptors of an application, and a second request of the same client.
* Of `avro-logical-types` `_resolve()`, which says what other schemas a type
  reads.
* Of `axios-logger` the times; of `datadog-metrics-tracker` that what the client
  throws asynchronously is never logged.
* `createKafkaConsumer()` of `kafka-consumer` as far as it sets options.

Signatures, HTTP, SQL text, Avro encoding of values, colours, wording and
progress bars are below the level of the models. A token is the number of its
grant, a message the number of its position, a buffer the schema and the value
it was made from.

`WholeRequestsOnly` is about the serializer's output: `log` is what came out of
it, and what a producer behind it fails to send is not in `AvroExchange` (but in
`KacFile`, whose `Send` may fail).

`SummaryIsConsumed` is checked for partitions that start at offset 0. With a
`FirstOffset` above 0 (retention, a group that comes back, `--latest`) the count
includes messages that were never consumed, in the model as in `totalCount()`.

Simplifications to know about: time is a single monotone clock, in seconds or, for
`HttpCache`, in parts of one (the server and the client agree on its rate); kafka-node hands on every message it
fetched, also after `close()`; streams behave as in the node releases the
packages were written for: `push()` after the end drops the message and emits
an error, a write that fails does not destroy the stream, and what was buffered
behind it is written after the next write.

## Plan

Done: all modules listed above, their runs, and the proofs described under
"Proofs". Worth adding:

1. The steps on the way to the other liveness properties as safety theorems, as
   `StopsByTheEnd` is one: that a `_writev` that may not go on has a query under
   way (`PGSink`), that a full batch is in a delivery that sleeps or writes
   (`InfluxTracker`).
2. `_resolve()` of the logical types.
