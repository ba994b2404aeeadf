----------------------------- MODULE HttpCache -----------------------------
(***************************************************************************)
(* packages/apollo-datasource-axios: requests of AxiosDataSources through  *)
(* cacheAdapter(), which each initialize() wraps once more around the      *)
(* adapter there is, in front of one KeyValueCache.                        *)
(*                                                                         *)
(* An origin has a version of each resource; a post makes a new one.  An   *)
(* entry is a response with its CachePolicy: the request it answers, its   *)
(* version, the moments that request was made and its response arrived,    *)
(* how long it is fresh, and what the policy counts from: the age it had,  *)
(* in whole seconds, when it was made.                                     *)
(***************************************************************************)
EXTENDS Integers, Sequences, FiniteSets

CONSTANTS
  Clients,       (* callers of the data sources of one cache, one request each *)
  Requests,      (* [method, baseURL, url, params], as axios merged them *)
  Text,          (* new URLSearchParams(params).toString() of each params *)
  MaxAges,       (* how many seconds responses to get are fresh ... *)
  PostMaxAges,   (* ... and responses to post; below 0: not storable() *)
  Layers,        (* how often initialize() was called *)
  Second,        (* in ticks of the clock *)
  Instants,      (* bound: when, in ticks, anything happens *)
  MaxPosts,      (* bound: posts end when a resource had so many *)
  MaxSets,       (* bound on the writes to the cache that are under way *)
  MaxAgain,      (* bound on how often an entry is stored again *)
  None

ASSUME CacheAssumption ==
  /\ MaxAges \subseteq Int /\ PostMaxAges \subseteq Int
  /\ Layers \in Nat \ {0} /\ Second \in Nat \ {0}
  /\ Instants \subseteq Nat /\ 0 \in Instants
  /\ MaxPosts \in Nat /\ MaxSets \in Nat /\ MaxAgain \in Nat

(* Faulty variant: a get may be answered by a post. *)
cacheKeyOfUrl(q) == <<q.url, Text[q.params]>>

(* It has no base url and no data, and a text that is the same for all     *)
(* objects within the params.                                              *)
cacheKey(q) == <<q.method, q.url, Text[q.params]>>

(* What the origin takes the request to be of: axios sends it the params   *)
(* whole.                                                                  *)
Resource(q) == <<q.baseURL, q.url, q.params>>

CacheKeys == {cacheKey(q) : q \in Requests}
Resources == {Resource(q) : q \in Requests}

VARIABLES
  clock,
  since,   (* when each version of each resource was made *)
  cache,   (* the entry of each key, or None *)
  sets,    (* the calls of cache.set(), which nobody awaits *)
  pc,      (* where the request of each client is *)
  req,     (* that request and when it was made: [of, called] *)
  layer,   (* how many adapters it has still to go through *)
  held,    (* the entry it has read, or that is on its way back *)
  given    (* what the last step answered: [req, entry] *)

origin == <<clock, since>>
requesting == <<pc, req, layer, held>>
cacheVars == <<origin, cache, sets, requesting, given>>

AtRest ==
  /\ clock = 0 /\ since = [r \in Resources |-> <<0>>]
  /\ cache = [k \in CacheKeys |-> None] /\ sets = {}
  /\ pc = [c \in Clients |-> "idle"]
  /\ req = [c \in Clients |-> None] /\ layer = [c \in Clients |-> 0]
  /\ held = [c \in Clients |-> None] /\ given = None

CacheInit == AtRest

Goto(c, to) == pc' = [pc EXCEPT ![c] = to]
Hold(c, entry) == held' = [held EXCEPT ![c] = entry]

ClockGoesOn ==
  /\ \E t \in Instants : t > clock /\ clock' = t
  /\ given' = None /\ UNCHANGED <<since, cache, sets, requesting>>

-----------------------------------------------------------------------------
(* KeyValueCache: it drops an entry when it likes.                         *)
Evict == \E k \in CacheKeys :
  /\ cache[k] # None
  /\ cache' = [cache EXCEPT ![k] = None]
  /\ given' = None /\ UNCHANGED <<origin, sets, requesting>>

(* A set lands some time after it was called, whatever others do: once for *)
(* each adapter that called it with that entry.                            *)
SetLands == \E w \in sets :
  /\ cache' = [cache EXCEPT ![w.key] = w.entry]
  /\ given' = None /\ UNCHANGED <<origin, sets, requesting>>

(* A set is over: it has landed, or it rejects, which nobody handles.      *)
SetEnds == \E w \in sets :
  /\ sets' = sets \ {w}
  /\ given' = None /\ UNCHANGED <<origin, cache, requesting>>

-----------------------------------------------------------------------------
(* get(), post() and request(): interceptors, then the outermost adapter. *)
Call(c) ==
  /\ pc[c] = "idle"
  /\ \E q \in Requests : req' = [req EXCEPT ![c] = [of |-> q, called |-> clock]]
  /\ layer' = [layer EXCEPT ![c] = Layers]
  /\ Goto(c, "looking")
  /\ given' = None /\ UNCHANGED <<origin, cache, sets, held>>

(* The cache reads the entry; the await of cache.get() ends later. *)
CacheGet(c) ==
  /\ pc[c] = "looking"
  /\ Hold(c, cache[cacheKey(req[c].of)])
  /\ Goto(c, "got")
  /\ given' = None /\ UNCHANGED <<origin, cache, sets, req, layer>>

(* The age of an entry by its policy, in ticks. *)
Age(entry) == entry.age * Second + clock - entry.stored

(* Faulty variant: what the cache has is taken for fresh. *)
satisfiesAlways(entry) == entry # None

satisfiesWithoutRevalidation(entry) == entry # None /\ Age(entry) < entry.maxAge * Second

(* responseHeaders(): the header Age has whole seconds, half a second up.  *)
Rounded(ticks) == (2 * ticks + Second) \div (2 * Second)

(* The policy that is made of a response from the cache. *)
NewPolicy(entry) ==
  [entry EXCEPT !.age = Rounded(Age(entry)), !.stored = clock, !.again = @ + 1]

(* The adapter has thrown for a version 0, which is an error. *)
Store(c, entry) ==
  /\ sets' = IF entry.version = 0 \/ entry.maxAge < 0 THEN sets
             ELSE sets \cup {[key |-> cacheKey(req[c].of), entry |-> entry]}
  /\ sets' # sets => Cardinality(sets) < MaxSets

Answer(c, entry) ==
  /\ given' = [req |-> req[c], entry |-> entry]
  /\ pc' = [pc EXCEPT ![c] = "done"] /\ req' = [req EXCEPT ![c] = None]
  /\ layer' = [layer EXCEPT ![c] = 0] /\ held' = [held EXCEPT ![c] = None]
  /\ UNCHANGED <<origin, cache>>

(* Outside of the adapter that has the answer the others store it again. *)
Decide(c) ==
  /\ pc[c] = "got"
  /\ IF satisfiesWithoutRevalidation(held[c])
     THEN /\ Answer(c, held[c])
          /\ IF layer[c] < Layers
             THEN held[c].again < MaxAgain /\ Store(c, NewPolicy(held[c]))
             ELSE UNCHANGED sets
     ELSE /\ layer' = [layer EXCEPT ![c] = @ - 1]
          /\ Hold(c, None)
          /\ Goto(c, IF layer[c] > 1 THEN "looking" ELSE "sending")
          /\ given' = None /\ UNCHANGED <<origin, cache, sets, req>>

(* A response as it leaves the origin; it counts from its arrival. *)
Response(c, v, maxAge) ==
  [request |-> req[c].of, version |-> v, sent |-> req[c].called, arrived |-> clock,
   maxAge |-> maxAge, age |-> 0, stored |-> clock, again |-> 0]

(* The origin serves the request; version 0 is an error. *)
Serve(c) ==
  LET r == Resource(req[c].of)
      post == req[c].of.method = "post"
      v == Len(since[r]) + IF post THEN 1 ELSE 0
  IN  /\ pc[c] = "sending"
      /\ post => \A q \in Resources : Len(since[q]) <= MaxPosts
      /\ since' = IF post THEN [since EXCEPT ![r] = Append(@, clock)] ELSE since
      /\ \E age \in IF post THEN PostMaxAges ELSE MaxAges : Hold(c, Response(c, v, age))
      /\ Goto(c, "replying")
      /\ given' = None /\ UNCHANGED <<clock, cache, sets, req, layer>>

(* The exchange fails, or the status is not one of success. *)
ServeError(c) ==
  /\ pc[c] = "sending"
  /\ Hold(c, Response(c, 0, 0))
  /\ Goto(c, "replying")
  /\ given' = None /\ UNCHANGED <<origin, cache, sets, req, layer>>

(* The response is there and its CachePolicy is made. *)
Arrive(c) ==
  /\ pc[c] = "replying"
  /\ LET entry == [held[c] EXCEPT !.arrived = clock, !.stored = clock]
     IN  Answer(c, entry) /\ Store(c, entry)

(* cache.get() rejects, and the request with it. *)
CacheFails(c) ==
  /\ pc[c] = "looking"
  /\ Answer(c, Response(c, 0, 0))
  /\ UNCHANGED sets

Advance(c) == CacheGet(c) \/ Decide(c) \/ Serve(c) \/ ServeError(c) \/ Arrive(c) \/ CacheFails(c)

CacheNext ==
  \/ ClockGoesOn \/ Evict \/ SetLands \/ SetEnds
  \/ \E c \in Clients : Call(c) \/ Advance(c)

CacheSpec == CacheInit /\ [][CacheNext]_cacheVars

-----------------------------------------------------------------------------
Entry == [request : Requests, version : 0..(MaxPosts + 1), sent : Instants, arrived : Instants,
          maxAge : MaxAges \cup PostMaxAges \cup {0}, age : Nat, stored : Instants,
          again : 0..MaxAgain]
Made == [of : Requests, called : Instants]

CacheTypeOK ==
  /\ clock \in Instants
  /\ \A r \in Resources : since[r] \in Seq(Instants) /\ Len(since[r]) \in 1..(MaxPosts + 1)
  /\ cache \in [CacheKeys -> Entry \cup {None}]
  /\ sets \subseteq [key : CacheKeys, entry : Entry]
  /\ pc \in [Clients -> {"idle", "looking", "got", "sending", "replying", "done"}]
  /\ req \in [Clients -> Made \cup {None}]
  /\ layer \in [Clients -> 0..Layers]
  /\ held \in [Clients -> Entry \cup {None}]
  /\ given \in [req : Made, entry : Entry] \cup {None}

Given == given # None /\ given.entry.version # 0

SameKey(q, r) == q.method = r.method /\ q.url = r.url /\ Text[q.params] = Text[r.params]

(* Whether requests like q are all of one resource. *)
Unambiguous(q) == \A r \in Requests : SameKey(q, r) => Resource(q) = Resource(r)

(* A request is answered with the response to one of the same method, url  *)
(* and text of its params, thus to one of its own resource unless data     *)
(* sources with other base urls or params that have the same text share    *)
(* the cache.  A post whose response the origin does not allow to be kept  *)
(* was performed for that call.  (The invariant begins with the types of   *)
(* the variables.)                                                         *)
AnswersTheRequest ==
  /\ CacheTypeOK
  /\ Given =>
       LET q == given.req.of
           e == given.entry
       IN  /\ SameKey(q, e.request)
           /\ Unambiguous(q) => Resource(e.request) = Resource(q)
           /\ q.method = "post" /\ e.maxAge < 0 =>
                since[Resource(q)][e.version] >= given.req.called

(* An answer that the call did not fetch itself is still fresh when it is  *)
(* given, to within half a second for each time it was stored again, and   *)
(* whatever replaced what in the cache, its version was the current one at *)
(* some moment of the exchange that fetched it.                            *)
AnswerWasCurrent ==
  Given =>
    LET e == given.entry
        s == since[Resource(e.request)]
    IN  /\ e.sent < given.req.called =>
             2 * (clock - e.arrived) < 2 * e.maxAge * Second + e.again * Second
        /\ s[e.version] <= e.arrived
        /\ e.version < Len(s) => s[e.version + 1] >= e.sent

=============================================================================
