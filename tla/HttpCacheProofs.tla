--------------------------- MODULE HttpCacheProofs ---------------------------
(***************************************************************************)
(* The safety of HttpCache for any requests of any data sources, any texts *)
(* of params, any policies of the responses, any number of layers, however *)
(* late the sets land, and any length of the run.                          *)
(***************************************************************************)
EXTENDS HttpCache, TLAPS

(* An entry that is not an error holds a version the origin has made, by   *)
(* the time the response arrived and not replaced before it was asked for. *)
(* Its policy counts from at least its age but for half a second each time *)
(* it was stored again.                                                    *)
EntryOK(e) ==
  /\ e.sent <= clock /\ e.arrived <= clock /\ e.stored <= clock
  /\ 2 * (e.stored - e.arrived) <= 2 * (e.age * Second) + e.again * Second
  /\ e.version # 0 =>
       /\ e.version <= Len(since[Resource(e.request)])
       /\ since[Resource(e.request)][e.version] <= e.arrived
       /\ e.version < Len(since[Resource(e.request)]) =>
            since[Resource(e.request)][e.version + 1] >= e.sent

(* What is stored under a key answers a request with that key. *)
StoredOK(k, e) ==
  /\ e \in Entry /\ EntryOK(e) /\ e.version # 0 /\ e.maxAge >= 0
  /\ cacheKey(e.request) = k

CacheOK == \A k \in CacheKeys : cache[k] # None => StoredOK(k, cache[k])
SetsOK == \A w \in sets : StoredOK(w.key, w.entry)

(* What a request read answers one with its key; what it fetched is its    *)
(* own, and a post it has the answer of was performed after it was made.   *)
ClientOK(c) ==
  /\ pc[c] \notin {"idle", "done"} => req[c] \in Made /\ req[c].called <= clock
  /\ pc[c] \in {"looking", "got"} => layer[c] \in 1..Layers
  /\ pc[c] = "got" /\ held[c] # None => StoredOK(cacheKey(req[c].of), held[c])
  /\ pc[c] = "replying" =>
       /\ held[c] \in Entry /\ EntryOK(held[c])
       /\ held[c].request = req[c].of
       /\ held[c].sent = req[c].called
       /\ held[c].age = 0 /\ held[c].again = 0
       /\ req[c].of.method = "post" /\ held[c].version # 0 =>
            since[Resource(req[c].of)][held[c].version] >= req[c].called

(* The origin makes no version in the future. *)
SinceOK ==
  /\ since \in [Resources -> Seq(Instants)]
  /\ \A r \in Resources : \A i \in DOMAIN since[r] : since[r][i] <= clock

IInv ==
  /\ CacheTypeOK
  /\ SinceOK
  /\ CacheOK
  /\ SetsOK
  /\ \A c \in Clients : ClientOK(c)
  /\ AnswersTheRequest
  /\ AnswerWasCurrent

-----------------------------------------------------------------------------
(* What time and the origin do: they take nothing back.                    *)
Grows ==
  /\ clock' \in Instants /\ clock' >= clock
  /\ since' \in [Resources -> Seq(Instants)]
  /\ \A r \in Resources :
       /\ Len(since'[r]) \in 1..(MaxPosts + 1)
       /\ since'[r] = since[r] \/ since'[r] = Append(since[r], clock)

LEMMA Growing ==
  ASSUME IInv
  PROVE  /\ UNCHANGED origin => Grows
         /\ ClockGoesOn => Grows
<1>1. /\ clock \in Instants /\ since \in [Resources -> Seq(Instants)]
      /\ \A r \in Resources : Len(since[r]) \in 1..(MaxPosts + 1)
  BY DEF IInv, CacheTypeOK, SinceOK
<1>2. Instants \subseteq Nat
  BY CacheAssumption
<1>3. UNCHANGED origin => Grows
  BY <1>1, <1>2 DEF Grows, origin
<1>4. ClockGoesOn => Grows
  <2>1. SUFFICES ASSUME ClockGoesOn PROVE Grows
    OBVIOUS
  <2>2. PICK t \in Instants : t > clock /\ clock' = t
    BY <2>1 DEF ClockGoesOn
  <2>3. clock' \in Instants /\ clock' >= clock
    BY <1>1, <1>2, <2>2
  <2>4. since' = since
    BY <2>1 DEF ClockGoesOn
  <2>5. QED
    BY <1>1, <2>3, <2>4 DEF Grows
<1>5. QED
  BY <1>3, <1>4

LEMMA EntryTyped ==
  ASSUME NEW e \in Entry
  PROVE  /\ e.request \in Requests /\ Resource(e.request) \in Resources
         /\ e.version \in Nat /\ e.sent \in Nat /\ e.arrived \in Nat /\ e.stored \in Nat
         /\ e.age \in Nat /\ e.again \in Nat /\ e.maxAge \in Int
<1>1. /\ e.request \in Requests /\ e.version \in 0..(MaxPosts + 1)
      /\ e.sent \in Instants /\ e.arrived \in Instants /\ e.stored \in Instants
      /\ e.age \in Nat /\ e.again \in 0..MaxAgain
      /\ e.maxAge \in MaxAges \cup PostMaxAges \cup {0}
  BY DEF Entry
<1>2. Resource(e.request) \in Resources
  BY <1>1 DEF Resources
<1>3. \A m \in Nat : \A n \in 0..m : n \in Nat
  OBVIOUS
<1>4. e.version \in Nat /\ e.again \in Nat
  <2>1. MaxPosts + 1 \in Nat /\ MaxAgain \in Nat
    BY CacheAssumption
  <2>2. QED
    BY <1>1, <1>3, <2>1
<1>5. Instants \subseteq Nat /\ MaxAges \cup PostMaxAges \cup {0} \subseteq Int
  BY CacheAssumption
<1>6. e.sent \in Nat /\ e.arrived \in Nat /\ e.stored \in Nat /\ e.maxAge \in Int
  BY <1>1, <1>5
<1>7. QED
  BY <1>1, <1>2, <1>4, <1>6

(* A version that was made keeps its moment, and a newer one is made later *)
(* than whatever was sent before.                                          *)
LEMMA EntryStable ==
  ASSUME IInv, Grows, NEW e \in Entry, EntryOK(e)
  PROVE  /\ EntryOK(e)'
         /\ e.version # 0 =>
              since'[Resource(e.request)][e.version] = since[Resource(e.request)][e.version]
<1> DEFINE r == Resource(e.request)
           s == since[r]
           t == since'[r]
<1>1. /\ r \in Resources /\ e.version \in Nat
      /\ e.sent \in Nat /\ e.arrived \in Nat /\ e.stored \in Nat
  BY EntryTyped
<1>2. /\ s \in Seq(Instants) /\ clock \in Instants
      /\ clock \in Nat /\ clock' \in Nat /\ clock' >= clock
  <2>1. s \in Seq(Instants) /\ clock \in Instants /\ clock' \in Instants /\ clock' >= clock
    BY <1>1 DEF IInv, CacheTypeOK, Grows
  <2>2. QED
    BY <2>1, CacheAssumption
<1>3. t = s \/ t = Append(s, clock)
  BY <1>1 DEF Grows
<1>4. /\ e.sent <= clock' /\ e.arrived <= clock' /\ e.stored <= clock'
      /\ 2 * (e.stored - e.arrived) <= 2 * (e.age * Second) + e.again * Second
  <2>1. e.sent <= clock /\ e.arrived <= clock /\ e.stored <= clock
    BY DEF EntryOK
  <2>2. e.sent <= clock' /\ e.arrived <= clock' /\ e.stored <= clock'
    BY <1>1, <1>2, <2>1
  <2>3. QED
    BY <2>2 DEF EntryOK
<1>5. ASSUME e.version # 0
      PROVE  /\ e.version <= Len(t) /\ t[e.version] = s[e.version]
             /\ t[e.version] <= e.arrived
             /\ e.version < Len(t) => t[e.version + 1] >= e.sent
  <2>1. /\ e.version \in 1..Len(s) /\ s[e.version] <= e.arrived /\ e.sent <= clock
        /\ e.version < Len(s) => s[e.version + 1] >= e.sent
    <3>1. /\ e.version <= Len(s) /\ s[e.version] <= e.arrived /\ e.sent <= clock
          /\ e.version < Len(s) => s[e.version + 1] >= e.sent
      BY <1>5 DEF EntryOK
    <3>2. Len(s) \in Nat
      BY <1>2
    <3>3. QED
      BY <1>1, <1>5, <3>1, <3>2
  <2>2. CASE t = s
    BY <2>1, <2>2
  <2>3. CASE t = Append(s, clock)
    <3>1. /\ Len(t) = Len(s) + 1 /\ t[Len(s) + 1] = clock
          /\ \A i \in 1..Len(s) : t[i] = s[i]
      BY <1>2, <2>3
    <3> DEFINE v == e.version
    <3>2. v \in 1..Len(s) /\ Len(s) \in Nat
      BY <1>2, <2>1
    <3>3. v <= Len(t) /\ t[v] = s[v]
      BY <3>1, <3>2
    <3>4. ASSUME v < Len(t) PROVE t[v + 1] >= e.sent
      <4>1. CASE v = Len(s)
        BY <1>1, <1>2, <2>1, <3>1, <4>1
      <4>2. CASE v # Len(s)
        <5>1. v + 1 \in 1..Len(s) /\ v < Len(s)
          BY <3>2, <4>2
        <5>2. t[v + 1] = s[v + 1]
          BY <3>1, <5>1
        <5>3. QED
          BY <2>1, <5>1, <5>2
      <4>3. QED
        BY <4>1, <4>2
    <3>5. QED
      BY <2>1, <3>3, <3>4
  <2>4. QED
    BY <1>3, <2>2, <2>3
<1>6. QED
  BY <1>4, <1>5 DEF EntryOK

LEMMA StoredStable ==
  ASSUME IInv, Grows, NEW k, NEW e, StoredOK(k, e)
  PROVE  StoredOK(k, e)'
<1>1. PICK x \in Entry : x = e /\ EntryOK(x)
  BY DEF StoredOK
<1>2. EntryOK(x)'
  BY <1>1, EntryStable
<1>3. EntryOK(e)'
  BY <1>1, <1>2 DEF EntryOK
<1>4. QED
  BY <1>3 DEF StoredOK

LEMMA OthersOK ==
  ASSUME IInv, Grows, NEW d \in Clients,
         UNCHANGED <<pc[d], req[d], layer[d], held[d]>>
  PROVE  ClientOK(d)'
<1>1. ClientOK(d) /\ clock \in Nat /\ clock' \in Nat /\ clock' >= clock
  BY CacheAssumption DEF IInv, CacheTypeOK, Grows
<1>2. ASSUME pc[d] = "replying"
      PROVE  /\ held[d] \in Entry /\ EntryOK(held[d])'
             /\ held[d].request = req[d].of
             /\ held[d].sent = req[d].called
             /\ held[d].age = 0 /\ held[d].again = 0
             /\ req[d].of.method = "post" /\ held[d].version # 0 =>
                  since'[Resource(req[d].of)][held[d].version] >= req[d].called
  <2>1. PICK e \in Entry : e = held[d] /\ EntryOK(e)
    BY <1>1, <1>2 DEF ClientOK
  <2>2. EntryOK(e)' /\ (e.version # 0 =>
          since'[Resource(e.request)][e.version] = since[Resource(e.request)][e.version])
    BY <2>1, EntryStable
  <2>3. /\ held[d].request = req[d].of
        /\ held[d].sent = req[d].called
        /\ held[d].age = 0 /\ held[d].again = 0
        /\ req[d].of.method = "post" /\ held[d].version # 0 =>
             since[Resource(req[d].of)][held[d].version] >= req[d].called
    BY <1>1, <1>2 DEF ClientOK
  <2>4. EntryOK(held[d])'
    BY <2>1, <2>2 DEF EntryOK
  <2>5. QED
    BY <2>1, <2>2, <2>3, <2>4
<1>3. ASSUME pc[d] \notin {"idle", "done"} PROVE req[d] \in Made /\ req[d].called <= clock'
  <2>1. req[d] \in Made /\ req[d].called <= clock
    BY <1>1, <1>3 DEF ClientOK
  <2>2. req[d].called \in Nat
    BY <2>1, CacheAssumption DEF Made
  <2>3. QED
    BY <1>1, <2>1, <2>2
<1>4. ASSUME pc[d] = "got", held[d] # None PROVE StoredOK(cacheKey(req[d].of), held[d])'
  <2>1. PICK k : k = cacheKey(req[d].of) /\ StoredOK(k, held[d])
    BY <1>1, <1>4 DEF ClientOK
  <2>2. StoredOK(k, held[d])
    BY <2>1
  <2>3. PICK e \in Entry : e = held[d] /\ StoredOK(k, e)
    BY <2>2 DEF StoredOK
  <2>4. StoredOK(k, e)'
    BY <2>3, StoredStable
  <2>5. held'[d] = e /\ cacheKey(req'[d].of) = k
    BY <2>1, <2>3
  <2>6. QED
    BY <2>4, <2>5 DEF StoredOK, EntryOK
<1>5. QED
  BY <1>1, <1>2, <1>3, <1>4 DEF ClientOK

(* Entries leave the cache, or one that was being set comes in. *)
LEMMA CacheStays ==
  ASSUME IInv, Grows,
         \A k \in CacheKeys : \/ cache'[k] \in {cache[k], None}
                          \/ \E w \in sets : w.key = k /\ w.entry = cache'[k]
  PROVE  CacheOK'
<1>1. ASSUME NEW k \in CacheKeys, NEW e, e = cache'[k], e # None PROVE StoredOK(k, e)'
  <2>1. StoredOK(k, e)
    <3>1. CASE e = cache[k]
      BY <1>1, <3>1 DEF IInv, CacheOK
    <3>2. CASE \E w \in sets : w.key = k /\ w.entry = e
      BY <1>1, <3>2 DEF IInv, SetsOK
    <3>3. QED
      BY <1>1, <3>1, <3>2
  <2>2. QED
    BY <2>1, StoredStable
<1>2. QED
  BY <1>1 DEF CacheOK, StoredOK, EntryOK

LEMMA SetsStay ==
  ASSUME IInv, Grows, sets' \subseteq sets
  PROVE  SetsOK'
<1>1. SUFFICES ASSUME NEW w \in sets PROVE StoredOK(w.key, w.entry)'
  BY DEF SetsOK
<1>2. StoredOK(w.key, w.entry)
  BY DEF IInv, SetsOK
<1>3. QED
  BY <1>2, StoredStable

LEMMA SinceStable == ASSUME IInv, Grows PROVE SinceOK'
<1>1. SUFFICES ASSUME NEW r \in Resources, NEW i \in DOMAIN since'[r]
               PROVE  since'[r][i] <= clock'
  BY DEF SinceOK, Grows
<1>2. /\ since[r] \in Seq(Instants) /\ clock \in Instants /\ clock' \in Instants /\ clock' >= clock
      /\ \A j \in DOMAIN since[r] : since[r][j] <= clock
  BY DEF IInv, CacheTypeOK, SinceOK, Grows
<1>3. Instants \subseteq Nat
  BY CacheAssumption
<1>4. CASE i \in DOMAIN since[r] /\ since'[r][i] = since[r][i]
  <2> DEFINE t == since[r][i]
  <2>1. t \in Instants /\ t <= clock
    BY <1>2, <1>4
  <2>2. t \in Nat /\ clock \in Nat /\ clock' \in Nat /\ clock' >= clock
    BY <1>2, <1>3, <2>1
  <2>3. since'[r][i] = t
    BY <1>4
  <2> HIDE DEF t
  <2>4. t <= clock'
    BY <2>1, <2>2
  <2>5. QED
    BY <2>3, <2>4
<1>5. CASE since'[r][i] = clock
  <2>1. clock <= clock'
    BY <1>2, <1>3
  <2>2. QED
    BY <1>5, <2>1
<1>6. CASE since'[r] = since[r]
  BY <1>4, <1>6
<1>7. CASE since'[r] = Append(since[r], clock)
  <2> DEFINE s == since[r]
             n == Len(s) + 1
  <2>1. s \in Seq(Instants) /\ Len(s) \in Nat /\ DOMAIN s = 1..Len(s)
    BY <1>2
  <2> HIDE DEF s
  <2>2. /\ DOMAIN Append(s, clock) = 1..n /\ Append(s, clock)[n] = clock
        /\ \A j \in 1..Len(s) : Append(s, clock)[j] = s[j]
    BY <1>2, <2>1
  <2>3. since'[r] = Append(s, clock) /\ i \in 1..n
    BY <1>7, <2>2 DEF s
  <2>4. i \in DOMAIN s \/ i = n
    BY <2>1, <2>3
  <2>5. CASE i = n
    BY <1>5, <2>2, <2>3, <2>5
  <2>6. CASE i \in DOMAIN s
    BY <1>4, <2>1, <2>2, <2>3, <2>6 DEF s
  <2>7. QED
    BY <2>4, <2>5, <2>6
<1>8. QED
  BY <1>6, <1>7 DEF Grows

(* A step that answers nobody. *)
LEMMA SilentIInv ==
  ASSUME IInv, Grows, CacheTypeOK', given' = None, CacheOK', SetsOK',
         \A c \in Clients : ClientOK(c)'
  PROVE  IInv'
BY SinceStable DEF IInv, AnswersTheRequest, AnswerWasCurrent, Given

-----------------------------------------------------------------------------
LEMMA InitIInv == CacheInit => IInv
<1> SUFFICES ASSUME CacheInit PROVE IInv
  OBVIOUS
<1> USE DEF CacheInit, AtRest
<1>1. 0 \in Instants /\ 0 \in 0..Layers /\ 1 \in 1..(MaxPosts + 1)
  BY CacheAssumption
<1>2. <<0>> \in Seq(Instants) /\ Len(<<0>>) = 1
  BY <1>1
<1>3. CacheTypeOK /\ SinceOK
  BY <1>1, <1>2 DEF CacheTypeOK, SinceOK
<1>4. CacheOK /\ SetsOK /\ \A c \in Clients : ClientOK(c)
  BY DEF CacheOK, SetsOK, ClientOK
<1>5. QED
  BY <1>3, <1>4 DEF IInv, AnswersTheRequest, AnswerWasCurrent, Given

LEMMA TickIInv == ASSUME IInv, ClockGoesOn PROVE IInv'
<1>1. Grows /\ given' = None /\ UNCHANGED <<since, cache, sets, requesting>>
  BY Growing DEF ClockGoesOn
<1>2. CacheTypeOK'
  BY <1>1 DEF IInv, CacheTypeOK, Grows, requesting
<1>3. CacheOK' /\ SetsOK'
  BY <1>1, CacheStays, SetsStay
<1>4. \A c \in Clients : ClientOK(c)'
  BY <1>1, OthersOK DEF requesting
<1>5. QED
  BY <1>1, <1>2, <1>3, <1>4, SilentIInv

LEMMA EvictIInv == ASSUME IInv, Evict PROVE IInv'
<1>1. PICK k \in CacheKeys : cache' = [cache EXCEPT ![k] = None]
  BY DEF Evict
<1>2. Grows /\ given' = None /\ UNCHANGED <<origin, sets, requesting>>
  BY Growing DEF Evict
<1>3. cache \in [CacheKeys -> Entry \cup {None}]
  BY DEF IInv, CacheTypeOK
<1>4. CacheTypeOK'
  BY <1>1, <1>2, <1>3 DEF IInv, CacheTypeOK, origin, requesting
<1>5. CacheOK' /\ SetsOK'
  BY <1>1, <1>2, <1>3, CacheStays, SetsStay
<1>6. \A c \in Clients : ClientOK(c)'
  BY <1>2, OthersOK DEF requesting
<1>7. QED
  BY <1>2, <1>4, <1>5, <1>6, SilentIInv

LEMMA SetLandsIInv == ASSUME IInv, SetLands PROVE IInv'
<1>1. PICK w \in sets : cache' = [cache EXCEPT ![w.key] = w.entry]
  BY DEF SetLands
<1>2. Grows /\ given' = None /\ UNCHANGED <<origin, sets, requesting>>
  BY Growing DEF SetLands
<1>3. /\ cache \in [CacheKeys -> Entry \cup {None}] /\ w.key \in CacheKeys /\ w.entry \in Entry
  BY DEF IInv, CacheTypeOK
<1>4. CacheTypeOK'
  BY <1>1, <1>2, <1>3 DEF IInv, CacheTypeOK, origin, requesting
<1>5. \A k \in CacheKeys : cache'[k] = IF k = w.key THEN w.entry ELSE cache[k]
  BY <1>1, <1>3
<1>6. CacheOK' /\ SetsOK'
  BY <1>2, <1>5, CacheStays, SetsStay
<1>7. \A c \in Clients : ClientOK(c)'
  BY <1>2, OthersOK DEF requesting
<1>8. QED
  BY <1>2, <1>4, <1>6, <1>7, SilentIInv

LEMMA SetEndsIInv == ASSUME IInv, SetEnds PROVE IInv'
<1>1. sets' \subseteq sets
  BY DEF SetEnds
<1>2. Grows /\ given' = None /\ UNCHANGED <<origin, cache, requesting>>
  BY Growing DEF SetEnds
<1>3. CacheTypeOK'
  BY <1>1, <1>2 DEF IInv, CacheTypeOK, origin, requesting
<1>4. CacheOK' /\ SetsOK'
  BY <1>1, <1>2, CacheStays, SetsStay
<1>5. \A c \in Clients : ClientOK(c)'
  BY <1>2, OthersOK DEF requesting
<1>6. QED
  BY <1>2, <1>3, <1>4, <1>5, SilentIInv

(* An entry that is stored answers a request with the key. *)
LEMMA StoreOK ==
  ASSUME IInv, UNCHANGED origin, NEW c \in Clients, NEW e \in Entry, EntryOK(e),
         req[c] \in Made, cacheKey(e.request) = cacheKey(req[c].of),
         Store(c, e) \/ UNCHANGED sets
  PROVE  sets' \subseteq [key : CacheKeys, entry : Entry] /\ SetsOK'
<1>1. sets \subseteq [key : CacheKeys, entry : Entry] /\ SetsOK /\ Grows
  BY Growing DEF IInv, CacheTypeOK
<1>2. cacheKey(req[c].of) \in CacheKeys
  BY DEF CacheKeys, Made
<1>3. CASE sets' \subseteq sets
  BY <1>1, <1>3, SetsStay
<1>4. CASE ~(sets' \subseteq sets)
  <2> DEFINE new == [key |-> cacheKey(req[c].of), entry |-> e]
  <2>1. sets' = sets \cup {new} /\ e.version # 0 /\ ~(e.maxAge < 0)
    BY <1>4 DEF Store
  <2>2. e.maxAge >= 0
    BY <2>1, EntryTyped
  <2>3. EntryOK(e)'
    BY <1>1, EntryStable
  <2>4. PICK k \in CacheKeys : k = cacheKey(req[c].of)
    BY <1>2
  <2>5. StoredOK(k, e)'
    BY <2>1, <2>2, <2>3, <2>4 DEF StoredOK
  <2>6. ASSUME NEW w \in sets' PROVE StoredOK(w.key, w.entry)'
    <3>1. CASE w \in sets
      <4>1. StoredOK(w.key, w.entry)
        BY <1>1, <3>1 DEF SetsOK
      <4>2. QED
        BY <1>1, <4>1, StoredStable
    <3>2. CASE w = [key |-> k, entry |-> e]
      BY <2>5, <3>2
    <3>3. QED
      BY <2>1, <2>4, <3>1, <3>2
  <2>7. QED
    BY <1>1, <1>2, <2>1, <2>6 DEF SetsOK
<1>5. QED
  BY <1>3, <1>4

(* A request that is answered with e, which is stored again or not. *)
LEMMA AnswerIInv ==
  ASSUME IInv, NEW c \in Clients, NEW e \in Entry, Answer(c, e), EntryOK(e),
         pc[c] \notin {"idle", "done"},
         e.version # 0 =>
           /\ cacheKey(e.request) = cacheKey(req[c].of)
           /\ req[c].of.method = "post" /\ e.maxAge < 0 =>
                since[Resource(req[c].of)][e.version] >= req[c].called
           /\ e.sent < req[c].called =>
                2 * (clock - e.arrived) < 2 * e.maxAge * Second + e.again * Second,
         sets' \subseteq [key : CacheKeys, entry : Entry], SetsOK'
  PROVE  IInv'
<1>1. Grows /\ UNCHANGED <<origin, cache>> /\ CacheTypeOK /\ clock \in Instants
  BY Growing DEF Answer, IInv, CacheTypeOK
<1>2. PICK m \in Made : m = req[c]
  BY DEF IInv, ClientOK
<1>3. /\ given' = [req |-> m, entry |-> e]
      /\ given'.req = m /\ given'.entry = e
  BY <1>2 DEF Answer
<1>4. CacheTypeOK'
  <2>1. given' \in [req : Made, entry : Entry]
    BY <1>2, <1>3
  <2>2. 0 \in 0..Layers
    BY CacheAssumption
  <2>3. QED
    BY <1>1, <2>1, <2>2 DEF CacheTypeOK, Answer, origin
<1>5. ASSUME NEW d \in Clients PROVE ClientOK(d)'
  <2>1. CASE d = c
    BY <1>1, <2>1 DEF CacheTypeOK, Answer, ClientOK
  <2>2. CASE d # c
    <3>1. UNCHANGED <<pc[d], req[d], layer[d], held[d]>>
      BY <1>1, <2>2 DEF CacheTypeOK, Answer
    <3>2. QED
      BY <1>1, <3>1, OthersOK
  <2>3. QED
    BY <2>1, <2>2
<1>6. AnswersTheRequest'
  <2>1. SUFFICES ASSUME e.version # 0
                 PROVE  /\ SameKey(m.of, e.request)
                        /\ Unambiguous(m.of) => Resource(e.request) = Resource(m.of)
                        /\ m.of.method = "post" /\ e.maxAge < 0 =>
                             since'[Resource(m.of)][e.version] >= m.called
    BY <1>3, <1>4 DEF AnswersTheRequest, Given
  <2>2. e.request \in Requests
    BY EntryTyped
  <2>3. SameKey(m.of, e.request)
    BY <1>2, <2>1 DEF SameKey, cacheKey
  <2>4. Unambiguous(m.of) => Resource(e.request) = Resource(m.of)
    BY <2>2, <2>3 DEF Unambiguous
  <2>5. QED
    BY <1>1, <1>2, <2>1, <2>3, <2>4 DEF origin
<1>7. AnswerWasCurrent'
  BY <1>1, <1>2, <1>3 DEF AnswerWasCurrent, Given, EntryOK, origin
<1>8. CacheOK'
  BY <1>1, CacheStays
<1>9. QED
  BY <1>1, <1>4, <1>5, <1>6, <1>7, <1>8, SinceStable DEF IInv

-----------------------------------------------------------------------------
(* The time of a version that was made. *)
LEMMA VersionMade ==
  ASSUME IInv, NEW e \in Entry, EntryOK(e), e.version # 0
  PROVE  since[Resource(e.request)][e.version] \in Nat
<1> DEFINE s == since[Resource(e.request)]
<1>1. e.version \in Nat /\ s \in Seq(Instants)
  BY EntryTyped DEF IInv, SinceOK
<1>2. e.version <= Len(s) /\ Len(s) \in Nat
  BY <1>1 DEF EntryOK
<1>3. e.version \in 1..Len(s)
  BY <1>1, <1>2
<1>4. s[e.version] \in Instants
  BY <1>1, <1>3
<1>5. QED
  BY <1>4, CacheAssumption

LEMMA ArriveIInv == ASSUME IInv, NEW c \in Clients, Arrive(c) PROVE IInv'
<1>1. PICK h \in Entry : h = held[c] /\ EntryOK(h)
  BY DEF Arrive, IInv, ClientOK
<1> DEFINE new == [h EXCEPT !.arrived = clock, !.stored = clock]
<1>2. /\ pc[c] = "replying" /\ Answer(c, new) /\ Store(c, new) /\ UNCHANGED origin
  BY <1>1 DEF Arrive, Answer
<1>3. /\ h.request = req[c].of /\ h.sent = req[c].called /\ req[c] \in Made
      /\ h.age = 0 /\ h.again = 0
      /\ req[c].of.method = "post" /\ h.version # 0 =>
           since[Resource(req[c].of)][h.version] >= req[c].called
  BY <1>1, <1>2 DEF IInv, ClientOK
<1>4. clock \in Instants /\ clock \in Nat /\ Second \in Nat
  BY CacheAssumption DEF IInv, CacheTypeOK
<1>5. PICK e \in Entry : /\ e = new /\ e.request = h.request /\ e.version = h.version
                         /\ e.sent = h.sent /\ e.arrived = clock /\ e.stored = clock
                         /\ e.age = 0 /\ e.again = 0
  <2>1. new \in Entry
    BY <1>4 DEF Entry
  <2>2. /\ new.request = h.request /\ new.version = h.version /\ new.sent = h.sent
        /\ new.arrived = clock /\ new.stored = clock /\ new.age = h.age /\ new.again = h.again
    BY DEF Entry
  <2>3. QED
    BY <1>3, <2>1, <2>2
<1>6. EntryOK(e)
  <2>1. h.version # 0 => since[Resource(h.request)][h.version] <= clock
    <3>1. SUFFICES ASSUME h.version # 0 PROVE since[Resource(h.request)][h.version] <= clock
      OBVIOUS
    <3>2. since[Resource(h.request)][h.version] <= h.arrived /\ h.arrived <= clock
      BY <1>1, <3>1 DEF EntryOK
    <3>3. since[Resource(h.request)][h.version] \in Nat /\ h.arrived \in Nat
      BY <1>1, <3>1, VersionMade, EntryTyped
    <3>4. PICK x \in Nat, y \in Nat : x = since[Resource(h.request)][h.version] /\ y = h.arrived
      BY <3>3
    <3>5. x <= clock
      BY <1>4, <3>2, <3>4
    <3>6. QED
      BY <3>4, <3>5
  <2>2. 2 * (e.stored - e.arrived) <= 2 * (e.age * Second) + e.again * Second
    BY <1>4, <1>5
  <2>3. e.sent <= clock /\ e.arrived <= clock /\ e.stored <= clock
    BY <1>1, <1>4, <1>5 DEF EntryOK
  <2>4. QED
    BY <1>1, <1>5, <2>1, <2>2, <2>3 DEF EntryOK
<1>7. cacheKey(e.request) = cacheKey(req[c].of) /\ e.sent = req[c].called
  BY <1>3, <1>5
<1>8. ~(e.sent < req[c].called)
  BY <1>7, EntryTyped
<1>9. sets' \subseteq [key : CacheKeys, entry : Entry] /\ SetsOK'
  BY <1>2, <1>3, <1>5, <1>6, <1>7, StoreOK
<1>10. Answer(c, e) /\ pc[c] \notin {"idle", "done"}
  BY <1>2, <1>5
<1>11. QED
  BY <1>3, <1>5, <1>6, <1>7, <1>8, <1>9, <1>10, AnswerIInv

LEMMA ResponseTyped ==
  ASSUME NEW c \in Clients, req[c] \in Made, clock \in Instants,
         NEW v \in 0..(MaxPosts + 1), NEW age \in MaxAges \cup PostMaxAges \cup {0}
  PROVE  /\ Response(c, v, age) \in Entry
         /\ Response(c, v, age).request = req[c].of /\ Response(c, v, age).version = v
         /\ Response(c, v, age).sent = req[c].called
         /\ Response(c, v, age).arrived = clock /\ Response(c, v, age).stored = clock
         /\ Response(c, v, age).age = 0 /\ Response(c, v, age).again = 0
<1>1. req[c].of \in Requests /\ req[c].called \in Instants
  BY DEF Made
<1>2. 0 \in 0..MaxAgain
  BY CacheAssumption
<1>3. QED
  BY <1>1, <1>2 DEF Response, Entry

LEMMA CacheFailsIInv == ASSUME IInv, NEW c \in Clients, CacheFails(c) PROVE IInv'
<1>1. pc[c] = "looking" /\ Answer(c, Response(c, 0, 0)) /\ UNCHANGED <<origin, sets>>
  BY DEF CacheFails, Answer
<1>2. /\ req[c] \in Made /\ req[c].called <= clock /\ clock \in Instants
      /\ clock \in Nat /\ Second \in Nat
  BY <1>1, CacheAssumption DEF IInv, ClientOK, CacheTypeOK
<1>3. PICK e \in Entry : /\ e = Response(c, 0, 0) /\ e.version = 0
                         /\ e.sent = req[c].called /\ e.arrived = clock /\ e.stored = clock
                         /\ e.age = 0 /\ e.again = 0
  <2>1. 0 \in 0..(MaxPosts + 1)
    BY CacheAssumption
  <2>2. QED
    BY <1>2, <2>1, ResponseTyped
<1>4. EntryOK(e)
  BY <1>2, <1>3 DEF EntryOK
<1>5. Grows /\ sets' \subseteq [key : CacheKeys, entry : Entry]
  BY <1>1, Growing DEF IInv, CacheTypeOK
<1>6. SetsOK'
  BY <1>1, <1>5, SetsStay
<1>7. QED
  BY <1>1, <1>3, <1>4, <1>5, <1>6, AnswerIInv

LEMMA CallIInv == ASSUME IInv, NEW c \in Clients, Call(c) PROVE IInv'
<1>1. /\ Grows /\ UNCHANGED <<origin, cache, sets, held>> /\ given' = None
      /\ pc' = [pc EXCEPT ![c] = "looking"] /\ layer' = [layer EXCEPT ![c] = Layers]
  BY Growing DEF Call, Goto
<1>2. PICK r \in Made : req' = [req EXCEPT ![c] = r] /\ r.called = clock
  <2>1. PICK q \in Requests : req' = [req EXCEPT ![c] = [of |-> q, called |-> clock]]
    BY DEF Call
  <2>2. [of |-> q, called |-> clock] \in Made
    BY DEF Made, IInv, CacheTypeOK
  <2>3. QED
    BY <2>1, <2>2
<1>3. Layers \in 1..Layers /\ Layers \in 0..Layers /\ clock \in Nat /\ CacheTypeOK
  BY CacheAssumption DEF IInv, CacheTypeOK
<1>4. CacheTypeOK'
  BY <1>1, <1>2, <1>3 DEF CacheTypeOK, origin
<1>5. CacheOK' /\ SetsOK'
  BY <1>1, CacheStays, SetsStay
<1>6. ASSUME NEW d \in Clients PROVE ClientOK(d)'
  <2>1. CASE d = c
    <3>1. pc'[d] = "looking" /\ req'[d] = r /\ layer'[d] = Layers /\ clock' = clock
      BY <1>1, <1>2, <1>3, <2>1 DEF CacheTypeOK, origin
    <3>2. QED
      BY <1>2, <1>3, <3>1 DEF ClientOK
  <2>2. CASE d # c
    <3>1. UNCHANGED <<pc[d], req[d], layer[d], held[d]>>
      BY <1>1, <1>2, <1>3, <2>2 DEF CacheTypeOK
    <3>2. QED
      BY <1>1, <3>1, OthersOK
  <2>3. QED
    BY <2>1, <2>2
<1>7. QED
  BY <1>1, <1>4, <1>5, <1>6, SilentIInv

LEMMA CacheGetIInv == ASSUME IInv, NEW c \in Clients, CacheGet(c) PROVE IInv'
<1>1. /\ Grows /\ UNCHANGED <<origin, cache, sets, req, layer>> /\ given' = None
      /\ pc[c] = "looking" /\ pc' = [pc EXCEPT ![c] = "got"]
      /\ held' = [held EXCEPT ![c] = cache[cacheKey(req[c].of)]]
  BY Growing DEF CacheGet, Goto, Hold
<1>2. req[c] \in Made /\ req[c].called <= clock /\ layer[c] \in 1..Layers
  BY <1>1 DEF IInv, ClientOK
<1>3. PICK k \in CacheKeys : k = cacheKey(req[c].of)
  BY <1>2 DEF CacheKeys, Made
<1>4. CacheTypeOK /\ cache[k] \in Entry \cup {None}
  BY DEF IInv, CacheTypeOK
<1>5. PICK e : e = cache[k]
  OBVIOUS
<1>6. e # None => StoredOK(k, e)'
  <2>1. e # None => StoredOK(k, e)
    BY <1>5 DEF IInv, CacheOK
  <2>2. QED
    BY <1>1, <2>1, StoredStable
<1>7. CacheTypeOK'
  BY <1>1, <1>3, <1>4 DEF CacheTypeOK, origin
<1>8. CacheOK' /\ SetsOK'
  BY <1>1, CacheStays, SetsStay
<1>9. ASSUME NEW d \in Clients PROVE ClientOK(d)'
  <2>1. CASE d = c
    <3>1. /\ pc'[d] = "got" /\ req'[d] = req[c] /\ layer'[d] = layer[c]
          /\ held'[d] = e /\ clock' = clock
      BY <1>1, <1>3, <1>4, <1>5, <2>1 DEF CacheTypeOK, origin
    <3>2. held'[d] # None => StoredOK(cacheKey(req[d].of), held[d])'
      BY <1>3, <1>6, <3>1 DEF StoredOK, EntryOK
    <3>3. QED
      BY <1>2, <3>1, <3>2 DEF ClientOK
  <2>2. CASE d # c
    <3>1. UNCHANGED <<pc[d], req[d], layer[d], held[d]>>
      BY <1>1, <1>4, <2>2 DEF CacheTypeOK
    <3>2. QED
      BY <1>1, <3>1, OthersOK
  <2>3. QED
    BY <2>1, <2>2
<1>10. QED
  BY <1>1, <1>7, <1>8, <1>9, SilentIInv

-----------------------------------------------------------------------------
(* The header Age has not lost more than half a second. *)
LEMMA Rounding ==
  ASSUME NEW t \in Nat
  PROVE  Rounded(t) \in Nat /\ 2 * t <= 2 * (Rounded(t) * Second) + Second
<1>1. PICK d \in Nat \ {0} : d = Second
  BY CacheAssumption
<1>2. 2 * t + d \in Nat /\ 2 * d \in Nat \ {0}
  BY <1>1
<1>3. PICK a \in Nat, b \in Nat \ {0} : a = 2 * t + d /\ b = 2 * d
  BY <1>2
<1>4. PICK q \in Int, r \in 0..(b - 1) : q = a \div b /\ a = q * b + r
  <2>1. a \div b \in Int /\ a % b \in 0..(b - 1) /\ a = ((a \div b) * b) + (a % b)
    OBVIOUS
  <2>2. QED
    BY <2>1
<1>5. q \in Nat
  <2>1. SUFFICES ASSUME q <= -1 PROVE FALSE
    OBVIOUS
  <2>2. q * b <= -b
    BY <2>1
  <2>3. QED
    BY <1>4, <2>2
<1>6. 2 * t <= 2 * (q * d) + d
  <2>1. q * b = 2 * (q * d)
    BY <1>3
  <2>2. q * d \in Int
    OBVIOUS
  <2>3. QED
    BY <1>3, <1>4, <2>1, <2>2
<1>7. Rounded(t) = q
  BY <1>1, <1>3, <1>4 DEF Rounded
<1>8. QED
  BY <1>1, <1>5, <1>6, <1>7

(* The age of an entry is that of its policy but for what was rounded. *)
LEMMA AgeFacts ==
  ASSUME IInv, NEW e \in Entry, EntryOK(e)
  PROVE  /\ Age(e) \in Nat
         /\ 2 * (clock - e.arrived) <= 2 * Age(e) + e.again * Second
<1>1. /\ e.arrived \in Nat /\ e.stored \in Nat /\ e.age \in Nat /\ e.again \in Nat
      /\ clock \in Nat /\ e.stored <= clock
      /\ 2 * (e.stored - e.arrived) <= 2 * (e.age * Second) + e.again * Second
  BY EntryTyped, CacheAssumption DEF IInv, CacheTypeOK, EntryOK
<1>2. e.age * Second \in Nat /\ e.again * Second \in Nat
  BY <1>1, CacheAssumption
<1>3. PICK x \in Nat, y \in Nat : x = e.age * Second /\ y = e.again * Second
  BY <1>2
<1>4. 2 * (e.stored - e.arrived) <= 2 * x + y
  BY <1>1, <1>3
<1>5. Age(e) = x + clock - e.stored
  BY <1>3 DEF Age
<1>6. Age(e) \in Nat /\ 2 * (clock - e.arrived) <= 2 * (x + clock - e.stored) + y
  BY <1>1, <1>4, <1>5
<1>7. QED
  BY <1>3, <1>5, <1>6

LEMMA NewPolicyOK ==
  ASSUME IInv, NEW e \in Entry, EntryOK(e), e.again < MaxAgain
  PROVE  /\ NewPolicy(e) \in Entry /\ EntryOK(NewPolicy(e))
         /\ NewPolicy(e).request = e.request
<1>1. Age(e) \in Nat /\ 2 * (clock - e.arrived) <= 2 * Age(e) + e.again * Second
  BY AgeFacts
<1>2. PICK t \in Nat : t = Age(e)
  BY <1>1
<1>3. PICK a \in Nat : a = Rounded(Age(e)) /\ 2 * t <= 2 * (a * Second) + Second
  BY <1>2, Rounding
<1>4. /\ e.arrived \in Nat /\ e.again \in Nat /\ clock \in Nat /\ clock \in Instants
      /\ Second \in Nat /\ MaxAgain \in Nat
  BY EntryTyped, CacheAssumption DEF IInv, CacheTypeOK
<1>5. e.again + 1 \in 0..MaxAgain
  BY <1>4
<1>6. PICK n \in Entry : /\ n = NewPolicy(e) /\ n.request = e.request
                         /\ n.version = e.version /\ n.sent = e.sent /\ n.arrived = e.arrived
                         /\ n.maxAge = e.maxAge /\ n.age = a /\ n.stored = clock
                         /\ n.again = e.again + 1
  <2> DEFINE new == [e EXCEPT !.age = a, !.stored = clock, !.again = e.again + 1]
  <2>1. NewPolicy(e) = new
    BY <1>3 DEF NewPolicy, Entry
  <2>2. new \in Entry
    BY <1>4, <1>5 DEF Entry
  <2>3. /\ new.request = e.request /\ new.version = e.version /\ new.sent = e.sent
        /\ new.arrived = e.arrived /\ new.maxAge = e.maxAge
        /\ new.age = a /\ new.stored = clock /\ new.again = e.again + 1
    BY DEF Entry
  <2>4. QED
    BY <2>1, <2>2, <2>3
<1>7. 2 * (n.stored - n.arrived) <= 2 * (n.age * Second) + n.again * Second
  <2>1. (e.again + 1) * Second = e.again * Second + Second
    BY <1>4
  <2>2. PICK x \in Nat, y \in Nat : x = a * Second /\ y = e.again * Second
    BY <1>4
  <2>3. 2 * (clock - e.arrived) <= 2 * t + y /\ 2 * t <= 2 * x + Second
    BY <1>1, <1>2, <1>3, <2>2
  <2>4. 2 * (clock - e.arrived) <= 2 * x + (y + Second)
    BY <1>4, <2>3
  <2>5. QED
    BY <1>6, <2>1, <2>2, <2>4
<1>8. EntryOK(n)
  <2>1. clock <= clock
    BY <1>4
  <2>2. QED
    BY <1>6, <1>7, <2>1 DEF EntryOK
<1>9. QED
  BY <1>6, <1>8

LEMMA DecideIInv == ASSUME IInv, NEW c \in Clients, Decide(c) PROVE IInv'
<1>1. pc[c] = "got" /\ CacheTypeOK
  BY DEF Decide, IInv
<1>2. req[c] \in Made /\ req[c].called <= clock /\ layer[c] \in 1..Layers
  BY <1>1 DEF IInv, ClientOK
<1>3. CASE satisfiesWithoutRevalidation(held[c])
  <2>1. held[c] # None /\ StoredOK(cacheKey(req[c].of), held[c])
    BY <1>1, <1>3 DEF satisfiesWithoutRevalidation, IInv, ClientOK
  <2>2. PICK e \in Entry : /\ e = held[c] /\ EntryOK(e) /\ e.maxAge >= 0
                           /\ cacheKey(e.request) = cacheKey(req[c].of)
    BY <2>1 DEF StoredOK
  <2>3. /\ Answer(c, e) /\ UNCHANGED origin
        /\ \/ e.again < MaxAgain /\ Store(c, NewPolicy(e))
           \/ UNCHANGED sets
    BY <1>3, <2>2 DEF Decide, Answer
  <2>4. sets' \subseteq [key : CacheKeys, entry : Entry] /\ SetsOK'
    <3>1. CASE UNCHANGED sets
      BY <1>2, <2>2, <2>3, <3>1, StoreOK
    <3>2. CASE e.again < MaxAgain /\ Store(c, NewPolicy(e))
      <4>1. PICK n \in Entry : n = NewPolicy(e) /\ EntryOK(n) /\ n.request = e.request
        BY <2>2, <3>2, NewPolicyOK
      <4>2. QED
        BY <1>2, <2>2, <2>3, <3>2, <4>1, StoreOK
    <3>3. QED
      BY <2>3, <3>1, <3>2
  <2>5. 2 * (clock - e.arrived) < 2 * e.maxAge * Second + e.again * Second
    <3>1. Age(e) < e.maxAge * Second
      BY <1>3, <2>2 DEF satisfiesWithoutRevalidation
    <3>2. Age(e) \in Nat /\ 2 * (clock - e.arrived) <= 2 * Age(e) + e.again * Second
      BY <2>2, AgeFacts
    <3>3. /\ e.maxAge \in Int /\ e.again \in Nat /\ Second \in Nat /\ clock \in Nat
          /\ e.arrived \in Nat
      BY EntryTyped, CacheAssumption DEF IInv, CacheTypeOK
    <3>4. PICK x \in Int, y \in Nat : x = e.maxAge * Second /\ y = e.again * Second
      BY <3>3
    <3>5. 2 * e.maxAge * Second = 2 * x
      BY <3>3, <3>4
    <3>6. 2 * (clock - e.arrived) < 2 * x + y
      BY <3>1, <3>2, <3>3, <3>4
    <3>7. QED
      BY <3>4, <3>5, <3>6
  <2>6. ~(e.maxAge < 0) /\ pc[c] \notin {"idle", "done"}
    BY <1>1, <2>2, EntryTyped
  <2>7. QED
    BY <2>2, <2>3, <2>4, <2>5, <2>6, AnswerIInv
<1>4. CASE ~satisfiesWithoutRevalidation(held[c])
  <2> DEFINE to == IF layer[c] > 1 THEN "looking" ELSE "sending"
  <2>1. /\ Grows /\ UNCHANGED <<origin, cache, sets, req>> /\ given' = None
        /\ layer' = [layer EXCEPT ![c] = layer[c] - 1]
        /\ held' = [held EXCEPT ![c] = None] /\ pc' = [pc EXCEPT ![c] = to]
    BY <1>1, <1>4, Growing DEF Decide, Hold, Goto, CacheTypeOK
  <2>2. layer[c] - 1 \in 0..Layers /\ (layer[c] > 1 => layer[c] - 1 \in 1..Layers)
    BY <1>2, CacheAssumption
  <2>3. to \in {"looking", "sending"}
    OBVIOUS
  <2>4. CacheTypeOK'
    BY <1>1, <2>1, <2>2 DEF CacheTypeOK, origin
  <2>5. CacheOK' /\ SetsOK'
    BY <2>1, CacheStays, SetsStay
  <2>6. ASSUME NEW d \in Clients PROVE ClientOK(d)'
    <3>1. CASE d = c
      <4>1. /\ pc'[d] = to /\ req'[d] = req[c] /\ layer'[d] = layer[c] - 1
            /\ clock' = clock
        BY <1>1, <2>1, <3>1 DEF CacheTypeOK, origin
      <4>2. QED
        BY <1>2, <2>2, <4>1 DEF ClientOK
    <3>2. CASE d # c
      <4>1. UNCHANGED <<pc[d], req[d], layer[d], held[d]>>
        BY <1>1, <2>1, <3>2 DEF CacheTypeOK
      <4>2. QED
        BY <2>1, <4>1, OthersOK
    <3>3. QED
      BY <3>1, <3>2
  <2>7. QED
    BY <2>1, <2>4, <2>5, <2>6, SilentIInv
<1>5. QED
  BY <1>3, <1>4

(* The origin has answered with e; a post has made its version now.          *)
LEMMA ReplyIInv ==
  ASSUME IInv, Grows, clock' = clock, NEW c \in Clients, pc[c] = "sending",
         NEW e \in Entry, EntryOK(e)', e.sent = req[c].called,
         e.request = req[c].of, e.age = 0, e.again = 0,
         req[c].of.method = "post" /\ e.version # 0 =>
           since'[Resource(req[c].of)][e.version] >= req[c].called,
         Hold(c, e), Goto(c, "replying"), given' = None,
         UNCHANGED <<cache, sets, req, layer>>
  PROVE  IInv'
<1>1. CacheTypeOK /\ req[c] \in Made /\ req[c].called <= clock
  BY DEF IInv, ClientOK
<1>2. CacheTypeOK'
  BY <1>1 DEF CacheTypeOK, Grows, Hold, Goto
<1>3. CacheOK' /\ SetsOK'
  BY CacheStays, SetsStay
<1>4. ASSUME NEW d \in Clients PROVE ClientOK(d)'
  <2>1. CASE d = c
    <3>1. pc'[d] = "replying" /\ req'[d] = req[c] /\ held'[d] = e
      BY <1>1, <2>1 DEF CacheTypeOK, Hold, Goto
    <3>2. EntryOK(held[d])'
      BY <3>1 DEF EntryOK
    <3>3. QED
      BY <1>1, <2>1, <3>1, <3>2 DEF ClientOK
  <2>2. CASE d # c
    <3>1. UNCHANGED <<pc[d], req[d], layer[d], held[d]>>
      BY <1>1, <2>2 DEF CacheTypeOK, Hold, Goto
    <3>2. QED
      BY <3>1, OthersOK
  <2>3. QED
    BY <2>1, <2>2
<1>5. QED
  BY <1>2, <1>3, <1>4, SilentIInv

LEMMA ServeIInv == ASSUME IInv, NEW c \in Clients, Serve(c) PROVE IInv'
<1> DEFINE r == Resource(req[c].of)
           post == req[c].of.method = "post"
           v == Len(since[r]) + IF post THEN 1 ELSE 0
<1>1. /\ pc[c] = "sending" /\ given' = None /\ Goto(c, "replying")
      /\ post => \A q \in Resources : Len(since[q]) <= MaxPosts
      /\ since' = IF post THEN [since EXCEPT ![r] = Append(since[r], clock)] ELSE since
      /\ UNCHANGED <<clock, cache, sets, req, layer>>
  BY DEF Serve
<1>2. PICK age \in IF post THEN PostMaxAges ELSE MaxAges : Hold(c, Response(c, v, age))
  BY DEF Serve
<1>3. /\ CacheTypeOK /\ since \in [Resources -> Seq(Instants)]
      /\ req[c] \in Made /\ req[c].called <= clock
  BY <1>1 DEF IInv, ClientOK, SinceOK
<1>4. /\ clock \in Instants /\ clock \in Nat /\ req[c].of \in Requests
      /\ req[c].called \in Nat
  BY <1>3, CacheAssumption DEF CacheTypeOK, Made
<1>5. r \in Resources
  BY <1>4 DEF Resources
<1>6. /\ since[r] \in Seq(Instants) /\ Len(since[r]) \in 1..(MaxPosts + 1)
      /\ post => Len(since[r]) <= MaxPosts
  BY <1>1, <1>3, <1>5 DEF CacheTypeOK
<1>7. v \in 1..(MaxPosts + 1) /\ v \in 0..(MaxPosts + 1)
  <2>1. MaxPosts \in Nat /\ Len(since[r]) \in Nat
    BY <1>6, CacheAssumption
  <2>2. CASE post
    BY <1>6, <2>1, <2>2
  <2>3. CASE ~post
    BY <1>6, <2>1, <2>3
  <2>4. QED
    BY <2>2, <2>3
<1>8. /\ Len(Append(since[r], clock)) = Len(since[r]) + 1
      /\ Append(since[r], clock) \in Seq(Instants)
      /\ Append(since[r], clock)[Len(since[r]) + 1] = clock
  BY <1>4, <1>6
<1>9. /\ since'[r] = IF post THEN Append(since[r], clock) ELSE since[r]
      /\ \A q \in Resources : q # r => since'[q] = since[q]
      /\ since' \in [Resources -> Seq(Instants)]
  BY <1>1, <1>3, <1>5, <1>8
<1>10. PICK s \in Seq(Instants), n \in 1..(MaxPosts + 1) :
          s = since'[r] /\ n = v /\ Len(s) = n
  <2>1. Len(since'[r]) = v
    <3>1. CASE post
      <4>1. since'[r] = Append(since[r], clock) /\ v = Len(since[r]) + 1
        BY <1>9, <3>1
      <4>2. QED
        BY <1>8, <4>1
    <3>2. CASE ~post
      <4>1. since'[r] = since[r]
        BY <1>9, <3>2
      <4>2. v = Len(since[r])
        BY <1>6, <3>2
      <4>3. QED
        BY <4>1, <4>2
    <3>3. QED
      BY <3>1, <3>2
  <2>2. since'[r] \in Seq(Instants)
    BY <1>5, <1>9
  <2>3. QED
    BY <1>7, <2>1, <2>2
<1>11. Grows
  <2>1. clock' \in Instants /\ clock' >= clock
    BY <1>1, <1>4
  <2>2. ASSUME NEW q \in Resources
        PROVE  /\ Len(since'[q]) \in 1..(MaxPosts + 1)
               /\ since'[q] = since[q] \/ since'[q] = Append(since[q], clock)
    <3>1. CASE q = r
      <4>1. since'[q] = since[q] \/ since'[q] = Append(since[q], clock)
        BY <1>9, <3>1
      <4>2. QED
        BY <1>10, <3>1, <4>1
    <3>2. CASE q # r
      BY <1>3, <1>9, <3>2 DEF CacheTypeOK
    <3>3. QED
      BY <3>1, <3>2
  <2>3. QED
    BY <1>9, <2>1, <2>2 DEF Grows
<1>12. PICK e \in Entry : /\ e = Response(c, n, age)
                          /\ e.request = req[c].of /\ e.version = n /\ e.sent = req[c].called
                          /\ e.arrived = clock /\ e.stored = clock /\ e.age = 0 /\ e.again = 0
  <2>1. n \in 0..(MaxPosts + 1) /\ age \in MaxAges \cup PostMaxAges \cup {0}
    BY <1>2, <1>7, <1>10
  <2>2. QED
    BY <1>3, <1>4, <2>1, ResponseTyped
<1>13. s[n] <= clock /\ (post => s[n] = clock)
  <2>1. CASE post
    <3>1. s = Append(since[r], clock) /\ n = Len(since[r]) + 1
      BY <1>9, <1>10, <2>1
    <3>2. QED
      BY <1>4, <1>8, <3>1
  <2>2. CASE ~post
    <3>1. s = since[r] /\ n \in DOMAIN since[r]
      BY <1>9, <1>10, <2>2
    <3>2. QED
      BY <1>5, <2>2, <3>1 DEF IInv, SinceOK
  <2>3. QED
    BY <2>1, <2>2
<1>14. EntryOK(e)'
  <2>1. e.sent <= clock' /\ e.arrived <= clock' /\ e.stored <= clock'
    BY <1>1, <1>3, <1>4, <1>12
  <2>2. /\ e.version <= Len(since'[r]) /\ ~(e.version < Len(since'[r]))
        /\ since'[r][e.version] <= e.arrived
    <3>1. since'[r] = s /\ e.version = n /\ e.arrived = clock
      BY <1>10, <1>12
    <3>2. Len(s) = n /\ n \in Int
      BY <1>10
    <3>3. QED
      BY <1>13, <3>1, <3>2
  <2>3. Resource(e.request) = r
    BY <1>12
  <2>4. 2 * (e.stored - e.arrived) <= 2 * (e.age * Second) + e.again * Second
    BY <1>4, <1>12, CacheAssumption
  <2>5. QED
    BY <2>1, <2>2, <2>3, <2>4 DEF EntryOK
<1>15. post => since'[r][e.version] >= req[c].called
  BY <1>3, <1>4, <1>10, <1>12, <1>13
<1>16. Hold(c, e) /\ clock' = clock
  BY <1>1, <1>2, <1>10, <1>12
<1>17. QED
  BY <1>1, <1>11, <1>12, <1>14, <1>15, <1>16, ReplyIInv

LEMMA ServeErrorIInv == ASSUME IInv, NEW c \in Clients, ServeError(c) PROVE IInv'
<1>1. /\ pc[c] = "sending" /\ given' = None /\ Goto(c, "replying")
      /\ Hold(c, Response(c, 0, 0)) /\ UNCHANGED <<origin, cache, sets, req, layer>>
  BY DEF ServeError
<1>2. Grows /\ clock' = clock
  BY <1>1, Growing DEF origin
<1>3. /\ req[c] \in Made /\ req[c].called <= clock /\ clock \in Instants
      /\ clock \in Nat /\ Second \in Nat
  BY <1>1, CacheAssumption DEF IInv, ClientOK, CacheTypeOK
<1>4. PICK e \in Entry : /\ e = Response(c, 0, 0) /\ e.request = req[c].of /\ e.version = 0
                         /\ e.sent = req[c].called /\ e.arrived = clock /\ e.stored = clock
                         /\ e.age = 0 /\ e.again = 0
  <2>1. 0 \in 0..(MaxPosts + 1)
    BY CacheAssumption
  <2>2. QED
    BY <1>3, <2>1, ResponseTyped
<1>5. EntryOK(e)'
  BY <1>2, <1>3, <1>4 DEF EntryOK
<1>6. QED
  BY <1>1, <1>2, <1>4, <1>5, ReplyIInv

-----------------------------------------------------------------------------
LEMMA NextIInv == IInv /\ [CacheNext]_cacheVars => IInv'
<1> SUFFICES ASSUME IInv, [CacheNext]_cacheVars PROVE IInv'
  OBVIOUS
<1>1. ASSUME NEW c \in Clients, Call(c) PROVE IInv'
  BY <1>1, CallIInv
<1>2. ASSUME NEW c \in Clients, CacheGet(c) PROVE IInv'
  BY <1>2, CacheGetIInv
<1>3. ASSUME NEW c \in Clients, Decide(c) PROVE IInv'
  BY <1>3, DecideIInv
<1>4. ASSUME NEW c \in Clients, Serve(c) PROVE IInv'
  BY <1>4, ServeIInv
<1>5. ASSUME NEW c \in Clients, ServeError(c) PROVE IInv'
  BY <1>5, ServeErrorIInv
<1>6. ASSUME NEW c \in Clients, Arrive(c) PROVE IInv'
  BY <1>6, ArriveIInv
<1>7. ASSUME NEW c \in Clients, CacheFails(c) PROVE IInv'
  BY <1>7, CacheFailsIInv
<1>8. CASE UNCHANGED cacheVars
  <2>1. UNCHANGED <<clock, since, cache, sets, pc, req, layer, held, given>>
    BY <1>8 DEF cacheVars, origin, requesting
  <2>2. CacheTypeOK' /\ SinceOK'
    BY <2>1 DEF IInv, CacheTypeOK, SinceOK
  <2>3. CacheOK' /\ SetsOK' /\ Grows
    BY <2>1, Growing, CacheStays, SetsStay DEF origin
  <2>4. \A c \in Clients : ClientOK(c)'
    BY <2>1, <2>3, OthersOK
  <2>5. AnswersTheRequest' /\ AnswerWasCurrent'
    BY <2>1, <2>2 DEF IInv, AnswersTheRequest, AnswerWasCurrent, Given
  <2>6. QED
    BY <2>2, <2>3, <2>4, <2>5 DEF IInv
<1>9. QED
  BY <1>1, <1>2, <1>3, <1>4, <1>5, <1>6, <1>7, <1>8, TickIInv, EvictIInv, SetLandsIInv,
     SetEndsIInv
  DEF CacheNext, Advance

LEMMA Inductive == CacheSpec => []IInv
BY InitIInv, NextIInv, PTL DEF CacheSpec

-----------------------------------------------------------------------------
(* Whatever is set, evicted, late or layered, a request is answered with a *)
(* response to one of the same method, url and text of params, of its own  *)
(* resource where those tell resources apart, and a post whose response    *)
(* may not be kept by what was done for it.                                *)
THEOREM AnswersBelong == CacheSpec => []AnswersTheRequest
<1>1. IInv => AnswersTheRequest
  BY DEF IInv
<1>2. QED
  BY <1>1, Inductive, PTL

(* An answer from the cache is fresh, to within half a second for each     *)
(* time it was stored again, and any answer was current at some moment of  *)
(* the exchange that fetched it.                                           *)
THEOREM AnswersWereCurrent == CacheSpec => []AnswerWasCurrent
<1>1. IInv => AnswerWasCurrent
  BY DEF IInv
<1>2. QED
  BY <1>1, Inductive, PTL
=============================================================================
