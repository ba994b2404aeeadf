---------------------------- MODULE PGSinkProofs ----------------------------
(***************************************************************************)
(* The safety of PGSink for any sources, topics and keys and any           *)
(* highWaterMark.                                                          *)
(***************************************************************************)
EXTENDS PGSink, TLAPS, FiniteSetTheorems, NaturalsInduction, WellFoundedInduction

Increasing(s) == \A i, j \in DOMAIN s : i < j => s[i] < s[j]

(* Chunks are called with in the order of the log, and a call that runs    *)
(* has some of its chunks still to insert.                                 *)
CallOK ==
  /\ Increasing(buffer) /\ Increasing(chunks) /\ Increasing(todo)
  /\ ToSet(todo) \subseteq ToSet(chunks)
  /\ todo = <<>> <=> chunks = <<>>

(* No chunk is in two places.                                              *)
Apart ==
  /\ ToSet(buffer) \cap ToSet(chunks) = {}
  /\ acked \cap (ToSet(buffer) \cup ToSet(chunks)) = {}
  /\ reported \cap (ToSet(buffer) \cup ToSet(chunks) \cup acked) = {}

(* What the groups that were inserted have left in the tables.             *)
Stored(n) == \E m \in ToSet(rows[topic(n)]) : key(m) = key(n)
StoredOK == \A n \in acked \cup (ToSet(chunks) \ ToSet(todo)) : Stored(n)

RowsOK == \A t \in Topics : \A i \in DOMAIN rows[t] :
  /\ rows[t][i] \in 1..written /\ topic(rows[t][i]) = t
  /\ source.batches = "topic" =>
       \A j \in DOMAIN rows[t] : key(rows[t][i]) = key(rows[t][j]) => i = j

(* Without errors chunks come to their tables in the order of the log.     *)
OrderOK == reported = {} =>
  /\ chunks = <<>> => buffer = <<>>
  /\ \A n \in ToSet(chunks), m \in ToSet(buffer) : n < m
  /\ \A t \in Topics : Increasing(rows[t])
  /\ \A t \in Topics : \A r \in ToSet(rows[t]), n \in ToSet(todo) \cup ToSet(buffer) :
       topic(n) = t => r < n

IInv ==
  /\ EveryChunkAccounted
  /\ CallOK
  /\ Apart
  /\ StoredOK
  /\ RowsOK
  /\ OrderOK

-----------------------------------------------------------------------------
(* Sequences and the sets of their elements.                               *)
LEMMA SetOfSeq ==
  ASSUME NEW A, NEW s \in Seq(A)
  PROVE  /\ ToSet(s) \subseteq A /\ Len(s) \in Nat /\ DOMAIN s = 1..Len(s)
         /\ (s = <<>> <=> Len(s) = 0) /\ (s = <<>> <=> ToSet(s) = {})
<1>1. ToSet(s) \subseteq A /\ Len(s) \in Nat /\ DOMAIN s = 1..Len(s) /\ (s = <<>> <=> Len(s) = 0)
  BY DEF ToSet
<1>2. s = <<>> => DOMAIN s = {}
  BY <1>1
<1>3. s # <<>> => 1 \in DOMAIN s
  BY <1>1
<1>4. s = <<>> <=> ToSet(s) = {}
  BY <1>2, <1>3 DEF ToSet
<1>5. QED
  BY <1>1, <1>4

LEMMA SeqTyped ==
  ASSUME NEW A, NEW s \in Seq(A)
  PROVE  \A i \in DOMAIN s : s[i] \in A
OBVIOUS

LEMMA SeqWider ==
  ASSUME NEW B, NEW A \in SUBSET B, NEW s \in Seq(A)
  PROVE  s \in Seq(B)
OBVIOUS

LEMMA SetOfEmpty ==
  ASSUME NEW A
  PROVE  <<>> \in Seq(A) /\ ToSet(<<>>) = {} /\ Len(<<>>) = 0 /\ Increasing(<<>>)
BY DEF ToSet, Increasing

LEMMA SetOfOne ==
  ASSUME NEW A, NEW x \in A
  PROVE  /\ <<x>> \in Seq(A) /\ ToSet(<<x>>) = {x} /\ Len(<<x>>) = 1
         /\ <<x>> # <<>> /\ Increasing(<<x>>)
BY DEF ToSet, Increasing

LEMMA HeadFirst ==
  ASSUME NEW A, NEW s \in Seq(A), s # <<>>
  PROVE  Head(s) = s[1] /\ 1 \in DOMAIN s /\ Head(s) \in ToSet(s)
BY DEF ToSet

LEMMA SetOfAppend ==
  ASSUME NEW A, NEW s \in Seq(A), NEW x \in A
  PROVE  /\ Append(s, x) \in Seq(A) /\ Len(Append(s, x)) = Len(s) + 1
         /\ ToSet(Append(s, x)) = ToSet(s) \cup {x}
<1>1. /\ Append(s, x) \in Seq(A) /\ Len(Append(s, x)) = Len(s) + 1
      /\ Len(s) \in Nat /\ DOMAIN s = 1..Len(s)
      /\ DOMAIN Append(s, x) = 1..(Len(s) + 1)
      /\ \A i \in 1..Len(s) : Append(s, x)[i] = s[i]
      /\ Append(s, x)[Len(s) + 1] = x
  OBVIOUS
<1> DEFINE a == Append(s, x)
<1> HIDE DEF a
<1>2. ToSet(a) = ToSet(s) \cup {x}
  BY <1>1 DEF ToSet, a
<1>3. QED
  BY <1>1, <1>2 DEF a

LEMMA ConcatFacts ==
  ASSUME NEW A, NEW s \in Seq(A), NEW r \in Seq(A)
  PROVE  /\ s \o r \in Seq(A) /\ DOMAIN (s \o r) = 1..(Len(s) + Len(r))
         /\ \A i \in 1..Len(s) : (s \o r)[i] = s[i]
         /\ \A i \in 1..Len(r) : (s \o r)[Len(s) + i] = r[i]
OBVIOUS

(* An element of s \o r is one of s or one of r. *)
LEMMA ConcatAt ==
  ASSUME NEW A, NEW s \in Seq(A), NEW r \in Seq(A), NEW i \in DOMAIN (s \o r)
  PROVE  \/ i \in DOMAIN s /\ (s \o r)[i] = s[i]
         \/ \E j \in DOMAIN r : i = Len(s) + j /\ (s \o r)[i] = r[j]
<1>1. Len(s) \in Nat /\ DOMAIN s = 1..Len(s) /\ Len(r) \in Nat /\ DOMAIN r = 1..Len(r)
  BY SetOfSeq
<1>2. i \in 1..(Len(s) + Len(r))
  BY ConcatFacts
<1>3. CASE i \in 1..Len(s)
  BY <1>1, <1>3, ConcatFacts
<1>4. CASE i \notin 1..Len(s)
  <2>1. i - Len(s) \in 1..Len(r) /\ i = Len(s) + (i - Len(s))
    BY <1>1, <1>2, <1>4
  <2>2. QED
    BY <1>1, <2>1, ConcatFacts
<1>5. QED
  BY <1>3, <1>4

LEMMA SetOfConcat ==
  ASSUME NEW A, NEW s \in Seq(A), NEW r \in Seq(A)
  PROVE  ToSet(s \o r) = ToSet(s) \cup ToSet(r)
<1>1. ToSet(s \o r) \subseteq ToSet(s) \cup ToSet(r)
  BY ConcatAt DEF ToSet
<1>2. /\ Len(s) \in Nat /\ DOMAIN s = 1..Len(s) /\ Len(r) \in Nat /\ DOMAIN r = 1..Len(r)
      /\ DOMAIN (s \o r) = 1..(Len(s) + Len(r))
      /\ \A i \in 1..Len(s) : (s \o r)[i] = s[i] /\ i \in 1..(Len(s) + Len(r))
      /\ \A i \in 1..Len(r) :
           (s \o r)[Len(s) + i] = r[i] /\ Len(s) + i \in 1..(Len(s) + Len(r))
  BY SetOfSeq, ConcatFacts
<1>3. ToSet(s) \subseteq ToSet(s \o r) /\ ToSet(r) \subseteq ToSet(s \o r)
  BY <1>2 DEF ToSet
<1>4. QED
  BY <1>1, <1>3

(* Increasing sequences: one follows another, and they repeat nothing. *)
LEMMA IncreasingConcat ==
  ASSUME NEW s \in Seq(Nat), NEW r \in Seq(Nat), Increasing(s), Increasing(r),
         \A x \in ToSet(s), y \in ToSet(r) : x < y
  PROVE  Increasing(s \o r)
<1> DEFINE c == s \o r
<1>1. /\ Len(s) \in Nat /\ DOMAIN s = 1..Len(s) /\ Len(r) \in Nat /\ DOMAIN r = 1..Len(r)
      /\ DOMAIN c = 1..(Len(s) + Len(r))
  BY SetOfSeq, ConcatFacts
<1>2. \A i \in DOMAIN c :
        \/ i \in DOMAIN s /\ c[i] = s[i]
        \/ \E j \in DOMAIN r : i = Len(s) + j /\ c[i] = r[j]
  BY ConcatAt
<1> HIDE DEF c
<1>3. SUFFICES ASSUME NEW i \in DOMAIN c, NEW j \in DOMAIN c, i < j
               PROVE  c[i] < c[j]
  BY DEF Increasing, c
<1>4. CASE i \in DOMAIN s /\ c[i] = s[i] /\ j \in DOMAIN s /\ c[j] = s[j]
  BY <1>3, <1>4 DEF Increasing
<1>5. ASSUME i \in DOMAIN s, c[i] = s[i], NEW l \in DOMAIN r, c[j] = r[l]
      PROVE  c[i] < c[j]
  BY <1>5 DEF ToSet
<1>6. ASSUME NEW k \in DOMAIN r, NEW l \in DOMAIN r, i = Len(s) + k, j = Len(s) + l,
             c[i] = r[k], c[j] = r[l]
      PROVE  c[i] < c[j]
  <2>1. k < l
    BY <1>1, <1>3, <1>6
  <2>2. QED
    BY <1>6, <2>1 DEF Increasing
<1>7. ASSUME j \in DOMAIN s, NEW k \in DOMAIN r, i = Len(s) + k
      PROVE  FALSE
  BY <1>1, <1>3, <1>7
<1>8. QED
  BY <1>2, <1>4, <1>5, <1>6, <1>7

LEMMA IncreasingAppend ==
  ASSUME NEW s \in Seq(Nat), NEW x \in Nat, Increasing(s), \A y \in ToSet(s) : y < x
  PROVE  Increasing(Append(s, x))
<1>1. Append(s, x) = s \o <<x>>
  OBVIOUS
<1>2. <<x>> \in Seq(Nat) /\ Increasing(<<x>>) /\ ToSet(<<x>>) = {x}
  BY SetOfOne, Zenon
<1>3. Increasing(s \o <<x>>)
  BY <1>2, IncreasingConcat
<1>4. QED
  BY <1>1, <1>3

LEMMA IncreasingOnce ==
  ASSUME NEW s \in Seq(Nat), Increasing(s), NEW i \in DOMAIN s, NEW j \in DOMAIN s,
         s[i] = s[j]
  PROVE  i = j
<1>1. i \in Nat /\ j \in Nat /\ s[i] \in Nat /\ s[j] \in Nat
  OBVIOUS
<1>2. QED
  BY <1>1 DEF Increasing

LEMMA IncreasingCount ==
  ASSUME NEW s \in Seq(Nat), Increasing(s)
  PROVE  IsFiniteSet(ToSet(s)) /\ Cardinality(ToSet(s)) = Len(s)
<1>1. Len(s) \in Nat /\ DOMAIN s = 1..Len(s) /\ s = [i \in 1..Len(s) |-> s[i]]
  OBVIOUS
<1>2. s \in Bijection(1..Len(s), ToSet(s))
  <2>1. s \in [1..Len(s) -> ToSet(s)]
    BY <1>1 DEF ToSet
  <2>2. \A i, j \in 1..Len(s) : s[i] = s[j] => i = j
    BY <1>1, IncreasingOnce
  <2>3. \A x \in ToSet(s) : \E i \in 1..Len(s) : s[i] = x
    BY <1>1 DEF ToSet
  <2>4. QED
    BY <2>1, <2>2, <2>3 DEF Bijection, Injection, Surjection, IsInjective
<1>3. ExistsBijection(1..Len(s), ToSet(s))
  BY <1>2 DEF ExistsBijection
<1>4. IsFiniteSet(ToSet(s)) /\ Cardinality(ToSet(s)) = Len(s)
  BY <1>1, <1>3, FS_CountingElements, FS_NatBijection
<1>5. QED
  BY <1>4

(* The chunks ns of an increasing sequence are in the order of the log.    *)
LEMMA FilteredIs ==
  ASSUME NEW s \in Seq(Nat), Increasing(s), NEW ns \in SUBSET ToSet(s),
         NEW r \in Filtered(s, ns)
  PROVE  r \in Seq(ns) /\ ToSet(r) = ns /\ Increasing(r)
<1>1. Cardinality(ns) \in Nat
  BY IncreasingCount, FS_Subset, FS_CardinalityType
<1>2. r \in [1..Cardinality(ns) -> ns] /\ ToSet(r) = ns
  BY DEF Filtered
<1>3. r \in Seq(ns)
  BY <1>1, <1>2
<1>4. Increasing(r)
  <2>1. SUFFICES ASSUME NEW i \in DOMAIN r, NEW j \in DOMAIN r, i < j
                 PROVE  r[i] < r[j]
    BY DEF Increasing
  <2>2. PICK k \in DOMAIN s, l \in DOMAIN s : k < l /\ s[k] = r[i] /\ s[l] = r[j]
    BY <2>1 DEF Filtered
  <2>3. QED
    BY <2>2 DEF Increasing
<1>5. QED
  BY <1>2, <1>3, <1>4

-----------------------------------------------------------------------------
(* The insertion of a group.                                               *)

(* A non-empty set of numbers has a least one. *)
LEMMA Least ==
  ASSUME NEW S \in SUBSET Nat, S # {}
  PROVE  \E x \in S : \A y \in S : x <= y
<1>1. PICK x \in S : \A y \in S : ~(<<y, x>> \in OpToRel(<, Nat))
  BY NatLessThanWellFounded, WFMin
<1>2. \A y, z \in Nat : y < z => <<y, z>> \in OpToRel(<, Nat)
  BY DEF OpToRel
<1>3. \A y \in S : ~(y < x)
  BY <1>1, <1>2, Zenon
<1>4. QED
  BY <1>3

LEMMA LogTyped ==
  ASSUME TypeOK
  PROVE  /\ Log \in Seq([topic : Topics, key : Keys])
         /\ Chunks \in SUBSET Nat /\ Chunks = DOMAIN Log
         /\ \A n \in Chunks : topic(n) \in Topics
         /\ source.batches \in {"topic", "row", "all"}
<1>1. source \in [batches : {"topic", "row", "all"}, log : Seq([topic : Topics, key : Keys])]
  BY SourcesAssumption DEF TypeOK
<1>2. PICK l \in Seq([topic : Topics, key : Keys]) : l = Log
  BY <1>1 DEF Log
<1>3. /\ Len(l) \in Nat /\ DOMAIN l = 1..Len(l)
      /\ \A n \in DOMAIN l : l[n] \in [topic : Topics, key : Keys]
  BY SetOfSeq, SeqTyped, ZenonT(30)
<1>4. QED
  BY <1>1, <1>2, <1>3 DEF Chunks, topic

(* The chunks of a group are for one table, and those of its topic that    *)
(* are left come after it.                                                 *)
LEMMA GroupFacts ==
  ASSUME TypeOK, CallOK, todo # <<>>
  PROVE  /\ Head(todo) \in Group /\ Group \subseteq ToSet(todo)
         /\ ToSet(todo) \subseteq Chunks
         /\ \A n \in Group : topic(n) = topic(Head(todo))
         /\ \A n \in Group, m \in Others : topic(n) = topic(m) => n < m
<1>1. /\ Head(todo) = todo[1] /\ 1 \in DOMAIN todo /\ Head(todo) \in ToSet(todo)
      /\ ToSet(todo) \subseteq Chunks /\ DOMAIN todo = 1..Len(todo) /\ Len(todo) \in Nat
  <2>1. todo \in Seq(Chunks)
    BY DEF TypeOK
  <2>2. QED
    BY <2>1, HeadFirst, SetOfSeq
<1>2. source.batches \in {"topic", "row", "all"}
  BY LogTyped
<1>3. CASE source.batches = "topic"
  BY <1>1, <1>3 DEF Group, Others
<1>4. CASE source.batches = "row"
  <2>1. Group = {todo[1]}
    BY <1>1, <1>4 DEF Group
  <2>2. ASSUME NEW m \in ToSet(todo), m # todo[1]
        PROVE  todo[1] < m
    <3>1. PICK i \in DOMAIN todo : m = todo[i]
      BY <2>2 DEF ToSet
    <3>2. 1 < i
      BY <1>1, <2>2, <3>1
    <3>3. QED
      BY <1>1, <3>1, <3>2 DEF CallOK, Increasing
  <2>3. QED
    BY <1>1, <2>1, <2>2 DEF Others
<1>5. CASE source.batches = "all"
  <2>1. Group = ToSet(todo) /\ Others = {}
    BY <1>5 DEF Group, Others
  <2>2. \A n \in Chunks : topic(n) = topic(Head(todo))
    <3>1. PICK t : \A n \in DOMAIN source.log : source.log[n].topic = t
      BY <1>5, TablesAssumption DEF TypeOK
    <3>2. \A n \in Chunks : topic(n) = t
      BY <3>1, LogTyped DEF topic, Log
    <3>3. QED
      BY <1>1, <3>2
  <2>3. QED
    BY <1>1, <2>1, <2>2
<1>6. QED
  BY <1>2, <1>3, <1>4, <1>5

(* Every chunk of a group has a row of its key after the insertion, and    *)
(* with ON CONFLICT no two rows have one key.                              *)
LEMMA NewRowsFacts ==
  ASSUME TypeOK, CallOK, todo # <<>>, NEW table \in Seq(Chunks)
  PROVE  /\ NewRows(table) \subseteq Group
         /\ \A n \in Group : \E m \in ToSet(table) \cup NewRows(table) : key(m) = key(n)
         /\ source.batches = "topic" =>
              /\ \A n, m \in NewRows(table) : key(n) = key(m) => n = m
              /\ \A n \in NewRows(table), m \in ToSet(table) : key(m) # key(n)
<1>1. Group \in SUBSET Nat
  BY GroupFacts, LogTyped
<1>2. CASE source.batches = "topic"
  <2>1. NewRows(table) = {n \in Group : /\ \A m \in ToSet(table) : key(m) # key(n)
                                        /\ \A m \in Group : key(m) = key(n) => n <= m}
    BY <1>2 DEF NewRows
  <2>2. ASSUME NEW n \in Group, \A m \in ToSet(table) : key(m) # key(n)
        PROVE  \E m \in NewRows(table) : key(m) = key(n)
    <3> DEFINE S == {m \in Group : key(m) = key(n)}
    <3>1. S \in SUBSET Nat /\ S # {}
      BY <1>1
    <3>2. PICK m \in S : \A k \in S : m <= k
      BY <3>1, Least
    <3>3. m \in NewRows(table)
      BY <2>1, <2>2, <3>2
    <3>4. QED
      BY <3>3
  <2>3. ASSUME NEW n \in NewRows(table), NEW m \in NewRows(table), key(n) = key(m)
        PROVE  n = m
    <3>1. n \in Nat /\ m \in Nat
      BY <1>1, <2>1
    <3>2. n <= m /\ m <= n
      BY <2>1, <2>3
    <3>3. QED
      BY <3>1, <3>2
  <2>4. QED
    BY <2>1, <2>2, <2>3
<1>3. CASE source.batches # "topic"
  BY <1>3 DEF NewRows
<1>4. QED
  BY <1>2, <1>3

(* What an insertion does to the tables.                                   *)
LEMMA InsertFacts ==
  ASSUME IInv, todo # <<>>, InsertGroup, UNCHANGED source
  PROVE  \E t \in Topics, new \in Seq(Chunks) :
           /\ t = topic(Head(todo))
           /\ ToSet(new) = NewRows(rows[t]) /\ Increasing(new)
           /\ rows' = [rows EXCEPT ![t] = rows[t] \o new]
<1> DEFINE t == topic(Head(todo))
<1>1. TypeOK /\ CallOK
  BY DEF IInv, EveryChunkAccounted
<1>2. t \in Topics
  BY <1>1, GroupFacts, LogTyped
<1>3. PICK new \in Filtered(todo, NewRows(rows[t])) : rows' = [rows EXCEPT ![t] = rows[t] \o new]
  BY DEF InsertGroup, Insert
<1>4. rows[t] \in Seq(Chunks) /\ todo \in Seq(Nat) /\ Increasing(todo)
  <2>1. todo \in Seq(Chunks) /\ Chunks \in SUBSET Nat /\ rows \in [Topics -> Seq(Chunks)]
    BY <1>1, LogTyped DEF TypeOK
  <2>2. todo \in Seq(Nat)
    BY <2>1, SeqWider
  <2>3. rows[t] \in Seq(Chunks)
    BY <1>2, <2>1
  <2>4. QED
    BY <1>1, <2>2, <2>3 DEF CallOK
<1>5. NewRows(rows[t]) \in SUBSET ToSet(todo) /\ ToSet(todo) \subseteq Chunks
  BY <1>1, <1>4, NewRowsFacts, GroupFacts
<1>6. new \in Seq(NewRows(rows[t])) /\ ToSet(new) = NewRows(rows[t]) /\ Increasing(new)
  BY <1>3, <1>4, <1>5, FilteredIs
<1>7. new \in Seq(Chunks)
  BY <1>5, <1>6
<1>8. QED
  BY <1>2, <1>3, <1>6, <1>7

LEMMA InsertKeeps ==
  ASSUME IInv, todo # <<>>, InsertGroup, UNCHANGED <<source, written>>
  PROVE  /\ rows' \in [Topics -> Seq(Chunks)]
         /\ RowsOK'
         /\ \A n \in Chunks : Stored(n) => Stored(n)'
         /\ \A n \in Group : Stored(n)'
         /\ reported = {} =>
              /\ \A u \in Topics : Increasing(rows'[u])
              /\ \A u \in Topics : \A r \in ToSet(rows'[u]), n \in Others \cup ToSet(buffer) :
                   topic(n) = u => r < n
<1>1. /\ TypeOK /\ CallOK /\ RowsOK /\ OrderOK
      /\ 1..written = ToSet(buffer) \cup ToSet(chunks) \cup acked \cup reported
      /\ ToSet(todo) \subseteq ToSet(chunks)
  BY DEF IInv, EveryChunkAccounted, CallOK
<1>2. PICK t \in Topics, new \in Seq(Chunks) :
        /\ t = topic(Head(todo))
        /\ ToSet(new) = NewRows(rows[t]) /\ Increasing(new)
        /\ rows' = [rows EXCEPT ![t] = rows[t] \o new]
  BY InsertFacts
<1> DEFINE old == rows[t]
<1>3. /\ \A u \in Topics : rows[u] \in Seq(Chunks)
      /\ old \in Seq(Chunks) /\ Chunks \in SUBSET Nat
      /\ rows'[t] = old \o new /\ \A u \in Topics \ {t} : rows'[u] = rows[u]
      /\ rows' = [u \in Topics |-> rows'[u]]
  BY <1>1, <1>2, LogTyped DEF TypeOK
<1> HIDE DEF old
<1>4. /\ rows'[t] \in Seq(Chunks)
      /\ ToSet(rows'[t]) = ToSet(old) \cup NewRows(old)
  <2>1. old \o new \in Seq(Chunks) /\ ToSet(old \o new) = ToSet(old) \cup ToSet(new)
    BY <1>3, ConcatFacts, SetOfConcat
  <2>2. ToSet(new) = NewRows(old)
    BY <1>2 DEF old
  <2>3. QED
    BY <1>3, <2>1, <2>2
<1>5. /\ NewRows(old) \subseteq Group
      /\ \A n \in Group : \E m \in ToSet(old) \cup NewRows(old) : key(m) = key(n)
      /\ source.batches = "topic" =>
           /\ \A n, m \in NewRows(old) : key(n) = key(m) => n = m
           /\ \A n \in NewRows(old), m \in ToSet(old) : key(m) # key(n)
      /\ Group \subseteq ToSet(todo) /\ ToSet(todo) \subseteq Chunks
      /\ \A n \in Group : topic(n) = t
      /\ \A n \in Group, m \in Others : topic(n) = topic(m) => n < m
  BY <1>1, <1>2, <1>3, NewRowsFacts, GroupFacts DEF old
<1>6. /\ \A n : topic(n)' = topic(n) /\ key(n)' = key(n)
      /\ source' = source /\ written' = written
  BY DEF topic, key, Log
<1>7. \A i \in DOMAIN rows'[t] :
         \/ i \in DOMAIN old /\ rows'[t][i] = old[i]
         \/ \E j \in DOMAIN new : i = Len(old) + j /\ rows'[t][i] = new[j]
  <2>1. \A i \in DOMAIN (old \o new) :
          \/ i \in DOMAIN old /\ (old \o new)[i] = old[i]
          \/ \E j \in DOMAIN new : i = Len(old) + j /\ (old \o new)[i] = new[j]
    BY <1>3, ConcatAt
  <2>2. QED
    BY <1>3, <2>1
<1>8. rows' \in [Topics -> Seq(Chunks)]
  BY <1>3, <1>4
<1>9. \A n : Stored(n)' <=> \E m \in ToSet(rows'[topic(n)]) : key(m) = key(n)
  BY <1>6 DEF Stored
<1>10. ASSUME NEW n \in Chunks, Stored(n)
       PROVE  Stored(n)'
  <2>1. topic(n) \in Topics
    BY <1>1, LogTyped
  <2>2. PICK m \in ToSet(rows[topic(n)]) : key(m) = key(n)
    BY <1>10 DEF Stored
  <2>3. m \in ToSet(rows'[topic(n)])
    BY <1>3, <1>4, <2>1, <2>2 DEF old
  <2>4. QED
    BY <1>9, <2>2, <2>3
<1>11. ASSUME NEW n \in Group
       PROVE  Stored(n)'
  <2>1. topic(n) = t
    BY <1>5
  <2>2. QED
    BY <1>4, <1>5, <1>9, <2>1
<1>12. ASSUME NEW u \in Topics, NEW i \in DOMAIN rows'[u]
       PROVE  rows'[u][i] \in 1..written /\ topic(rows'[u][i]) = u
  <2>1. CASE u # t
    <3>1. i \in DOMAIN rows[u] /\ rows'[u][i] = rows[u][i]
      BY <1>3, <1>12, <2>1
    <3>2. QED
      BY <1>1, <3>1 DEF RowsOK
  <2>2. CASE u = t
    <3>1. CASE i \in DOMAIN old /\ rows'[t][i] = old[i]
      BY <1>1, <2>2, <3>1 DEF RowsOK, old
    <3>2. ASSUME NEW j \in DOMAIN new, rows'[t][i] = new[j]
          PROVE  rows'[u][i] \in 1..written /\ topic(rows'[u][i]) = u
      <4>1. new[j] \in Group
        BY <1>2, <1>5 DEF ToSet, old
      <4>2. new[j] \in 1..written /\ topic(new[j]) = t
        BY <1>1, <1>5, <4>1
      <4>3. QED
        BY <2>2, <3>2, <4>2
    <3>3. QED
      BY <1>7, <1>12, <2>2, <3>1, <3>2
  <2>3. QED
    BY <2>1, <2>2
<1>13. ASSUME source.batches = "topic", NEW u \in Topics,
              NEW i \in DOMAIN rows'[u], NEW j \in DOMAIN rows'[u],
              key(rows'[u][i]) = key(rows'[u][j])
       PROVE  i = j
  <2>1. CASE u # t
    <3>1. rows'[u] = rows[u]
      BY <1>3, <2>1
    <3>2. QED
      BY <1>1, <1>13, <3>1 DEF RowsOK
  <2>2. CASE u = t
    <3>1. CASE i \in DOMAIN old /\ rows'[t][i] = old[i] /\ j \in DOMAIN old /\ rows'[t][j] = old[j]
      BY <1>1, <1>13, <2>2, <3>1 DEF RowsOK, old
    <3>2. ASSUME NEW k \in DOMAIN old, NEW l \in DOMAIN new, key(old[k]) = key(new[l])
          PROVE  FALSE
      <4>1. old[k] \in ToSet(old) /\ new[l] \in NewRows(old)
        BY <1>2 DEF ToSet, old
      <4>2. QED
        BY <1>5, <1>13, <3>2, <4>1
    <3>3. ASSUME NEW k \in DOMAIN new, NEW l \in DOMAIN new, key(new[k]) = key(new[l])
          PROVE  k = l
      <4>1. new[k] \in NewRows(old) /\ new[l] \in NewRows(old)
        BY <1>2 DEF ToSet, old
      <4>2. new[k] = new[l]
        BY <1>5, <1>13, <3>3, <4>1
      <4>3. new \in Seq(Nat)
        BY <1>3, SeqWider
      <4>4. QED
        BY <1>2, <4>2, <4>3, IncreasingOnce
    <3>4. QED
      BY <1>7, <1>13, <2>2, <3>1, <3>2, <3>3
  <2>3. QED
    BY <2>1, <2>2
<1>14. RowsOK'
  BY <1>6, <1>12, <1>13 DEF RowsOK
<1>15. ASSUME reported = {}, NEW u \in Topics
       PROVE  /\ Increasing(rows'[u])
              /\ \A r \in ToSet(rows'[u]), n \in Others \cup ToSet(buffer) :
                   topic(n) = u => r < n
  <2>1. /\ \A n \in ToSet(chunks), m \in ToSet(buffer) : n < m
        /\ Increasing(rows[u])
        /\ \A r \in ToSet(rows[u]), n \in ToSet(todo) \cup ToSet(buffer) : topic(n) = u => r < n
    BY <1>1, <1>15 DEF OrderOK
  <2>2. Others \subseteq ToSet(todo)
    BY DEF Others
  <2>3. CASE u # t
    <3>1. rows'[u] = rows[u]
      BY <1>3, <2>3
    <3>2. QED
      BY <2>1, <2>2, <3>1
  <2>4. CASE u = t
    <3>1. Increasing(old \o new)
      <4>1. old \in Seq(Nat) /\ new \in Seq(Nat)
        BY <1>3, SeqWider DEF old
      <4>2. \A r \in ToSet(old), n \in ToSet(new) : r < n
        BY <1>2, <1>5, <2>1, <2>4 DEF old
      <4>3. QED
        BY <1>2, <2>1, <2>4, <4>1, <4>2, IncreasingConcat DEF old
    <3>2. ASSUME NEW r \in NewRows(old), NEW n \in Others \cup ToSet(buffer), topic(n) = t
          PROVE  r < n
      BY <1>1, <1>5, <2>1, <3>2
    <3>3. ASSUME NEW r \in ToSet(old), NEW n \in Others \cup ToSet(buffer), topic(n) = t
          PROVE  r < n
      BY <2>1, <2>2, <2>4, <3>3 DEF old
    <3>4. QED
      BY <1>3, <1>4, <2>4, <3>1, <3>2, <3>3
  <2>5. QED
    BY <2>3, <2>4
<1>16. QED
  BY <1>8, <1>10, <1>11, <1>14, <1>15

(* The tables stay right when nothing is inserted.                         *)
LEMMA RowsUntouched ==
  ASSUME IInv, UNCHANGED <<source, rows>>, written' \in Nat, written <= written'
  PROVE  /\ rows' \in [Topics -> Seq(Chunks)]
         /\ RowsOK'
         /\ \A n \in Chunks : Stored(n) => Stored(n)'
<1>1. \A n : topic(n)' = topic(n) /\ key(n)' = key(n)
  BY DEF topic, key, Log
<1>2. /\ rows' = rows /\ source' = source /\ rows \in [Topics -> Seq(Chunks)]
      /\ written \in Nat /\ RowsOK
  BY DEF IInv, EveryChunkAccounted, TypeOK
<1>3. RowsOK'
  BY <1>1, <1>2 DEF RowsOK
<1>4. QED
  BY <1>1, <1>2, <1>3 DEF Stored

-----------------------------------------------------------------------------
(* The steps of the pipe and the callbacks.                                *)
LEMMA StreamTypes ==
  ASSUME IInv
  PROVE  /\ Len(Log) \in Nat /\ Chunks = 1..Len(Log) /\ Chunks \in SUBSET Nat
         /\ written \in Nat /\ written <= Len(Log)
         /\ buffer \in Seq(Chunks) /\ chunks \in Seq(Chunks) /\ todo \in Seq(Chunks)
         /\ buffer \in Seq(Nat) /\ chunks \in Seq(Nat) /\ todo \in Seq(Nat)
         /\ ToSet(buffer) \subseteq Chunks /\ ToSet(chunks) \subseteq Chunks
         /\ acked \subseteq Chunks /\ reported \subseteq Chunks
         /\ IsFiniteSet(acked) /\ IsFiniteSet(reported)
         /\ Cardinality(acked) \in Nat /\ Cardinality(reported) \in Nat
         /\ Len(buffer) \in Nat /\ Len(chunks) \in Nat
<1>1. TypeOK
  BY DEF IInv, EveryChunkAccounted
<1>2. Len(Log) \in Nat /\ Chunks = 1..Len(Log) /\ Chunks \in SUBSET Nat
  <2>1. Log \in Seq([topic : Topics, key : Keys]) /\ Chunks \in SUBSET Nat
    BY <1>1, LogTyped
  <2>2. QED
    BY <2>1, SetOfSeq DEF Chunks
<1>3. /\ buffer \in Seq(Chunks) /\ chunks \in Seq(Chunks) /\ todo \in Seq(Chunks)
      /\ written \in 0..Len(Log)
      /\ acked \subseteq Chunks /\ reported \subseteq Chunks
  BY <1>1 DEF TypeOK
<1>4. IsFiniteSet(Chunks)
  BY <1>2, FS_Interval
<1>5. /\ IsFiniteSet(acked) /\ IsFiniteSet(reported)
      /\ Cardinality(acked) \in Nat /\ Cardinality(reported) \in Nat
  BY <1>3, <1>4, FS_Subset, FS_CardinalityType
<1>6. buffer \in Seq(Nat) /\ chunks \in Seq(Nat) /\ todo \in Seq(Nat)
  BY <1>2, <1>3, SeqWider
<1>7. QED
  BY <1>2, <1>3, <1>5, <1>6, SetOfSeq, SMTT(30)

LEMMA WriteKeeps ==
  ASSUME IInv, Write
  PROVE  IInv'
<1> DEFINE n == written + 1
<1>1. /\ piped /\ ~paused /\ written < Len(Log) /\ written' = n
      /\ paused' = (Len(chunks') + Len(buffer') >= HighWaterMark)
      /\ UNCHANGED <<source, piped, rows, acked, reported>>
      /\ Log' = Log /\ Chunks' = Chunks
  BY DEF Write, Log, Chunks
<1>2. \/ /\ chunks = <<>> /\ chunks' = <<n>> /\ todo' = <<n>> /\ buffer' = buffer
      \/ /\ chunks # <<>> /\ chunks' = chunks /\ todo' = todo /\ buffer' = Append(buffer, n)
  BY DEF Write, Call
<1>3. /\ EveryChunkAccounted /\ TypeOK /\ CallOK /\ Apart /\ StoredOK /\ RowsOK /\ OrderOK
      /\ 1..written = ToSet(buffer) \cup ToSet(chunks) \cup acked \cup reported
      /\ written = Len(buffer) + Len(chunks) + Cardinality(acked) + Cardinality(reported)
  BY DEF IInv, EveryChunkAccounted
<1>4. /\ n \in Chunks /\ n \in Nat /\ n \notin 1..written /\ 1..n = 1..written \cup {n}
      /\ n \in 0..Len(Log) /\ \A m \in 1..written : m < n
  BY <1>1, StreamTypes
<1> HIDE DEF n
<1>5. n \notin ToSet(buffer) \cup ToSet(chunks) \cup acked \cup reported
  BY <1>3, <1>4
<1>6. /\ rows' \in [Topics -> Seq(Chunks)] /\ RowsOK'
      /\ \A k \in Chunks : Stored(k) => Stored(k)'
  BY <1>1, <1>4, StreamTypes, RowsUntouched DEF n
<1>7. \/ /\ chunks = <<>> /\ ToSet(chunks) = {} /\ Len(chunks) = 0 /\ ToSet(todo) = {}
         /\ chunks' \in Seq(Chunks) /\ todo' \in Seq(Chunks) /\ buffer' \in Seq(Chunks)
         /\ chunks' # <<>> /\ todo' # <<>> /\ buffer' = buffer
         /\ ToSet(chunks') = {n} /\ ToSet(todo') = {n}
         /\ Len(chunks') = 1 /\ Increasing(chunks') /\ Increasing(todo')
      \/ /\ chunks # <<>> /\ chunks' = chunks /\ todo' = todo
         /\ buffer' \in Seq(Chunks) /\ ToSet(buffer') = ToSet(buffer) \cup {n}
         /\ Len(buffer') = Len(buffer) + 1 /\ Increasing(buffer')
  <2>1. CASE chunks = <<>>
    <3>1. chunks' = <<n>> /\ todo' = <<n>> /\ buffer' = buffer /\ todo = <<>>
      BY <1>2, <1>3, <2>1 DEF CallOK
    <3>2. /\ <<n>> \in Seq(Chunks) /\ ToSet(<<n>>) = {n} /\ Len(<<n>>) = 1
          /\ <<n>> # <<>> /\ Increasing(<<n>>)
      BY <1>4, SetOfOne, Zenon
    <3>3. QED
      BY <2>1, <3>1, <3>2, StreamTypes, SetOfEmpty
  <2>2. CASE chunks # <<>>
    <3>1. chunks' = chunks /\ todo' = todo /\ buffer' = Append(buffer, n)
      BY <1>2, <2>2
    <3>2. /\ Append(buffer, n) \in Seq(Chunks) /\ ToSet(Append(buffer, n)) = ToSet(buffer) \cup {n}
          /\ Len(Append(buffer, n)) = Len(buffer) + 1
      BY <1>4, StreamTypes, SetOfAppend, ZenonT(30)
    <3>3. \A m \in ToSet(buffer) : m < n
      BY <1>3, <1>4
    <3>4. Increasing(Append(buffer, n))
      BY <1>3, <1>4, <3>3, StreamTypes, IncreasingAppend DEF CallOK
    <3>5. QED
      BY <2>2, <3>1, <3>2, <3>4
  <2>3. QED
    BY <2>1, <2>2
<1>8. EveryChunkAccounted'
  <2>1. buffer' \in Seq(Chunks) /\ chunks' \in Seq(Chunks) /\ todo' \in Seq(Chunks)
    BY <1>7, StreamTypes
  <2>2. paused' \in BOOLEAN
    BY <1>1
  <2>3. TypeOK'
    BY <1>1, <1>3, <1>4, <1>6, <2>1, <2>2 DEF TypeOK
  <2>4. 1..n = ToSet(buffer') \cup ToSet(chunks') \cup acked \cup reported
    BY <1>3, <1>4, <1>7
  <2>5. n = Len(buffer') + Len(chunks') + Cardinality(acked) + Cardinality(reported)
    <3> DEFINE b == Len(buffer)
               c == Len(chunks)
               bn == Len(buffer')
               cn == Len(chunks')
               ac == Cardinality(acked)
               re == Cardinality(reported)
    <3>1. b \in Nat /\ c \in Nat /\ ac \in Nat /\ re \in Nat
      BY StreamTypes
    <3>2. (c = 0 /\ cn = 1 /\ bn = b) \/ (cn = c /\ bn = b + 1)
      BY <1>7
    <3>3. n = b + c + ac + re + 1
      BY <1>3 DEF n
    <3> HIDE DEF b, c, bn, cn, ac, re
    <3>4. n = bn + cn + ac + re
      BY <3>1, <3>2, <3>3
    <3>5. QED
      BY <3>4 DEF bn, cn, ac, re, b, c
  <2>6. QED
    BY <1>1, <2>3, <2>4, <2>5 DEF EveryChunkAccounted
<1>9. CallOK'
  BY <1>3, <1>7 DEF CallOK
<1>10. Apart'
  BY <1>1, <1>3, <1>5, <1>7 DEF Apart
<1>11. StoredOK'
  <2>1. acked' \cup (ToSet(chunks') \ ToSet(todo')) \subseteq acked \cup (ToSet(chunks) \ ToSet(todo))
    BY <1>1, <1>7
  <2>2. \A k \in acked \cup (ToSet(chunks) \ ToSet(todo)) : k \in Chunks /\ Stored(k)
    BY <1>3, StreamTypes DEF StoredOK
  <2>3. QED
    BY <1>6, <2>1, <2>2 DEF StoredOK
<1>12. OrderOK'
  <2>1. SUFFICES ASSUME reported = {} PROVE OrderOK'
    BY <1>1 DEF OrderOK
  <2>2. /\ chunks = <<>> => buffer = <<>>
        /\ \A k \in ToSet(chunks), m \in ToSet(buffer) : k < m
        /\ \A t \in Topics : Increasing(rows[t])
        /\ \A t \in Topics : \A r \in ToSet(rows[t]), k \in ToSet(todo) \cup ToSet(buffer) :
             topic(k) = t => r < k
    BY <1>3, <2>1 DEF OrderOK
  <2>3. chunks' # <<>>
    BY <1>7
  <2>4. \A k \in ToSet(chunks'), m \in ToSet(buffer') : k < m
    <3>1. chunks = <<>> => ToSet(buffer') = {}
      BY <1>7, <2>2, SetOfEmpty
    <3>2. QED
      BY <1>3, <1>4, <1>7, <2>2, <3>1
  <2>5. ToSet(todo') \cup ToSet(buffer') = ToSet(todo) \cup ToSet(buffer) \cup {n}
    BY <1>7
  <2>6. \A t \in Topics : \A r \in ToSet(rows[t]) : r < n
    BY <1>3, <1>4 DEF RowsOK, ToSet
  <2>7. \A t \in Topics : \A r \in ToSet(rows[t]), k \in ToSet(todo') \cup ToSet(buffer') :
          topic(k) = t => r < k
    BY <2>2, <2>5, <2>6
  <2>8. \A k : topic(k)' = topic(k)
    BY <1>1 DEF topic
  <2>9. QED
    BY <1>1, <2>2, <2>3, <2>4, <2>7, <2>8 DEF OrderOK
<1>13. QED
  BY <1>6, <1>8, <1>9, <1>10, <1>11, <1>12 DEF IInv

LEMMA CountUnion ==
  ASSUME NEW S, NEW T, IsFiniteSet(S), IsFiniteSet(T), S \cap T = {}
  PROVE  Cardinality(S \cup T) = Cardinality(S) + Cardinality(T)
<1>1. /\ Cardinality(S) \in Nat /\ Cardinality(T) \in Nat
      /\ Cardinality(S \cup T) = Cardinality(S) + Cardinality(T) - Cardinality(S \cap T)
  BY FS_Union, FS_CardinalityType
<1>2. Cardinality(S \cap T) = 0
  BY FS_EmptySet
<1>3. QED
  BY <1>1, <1>2

LEMMA AckKeeps ==
  ASSUME IInv, todo # <<>>, InsertGroup, Others = {}, Ack, UNCHANGED source
  PROVE  IInv'
<1>1. /\ acked' = acked \cup ToSet(chunks)
      /\ chunks' = buffer /\ todo' = buffer /\ buffer' = <<>>
      /\ paused' = (paused /\ buffer # <<>>)
      /\ written' = written /\ piped' = piped /\ reported' = reported /\ source' = source
      /\ Log' = Log /\ Chunks' = Chunks
  BY DEF Ack, Call, Log, Chunks
<1>2. /\ EveryChunkAccounted /\ TypeOK /\ CallOK /\ Apart /\ StoredOK /\ RowsOK /\ OrderOK
      /\ 1..written = ToSet(buffer) \cup ToSet(chunks) \cup acked \cup reported
      /\ written = Len(buffer) + Len(chunks) + Cardinality(acked) + Cardinality(reported)
  BY DEF IInv, EveryChunkAccounted
<1>3. /\ rows' \in [Topics -> Seq(Chunks)]
      /\ RowsOK'
      /\ \A n \in Chunks : Stored(n) => Stored(n)'
      /\ \A n \in Group : Stored(n)'
      /\ reported = {} =>
           /\ \A u \in Topics : Increasing(rows'[u])
           /\ \A u \in Topics : \A r \in ToSet(rows'[u]), n \in Others \cup ToSet(buffer) :
                topic(n) = u => r < n
  BY <1>1, InsertKeeps
<1>4. <<>> \in Seq(Chunks) /\ ToSet(<<>>) = {} /\ Len(<<>>) = 0 /\ Increasing(<<>>)
  BY SetOfEmpty, Zenon
<1>5. EveryChunkAccounted'
  <2>1. TypeOK'
    BY <1>1, <1>2, <1>3, <1>4, StreamTypes DEF TypeOK
  <2>2. 1..written = ToSet(<<>>) \cup ToSet(buffer) \cup (acked \cup ToSet(chunks)) \cup reported
    BY <1>2, <1>4
  <2>3. Cardinality(acked \cup ToSet(chunks)) = Cardinality(acked) + Len(chunks)
    BY <1>2, StreamTypes, IncreasingCount, CountUnion DEF CallOK, Apart
  <2>4. written = Len(<<>>) + Len(buffer) + Cardinality(acked \cup ToSet(chunks)) + Cardinality(reported)
    <3>1. /\ Len(buffer) \in Nat /\ Len(chunks) \in Nat
          /\ Cardinality(acked) \in Nat /\ Cardinality(reported) \in Nat
      BY StreamTypes
    <3>2. QED
      BY <1>2, <1>4, <2>3, <3>1
  <2>5. QED
    BY <1>1, <2>1, <2>2, <2>4 DEF EveryChunkAccounted
<1>6. CallOK'
  BY <1>1, <1>2, <1>4 DEF CallOK
<1>7. Apart'
  BY <1>1, <1>2, <1>4 DEF Apart
<1>8. StoredOK'
  <2>1. acked' \cup (ToSet(chunks') \ ToSet(todo')) \subseteq
          acked \cup (ToSet(chunks) \ ToSet(todo)) \cup Group
    BY <1>1 DEF Others
  <2>2. \A k \in acked \cup (ToSet(chunks) \ ToSet(todo)) : k \in Chunks /\ Stored(k)
    BY <1>2, StreamTypes DEF StoredOK
  <2>3. QED
    BY <1>3, <2>1, <2>2 DEF StoredOK
<1>9. OrderOK'
  <2>1. \A k : topic(k)' = topic(k)
    BY <1>1 DEF topic
  <2>2. \A k \in ToSet(chunks'), m \in ToSet(buffer') : k < m
    BY <1>1, <1>4
  <2>3. ToSet(todo') \cup ToSet(buffer') = ToSet(buffer)
    BY <1>1, <1>4
  <2>4. QED
    BY <1>1, <1>3, <2>1, <2>2, <2>3 DEF OrderOK
<1>10. QED
  BY <1>3, <1>5, <1>6, <1>7, <1>8, <1>9 DEF IInv

(* A group is inserted and others are left.                                *)
LEMMA GroupKeeps ==
  ASSUME IInv, todo # <<>>, InsertGroup, Others # {}, todo' \in Filtered(todo, Others),
         UNCHANGED <<source, written, buffer, chunks, piped, paused, acked, reported>>
  PROVE  IInv'
<1>1. /\ buffer' = buffer /\ chunks' = chunks /\ written' = written /\ piped' = piped
      /\ paused' = paused /\ acked' = acked /\ reported' = reported /\ source' = source
      /\ Log' = Log /\ Chunks' = Chunks
  BY DEF Log, Chunks
<1>2. /\ EveryChunkAccounted /\ TypeOK /\ CallOK /\ Apart /\ StoredOK /\ RowsOK /\ OrderOK
      /\ 1..written = ToSet(buffer) \cup ToSet(chunks) \cup acked \cup reported
      /\ written = Len(buffer) + Len(chunks) + Cardinality(acked) + Cardinality(reported)
  BY DEF IInv, EveryChunkAccounted
<1>3. /\ rows' \in [Topics -> Seq(Chunks)]
      /\ RowsOK'
      /\ \A n \in Chunks : Stored(n) => Stored(n)'
      /\ \A n \in Group : Stored(n)'
      /\ reported = {} =>
           /\ \A u \in Topics : Increasing(rows'[u])
           /\ \A u \in Topics : \A r \in ToSet(rows'[u]), n \in Others \cup ToSet(buffer) :
                topic(n) = u => r < n
  BY <1>1, InsertKeeps
<1>4. todo' \in Seq(Others) /\ ToSet(todo') = Others /\ Increasing(todo')
  <2>1. Others \in SUBSET ToSet(todo)
    BY DEF Others
  <2>2. PICK r \in Filtered(todo, Others) : r = todo'
    OBVIOUS
  <2>3. r \in Seq(Others) /\ ToSet(r) = Others /\ Increasing(r)
    BY <1>2, <2>1, StreamTypes, FilteredIs DEF CallOK
  <2>4. QED
    BY <2>2, <2>3
<1>5. todo' \in Seq(Chunks) /\ todo' # <<>> /\ chunks # <<>> /\ ToSet(todo') \subseteq ToSet(chunks)
  <2>1. Others \in SUBSET Chunks /\ Others \subseteq ToSet(chunks)
    BY <1>2, StreamTypes DEF Others, CallOK
  <2>2. todo' \in Seq(Chunks)
    BY <1>4, <2>1, SeqWider
  <2>3. todo' # <<>>
    BY <1>4, SetOfEmpty
  <2>4. QED
    BY <1>2, <1>4, <2>1, <2>2, <2>3 DEF CallOK
<1>6. EveryChunkAccounted'
  <2>1. TypeOK'
    BY <1>1, <1>2, <1>3, <1>5 DEF TypeOK
  <2>2. QED
    BY <1>1, <1>2, <2>1 DEF EveryChunkAccounted
<1>7. CallOK'
  BY <1>1, <1>2, <1>4, <1>5 DEF CallOK
<1>8. Apart'
  BY <1>1, <1>2 DEF Apart
<1>9. StoredOK'
  <2>1. acked' \cup (ToSet(chunks') \ ToSet(todo')) \subseteq
          acked \cup (ToSet(chunks) \ ToSet(todo)) \cup Group
    BY <1>1, <1>4 DEF Others
  <2>2. \A k \in acked \cup (ToSet(chunks) \ ToSet(todo)) : k \in Chunks /\ Stored(k)
    BY <1>2, StreamTypes DEF StoredOK
  <2>3. QED
    BY <1>3, <2>1, <2>2 DEF StoredOK
<1>10. OrderOK'
  <2>1. \A k : topic(k)' = topic(k)
    BY <1>1 DEF topic
  <2>2. QED
    BY <1>1, <1>2, <1>3, <1>4, <2>1 DEF OrderOK
<1>11. QED
  BY <1>3, <1>6, <1>7, <1>8, <1>9, <1>10 DEF IInv

(* A call ends with an error, whether its query was committed or not.      *)
LEMMA ReportKeeps ==
  ASSUME IInv, todo # <<>>, InsertGroup \/ UNCHANGED rows, Report, UNCHANGED source
  PROVE  IInv'
<1>1. /\ reported' = reported \cup ToSet(chunks)
      /\ chunks' = <<>> /\ todo' = <<>> /\ piped' = FALSE
      /\ buffer' = buffer /\ written' = written /\ paused' = paused /\ acked' = acked
      /\ source' = source /\ Log' = Log /\ Chunks' = Chunks
  BY DEF Report, Call, Log, Chunks
<1>2. /\ EveryChunkAccounted /\ TypeOK /\ CallOK /\ Apart /\ StoredOK /\ RowsOK /\ OrderOK
      /\ 1..written = ToSet(buffer) \cup ToSet(chunks) \cup acked \cup reported
      /\ written = Len(buffer) + Len(chunks) + Cardinality(acked) + Cardinality(reported)
  BY DEF IInv, EveryChunkAccounted
<1>3. /\ rows' \in [Topics -> Seq(Chunks)]
      /\ RowsOK'
      /\ \A n \in Chunks : Stored(n) => Stored(n)'
  <2>1. CASE InsertGroup
    BY <1>1, <2>1, InsertKeeps
  <2>2. CASE UNCHANGED rows
    <3>1. written' \in Nat /\ written <= written'
      BY <1>1, StreamTypes
    <3>2. QED
      BY <1>1, <2>2, <3>1, RowsUntouched
  <2>3. QED
    BY <2>1, <2>2
<1>4. <<>> \in Seq(Chunks) /\ ToSet(<<>>) = {} /\ Len(<<>>) = 0 /\ Increasing(<<>>)
  BY SetOfEmpty, Zenon
<1>5. ToSet(chunks) # {}
  BY <1>2, StreamTypes, SetOfSeq DEF CallOK
<1>6. EveryChunkAccounted'
  <2>1. TypeOK'
    BY <1>1, <1>2, <1>3, <1>4, StreamTypes DEF TypeOK
  <2>2. 1..written = ToSet(buffer) \cup ToSet(<<>>) \cup acked \cup (reported \cup ToSet(chunks))
    BY <1>2, <1>4
  <2>3. Cardinality(reported \cup ToSet(chunks)) = Cardinality(reported) + Len(chunks)
    <3>1. reported \cap ToSet(chunks) = {}
      BY <1>2 DEF Apart
    <3>2. QED
      BY <1>2, <3>1, StreamTypes, IncreasingCount, CountUnion DEF CallOK
  <2>4. written = Len(buffer) + Len(<<>>) + Cardinality(acked) + Cardinality(reported \cup ToSet(chunks))
    <3>1. /\ Len(buffer) \in Nat /\ Len(chunks) \in Nat
          /\ Cardinality(acked) \in Nat /\ Cardinality(reported) \in Nat
      BY StreamTypes
    <3>2. QED
      BY <1>2, <1>4, <2>3, <3>1
  <2>5. QED
    BY <1>1, <2>1, <2>2, <2>4 DEF EveryChunkAccounted
<1>7. CallOK'
  BY <1>1, <1>2, <1>4 DEF CallOK
<1>8. Apart'
  BY <1>1, <1>2, <1>4 DEF Apart
<1>9. StoredOK'
  <2>1. acked' \cup (ToSet(chunks') \ ToSet(todo')) = acked
    BY <1>1, <1>4
  <2>2. \A k \in acked : k \in Chunks /\ Stored(k)
    BY <1>2, StreamTypes DEF StoredOK
  <2>3. QED
    BY <1>3, <2>1, <2>2 DEF StoredOK
<1>10. OrderOK'
  BY <1>1, <1>5 DEF OrderOK
<1>11. QED
  BY <1>3, <1>6, <1>7, <1>8, <1>9, <1>10 DEF IInv

-----------------------------------------------------------------------------
LEMMA InitInv == Init => IInv
<1> SUFFICES ASSUME Init PROVE IInv
  OBVIOUS
<1>1. /\ source \in Sources /\ written = 0 /\ buffer = <<>> /\ chunks = <<>> /\ todo = <<>>
      /\ piped = TRUE /\ paused = FALSE /\ rows = [t \in Topics |-> <<>>]
      /\ acked = {} /\ reported = {}
  BY DEF Init
<1>2. <<>> \in Seq(Chunks) /\ ToSet(<<>>) = {} /\ Len(<<>>) = 0 /\ Increasing(<<>>)
  BY SetOfEmpty, Zenon
<1>3. \A t \in Topics : rows[t] = <<>> /\ DOMAIN rows[t] = {}
  BY <1>1
<1>4. EveryChunkAccounted
  <2>1. rows \in [Topics -> Seq(Chunks)]
    BY <1>1, <1>2
  <2>2. Len(Log) \in Nat
    <3>1. source \in [batches : {"topic", "row", "all"}, log : Seq([topic : Topics, key : Keys])]
      BY <1>1, SourcesAssumption
    <3>2. Log \in Seq([topic : Topics, key : Keys])
      BY <3>1 DEF Log
    <3>3. QED
      BY <3>2, SetOfSeq
  <2>3. TypeOK
    <3>1. 0 \in 0..Len(Log) /\ {} \subseteq Chunks
      BY <2>2
    <3>2. QED
      BY <1>1, <1>2, <2>1, <3>1, Zenon DEF TypeOK
  <2>4. Cardinality({}) = 0 /\ 1..0 = {}
    BY FS_EmptySet
  <2>5. QED
    BY <1>1, <1>2, <2>3, <2>4 DEF EveryChunkAccounted
<1>5. CallOK /\ Apart
  BY <1>1, <1>2 DEF CallOK, Apart
<1>6. StoredOK /\ RowsOK
  BY <1>1, <1>2, <1>3 DEF StoredOK, RowsOK
<1>7. OrderOK
  BY <1>1, <1>2, <1>3 DEF OrderOK, ToSet, Increasing
<1>8. QED
  BY <1>4, <1>5, <1>6, <1>7 DEF IInv

LEMMA NextInv ==
  ASSUME IInv, [Next]_vars
  PROVE  IInv'
<1>1. CASE Write
  BY <1>1, WriteKeeps
<1>2. CASE QuerySucceeds /\ UNCHANGED source
  <2>1. todo # <<>> /\ InsertGroup
    BY <1>2 DEF QuerySucceeds
  <2>2. CASE Others = {}
    <3>1. Ack
      BY <1>2, <2>2 DEF QuerySucceeds
    <3>2. QED
      BY <1>2, <2>1, <2>2, <3>1, AckKeeps
  <2>3. CASE Others # {}
    <3>1. /\ todo' \in Filtered(todo, Others)
          /\ UNCHANGED <<source, written, buffer, chunks, piped, paused, acked, reported>>
      BY <1>2, <2>3 DEF QuerySucceeds
    <3>2. QED
      BY <2>1, <2>3, <3>1, GroupKeeps
  <2>4. QED
    BY <2>2, <2>3
<1>3. CASE QueryFails /\ UNCHANGED source
  <2>1. todo # <<>> /\ (InsertGroup \/ UNCHANGED rows) /\ Report
    BY <1>3 DEF QueryFails
  <2>2. QED
    BY <1>3, <2>1, ReportKeeps
<1>4. CASE ConfigMissing /\ UNCHANGED source
  <2>1. todo # <<>> /\ UNCHANGED rows /\ Report
    BY <1>4 DEF ConfigMissing
  <2>2. QED
    BY <1>4, <2>1, ReportKeeps
<1>5. CASE Repipe \/ UNCHANGED vars
  <2>1. /\ UNCHANGED <<source, written, buffer, chunks, todo, rows, acked, reported>>
        /\ piped' \in BOOLEAN /\ paused' \in BOOLEAN
    BY <1>5 DEF Repipe, vars, stream, IInv, EveryChunkAccounted, TypeOK
  <2>2. /\ EveryChunkAccounted'
        /\ (CallOK /\ Apart)'
    BY <2>1 DEF IInv, EveryChunkAccounted, TypeOK, CallOK, Apart, Chunks, Log
  <2>3. StoredOK' /\ RowsOK'
    BY <2>1 DEF IInv, StoredOK, RowsOK, Stored, topic, key, Log
  <2>4. OrderOK'
    BY <2>1 DEF IInv, OrderOK, topic, Log
  <2>5. QED
    BY <2>2, <2>3, <2>4 DEF IInv
<1>6. QED
  BY <1>1, <1>2, <1>3, <1>4, <1>5 DEF Next, Sink

(* IInv is an invariant of the sink: the chunks are accounted for, and the *)
(* tables agree with what the sink has acknowledged, reported and not yet  *)
(* inserted.                                                               *)
THEOREM Inductive == Spec => []IInv
<1>1. Init => IInv
  BY InitInv
<1>2. IInv /\ [Next]_vars => IInv'
  BY NextInv
<1>3. QED
  BY <1>1, <1>2, PTL DEF Spec

(* However a batch ends, each of its chunks was acknowledged or reported,  *)
(* once, and those that wait are in the buffer or in the running call.     *)
THEOREM ChunksAccounted == Spec => []EveryChunkAccounted
<1>1. IInv => EveryChunkAccounted
  BY DEF IInv
<1>2. QED
  BY <1>1, Inductive, PTL

(* callback(null) is called only when every chunk has its row, also when a *)
(* message is delivered again and when a failed query was committed.       *)
THEOREM AckedStored == Spec => []AckedIsStored
<1>1. IInv => AckedIsStored
  BY DEF IInv, AckedIsStored, StoredOK, Stored, RowsOK
<1>2. QED
  BY <1>1, Inductive, PTL

(* As long as no call failed, the rows of a table are in the order of the  *)
(* log, whichever groups _writev() makes of its chunks.                    *)
THEOREM InOrder == Spec => []OrderedUntilError
<1>1. IInv => OrderedUntilError
  BY DEF IInv, OrderedUntilError, OrderOK, Increasing
<1>2. QED
  BY <1>1, Inductive, PTL
=============================================================================
