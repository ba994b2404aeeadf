-------------------------- MODULE RePipelineProofs --------------------------
(***************************************************************************)
(* The safety of RePipeline for any number of streams and messages and any *)
(* highWaterMark.                                                          *)
(***************************************************************************)
EXTENDS RePipeline, TLAPS

Lines == [Places -> Seq(1..Messages)]

(* Whether place p is further down the pipeline than q.                    *)
Ahead(p, q) == p[1] > q[1] \/ (p[1] = q[1] /\ p[2] > q[2])

(* A message that may be overtaken: one before it failed.                  *)
Excused(line, n) == \E e \in DOMAIN line[Aside] : line[Aside][e] < n

(* Messages are in the order of the source from the last stream back to    *)
(* the first, but for those that may be overtaken.                         *)
Ordered(line) ==
  \A p, q \in Places \ {Aside} : \A i \in DOMAIN line[p], j \in DOMAIN line[q] :
    (Ahead(p, q) \/ (p = q /\ i < j)) /\ line[p][i] > line[q][j]
      => Excused(line, line[q][j])

(* What waits in a stream that writes nothing was left behind a failure.   *)
LeftBehind == \A s \in Dests : writing[s] = 0 =>
  \A i \in DOMAIN buffer[s] : Excused(Line, buffer[s][i])

(* The pipe into a stream that has no room waits.                          *)
Room == \A s \in Dests :
  Size(s) <= HighWaterMark /\ (~paused[s] => Size(s) < HighWaterMark)

(* A pipelinePromise() in which a message failed is over.                  *)
OutcomeOK ==
  /\ ~Repipes /\ outcome \in {"running", "finish"} => errors = <<>>
  /\ outcome = "finish" => \A n \in 1..Messages : n \in ToSet(out) \cup ToSet(errors)

IInv ==
  /\ TypeOK
  /\ Once(Line)
  /\ Ordered(Line)
  /\ LeftBehind
  /\ Room
  /\ OutcomeOK

-----------------------------------------------------------------------------
(* Messages move: the first one at a becomes the last one at b.            *)
Moved(L, a, b) == [p \in Places |->
  IF p = a THEN Tail(L[a]) ELSE IF p = b THEN Append(L[b], Head(L[a])) ELSE L[p]]

(* Message i at p is the one that was j-th at q before.                    *)
Was(L, a, b, p, i, q, j) ==
  \/ p = a /\ q = a /\ j = i + 1
  \/ p = b /\ p # a /\ i = Len(L[b]) + 1 /\ q = a /\ j = 1
  \/ p # a /\ ~(p = b /\ i = Len(L[b]) + 1) /\ q = p /\ j = i

LEMMA SeqFacts ==
  ASSUME NEW A, NEW s \in Seq(A)
  PROVE  Len(s) \in Nat /\ DOMAIN s = 1..Len(s) /\ \A i \in DOMAIN s : s[i] \in A
OBVIOUS

LEMMA TailFacts ==
  ASSUME NEW A, NEW s \in Seq(A), s # <<>>
  PROVE  /\ Head(s) = s[1] /\ s[1] \in A /\ 1 \in DOMAIN s
         /\ Tail(s) \in Seq(A) /\ DOMAIN Tail(s) = 1..(Len(s) - 1)
         /\ Len(Tail(s)) = Len(s) - 1
         /\ \A i \in 1..(Len(s) - 1) : Tail(s)[i] = s[i + 1]
OBVIOUS

LEMMA AppendFacts ==
  ASSUME NEW A, NEW s \in Seq(A), NEW x \in A
  PROVE  /\ Append(s, x) \in Seq(A) /\ DOMAIN Append(s, x) = 1..(Len(s) + 1)
         /\ Len(Append(s, x)) = Len(s) + 1
         /\ \A i \in 1..Len(s) : Append(s, x)[i] = s[i]
         /\ Append(s, x)[Len(s) + 1] = x
OBVIOUS

LEMMA MovedFrom ==
  ASSUME NEW L \in Lines, NEW a \in Places, NEW b \in Places, a # b, L[a] # <<>>
  PROVE  /\ Moved(L, a, b) \in Lines
         /\ \A p \in Places : \A i \in DOMAIN Moved(L, a, b)[p] :
              \E q \in Places : \E j \in DOMAIN L[q] :
                Was(L, a, b, p, i, q, j) /\ Moved(L, a, b)[p][i] = L[q][j]
         /\ \A q \in Places : \A j \in DOMAIN L[q] :
              \E p \in Places : \E i \in DOMAIN Moved(L, a, b)[p] :
                Was(L, a, b, p, i, q, j) /\ Moved(L, a, b)[p][i] = L[q][j]
<1> DEFINE M == Moved(L, a, b)
           A == 1..Messages
<1>1. \A p \in Places : L[p] \in Seq(A)
  BY DEF Lines
<1>2. /\ M = [p \in Places |-> M[p]] /\ M[a] = Tail(L[a])
      /\ M[b] = Append(L[b], Head(L[a]))
      /\ \A p \in Places \ {a, b} : M[p] = L[p]
  BY DEF Moved
<1> HIDE DEF M, A
<1>3. /\ L[a] \in Seq(A) /\ Len(L[a]) \in Nat /\ DOMAIN L[a] = 1..Len(L[a])
      /\ L[a][1] \in A /\ 1 \in DOMAIN L[a]
      /\ M[a] \in Seq(A) /\ DOMAIN M[a] = 1..(Len(L[a]) - 1)
      /\ \A i \in 1..(Len(L[a]) - 1) : M[a][i] = L[a][i + 1]
  <2>1. PICK s \in Seq(A) : s = L[a] /\ s # <<>> /\ M[a] = Tail(s)
    BY <1>1, <1>2
  <2>2. /\ Len(s) \in Nat /\ DOMAIN s = 1..Len(s) /\ s[1] \in A /\ 1 \in DOMAIN s
        /\ Tail(s) \in Seq(A) /\ DOMAIN Tail(s) = 1..(Len(s) - 1)
        /\ \A i \in 1..(Len(s) - 1) : Tail(s)[i] = s[i + 1]
    BY <2>1, SeqFacts, TailFacts
  <2>3. QED
    BY <2>1, <2>2
<1>4. /\ L[b] \in Seq(A) /\ Len(L[b]) \in Nat /\ DOMAIN L[b] = 1..Len(L[b])
      /\ M[b] \in Seq(A) /\ DOMAIN M[b] = 1..(Len(L[b]) + 1)
      /\ \A i \in 1..Len(L[b]) : M[b][i] = L[b][i]
      /\ M[b][Len(L[b]) + 1] = L[a][1]
  <2>1. PICK s \in Seq(A), x \in A : s = L[b] /\ x = L[a][1] /\ M[b] = Append(s, x)
    BY <1>1, <1>2, <1>3, TailFacts
  <2>2. /\ Len(s) \in Nat /\ DOMAIN s = 1..Len(s)
        /\ Append(s, x) \in Seq(A) /\ DOMAIN Append(s, x) = 1..(Len(s) + 1)
        /\ \A i \in 1..Len(s) : Append(s, x)[i] = s[i]
        /\ Append(s, x)[Len(s) + 1] = x
    BY <2>1, SeqFacts, AppendFacts
  <2>3. QED
    BY <2>1, <2>2
<1>5. M \in Lines
  <2>1. \A p \in Places : M[p] \in Seq(A)
    BY <1>1, <1>2, <1>3, <1>4
  <2>2. QED
    BY <1>2, <2>1 DEF Lines, A
<1>6. ASSUME NEW p \in Places, NEW i \in DOMAIN M[p]
      PROVE  \E q \in Places : \E j \in DOMAIN L[q] :
               Was(L, a, b, p, i, q, j) /\ M[p][i] = L[q][j]
  <2>1. CASE p = a
    <3>1. i + 1 \in DOMAIN L[a] /\ M[p][i] = L[a][i + 1]
      BY <1>3, <1>6, <2>1
    <3>2. QED
      BY <2>1, <3>1 DEF Was
  <2>2. CASE p = b
    <3>1. CASE i = Len(L[b]) + 1
      BY <1>3, <1>4, <2>2, <3>1 DEF Was
    <3>2. CASE i # Len(L[b]) + 1
      <4>1. i \in DOMAIN L[b] /\ M[b][i] = L[b][i]
        BY <1>4, <1>6, <2>2, <3>2, SMTT(30)
      <4>2. QED
        BY <2>2, <3>2, <4>1 DEF Was
    <3>3. QED
      BY <3>1, <3>2
  <2>3. CASE p \notin {a, b}
    BY <1>2, <1>6, <2>3 DEF Was
  <2>4. QED
    BY <2>1, <2>2, <2>3
<1>7. ASSUME NEW q \in Places, NEW j \in DOMAIN L[q]
      PROVE  \E p \in Places : \E i \in DOMAIN M[p] :
               Was(L, a, b, p, i, q, j) /\ M[p][i] = L[q][j]
  <2>1. CASE q = a /\ j = 1
    <3>1. Len(L[b]) + 1 \in DOMAIN M[b]
      BY <1>4
    <3>2. QED
      BY <1>4, <2>1, <3>1 DEF Was
  <2>2. CASE q = a /\ j # 1
    <3>1. j - 1 \in DOMAIN M[a] /\ M[a][j - 1] = L[a][j] /\ j = (j - 1) + 1
      <4> DEFINE n == Len(L[a])
      <4>1. n \in Nat /\ j \in 1..n /\ j # 1
        BY <1>3, <1>7, <2>2
      <4>2. \A i \in 1..(n - 1) : M[a][i] = L[a][i + 1]
        BY <1>3
      <4>3. DOMAIN M[a] = 1..(n - 1)
        BY <1>3
      <4> HIDE DEF n
      <4>4. j - 1 \in 1..(n - 1) /\ j = (j - 1) + 1
        BY <4>1
      <4>5. QED
        BY <4>2, <4>3, <4>4
    <3>2. QED
      BY <2>2, <3>1 DEF Was
  <2>3. CASE q = b
    <3>1. j \in DOMAIN M[b] /\ M[b][j] = L[b][j] /\ j # Len(L[b]) + 1
      BY <1>4, <1>7, <2>3
    <3>2. QED
      BY <2>3, <3>1 DEF Was
  <2>4. CASE q \notin {a, b}
    BY <1>2, <1>7, <2>4 DEF Was
  <2>5. QED
    BY <2>1, <2>2, <2>3, <2>4
<1>8. QED
  BY <1>5, <1>6, <1>7 DEF M

(* A move loses no message and doubles none.                               *)
LEMMA MoveOnce ==
  ASSUME NEW L \in Lines, NEW a \in Places, NEW b \in Places, a # b, L[a] # <<>>, Once(L)
  PROVE  Moved(L, a, b) \in Lines /\ Once(Moved(L, a, b))
<1> DEFINE M == Moved(L, a, b)
<1>1. /\ M \in Lines
      /\ \A p \in Places : \A i \in DOMAIN M[p] :
           \E q \in Places : \E j \in DOMAIN L[q] :
             Was(L, a, b, p, i, q, j) /\ M[p][i] = L[q][j]
      /\ \A q \in Places : \A j \in DOMAIN L[q] :
           \E p \in Places : \E i \in DOMAIN M[p] :
             Was(L, a, b, p, i, q, j) /\ M[p][i] = L[q][j]
  BY MovedFrom
<1> HIDE DEF M
<1>2. \A n \in 1..Messages : \E p \in Places : \E i \in DOMAIN M[p] : M[p][i] = n
  BY <1>1 DEF Once
<1>3. ASSUME NEW p \in Places, NEW q \in Places, NEW i \in DOMAIN M[p], NEW j \in DOMAIN M[q],
             M[p][i] = M[q][j]
      PROVE  p = q /\ i = j
  <2>1. PICK p0, i0 : p0 \in Places /\
          i0 \in DOMAIN L[p0] /\ Was(L, a, b, p, i, p0, i0) /\ M[p][i] = L[p0][i0]
    BY <1>1, <1>3
  <2>2. PICK q0, j0 : q0 \in Places /\
          j0 \in DOMAIN L[q0] /\ Was(L, a, b, q, j, q0, j0) /\ M[q][j] = L[q0][j0]
    BY <1>1, <1>3
  <2>3. p0 = q0 /\ i0 = j0
    <3>1. \A r, t \in Places : \A k \in DOMAIN L[r], l \in DOMAIN L[t] :
            L[r][k] = L[t][l] => r = t /\ k = l
      BY DEF Once
    <3>2. L[p0][i0] = L[q0][j0]
      BY <1>3, <2>1, <2>2
    <3>3. QED
      BY <2>1, <2>2, <3>1, <3>2
  <2>4. i \in Nat \ {0} /\ j \in Nat \ {0}
    <3>1. M[p] \in Seq(1..Messages) /\ M[q] \in Seq(1..Messages)
      BY <1>1 DEF Lines
    <3>2. QED
      BY <1>3, <3>1
  <2>5. QED
    BY <2>1, <2>2, <2>3, <2>4 DEF Was
<1>4. QED
  BY <1>1, <1>2, <1>3 DEF Once, M

(* Places are in one line.                                                 *)
LEMMA AheadOrder ==
  /\ \A p, q \in Places : p = q \/ Ahead(p, q) \/ Ahead(q, p)
  /\ \A p, q \in Places : Ahead(p, q) => p # q /\ ~Ahead(q, p)
  /\ \A p, q, r \in Places : Ahead(p, q) /\ Ahead(q, r) => Ahead(p, r)
<1>1. Places \subseteq Nat \X (0..2)
  BY StreamsAssumption DEF Places, Aside, Dests
<1>2. \A p, q \in Nat \X (0..2) : p = q \/ Ahead(p, q) \/ Ahead(q, p)
  BY DEF Ahead
<1>3. \A p, q \in Nat \X (0..2) : Ahead(p, q) => p # q /\ ~Ahead(q, p)
  BY DEF Ahead
<1>4. \A p, q, r \in Nat \X (0..2) : Ahead(p, q) /\ Ahead(q, r) => Ahead(p, r)
  BY DEF Ahead
<1>5. QED
  BY <1>1, <1>2, <1>3, <1>4

LEMMA ExcusedStays ==
  ASSUME NEW L \in Lines, NEW a \in Places \ {Aside}, NEW b \in Places, a # b, L[a] # <<>>,
         NEW n, Excused(L, n)
  PROVE  Excused(Moved(L, a, b), n)
<1> DEFINE M == Moved(L, a, b)
<1>1. PICK j : j \in DOMAIN L[Aside] /\ L[Aside][j] < n
  BY DEF Excused
<1>2. \E p \in Places : \E i \in DOMAIN M[p] :
        Was(L, a, b, p, i, Aside, j) /\ M[p][i] = L[Aside][j]
  BY <1>1, MovedFrom DEF Places
<1> HIDE DEF M
<1>3. PICK p, i : i \in DOMAIN M[p] /\ Was(L, a, b, p, i, Aside, j) /\ M[p][i] = L[Aside][j]
  BY <1>2
<1>4. p = Aside
  BY <1>3 DEF Was
<1>5. QED
  BY <1>1, <1>3, <1>4 DEF Excused, M

(* A move past nothing but what may be overtaken keeps the order.          *)
LEMMA MoveOrdered ==
  ASSUME NEW L \in Lines, NEW a \in Places \ {Aside}, NEW b \in Places, a # b, L[a] # <<>>,
         Ordered(L),
         b # Aside => /\ Ahead(b, a)
                      /\ \A p \in Places \ {Aside} : Ahead(b, p) /\ Ahead(p, a) =>
                           \A i \in DOMAIN L[p] : Excused(L, L[p][i])
  PROVE  Ordered(Moved(L, a, b))
<1> DEFINE M == Moved(L, a, b)
<1>1. /\ M \in Lines
      /\ \A p \in Places : \A i \in DOMAIN M[p] :
           \E q \in Places : \E j \in DOMAIN L[q] :
             Was(L, a, b, p, i, q, j) /\ M[p][i] = L[q][j]
      /\ \A n : Excused(L, n) => Excused(M, n)
  BY MovedFrom, ExcusedStays
<1> HIDE DEF M
<1> SUFFICES ASSUME NEW p \in Places \ {Aside}, NEW q \in Places \ {Aside},
                    NEW i \in DOMAIN M[p], NEW j \in DOMAIN M[q],
                    Ahead(p, q) \/ (p = q /\ i < j), M[p][i] > M[q][j]
             PROVE  Excused(L, M[q][j])
  BY <1>1 DEF Ordered, M
<1>2. PICK p0, i0 : p0 \in Places /\
        i0 \in DOMAIN L[p0] /\ Was(L, a, b, p, i, p0, i0) /\ M[p][i] = L[p0][i0]
  BY <1>1
<1>3. PICK q0, j0 : q0 \in Places /\
        j0 \in DOMAIN L[q0] /\ Was(L, a, b, q, j, q0, j0) /\ M[q][j] = L[q0][j0]
  BY <1>1
<1>4. p0 # Aside /\ q0 # Aside
  BY <1>2, <1>3 DEF Was
<1>5. i \in Nat \ {0} /\ j \in Nat \ {0}
  <2>1. M[p] \in Seq(1..Messages) /\ M[q] \in Seq(1..Messages)
    BY <1>1 DEF Lines
  <2>2. QED
    BY <2>1
<1>6. Ahead(p0, q0) \/ (p0 = q0 /\ i0 < j0) => Excused(L, M[q][j])
  BY <1>2, <1>3, <1>4 DEF Ordered
<1> DEFINE iMoved == p = b /\ p # a /\ i = Len(L[b]) + 1 /\ p0 = a /\ i0 = 1
           jMoved == q = b /\ q # a /\ j = Len(L[b]) + 1 /\ q0 = a /\ j0 = 1
<1>7. /\ iMoved \/ (p0 = p /\ i0 = IF p = a THEN i + 1 ELSE i)
      /\ jMoved \/ (q0 = q /\ j0 = IF q = a THEN j + 1 ELSE j)
  BY <1>2, <1>3 DEF Was
<1>8. CASE ~iMoved /\ ~jMoved
  BY <1>5, <1>6, <1>7, <1>8
<1>9. CASE iMoved /\ ~jMoved
  <2>1. Ahead(b, q)
    <3>1. p = q => j \in 1..Len(L[b]) /\ Len(L[b]) \in Nat
      <4>1. p = q => j \in DOMAIN L[b]
        BY <1>3, <1>7, <1>9
      <4>2. QED
        BY <4>1, SeqFacts DEF Lines
    <3>2. QED
      BY <1>9, <3>1
  <2>2. CASE q = a
    BY <1>5, <1>6, <1>7, <1>9, <2>2
  <2>3. CASE Ahead(a, q)
    BY <1>6, <1>7, <1>9, <2>3, AheadOrder
  <2>4. CASE Ahead(q, a)
    <3>1. q0 = q /\ q # a
      BY <1>7, <1>9, <2>4, AheadOrder
    <3>2. Excused(L, L[q0][j0])
      BY <1>3, <1>9, <2>1, <2>4, <3>1
    <3>3. QED
      BY <1>3, <3>2
  <2>5. QED
    BY <2>2, <2>3, <2>4, AheadOrder
<1>10. CASE ~iMoved /\ jMoved
  <2>1. p # a /\ p0 = p /\ q0 = a
    BY <1>7, <1>10, AheadOrder
  <2>2. Ahead(p, a)
    BY <1>10, <2>1, AheadOrder
  <2>3. QED
    BY <1>6, <2>1, <2>2
<1>11. CASE iMoved /\ jMoved
  BY <1>5, <1>11, AheadOrder
<1>12. QED
  BY <1>8, <1>9, <1>10, <1>11

-----------------------------------------------------------------------------
(* The places of a pipeline: where a stream has what it is to write, what  *)
(* it writes and what it is through with.                                  *)
Buffered(s) == <<s, 0>>
InWrite(s) == <<s, 1>>
Through(s) == <<s, 2>>

LEMMA PlaceIs ==
  /\ \A p \in Places : \/ p = Aside \/ \E s \in 1..N : p = Through(s)
                      \/ \E s \in Dests : p = Buffered(s) \/ p = InWrite(s)
  /\ \A s \in 1..N : Through(s) \in Places /\ Through(s) # Aside
  /\ \A s \in Dests : /\ Buffered(s) \in Places /\ Buffered(s) # Aside
                      /\ InWrite(s) \in Places /\ InWrite(s) # Aside
  /\ Aside \in Places
  /\ \A s, t : /\ Buffered(s) # InWrite(t) /\ Buffered(s) # Through(t)
               /\ InWrite(s) # Through(t)
               /\ s # t => /\ Buffered(s) # Buffered(t) /\ InWrite(s) # InWrite(t)
                          /\ Through(s) # Through(t)
<1>1. \A p \in Places : \/ p = Aside \/ \E s \in 1..N : p = Through(s)
                       \/ \E s \in Dests : p = Buffered(s) \/ p = InWrite(s)
  BY StreamsAssumption DEF Places, Aside, Dests, Through, Buffered, InWrite
<1>2. \A s \in 1..N : Through(s) \in Places /\ Through(s) # Aside
  BY StreamsAssumption DEF Places, Aside, Dests, Through
<1>3. \A s \in Dests : /\ Buffered(s) \in Places /\ Buffered(s) # Aside
                      /\ InWrite(s) \in Places /\ InWrite(s) # Aside
  BY StreamsAssumption DEF Places, Aside, Dests, Buffered, InWrite
<1>4. QED
  BY <1>1, <1>2, <1>3 DEF Places, Through, Buffered, InWrite

(* What Line makes of errors, buffers, writes, the end and what is ready.  *)
LineFrom(e, f, w, o, r) == [p \in Places |->
  IF p = Aside THEN e
  ELSE IF p[2] = 0 THEN f[p[1]]
  ELSE IF p[2] = 1 THEN IF w[p[1]] = 0 THEN <<>> ELSE <<w[p[1]]>>
  ELSE IF p[1] = N THEN o ELSE r[p[1]]]

IsLine(L) == L = [p \in Places |-> L[p]]

LEMMA LineOf ==
  ASSUME NEW L, NEW e, NEW f, NEW w, NEW o, NEW r, L = LineFrom(e, f, w, o, r)
  PROVE  /\ IsLine(L) /\ L[Aside] = e
         /\ \A s \in 1..N : L[Through(s)] = IF s = N THEN o ELSE r[s]
         /\ \A s \in Dests : /\ L[Buffered(s)] = f[s]
                             /\ L[InWrite(s)] = IF w[s] = 0 THEN <<>> ELSE <<w[s]>>
<1>1. \A p \in Places : L[p] =
        IF p = Aside THEN e
        ELSE IF p[2] = 0 THEN f[p[1]]
        ELSE IF p[2] = 1 THEN IF w[p[1]] = 0 THEN <<>> ELSE <<w[p[1]]>>
        ELSE IF p[1] = N THEN o ELSE r[p[1]]
  BY DEF LineFrom
<1>2. IsLine(L) /\ L[Aside] = e
  BY <1>1, PlaceIs DEF LineFrom, IsLine
<1>3. ASSUME NEW s \in 1..N PROVE L[Through(s)] = IF s = N THEN o ELSE r[s]
  <2> DEFINE p == Through(s)
  <2>1. p \in Places /\ p # Aside /\ p[1] = s /\ p[2] # 0 /\ p[2] # 1
    BY PlaceIs DEF Through
  <2> HIDE DEF p
  <2>2. L[p] = IF s = N THEN o ELSE r[s]
    BY <1>1, <2>1
  <2>3. QED
    BY <2>2 DEF p
<1>4. ASSUME NEW s \in Dests
      PROVE  /\ L[Buffered(s)] = f[s]
             /\ L[InWrite(s)] = IF w[s] = 0 THEN <<>> ELSE <<w[s]>>
  <2> DEFINE p == Buffered(s)
             q == InWrite(s)
  <2>1. /\ p \in Places /\ p # Aside /\ p[1] = s /\ p[2] = 0
        /\ q \in Places /\ q # Aside /\ q[1] = s /\ q[2] = 1
    BY PlaceIs DEF Buffered, InWrite
  <2> HIDE DEF p, q
  <2>2. L[p] = f[s] /\ L[q] = IF w[s] = 0 THEN <<>> ELSE <<w[s]>>
    BY <1>1, <2>1
  <2>3. QED
    BY <2>2 DEF p, q
<1>5. QED
  BY <1>2, <1>3, <1>4

LEMMA LineIs ==
  /\ IsLine(Line) /\ Line[Aside] = errors
  /\ \A s \in 1..N : Line[Through(s)] = IF s = N THEN out ELSE ready[s]
  /\ \A s \in Dests : /\ Line[Buffered(s)] = buffer[s]
                      /\ Line[InWrite(s)] = IF writing[s] = 0 THEN <<>> ELSE <<writing[s]>>
<1>1. Line = LineFrom(errors, buffer, writing, out, ready)
  BY DEF Line, LineFrom
<1>2. QED
  BY <1>1, LineOf

LEMMA LineBecomes ==
  /\ IsLine(Line') /\ Line'[Aside] = errors'
  /\ \A s \in 1..N : Line'[Through(s)] = IF s = N THEN out' ELSE ready'[s]
  /\ \A s \in Dests :
       /\ Line'[Buffered(s)] = buffer'[s]
       /\ Line'[InWrite(s)] = IF writing'[s] = 0 THEN <<>> ELSE <<writing'[s]>>
<1>1. Line' = LineFrom(errors', buffer', writing', out', ready')
  BY DEF Line, LineFrom
<1>2. QED
  BY <1>1, LineOf

LEMMA LineTyped == ASSUME TypeOK PROVE Line \in Lines
<1> DEFINE S == Seq(1..Messages)
<1>1. /\ errors \in S /\ out \in S /\ \A s \in 1..N : s # N => ready[s] \in S
      /\ \A s \in Dests : buffer[s] \in S
  BY StreamsAssumption DEF TypeOK, Sources, Dests
<1>2. ASSUME NEW s \in Dests PROVE (IF writing[s] = 0 THEN <<>> ELSE <<writing[s]>>) \in S
  <2>1. CASE writing[s] = 0
    BY <2>1
  <2>2. CASE writing[s] # 0
    <3>1. writing[s] \in 1..Messages
      BY <2>2, MessagesAssumption DEF TypeOK
    <3>2. QED
      BY <2>2, <3>1
  <2>3. QED
    BY <2>1, <2>2
<1>3. ASSUME NEW p \in Places PROVE Line[p] \in S
  <2> HIDE DEF S
  <2>1. CASE p = Aside
    BY <1>1, <2>1, LineIs
  <2>2. CASE \E s \in 1..N : p = Through(s)
    BY <1>1, <2>2, LineIs
  <2>3. CASE \E s \in Dests : p = Buffered(s) \/ p = InWrite(s)
    BY <1>1, <1>2, <2>3, LineIs, ZenonT(30)
  <2>4. QED
    BY <2>1, <2>2, <2>3, PlaceIs
<1>4. QED
  BY <1>3, LineIs DEF Lines, IsLine

LEMMA SameMove ==
  ASSUME NEW L, NEW M, IsLine(L), IsLine(M),
         NEW a \in Places, NEW b \in Places, a # b,
         M[a] = Tail(L[a]), M[b] = Append(L[b], Head(L[a])),
         \A p \in Places \ {a, b} : M[p] = L[p]
  PROVE  M = Moved(L, a, b)
<1>1. \A p \in Places : M[p] = Moved(L, a, b)[p]
  BY DEF Moved
<1>2. QED
  BY <1>1 DEF Moved, IsLine

LEMMA ErrorsExcuse == \A n : Excused(Line, n) <=> \E e \in DOMAIN errors : errors[e] < n
BY LineIs DEF Excused

LEMMA LaterErrorsExcuse == \A n : Excused(Line, n)' <=> \E e \in DOMAIN errors' : errors'[e] < n
BY LineBecomes DEF Excused

-----------------------------------------------------------------------------
LEMMA InitIInv == Init => IInv
<1> SUFFICES ASSUME Init PROVE IInv
  OBVIOUS
<1> USE DEF Init
<1> DEFINE all == [n \in 1..Messages |-> n]
<1>1. all \in Seq(1..Messages) /\ <<>> \in Seq(1..Messages)
  BY MessagesAssumption
<1> HIDE DEF all
<1>2. /\ ready = [s \in Sources |-> IF s = 1 THEN all ELSE <<>>]
      /\ 1 \in Sources /\ 1 # N /\ 1 \in 1..N /\ \A s \in 1..N : s # N => s \in Sources
  BY StreamsAssumption DEF Sources, all
<1>3. TypeOK
  <2>1. ready \in [Sources -> Seq(1..Messages)]
    BY <1>1, <1>2
  <2>2. /\ buffer \in [Dests -> Seq(1..Messages)] /\ writing \in [Dests -> 0..Messages]
        /\ out \in Seq(1..Messages) /\ errors \in Seq(1..Messages)
    BY <1>1, MessagesAssumption
  <2>3. QED
    BY <2>1, <2>2 DEF TypeOK, Outcomes
<1>4. Line[Through(1)] = all /\ \A p \in Places \ {Through(1)} : Line[p] = <<>>
  <2>1. Line[Through(1)] = all
    BY <1>2, LineIs, SMTT(30)
  <2>2. ASSUME NEW s \in 1..N, s # 1 PROVE Line[Through(s)] = <<>>
    <3>1. s # N => ready[s] = <<>>
      BY <1>2, <2>2
    <3>2. QED
      BY <3>1, LineIs
  <2>3. Line[Aside] = <<>> /\ \A s \in Dests : Line[Buffered(s)] = <<>> /\ Line[InWrite(s)] = <<>>
    BY LineIs
  <2>4. QED
    BY <2>1, <2>2, <2>3, PlaceIs
<1>5. ASSUME NEW p \in Places, NEW i \in DOMAIN Line[p]
      PROVE  p = Through(1) /\ Line[p][i] = i /\ i \in Nat
  <2>1. p = Through(1)
    BY <1>4
  <2>2. i \in 1..Messages /\ all[i] = i
    BY <1>4, <1>5, <2>1 DEF all
  <2>3. QED
    BY <1>4, <2>1, <2>2
<1>6. Once(Line)
  <2>1. ASSUME NEW n \in 1..Messages
        PROVE  \E p \in Places : \E i \in DOMAIN Line[p] : Line[p][i] = n
    <3>1. n \in DOMAIN Line[Through(1)] /\ Line[Through(1)][n] = n /\ Through(1) \in Places
      BY <1>2, <1>4, PlaceIs DEF all
    <3>2. QED
      BY <3>1
  <2>2. QED
    BY <1>5, <2>1 DEF Once
<1>7. Ordered(Line)
  <2>1. ~Ahead(Through(1), Through(1))
    BY DEF Ahead, Through
  <2>2. QED
    BY <1>5, <2>1 DEF Ordered
<1>8. LeftBehind /\ OutcomeOK
  BY DEF LeftBehind, OutcomeOK
<1>9. Room
  BY HighWaterMarkAssumption DEF Room, Size
<1>10. QED
  BY <1>3, <1>6, <1>7, <1>8, <1>9 DEF IInv

(* The pipe writes a message: it is written, past what was left behind an  *)
(* error, or buffered.                                                     *)
LEMMA PipeMoves ==
  ASSUME IInv, NEW s \in Dests, Pipe(s)
  PROVE  /\ Line \in Lines /\ Through(s - 1) \in Places \ {Aside} /\ Line[Through(s - 1)] # <<>>
         /\ s - 1 \in Sources /\ Head(ready[s - 1]) \in 1..Messages
         /\ writing[s] = 0 => Line' = Moved(Line, Through(s - 1), InWrite(s))
         /\ writing[s] # 0 => Line' = Moved(Line, Through(s - 1), Buffered(s))
<1>1. /\ s - 1 \in Sources /\ s - 1 \in 1..N /\ s - 1 # N /\ s - 1 # s /\ s \in 1..N
      /\ \A t \in 1..N : t # N => t \in Sources
  BY StreamsAssumption DEF Sources, Dests
<1>2. /\ ready[s - 1] \in Seq(1..Messages) /\ ready[s - 1] # <<>> /\ TypeOK
      /\ ready \in [Sources -> Seq(1..Messages)]
      /\ buffer \in [Dests -> Seq(1..Messages)] /\ writing \in [Dests -> 0..Messages]
  BY <1>1 DEF IInv, TypeOK, Pipe
<1> DEFINE a == Through(s - 1)
           h == Head(ready[s - 1])
<1>3. Line \in Lines /\ a \in Places \ {Aside} /\ Line[a] = ready[s - 1]
  BY <1>1, <1>2, LineTyped, PlaceIs, LineIs
<1>4. h \in 1..Messages /\ h # 0
  <2>1. PICK r \in Seq(1..Messages) : r = ready[s - 1] /\ r # <<>>
    BY <1>2
  <2>2. Head(r) \in 1..Messages
    BY <2>1, TailFacts
  <2>3. QED
    BY <2>1, <2>2
<1>5. /\ ready' = [ready EXCEPT ![s - 1] = Tail(ready[s - 1])]
      /\ UNCHANGED <<out, errors>>
  BY DEF Pipe
<1>6. /\ Line'[a] = Tail(Line[a]) /\ Line'[Aside] = Line[Aside]
      /\ \A t \in 1..N : t # s - 1 => Line'[Through(t)] = Line[Through(t)]
  <2>1. /\ ready'[s - 1] = Tail(ready[s - 1])
        /\ \A t \in 1..N : t # N /\ t # s - 1 => ready'[t] = ready[t]
    BY <1>1, <1>2, <1>5
  <2>2. QED
    BY <1>1, <1>3, <1>5, <2>1, LineIs, LineBecomes
<1> HIDE DEF h
<1>7. ASSUME writing[s] = 0 PROVE Line' = Moved(Line, a, InWrite(s))
  <2> DEFINE b == InWrite(s)
  <2>1. writing' = [writing EXCEPT ![s] = h] /\ UNCHANGED buffer
    BY <1>7 DEF Pipe, h
  <2>2. writing'[s] = h /\ \A t \in Dests : t # s => writing'[t] = writing[t]
    BY <1>2, <2>1
  <2>3. Line'[b] = <<h>> /\ Line[b] = <<>>
    BY <1>4, <1>7, <2>2, LineIs, LineBecomes
  <2>4. ASSUME NEW t \in Dests
        PROVE  Line'[Buffered(t)] = Line[Buffered(t)] /\ (t # s => Line'[InWrite(t)] = Line[InWrite(t)])
    <3>1. /\ Line[Buffered(t)] = buffer[t] /\ Line'[Buffered(t)] = buffer'[t]
          /\ Line[InWrite(t)] = IF writing[t] = 0 THEN <<>> ELSE <<writing[t]>>
          /\ Line'[InWrite(t)] = IF writing'[t] = 0 THEN <<>> ELSE <<writing'[t]>>
      BY LineIs, LineBecomes
    <3>2. QED
      BY <2>1, <2>2, <3>1
  <2>5. \A p \in Places \ {a, b} : Line'[p] = Line[p]
    BY <1>6, <2>4, PlaceIs
  <2>6. b \in Places /\ a # b
    BY PlaceIs
  <2>7. Line'[b] = Append(Line[b], Head(Line[a]))
    BY <1>3, <2>3 DEF h
  <2> HIDE DEF a, b
  <2>8. Line' = Moved(Line, a, b)
    BY <1>3, <1>6, <2>5, <2>6, <2>7, LineIs, LineBecomes, SameMove
  <2>9. QED
    BY <2>8 DEF a, b
<1>8. ASSUME writing[s] # 0 PROVE Line' = Moved(Line, a, Buffered(s))
  <2> DEFINE b == Buffered(s)
  <2>1. buffer' = [buffer EXCEPT ![s] = Append(buffer[s], h)] /\ UNCHANGED writing
    BY <1>8 DEF Pipe, h
  <2>2. buffer'[s] = Append(buffer[s], h) /\ \A t \in Dests : t # s => buffer'[t] = buffer[t]
    BY <1>2, <2>1
  <2>3. Line'[b] = Append(Line[b], h)
    BY <2>2, LineIs, LineBecomes
  <2>4. ASSUME NEW t \in Dests
        PROVE  Line'[InWrite(t)] = Line[InWrite(t)] /\ (t # s => Line'[Buffered(t)] = Line[Buffered(t)])
    <3>1. /\ Line[Buffered(t)] = buffer[t] /\ Line'[Buffered(t)] = buffer'[t]
          /\ Line[InWrite(t)] = IF writing[t] = 0 THEN <<>> ELSE <<writing[t]>>
          /\ Line'[InWrite(t)] = IF writing'[t] = 0 THEN <<>> ELSE <<writing'[t]>>
      BY LineIs, LineBecomes
    <3>2. QED
      BY <2>1, <2>2, <3>1
  <2>5. \A p \in Places \ {a, b} : Line'[p] = Line[p]
    BY <1>6, <2>4, PlaceIs
  <2>6. b \in Places /\ a # b
    BY PlaceIs
  <2>7. Line'[b] = Append(Line[b], Head(Line[a]))
    BY <1>3, <2>3 DEF h
  <2> HIDE DEF a, b
  <2>8. Line' = Moved(Line, a, b)
    BY <1>3, <1>6, <2>5, <2>6, <2>7, LineIs, LineBecomes, SameMove
  <2>9. QED
    BY <2>8 DEF a, b
<1>9. QED
  BY <1>1, <1>2, <1>3, <1>4, <1>7, <1>8 DEF h

LEMMA DestTyped ==
  ASSUME IInv, NEW s \in Dests
  PROVE  /\ s \in 1..N /\ (s # N => s \in Sources)
         /\ buffer[s] \in Seq(1..Messages) /\ writing[s] \in 0..Messages
         /\ buffer[s] # <<>> => Head(buffer[s]) \in 1..Messages /\ Head(buffer[s]) # 0
<1>1. /\ s \in 1..N /\ (s # N => s \in Sources)
      /\ buffer[s] \in Seq(1..Messages) /\ writing[s] \in 0..Messages
  BY StreamsAssumption DEF IInv, TypeOK, Sources, Dests
<1>2. ASSUME buffer[s] # <<>> PROVE Head(buffer[s]) \in 1..Messages /\ Head(buffer[s]) # 0
  <2>1. PICK r \in Seq(1..Messages) : r = buffer[s] /\ r # <<>>
    BY <1>1, <1>2
  <2>2. Head(r) \in 1..Messages
    BY <2>1, TailFacts
  <2>3. QED
    BY <2>1, <2>2
<1>3. QED
  BY <1>1, <1>2

(* A write succeeds: its message goes through, the next one is written.    *)
LEMMA SucceedMoves ==
  ASSUME IInv, NEW s \in Dests, Succeed(s)
  PROVE  /\ Line \in Lines /\ Line[InWrite(s)] # <<>>
         /\ buffer[s] = <<>> => Line' = Moved(Line, InWrite(s), Through(s))
         /\ buffer[s] # <<>> =>
              /\ Moved(Line, InWrite(s), Through(s))[Buffered(s)] # <<>>
              /\ Line' = Moved(Moved(Line, InWrite(s), Through(s)), Buffered(s), InWrite(s))
<1> DEFINE a == InWrite(s)
           b == Through(s)
           c == Buffered(s)
           L1 == Moved(Line, a, b)
<1>1. /\ s \in 1..N /\ (s # N => s \in Sources) /\ TypeOK /\ writing[s] # 0
      /\ buffer[s] # <<>> => Head(buffer[s]) # 0
  BY DestTyped DEF IInv, Succeed, Busy
<1>2. /\ Line \in Lines /\ IsLine(Line) /\ IsLine(Line') /\ a \in Places /\ b \in Places
      /\ c \in Places /\ a # b /\ b # c /\ a # c
  BY <1>1, LineTyped, LineIs, LineBecomes, PlaceIs
<1>3. Line[a] = <<writing[s]>> /\ Line[c] = buffer[s]
  BY <1>1, LineIs
<1>4. Line'[b] = Append(Line[b], writing[s])
  <2>1. CASE s = N
    <3>1. out' = Append(out, writing[s])
      BY <2>1 DEF Succeed
    <3>2. QED
      BY <1>1, <2>1, <3>1, LineIs, LineBecomes
  <2>2. CASE s # N
    <3>1. ready'[s] = Append(ready[s], writing[s])
      BY <1>1, <2>2 DEF Succeed, TypeOK
    <3>2. QED
      BY <1>1, <2>2, <3>1, LineIs, LineBecomes
  <2>3. QED
    BY <2>1, <2>2
<1>5. \A t \in 1..N : t # s => Line'[Through(t)] = Line[Through(t)]
  <2>1. SUFFICES ASSUME NEW t \in 1..N, t # s PROVE Line'[Through(t)] = Line[Through(t)]
    OBVIOUS
  <2>2. CASE t = N
    <3>1. out' = out
      BY <2>1, <2>2 DEF Succeed
    <3>2. QED
      BY <2>2, <3>1, LineIs, LineBecomes
  <2>3. CASE t # N
    <3>1. t \in Sources
      BY <2>3, StreamsAssumption DEF Sources
    <3>2. ready'[t] = ready[t]
      BY <1>1, <2>1, <3>1 DEF Succeed, TypeOK
    <3>3. QED
      BY <2>3, <3>2, LineIs, LineBecomes
  <2>4. QED
    BY <2>2, <2>3
<1>6. /\ writing'[s] = IF buffer[s] = <<>> THEN 0 ELSE Head(buffer[s])
      /\ buffer'[s] = IF buffer[s] = <<>> THEN <<>> ELSE Tail(buffer[s])
      /\ \A t \in Dests : t # s => writing'[t] = writing[t] /\ buffer'[t] = buffer[t]
      /\ errors' = errors
  BY <1>1 DEF Succeed, Written, TypeOK
<1>7. \A t \in Dests : t # s => /\ Line'[Buffered(t)] = Line[Buffered(t)]
                               /\ Line'[InWrite(t)] = Line[InWrite(t)]
  <2>1. SUFFICES ASSUME NEW t \in Dests, t # s
                 PROVE  /\ Line'[Buffered(t)] = Line[Buffered(t)]
                        /\ Line'[InWrite(t)] = Line[InWrite(t)]
    OBVIOUS
  <2>2. /\ Line[Buffered(t)] = buffer[t] /\ Line'[Buffered(t)] = buffer'[t]
        /\ Line[InWrite(t)] = IF writing[t] = 0 THEN <<>> ELSE <<writing[t]>>
        /\ Line'[InWrite(t)] = IF writing'[t] = 0 THEN <<>> ELSE <<writing'[t]>>
    BY LineIs, LineBecomes
  <2>3. QED
    BY <1>6, <2>1, <2>2
<1>8. /\ Line'[a] = IF buffer[s] = <<>> THEN <<>> ELSE <<Head(buffer[s])>>
      /\ Line'[c] = IF buffer[s] = <<>> THEN <<>> ELSE Tail(buffer[s])
  BY <1>1, <1>6, LineBecomes
<1>9. \A p \in Places \ {a, b, c} : Line'[p] = Line[p]
  BY <1>5, <1>6, <1>7, PlaceIs, LineIs, LineBecomes
<1>10. Tail(Line[a]) = <<>> /\ Head(Line[a]) = writing[s] /\ Line[a] # <<>>
  BY <1>3
<1>11. /\ IsLine(L1) /\ L1[a] = <<>> /\ L1[b] = Append(Line[b], writing[s])
       /\ \A p \in Places \ {a, b} : L1[p] = Line[p]
  BY <1>2, <1>10 DEF Moved, IsLine
<1> HIDE DEF a, b, c, L1
<1>12. CASE buffer[s] = <<>>
  <2>1. /\ Line'[a] = Tail(Line[a]) /\ Line'[b] = Append(Line[b], Head(Line[a]))
        /\ \A p \in Places \ {a, b} : Line'[p] = Line[p]
    BY <1>3, <1>4, <1>8, <1>9, <1>10, <1>12
  <2>2. Line' = Moved(Line, a, b)
    BY <1>2, <2>1, SameMove
  <2>3. QED
    BY <1>2, <1>10, <1>12, <2>2 DEF a, b
<1>13. CASE buffer[s] # <<>>
  <2>1. L1[c] = buffer[s]
    BY <1>2, <1>3, <1>11
  <2>2. Line'[c] = Tail(L1[c]) /\ Line'[a] = Append(L1[a], Head(L1[c]))
    BY <1>8, <1>11, <1>13, <2>1
  <2>3. ASSUME NEW p \in Places \ {c, a} PROVE Line'[p] = L1[p]
    <3>1. CASE p = b
      BY <1>4, <1>11, <3>1
    <3>2. CASE p # b
      BY <1>9, <1>11, <3>2
    <3>3. QED
      BY <3>1, <3>2
  <2>4. IsLine(L1) /\ IsLine(Line') /\ c \in Places /\ a \in Places /\ c # a
    BY <1>2, <1>11
  <2>5. Line' = Moved(L1, c, a)
    BY <2>2, <2>3, <2>4, SameMove
  <2>6. QED
    BY <1>2, <1>10, <1>13, <2>1, <2>5 DEF a, b, c, L1
<1>14. QED
  BY <1>12, <1>13

(* A write fails: its message is that of an error, the rest stays.         *)
LEMMA FailMoves ==
  ASSUME IInv, NEW s \in Dests, Fail(s)
  PROVE  /\ Line \in Lines /\ Line[InWrite(s)] # <<>> /\ Line[InWrite(s)][1] = writing[s]
         /\ Line' = Moved(Line, InWrite(s), Aside)
<1> DEFINE a == InWrite(s)
<1>1. TypeOK /\ writing[s] # 0 /\ writing' = [writing EXCEPT ![s] = 0]
      /\ errors' = Append(errors, writing[s]) /\ UNCHANGED <<ready, buffer, out>>
  BY DEF IInv, Fail, Busy
<1>2. /\ Line \in Lines /\ IsLine(Line) /\ IsLine(Line') /\ a \in Places /\ a # Aside
      /\ Aside \in Places
  BY <1>1, LineTyped, LineIs, LineBecomes, PlaceIs
<1>3. writing'[s] = 0 /\ \A t \in Dests : t # s => writing'[t] = writing[t]
  BY <1>1 DEF TypeOK
<1>4. Line[a] = <<writing[s]>> /\ Line'[a] = <<>>
  BY <1>1, <1>3, LineIs, LineBecomes
<1>5. Line[Aside] = errors /\ Line'[Aside] = Append(errors, writing[s])
  BY <1>1, LineIs, LineBecomes
<1>6. \A t \in 1..N : Line'[Through(t)] = Line[Through(t)]
  BY <1>1, LineIs, LineBecomes
<1>7. /\ \A t \in Dests : Line'[Buffered(t)] = Line[Buffered(t)]
      /\ \A t \in Dests : t # s => Line'[InWrite(t)] = Line[InWrite(t)]
  <2>1. SUFFICES ASSUME NEW t \in Dests
                 PROVE  /\ Line'[Buffered(t)] = Line[Buffered(t)]
                        /\ (t # s => Line'[InWrite(t)] = Line[InWrite(t)])
    OBVIOUS
  <2>2. /\ Line[Buffered(t)] = buffer[t] /\ Line'[Buffered(t)] = buffer'[t]
        /\ Line[InWrite(t)] = IF writing[t] = 0 THEN <<>> ELSE <<writing[t]>>
        /\ Line'[InWrite(t)] = IF writing'[t] = 0 THEN <<>> ELSE <<writing'[t]>>
    BY LineIs, LineBecomes
  <2>3. QED
    BY <1>1, <1>3, <2>2
<1>8. ASSUME NEW p \in Places \ {a, Aside} PROVE Line'[p] = Line[p]
  <2>1. CASE \E t \in 1..N : p = Through(t)
    BY <1>6, <2>1
  <2>2. CASE \E t \in Dests : p = Buffered(t) \/ p = InWrite(t)
    <3>1. PICK t \in Dests : p = Buffered(t) \/ p = InWrite(t)
      BY <2>2
    <3>2. CASE p = Buffered(t)
      BY <1>7, <3>2
    <3>3. CASE p = InWrite(t)
      <4>1. t # s
        BY <1>8, <3>3
      <4>2. QED
        BY <1>7, <3>3, <4>1
    <3>4. QED
      BY <3>1, <3>2, <3>3
  <2>3. QED
    BY <1>8, <2>1, <2>2, PlaceIs
<1>9. Tail(Line[a]) = <<>> /\ Head(Line[a]) = writing[s] /\ Line[a] # <<>>
  BY <1>4
<1> HIDE DEF a
<1>10. Line' = Moved(Line, a, Aside)
  <2>1. Line'[a] = Tail(Line[a]) /\ Line'[Aside] = Append(Line[Aside], Head(Line[a]))
    BY <1>4, <1>5, <1>9
  <2>2. QED
    BY <1>2, <1>8, <2>1, SameMove
<1>11. QED
  BY <1>2, <1>4, <1>9, <1>10 DEF a

-----------------------------------------------------------------------------
(* How the places of a stream lie to each other.                           *)
LEMMA PlaceOrder ==
  ASSUME NEW s \in Dests
  PROVE  /\ Ahead(Through(s), InWrite(s)) /\ Ahead(InWrite(s), Buffered(s))
         /\ Ahead(InWrite(s), Through(s - 1)) /\ Ahead(Buffered(s), Through(s - 1))
         /\ \A p \in Places :
              /\ ~(Ahead(Through(s), p) /\ Ahead(p, InWrite(s)))
              /\ ~(Ahead(InWrite(s), p) /\ Ahead(p, Buffered(s)))
              /\ ~(Ahead(Buffered(s), p) /\ Ahead(p, Through(s - 1)))
              /\ Ahead(InWrite(s), p) /\ Ahead(p, Through(s - 1)) => p = Buffered(s)
<1>1. Places \subseteq Nat \X (0..2) /\ s \in Nat
  BY StreamsAssumption DEF Places, Aside, Dests
<1>2. QED
  BY <1>1 DEF Ahead, Through, InWrite, Buffered

(* What the pipes and writes of a stream keep of the order of messages.    *)
LEMMA PipeKeeps ==
  ASSUME IInv, NEW s \in Dests, Pipe(s)
  PROVE  Once(Line)' /\ Ordered(Line)' /\ LeftBehind'
<1> DEFINE a == Through(s - 1)
<1>1. /\ Line \in Lines /\ a \in Places \ {Aside} /\ Line[a] # <<>>
      /\ Head(ready[s - 1]) # 0
      /\ writing[s] = 0 => Line' = Moved(Line, a, InWrite(s))
      /\ writing[s] # 0 => Line' = Moved(Line, a, Buffered(s))
  BY PipeMoves
<1>2. Once(Line) /\ Ordered(Line) /\ LeftBehind /\ TypeOK
  BY DEF IInv
<1>3. /\ InWrite(s) \in Places \ {Aside} /\ Buffered(s) \in Places \ {Aside}
      /\ a # InWrite(s) /\ a # Buffered(s)
      /\ Ahead(InWrite(s), a) /\ Ahead(Buffered(s), a)
  BY PlaceIs, PlaceOrder
<1> HIDE DEF a
<1>4. CASE writing[s] = 0
  <2>1. \A p \in Places \ {Aside} : Ahead(InWrite(s), p) /\ Ahead(p, a) =>
          \A i \in DOMAIN Line[p] : Excused(Line, Line[p][i])
    <3>1. \A p \in Places : Ahead(InWrite(s), p) /\ Ahead(p, a) => p = Buffered(s)
      BY PlaceOrder DEF a
    <3>2. \A i \in DOMAIN Line[Buffered(s)] : Excused(Line, Line[Buffered(s)][i])
      BY <1>2, <1>4, LineIs DEF LeftBehind
    <3>3. QED
      BY <3>1, <3>2
  <2> DEFINE M == Moved(Line, a, InWrite(s))
  <2>2. Once(M) /\ Ordered(M)
    BY <1>1, <1>2, <1>3, <2>1, MoveOnce, MoveOrdered
  <2>3. Line' = M
    BY <1>1, <1>4
  <2> HIDE DEF M
  <2>4. Once(Line)' /\ Ordered(Line)'
    BY <2>2, <2>3 DEF Once, Ordered, Excused
  <2>5. LeftBehind'
    <3>1. /\ writing' = [writing EXCEPT ![s] = Head(ready[s - 1])]
          /\ UNCHANGED <<buffer, errors>>
      BY <1>4 DEF Pipe
    <3>2. QED
      BY <1>1, <1>2, <3>1, ErrorsExcuse, LaterErrorsExcuse DEF LeftBehind, TypeOK
  <2>6. QED
    BY <2>4, <2>5
<1>5. CASE writing[s] # 0
  <2>1. \A p \in Places \ {Aside} : ~(Ahead(Buffered(s), p) /\ Ahead(p, a))
    BY PlaceOrder DEF a
  <2> DEFINE M == Moved(Line, a, Buffered(s))
  <2>2. Once(M) /\ Ordered(M)
    BY <1>1, <1>2, <1>3, <2>1, MoveOnce, MoveOrdered
  <2>3. Line' = M
    BY <1>1, <1>5
  <2> HIDE DEF M
  <2>4. Once(Line)' /\ Ordered(Line)'
    BY <2>2, <2>3 DEF Once, Ordered, Excused
  <2>5. LeftBehind'
    <3>1. /\ buffer' = [buffer EXCEPT ![s] = Append(buffer[s], Head(ready[s - 1]))]
          /\ UNCHANGED <<writing, errors>>
      BY <1>5 DEF Pipe
    <3>2. QED
      BY <1>2, <1>5, <3>1, ErrorsExcuse, LaterErrorsExcuse DEF LeftBehind, TypeOK
  <2>6. QED
    BY <2>4, <2>5
<1>6. QED
  BY <1>4, <1>5

LEMMA SucceedKeeps ==
  ASSUME IInv, NEW s \in Dests, Succeed(s)
  PROVE  Once(Line)' /\ Ordered(Line)' /\ LeftBehind'
<1> DEFINE a == InWrite(s)
           b == Through(s)
           c == Buffered(s)
           L1 == Moved(Line, a, b)
<1>1. /\ Line \in Lines /\ Line[a] # <<>>
      /\ buffer[s] = <<>> => Line' = L1
      /\ buffer[s] # <<>> => L1[c] # <<>> /\ Line' = Moved(L1, c, a)
  BY SucceedMoves
<1>2. /\ a \in Places \ {Aside} /\ b \in Places \ {Aside} /\ c \in Places \ {Aside}
      /\ a # b /\ c # a /\ Ahead(b, a) /\ Ahead(a, c)
      /\ \A p \in Places : /\ ~(Ahead(b, p) /\ Ahead(p, a))
                          /\ ~(Ahead(a, p) /\ Ahead(p, c))
  BY DestTyped, PlaceIs, PlaceOrder
<1>3. Once(Line) /\ Ordered(Line) /\ LeftBehind /\ TypeOK
  BY DEF IInv
<1> HIDE DEF a, b, c
<1>4. L1 \in Lines /\ Once(L1) /\ Ordered(L1)
  BY <1>1, <1>2, <1>3, MoveOnce, MoveOrdered
<1> HIDE DEF L1
<1>5. Once(Line') /\ Ordered(Line')
  <2>1. CASE buffer[s] = <<>>
    BY <1>1, <1>4, <2>1
  <2>2. CASE buffer[s] # <<>>
    BY <1>1, <1>2, <1>4, <2>2, MoveOnce, MoveOrdered
  <2>3. QED
    BY <2>1, <2>2
<1>6. Once(Line)' /\ Ordered(Line)'
  BY <1>5 DEF Once, Ordered, Excused
<1>7. LeftBehind'
  <2>1. /\ writing' = [writing EXCEPT ![s] = IF buffer[s] = <<>> THEN 0 ELSE Head(buffer[s])]
        /\ buffer' = [buffer EXCEPT ![s] = IF @ = <<>> THEN @ ELSE Tail(@)]
        /\ errors' = errors
    BY DEF Succeed, Written
  <2>2. ASSUME NEW t \in Dests, writing'[t] = 0, NEW i \in DOMAIN buffer'[t]
        PROVE  \E e \in DOMAIN errors : errors[e] < buffer'[t][i]
    <3>1. CASE t = s
      <4>1. buffer[s] = <<>>
        BY <1>3, <2>1, <2>2, <3>1, DestTyped DEF TypeOK
      <4>2. buffer'[s] = <<>>
        BY <1>3, <2>1, <4>1 DEF TypeOK
      <4>3. QED
        BY <2>2, <3>1, <4>2
    <3>2. CASE t # s
      BY <1>3, <2>1, <2>2, <3>2, ErrorsExcuse DEF LeftBehind, TypeOK
    <3>3. QED
      BY <3>1, <3>2
  <2>3. QED
    BY <2>1, <2>2, LaterErrorsExcuse DEF LeftBehind
<1>8. QED
  BY <1>6, <1>7

LEMMA FailKeeps ==
  ASSUME IInv, NEW s \in Dests, Fail(s)
  PROVE  Once(Line)' /\ Ordered(Line)' /\ LeftBehind'
<1> DEFINE a == InWrite(s)
           M == Moved(Line, a, Aside)
<1>1. Line \in Lines /\ Line[a] # <<>> /\ Line[a][1] = writing[s] /\ Line' = M
  BY FailMoves
<1>2. a \in Places \ {Aside} /\ Aside \in Places
  BY PlaceIs
<1>3. Once(Line) /\ Ordered(Line) /\ LeftBehind /\ TypeOK
  BY DEF IInv
<1>4. Once(M) /\ Ordered(M)
  BY <1>1, <1>2, <1>3, MoveOnce, MoveOrdered
<1> HIDE DEF M
<1>5. Once(Line)' /\ Ordered(Line)'
  BY <1>1, <1>4 DEF Once, Ordered, Excused
<1>6. /\ writing' = [writing EXCEPT ![s] = 0] /\ buffer' = buffer
      /\ errors' = Append(errors, writing[s])
  BY DEF Fail
<1>7. /\ errors \in Seq(1..Messages) /\ writing[s] \in 1..Messages
  BY <1>3, MessagesAssumption DEF TypeOK, Fail, Busy
<1>8. /\ \A e \in DOMAIN errors : e \in DOMAIN errors' /\ errors'[e] = errors[e]
      /\ Len(errors) + 1 \in DOMAIN errors' /\ errors'[Len(errors) + 1] = writing[s]
  BY <1>6, <1>7
<1>9. ASSUME NEW t \in Dests, writing'[t] = 0, NEW i \in DOMAIN buffer[t]
      PROVE  \E e \in DOMAIN errors' : errors'[e] < buffer[t][i]
  <2>1. CASE t # s
    <3>1. writing[t] = 0
      BY <1>3, <1>6, <1>9, <2>1 DEF TypeOK
    <3>2. QED
      BY <1>3, <1>8, <1>9, <3>1, ErrorsExcuse DEF LeftBehind
  <2>2. CASE t = s
    <3> DEFINE x == buffer[s][i]
               c == Buffered(s)
    <3>1. /\ x \in 1..Messages /\ c \in Places \ {Aside} /\ c # a /\ Ahead(a, c)
          /\ Line[c] = buffer[s] /\ i \in DOMAIN Line[c]
      <4>1. buffer[s] \in Seq(1..Messages) /\ i \in DOMAIN buffer[s]
        BY <1>3, <1>9, <2>2 DEF TypeOK
      <4>2. x \in 1..Messages
        BY <4>1, SeqFacts
      <4>3. c \in Places \ {Aside} /\ c # a /\ Ahead(a, c)
        BY PlaceIs, PlaceOrder
      <4>4. Line[c] = buffer[s]
        BY LineIs
      <4>5. QED
        BY <4>1, <4>2, <4>3, <4>4
    <3>2. 1 \in DOMAIN Line[a]
      <4>1. Line[a] \in Seq(1..Messages)
        BY <1>1, <1>2 DEF Lines
      <4>2. QED
        BY <1>1, <4>1
    <3>3. writing[s] # x
      BY <1>1, <1>2, <1>3, <3>1, <3>2 DEF Once
    <3>4. CASE writing[s] < x
      BY <1>8, <2>2, <3>4
    <3>5. CASE writing[s] > x
      <4>1. Excused(Line, x)
        BY <1>1, <1>2, <1>3, <3>1, <3>2, <3>5 DEF Ordered
      <4>2. QED
        BY <1>8, <2>2, <4>1, ErrorsExcuse
    <3>6. QED
      BY <1>7, <3>1, <3>3, <3>4, <3>5
  <2>3. QED
    BY <2>1, <2>2
<1>10. LeftBehind'
  BY <1>6, <1>9, LaterErrorsExcuse DEF LeftBehind
<1>11. QED
  BY <1>5, <1>10

-----------------------------------------------------------------------------
LEMMA PipeIInv == ASSUME IInv, Alive, NEW s \in Dests, Pipe(s) PROVE IInv'
<1>1. TypeOK /\ Room /\ OutcomeOK
  BY DEF IInv
<1>2. s - 1 \in Sources /\ Head(ready[s - 1]) \in 1..Messages /\ ready[s - 1] # <<>>
  BY PipeMoves DEF Pipe
<1> DEFINE h == Head(ready[s - 1])
           S == Seq(1..Messages)
<1>3. /\ ready[s - 1] \in S /\ buffer[s] \in S /\ h \in 0..Messages /\ h # 0
      /\ ready \in [Sources -> S] /\ buffer \in [Dests -> S]
      /\ writing \in [Dests -> 0..Messages] /\ paused \in [Dests -> BOOLEAN]
  BY <1>1, <1>2, MessagesAssumption DEF TypeOK
<1>4. Tail(ready[s - 1]) \in S
  BY <1>2, <1>3
<1>5. Append(buffer[s], h) \in S /\ Len(Append(buffer[s], h)) = Len(buffer[s]) + 1
  BY <1>2, <1>3
<1>6. /\ ready' = [ready EXCEPT ![s - 1] = Tail(ready[s - 1])]
      /\ \/ /\ writing[s] = 0 /\ writing' = [writing EXCEPT ![s] = h] /\ buffer' = buffer
         \/ /\ writing[s] # 0 /\ writing' = writing
            /\ buffer' = [buffer EXCEPT ![s] = Append(buffer[s], h)]
      /\ UNCHANGED <<pipeline, piped, out, errors, outcome, stalled>>
  BY DEF Pipe
<1>7. PICK full \in BOOLEAN : /\ full <=> Size(s) + 1 >= HighWaterMark
                              /\ paused' = [paused EXCEPT ![s] = full]
  <2> DEFINE full == Size(s) + 1 >= HighWaterMark
  <2>1. full \in BOOLEAN /\ paused' = [paused EXCEPT ![s] = full]
    BY DEF Pipe
  <2> HIDE DEF full
  <2>2. full <=> Size(s) + 1 >= HighWaterMark
    BY DEF full
  <2>3. QED
    BY <2>1, <2>2
<1>8. ~paused[s]
  BY DEF Pipe, Flowing
<1> HIDE DEF h, S
<1>9. TypeOK'
  <2>1. ready' \in [Sources -> S] /\ paused' \in [Dests -> BOOLEAN]
    <3>1. ready' = [ready EXCEPT ![s - 1] = Tail(ready[s - 1])]
      BY <1>6
    <3>2. ready' \in [Sources -> S]
      BY <1>3, <1>4, <3>1
    <3>3. QED
      BY <1>3, <1>7, <3>2
  <2>2. buffer' \in [Dests -> S] /\ writing' \in [Dests -> 0..Messages]
    BY <1>3, <1>5, <1>6
  <2>3. QED
    BY <1>1, <1>6, <2>1, <2>2 DEF TypeOK, S
<1>10. Room'
  <2>1. SUFFICES ASSUME NEW t \in Dests
                 PROVE  Size(t)' <= HighWaterMark /\ (~paused'[t] => Size(t)' < HighWaterMark)
    BY DEF Room
  <2>2. CASE t # s
    <3>1. buffer'[t] = buffer[t] /\ writing'[t] = writing[t] /\ paused'[t] = paused[t]
      BY <1>3, <1>6, <1>7, <2>2
    <3>2. QED
      BY <1>1, <3>1 DEF Room, Size
  <2>3. CASE t = s
    <3>1. Len(buffer[s]) \in Nat
      BY <1>3, SeqFacts
    <3>2. Size(s) < HighWaterMark /\ Size(s) \in Nat
      <4>1. Size(s) < HighWaterMark
        BY <1>1, <1>8 DEF Room
      <4>2. Size(s) = Len(buffer[s]) + 0 \/ Size(s) = Len(buffer[s]) + 1
        BY DEF Size
      <4>3. QED
        BY <3>1, <4>1, <4>2
    <3>3. Size(s)' = Size(s) + 1
      <4>1. CASE writing[s] = 0
        <5>1. writing'[s] = h /\ buffer' = buffer
          BY <1>3, <1>6, <4>1
        <5>2. QED
          BY <1>3, <3>1, <4>1, <5>1 DEF Size
      <4>2. CASE writing[s] # 0
        <5>1. writing' = writing /\ buffer'[s] = Append(buffer[s], h)
          BY <1>3, <1>6, <4>2
        <5>2. QED
          BY <1>5, <3>1, <4>2, <5>1 DEF Size
      <4>3. QED
        BY <4>1, <4>2
    <3>4. paused'[s] = full
      BY <1>3, <1>7
    <3>5. ~full => Size(s) + 1 < HighWaterMark
      BY <1>7, <3>2, HighWaterMarkAssumption
    <3>6. QED
      BY <2>3, <3>2, <3>3, <3>4, <3>5, HighWaterMarkAssumption
  <2>4. QED
    BY <2>2, <2>3
<1>11. OutcomeOK'
  BY <1>1, <1>6 DEF OutcomeOK, Repipes
<1>12. QED
  BY <1>9, <1>10, <1>11, PipeKeeps DEF IInv

LEMMA SucceedIInv == ASSUME IInv, Alive, NEW s \in Dests, Succeed(s) PROVE IInv'
<1> DEFINE S == Seq(1..Messages)
<1>1. /\ TypeOK /\ Room /\ OutcomeOK /\ (s # N => s \in Sources)
      /\ ready \in [Sources -> S] /\ buffer \in [Dests -> S]
      /\ writing \in [Dests -> 0..Messages] /\ paused \in [Dests -> BOOLEAN]
  BY DestTyped DEF IInv, TypeOK
<1>2. writing[s] \in 1..Messages /\ writing[s] # 0
  BY <1>1, MessagesAssumption DEF Succeed, Busy
<1>3. UNCHANGED <<pipeline, piped, errors, outcome, stalled>>
  BY DEF Succeed
<1>4. ready' \in [Sources -> S] /\ out' \in S
  <2>1. CASE s = N
    <3>1. out' = Append(out, writing[s]) /\ ready' = ready
      BY <2>1 DEF Succeed
    <3>2. out \in S
      BY <1>1 DEF TypeOK
    <3>3. QED
      BY <1>1, <1>2, <3>1, <3>2
  <2>2. CASE s # N
    <3>1. Append(ready[s], writing[s]) \in S
      BY <1>1, <1>2, <2>2
    <3>2. /\ ready' = [ready EXCEPT ![s] = Append(ready[s], writing[s])]
          /\ out' = out
      BY <2>2 DEF Succeed
    <3>3. QED
      BY <1>1, <3>1, <3>2 DEF TypeOK
  <2>3. QED
    BY <2>1, <2>2
<1>5. PICK f \in S, w \in 0..Messages :
        /\ f = (IF buffer[s] = <<>> THEN buffer[s] ELSE Tail(buffer[s]))
        /\ w = (IF buffer[s] = <<>> THEN 0 ELSE Head(buffer[s]))
        /\ Len(f) + (IF w = 0 THEN 0 ELSE 1) = Len(buffer[s])
  <2>1. CASE buffer[s] = <<>>
    BY <1>1, <2>1, MessagesAssumption
  <2>2. CASE buffer[s] # <<>>
    <3>1. PICK g \in Seq(1..Messages) : g = buffer[s] /\ g # <<>>
      BY <1>1, <2>2
    <3>2. Tail(g) \in S /\ Len(Tail(g)) = Len(g) - 1 /\ Len(g) \in Nat
      BY <3>1, SeqFacts, TailFacts
    <3>3. Head(g) \in 1..Messages
      BY <3>1, TailFacts
    <3>4. Head(g) \in 0..Messages /\ Head(g) # 0 /\ Len(Tail(g)) + 1 = Len(g)
      BY <3>2, <3>3, MessagesAssumption
    <3>5. QED
      BY <2>2, <3>1, <3>2, <3>4
  <2>3. QED
    BY <2>1, <2>2
<1>6. /\ buffer' = [buffer EXCEPT ![s] = f] /\ writing' = [writing EXCEPT ![s] = w]
      /\ paused' = [paused EXCEPT ![s] = @ /\ buffer[s] # <<>>]
  BY <1>1, <1>5 DEF Succeed, Written
<1> HIDE DEF S
<1>7. TypeOK'
  <2>1. /\ buffer' \in [Dests -> S] /\ writing' \in [Dests -> 0..Messages]
        /\ paused' \in [Dests -> BOOLEAN]
    BY <1>1, <1>5, <1>6
  <2>2. QED
    BY <1>1, <1>3, <1>4, <2>1 DEF TypeOK, S
<1>8. Room'
  <2>1. SUFFICES ASSUME NEW t \in Dests
                 PROVE  Size(t)' <= HighWaterMark /\ (~paused'[t] => Size(t)' < HighWaterMark)
    BY DEF Room
  <2>2. CASE t # s
    <3>1. buffer'[t] = buffer[t] /\ writing'[t] = writing[t] /\ paused'[t] = paused[t]
      BY <1>1, <1>6, <2>2
    <3>2. QED
      BY <1>1, <3>1 DEF Room, Size
  <2>3. CASE t = s
    <3>1. Len(buffer[s]) \in Nat /\ Len(f) \in Nat
      BY <1>1, <1>5, SeqFacts
    <3>2. buffer'[s] = f /\ writing'[s] = w /\ paused'[s] = (paused[s] /\ buffer[s] # <<>>)
      BY <1>1, <1>6
    <3>3. Size(s)' = Len(buffer[s])
      BY <1>5, <3>2 DEF Size
    <3>4. Size(s) = Len(buffer[s]) + 1 /\ Size(s) <= HighWaterMark
      BY <1>1, <1>2 DEF Room, Size
    <3>5. QED
      BY <2>3, <3>1, <3>3, <3>4, HighWaterMarkAssumption
  <2>4. QED
    BY <2>2, <2>3
<1>9. OutcomeOK'
  BY <1>1, <1>3 DEF OutcomeOK, Repipes, Alive
<1>10. QED
  BY <1>7, <1>8, <1>9, SucceedKeeps DEF IInv

LEMMA FailIInv == ASSUME IInv, Alive, NEW s \in Dests, Fail(s) PROVE IInv'
<1>1. TypeOK /\ Room /\ OutcomeOK
  BY DEF IInv
<1>2. /\ writing[s] \in 1..Messages /\ writing[s] # 0
      /\ errors' = Append(errors, writing[s]) /\ writing' = [writing EXCEPT ![s] = 0]
      /\ UNCHANGED <<pipeline, ready, buffer, out, stalled>>
  BY <1>1, MessagesAssumption DEF TypeOK, Fail, Busy
<1>3. \/ /\ Repipes /\ paused' = [paused EXCEPT ![s] = FALSE] /\ piped' = piped
         /\ outcome' = outcome
      \/ /\ ~Repipes /\ paused' = paused /\ piped' = [piped EXCEPT ![s] = FALSE]
         /\ outcome' = "rejected"
  BY DEF Fail, OnError, Alive
<1>4. TypeOK'
  <2>1. errors' \in Seq(1..Messages)
    BY <1>1, <1>2 DEF TypeOK
  <2>2. writing' \in [Dests -> 0..Messages]
    BY <1>1, <1>2, MessagesAssumption DEF TypeOK
  <2>3. /\ paused' \in [Dests -> BOOLEAN] /\ piped' \in [Dests -> BOOLEAN]
        /\ outcome' \in Outcomes
    BY <1>1, <1>3 DEF TypeOK, Outcomes
  <2>4. QED
    BY <1>1, <1>2, <2>1, <2>2, <2>3 DEF TypeOK
<1>5. Room'
  <2>1. SUFFICES ASSUME NEW t \in Dests
                 PROVE  Size(t)' <= HighWaterMark /\ (~paused'[t] => Size(t)' < HighWaterMark)
    BY DEF Room
  <2>2. Len(buffer[t]) \in Nat /\ buffer' = buffer
    BY <1>1, <1>2 DEF TypeOK
  <2>3. CASE t # s
    <3>1. writing'[t] = writing[t] /\ paused'[t] = paused[t]
      BY <1>1, <1>2, <1>3, <2>3 DEF TypeOK
    <3>2. QED
      BY <1>1, <2>2, <3>1 DEF Room, Size
  <2>4. CASE t = s
    <3>1. Size(t)' = Len(buffer[t])
      BY <1>1, <1>2, <2>2, <2>4 DEF Size, TypeOK
    <3>2. Len(buffer[t]) + 1 <= HighWaterMark
      BY <1>1, <1>2, <2>4 DEF Room, Size
    <3>3. QED
      BY <2>2, <3>1, <3>2, HighWaterMarkAssumption
  <2>5. QED
    BY <2>3, <2>4
<1>6. OutcomeOK'
  BY <1>1, <1>2, <1>3 DEF OutcomeOK, Repipes, Alive
<1>7. QED
  BY <1>4, <1>5, <1>6, FailKeeps DEF IInv

LEMMA SameFlow ==
  ASSUME IInv, TypeOK', OutcomeOK', UNCHANGED <<ready, buffer, writing, paused, out, errors>>
  PROVE  IInv'
<1>1. Line' = Line
  BY DEF Line
<1>2. Once(Line)' /\ Ordered(Line)'
  BY <1>1 DEF IInv, Once, Ordered, Excused
<1>3. LeftBehind'
  BY <1>1 DEF IInv, LeftBehind, Excused
<1>4. Room'
  BY DEF IInv, Room, Size
<1>5. QED
  BY <1>2, <1>3, <1>4 DEF IInv

LEMMA SettleIInv == ASSUME IInv, Settle PROVE IInv'
<1>1. TypeOK /\ OutcomeOK /\ UNCHANGED <<pipeline, flow, out, errors, stalled>>
  BY DEF IInv, Settle
<1>2. outcome = "running" /\ outcome' \in {"crashed", "finish", "closed"}
  BY DEF Settle, SourceFails, Finish, Close
<1>3. ASSUME outcome' = "finish", NEW n \in 1..Messages
      PROVE  n \in ToSet(out) \cup ToSet(errors)
  <2>1. \A d \in Dests : ready[d - 1] = <<>> /\ writing[d] = 0 /\ buffer[d] = <<>>
    BY <1>3 DEF Settle, SourceFails, Close, Finish, Finished, Idle, Dests
  <2>2. PICK p, i : p \in Places /\ i \in DOMAIN Line[p] /\ Line[p][i] = n
    BY DEF IInv, Once
  <2>3. CASE p = Aside
    BY <2>2, <2>3, LineIs DEF ToSet
  <2>4. CASE \E s \in 1..N : p = Through(s)
    <3>1. PICK s \in 1..N : p = Through(s)
      BY <2>4
    <3>2. CASE s = N
      BY <2>2, <3>1, <3>2, LineIs DEF ToSet
    <3>3. CASE s # N
      <4>1. s + 1 \in Dests /\ (s + 1) - 1 = s
        BY <3>3, StreamsAssumption DEF Dests
      <4>2. ready[s] = <<>>
        BY <2>1, <4>1
      <4>3. Line[p] = <<>>
        BY <3>1, <3>3, <4>2, LineIs
      <4>4. QED
        BY <2>2, <4>3
    <3>4. QED
      BY <3>2, <3>3
  <2>5. CASE \E s \in Dests : p = Buffered(s) \/ p = InWrite(s)
    <3>1. Line[p] = <<>>
      BY <2>1, <2>5, LineIs
    <3>2. QED
      BY <2>2, <3>1
  <2>6. QED
    BY <2>2, <2>3, <2>4, <2>5, PlaceIs
<1>4. OutcomeOK'
  BY <1>1, <1>2, <1>3 DEF OutcomeOK, Repipes, ToSet
<1>5. TypeOK'
  BY <1>1, <1>2 DEF TypeOK, flow, Outcomes
<1>6. QED
  BY <1>1, <1>4, <1>5, SameFlow DEF flow

LEMMA NextIInv == IInv /\ [Next]_vars => IInv'
<1> SUFFICES ASSUME IInv, [Next]_vars PROVE IInv'
  OBVIOUS
<1>1. ASSUME NEW s \in Dests, Step(s) PROVE IInv'
  BY <1>1, PipeIInv, SucceedIInv, FailIInv DEF Step
<1>2. ASSUME UNCHANGED <<pipeline, flow, out, errors, outcome>>, stalled' \in BOOLEAN
      PROVE  IInv'
  <2>1. TypeOK' /\ OutcomeOK'
    BY <1>2 DEF flow, IInv, TypeOK, OutcomeOK, Repipes, ToSet
  <2>2. QED
    BY <1>2, <2>1, SameFlow DEF flow
<1>3. CASE NotificationRejected
  BY <1>2, <1>3 DEF NotificationRejected
<1>4. CASE UNCHANGED vars
  BY <1>2, <1>4 DEF vars, IInv, TypeOK
<1>5. QED
  BY <1>1, <1>3, <1>4, SettleIInv DEF Next

(* The invariant the properties below come from holds in every state.      *)
THEOREM Inductive == Spec => []IInv
<1>1. QED
  BY InitIInv, NextIInv, PTL DEF Spec

(* rePipeline() and pipelinePromise(): whatever fails and is piped again,  *)
(* a message is in one place, and a pipeline that finishes has none left.  *)
THEOREM MessagesOnce == Spec => []EveryMessageOnce
<1>1. IInv => EveryMessageOnce
  BY DEF IInv, OutcomeOK, EveryMessageOnce
<1>2. QED
  BY <1>1, Inductive, PTL

(* The handler of an error that pipes again opens the pipe only into a     *)
(* stream that has room: no stream ever holds more than its highWaterMark. *)
THEOREM Backpressure == Spec => []BackpressureKept
<1>1. IInv => BackpressureKept
  BY DEF IInv, Room, BackpressureKept
<1>2. QED
  BY <1>1, Inductive, PTL

(* Messages leave the pipeline in the order of the source but for those    *)
(* that come after one that failed.                                        *)
THEOREM OrderUntilFailure == Spec => []OvertakenOnlyAfterError
<1>1. ASSUME IInv PROVE OvertakenOnlyAfterError
  <2>1. SUFFICES ASSUME NEW i \in DOMAIN out, NEW j \in DOMAIN out, i < j, out[i] > out[j]
                 PROVE  \E n \in ToSet(errors) : n < out[j]
    BY DEF OvertakenOnlyAfterError
  <2>2. Through(N) \in Places \ {Aside} /\ Line[Through(N)] = out
    BY StreamsAssumption, PlaceIs, LineIs
  <2>3. Excused(Line, out[j])
    BY <1>1, <2>1, <2>2 DEF IInv, Ordered
  <2>4. QED
    BY <2>3, ErrorsExcuse DEF ToSet
<1>2. QED
  BY <1>1, Inductive, PTL
=============================================================================
