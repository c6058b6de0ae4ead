------------------------- MODULE SubtreeDataProofs --------------------------
(***************************************************************************)
(* Proofs about module SubtreeData.  The inductive invariant DInv adds to  *)
(* TxsMatchNodes what ties a file that is being read in chunks to the      *)
(* parts read so far: the transactions taken from it are those of the      *)
(* nodes from the first one on, without a gap, and nothing else is set.    *)
(* Reading the whole file at once is a recursive function; that it exists  *)
(* and what it computes is shown by the least position at which it would   *)
(* not.                                                                    *)
(***************************************************************************)
EXTENDS SubtreeData, CommonLemmas

-----------------------------------------------------------------------------
(* The inductive invariant.                                                *)

Val == anyTx \cup {NULL, Placeholder}

\* Only the first node can be the placeholder or a coinbase.
NodesOK ==
  /\ nodes \in Seq(Val)
  /\ \A i \in 2 .. Len(nodes) : nodes[i] \in Txs

\* An array whose entries are the transactions of the nodes from the first
\* one that is in a file on, as far as m of them.
Filled(m) ==
  [i \in 1 .. Len(nodes) |->
     IF i \in txStartIndex + 1 .. txStartIndex + m THEN nodes[i] ELSE NULL]

\* How many transactions of the file were taken; pos is one more when reading
\* ran into a transaction that is cut off.
got == IF pos <= Len(file) THEN pos ELSE Len(file)

\* Nothing was skipped: the next index belongs to the next transaction, unless
\* the file has ended.
Reading ==
  /\ next \in 0 .. Len(nodes)
  /\ first <= Len(nodes)
  /\ \/ first = txStartIndex + pos
     \/ pos >= Len(file) /\ first >= txStartIndex + Len(file)
  /\ txStartIndex + got <= Len(nodes)
  /\ \A k \in 1 .. got : file[k] = nodes[txStartIndex + k]
  /\ parts = Filled(got)

DInv ==
  /\ NodesOK
  /\ txs \in Seq(Val) /\ Len(txs) >= Len(nodes)
  /\ file \in Seq(Val)
  /\ written \in Nat \cup {-1}
  /\ next \in -1 .. Len(nodes)
  /\ pos \in Nat
  /\ TxsMatchNodes
  /\ next = -1 \/ written = -1
  /\ next # -1 => Reading

-----------------------------------------------------------------------------
(* Reading a whole file.                                                   *)

\* g holds what the loop of serializeFromReader has after k transactions, for
\* every k up to n.
IsLoop(f, g, n) ==
  /\ g = [k \in 0 .. n |-> g[k]]
  /\ g[0] = [txIndex |-> txStartIndex, txs |-> empty(Len(nodes)), err |-> "nil"]
  /\ \A k \in 1 .. n : g[k] = readOne(g[k - 1], f[k])

\* The loop runs to the end of every file.
LEMMA LoopExists ==
  ASSUME NEW f, NEW n \in Nat
  PROVE  \E g : IsLoop(f, g, n)
<1> DEFINE T == {m \in Nat : ~\E g : IsLoop(f, g, m)}
<1> SUFFICES ASSUME T # {} PROVE FALSE
  OBVIOUS
<1>1. PICK x \in T : \A y \in T : x <= y
  BY MinExists
<1>2. CASE x = 0
  <2> DEFINE b == [txIndex |-> txStartIndex, txs |-> empty(Len(nodes)), err |-> "nil"]
             g == [k \in 0 .. 0 |-> b]
  <2> HIDE DEF b
  <2>1. g = [k \in 0 .. 0 |-> g[k]] /\ g[0] = b /\ 1 .. 0 = {}
    OBVIOUS
  <2>2. IsLoop(f, g, 0)
    <3> HIDE DEF g
    <3> QED BY <2>1 DEF IsLoop, b
  <2>3. x \notin T
    BY <2>2, <1>2
  <2> QED BY <2>3
<1>3. CASE x # 0
  <2>1. x - 1 \in Nat /\ x - 1 < x /\ x \in Nat
    BY <1>3
  <2>2. PICK g : IsLoop(f, g, x - 1)
    BY <2>1, <1>1
  <2> DEFINE v == readOne(g[x - 1], f[x])
             h == [k \in 0 .. x |-> IF k = x THEN v ELSE g[k]]
  <2> HIDE DEF v
  <2>3. h = [k \in 0 .. x |-> h[k]]
    OBVIOUS
  <2>4. \A k \in 0 .. x - 1 : h[k] = g[k]
    BY <2>1
  <2>5. h[x] = v
    BY <2>1
  <2> HIDE DEF h, T
  <2>6. h[0] = g[0]
    BY <2>4, <2>1
  <2>7. ASSUME NEW k \in 1 .. x PROVE h[k] = readOne(h[k - 1], f[k])
    <3>1. k - 1 \in 0 .. x - 1
      BY <2>1
    <3>2. h[k - 1] = g[k - 1]
      BY <3>1, <2>4
    <3>3. CASE k = x
      BY <3>2, <3>3, <2>5, Zenon DEF v
    <3>4. CASE k # x
      <4>1. k \in 1 .. x - 1 /\ k \in 0 .. x - 1
        BY <3>4, <2>1
      <4>2. g[k] = readOne(g[k - 1], f[k])
        BY <4>1, <2>2 DEF IsLoop
      <4>3. h[k] = g[k]
        BY <4>1, <2>4
      <4> QED BY <4>2, <4>3, <3>2
    <3> QED BY <3>3, <3>4
  <2>8. IsLoop(f, h, x)
    BY <2>2, <2>3, <2>6, <2>7, Zenon DEF IsLoop
  <2> QED BY <2>8 DEF T
<1> QED BY <1>2, <1>3

\* What serializeFromReader returns is what the loop has at the end.
LEMMA LoopValue ==
  ASSUME nodes # << >>, NEW f, Len(f) \in Nat
  PROVE  \E g : IsLoop(f, g, Len(f)) /\ serializeFromReader(f) = g[Len(f)]
<1> DEFINE n == Len(f)
           b == [txIndex |-> txStartIndex, txs |-> empty(Len(nodes)), err |-> "nil"]
           P(g) == g = [k \in 0 .. n |-> IF k = 0 THEN b ELSE readOne(g[k - 1], f[k])]
           c == CHOOSE g : P(g)
<1> HIDE DEF b
<1>1. serializeFromReader(f) = c[n]
  BY Zenon DEF serializeFromReader, b
<1> HIDE DEF n
<1>2. n \in Nat
  BY DEF n
<1>3. PICK h : IsLoop(f, h, n)
  BY <1>2, LoopExists
<1>4. P(h)
  <2> DEFINE r == [k \in 0 .. n |-> IF k = 0 THEN b ELSE readOne(h[k - 1], f[k])]
  <2>1. ASSUME NEW k \in 0 .. n PROVE h[k] = IF k = 0 THEN b ELSE readOne(h[k - 1], f[k])
    <3>1. k = 0 \/ k \in 1 .. n
      BY <1>2
    <3>2. h[0] = b /\ \A i \in 1 .. n : h[i] = readOne(h[i - 1], f[i])
      BY <1>3 DEF IsLoop, b
    <3> QED BY <3>1, <3>2
  <2>2. [k \in 0 .. n |-> h[k]] = r
    BY <2>1, Zenon
  <2>3. h = [k \in 0 .. n |-> h[k]]
    BY <1>3 DEF IsLoop
  <2> QED BY <2>2, <2>3
<1>5. P(c)
  BY <1>4, Zenon
<1>6. IsLoop(f, c, n)
  <2> HIDE DEF c
  <2>1. ASSUME NEW k \in 0 .. n PROVE c[k] = IF k = 0 THEN b ELSE readOne(c[k - 1], f[k])
    BY <1>5
  <2>2. 0 \in 0 .. n
    BY <1>2
  <2>3. c[0] = b
    BY <2>1, <2>2
  <2>4. ASSUME NEW k \in 1 .. n PROVE c[k] = readOne(c[k - 1], f[k])
    <3>1. k \in 0 .. n /\ k # 0
      BY <1>2
    <3> QED BY <3>1, <2>1
  <2>5. c = [k \in 0 .. n |-> c[k]]
    BY <1>5, <2>1, Zenon
  <2> QED BY <2>3, <2>4, <2>5 DEF IsLoop, b
<1> QED BY <1>1, <1>6 DEF n

ReadErrs == {"nil", "ErrTxIndexOutOfBounds", "ErrTxHashMismatch"}

\* What the loop has is right, whatever the file holds.
RecOK(s) ==
  /\ s \in [txIndex : Nat, txs : Seq(Val), err : ReadErrs]
  /\ Len(s.txs) = Len(nodes)
  /\ \A i \in 1 .. Len(nodes) :
       \/ s.txs[i] = NULL
       \/ s.txs[i] = nodes[i]
       \/ i = 1 /\ s.txs[i] \in Coinbases

\* One more transaction keeps it so: what is stored was compared with the
\* node, or is a coinbase in front.
LEMMA ReadOneOK ==
  ASSUME NodesOK, nodes # << >>, NEW s, RecOK(s), NEW tx
  PROVE  RecOK(readOne(s, tx))
<1> DEFINE n == Len(nodes)
<1>1. n \in Nat /\ n >= 1
  BY DEF NodesOK
<1>2. /\ s \in [txIndex : Nat, txs : Seq(Val), err : ReadErrs]
      /\ s.txIndex \in Nat
      /\ s.txs \in Seq(Val) /\ Len(s.txs) = n
      /\ DOMAIN s.txs = 1 .. n
      /\ \A i \in 1 .. n : s.txs[i] = NULL \/ s.txs[i] = nodes[i]
                             \/ (i = 1 /\ s.txs[i] \in Coinbases)
  BY DEF RecOK
<1> HIDE DEF n
<1>3. ASSUME NEW j \in 1 .. n, NEW x \in Val,
             x = nodes[j] \/ (j = 1 /\ x \in Coinbases)
      PROVE  RecOK([s EXCEPT !.txs[j] = x])
  <2> DEFINE a == [s.txs EXCEPT ![j] = x]
             r == [s EXCEPT !.txs[j] = x]
  <2>1. a \in Seq(Val) /\ Len(a) = n
    BY <1>2
  <2>2. \A i \in 1 .. n : a[i] = IF i = j THEN x ELSE s.txs[i]
    BY <1>2
  <2>3. r.txs = a /\ r \in [txIndex : Nat, txs : Seq(Val), err : ReadErrs]
    BY <1>2, <2>1
  <2> HIDE DEF a, r
  <2>4. \A i \in 1 .. n : a[i] = NULL \/ a[i] = nodes[i] \/ (i = 1 /\ a[i] \in Coinbases)
    BY <1>2, <1>3, <2>2
  <2>5. RecOK(r)
    BY <2>1, <2>3, <2>4 DEF RecOK, n
  <2> QED BY <2>5 DEF r
<1>4. ASSUME NEW e \in ReadErrs PROVE RecOK([s EXCEPT !.err = e])
  <2> DEFINE r == [s EXCEPT !.err = e]
  <2>1. r.txs = s.txs /\ r \in [txIndex : Nat, txs : Seq(Val), err : ReadErrs]
    BY <1>2
  <2> HIDE DEF r
  <2>2. RecOK(r)
    BY <2>1, <1>2 DEF RecOK, n
  <2> QED BY <2>2 DEF r
<1>5. CASE s.err # "nil"
  BY <1>5, Zenon DEF readOne
<1>6. CASE s.err = "nil" /\ s.txIndex = 1 /\ tx \in Coinbases
  <2>1. readOne(s, tx) = [s EXCEPT !.txs[1] = tx]
    BY <1>6, Zenon DEF readOne
  <2>2. 1 \in 1 .. n /\ tx \in Val
    BY <1>1, <1>6 DEF Val, anyTx
  <2>3. RecOK([s EXCEPT !.txs[1] = tx])
    BY <1>3, <1>6, <2>2
  <2> QED BY <2>1, <2>3
<1>7. CASE s.err = "nil" /\ ~(s.txIndex = 1 /\ tx \in Coinbases)
  <2> DEFINE j == s.txIndex + 1
  <2>1. readOne(s, tx) =
          IF s.txIndex >= Len(nodes) THEN [s EXCEPT !.err = "ErrTxIndexOutOfBounds"]
          ELSE IF nodes[j] # tx THEN [s EXCEPT !.err = "ErrTxHashMismatch"]
          ELSE [s EXCEPT !.txs[j] = tx, !.txIndex = @ + 1]
    BY <1>7, Zenon DEF readOne
  <2>2. CASE s.txIndex >= Len(nodes)
    <3>1. readOne(s, tx) = [s EXCEPT !.err = "ErrTxIndexOutOfBounds"]
      BY <2>1, <2>2, Zenon
    <3>2. "ErrTxIndexOutOfBounds" \in ReadErrs
      BY DEF ReadErrs
    <3> QED BY <3>1, <3>2, <1>4, Zenon
  <2>3. CASE ~(s.txIndex >= Len(nodes)) /\ nodes[j] # tx
    <3>1. readOne(s, tx) = [s EXCEPT !.err = "ErrTxHashMismatch"]
      BY <2>1, <2>3, Zenon
    <3>2. "ErrTxHashMismatch" \in ReadErrs
      BY DEF ReadErrs
    <3> QED BY <3>1, <3>2, <1>4, Zenon
  <2>4. CASE ~(s.txIndex >= Len(nodes)) /\ nodes[j] = tx
    <3>1. j \in 1 .. n /\ tx \in Val
      BY <2>4, <1>1, <1>2 DEF n, NodesOK
    <3> DEFINE r == [s EXCEPT !.txs[j] = tx]
               t == [s EXCEPT !.txs[j] = tx, !.txIndex = @ + 1]
    <3>2. RecOK(r)
      BY <3>1, <2>4, <1>3
    <3>3. t.txs = r.txs /\ t \in [txIndex : Nat, txs : Seq(Val), err : ReadErrs]
      <4> DEFINE a == [s.txs EXCEPT ![j] = tx]
      <4>1. a \in Seq(Val)
        BY <1>2, <3>1
      <4>2. r.txs = a /\ t = [s EXCEPT !.txs = a, !.txIndex = s.txIndex + 1]
        BY <1>2
      <4>3. s.txIndex + 1 \in Nat
        BY <1>2
      <4> DEFINE k == s.txIndex + 1
      <4> HIDE DEF a, t, r, k
      <4>4. t = [s EXCEPT !.txs = a, !.txIndex = k] /\ k \in Nat
        BY <4>2, <4>3 DEF k
      <4>5. t.txs = a
        BY <4>4, <1>2
      <4>6. t \in [txIndex : Nat, txs : Seq(Val), err : ReadErrs]
        BY <4>1, <4>4, <1>2
      <4> QED BY <4>2, <4>5, <4>6
    <3>4. readOne(s, tx) = t
      BY <2>1, <2>4
    <3> HIDE DEF r, t
    <3>5. RecOK(t)
      BY <3>2, <3>3 DEF RecOK
    <3> QED BY <3>4, <3>5
  <2> QED BY <2>2, <2>3, <2>4
<1> QED BY <1>5, <1>6, <1>7

\* Before the first transaction nothing is set.
LEMMA StartOK ==
  ASSUME NodesOK
  PROVE  RecOK([txIndex |-> txStartIndex, txs |-> empty(Len(nodes)), err |-> "nil"])
<1>1. Len(nodes) \in Nat
  BY DEF NodesOK
<1>2. empty(Len(nodes)) \in Seq(Val) /\ Len(empty(Len(nodes))) = Len(nodes)
  BY <1>1 DEF empty, Val
<1>3. \A i \in 1 .. Len(nodes) : empty(Len(nodes))[i] = NULL
  BY DEF empty
<1>4. txStartIndex \in Nat
  BY DEF txStartIndex
<1> DEFINE e == empty(Len(nodes))
           r == [txIndex |-> txStartIndex, txs |-> e, err |-> "nil"]
<1> HIDE DEF e
<1>5. r \in [txIndex : Nat, txs : Seq(Val), err : ReadErrs] /\ r.txs = e
  <2>1. "nil" \in ReadErrs
    BY DEF ReadErrs
  <2>2. txStartIndex \in Nat /\ e \in Seq(Val)
    BY <1>2, <1>4 DEF e
  <2> QED BY <2>1, <2>2, Zenon
<1> HIDE DEF r
<1>6. RecOK(r)
  BY <1>2, <1>3, <1>5 DEF RecOK, e
<1> QED BY <1>6 DEF r, e

\* Whatever a file holds, an entry that reading it sets is the transaction of
\* its node, or a coinbase in front.
LEMMA ReadMatches ==
  ASSUME NodesOK, nodes # << >>, NEW f, Len(f) \in Nat
  PROVE  RecOK(serializeFromReader(f))
<1>1. PICK g : IsLoop(f, g, Len(f)) /\ serializeFromReader(f) = g[Len(f)]
  BY LoopValue
<1> DEFINE T == {k \in 0 .. Len(f) : ~RecOK(g[k])}
<1>2. ASSUME T # {} PROVE FALSE
  <2>1. PICK x \in T : \A y \in T : x <= y
    <3>1. T \in SUBSET Nat
      OBVIOUS
    <3> QED BY <3>1, <1>2, MinExists
  <2>2. g[0] = [txIndex |-> txStartIndex, txs |-> empty(Len(nodes)), err |-> "nil"]
    BY <1>1 DEF IsLoop
  <2>3. x # 0
    BY <2>2, StartOK
  <2>4. x \in 1 .. Len(f) /\ x - 1 \in 0 .. Len(f) /\ x - 1 < x
    BY <2>3
  <2>5. RecOK(g[x - 1])
    BY <2>1, <2>4
  <2>6. g[x] = readOne(g[x - 1], f[x])
    BY <1>1, <2>4 DEF IsLoop
  <2>7. RecOK(g[x])
    BY <2>5, <2>6, ReadOneOK
  <2> QED BY <2>7
<1> QED BY <1>1, <1>2

\* Storing the next transaction fills one entry more.
LEMMA FilledStep ==
  ASSUME NodesOK, NEW m \in Nat, txStartIndex + m + 1 <= Len(nodes)
  PROVE  [Filled(m) EXCEPT ![txStartIndex + m + 1] = nodes[txStartIndex + m + 1]]
           = Filled(m + 1)
<1> DEFINE n == Len(nodes)
           d == txStartIndex
           j == d + m + 1
           a == [Filled(m) EXCEPT ![j] = nodes[j]]
<1>1. n \in Nat /\ d \in Nat /\ j <= n
  BY DEF NodesOK, txStartIndex
<1>2. DOMAIN Filled(m) = 1 .. n
  BY DEF Filled
<1>3. a = [i \in 1 .. n |-> a[i]]
  BY <1>2
<1>4. ASSUME NEW i \in 1 .. n
      PROVE  a[i] = IF i \in d + 1 .. d + (m + 1) THEN nodes[i] ELSE NULL
  <2>1. Filled(m)[i] = IF i \in d + 1 .. d + m THEN nodes[i] ELSE NULL
    BY DEF Filled
  <2>2. a[i] = IF i = j THEN nodes[j] ELSE Filled(m)[i]
    BY <1>2
  <2> HIDE DEF a, d, n
  <2> QED BY <2>1, <2>2, <1>1
<1>5. Filled(m + 1) = [i \in 1 .. n |-> IF i \in d + 1 .. d + (m + 1) THEN nodes[i] ELSE NULL]
  BY DEF Filled
<1> HIDE DEF a, d, n, j
<1>6. a = Filled(m + 1)
  BY <1>3, <1>4, <1>5, Zenon
<1> QED BY <1>6 DEF a, j, d

\* The two assignments of one turn of the loop.
LEMMA StoreAndCount ==
  ASSUME NEW i, NEW F, NEW v, NEW r, r = [txIndex |-> i, txs |-> F, err |-> "nil"]
  PROVE  [r EXCEPT !.txs[r.txIndex + 1] = v, !.txIndex = @ + 1]
           = [txIndex |-> i + 1, txs |-> [F EXCEPT ![i + 1] = v], err |-> "nil"]
<1> DEFINE G == [F EXCEPT ![i + 1] = v]
           w == i + 1
           q == [r EXCEPT !.txs = G]
<1>1. r.txs = F /\ r.txIndex = i
  OBVIOUS
<1>2. [r EXCEPT !.txs[r.txIndex + 1] = v, !.txIndex = @ + 1]
        = [[r EXCEPT !.txs = G] EXCEPT !.txIndex = w]
  BY <1>1
<1> HIDE DEF G, w
<1>3. q = [txIndex |-> i, txs |-> G, err |-> "nil"]
  OBVIOUS
<1> HIDE DEF q
<1>4. [q EXCEPT !.txIndex = w] = [txIndex |-> w, txs |-> G, err |-> "nil"]
  BY <1>3
<1> QED BY <1>2, <1>4 DEF G, w, q

\* f holds the transactions of the nodes, from the first one that is in a
\* file on and without a gap, but perhaps not to the last.
FileMatches(f) ==
  /\ Len(f) \in Nat
  /\ txStartIndex + Len(f) <= Len(nodes)
  /\ \A k \in 1 .. Len(f) : f[k] = nodes[txStartIndex + k]

\* Such a file is read without an error, and every transaction of it gets to
\* its place: no node after the first is a coinbase, so that none is taken
\* for the one that belongs in front.
LEMMA ReadOfPrefix ==
  ASSUME NodesOK, nodes # << >>, NEW f, FileMatches(f), SubtreeDataAssumption
  PROVE  serializeFromReader(f) =
           [txIndex |-> txStartIndex + Len(f), txs |-> Filled(Len(f)), err |-> "nil"]
<1> DEFINE n == Len(nodes)
           d == txStartIndex
           R(k) == [txIndex |-> d + k, txs |-> Filled(k), err |-> "nil"]
<1>0. n \in Nat /\ d \in Nat /\ Len(f) \in Nat /\ d + Len(f) <= n
  BY DEF NodesOK, txStartIndex, FileMatches
<1>1. PICK g : IsLoop(f, g, Len(f)) /\ serializeFromReader(f) = g[Len(f)]
  BY <1>0, LoopValue
<1> DEFINE T == {k \in 0 .. Len(f) : g[k] # R(k)}
<1>2. ASSUME T # {} PROVE FALSE
  <2>1. PICK x \in T : \A y \in T : x <= y
    <3>1. T \in SUBSET Nat
      OBVIOUS
    <3> QED BY <3>1, <1>2, MinExists
  <2>2. g[0] = R(0)
    <3>1. g[0] = [txIndex |-> d, txs |-> empty(n), err |-> "nil"]
      BY <1>1 DEF IsLoop
    <3>2. empty(n) = Filled(0)
      <4>1. \A i \in 1 .. n : i \notin d + 1 .. d + 0
        BY <1>0
      <4> QED BY <4>1 DEF empty, Filled
    <3>3. d + 0 = d
      BY <1>0
    <3> QED BY <3>1, <3>2, <3>3
  <2>3. x # 0
    BY <2>1, <2>2
  <2> DEFINE m == x - 1
             j == d + m + 1
  <2>4. x \in 1 .. Len(f) /\ m \in 0 .. Len(f) /\ m < x /\ m + 1 = x /\ m \in Nat
    BY <2>3
  <2>5. g[m] = R(m)
    BY <2>1, <2>4
  <2> HIDE DEF T, m, d, n
  <2>6. j \in 1 .. n /\ j = d + x /\ d + m < n /\ ~(d + m >= n)
    BY <1>0, <2>4
  <2>7. g[x] = readOne(R(m), f[x]) /\ f[x] = nodes[j]
    <3>1. g[x] = readOne(g[x - 1], f[x])
      BY <1>1, <2>4 DEF IsLoop
    <3>2. f[x] = nodes[d + x]
      BY <2>4 DEF FileMatches, d
    <3> QED BY <3>1, <3>2, <2>5, <2>6 DEF m
  <2>8. ~(d + m = 1 /\ nodes[j] \in Coinbases)
    <3> SUFFICES ASSUME d + m = 1 PROVE nodes[j] \notin Coinbases
      OBVIOUS
    <3>1. j = 2 /\ 2 \in 2 .. n
      BY <2>6
    <3>2. nodes[j] \in Txs
      BY <3>1 DEF NodesOK, n
    <3> QED BY <3>2 DEF SubtreeDataAssumption
  <2> DEFINE r == R(m)
  <2>9. r.err = "nil" /\ r.txIndex = d + m /\ r.txs = Filled(m)
    OBVIOUS
  <2>10. [r EXCEPT !.txs[r.txIndex + 1] = nodes[j], !.txIndex = @ + 1] = R(x)
    <3> DEFINE v == nodes[j]
               F == Filled(m)
               i == d + m
    <3>1. [F EXCEPT ![j] = v] = Filled(m + 1)
      <4>1. txStartIndex + m + 1 <= Len(nodes)
        BY <2>6 DEF d, n
      <4>2. [Filled(m) EXCEPT ![txStartIndex + m + 1] = nodes[txStartIndex + m + 1]]
              = Filled(m + 1)
        BY <4>1, <2>4, FilledStep
      <4> QED BY <4>2 DEF d
    <3>2. i + 1 = d + x /\ j = i + 1
      BY <2>6
    <3>3. r = [txIndex |-> i, txs |-> F, err |-> "nil"]
      OBVIOUS
    <3> HIDE DEF v, F, i, r, j
    <3>4. [r EXCEPT !.txs[r.txIndex + 1] = v, !.txIndex = @ + 1]
            = [txIndex |-> i + 1, txs |-> [F EXCEPT ![i + 1] = v], err |-> "nil"]
      BY <3>3, StoreAndCount
    <3>5. [txIndex |-> i + 1, txs |-> [F EXCEPT ![i + 1] = v], err |-> "nil"] = R(x)
      BY <3>1, <3>2, <2>4
    <3> QED BY <3>4, <3>5 DEF v
  <2> HIDE DEF r, R, j
  <2>11. readOne(r, nodes[j]) = [r EXCEPT !.txs[r.txIndex + 1] = nodes[j], !.txIndex = @ + 1]
    <3>1. ~(r.err # "nil") /\ ~(r.err = "nil" /\ r.txIndex = 1 /\ nodes[j] \in Coinbases)
      BY <2>8, <2>9
    <3>2. ~(r.txIndex >= Len(nodes))
      BY <2>6, <2>9 DEF n
    <3>3. nodes[r.txIndex + 1] = nodes[j]
      BY <2>9 DEF j
    <3> QED BY <3>1, <3>2, <3>3, Zenon DEF readOne
  <2>12. g[x] = R(x)
    BY <2>7, <2>10, <2>11, Zenon DEF r
  <2> QED BY <2>12, <2>1 DEF T
<1>3. g[Len(f)] = R(Len(f))
  BY <1>0, <1>2
<1> QED BY <1>1, <1>3

-----------------------------------------------------------------------------
(* Writing.                                                                *)

\* A part of an array.
LEMMA PartOf ==
  ASSUME NEW S, NEW s \in Seq(S), NEW a \in Nat, NEW b \in Nat, a >= 1, b <= Len(s)
  PROVE  /\ SubSeq(s, a, b) \in Seq(S)
         /\ Len(SubSeq(s, a, b)) = IF a <= b THEN b - a + 1 ELSE 0
         /\ \A k \in 1 .. Len(SubSeq(s, a, b)) : SubSeq(s, a, b)[k] = s[a + k - 1]
OBVIOUS

\* The transactions WriteTransactionChunk writes are some of those it is given.
LEMMA PresentType ==
  ASSUME NEW S, NEW s \in Seq(S)
  PROVE  present(s) \in Seq(S)
<1> DEFINE n == Len(s)
           V(u, k) == IF k = 0 THEN << >>
                      ELSE IF s[k] = NULL THEN u[k - 1] ELSE Append(u[k - 1], s[k])
           P(u, m) == u = [k \in 0 .. m |-> V(u, k)]
           c == CHOOSE u : P(u, n)
<1>1. present(s) = c[n] /\ n \in Nat
  BY DEF present
<1> HIDE DEF n
<1> DEFINE G(m) == \E u : P(u, m)
<1> HIDE DEF G
<1>2. \A m \in Nat : G(m)
  <2> DEFINE T == {m \in Nat : ~G(m)}
  <2> SUFFICES ASSUME T # {} PROVE FALSE
    OBVIOUS
  <2>1. PICK x \in T : \A y \in T : x <= y
    BY MinExists
  <2>2. CASE x = 0
    <3> DEFINE u == [k \in 0 .. 0 |-> << >>]
    <3>1. P(u, 0)
      OBVIOUS
    <3>2. G(0)
      BY <3>1 DEF G
    <3> QED BY <3>2, <2>1, <2>2
  <2>3. CASE x # 0
    <3>1. x - 1 \in Nat /\ x - 1 < x /\ x \in Nat
      BY <2>3
    <3>2. G(x - 1)
      BY <3>1, <2>1
    <3>3. PICK u : P(u, x - 1)
      BY <3>2 DEF G
    <3> DEFINE v == V(u, x)
               w == [k \in 0 .. x |-> IF k = x THEN v ELSE u[k]]
    <3> HIDE DEF v, T
    <3>4. \A k \in 0 .. x - 1 : w[k] = u[k]
      BY <3>1
    <3>5. w[x] = v /\ w = [k \in 0 .. x |-> w[k]]
      BY <3>1
    <3> HIDE DEF w
    <3>6. ASSUME NEW k \in 0 .. x PROVE w[k] = V(w, k)
      <4>1. CASE k = x
        <5>1. w[k - 1] = u[k - 1]
          BY <4>1, <3>1, <3>4
        <5> QED BY <4>1, <5>1, <3>5 DEF v
      <4>2. CASE k # x
        <5>1. k \in 0 .. x - 1
          BY <4>2, <3>1
        <5>2. u[k] = V(u, k)
          BY <5>1, <3>3
        <5>3. k = 0 \/ (k # 0 /\ k - 1 \in 0 .. x - 1)
          BY <5>1, <3>1
        <5>4. V(w, k) = V(u, k)
          BY <5>3, <3>4
        <5> HIDE DEF V
        <5> QED BY <5>1, <5>2, <5>4, <3>4
      <4> QED BY <4>1, <4>2
    <3>7. P(w, x)
      <4> HIDE DEF V
      <4> QED BY <3>5, <3>6, Zenon
    <3>8. G(x)
      BY <3>7 DEF G
    <3> QED BY <3>8, <2>1 DEF T
  <2> QED BY <2>2, <2>3
<1>3. PICK u : P(u, n)
  <2>1. G(n)
    BY <1>1, <1>2
  <2> QED BY <2>1 DEF G
<1>4. P(c, n)
  BY <1>3, Zenon
<1> HIDE DEF c
<1> DEFINE T == {k \in 0 .. n : c[k] \notin Seq(S)}
<1>5. ASSUME T # {} PROVE FALSE
  <2>1. PICK x \in T : \A y \in T : x <= y
    <3>1. T \in SUBSET Nat
      BY <1>1
    <3> QED BY <3>1, <1>5, MinExists
  <2>2. c[x] = V(c, x)
    BY <1>4
  <2>3. CASE x = 0
    <3>1. V(c, x) = << >>
      BY <2>3
    <3>2. << >> \in Seq(S)
      OBVIOUS
    <3> HIDE DEF V
    <3> QED BY <3>1, <3>2, <2>1, <2>2
  <2>4. CASE x # 0
    <3>1. x - 1 \in 0 .. n /\ x - 1 < x /\ x \in 1 .. n
      BY <2>4, <1>1
    <3>2. c[x - 1] \in Seq(S)
      BY <3>1, <2>1
    <3>3. s[x] \in S
      BY <3>1 DEF n
    <3>4. c[x] \in Seq(S)
      BY <2>2, <2>4, <3>2, <3>3
    <3> QED BY <3>4, <2>1
  <2> QED BY <2>3, <2>4
<1> QED BY <1>1, <1>5

-----------------------------------------------------------------------------
(* The actions.                                                            *)

\* The two parts of TxsMatchNodes.
TxsOK ==
  \A i \in DOMAIN txs :
     \/ txs[i] = NULL
     \/ i \in DOMAIN nodes /\ txs[i] = nodes[i]
     \/ i = 1 /\ txs[i] \in Coinbases

PartsOK == \A i \in DOMAIN parts : parts[i] \in {NULL, nodes[i]}

\* The first transaction of a file belongs to the first node, or to the second if
\* the first is the placeholder.
LEMMA StartType ==
  ASSUME NodesOK
  PROVE  /\ Len(nodes) \in Nat
         /\ txStartIndex \in 0 .. 1
         /\ nodes # << >> => Len(nodes) >= 1 /\ txStartIndex <= Len(nodes)
         /\ nodes = << >> => txStartIndex = 0 /\ Len(nodes) = 0
BY DEF NodesOK, txStartIndex, placeholderFirst

\* A step that leaves the list, the file and the reader alone.
LEMMA ReadingKept ==
  ASSUME next # -1 => Reading, UNCHANGED <<nodes, file, readVars>>
  PROVE  next' # -1 => Reading'
BY DEF Reading, first, got, Filled, txStartIndex, placeholderFirst, readVars

\* A step that only fills the array.
LEMMA TxsStep ==
  ASSUME DInv, UNCHANGED <<nodes, fileVars, readVars>>,
         txs' \in Seq(Val), Len(txs') >= Len(nodes), TxsOK'
  PROVE  DInv'
<1>1. /\ nodes' = nodes /\ file' = file /\ written' = written
      /\ next' = next /\ pos' = pos /\ parts' = parts
  BY DEF fileVars, readVars
<1>2. NodesOK' /\ PartsOK'
  BY <1>1 DEF DInv, TxsMatchNodes, NodesOK, PartsOK
<1>3. next' # -1 => Reading'
  BY ReadingKept DEF DInv, fileVars
<1>4. /\ file' \in Seq(Val) /\ written' \in Nat \cup {-1} /\ next' \in -1 .. Len(nodes')
      /\ pos' \in Nat /\ (next' = -1 \/ written' = -1)
  BY <1>1 DEF DInv
<1> QED BY <1>1, <1>2, <1>3, <1>4 DEF DInv, TxsMatchNodes, TxsOK, PartsOK

\* A step after which no file is being read and only the file has changed.
LEMMA FileStep ==
  ASSUME DInv, UNCHANGED <<nodes, txs>>, file' \in Seq(Val),
         written' \in Nat \cup {-1}, next' = -1, pos' \in Nat,
         parts' = parts \/ parts' = << >>
  PROVE  DInv'
<1>1. NodesOK' /\ PartsOK' /\ TxsOK'
  BY DEF DInv, TxsMatchNodes, NodesOK, PartsOK, TxsOK
<1>2. txs' \in Seq(Val) /\ Len(txs') >= Len(nodes') /\ next' \in -1 .. Len(nodes')
  BY DEF DInv, NodesOK
<1> QED BY <1>1, <1>2 DEF DInv, TxsMatchNodes, TxsOK, PartsOK

\* The initial states satisfy the invariant.
LEMMA InitHolds ==
  ASSUME Init, SubtreeDataAssumption
  PROVE  DInv
<1>1. PICK n \in 0 .. MaxNodes : nodes \in [1 .. n -> anyTx \cup {Placeholder}]
  BY Zenon DEF Init
<1>2. nodes \in Seq(Val) /\ Len(nodes) = n /\ n \in Nat
  BY <1>1 DEF SubtreeDataAssumption, Val
<1>3. NodesOK
  BY <1>2 DEF NodesOK, Init
<1>4. PICK size \in {Len(nodes), Len(nodes) + 1} : txs = empty(size)
  BY Zenon DEF Init
<1>5. size \in Nat /\ size >= Len(nodes)
  BY <1>2
<1>6. /\ txs \in Seq(Val) /\ Len(txs) >= Len(nodes)
      /\ \A i \in DOMAIN txs : txs[i] = NULL
  BY <1>4, <1>5 DEF empty, Val
<1>7. PICK l \in 0 .. MaxFile : file \in [1 .. l -> anyTx]
  BY Zenon DEF Init
<1>8. file \in Seq(Val)
  BY <1>7 DEF SubtreeDataAssumption, Val
<1>9. TxsMatchNodes
  BY <1>6 DEF TxsMatchNodes, Init
<1> QED BY <1>2, <1>3, <1>6, <1>8, <1>9 DEF DInv, Init

\* AddTx stores a transaction only where its node is, or a coinbase in front.
LEMMA AddTxKeeps ==
  ASSUME DInv, NEW tx \in anyTx, NEW index \in 0 .. Len(nodes) - 1, AddTx(tx, index)
  PROVE  DInv'
<1> DEFINE j == index + 1
<1>1. Len(nodes) \in Nat /\ j \in 1 .. Len(nodes) /\ j \in DOMAIN nodes
  BY DEF DInv, NodesOK
<1>2. /\ txs \in Seq(Val) /\ Len(txs) \in Nat /\ Len(txs) >= Len(nodes) /\ TxsOK
      /\ j \in DOMAIN txs
  BY <1>1 DEF DInv, TxsMatchNodes, TxsOK
<1>3. UNCHANGED <<nodes, fileVars, readVars>>
  BY DEF AddTx
<1>4. CASE txs' = txs
  <2>1. TxsOK'
    BY <1>2, <1>3, <1>4 DEF TxsOK
  <2> QED BY <1>2, <1>3, <1>4, <2>1, TxsStep
<1>5. CASE /\ txs' = [txs EXCEPT ![j] = tx]
           /\ nodes[j] = tx \/ (j = 1 /\ tx \in Coinbases)
  <2>1. tx \in Val
    BY DEF Val
  <2>2. txs' \in Seq(Val) /\ Len(txs') = Len(txs) /\ DOMAIN txs' = DOMAIN txs
    BY <1>2, <1>5, <2>1
  <2>3. \A i \in DOMAIN txs : txs'[i] = IF i = j THEN tx ELSE txs[i]
    BY <1>5
  <2> HIDE DEF j
  <2>4. TxsOK'
    BY <1>1, <1>2, <1>3, <1>5, <2>2, <2>3 DEF TxsOK
  <2> QED BY <1>2, <1>3, <2>2, <2>4, TxsStep
<1>6. \/ txs' = txs
      \/ /\ txs' = [txs EXCEPT ![j] = tx]
         /\ nodes[j] = tx \/ (j = 1 /\ tx \in Coinbases)
  BY DEF AddTx
<1> QED BY <1>4, <1>5, <1>6

\* Serialize replaces the file.
LEMMA SerializeKeeps ==
  ASSUME DInv, Serialize
  PROVE  DInv'
<1>1. UNCHANGED <<nodes, txs>>
  BY DEF Serialize
<1>2. CASE UNCHANGED <<fileVars, readVars>>
  <2>1. txs' \in Seq(Val) /\ Len(txs') >= Len(nodes) /\ TxsOK'
    BY <1>1 DEF DInv, TxsMatchNodes, TxsOK
  <2> QED BY <1>1, <1>2, <2>1, TxsStep
<1>3. CASE file' = serialized /\ written' = -1 /\ next' = -1 /\ parts' = << >> /\ pos' = 0
  <2>1. txs \in Seq(Val) /\ Len(nodes) \in Nat /\ Len(nodes) <= Len(txs)
        /\ txStartIndex + 1 \in Nat /\ txStartIndex + 1 >= 1
    BY StartType DEF DInv
  <2>2. serialized \in Seq(Val)
    BY <2>1, PartOf DEF serialized
  <2> QED BY <1>1, <1>3, <2>2, FileStep
<1> QED BY <1>2, <1>3, Zenon DEF Serialize

\* So does a new file.
LEMMA CreateFileKeeps ==
  ASSUME DInv, CreateFile
  PROVE  DInv'
<1>1. file' \in Seq(Val)
  BY DEF CreateFile
<1> QED BY <1>1, FileStep DEF CreateFile

\* A chunk is added to the file, or as much of it as the writer takes.
LEMMA WriteKeeps ==
  ASSUME DInv, written # -1, NEW chunk \in Seq(Val), UNCHANGED <<nodes, txs, readVars>>,
         \/ file' = file \o chunk /\ written' \in Nat \cup {-1}
         \/ writeFails(chunk)
  PROVE  DInv'
<1>1. next' = -1 /\ pos' \in Nat /\ parts' = parts /\ file \in Seq(Val)
  BY DEF DInv, readVars
<1>2. file' \in Seq(Val) /\ written' \in Nat \cup {-1}
  <2>1. CASE file' = file \o chunk /\ written' \in Nat \cup {-1}
    BY <1>1, <2>1
  <2>2. CASE writeFails(chunk)
    <3>1. PICK n \in 0 .. Len(chunk) - 1 : file' = file \o SubSeq(chunk, 1, n) /\ written' = -1
      BY <2>2, Zenon DEF writeFails
    <3>2. SubSeq(chunk, 1, n) \in Seq(Val)
      OBVIOUS
    <3> QED BY <1>1, <3>1, <3>2
  <2> QED BY <2>1, <2>2
<1> QED BY <1>1, <1>2, FileStep

\* WriteTransactionsToWriter writes a part of the array, up to the first entry
\* that is missing.
LEMMA WriteTransactionsKeeps ==
  ASSUME DInv, NEW endIdx \in 1 .. Len(txs), WriteTransactionsToWriter(endIdx)
  PROVE  DInv'
<1> DEFINE to == firstNil(written, endIdx)
           a == IF written = 0 THEN txStartIndex + 1 ELSE written + 1
<1>1. txs \in Seq(Val) /\ endIdx \in Nat /\ endIdx <= Len(txs) /\ written \in Nat
  BY DEF DInv, WriteTransactionsToWriter
<1>2. to \in Nat /\ to <= endIdx
  <2> DEFINE T == {i \in written .. endIdx - 1 :
                     txs[i + 1] = NULL /\ ~(i = 0 /\ placeholderFirst)} \cup {endIdx}
  <2>1. T \in SUBSET Nat /\ endIdx \in T
    BY <1>1
  <2>2. to = Min(T)
    BY DEF firstNil
  <2> HIDE DEF T, to
  <2>3. Min(T) \in T /\ Min(T) <= endIdx
    BY <2>1, MinLemma
  <2> QED BY <2>1, <2>2, <2>3
<1>3. a \in Nat /\ a >= 1
  BY <1>1, StartType DEF DInv
<1>4. range(written, to) = SubSeq(txs, a, to)
  BY DEF range
<1> HIDE DEF to, a
<1>5. range(written, to) \in Seq(Val)
  <2>1. to <= Len(txs)
    BY <1>1, <1>2
  <2> QED BY <2>1, <1>1, <1>2, <1>3, <1>4, PartOf
<1>6. written # -1 /\ UNCHANGED <<nodes, txs, readVars>>
  BY <1>1 DEF WriteTransactionsToWriter
<1>7. \/ file' = file \o range(written, to) /\ written' \in Nat \cup {-1}
      \/ writeFails(range(written, to))
  BY <1>1 DEF WriteTransactionsToWriter, to
<1> QED BY <1>5, <1>6, <1>7, WriteKeeps

\* WriteTransactionChunk writes those that are there.
LEMMA WriteChunkKeeps ==
  ASSUME DInv, NEW endIdx \in 1 .. Len(txs), WriteTransactionChunk(endIdx)
  PROVE  DInv'
<1> DEFINE chunk == present(SubSeq(txs, written + 1, endIdx))
<1>1. /\ txs \in Seq(Val) /\ endIdx \in Nat /\ endIdx <= Len(txs)
      /\ written \in Nat /\ written + 1 \in Nat /\ written + 1 >= 1
  BY DEF DInv, WriteTransactionChunk
<1>2. SubSeq(txs, written + 1, endIdx) \in Seq(Val)
  BY <1>1, PartOf
<1>3. chunk \in Seq(Val)
  BY <1>2, PresentType
<1>4. /\ written # -1 /\ UNCHANGED <<nodes, txs, readVars>>
      /\ \/ file' = file \o chunk /\ written' \in Nat \cup {-1}
         \/ writeFails(chunk)
  BY <1>1 DEF WriteTransactionChunk
<1> HIDE DEF chunk
<1> QED BY <1>3, <1>4, WriteKeeps

\* A Data that was read without an error replaces the one in use.
LEMMA ReadKeeps ==
  ASSUME DInv, Read
  PROVE  DInv'
<1> DEFINE s == serializeFromReader(file)
<1>1. UNCHANGED <<nodes, fileVars, readVars>>
  BY DEF Read
<1>2. CASE txs' = txs
  <2>1. txs' \in Seq(Val) /\ Len(txs') >= Len(nodes) /\ TxsOK'
    BY <1>1, <1>2 DEF DInv, TxsMatchNodes, TxsOK
  <2> QED BY <1>1, <2>1, TxsStep
<1>3. CASE s.err = "nil" /\ txs' = s.txs
  <2>1. nodes # << >>
    <3> SUFFICES ASSUME nodes = << >> PROVE FALSE
      OBVIOUS
    <3>1. s = [txIndex |-> 0, txs |-> << >>, err |-> "ErrSubtreeNodesEmpty"]
      BY Zenon DEF serializeFromReader
    <3> HIDE DEF s
    <3> QED BY <1>3, <3>1
  <2>2. RecOK(s)
    <3>1. NodesOK /\ Len(file) \in Nat
      BY DEF DInv
    <3> QED BY <2>1, <3>1, ReadMatches
  <2> HIDE DEF s
  <2>3. txs' \in Seq(Val) /\ Len(txs') = Len(nodes)
    BY <1>3, <2>2 DEF RecOK
  <2>4. TxsOK'
    <3>1. DOMAIN txs' = 1 .. Len(nodes) /\ DOMAIN nodes = 1 .. Len(nodes) /\ nodes' = nodes
      BY <1>1, <2>3 DEF DInv, NodesOK
    <3> QED BY <1>3, <2>2, <3>1 DEF RecOK, TxsOK
  <2>5. Len(nodes) \in Nat
    BY DEF DInv, NodesOK
  <2> QED BY <1>1, <2>3, <2>4, <2>5, TxsStep
<1> QED BY <1>2, <1>3, Zenon DEF Read

\* Opening the file: nothing is read yet, and nothing is set.
LEMMA OpenFileKeeps ==
  ASSUME DInv, OpenFile
  PROVE  DInv'
<1>1. /\ nodes' = nodes /\ txs' = txs /\ file' = file
      /\ parts' = empty(Len(nodes)) /\ next' = 0 /\ pos' = 0 /\ written' = -1
  BY DEF OpenFile
<1>2. /\ NodesOK /\ Len(nodes) \in Nat /\ txStartIndex \in 0 .. 1
      /\ txStartIndex <= Len(nodes) /\ file \in Seq(Val) /\ Len(file) \in Nat
  BY StartType DEF DInv
<1>3. NodesOK' /\ TxsOK' /\ txStartIndex' = txStartIndex
  BY <1>1 DEF DInv, TxsMatchNodes, NodesOK, TxsOK, txStartIndex, placeholderFirst
<1>4. PartsOK'
  BY <1>1 DEF PartsOK, empty
<1>5. first' = txStartIndex /\ got' = 0
  BY <1>1, <1>2, <1>3 DEF first, got
<1>6. parts' = Filled(got)'
  <2>1. \A i \in 1 .. Len(nodes) : i \notin txStartIndex + 1 .. txStartIndex + 0
    BY <1>2
  <2> QED BY <2>1, <1>1, <1>3, <1>5 DEF empty, Filled
<1>7. Reading'
  BY <1>1, <1>2, <1>3, <1>5, <1>6 DEF Reading
<1>8. txs' \in Seq(Val) /\ Len(txs') >= Len(nodes')
  BY <1>1 DEF DInv
<1> QED BY <1>1, <1>2, <1>3, <1>4, <1>7, <1>8 DEF DInv, TxsMatchNodes, TxsOK, PartsOK

\* Where a chunk may start.
LEMMA ChunkStart ==
  ASSUME DInv, NEW e \in 1 .. Len(nodes), next \in 0 .. e - 1
  PROVE  /\ Reading /\ NodesOK
         /\ Len(nodes) \in Nat /\ Len(file) \in Nat /\ pos \in Nat /\ e \in Nat
         /\ txStartIndex \in 0 .. 1
         /\ first \in Nat /\ first <= e /\ txStartIndex <= first
         /\ got \in Nat /\ got <= Len(file) /\ got <= pos
         /\ pos <= Len(file) => got = pos
         /\ pos >= Len(file) => got = Len(file)
<1>1. /\ Reading /\ NodesOK /\ Len(nodes) \in Nat /\ Len(file) \in Nat /\ pos \in Nat
      /\ e \in Nat /\ e >= 1 /\ next \in Nat /\ next < e /\ txStartIndex \in 0 .. 1
  BY StartType DEF DInv
<1>2. first \in Nat /\ first <= e /\ txStartIndex <= first
  BY <1>1 DEF first
<1>3. /\ got \in Nat /\ got <= Len(file) /\ got <= pos
      /\ pos <= Len(file) => got = pos
      /\ pos >= Len(file) => got = Len(file)
  BY <1>1 DEF got
<1> QED BY <1>1, <1>2, <1>3

\* The transactions of a chunk that are accepted agree with their nodes, one
\* after the other, and the next one does not or is not there.
LEMMA AcceptedFacts ==
  ASSUME DInv, NEW e \in 1 .. Len(nodes), next \in 0 .. e - 1, NEW n, n = accepted(e)
  PROVE  /\ n \in Nat /\ first + n <= e
         /\ \A k \in pos + 1 .. pos + n :
              k <= Len(file) /\ file[k] = nodes[first + k - pos]
<1>1. /\ Len(nodes) \in Nat /\ Len(file) \in Nat /\ pos \in Nat /\ e \in Nat
      /\ first \in Nat /\ first <= e
  BY ChunkStart
<1> DEFINE c == first
           S == {i \in c .. e - 1 : LET k == pos + i - c + 1
                                    IN  k > Len(file) \/ file[k] # nodes[i + 1]}
           m == Max({c, e})
           T == S \cup {m}
<1>2. n = Min(T) - c
  BY Zenon DEF accepted
<1>3. m = e
  <2> HIDE DEF c
  <2>1. c \in Nat /\ c <= e
    BY <1>1 DEF c
  <2>2. e \in {c, e} /\ \A y \in {c, e} : e >= y
    BY <1>1, <2>1
  <2>3. \A x \in {c, e} : (\A y \in {c, e} : x >= y) => x = e
    BY <1>1, <2>1
  <2> QED BY <2>2, <2>3 DEF Max
<1> HIDE DEF c, m
<1>4. c \in Nat /\ c <= e
  BY <1>1 DEF c
<1>5. T \in SUBSET Nat /\ T # {} /\ e \in T /\ \A x \in T : c <= x /\ x <= e
  BY <1>1, <1>3, <1>4
<1> DEFINE r == Min(T)
<1> HIDE DEF T
<1>6. r \in T /\ \A y \in T : r <= y
  BY <1>5, MinLemma
<1> HIDE DEF r
<1>7. r \in Nat /\ c <= r /\ r <= e
  BY <1>5, <1>6
<1>8. n \in Nat /\ c + n = r
  BY <1>2, <1>4, <1>7 DEF r
<1>9. ASSUME NEW k \in pos + 1 .. pos + n
      PROVE  k <= Len(file) /\ file[k] = nodes[c + k - pos]
  <2> DEFINE i == c + (k - pos - 1)
  <2>1. i \in c .. e - 1 /\ i < r /\ pos + i - c + 1 = k /\ i + 1 = c + k - pos /\ i \in Nat
    BY <1>1, <1>4, <1>7, <1>8
  <2>2. i \notin T
    BY <2>1, <1>6, <1>7
  <2> HIDE DEF i
  <2>3. i \notin S
    BY <2>2 DEF T
  <2>4. ~(k > Len(file)) /\ file[k] = nodes[c + k - pos]
    BY <2>1, <2>3
  <2>5. k \in Nat
    BY <1>1, <1>8
  <2> QED BY <2>4, <2>5, <1>1
<1> QED BY <1>7, <1>8, <1>9 DEF c

\* With a chunk the filled part of the array grows by what was accepted.
LEMMA ChunkStored ==
  ASSUME DInv, NEW e \in 1 .. Len(nodes), next \in 0 .. e - 1, NEW n, n = accepted(e)
  PROVE  /\ storedParts(e) = Filled(got + n)
         /\ got + n <= Len(file)
         /\ txStartIndex + got + n <= Len(nodes)
         /\ \A k \in 1 .. got + n : file[k] = nodes[txStartIndex + k]
         /\ n # 0 => first = txStartIndex + pos /\ got = pos
<1> DEFINE d == txStartIndex
           c == first
           l == Len(file)
           w == Len(nodes)
           q == got
<1>1. /\ w \in Nat /\ l \in Nat /\ pos \in Nat /\ e \in Nat /\ e <= w /\ d \in 0 .. 1
      /\ c \in Nat /\ c <= e /\ d <= c
      /\ q \in Nat /\ q <= l /\ q <= pos
      /\ pos <= l => q = pos
      /\ pos >= l => q = l
  BY ChunkStart
<1>2. /\ (c = d + pos) \/ (pos >= l /\ c >= d + l)
      /\ d + q <= w
      /\ \A k \in 1 .. q : file[k] = nodes[d + k]
      /\ parts = Filled(q)
  BY ChunkStart DEF Reading
<1>3. /\ n \in Nat /\ c + n <= e
      /\ \A k \in pos + 1 .. pos + n : k <= l /\ file[k] = nodes[c + k - pos]
  BY AcceptedFacts
<1> HIDE DEF d, c, l, w, q
<1>4. n # 0 => c = d + pos /\ q = pos /\ pos + n <= l
  <2> SUFFICES ASSUME n # 0 PROVE c = d + pos /\ q = pos /\ pos + n <= l
    OBVIOUS
  <2>1. pos + n \in pos + 1 .. pos + n
    BY <1>1, <1>3
  <2>2. pos + n <= l
    BY <2>1, <1>3
  <2> QED BY <2>2, <1>1, <1>2, <1>3
<1>5. q + n <= l /\ d + q + n <= w
  BY <1>1, <1>2, <1>3, <1>4
<1>6. ASSUME NEW k \in 1 .. q + n PROVE file[k] = nodes[d + k]
  <2>1. CASE k <= q
    BY <2>1, <1>1, <1>2, <1>3
  <2>2. CASE k > q
    <3>1. n # 0 /\ c = d + pos /\ k \in pos + 1 .. pos + n
      BY <2>2, <1>1, <1>3, <1>4
    <3>2. c + k - pos = d + k
      BY <3>1, <1>1
    <3> QED BY <3>1, <3>2, <1>3
  <2> QED BY <2>1, <2>2, <1>1, <1>3
<1>7. DOMAIN parts = 1 .. w /\ \A i \in 1 .. w :
        parts[i] = IF i \in d + 1 .. d + q THEN nodes[i] ELSE NULL
  BY <1>2 DEF Filled, w, d
<1>8. storedParts(e) = [i \in 1 .. w |->
        IF i - 1 \in c .. c + n - 1 THEN file[pos + i - c] ELSE parts[i]]
  BY <1>7, Zenon DEF storedParts, c
<1>9. ASSUME NEW i \in 1 .. w
      PROVE  (IF i - 1 \in c .. c + n - 1 THEN file[pos + i - c] ELSE parts[i])
               = (IF i \in d + 1 .. d + (q + n) THEN nodes[i] ELSE NULL)
  <2>1. CASE i - 1 \in c .. c + n - 1
    <3>1. n # 0 /\ c = d + pos /\ q = pos
      BY <2>1, <1>1, <1>3, <1>4
    <3>2. i \in d + 1 .. d + (q + n) /\ pos + i - c \in pos + 1 .. pos + n
          /\ c + (pos + i - c) - pos = i
      BY <2>1, <3>1, <1>1, <1>3
    <3>3. file[pos + i - c] = nodes[i]
      BY <3>2, <1>3
    <3> QED BY <2>1, <3>2, <3>3, Zenon
  <2>2. CASE ~(i - 1 \in c .. c + n - 1)
    <3>1. i \in d + 1 .. d + (q + n) <=> i \in d + 1 .. d + q
      <4>1. CASE n = 0
        BY <4>1, <1>1
      <4>2. CASE n # 0
        BY <4>2, <2>2, <1>1, <1>3, <1>4
      <4> QED BY <4>1, <4>2
    <3> QED BY <2>2, <3>1, <1>7, Zenon
  <2> QED BY <2>1, <2>2
<1>10. Filled(q + n) = [i \in 1 .. w |-> IF i \in d + 1 .. d + (q + n) THEN nodes[i] ELSE NULL]
  BY DEF Filled, w, d
<1>11. storedParts(e) = Filled(q + n)
  BY <1>8, <1>9, <1>10, Zenon
<1> QED BY <1>4, <1>5, <1>6, <1>11 DEF d, c, l, w, q

\* Reading a chunk, up to whatever index.
LEMMA ChunkReadKeeps ==
  ASSUME DInv, NEW e \in 1 .. Len(nodes), chunkRead(e)
  PROVE  DInv'
<1> DEFINE n == accepted(e)
           d == txStartIndex
           c == first
           l == Len(file)
           q == got
<1>1. next \in 0 .. e - 1 /\ parts' = storedParts(e)
  BY DEF chunkRead
<1>2. /\ NodesOK
      /\ Len(nodes) \in Nat /\ l \in Nat /\ pos \in Nat /\ e \in Nat /\ d \in 0 .. 1
      /\ c \in Nat /\ c <= e /\ d <= c
      /\ q \in Nat /\ q <= l /\ q <= pos
      /\ pos <= l => q = pos
      /\ pos >= l => q = l
  BY <1>1, ChunkStart
<1>3. (c = d + pos) \/ (pos >= l /\ c >= d + l)
  BY <1>1, ChunkStart DEF Reading
<1>4. n \in Nat /\ c + n <= e
  BY <1>1, AcceptedFacts
<1>5. /\ storedParts(e) = Filled(q + n)
      /\ q + n <= l
      /\ d + q + n <= Len(nodes)
      /\ \A k \in 1 .. q + n : file[k] = nodes[d + k]
      /\ n # 0 => c = d + pos /\ q = pos
  BY <1>1, ChunkStored
<1>6. /\ nodes' = nodes /\ txs' = txs /\ file' = file /\ written' = written
      /\ txStartIndex' = txStartIndex
  BY DEF chunkRead, fileVars, txStartIndex, placeholderFirst
<1>7. \/ c + n >= e /\ pos' = pos + n /\ next' = e
      \/ /\ c + n < e /\ pos + n >= l
         /\ next' = e \/ next' = -1
         /\ pos' = l + 1 \/ pos' = l
      \/ next' = -1 /\ pos' = pos + n + 1
  BY DEF chunkRead
<1> HIDE DEF n, d, c, l, q
<1>8. pos' \in Nat /\ next' \in -1 .. Len(nodes)
  BY <1>2, <1>4, <1>7
<1>9. PartsOK'
  BY <1>1, <1>5, <1>6 DEF PartsOK, Filled
<1>10. written' = -1
  <2>1. next # -1
    BY <1>1
  <2> QED BY <2>1, <1>6 DEF DInv
<1>11. ASSUME next' # -1 PROVE Reading'
  <2>1. next' = e /\ e # 0 /\ first' = e
    <3>1. next' = e /\ e # 0
      BY <1>7, <1>11
    <3> QED BY <3>1 DEF first
  <2>2. \/ c + n >= e /\ pos' = pos + n
        \/ c + n < e /\ pos + n >= l /\ pos' \in {l, l + 1}
    BY <1>7, <1>11
  <2>3. got' = IF pos' <= l THEN pos' ELSE l
    BY <1>6 DEF got, l
  <2>4. got' = q + n
    <3>1. CASE c + n >= e /\ pos' = pos + n
      BY <3>1, <2>3, <1>2, <1>4, <1>5
    <3>2. CASE c + n < e /\ pos + n >= l /\ pos' \in {l, l + 1}
      <4>1. q + n = l
        <5>1. CASE n = 0
          <6>1. pos >= l
            BY <5>1, <3>2, <1>2
          <6> QED BY <5>1, <6>1, <1>2
        <5>2. CASE n # 0
          <6>1. q = pos
            BY <5>2, <1>5
          <6> QED BY <6>1, <3>2, <1>2, <1>4, <1>5
        <5> QED BY <5>1, <5>2
      <4> QED BY <4>1, <3>2, <2>3, <1>2
    <3> QED BY <2>2, <3>1, <3>2
  <2>5. (e = d + pos') \/ (pos' >= l /\ e >= d + l)
    BY <2>2, <1>2, <1>3, <1>4, <1>5
  <2>6. parts' = Filled(got)'
    BY <1>1, <1>5, <1>6, <2>4 DEF Filled
  <2>7. d + (q + n) <= Len(nodes) /\ e \in 0 .. Len(nodes) /\ e <= Len(nodes)
    BY <1>2, <1>4, <1>5
  <2>8. /\ next' \in 0 .. Len(nodes') /\ first' <= Len(nodes')
        /\ txStartIndex' + got' <= Len(nodes')
        /\ \A k \in 1 .. got' : file'[k] = nodes'[txStartIndex' + k]
    BY <1>5, <1>6, <2>1, <2>4, <2>7 DEF d
  <2>9. \/ first' = txStartIndex' + pos'
        \/ pos' >= Len(file') /\ first' >= txStartIndex' + Len(file')
    BY <1>6, <2>1, <2>5 DEF d, l
  <2> QED BY <2>6, <2>8, <2>9, Zenon DEF Reading
<1>12. NodesOK' /\ TxsOK'
  BY <1>6 DEF DInv, TxsMatchNodes, NodesOK, TxsOK
<1>13. txs' \in Seq(Val) /\ Len(txs') >= Len(nodes') /\ file' \in Seq(Val)
  BY <1>6 DEF DInv
<1> QED BY <1>6, <1>8, <1>9, <1>10, <1>11, <1>12, <1>13
         DEF DInv, TxsMatchNodes, TxsOK, PartsOK

\* ReadTransactionChunk cuts a count down to the list.
LEMMA ReadChunkKeeps ==
  ASSUME DInv, NEW count \in 1 .. Len(nodes) + 1, ReadTransactionChunk(count)
  PROVE  DInv'
<1> DEFINE T == {next + count, Len(nodes)}
           e == Min(T)
<1>1. Len(nodes) \in Nat /\ next \in -1 .. Len(nodes)
  BY DEF DInv, NodesOK
<1>2. T \in SUBSET Nat /\ T # {} /\ Len(nodes) \in T
  BY <1>1
<1>3. chunkRead(e)
  BY DEF ReadTransactionChunk
<1>4. next \in 0 .. e - 1
  BY <1>3 DEF chunkRead
<1> HIDE DEF T
<1>5. e \in T /\ e <= Len(nodes)
  BY <1>2, MinLemma
<1> HIDE DEF e
<1>6. e \in 1 .. Len(nodes)
  BY <1>1, <1>2, <1>4, <1>5
<1> QED BY <1>3, <1>6, ChunkReadKeeps

\* No step breaks the invariant.
LEMMA NextKeeps ==
  ASSUME DInv, [Next]_vars
  PROVE  DInv'
<1>1. CASE UNCHANGED vars
  <2>1. UNCHANGED <<nodes, txs, fileVars, readVars>>
    BY <1>1 DEF vars, fileVars, readVars
  <2>2. txs' \in Seq(Val) /\ Len(txs') >= Len(nodes) /\ TxsOK'
    BY <2>1 DEF DInv, TxsMatchNodes, TxsOK
  <2> QED BY <2>1, <2>2, TxsStep
<1>2. CASE Next
  <2>1. ASSUME NEW tx \in anyTx, NEW index \in 0 .. Len(nodes) - 1, AddTx(tx, index)
        PROVE  DInv'
    BY <2>1, AddTxKeeps
  <2>2. ASSUME NEW endIdx \in 1 .. Len(txs), WriteTransactionsToWriter(endIdx)
        PROVE  DInv'
    BY <2>2, WriteTransactionsKeeps
  <2>3. ASSUME NEW endIdx \in 1 .. Len(txs), WriteTransactionChunk(endIdx)
        PROVE  DInv'
    BY <2>3, WriteChunkKeeps
  <2>4. ASSUME NEW endIdx \in 1 .. Len(nodes), ReadTransactionsFromReader(endIdx)
        PROVE  DInv'
    BY <2>4, ChunkReadKeeps DEF ReadTransactionsFromReader
  <2>5. ASSUME NEW count \in 1 .. Len(nodes) + 1, ReadTransactionChunk(count)
        PROVE  DInv'
    BY <2>5, ReadChunkKeeps
  <2> QED BY <1>2, <2>1, <2>2, <2>3, <2>4, <2>5, SerializeKeeps, CreateFileKeeps,
             ReadKeeps, OpenFileKeeps, Zenon DEF Next
<1> QED BY <1>1, <1>2

-----------------------------------------------------------------------------
(* What the invariant gives.                                               *)

\* Cutting a part of an array in two and putting the halves together.
LEMMA CutAndJoin ==
  ASSUME NEW S, NEW s \in Seq(S), NEW a \in Nat, NEW k \in Nat, NEW b \in Nat,
         a >= 1, a <= k + 1, k <= b, b <= Len(s)
  PROVE  SubSeq(s, a, k) \o SubSeq(s, k + 1, b) = SubSeq(s, a, b)
<1> DEFINE u == SubSeq(s, a, k)
           v == SubSeq(s, k + 1, b)
           w == SubSeq(s, a, b)
<1>1. u \in Seq(S) /\ Len(u) = k - a + 1 /\ \A i \in 1 .. k - a + 1 : u[i] = s[a + i - 1]
  OBVIOUS
<1>2. v \in Seq(S) /\ Len(v) = b - k /\ \A i \in 1 .. b - k : v[i] = s[k + i]
  OBVIOUS
<1>3. w \in Seq(S) /\ Len(w) = b - a + 1 /\ \A i \in 1 .. b - a + 1 : w[i] = s[a + i - 1]
  OBVIOUS
<1> HIDE DEF u, v, w
<1>4. /\ u \o v \in Seq(S)
      /\ Len(u \o v) = Len(u) + Len(v)
      /\ \A i \in 1 .. Len(u) + Len(v) :
           (u \o v)[i] = IF i <= Len(u) THEN u[i] ELSE v[i - Len(u)]
  BY <1>1, <1>2, ConcatProperties, Zenon
<1>5. Len(u) + Len(v) = b - a + 1
  BY <1>1, <1>2
<1>6. ASSUME NEW i \in 1 .. b - a + 1 PROVE (u \o v)[i] = w[i]
  <2>1. CASE i <= Len(u)
    <3>1. i \in 1 .. k - a + 1
      BY <1>1, <2>1
    <3> QED BY <1>1, <1>3, <1>4, <1>5, <2>1, <3>1
  <2>2. CASE ~(i <= Len(u))
    <3>1. i - Len(u) \in 1 .. b - k /\ k + (i - Len(u)) = a + i - 1
      BY <1>1, <2>2
    <3>2. (u \o v)[i] = v[i - Len(u)]
      BY <1>4, <1>5, <2>2
    <3>3. v[i - Len(u)] = s[a + i - 1]
      BY <3>1, <1>2
    <3> QED BY <3>2, <3>3, <1>3
  <2> QED BY <2>1, <2>2
<1>7. u \o v = w
  BY <1>3, <1>4, <1>5, <1>6, SeqEqual
<1> QED BY <1>7 DEF u, v, w

\* What Serialize writes without an error is the transactions of the nodes.
LEMMA SerializedMatches ==
  ASSUME DInv, serializeErr = "nil", placeholderFirst \/ txs[1] = nodes[1]
  PROVE  /\ nodes # << >>
         /\ FileMatches(serialized)
         /\ Len(serialized) = Len(nodes) - txStartIndex
         /\ \A i \in txStartIndex + 1 .. Len(nodes) : txs[i] = nodes[i]
<1> DEFINE w == Len(nodes)
           d == txStartIndex
<1>1. nodes # << >>
  <2> SUFFICES ASSUME nodes = << >> PROVE FALSE
    OBVIOUS
  <2>1. serializeErr = "panic"
    BY Zenon DEF serializeErr
  <2> QED BY <2>1
<1>2. \A i \in 2 .. w : txs[i] # NULL
  <2> SUFFICES ASSUME \E i \in 2 .. w : txs[i] = NULL PROVE FALSE
    OBVIOUS
  <2>1. serializeErr = "ErrSubtreeLengthMismatch"
    BY <1>1, Zenon DEF serializeErr
  <2> QED BY <2>1
<1>3. /\ w \in Nat /\ w >= 1 /\ d \in 0 .. 1 /\ d <= w
      /\ txs \in Seq(Val) /\ w <= Len(txs) /\ Len(txs) \in Nat
      /\ DOMAIN txs = 1 .. Len(txs) /\ DOMAIN nodes = 1 .. w
  BY <1>1, StartType DEF DInv, NodesOK
<1>4. d = 0 => txs[1] = nodes[1]
  BY DEF txStartIndex
<1>5. ASSUME NEW i \in d + 1 .. w PROVE txs[i] = nodes[i]
  <2>1. CASE i = 1
    <3>1. d = 0
      BY <2>1, <1>3
    <3> QED BY <2>1, <3>1, <1>4
  <2>2. CASE i # 1
    <3>1. i \in 2 .. w /\ i \in DOMAIN txs
      BY <2>2, <1>3
    <3>2. txs[i] # NULL
      BY <3>1, <1>2
    <3> QED BY <2>2, <3>1, <3>2 DEF DInv, TxsMatchNodes
  <2> QED BY <2>1, <2>2
<1>6. /\ Len(serialized) = w - d
      /\ \A k \in 1 .. w - d : serialized[k] = txs[d + k]
  <2> DEFINE a == d + 1
             f == SubSeq(txs, a, w)
  <2> HIDE DEF w, d
  <2>1. a \in Nat /\ a >= 1 /\ (a <= w => w - a + 1 = w - d) /\ (~(a <= w) => w - d = 0)
    BY <1>3
  <2>2. /\ Len(f) = IF a <= w THEN w - a + 1 ELSE 0
        /\ \A k \in 1 .. Len(f) : f[k] = txs[a + k - 1]
    BY <2>1, <1>3, PartOf
  <2> HIDE DEF f
  <2>3. Len(f) = w - d /\ \A k \in 1 .. w - d : f[k] = txs[d + k]
    <3>1. Len(f) = w - d
      BY <2>1, <2>2
    <3>2. \A k \in 1 .. w - d : a + k - 1 = d + k
      BY <1>3
    <3> QED BY <2>2, <3>1, <3>2
  <2>4. serialized = f
    BY DEF serialized, f, d, w
  <2> QED BY <2>3, <2>4
<1>7. FileMatches(serialized)
  <2> HIDE DEF w, d
  <2>1. w - d \in Nat /\ d + (w - d) <= w /\ \A k \in 1 .. w - d : d + k \in d + 1 .. w
    BY <1>3
  <2>2. \A k \in 1 .. w - d : serialized[k] = nodes[d + k]
    BY <2>1, <1>5, <1>6
  <2> QED BY <1>6, <2>1, <2>2 DEF FileMatches, d, w
<1> QED BY <1>1, <1>5, <1>6, <1>7

\* WholeRoundTrip follows.
LEMMA RoundTrip ==
  ASSUME DInv, SubtreeDataAssumption
  PROVE  WholeRoundTrip
<1> SUFFICES ASSUME serializeErr = "nil", placeholderFirst \/ txs[1] = nodes[1]
             PROVE  /\ serializeFromReader(serialized).err = "nil"
                    /\ \A i \in DOMAIN nodes :
                         serializeFromReader(serialized).txs[i]
                           = IF i = 1 /\ placeholderFirst THEN NULL ELSE txs[i]
                    /\ \A k \in 0 .. Len(nodes) :
                         range(0, k) \o range(k, Len(nodes)) = serialized
  BY Zenon DEF WholeRoundTrip
<1> DEFINE w == Len(nodes)
           d == txStartIndex
           s == serializeFromReader(serialized)
<1>1. /\ nodes # << >> /\ FileMatches(serialized) /\ Len(serialized) = w - d
      /\ \A i \in d + 1 .. w : txs[i] = nodes[i]
  BY SerializedMatches
<1>2. /\ NodesOK /\ w \in Nat /\ w >= 1 /\ d \in 0 .. 1 /\ d <= w
      /\ txs \in Seq(Val) /\ w <= Len(txs) /\ DOMAIN nodes = 1 .. w
  BY <1>1, StartType DEF DInv, NodesOK
<1>3. s = [txIndex |-> d + Len(serialized), txs |-> Filled(Len(serialized)), err |-> "nil"]
  BY <1>1, <1>2, ReadOfPrefix
<1>4. s.err = "nil" /\ s.txs = Filled(Len(serialized))
  <2> HIDE DEF s
  <2> QED BY <1>3
<1>5. ASSUME NEW i \in DOMAIN nodes
      PROVE  s.txs[i] = IF i = 1 /\ placeholderFirst THEN NULL ELSE txs[i]
  <2>1. s.txs[i] = IF i \in d + 1 .. d + (w - d) THEN nodes[i] ELSE NULL
    BY <1>1, <1>2, <1>4 DEF Filled
  <2>2. (i = 1 /\ placeholderFirst) <=> d = 1 /\ i = 1
    BY DEF txStartIndex
  <2> HIDE DEF s, d, w
  <2>3. CASE d = 1 /\ i = 1
    <3>1. i \notin d + 1 .. d + (w - d)
      BY <2>3, <1>2
    <3> QED BY <2>1, <2>2, <2>3, <3>1, Zenon
  <2>4. CASE ~(d = 1 /\ i = 1)
    <3>1. i \in d + 1 .. d + (w - d) /\ i \in d + 1 .. w
      BY <2>4, <1>2
    <3>2. txs[i] = nodes[i]
      BY <3>1, <1>1
    <3> QED BY <2>1, <2>2, <2>4, <3>1, <3>2, Zenon
  <2> QED BY <2>3, <2>4
<1>6. ASSUME NEW k \in 0 .. w
      PROVE  range(0, k) \o range(k, w) = serialized
  <2>1. range(0, k) = SubSeq(txs, d + 1, k) /\ serialized = SubSeq(txs, d + 1, w)
    BY DEF range, serialized
  <2>2. CASE k = 0
    <3>1. SubSeq(txs, d + 1, 0) = << >>
      BY <1>2
    <3>2. range(k, w) = serialized
      BY <2>2 DEF range, serialized
    <3>3. serialized \in Seq(Val)
      BY <2>1, <1>2
    <3>4. range(0, k) = << >>
      BY <2>1, <2>2, <3>1
    <3>5. << >> \o serialized = serialized
      BY <3>3, ConcatEmptySeq
    <3> QED BY <3>2, <3>4, <3>5, Zenon
  <2>3. CASE k # 0
    <3>1. range(k, w) = SubSeq(txs, k + 1, w)
      BY <2>3, Zenon DEF range
    <3> DEFINE a == d + 1
    <3> HIDE DEF w, d
    <3>2. a \in Nat /\ a >= 1 /\ a <= k + 1 /\ k \in Nat /\ k <= w
      BY <2>3, <1>2
    <3> HIDE DEF a
    <3>3. SubSeq(txs, a, k) \o SubSeq(txs, k + 1, w) = SubSeq(txs, a, w)
      BY <3>2, <1>2, CutAndJoin
    <3> QED BY <3>1, <3>3, <2>1 DEF a
  <2> QED BY <2>2, <2>3
<1> QED BY <1>4, <1>5, <1>6

\* ChunksAddUp follows.
LEMMA AddUp ==
  ASSUME DInv, SubtreeDataAssumption
  PROVE  ChunksAddUp
<1> SUFFICES ASSUME nodes # << >>, next = Len(nodes), pos >= Len(file)
             PROVE  /\ serializeFromReader(file).err = "nil"
                    /\ serializeFromReader(file).txs = parts
  BY Zenon DEF ChunksAddUp
<1> DEFINE s == serializeFromReader(file)
<1>1. NodesOK /\ Len(nodes) \in Nat /\ Len(file) \in Nat /\ pos \in Nat
  BY DEF DInv, NodesOK
<1>2. Reading
  BY <1>1 DEF DInv
<1>3. got = Len(file)
  BY <1>1 DEF got
<1>4. FileMatches(file) /\ parts = Filled(Len(file))
  BY <1>1, <1>2, <1>3 DEF Reading, FileMatches
<1>5. s = [txIndex |-> txStartIndex + Len(file), txs |-> Filled(Len(file)), err |-> "nil"]
  BY <1>1, <1>4, ReadOfPrefix
<1> HIDE DEF s
<1>6. s.err = "nil" /\ s.txs = parts
  BY <1>4, <1>5
<1> QED BY <1>6 DEF s

-----------------------------------------------------------------------------
(* The theorems.                                                           *)

\* The inductive invariant holds.
THEOREM DataInvariant == Spec => []DInv
<1>1. Init => DInv
  BY InitHolds, SubtreeDataAssumption
<1>2. DInv /\ [Next]_vars => DInv'
  BY NextKeeps
<1> QED BY <1>1, <1>2, PTL DEF Spec

\* Whatever the files hold, wherever they end and in whatever chunks they are
\* read, an entry of a Data that is set is the transaction of its node, or a
\* coinbase in front.
THEOREM EntriesMatchNodes == Spec => []TxsMatchNodes
<1>1. DInv => TxsMatchNodes
  BY DEF DInv
<1> QED BY <1>1, DataInvariant, PTL

\* What Serialize writes without an error reads back as the same Data, and
\* written as two chunks, cut anywhere, it is the same file.
THEOREM SerializedDataReadsBack == Spec => []WholeRoundTrip
<1>1. DInv => WholeRoundTrip
  BY RoundTrip, SubtreeDataAssumption
<1> QED BY <1>1, DataInvariant, PTL

\* A file read in chunks to its end, whatever the boundaries, is read by
\* NewSubtreeDataFromReader with the same result.
THEOREM ChunkedReadIsWholeRead == Spec => []ChunksAddUp
<1>1. DInv => ChunksAddUp
  BY AddUp, SubtreeDataAssumption
<1> QED BY <1>1, DataInvariant, PTL
=============================================================================
