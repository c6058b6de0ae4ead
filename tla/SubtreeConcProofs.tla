------------------------- MODULE SubtreeConcProofs --------------------------
(***************************************************************************)
(* What SubtreeConc promises, proved for any number of goroutines and      *)
(* calls and every size of tree.  IInv says what each goroutine relies on  *)
(* at its step, what the index accounts for and what the cached root is    *)
(* the root of; one lemma per step shows that the step preserves it and is *)
(* a step of NodeList or leaves its list alone.                            *)
(***************************************************************************)
EXTENDS SubtreeConc, CommonLemmas

\* The steps between taking st.mu and releasing it.
LockSteps == {"append", "shift", "reset", "index", "fill"}

Steps == LockSteps \cup {"idle", "add", "remove", "root", "length", "header", "read",
                         "store", "test", "build", "look"}

\* The variables have their types; every node of the list is a transaction.
Types ==
  /\ array \in Seq(Hashes \cup {ZeroHash})
  /\ Len(array) = TreeSize
  /\ length \in 0 .. TreeSize
  /\ \A k \in 1 .. length : array[k] \in Hashes
  /\ nodeIndex = NULL \/ nodeIndex \in [Hashes -> Int]
  /\ lock \in Threads \cup {NULL}
  /\ pc \in [Threads -> Steps]
  /\ arg \in [Threads -> Hashes \cup {ZeroHash}]
  /\ i \in [Threads -> Nat]
  /\ n \in [Threads -> Int]
  /\ leaves \in [Threads -> Seq(Hashes \cup {ZeroHash, Torn})]
  /\ fatal \in BOOLEAN
  /\ raced \in BOOLEAN
  /\ removed \in BOOLEAN

\* What a goroutine relies on at each of its steps.  The first line is mutual
\* exclusion.
Local(t) ==
  /\ pc[t] \in LockSteps <=> lock = t
  /\ pc[t] \in {"idle", "test", "build"} => i[t] = 0
  /\ pc[t] \in {"add", "append", "shift", "reset", "index"} => arg[t] \in Hashes
  /\ pc[t] = "append" => length < TreeSize
  /\ pc[t] = "shift" => i[t] < length /\ removed
  /\ pc[t] \in {"reset", "index"} =>
       removed \/ (n[t] = length - 1 /\ length > 0 /\ arg[t] = array[length])
  /\ pc[t] = "fill" => /\ nodeIndex \in [Hashes -> Int]
                       /\ n[t] = length /\ i[t] <= length
  /\ pc[t] \notin {"read", "store"} => leaves[t] = << >>
  /\ pc[t] = "read" => fatal \/ (Len(leaves[t]) < n[t] /\ n[t] <= TreeSize)

\* The nodes the index accounts for: a holder of the lock has yet to enter the
\* last one, or is entering them one by one.  A removal leaves the entries of
\* the nodes that move; a new index is exact even then.
indexed ==
  CASE lock # NULL /\ pc[lock] \in {"reset", "index"} -> SubSeq(array, 1, length - 1)
    [] lock # NULL /\ pc[lock] = "fill" -> SubSeq(array, 1, i[lock])
    [] OTHER -> list

IndexExact ==
  (~removed /\ nodeIndex # NULL) \/ (lock # NULL /\ pc[lock] = "fill") =>
    nodeIndex = exactIndex(indexed)

\* Since there was nothing left of earlier races, whoever computes a root has
\* read the first nodes of the list as it is; a holder of the lock that has
\* emptied the cache finds it empty; and otherwise the cached root is the root
\* of the list.
RootExact ==
  ~raced =>
    /\ ~Racing
    /\ \A t \in Threads :
         computing(t) =>
           /\ length > 0
           /\ pc[t] \in {"read", "store"} =>
                n[t] = length /\ leaves[t] = SubSeq(array, 1, Len(leaves[t]))
           /\ pc[t] = "store" => Len(leaves[t]) = n[t]
    /\ lock # NULL /\ pc[lock] = "index" => rootHash = NULL
    /\ (lock = NULL \/ pc[lock] = "fill") /\ rootHash # NULL =>
         list # << >> /\ rootHash = MerkleRoot(list)

IInv ==
  /\ Types
  /\ \A t \in Threads : Local(t)
  /\ IndexExact
  /\ RootExact

-----------------------------------------------------------------------------
(* The index.                                                              *)

\* Entering one more node: the loop of NodeIndex, and AddSubtreeNode.
LEMMA ExactIndexAppend ==
  ASSUME NEW l \in Seq(Hashes), NEW h \in Hashes
  PROVE  exactIndex(Append(l, h)) = [exactIndex(l) EXCEPT ![h] = Len(l)]
<1> DEFINE m == Append(l, h)
           at(hash) == {k \in DOMAIN l : l[k] = hash}
           atm(hash) == {k \in DOMAIN m : m[k] = hash}
           last(S) == CHOOSE k \in S : \A j \in S : j <= k
           pos(S) == IF S = {} THEN -1 ELSE last(S) - 1
<1>1. /\ Len(l) \in Nat /\ DOMAIN l = 1 .. Len(l)
      /\ m \in Seq(Hashes) /\ DOMAIN m = 1 .. Len(l) + 1
      /\ m[Len(l) + 1] = h /\ \A k \in 1 .. Len(l) : m[k] = l[k]
  OBVIOUS
<1>2. exactIndex(l) = [hash \in Hashes |-> pos(at(hash))]
  BY DEF exactIndex
<1>3. exactIndex(m) = [hash \in Hashes |-> pos(atm(hash))]
  BY DEF exactIndex
<1>4. ASSUME NEW hash \in Hashes, hash # h
      PROVE  atm(hash) = at(hash)
  <2> HIDE DEF m
  <2> QED BY <1>1, <1>4
<1>5. pos(atm(h)) = Len(l)
  <2>1. Len(l) + 1 \in atm(h) /\ \A j \in atm(h) : j <= Len(l) + 1 /\ j \in Int
    <3> HIDE DEF m
    <3> QED BY <1>1
  <2> DEFINE S == atm(h)
  <2> HIDE DEF S
  <2>2. Len(l) + 1 \in S /\ \A j \in S : j <= Len(l) + 1 /\ j \in Int
    BY <2>1 DEF S
  <2>3. last(S) \in S /\ \A j \in S : j <= last(S)
    BY <2>2
  <2>4. last(S) = Len(l) + 1
    <3> HIDE DEF last
    <3> QED BY <1>1, <2>2, <2>3
  <2> QED BY <1>1, <2>2, <2>4 DEF S
<1>6. ASSUME NEW hash \in Hashes
      PROVE  pos(atm(hash)) = IF hash = h THEN Len(l) ELSE pos(at(hash))
  <2> HIDE DEF pos, at, atm
  <2> QED BY <1>4, <1>5
<1> HIDE DEF pos, at, atm, m
<1>7. exactIndex(m) = [exactIndex(l) EXCEPT ![h] = Len(l)]
  BY <1>2, <1>3, <1>6
<1> QED BY <1>7 DEF m

\* make(map[chainhash.Hash]int): an empty index is the index of no nodes.
LEMMA ExactIndexEmpty == exactIndex(<< >>) = [hash \in Hashes |-> -1]
BY DEF exactIndex

\* The first nodes of the list, as a list.
LEMMA PrefixFacts ==
  ASSUME Types, NEW m \in 0 .. length
  PROVE  /\ SubSeq(array, 1, m) \in Seq(Hashes)
         /\ Len(SubSeq(array, 1, m)) = m
         /\ m < length => SubSeq(array, 1, m + 1) = Append(SubSeq(array, 1, m), array[m + 1])
<1>1. /\ array \in Seq(Hashes \cup {ZeroHash}) /\ length \in Nat /\ m \in Nat
      /\ m <= length /\ length <= Len(array) /\ Len(array) \in Nat /\ m <= Len(array)
      /\ \A k \in 1 .. m : array[k] \in Hashes
  BY DEF Types
<1>2. SubSeq(array, 1, m) \in Seq(Hashes) /\ Len(SubSeq(array, 1, m)) = m
  BY <1>1, PrefixType
<1>5. ASSUME m < length
      PROVE  SubSeq(array, 1, m + 1) = Append(SubSeq(array, 1, m), array[m + 1])
  <2>1. m <= Len(array) /\ m + 1 <= Len(array)
    BY <1>1, <1>5
  <2> QED BY <1>1, <2>1, PrefixAppend
<1> QED BY <1>2, <1>5

-----------------------------------------------------------------------------
(* Steps.                                                                  *)

\* A step of a goroutine changes nothing of what another relies on, if it
\* leaves the nodes alone while the other holds the lock.
LEMMA OtherLocal ==
  ASSUME IInv, ~fatal, NEW u \in Threads,
         pc'[u] = pc[u], arg'[u] = arg[u], i'[u] = i[u], n'[u] = n[u],
         leaves'[u] = leaves[u], lock' = u <=> lock = u,
         lock = u => UNCHANGED <<array, length, removed, nodeIndex>>
  PROVE  Local(u)'
<1>1. Local(u)
  BY DEF IInv
<1>2. CASE lock = u
  BY <1>1, <1>2 DEF Local, LockSteps
<1>3. CASE lock # u
  BY <1>1, <1>3 DEF Local, LockSteps
<1> QED BY <1>2, <1>3

\* The record of races: when there was none since, either there has been none
\* or nothing is left of it.
LEMMA TrackedRoot ==
  ASSUME track, raced \in BOOLEAN,
         ~raced /\ ~Racing' =>
           /\ \A t \in Threads :
                computing(t)' =>
                  /\ length' > 0
                  /\ pc'[t] \in {"read", "store"} =>
                       n'[t] = length' /\ leaves'[t] = SubSeq(array', 1, Len(leaves'[t]))
                  /\ pc'[t] = "store" => Len(leaves'[t]) = n'[t]
           /\ lock' # NULL /\ pc'[lock'] = "index" => rootHash' = NULL
           /\ (lock' = NULL \/ pc'[lock'] = "fill") /\ rootHash' # NULL =>
                list' # << >> /\ rootHash' = MerkleRoot(list)'
  PROVE  RootExact'
<1> SUFFICES ASSUME ~raced' PROVE RootExact!2'
  BY DEF RootExact
<1>1. ~Racing' /\ (~raced \/ Clean')
  BY DEF track
<1>2. CASE ~raced
  BY <1>1, <1>2
<1>3. CASE Clean'
  BY <1>1, <1>3 DEF Clean
<1> QED BY <1>1, <1>2, <1>3

\* The nodes the index accounts for, at each step of the holder of the lock.
LEMMA IndexedIs ==
  /\ lock # NULL /\ pc[lock] \in {"reset", "index"} => indexed = SubSeq(array, 1, length - 1)
  /\ lock # NULL /\ pc[lock] = "fill" => indexed = SubSeq(array, 1, i[lock])
  /\ lock = NULL \/ pc[lock] \in {"append", "shift"} => indexed = list
BY DEF indexed

\* The list as the next holder of the lock will find it.
LEMMA SettledIs ==
  /\ lock # NULL /\ pc[lock] = "append" => settledList = Append(list, arg[lock])
  /\ lock # NULL /\ pc[lock] = "shift" =>
       settledList = SubSeq(list, 1, i[lock]) \o SubSeq(list, i[lock] + 2, length)
  /\ lock = NULL \/ pc[lock] \notin {"append", "shift"} => settledList = list
BY DEF settledList

\* A step of a goroutine that neither has nor takes the lock leaves the list
\* and the index as they are.
LEMMA ReaderStep ==
  ASSUME IInv, ~fatal, NEW t \in Threads, pc[t] \notin LockSteps,
         UNCHANGED <<array, length, nodeIndex, lock, removed>>,
         \A u \in Threads \ {t} :
           /\ pc'[u] = pc[u] /\ arg'[u] = arg[u] /\ i'[u] = i[u] /\ n'[u] = n[u]
           /\ leaves'[u] = leaves[u],
         Local(t)'
  PROVE  /\ \A u \in Threads : Local(u)'
         /\ IndexExact'
         /\ list' = list
         /\ settledList' = settledList
         /\ lock # t
         /\ lock # NULL => pc'[lock] = pc[lock]
<1>1. lock # t /\ lock \in Threads \cup {NULL}
  BY DEF IInv, Types, Local
<1>2. ASSUME NEW u \in Threads PROVE Local(u)'
  <2>1. CASE u = t
    BY <2>1
  <2>2. CASE u # t
    BY <2>2, OtherLocal
  <2> QED BY <2>1, <2>2
<1>3. lock # NULL => pc'[lock] = pc[lock] /\ i'[lock] = i[lock] /\ arg'[lock] = arg[lock]
  BY <1>1
<1>4. list' = list
  BY DEF list
<1>5. indexed' = indexed /\ settledList' = settledList
  <2>1. indexed' = indexed
    BY <1>3, <1>4 DEF indexed
  <2>2. settledList' = settledList
    BY <1>3, <1>4 DEF settledList
  <2> QED BY <2>1, <2>2
<1>6. exactIndex(indexed)' = exactIndex(indexed)
  BY <1>5 DEF exactIndex
<1>7. IndexExact'
  BY <1>3, <1>6 DEF IInv, IndexExact
<1> QED BY <1>1, <1>2, <1>3, <1>4, <1>5, <1>7

\* goto changes the step of one goroutine.
LEMMA GotoFacts ==
  ASSUME Types, NEW t \in Threads, NEW step \in Steps, goto(t, step)
  PROVE  /\ pc' \in [Threads -> Steps]
         /\ pc'[t] = step
         /\ \A u \in Threads \ {t} : pc'[u] = pc[u]
BY DEF goto, Types

\* return clears them.
LEMMA ReturnFacts ==
  ASSUME Types, NEW t \in Threads, return(t)
  PROVE  /\ pc' \in [Threads -> Steps]
         /\ arg' \in [Threads -> Hashes \cup {ZeroHash}]
         /\ i' \in [Threads -> Nat]
         /\ n' \in [Threads -> Int]
         /\ leaves' \in [Threads -> Seq(Hashes \cup {ZeroHash, Torn})]
         /\ pc'[t] = "idle" /\ i'[t] = 0 /\ leaves'[t] = << >>
         /\ \A u \in Threads \ {t} :
              /\ pc'[u] = pc[u] /\ arg'[u] = arg[u] /\ i'[u] = i[u] /\ n'[u] = n[u]
              /\ leaves'[u] = leaves[u]
BY DEF return, goto, Types, Steps

\* ... and so is the cached root what it was, if the step leaves it alone.
LEMMA QuietStep ==
  ASSUME IInv, ~fatal, NEW t \in Threads, track, pc[t] \notin LockSteps,
         UNCHANGED <<array, length, rootHash, nodeIndex, lock, removed>>,
         \A u \in Threads \ {t} :
           /\ pc'[u] = pc[u] /\ arg'[u] = arg[u] /\ i'[u] = i[u] /\ n'[u] = n[u]
           /\ leaves'[u] = leaves[u],
         Types', Local(t)',
         ~raced /\ computing(t)' =>
           /\ length > 0
           /\ pc'[t] \in {"read", "store"} =>
                n'[t] = length /\ leaves'[t] = SubSeq(array, 1, Len(leaves'[t]))
           /\ pc'[t] = "store" => Len(leaves'[t]) = n'[t]
  PROVE  IInv' /\ settledList' = settledList
<1>1. /\ \A u \in Threads : Local(u)'
      /\ IndexExact'
      /\ list' = list
      /\ settledList' = settledList
      /\ lock # t
      /\ lock # NULL => pc'[lock] = pc[lock]
  BY ReaderStep
<1>2. raced \in BOOLEAN
  BY DEF IInv, Types
<1>3. ASSUME ~raced
      PROVE  \A u \in Threads :
                computing(u)' =>
                  /\ length' > 0
                  /\ pc'[u] \in {"read", "store"} =>
                       n'[u] = length' /\ leaves'[u] = SubSeq(array', 1, Len(leaves'[u]))
                  /\ pc'[u] = "store" => Len(leaves'[u]) = n'[u]
  <2> SUFFICES ASSUME NEW u \in Threads, computing(u)'
               PROVE  /\ length' > 0
                      /\ pc'[u] \in {"read", "store"} =>
                           n'[u] = length' /\ leaves'[u] = SubSeq(array', 1, Len(leaves'[u]))
                      /\ pc'[u] = "store" => Len(leaves'[u]) = n'[u]
    OBVIOUS
  <2>1. CASE u = t
    BY <1>3, <2>1
  <2>2. CASE u # t
    <3>1. computing(u)
      BY <2>2 DEF computing
    <3> QED BY <1>3, <2>2, <3>1 DEF IInv, RootExact
  <2> QED BY <2>1, <2>2
<1>4. MerkleRoot(list)' = MerkleRoot(list)
  BY <1>1, Zenon DEF MerkleRoot
<1>5. RootExact'
  BY <1>1, <1>2, <1>3, <1>4, TrackedRoot DEF IInv, RootExact
<1> QED BY <1>1, <1>5 DEF IInv

\* Every call begins outside the lock.
LEMMA CallStep ==
  ASSUME IInv, ~fatal, NEW t \in Threads, track, Call(t)
  PROVE  IInv' /\ settledList' = settledList
<1>1. /\ Types /\ Local(t) /\ pc[t] = "idle"
      /\ UNCHANGED <<array, length, rootHash, nodeIndex, lock, removed, fatal, n, leaves>>
  BY DEF IInv, Call, shared
<1>2. PICK step \in {"add", "test", "remove", "root"} : goto(t, step)
  BY DEF Call
<1>3. /\ pc' \in [Threads -> Steps]
      /\ pc'[t] = step
      /\ \A u \in Threads \ {t} : pc'[u] = pc[u]
  BY <1>1, <1>2, GotoFacts DEF Steps
<1>4. /\ arg' \in [Threads -> Hashes \cup {ZeroHash}]
      /\ i' \in [Threads -> Nat]
      /\ \A u \in Threads \ {t} : arg'[u] = arg[u] /\ i'[u] = i[u]
  <2>1. CASE \E hash \in Hashes : arg' = [arg EXCEPT ![t] = hash] /\ UNCHANGED i
    BY <1>1, <2>1 DEF Types
  <2>2. CASE \E index \in 0 .. TreeSize - 1 : i' = [i EXCEPT ![t] = index] /\ UNCHANGED arg
    <3>1. PICK index \in 0 .. TreeSize - 1 : i' = [i EXCEPT ![t] = index] /\ UNCHANGED arg
      BY <2>2
    <3>2. index \in Nat
      BY SubtreeConcAssumption
    <3> QED BY <1>1, <3>1, <3>2 DEF Types
  <2>3. CASE UNCHANGED <<arg, i>>
    BY <1>1, <2>3 DEF Types
  <2> QED BY <2>1, <2>2, <2>3 DEF Call
<1>5. /\ step = "add" => arg'[t] \in Hashes
      /\ step \in {"add", "test"} => i'[t] = 0
  <2>1. CASE step \in {"add", "test"}
    <3>1. /\ \E hash \in Hashes : arg' = [arg EXCEPT ![t] = hash]
          /\ UNCHANGED i
      BY <1>1, <1>3, <2>1 DEF Call, goto, Types
    <3> QED BY <1>1, <3>1 DEF Types, Local
  <2> QED BY <2>1
<1>6. raced' \in BOOLEAN
  BY <1>1 DEF track, Types
<1>7. Types'
  BY <1>1, <1>3, <1>4, <1>6 DEF Types
<1>8. Local(t)'
  BY <1>1, <1>3, <1>5 DEF Local, LockSteps
<1>9. ~computing(t)'
  BY <1>3 DEF computing
<1> QED BY <1>1, <1>3, <1>4, <1>7, <1>8, <1>9, QuietStep DEF LockSteps

\* An early return without the lock.
LEMMA ReturnStep ==
  ASSUME IInv, ~fatal, NEW t \in Threads, track, return(t), pc[t] \notin LockSteps,
         UNCHANGED <<array, length, rootHash, nodeIndex, lock, removed>>,
         fatal' \in BOOLEAN
  PROVE  IInv' /\ settledList' = settledList
<1>1. Types /\ Local(t)
  BY DEF IInv
<1>2. /\ pc' \in [Threads -> Steps]
      /\ arg' \in [Threads -> Hashes \cup {ZeroHash}]
      /\ i' \in [Threads -> Nat]
      /\ n' \in [Threads -> Int]
      /\ leaves' \in [Threads -> Seq(Hashes \cup {ZeroHash, Torn})]
      /\ pc'[t] = "idle" /\ i'[t] = 0 /\ leaves'[t] = << >>
      /\ \A u \in Threads \ {t} :
           /\ pc'[u] = pc[u] /\ arg'[u] = arg[u] /\ i'[u] = i[u] /\ n'[u] = n[u]
           /\ leaves'[u] = leaves[u]
  BY <1>1, ReturnFacts
<1>3. Types'
  BY <1>1, <1>2 DEF Types, track
<1>4. Local(t)'
  BY <1>1, <1>2 DEF Local, LockSteps
<1>5. ~computing(t)'
  BY <1>2 DEF computing
<1> QED BY <1>2, <1>3, <1>4, <1>5, QuietStep

\* A move to another step without the lock.
LEMMA MoveStep ==
  ASSUME IInv, ~fatal, NEW t \in Threads, track, NEW step \in {"length", "build", "look"},
         goto(t, step), keepLocals, pc[t] \in {"root", "test"},
         step = "build" => pc[t] = "test",
         UNCHANGED <<array, length, rootHash, nodeIndex, lock, removed, fatal>>
  PROVE  IInv' /\ settledList' = settledList
<1>1. Types /\ Local(t) /\ pc[t] \notin LockSteps
  BY DEF IInv, LockSteps
<1>2. /\ pc' \in [Threads -> Steps]
      /\ pc'[t] = step
      /\ \A u \in Threads \ {t} : pc'[u] = pc[u]
  BY <1>1, GotoFacts DEF Steps
<1>3. UNCHANGED <<arg, i, n, leaves>>
  BY DEF keepLocals
<1>4. Types'
  BY <1>1, <1>2, <1>3 DEF Types, track
<1>5. Local(t)'
  BY <1>1, <1>2, <1>3 DEF Local, LockSteps
<1>6. ~computing(t)'
  BY <1>2 DEF computing
<1> QED BY <1>1, <1>2, <1>3, <1>4, <1>5, <1>6, QuietStep

-----------------------------------------------------------------------------
(* RootHash.                                                               *)

\* A cached root is returned; otherwise the length is asked for.
LEMMA RootTestStep ==
  ASSUME IInv, ~fatal, NEW t \in Threads, track, RootTest(t)
  PROVE  IInv' /\ settledList' = settledList
<1>1. /\ UNCHANGED <<array, length, rootHash, nodeIndex, lock, removed, fatal>>
      /\ pc[t] = "root" /\ fatal \in BOOLEAN
  BY DEF RootTest, shared, IInv, Types
<1>2. CASE return(t)
  BY <1>1, <1>2, ReturnStep DEF LockSteps
<1>3. CASE goto(t, "length") /\ keepLocals
  BY <1>1, <1>3, MoveStep
<1> QED BY <1>2, <1>3 DEF RootTest

\* Length() is asked under the lock: nobody is changing the nodes then.
LEMMA RootLengthStep ==
  ASSUME IInv, ~fatal, NEW t \in Threads, track, RootLength(t)
  PROVE  IInv' /\ settledList' = settledList
<1>1. /\ UNCHANGED <<array, length, rootHash, nodeIndex, lock, removed, fatal>>
      /\ pc[t] = "length" /\ pc[t] \notin LockSteps /\ fatal \in BOOLEAN /\ Types /\ Local(t)
  BY DEF RootLength, shared, IInv, Types, LockSteps
<1>2. CASE return(t)
  BY <1>1, <1>2, ReturnStep
<1>3. CASE length # 0 /\ goto(t, "header") /\ keepLocals
  <2>1. /\ pc' \in [Threads -> Steps]
        /\ pc'[t] = "header"
        /\ \A u \in Threads \ {t} : pc'[u] = pc[u]
    BY <1>1, <1>3, GotoFacts DEF Steps
  <2>2. UNCHANGED <<arg, i, n, leaves>> /\ length > 0
    BY <1>1, <1>3 DEF keepLocals, Types
  <2>3. Types'
    BY <1>1, <2>1, <2>2 DEF Types, track
  <2>4. Local(t)'
    BY <1>1, <2>1, <2>2 DEF Local, LockSteps
  <2> QED BY <1>1, <2>1, <2>2, <2>3, <2>4, QuietStep
<1> QED BY <1>2, <1>3 DEF RootLength

\* The header is copied: without a race the list is as long as Length() said.
LEMMA RootHeaderStep ==
  ASSUME IInv, ~fatal, NEW t \in Threads, track, RootHeader(t)
  PROVE  IInv' /\ settledList' = settledList
<1>1. /\ UNCHANGED <<array, length, rootHash, nodeIndex, lock, removed, arg, i, leaves>>
      /\ pc[t] = "header" /\ pc[t] \notin LockSteps /\ Types /\ Local(t)
      /\ fatal' = (length = 0)
      /\ n' = [n EXCEPT ![t] = length]
  BY DEF RootHeader, shared, IInv, LockSteps
<1>2. /\ pc' \in [Threads -> Steps]
      /\ pc'[t] = "read"
      /\ \A u \in Threads \ {t} : pc'[u] = pc[u]
  BY <1>1, GotoFacts DEF Steps, RootHeader
<1>3. n' \in [Threads -> Int] /\ n'[t] = length /\ \A u \in Threads \ {t} : n'[u] = n[u]
  BY <1>1 DEF Types
<1>4. leaves[t] = << >> /\ length \in 0 .. TreeSize /\ TreeSize \in Nat
  BY <1>1, SubtreeConcAssumption DEF Local, Types
<1>5. Types'
  BY <1>1, <1>2, <1>3 DEF Types, track
<1>6. Local(t)'
  <2>1. fatal' \/ (Len(leaves'[t]) < n'[t] /\ n'[t] <= TreeSize)
    <3>1. CASE length = 0
      BY <1>1, <3>1, Zenon
    <3>2. CASE length # 0
      <4>1. Len(leaves'[t]) = 0
        BY <1>1, <1>4
      <4>2. 0 < length /\ length <= TreeSize
        BY <1>4, <3>2
      <4> QED BY <1>3, <4>1, <4>2
    <3> QED BY <3>1, <3>2
  <2> QED BY <1>1, <1>2, <1>4, <2>1 DEF Local, LockSteps
<1>7. ~raced => length > 0
  BY <1>1 DEF IInv, RootExact, computing
<1>8. leaves'[t] = SubSeq(array, 1, Len(leaves'[t]))
  BY <1>1, <1>4 DEF Types
<1> QED BY <1>1, <1>2, <1>3, <1>5, <1>6, <1>7, <1>8, QuietStep

\* One node is read: without a race it is the next node of the list, whole.
LEMMA RootReadStep ==
  ASSUME IInv, ~fatal, NEW t \in Threads, track, RootRead(t)
  PROVE  IInv' /\ settledList' = settledList
<1> DEFINE m == Len(leaves[t])
           T == Hashes \cup {ZeroHash, Torn}
<1>1. /\ UNCHANGED <<array, length, rootHash, nodeIndex, lock, removed, fatal, arg, i, n>>
      /\ pc[t] = "read" /\ pc[t] \notin LockSteps /\ Types /\ Local(t)
  BY DEF RootRead, shared, IInv, LockSteps
<1>2. PICK hash \in readings(m + 1) : leaves' = [leaves EXCEPT ![t] = Append(@, hash)]
  BY DEF RootRead
<1>3. /\ m \in Nat /\ m < n[t] /\ n[t] <= TreeSize /\ n[t] \in Int
      /\ leaves[t] \in Seq(T) /\ TreeSize \in Nat
  BY <1>1, SubtreeConcAssumption DEF Types, Local
<1>4. m + 1 \in 1 .. Len(array) /\ array[m + 1] \in T
  BY <1>1, <1>3 DEF Types
<1>5. hash \in T /\ (~raced => hash = array[m + 1])
  <2>1. hash \in {array[m + 1], Torn}
    BY <1>2 DEF readings
  <2>2. ASSUME NEW u \in Threads, pc[u] = "shift" PROVE Racing
    <3>1. lock = u /\ lock # NULL
      BY <2>2, SubtreeConcAssumption DEF IInv, Local, LockSteps
    <3> QED BY <1>1, <2>2, <3>1 DEF Racing, computing
  <2>3. ~raced => hash = array[m + 1]
    BY <1>2, <2>2 DEF readings, IInv, RootExact
  <2> QED BY <1>4, <2>1, <2>3
<1>6. /\ leaves' \in [Threads -> Seq(T)]
      /\ leaves'[t] = Append(leaves[t], hash)
      /\ \A u \in Threads \ {t} : leaves'[u] = leaves[u]
  BY <1>1, <1>2, <1>5 DEF Types
<1>7. Len(leaves'[t]) = m + 1
  BY <1>3, <1>5, <1>6
<1> DEFINE step == IF m + 1 = n[t] THEN "store" ELSE "read"
<1>8. /\ pc' \in [Threads -> Steps]
      /\ pc'[t] = step
      /\ \A u \in Threads \ {t} : pc'[u] = pc[u]
  <2>1. step \in Steps /\ goto(t, step)
    BY <1>7 DEF Steps, RootRead
  <2> QED BY <1>1, <2>1, GotoFacts
<1>9. Types'
  BY <1>1, <1>6, <1>8 DEF Types, track
<1>10. Local(t)'
  BY <1>1, <1>3, <1>7, <1>8 DEF Local, LockSteps
<1>11. ASSUME ~raced
       PROVE  /\ length > 0
              /\ n[t] = length /\ leaves'[t] = SubSeq(array, 1, m + 1)
  <2>1. length > 0 /\ n[t] = length /\ leaves[t] = SubSeq(array, 1, m)
    BY <1>1, <1>11 DEF IInv, RootExact, computing
  <2>2. m \in 0 .. length /\ m < length
    BY <1>1, <1>3, <2>1 DEF Types
  <2>3. SubSeq(array, 1, m + 1) = Append(SubSeq(array, 1, m), array[m + 1])
    BY <1>1, <2>2, PrefixFacts
  <2> QED BY <1>5, <1>6, <1>11, <2>1, <2>3
<1>12. ~raced => /\ length > 0
                 /\ n'[t] = length /\ leaves'[t] = SubSeq(array, 1, Len(leaves'[t]))
                 /\ pc'[t] = "store" => Len(leaves'[t]) = n'[t]
  BY <1>1, <1>7, <1>8, <1>11
<1> HIDE DEF m
<1> QED BY <1>1, <1>6, <1>8, <1>9, <1>10, <1>12, QuietStep

\* The root is cached: without a race it was computed from all of the list.
LEMMA RootStoreStep ==
  ASSUME IInv, ~fatal, NEW t \in Threads, track, RootStore(t)
  PROVE  IInv' /\ settledList' = settledList
<1>1. /\ UNCHANGED <<array, length, nodeIndex, lock, removed, fatal>>
      /\ pc[t] = "store" /\ pc[t] \notin LockSteps /\ Types /\ Local(t)
      /\ rootHash' = MerkleRoot(leaves[t])
  BY DEF RootStore, shared, IInv, LockSteps
<1>2. /\ pc' \in [Threads -> Steps]
      /\ arg' \in [Threads -> Hashes \cup {ZeroHash}]
      /\ i' \in [Threads -> Nat]
      /\ n' \in [Threads -> Int]
      /\ leaves' \in [Threads -> Seq(Hashes \cup {ZeroHash, Torn})]
      /\ pc'[t] = "idle" /\ i'[t] = 0 /\ leaves'[t] = << >>
      /\ \A u \in Threads \ {t} :
           /\ pc'[u] = pc[u] /\ arg'[u] = arg[u] /\ i'[u] = i[u] /\ n'[u] = n[u]
           /\ leaves'[u] = leaves[u]
  BY <1>1, ReturnFacts DEF RootStore
<1>3. Types'
  BY <1>1, <1>2 DEF Types, track
<1>4. Local(t)'
  BY <1>1, <1>2 DEF Local, LockSteps
<1>5. /\ \A u \in Threads : Local(u)'
      /\ IndexExact'
      /\ list' = list
      /\ settledList' = settledList
      /\ lock # t
      /\ lock # NULL => pc'[lock] = pc[lock]
  BY <1>1, <1>2, <1>4, ReaderStep
<1>6. raced \in BOOLEAN /\ computing(t) /\ ~computing(t)'
  BY <1>1, <1>2 DEF Types, computing
<1>7. ASSUME ~raced
      PROVE  /\ list # << >> /\ leaves[t] = list
             /\ lock # NULL => pc[lock] # "index"
  <2>1. /\ length > 0 /\ length \in Nat
        /\ leaves[t] = SubSeq(array, 1, length)
    BY <1>1, <1>6, <1>7 DEF IInv, RootExact, Types
  <2>2. Len(list) = length
    BY <1>1, <2>1, PrefixFacts DEF list
  <2>3. list # << >>
    BY <2>1, <2>2
  <2>5. leaves[t] = list
    BY <2>1 DEF list
  <2>4. lock # NULL => pc[lock] # "index"
    BY <1>6, <1>7 DEF IInv, RootExact, Racing
  <2> QED BY <2>3, <2>4, <2>5
<1>8. \A u \in Threads : computing(u)' => u # t /\ computing(u)
  BY <1>2, <1>6 DEF computing
<1>9. ASSUME ~raced, NEW u \in Threads, computing(u)'
      PROVE  /\ length' > 0
             /\ pc'[u] \in {"read", "store"} =>
                  n'[u] = length' /\ leaves'[u] = SubSeq(array', 1, Len(leaves'[u]))
             /\ pc'[u] = "store" => Len(leaves'[u]) = n'[u]
  <2>1. u # t /\ computing(u)
    BY <1>8, <1>9
  <2> QED BY <1>1, <1>2, <1>9, <2>1 DEF IInv, RootExact
<1>10. ~raced => rootHash' = MerkleRoot(list)'
  <2>1. ~raced => rootHash' = MerkleRoot(list)
    BY <1>1, <1>7
  <2>2. MerkleRoot(list)' = MerkleRoot(list)
    BY <1>5, Zenon DEF MerkleRoot
  <2> QED BY <2>1, <2>2
<1>11. RootExact'
  BY <1>1, <1>5, <1>6, <1>7, <1>9, <1>10, TrackedRoot
<1> QED BY <1>3, <1>5, <1>11 DEF IInv

-----------------------------------------------------------------------------
(* AddSubtreeNode.                                                         *)

\* A goroutine that takes the lock.
LEMMA TakeLock ==
  ASSUME IInv, ~fatal, NEW t \in Threads, track, lock = NULL, lock' = t,
         UNCHANGED <<array, length, rootHash>>,
         \A u \in Threads \ {t} :
           /\ pc'[u] = pc[u] /\ arg'[u] = arg[u] /\ i'[u] = i[u] /\ n'[u] = n[u]
           /\ leaves'[u] = leaves[u],
         Types', Local(t)', IndexExact',
         pc[t] \notin LockSteps, pc'[t] \in {"append", "shift", "fill"}
  PROVE  IInv'
<1>1. ASSUME NEW u \in Threads PROVE Local(u)'
  <2>1. CASE u = t
    BY <2>1
  <2>2. CASE u # t
    BY <2>2, OtherLocal, SubtreeConcAssumption
  <2> QED BY <2>1, <2>2
<1>2. raced \in BOOLEAN /\ lock # t /\ NULL # t
  BY SubtreeConcAssumption DEF IInv, Types
<1>3. \A u \in Threads : computing(u)' => u # t /\ computing(u)
  BY DEF computing
<1>4. ASSUME ~raced, NEW u \in Threads, computing(u)'
      PROVE  /\ length' > 0
             /\ pc'[u] \in {"read", "store"} =>
                  n'[u] = length' /\ leaves'[u] = SubSeq(array', 1, Len(leaves'[u]))
             /\ pc'[u] = "store" => Len(leaves'[u]) = n'[u]
  <2>1. u # t /\ computing(u)
    BY <1>3, <1>4
  <2> QED BY <1>4, <2>1 DEF IInv, RootExact
<1>5. MerkleRoot(list)' = MerkleRoot(list) /\ list' = list
  <2>1. list' = list
    BY DEF list
  <2> QED BY <2>1, Zenon DEF MerkleRoot
<1>6. RootExact'
  BY <1>2, <1>4, <1>5, TrackedRoot DEF IInv, RootExact
<1> QED BY <1>1, <1>6 DEF IInv

\* The lock is taken for an addition, if there is room: this is where the
\* addition takes effect.
LEMMA AddLockStep ==
  ASSUME IInv, ~fatal, NEW t \in Threads, track, AddLock(t)
  PROVE  IInv' /\ [Promise!Next]_settledList
<1>1. /\ UNCHANGED <<array, length, rootHash, nodeIndex, fatal, removed>>
      /\ pc[t] = "add" /\ pc[t] \notin LockSteps /\ Types /\ Local(t) /\ lock = NULL
      /\ fatal \in BOOLEAN /\ t # NULL
  BY SubtreeConcAssumption DEF AddLock, IInv, LockSteps, Types
<1>2. CASE return(t) /\ UNCHANGED lock
  BY <1>1, <1>2, ReturnStep
<1>3. CASE length + 1 <= TreeSize /\ lock' = t /\ goto(t, "append") /\ keepLocals
  <2>1. /\ pc' \in [Threads -> Steps]
        /\ pc'[t] = "append"
        /\ \A u \in Threads \ {t} : pc'[u] = pc[u]
    BY <1>1, <1>3, GotoFacts DEF Steps, LockSteps
  <2>2. UNCHANGED <<arg, i, n, leaves>> /\ length < TreeSize
    BY <1>1, <1>3, SubtreeConcAssumption DEF keepLocals, Types
  <2>3. Types'
    BY <1>1, <1>3, <2>1, <2>2 DEF Types, track
  <2>4. Local(t)'
    BY <1>1, <1>3, <2>1, <2>2 DEF Local, LockSteps
  <2>5. list' = list
    BY <1>1 DEF list
  <2>6. IndexExact'
    <3>1. indexed' = indexed
      BY <1>1, <1>3, <2>1, <2>5, IndexedIs DEF indexed
    <3>2. exactIndex(indexed)' = exactIndex(indexed)
      BY <3>1 DEF exactIndex
    <3> QED BY <1>1, <1>3, <2>1, <3>2 DEF IInv, IndexExact
  <2>7. IInv'
    BY <1>1, <1>3, <2>1, <2>2, <2>3, <2>4, <2>6, TakeLock
  <2>8. Promise!Add(arg[t])
    <3>1. settledList = list
      BY <1>1, SettledIs
    <3>2. settledList' = Append(list, arg[t])
      BY <1>1, <1>3, <2>1, <2>2, <2>5 DEF settledList
    <3>3. Len(list) = length
      BY <1>1, PrefixFacts DEF list, Types
    <3> QED BY <2>2, <3>1, <3>2, <3>3 DEF Promise!Add
  <2> QED BY <1>1, <2>7, <2>8 DEF Promise!Next, Local
<1> QED BY <1>2, <1>3 DEF AddLock

\* A step of the holder of the lock, up to what it relies on itself.
LEMMA HolderStep ==
  ASSUME IInv, ~fatal, NEW t \in Threads, lock = t, lock' \in {t, NULL},
         \A u \in Threads \ {t} :
           /\ pc'[u] = pc[u] /\ arg'[u] = arg[u] /\ i'[u] = i[u] /\ n'[u] = n[u]
           /\ leaves'[u] = leaves[u],
         Local(t)'
  PROVE  \A u \in Threads : Local(u)'
<1> SUFFICES ASSUME NEW u \in Threads PROVE Local(u)'
  OBVIOUS
<1>1. CASE u = t
  BY <1>1
<1>2. CASE u # t
  BY <1>2, OtherLocal, SubtreeConcAssumption
<1> QED BY <1>1, <1>2

\* While a holder of the lock changes the nodes, without a race nobody computes
\* a root.
LEMMA ChangeRoot ==
  ASSUME IInv, NEW t \in Threads, track, lock = t,
         pc[t] \in {"append", "shift", "reset", "index"},
         \A u \in Threads \ {t} : pc'[u] = pc[u],
         pc'[t] \in {"shift", "reset", "index", "idle"},
         lock' = IF pc'[t] = "idle" THEN NULL ELSE t,
         pc'[t] \in {"index", "idle"} => rootHash' = NULL \/ (rootHash' = rootHash /\ pc[t] = "index")
  PROVE  RootExact'
<1>1. raced \in BOOLEAN /\ t # NULL
  BY SubtreeConcAssumption DEF IInv, Types
<1>2. ASSUME ~raced, NEW u \in Threads PROVE ~computing(u)'
  <2>1. ~computing(u)
    BY <1>1, <1>2 DEF IInv, RootExact, Racing
  <2>2. CASE u = t
    BY <2>2 DEF computing
  <2>3. CASE u # t
    BY <2>1, <2>3 DEF computing
  <2> QED BY <2>2, <2>3
<1>3. ~raced /\ pc'[t] \in {"index", "idle"} => rootHash' = NULL
  BY <1>1 DEF IInv, RootExact
<1> QED BY <1>1, <1>2, <1>3, TrackedRoot

\* The node is stored and the slice header written.
LEMMA AddAppendStep ==
  ASSUME IInv, ~fatal, NEW t \in Threads, track, AddAppend(t)
  PROVE  IInv' /\ settledList' = settledList
<1>1. /\ UNCHANGED <<rootHash, nodeIndex, lock, fatal, removed, arg, i, leaves>>
      /\ pc[t] = "append" /\ Types /\ Local(t) /\ lock = t /\ t # NULL
      /\ length' = length + 1
      /\ n' = [n EXCEPT ![t] = length]
  BY SubtreeConcAssumption DEF AddAppend, IInv, LockSteps, Local
<1>2. length < TreeSize /\ arg[t] \in Hashes /\ length \in Nat /\ TreeSize \in Nat
  BY <1>1, SubtreeConcAssumption DEF Local, Types
<1>3. array' = [array EXCEPT ![length + 1] = arg[t]]
  BY <1>1, <1>2 DEF AddAppend, Types
<1>4. /\ array' \in Seq(Hashes \cup {ZeroHash})
      /\ Len(array') = TreeSize
      /\ array'[length + 1] = arg[t]
      /\ \A k \in 1 .. length : array'[k] = array[k]
  BY <1>1, <1>2, <1>3 DEF Types
<1>5. /\ pc' \in [Threads -> Steps]
      /\ pc'[t] = "reset"
      /\ \A u \in Threads \ {t} : pc'[u] = pc[u]
  BY <1>1, GotoFacts DEF Steps, LockSteps, AddAppend
<1>6. n' \in [Threads -> Int] /\ n'[t] = length /\ \A u \in Threads \ {t} : n'[u] = n[u]
  BY <1>1, <1>2 DEF Types
<1>7. Types'
  <2>1. \A k \in 1 .. length' : array'[k] \in Hashes
    <3> SUFFICES ASSUME NEW k \in 1 .. length + 1 PROVE array'[k] \in Hashes
      BY <1>1
    <3>1. CASE k = length + 1
      BY <1>2, <1>4, <3>1
    <3>2. CASE k # length + 1
      <4>1. k \in 1 .. length
        BY <1>2, <3>2
      <4> QED BY <1>1, <1>4, <4>1 DEF Types
    <3> QED BY <3>1, <3>2
  <2> QED BY <1>1, <1>2, <1>4, <1>5, <1>6, <2>1 DEF Types, track
<1>8. Local(t)'
  BY <1>1, <1>2, <1>4, <1>5, <1>6 DEF Local, LockSteps
<1>9. \A u \in Threads : Local(u)'
  BY <1>1, <1>5, <1>6, <1>8, HolderStep
<1>10. SubSeq(array', 1, length) = list
  BY <1>1, <1>2, <1>4, PrefixSame DEF list, Types
<1>11. IndexExact'
  <2>1. indexed = list
    BY <1>1, IndexedIs
  <2>2. indexed' = SubSeq(array', 1, length)
    BY <1>1, <1>2, <1>5 DEF indexed
  <2>3. indexed' = indexed
    BY <1>10, <2>1, <2>2
  <2>4. exactIndex(indexed)' = exactIndex(indexed)
    BY <2>3 DEF exactIndex
  <2> QED BY <1>1, <1>5, <2>4 DEF IInv, IndexExact
<1>12. RootExact'
  BY <1>1, <1>5, ChangeRoot
<1>13. settledList' = settledList
  <2>1. settledList = Append(list, arg[t])
    BY <1>1, SettledIs
  <2>2. settledList' = SubSeq(array', 1, length + 1)
    BY <1>1, <1>5 DEF settledList, list
  <2>3. SubSeq(array', 1, length + 1) = Append(SubSeq(array, 1, length), array'[length + 1])
    BY <1>1, <1>2, <1>4, PrefixAppend DEF Types
  <2> QED BY <1>4, <2>1, <2>2, <2>3 DEF list
<1> QED BY <1>7, <1>9, <1>11, <1>12, <1>13 DEF IInv

\* The cached root is dropped.
LEMMA ResetStep ==
  ASSUME IInv, ~fatal, NEW t \in Threads, track, Reset(t)
  PROVE  IInv' /\ settledList' = settledList
<1>1. /\ UNCHANGED <<array, length, nodeIndex, lock, fatal, removed, arg, i, n, leaves>>
      /\ pc[t] = "reset" /\ Types /\ Local(t) /\ lock = t /\ t # NULL
      /\ rootHash' = NULL
  BY SubtreeConcAssumption DEF Reset, keepLocals, IInv, LockSteps, Local
<1>2. /\ pc' \in [Threads -> Steps]
      /\ pc'[t] = "index"
      /\ \A u \in Threads \ {t} : pc'[u] = pc[u]
  BY <1>1, GotoFacts DEF Steps, LockSteps, Reset
<1>3. Types'
  BY <1>1, <1>2 DEF Types, track
<1>4. Local(t)'
  BY <1>1, <1>2 DEF Local, LockSteps
<1>5. \A u \in Threads : Local(u)'
  BY <1>1, <1>2, <1>4, HolderStep
<1>6. IndexExact'
  <2>1. indexed' = indexed
    BY <1>1, <1>2 DEF indexed
  <2>2. exactIndex(indexed)' = exactIndex(indexed)
    BY <2>1 DEF exactIndex
  <2> QED BY <1>1, <1>2, <2>2 DEF IInv, IndexExact
<1>7. RootExact'
  <2>1. lock' = IF pc'[t] = "idle" THEN NULL ELSE t
    BY <1>1, <1>2
  <2>2. pc'[t] \in {"index", "idle"} =>
          rootHash' = NULL \/ (rootHash' = rootHash /\ pc[t] = "index")
    BY <1>1
  <2> QED BY <1>1, <1>2, <2>1, <2>2, ChangeRoot
<1>8. settledList' = settledList
  BY <1>1, <1>2 DEF settledList, list
<1> QED BY <1>3, <1>5, <1>6, <1>7, <1>8 DEF IInv

\* The index is told of the new node, and the lock released.
LEMMA UpdateIndexStep ==
  ASSUME IInv, ~fatal, NEW t \in Threads, track, UpdateIndex(t)
  PROVE  IInv' /\ settledList' = settledList
<1>1. /\ UNCHANGED <<array, length, rootHash, fatal, removed>>
      /\ pc[t] = "index" /\ Types /\ Local(t) /\ lock = t /\ t # NULL
      /\ lock' = NULL
      /\ nodeIndex' = IF nodeIndex = NULL THEN NULL ELSE [nodeIndex EXCEPT ![arg[t]] = n[t]]
  BY SubtreeConcAssumption DEF UpdateIndex, IInv, LockSteps, Local
<1>2. /\ pc' \in [Threads -> Steps]
      /\ arg' \in [Threads -> Hashes \cup {ZeroHash}]
      /\ i' \in [Threads -> Nat]
      /\ n' \in [Threads -> Int]
      /\ leaves' \in [Threads -> Seq(Hashes \cup {ZeroHash, Torn})]
      /\ pc'[t] = "idle" /\ i'[t] = 0 /\ leaves'[t] = << >>
      /\ \A u \in Threads \ {t} :
           /\ pc'[u] = pc[u] /\ arg'[u] = arg[u] /\ i'[u] = i[u] /\ n'[u] = n[u]
           /\ leaves'[u] = leaves[u]
  BY <1>1, ReturnFacts DEF UpdateIndex
<1>3. /\ arg[t] \in Hashes /\ n[t] \in Int
      /\ removed \/ (n[t] = length - 1 /\ length > 0 /\ arg[t] = array[length])
  BY <1>1 DEF Local, Types
<1>4. nodeIndex' = NULL \/ nodeIndex' \in [Hashes -> Int]
  BY <1>1, <1>3 DEF Types
<1>5. Types'
  BY <1>1, <1>2, <1>4 DEF Types, track
<1>6. Local(t)'
  BY <1>1, <1>2 DEF Local, LockSteps
<1>7. \A u \in Threads : Local(u)'
  BY <1>1, <1>2, <1>6, HolderStep
<1>8. IndexExact'
  <2> SUFFICES ASSUME ~removed, nodeIndex' # NULL
               PROVE  nodeIndex' = exactIndex(indexed)'
    BY <1>1 DEF IndexExact
  <2> DEFINE l == SubSeq(array, 1, length - 1)
  <2>1. indexed = l
    BY <1>1, IndexedIs
  <2>2. nodeIndex = exactIndex(l)
    BY <1>1, <2>1 DEF IInv, IndexExact
  <2>3. length - 1 \in 0 .. length /\ length - 1 < length /\ length - 1 + 1 = length
    BY <1>1, <1>3 DEF Types
  <2>4. l \in Seq(Hashes) /\ Len(l) = length - 1 /\ list = Append(l, array[length])
    BY <1>1, <2>3, PrefixFacts DEF list
  <2>5. exactIndex(list) = [exactIndex(l) EXCEPT ![arg[t]] = length - 1]
    BY <1>3, <2>4, ExactIndexAppend
  <2>6. nodeIndex' = [nodeIndex EXCEPT ![arg[t]] = length - 1]
    BY <1>1, <1>3
  <2>7. nodeIndex' = exactIndex(list)
    BY <2>2, <2>5, <2>6
  <2>8. exactIndex(indexed)' = exactIndex(list)
    <3>1. indexed' = list
      BY <1>1 DEF indexed, list
    <3> QED BY <3>1 DEF exactIndex
  <2> QED BY <2>7, <2>8
<1>9. RootExact'
  BY <1>1, <1>2, ChangeRoot
<1>10. settledList' = settledList
  BY <1>1, <1>2 DEF settledList, list
<1> QED BY <1>5, <1>7, <1>8, <1>9, <1>10 DEF IInv

-----------------------------------------------------------------------------
(* RemoveNodeAtIndex.                                                      *)

\* The lock is taken for a removal of a node that is there: this is where the
\* removal takes effect.
LEMMA RemoveLockStep ==
  ASSUME IInv, ~fatal, NEW t \in Threads, track, RemoveLock(t)
  PROVE  IInv' /\ [Promise!Next]_settledList
<1>1. /\ UNCHANGED <<array, length, rootHash, nodeIndex, fatal>>
      /\ pc[t] = "remove" /\ pc[t] \notin LockSteps /\ Types /\ Local(t) /\ lock = NULL
      /\ fatal \in BOOLEAN /\ t # NULL
  BY SubtreeConcAssumption DEF RemoveLock, IInv, LockSteps, Types
<1>2. CASE return(t) /\ UNCHANGED <<lock, removed>>
  BY <1>1, <1>2, ReturnStep
<1>3. CASE /\ i[t] < length
           /\ lock' = t
           /\ removed' = TRUE
           /\ arg' = [arg EXCEPT ![t] = array[i[t] + 1]]
           /\ n' = [n EXCEPT ![t] = -1]
           /\ goto(t, "shift")
           /\ UNCHANGED <<i, leaves>>
  <2>1. /\ pc' \in [Threads -> Steps]
        /\ pc'[t] = "shift"
        /\ \A u \in Threads \ {t} : pc'[u] = pc[u]
    BY <1>1, <1>3, GotoFacts DEF Steps, LockSteps
  <2>2. length \in Nat /\ i[t] \in 0 .. length - 1 /\ array[i[t] + 1] \in Hashes
    BY <1>1, <1>3 DEF Types
  <2>3. /\ arg' \in [Threads -> Hashes \cup {ZeroHash}] /\ arg'[t] \in Hashes
        /\ \A u \in Threads \ {t} : arg'[u] = arg[u]
    BY <1>1, <1>3, <2>2 DEF Types
  <2>4. n' \in [Threads -> Int] /\ \A u \in Threads \ {t} : n'[u] = n[u]
    BY <1>1, <1>3 DEF Types
  <2>5. Types'
    BY <1>1, <1>3, <2>1, <2>3, <2>4 DEF Types, track
  <2>6. Local(t)'
    BY <1>1, <1>3, <2>1, <2>3 DEF Local, LockSteps
  <2>7. IndexExact'
    BY <1>3, <2>1 DEF IndexExact
  <2>8. IInv'
    BY <1>1, <1>3, <2>1, <2>3, <2>4, <2>5, <2>6, <2>7, TakeLock
  <2>9. Promise!Remove(i[t])
    <3>1. settledList = list /\ list' = list
      BY <1>1, SettledIs DEF list
    <3>2. settledList' = SubSeq(list, 1, i[t]) \o SubSeq(list, i[t] + 2, length)
      BY <1>1, <1>3, <2>1, <3>1 DEF settledList
    <3>3. Len(list) = length
      BY <1>1, PrefixFacts DEF list, Types
    <3> QED BY <3>1, <3>2, <3>3 DEF Promise!Remove
  <2>10. i[t] \in 0 .. Len(settledList) - 1
    BY <1>1, <2>2, SettledIs, PrefixFacts DEF list
  <2> QED BY <2>8, <2>9, <2>10 DEF Promise!Next
<1> QED BY <1>2, <1>3 DEF RemoveLock

\* A list without the node at position k.
without(s, k) == SubSeq(s, 1, k) \o SubSeq(s, k + 2, Len(s))

\* It is one shorter, and the nodes after position k have moved down.
LEMMA WithoutFacts ==
  ASSUME NEW S, NEW s \in Seq(S), NEW k \in 0 .. Len(s) - 1
  PROVE  /\ without(s, k) \in Seq(S)
         /\ Len(without(s, k)) = Len(s) - 1
         /\ \A j \in 1 .. Len(without(s, k)) :
              without(s, k)[j] = IF j <= k THEN s[j] ELSE s[j + 1]
<1> DEFINE t == SubSeq(s, 1, k) \o SubSeq(s, k + 2, Len(s))
<1>1. t = SubSeq(s, 1, k) \o SubSeq(s, k + 2, Len(s))
  OBVIOUS
<1> HIDE DEF t
<1>2. /\ t \in Seq(S) /\ Len(t) = Len(s) - 1
      /\ \A j \in 1 .. Len(t) : t[j] = IF j <= k THEN s[j] ELSE s[j + 1]
  BY <1>1, RemoveLemma, Zenon
<1>3. without(s, k) = t
  BY <1>1 DEF without
<1> QED BY <1>2, <1>3, Zenon

\* A list without element k + 1 is the list with element k + 2 moved down,
\* without element k + 2.
LEMMA ShiftOne ==
  ASSUME NEW S, NEW s \in Seq(S), NEW k \in Nat, k + 1 < Len(s)
  PROVE  LET t == [s EXCEPT ![k + 1] = s[k + 2]]
         IN  SubSeq(t, 1, k + 1) \o SubSeq(t, k + 3, Len(s)) =
             SubSeq(s, 1, k) \o SubSeq(s, k + 2, Len(s))
<1> DEFINE t == [s EXCEPT ![k + 1] = s[k + 2]]
           a == SubSeq(s, 1, k) \o SubSeq(s, k + 2, Len(s))
           b == SubSeq(t, 1, k + 1) \o SubSeq(t, k + 3, Len(t))
<1>1. /\ t \in Seq(S) /\ Len(t) = Len(s) /\ t[k + 1] = s[k + 2]
      /\ \A j \in 1 .. Len(s) : j # k + 1 => t[j] = s[j]
      /\ k \in 0 .. Len(s) - 1
  OBVIOUS
<1>2. k + 1 \in 0 .. Len(t) - 1 /\ k + 1 + 2 = k + 3 /\ Len(s) \in Nat
  BY <1>1
<1>a. a = SubSeq(s, 1, k) \o SubSeq(s, k + 2, Len(s))
  OBVIOUS
<1>b. b = SubSeq(t, 1, k + 1) \o SubSeq(t, k + 1 + 2, Len(t))
  BY <1>2
<1> HIDE DEF t, a, b
<1>3. /\ a \in Seq(S) /\ Len(a) = Len(s) - 1
      /\ \A j \in 1 .. Len(a) : a[j] = IF j <= k THEN s[j] ELSE s[j + 1]
  <2>1. k \in 0 .. Len(s) - 1
    BY <1>1
  <2>2. /\ a \in Seq(S) /\ Len(a) = Len(s) - 1
        /\ \A j \in 1 .. Len(a) : a[j] = IF j <= k THEN s[j] ELSE s[j + 1]
    BY <2>1, <1>a, WithoutFacts DEF without
  <2> QED BY <2>2
<1>4. /\ b \in Seq(S) /\ Len(b) = Len(t) - 1
      /\ \A j \in 1 .. Len(b) : b[j] = IF j <= k + 1 THEN t[j] ELSE t[j + 1]
  <2> DEFINE m == k + 1
  <2>1. /\ t \in Seq(S) /\ m \in 0 .. Len(t) - 1
        /\ b = SubSeq(t, 1, m) \o SubSeq(t, m + 2, Len(t))
    BY <1>1, <1>2, <1>b
  <2> HIDE DEF m
  <2>2. /\ b \in Seq(S) /\ Len(b) = Len(t) - 1
        /\ \A j \in 1 .. Len(b) : b[j] = IF j <= m THEN t[j] ELSE t[j + 1]
    <3>1. b = without(t, m)
      BY <2>1 DEF without
    <3> QED BY <2>1, <3>1, WithoutFacts
  <2> QED BY <2>2 DEF m
<1>5. ASSUME NEW j \in 1 .. Len(s) - 1 PROVE b[j] = a[j]
  <2>1. CASE j <= k
    BY <1>1, <1>2, <1>3, <1>4, <2>1
  <2>2. CASE j = k + 1
    BY <1>1, <1>2, <1>3, <1>4, <2>2
  <2>3. CASE j > k + 1
    BY <1>1, <1>2, <1>3, <1>4, <2>3
  <2> QED BY <1>2, <2>1, <2>2, <2>3
<1>6. a = b
  BY <1>1, <1>3, <1>4, <1>5, SeqEqual
<1> QED BY <1>1, <1>6 DEF a, b, t

\* Nodes move down one by one; the list of the next holder of the lock is the
\* same throughout.
LEMMA RemoveShiftStep ==
  ASSUME IInv, ~fatal, NEW t \in Threads, track, RemoveShift(t)
  PROVE  IInv' /\ settledList' = settledList
<1> DEFINE k == i[t]
<1>1. /\ UNCHANGED <<rootHash, nodeIndex, lock, fatal, removed, arg, n, leaves>>
      /\ pc[t] = "shift" /\ Types /\ Local(t) /\ lock = t /\ t # NULL
  BY SubtreeConcAssumption DEF RemoveShift, IInv, LockSteps, Local
<1>2. k \in Nat /\ k < length /\ removed /\ length \in Nat /\ length <= Len(array)
  BY <1>1 DEF Local, Types
<1>3. list \in Seq(Hashes) /\ Len(list) = length
  BY <1>1, <1>2, PrefixFacts DEF list, Types
<1>4. settledList = SubSeq(list, 1, k) \o SubSeq(list, k + 2, length)
  BY <1>1, SettledIs
<1>5. pc'[t] # "fill" => IndexExact'
  BY <1>1, <1>2 DEF IndexExact
<1>6. CASE k + 1 < length
  <2>1. /\ array' = [array EXCEPT ![k + 1] = array[k + 2]]
        /\ i' = [i EXCEPT ![t] = @ + 1]
        /\ UNCHANGED <<length, pc>>
    BY <1>6 DEF RemoveShift
  <2>2. /\ array' \in Seq(Hashes \cup {ZeroHash}) /\ Len(array') = TreeSize
        /\ array'[k + 1] = array[k + 2] /\ array[k + 2] \in Hashes
        /\ \A j \in 1 .. length : j # k + 1 => array'[j] = array[j]
    BY <1>1, <1>2, <1>6, <2>1 DEF Types
  <2>3. i' \in [Threads -> Nat] /\ i'[t] = k + 1 /\ \A u \in Threads \ {t} : i'[u] = i[u]
    BY <1>1, <1>2, <2>1 DEF Types
  <2>4. Types'
    <3>1. \A j \in 1 .. length' : array'[j] \in Hashes
      BY <1>1, <2>1, <2>2 DEF Types
    <3> QED BY <1>1, <2>1, <2>2, <2>3, <3>1 DEF Types, track
  <2>5. Local(t)'
    BY <1>1, <1>2, <1>6, <2>1, <2>3 DEF Local, LockSteps
  <2>6. \A u \in Threads : Local(u)'
    BY <1>1, <2>1, <2>3, <2>5, HolderStep
  <2>7. RootExact'
    BY <1>1, <2>1, ChangeRoot
  <2>8. list' = [list EXCEPT ![k + 1] = list[k + 2]]
    <3> DEFINE m == [list EXCEPT ![k + 1] = list[k + 2]]
    <3>1. \A j \in 1 .. length : list[j] = array[j]
      BY <1>1, <1>2 DEF list, Types
    <3>2. /\ m \in Seq(Hashes) /\ Len(m) = length
          /\ m[k + 1] = array[k + 2]
          /\ \A j \in 1 .. length : j # k + 1 => m[j] = array[j]
      BY <1>2, <1>3, <1>6, <3>1
    <3>3. /\ list' \in Seq(Hashes) /\ Len(list') = length
          /\ \A j \in 1 .. length : list'[j] = array'[j]
      <4>1. /\ list' = SubSeq(array', 1, length) /\ length <= Len(array')
            /\ \A j \in 1 .. length : array'[j] \in Hashes
        BY <1>1, <1>2, <2>1, <2>2, <2>4 DEF list, Types
      <4> QED BY <1>2, <2>2, <4>1, PrefixType
    <3> HIDE DEF m
    <3>4. \A j \in 1 .. length : list'[j] = m[j]
      BY <2>2, <3>2, <3>3
    <3>5. list' = m
      BY <3>2, <3>3, <3>4, SeqEqual
    <3> QED BY <3>5 DEF m
  <2>9. settledList' = SubSeq(list', 1, k + 1) \o SubSeq(list', k + 3, length)
    <3>1. settledList' = SubSeq(list', 1, i'[t]) \o SubSeq(list', i'[t] + 2, length)
      BY <1>1, <2>1 DEF settledList
    <3>2. i'[t] = k + 1 /\ i'[t] + 2 = k + 3
      BY <1>2, <2>3
    <3> QED BY <3>1, <3>2
  <2>10. settledList' = settledList
    BY <1>2, <1>3, <1>4, <1>6, <2>8, <2>9, ShiftOne
  <2> QED BY <1>1, <1>5, <2>1, <2>4, <2>6, <2>7, <2>10 DEF IInv
<1>7. CASE ~(k + 1 < length)
  <2>1. length' = length - 1 /\ goto(t, "reset") /\ UNCHANGED <<array, i>>
    BY <1>7 DEF RemoveShift
  <2>2. /\ pc' \in [Threads -> Steps]
        /\ pc'[t] = "reset"
        /\ \A u \in Threads \ {t} : pc'[u] = pc[u]
    BY <1>1, <2>1, GotoFacts DEF Steps, LockSteps
  <2>3. k = length - 1
    BY <1>2, <1>7
  <2>4. Types'
    BY <1>1, <1>2, <2>1, <2>2 DEF Types, track
  <2>5. Local(t)'
    BY <1>1, <1>2, <2>1, <2>2 DEF Local, LockSteps
  <2>6. \A u \in Threads : Local(u)'
    BY <1>1, <2>1, <2>2, <2>5, HolderStep
  <2>7. RootExact'
    BY <1>1, <2>2, ChangeRoot
  <2>8. settledList' = settledList
    <3>1. settledList' = SubSeq(array, 1, k)
      BY <1>1, <2>1, <2>2, <2>3 DEF settledList, list
    <3>2. SubSeq(list, k + 2, length) = << >>
      BY <1>2, <1>3, <2>3
    <3>3. SubSeq(list, 1, k) \in Seq(Hashes) /\ SubSeq(list, 1, k) = SubSeq(array, 1, k)
      <4>1. k <= Len(list) /\ k <= Len(array)
        BY <1>2, <1>3
      <4>2. \A j \in 1 .. k : list[j] = array[j]
        BY <1>1, <1>2 DEF list, Types
      <4>3. list \in Seq(Hashes \cup {ZeroHash}) /\ array \in Seq(Hashes \cup {ZeroHash})
        BY <1>1, <1>3 DEF Types
      <4>4. SubSeq(list, 1, k) = SubSeq(array, 1, k)
        BY <1>2, <4>1, <4>2, <4>3, PrefixSame
      <4>5. SubSeq(list, 1, k) \in Seq(Hashes)
        BY <1>2, <1>3
      <4> QED BY <4>4, <4>5
    <3>4. SubSeq(list, 1, k) \o << >> = SubSeq(list, 1, k)
      BY <3>3, ConcatEmptySeq
    <3> QED BY <1>4, <3>1, <3>2, <3>3, <3>4
  <2> QED BY <1>5, <2>2, <2>4, <2>6, <2>7, <2>8 DEF IInv
<1> QED BY <1>6, <1>7

-----------------------------------------------------------------------------
(* NodeIndex.                                                              *)

\* Whether there is an index is decided without the lock.
LEMMA NodeIndexTestStep ==
  ASSUME IInv, ~fatal, NEW t \in Threads, track, NodeIndexTest(t)
  PROVE  IInv' /\ settledList' = settledList
<1>1. /\ UNCHANGED <<array, length, rootHash, nodeIndex, lock, removed, fatal>>
      /\ pc[t] = "test" /\ keepLocals
      /\ goto(t, IF nodeIndex = NULL THEN "build" ELSE "look")
  BY DEF NodeIndexTest, shared
<1>2. CASE nodeIndex = NULL
  BY <1>1, <1>2, MoveStep
<1>3. CASE nodeIndex # NULL
  BY <1>1, <1>3, MoveStep
<1> QED BY <1>2, <1>3

\* An empty index is published under the lock.
LEMMA NodeIndexBuildStep ==
  ASSUME IInv, ~fatal, NEW t \in Threads, track, NodeIndexBuild(t)
  PROVE  IInv' /\ settledList' = settledList
<1>1. /\ UNCHANGED <<array, length, rootHash, fatal, removed, arg, i, leaves>>
      /\ pc[t] = "build" /\ pc[t] \notin LockSteps /\ Types /\ Local(t)
      /\ lock = NULL /\ lock' = t /\ t # NULL
      /\ nodeIndex' = [hash \in Hashes |-> -1]
      /\ n' = [n EXCEPT ![t] = length]
  BY SubtreeConcAssumption DEF NodeIndexBuild, IInv, LockSteps
<1>2. /\ pc' \in [Threads -> Steps]
      /\ pc'[t] = "fill"
      /\ \A u \in Threads \ {t} : pc'[u] = pc[u]
  BY <1>1, GotoFacts DEF Steps, LockSteps, NodeIndexBuild
<1>3. n' \in [Threads -> Int] /\ n'[t] = length /\ \A u \in Threads \ {t} : n'[u] = n[u]
  BY <1>1 DEF Types
<1>4. i[t] = 0 /\ length \in Nat
  BY <1>1 DEF Local, Types
<1>5. Types'
  BY <1>1, <1>2, <1>3 DEF Types, track
<1>6. Local(t)'
  BY <1>1, <1>2, <1>3, <1>4 DEF Local, LockSteps
<1>7. IndexExact'
  <2>1. indexed' = << >>
    BY <1>1, <1>2, <1>4 DEF indexed, Types
  <2>2. exactIndex(indexed)' = exactIndex(<< >>)
    BY <2>1 DEF exactIndex
  <2> QED BY <1>1, <2>2, ExactIndexEmpty DEF IndexExact
<1>8. IInv'
  BY <1>1, <1>2, <1>3, <1>5, <1>6, <1>7, TakeLock
<1>9. settledList' = settledList
  BY <1>1, <1>2 DEF settledList, list
<1> QED BY <1>8, <1>9

\* The nodes are entered one by one; then the lock is released.
LEMMA NodeIndexFillStep ==
  ASSUME IInv, ~fatal, NEW t \in Threads, track, NodeIndexFill(t)
  PROVE  IInv' /\ settledList' = settledList
<1> DEFINE k == i[t]
<1>1. /\ UNCHANGED <<array, length, rootHash, fatal, removed, arg, n, leaves>>
      /\ pc[t] = "fill" /\ Types /\ Local(t) /\ lock = t /\ t # NULL
  BY SubtreeConcAssumption DEF NodeIndexFill, IInv, LockSteps, Local
<1>2. /\ nodeIndex \in [Hashes -> Int] /\ n[t] = length
      /\ length \in Nat /\ k \in 0 .. length /\ k \in Nat
  BY <1>1 DEF Local, Types
<1>3. list' = list
  BY <1>1 DEF list
<1>4. MerkleRoot(list)' = MerkleRoot(list)
  BY <1>3, Zenon DEF MerkleRoot
<1>5. ASSUME \A u \in Threads \ {t} : pc'[u] = pc[u],
             \/ pc'[t] = "fill" /\ lock' = t
             \/ pc'[t] = "look" /\ lock' = NULL
      PROVE  RootExact'
  <2>1. \A u \in Threads : computing(u)' => u # t /\ computing(u)
    BY <1>5 DEF computing
  <2>2. ASSUME ~raced, NEW u \in Threads, computing(u)'
        PROVE  /\ length' > 0
               /\ pc'[u] \in {"read", "store"} =>
                    n'[u] = length' /\ leaves'[u] = SubSeq(array', 1, Len(leaves'[u]))
               /\ pc'[u] = "store" => Len(leaves'[u]) = n'[u]
    <3>1. u # t /\ computing(u)
      BY <2>1, <2>2
    <3> QED BY <1>1, <1>5, <2>2, <3>1 DEF IInv, RootExact
  <2>3. raced \in BOOLEAN
    BY <1>1 DEF Types
  <2>4. ~raced /\ rootHash # NULL => list # << >> /\ rootHash = MerkleRoot(list)
    BY <1>1 DEF IInv, RootExact
  <2> QED BY <1>1, <1>3, <1>4, <1>5, <2>2, <2>3, <2>4, TrackedRoot
<1>6. CASE k < n[t]
  <2>1. /\ nodeIndex' = [nodeIndex EXCEPT ![array[k + 1]] = k]
        /\ i' = [i EXCEPT ![t] = @ + 1]
        /\ UNCHANGED <<lock, pc>>
    BY <1>6 DEF NodeIndexFill
  <2>2. array[k + 1] \in Hashes
    BY <1>1, <1>2, <1>6 DEF Types
  <2>3. nodeIndex' \in [Hashes -> Int]
    <3> HIDE DEF k
    <3> QED BY <1>2, <2>1, <2>2
  <2>4. i' \in [Threads -> Nat] /\ i'[t] = k + 1 /\ \A u \in Threads \ {t} : i'[u] = i[u]
    BY <1>1, <1>2, <2>1 DEF Types
  <2>5. Types'
    BY <1>1, <2>1, <2>3, <2>4 DEF Types, track
  <2>6. Local(t)'
    BY <1>1, <1>2, <1>6, <2>1, <2>3, <2>4 DEF Local, LockSteps
  <2>7. \A u \in Threads : Local(u)'
    BY <1>1, <2>1, <2>4, <2>6, HolderStep
  <2>8. IndexExact'
    <3> SUFFICES nodeIndex' = exactIndex(indexed)'
      BY DEF IndexExact
    <3> DEFINE l == SubSeq(array, 1, k)
    <3>1. l \in Seq(Hashes) /\ Len(l) = k /\ SubSeq(array, 1, k + 1) = Append(l, array[k + 1])
      BY <1>1, <1>2, <1>6, PrefixFacts
    <3>2. indexed' = Append(l, array[k + 1])
      BY <1>1, <2>1, <2>4, <3>1 DEF indexed
    <3>3. nodeIndex = exactIndex(l)
      BY <1>1, IndexedIs DEF IInv, IndexExact
    <3>4. exactIndex(Append(l, array[k + 1])) = [exactIndex(l) EXCEPT ![array[k + 1]] = k]
      BY <2>2, <3>1, ExactIndexAppend
    <3>5. exactIndex(indexed)' = exactIndex(Append(l, array[k + 1]))
      BY <3>2 DEF exactIndex
    <3> QED BY <2>1, <3>3, <3>4, <3>5
  <2>9. RootExact'
    BY <1>1, <1>5, <2>1
  <2>10. settledList' = settledList
    BY <1>1, <1>3, <2>1 DEF settledList
  <2> QED BY <2>5, <2>7, <2>8, <2>9, <2>10 DEF IInv
<1>7. CASE ~(k < n[t])
  <2>1. lock' = NULL /\ goto(t, "look") /\ UNCHANGED <<nodeIndex, i>>
    BY <1>1, <1>7 DEF NodeIndexFill
  <2>2. /\ pc' \in [Threads -> Steps]
        /\ pc'[t] = "look"
        /\ \A u \in Threads \ {t} : pc'[u] = pc[u]
    BY <1>1, <2>1, GotoFacts DEF Steps
  <2>3. k = length
    BY <1>2, <1>7
  <2>4. Types'
    BY <1>1, <2>1, <2>2 DEF Types, track
  <2>5. Local(t)'
    BY <1>1, <2>1, <2>2 DEF Local, LockSteps
  <2>6. \A u \in Threads : Local(u)'
    BY <1>1, <2>1, <2>2, <2>5, HolderStep
  <2>7. IndexExact'
    <3>1. indexed' = indexed
      BY <1>1, <1>3, <2>1, <2>3, IndexedIs DEF indexed, list
    <3>2. exactIndex(indexed)' = exactIndex(indexed)
      BY <3>1 DEF exactIndex
    <3> QED BY <1>1, <2>1, <3>2 DEF IInv, IndexExact
  <2>8. RootExact'
    BY <1>5, <2>1, <2>2
  <2>9. settledList' = settledList
    BY <1>1, <1>3, <2>1 DEF settledList
  <2> QED BY <2>4, <2>6, <2>7, <2>8, <2>9 DEF IInv
<1> QED BY <1>6, <1>7

\* The answer is looked up without the lock.
LEMMA NodeIndexLookStep ==
  ASSUME IInv, ~fatal, NEW t \in Threads, track, NodeIndexLook(t)
  PROVE  IInv' /\ settledList' = settledList
<1>1. /\ UNCHANGED <<array, length, rootHash, nodeIndex, lock, removed>>
      /\ pc[t] = "look" /\ return(t) /\ fatal' \in BOOLEAN
  BY DEF NodeIndexLook
<1> QED BY <1>1, ReturnStep DEF LockSteps

-----------------------------------------------------------------------------
(* The theorems.                                                           *)

\* Every step preserves the invariant, and is a step of the abstract list or
\* leaves it alone.
LEMMA StepKeepsIInv ==
  IInv /\ [Next]_vars => IInv' /\ [Promise!Next]_settledList
<1> SUFFICES ASSUME IInv, [Next]_vars
             PROVE  IInv' /\ [Promise!Next]_settledList
  OBVIOUS
<1>1. CASE UNCHANGED vars
  <2>1. /\ UNCHANGED <<array, length, rootHash, nodeIndex, lock, pc, arg, i, n, leaves>>
        /\ UNCHANGED <<fatal, raced, removed>>
    BY <1>1 DEF vars
  <2>2. list' = list
    BY <2>1 DEF list
  <2>3. indexed' = indexed
    BY <2>1, <2>2 DEF indexed
  <2>4. settledList' = settledList
    BY <2>1, <2>2 DEF settledList
  <2>5. MerkleRoot(list)' = MerkleRoot(list)
    BY <2>2, Zenon DEF MerkleRoot
  <2>6. exactIndex(indexed)' = exactIndex(indexed)
    BY <2>3 DEF exactIndex
  <2>7. Types' /\ \A t \in Threads : Local(t)'
    BY <2>1 DEF IInv, Types, Local
  <2>8. IndexExact'
    BY <2>1, <2>6 DEF IInv, IndexExact
  <2>9. RootExact'
    BY <2>1, <2>2, <2>5 DEF IInv, RootExact, Racing, computing
  <2> QED BY <2>4, <2>7, <2>8, <2>9 DEF IInv
<1>2. ASSUME NEW t \in Threads, ~fatal, Step(t), track
      PROVE  IInv' /\ [Promise!Next]_settledList
  <2>1. CASE AddLock(t) \/ RemoveLock(t)
    BY <1>2, <2>1, AddLockStep, RemoveLockStep
  <2>2. CASE AddAppend(t) \/ Reset(t) \/ UpdateIndex(t) \/ RemoveShift(t)
    BY <1>2, <2>2, AddAppendStep, ResetStep, UpdateIndexStep, RemoveShiftStep
  <2>3. CASE RootTest(t) \/ RootLength(t) \/ RootHeader(t) \/ RootRead(t) \/ RootStore(t)
    BY <1>2, <2>3, RootTestStep, RootLengthStep, RootHeaderStep, RootReadStep, RootStoreStep
  <2>4. CASE \/ NodeIndexTest(t) \/ NodeIndexBuild(t) \/ NodeIndexFill(t)
             \/ NodeIndexLook(t)
    BY <1>2, <2>4, NodeIndexTestStep, NodeIndexBuildStep, NodeIndexFillStep, NodeIndexLookStep
  <2> QED BY <1>2, <2>1, <2>2, <2>3, <2>4 DEF Step
<1>3. ASSUME NEW t \in Threads, ~fatal, Call(t), track
      PROVE  IInv' /\ [Promise!Next]_settledList
  BY <1>3, CallStep
<1> QED BY <1>1, <1>2, <1>3 DEF Next, Running

\* A tree as it is before it is shared.
LEMMA InitIInv == Init => IInv /\ Promise!Init
<1> SUFFICES ASSUME Init PROVE IInv /\ Promise!Init
  OBVIOUS
<1>1. PICK l \in UNION {[1 .. k -> Hashes] : k \in 0 .. TreeSize} :
        /\ array = [k \in 1 .. TreeSize |-> IF k <= Len(l) THEN l[k] ELSE ZeroHash]
        /\ length = Len(l)
        /\ rootHash \in {NULL} \cup (IF l = << >> THEN {} ELSE {MerkleRoot(l)})
        /\ nodeIndex \in {NULL, exactIndex(l)}
  BY DEF Init
<1>2. PICK m \in 0 .. TreeSize : l \in [1 .. m -> Hashes]
  OBVIOUS
<1>3. m \in Nat /\ TreeSize \in Nat /\ m <= TreeSize
  BY SubtreeConcAssumption
<1>4. l \in Seq(Hashes) /\ Len(l) = m
  BY <1>2, <1>3
<1>5. /\ array \in Seq(Hashes \cup {ZeroHash})
      /\ Len(array) = TreeSize
      /\ \A k \in 1 .. m : array[k] = l[k] /\ l[k] \in Hashes
  <2>1. array \in [1 .. TreeSize -> Hashes \cup {ZeroHash}]
    BY <1>1, <1>2, <1>3, <1>4
  <2>2. array \in Seq(Hashes \cup {ZeroHash}) /\ Len(array) = TreeSize
    BY <1>3, <2>1
  <2> QED BY <1>1, <1>2, <1>3, <1>4, <2>2
<1>6. list = l
  <2>1. /\ list \in Seq(Hashes \cup {ZeroHash}) /\ Len(list) = m
        /\ \A k \in 1 .. m : list[k] = l[k]
    BY <1>1, <1>3, <1>4, <1>5 DEF list
  <2>2. l \in Seq(Hashes \cup {ZeroHash})
    BY <1>4
  <2> HIDE DEF list
  <2> QED BY <1>4, <2>1, <2>2, SeqEqual
<1>7. \A t \in Threads : pc[t] = "idle" /\ i[t] = 0 /\ leaves[t] = << >>
  BY DEF Init
<1>8. exactIndex(l) \in [Hashes -> Int]
  <2> SUFFICES ASSUME NEW hash \in Hashes PROVE exactIndex(l)[hash] \in Int
    BY DEF exactIndex
  <2> DEFINE at == {k \in DOMAIN l : l[k] = hash}
  <2>1. at \in SUBSET (1 .. m)
    BY <1>2
  <2>2. CASE at = {}
    BY <2>2 DEF exactIndex
  <2>3. CASE at # {}
    <3>1. \E k \in at : \A j \in at : j <= k
      <4> HIDE DEF at
      <4> QED BY <1>3, <2>1, <2>3, MaxExists
    <3> DEFINE top == CHOOSE k \in at : \A j \in at : j <= k
    <3>2. top \in at
      BY <3>1
    <3>3. exactIndex(l)[hash] = top - 1
      BY <2>3 DEF exactIndex
    <3> HIDE DEF at, top
    <3> QED BY <2>1, <3>2, <3>3
  <2> QED BY <2>2, <2>3
<1>9. Types
  <2>1. /\ lock = NULL /\ raced = FALSE /\ fatal = FALSE /\ removed = FALSE
        /\ pc \in [Threads -> Steps]
        /\ arg \in [Threads -> Hashes \cup {ZeroHash}]
        /\ i \in [Threads -> Nat] /\ n \in [Threads -> Int]
        /\ leaves \in [Threads -> Seq(Hashes \cup {ZeroHash, Torn})]
    BY DEF Init, Steps
  <2>2. length \in 0 .. TreeSize /\ \A k \in 1 .. length : array[k] \in Hashes
    BY <1>1, <1>3, <1>4, <1>5
  <2> QED BY <1>1, <1>5, <1>8, <2>1, <2>2 DEF Types
<1>10. \A t \in Threads : Local(t)
  BY <1>7, SubtreeConcAssumption DEF Init, Local, LockSteps
<1>11. IndexExact
  <2>1. indexed = l
    BY <1>6, IndexedIs DEF Init
  <2> QED BY <1>1, <2>1 DEF Init, IndexExact
<1>12. RootExact
  BY <1>1, <1>6, <1>7 DEF Init, RootExact, Racing, computing
<1>13. Promise!Init
  <2>1. settledList = l
    BY <1>6, SettledIs DEF Init
  <2> QED BY <1>2, <2>1 DEF Promise!Init
<1> QED BY <1>9, <1>10, <1>11, <1>12, <1>13 DEF IInv

\* The inductive invariant holds in every state of every behaviour.
THEOREM ConcInvariant == Spec => []IInv
<1>1. IInv /\ [Next]_vars => IInv'
  BY StepKeepsIInv
<1>2. Init => IInv
  BY InitIInv
<1> QED BY <1>1, <1>2, PTL DEF Spec

\* Additions and removals by any number of goroutines are atomic: the list that
\* the next holder of st.mu will find changes as NodeList says, and by nothing
\* else.
THEOREM ConcImplementsNodeList == Spec => ImplementsNodeList
<1>1. Init => Promise!Init
  BY InitIInv
<1>2. IInv /\ [Next]_vars => [Promise!Next]_settledList
  BY StepKeepsIInv
<1> QED BY <1>1, <1>2, ConcInvariant, PTL DEF Spec, ImplementsNodeList, Promise!Spec

\* Although NodeIndex decides to build without the lock, no addition is lost to
\* the index.
THEOREM ConcIndexAgrees == Spec => []IndexAgrees
<1>1. IInv => IndexAgrees
  BY IndexedIs DEF IInv, IndexExact, IndexAgrees
<1> QED BY <1>1, ConcInvariant, PTL

\* RootHash caches a stale root only if it computed it while a holder of the
\* lock was changing the nodes.
THEOREM ConcRootFresh == Spec => []RootFreshUnlessRaced
<1>1. IInv => RootFreshUnlessRaced
  BY DEF IInv, RootExact, RootFreshUnlessRaced
<1> QED BY <1>1, ConcInvariant, PTL
=============================================================================
