---------------------------- MODULE SubtreeConc -----------------------------
(***************************************************************************)
(* One Subtree of subtree.go, shared by goroutines.  AddSubtreeNode and    *)
(* RemoveNodeAtIndex hold st.mu; RootHash takes it only for the length and *)
(* reads the nodes and the cache without it; NodeIndex decides without it  *)
(* whether to build the index, builds under it, and looks up without it.   *)
(*                                                                         *)
(* A step is what happens between two points at which another goroutine    *)
(* may be seen.  The array of nodes is apart from the length in the slice  *)
(* header: a goroutine that has copied the header goes on reading the      *)
(* array while the holder of the lock moves nodes in it.  Totals are left  *)
(* out: only holders of the lock touch them here.                          *)
(***************************************************************************)
EXTENDS MerkleTree

CONSTANTS
  Threads,   \* goroutines
  Hashes,    \* the transactions they add and ask for
  TreeSize,  \* st.treeSize and, for a tree from NewTree, cap(st.Nodes)
  Torn,      \* the hash of a node read while it is being overwritten
  MaxCalls,  \* bound: calls per goroutine
  NULL       \* Go's nil

ASSUME SubtreeConcAssumption ==
  /\ Hashes \subseteq Hash \ {ZeroHash, CoinbasePlaceholder, Torn}
  /\ Torn \in Hash \ {ZeroHash}
  /\ TreeSize \in Nat \ {0}
  /\ MaxCalls \in Nat
  /\ NULL \notin Threads

VARIABLES
  array,     \* the backing array of st.Nodes, a hash per node
  length,    \* len(st.Nodes)
  rootHash,  \* st.rootHash
  nodeIndex, \* st.nodeIndex: NULL, or position per hash, -1 for none
  lock,      \* the goroutine that holds st.mu for writing
  pc,        \* per goroutine, the step it is at
  arg,       \* per goroutine, the hash its call is about
  i,         \* per goroutine, the index to remove, or a loop's position
  n,         \* per goroutine, the length to loop up to, or an entry to write
  leaves,    \* per goroutine, the leaves RootHash has read
  calls,     \* per goroutine, the calls it has made
  fatal,     \* a panic or the runtime has ended the program
  raced,     \* history: see Clean
  removed    \* history: RemoveNodeAtIndex has taken a node out

vars == <<array, length, rootHash, nodeIndex, lock, pc, arg, i, n, leaves,
          calls, fatal, raced, removed>>
shared == <<array, length, rootHash, nodeIndex, lock, fatal, removed>>

list == SubSeq(array, 1, length)

exactIndex(l) ==
  [hash \in Hashes |->
     LET at == {k \in DOMAIN l : l[k] = hash}
     IN  IF at = {} THEN -1 ELSE (CHOOSE k \in at : \A j \in at : j <= k) - 1]

\* A tree some nodes were added to before it was shared, with or without a
\* cached root and an index.
Init ==
  \E l \in UNION {[1 .. k -> Hashes] : k \in 0 .. TreeSize} :
    /\ array = [k \in 1 .. TreeSize |-> IF k <= Len(l) THEN l[k] ELSE ZeroHash]
    /\ length = Len(l)
    /\ rootHash \in {NULL} \cup (IF l = << >> THEN {} ELSE {MerkleRoot(l)})
    /\ nodeIndex \in {NULL, exactIndex(l)}
    /\ lock = NULL
    /\ pc = [t \in Threads |-> "idle"]
    /\ arg = [t \in Threads |-> ZeroHash]
    /\ i = [t \in Threads |-> 0]
    /\ n = [t \in Threads |-> 0]
    /\ leaves = [t \in Threads |-> << >>]
    /\ calls = [t \in Threads |-> 0]
    /\ fatal = FALSE
    /\ raced = FALSE
    /\ removed = FALSE

-----------------------------------------------------------------------------
(* Calls and returns.                                                      *)

goto(t, step) == pc' = [pc EXCEPT ![t] = step]

\* Locals are cleared so that finished calls leave no trace.
return(t) ==
  /\ goto(t, "idle")
  /\ arg' = [arg EXCEPT ![t] = ZeroHash]
  /\ i' = [i EXCEPT ![t] = 0]
  /\ n' = [n EXCEPT ![t] = 0]
  /\ leaves' = [leaves EXCEPT ![t] = << >>]

keepLocals == UNCHANGED <<arg, i, n, leaves>>

Call(t) ==
  /\ pc[t] = "idle"
  /\ calls[t] < MaxCalls
  /\ calls' = [calls EXCEPT ![t] = @ + 1]
  /\ \/ /\ goto(t, "add") \/ goto(t, "test")
        /\ \E hash \in Hashes : arg' = [arg EXCEPT ![t] = hash]
        /\ UNCHANGED i
     \/ /\ goto(t, "remove")
        /\ \E index \in 0 .. TreeSize - 1 : i' = [i EXCEPT ![t] = index]
        /\ UNCHANGED arg
     \/ goto(t, "root") /\ UNCHANGED <<arg, i>>
  /\ UNCHANGED <<shared, n, leaves>>

-----------------------------------------------------------------------------
(* AddSubtreeNode.                                                         *)

\* Mutant: whether there is room is decided before the lock is taken.
AddLockLate(t) ==
  /\ pc[t] = "add"
  /\ IF n[t] = 0
     THEN /\ IF length + 1 > TreeSize THEN return(t)
             ELSE n' = [n EXCEPT ![t] = 1] /\ UNCHANGED <<pc, arg, i, leaves>>
          /\ UNCHANGED lock
     ELSE /\ lock = NULL
          /\ lock' = t
          /\ goto(t, "append")
          /\ keepLocals
  /\ UNCHANGED <<array, length, rootHash, nodeIndex, fatal, removed, calls>>

\* Mutant: the early return keeps the lock.
AddLockKept(t) ==
  /\ pc[t] = "add"
  /\ lock = NULL
  /\ lock' = t
  /\ IF length + 1 > TreeSize THEN return(t) ELSE goto(t, "append") /\ keepLocals
  /\ UNCHANGED <<array, length, rootHash, nodeIndex, fatal, removed, calls>>

\* Takes the lock; a full tree gives it back at once (as the misused coinbase
\* placeholder does, which is not among Hashes).
AddLock(t) ==
  /\ pc[t] = "add"
  /\ lock = NULL
  /\ \/ length + 1 > TreeSize /\ return(t) /\ UNCHANGED lock
     \/ length + 1 <= TreeSize /\ lock' = t /\ goto(t, "append") /\ keepLocals
  /\ UNCHANGED <<array, length, rootHash, nodeIndex, fatal, removed, calls>>

\* st.Nodes = append(st.Nodes, node); a full array is replaced by a longer one.
AddAppend(t) ==
  /\ pc[t] = "append"
  /\ array' = IF length < Len(array) THEN [array EXCEPT ![length + 1] = arg[t]]
              ELSE Append(array, arg[t])
  /\ length' = length + 1
  /\ n' = [n EXCEPT ![t] = length]
  /\ goto(t, "reset")
  /\ UNCHANGED <<arg, i, leaves>>
  /\ UNCHANGED <<rootHash, nodeIndex, lock, fatal, removed, calls>>

\* Mutant: the cached root is kept.
ResetForgotten(t) ==
  /\ pc[t] = "reset"
  /\ goto(t, "index")
  /\ keepLocals
  /\ UNCHANGED <<array, length, rootHash, nodeIndex, lock, fatal, removed, calls>>

\* st.rootHash = nil, in both methods.
Reset(t) ==
  /\ pc[t] = "reset"
  /\ rootHash' = NULL
  /\ goto(t, "index")
  /\ keepLocals
  /\ UNCHANGED <<array, length, nodeIndex, lock, fatal, removed, calls>>

\* An index that exists is told of the change; the lock is released.
UpdateIndex(t) ==
  /\ pc[t] = "index"
  /\ nodeIndex' = IF nodeIndex = NULL THEN NULL
                  ELSE [nodeIndex EXCEPT ![arg[t]] = n[t]]
  /\ lock' = NULL
  /\ return(t)
  /\ UNCHANGED <<array, length, rootHash, fatal, removed, calls>>

-----------------------------------------------------------------------------
(* RemoveNodeAtIndex.                                                      *)

\* Notes the hash whose entry is to be deleted.
RemoveLock(t) ==
  /\ pc[t] = "remove"
  /\ lock = NULL
  /\ \/ i[t] >= length /\ return(t) /\ UNCHANGED <<lock, removed>>
     \/ /\ i[t] < length
        /\ lock' = t
        /\ removed' = TRUE
        /\ arg' = [arg EXCEPT ![t] = array[i[t] + 1]]
        /\ n' = [n EXCEPT ![t] = -1]
        /\ goto(t, "shift")
        /\ UNCHANGED <<i, leaves>>
  /\ UNCHANGED <<array, length, rootHash, nodeIndex, fatal, calls>>

\* append(st.Nodes[:index], st.Nodes[index+1:]...) moves nodes down one by one,
\* then the header is written.
RemoveShift(t) ==
  /\ pc[t] = "shift"
  /\ IF i[t] + 1 < length
     THEN /\ array' = [array EXCEPT ![i[t] + 1] = array[i[t] + 2]]
          /\ i' = [i EXCEPT ![t] = @ + 1]
          /\ UNCHANGED <<length, pc>>
     ELSE /\ length' = length - 1
          /\ goto(t, "reset")
          /\ UNCHANGED <<array, i>>
  /\ UNCHANGED <<rootHash, nodeIndex, lock, fatal, removed, arg, n, leaves, calls>>

-----------------------------------------------------------------------------
(* RootHash.                                                               *)

RootTest(t) ==
  /\ pc[t] = "root"
  /\ \/ rootHash # NULL /\ return(t)
     \/ rootHash = NULL /\ goto(t, "length") /\ keepLocals
  /\ UNCHANGED <<shared, calls>>

\* st.Length(), under a read lock.
RootLength(t) ==
  /\ pc[t] = "length"
  /\ lock = NULL
  /\ \/ length = 0 /\ return(t)
     \/ length # 0 /\ goto(t, "header") /\ keepLocals
  /\ UNCHANGED <<shared, calls>>

\* The slice header is copied into the call of BuildMerkleTreeStoreFromBytes.
\* If the list has become empty since, the store is, and store[-1] panics.
RootHeader(t) ==
  /\ pc[t] = "header"
  /\ n' = [n EXCEPT ![t] = length]
  /\ fatal' = (length = 0)
  /\ goto(t, "read")
  /\ UNCHANGED <<array, length, rootHash, nodeIndex, lock, removed, arg, i,
                 leaves, calls>>

\* A node that is being overwritten may be seen half old and half new.
readings(k) ==
  {array[k]} \cup
    (IF \E u \in Threads : pc[u] = "shift" /\ i[u] + 1 = k /\ k < length
     THEN {Torn} ELSE {})

RootRead(t) ==
  /\ pc[t] = "read"
  /\ \E hash \in readings(Len(leaves[t]) + 1) :
       leaves' = [leaves EXCEPT ![t] = Append(@, hash)]
  /\ goto(t, IF Len(leaves'[t]) = n[t] THEN "store" ELSE "read")
  /\ UNCHANGED <<shared, arg, i, n, calls>>

\* st.rootHash = the last entry of the store, without the lock.
RootStore(t) ==
  /\ pc[t] = "store"
  /\ rootHash' = MerkleRoot(leaves[t])
  /\ return(t)
  /\ UNCHANGED <<array, length, nodeIndex, lock, fatal, removed, calls>>

-----------------------------------------------------------------------------
(* NodeIndex, and HasNode and GetNode, which call it.                      *)

NodeIndexTest(t) ==
  /\ pc[t] = "test"
  /\ goto(t, IF nodeIndex = NULL THEN "build" ELSE "look")
  /\ keepLocals
  /\ UNCHANGED <<shared, calls>>

\* Mutant: the index is built without the lock.
NodeIndexBuildUnlocked(t) ==
  /\ pc[t] = "build"
  /\ nodeIndex' = [hash \in Hashes |-> -1]
  /\ n' = [n EXCEPT ![t] = length]
  /\ goto(t, "fill")
  /\ UNCHANGED <<array, length, rootHash, lock, fatal, removed, arg, i, leaves,
                 calls>>

\* Takes the lock and publishes an empty map, whatever has been published in
\* the meantime.
NodeIndexBuild(t) ==
  /\ pc[t] = "build"
  /\ lock = NULL
  /\ lock' = t
  /\ nodeIndex' = [hash \in Hashes |-> -1]
  /\ n' = [n EXCEPT ![t] = length]
  /\ goto(t, "fill")
  /\ UNCHANGED <<array, length, rootHash, fatal, removed, arg, i, leaves, calls>>

NodeIndexFill(t) ==
  /\ pc[t] = "fill"
  /\ IF i[t] < n[t]
     THEN /\ nodeIndex' = [nodeIndex EXCEPT ![array[i[t] + 1]] = i[t]]
          /\ i' = [i EXCEPT ![t] = @ + 1]
          /\ UNCHANGED <<lock, pc>>
     ELSE /\ lock' = IF lock = t THEN NULL ELSE lock
          /\ goto(t, "look")
          /\ UNCHANGED <<nodeIndex, i>>
  /\ UNCHANGED <<array, length, rootHash, fatal, removed, arg, n, leaves, calls>>

\* The answer is nodeIndex[arg[t]].  The Go runtime ends the program if it
\* notices that another goroutine is writing to the map.
NodeIndexLook(t) ==
  /\ pc[t] = "look"
  /\ fatal' \in {FALSE, \E u \in Threads \ {t} : pc[u] \in {"fill", "index"}}
  /\ return(t)
  /\ UNCHANGED <<array, length, rootHash, nodeIndex, lock, removed, calls>>

-----------------------------------------------------------------------------
Step(t) ==
  \/ AddLock(t) \/ AddAppend(t) \/ Reset(t) \/ UpdateIndex(t)
  \/ RemoveLock(t) \/ RemoveShift(t)
  \/ RootTest(t) \/ RootLength(t) \/ RootHeader(t) \/ RootRead(t) \/ RootStore(t)
  \/ NodeIndexTest(t) \/ NodeIndexBuild(t) \/ NodeIndexFill(t) \/ NodeIndexLook(t)

\* A goroutine is computing a root from nodes it reads without the lock.
computing(t) == pc[t] \in {"header", "read", "store"}

\* ... while another one holds the lock to change the nodes.
Racing ==
  /\ \E t \in Threads : computing(t)
  /\ lock # NULL
  /\ pc[lock] \in {"append", "shift", "reset", "index"}

\* Nothing is left of earlier races: no root is cached or being computed.
Clean == rootHash = NULL /\ \A t \in Threads : ~computing(t)

\* There has been a race since nothing was left of earlier ones.
track == raced' = (Racing' \/ (raced /\ ~Clean'))

Running(t) == ~fatal /\ Step(t) /\ track

Next == \E t \in Threads : Running(t) \/ (~fatal /\ Call(t) /\ track)

\* A goroutine inside a call is scheduled until it returns; whether callers
\* make another call is up to them.
Spec == Init /\ [][Next]_vars /\ \A t \in Threads : WF_vars(Running(t))

-----------------------------------------------------------------------------
(* Properties.                                                             *)

\* The list as the next holder of the lock will find it: what the present
\* holder still has to do to it is done.
settledList ==
  CASE lock # NULL /\ pc[lock] = "append" -> Append(list, arg[lock])
    [] lock # NULL /\ pc[lock] = "shift"  ->
         SubSeq(list, 1, i[lock]) \o SubSeq(list, i[lock] + 2, length)
    [] OTHER -> list

Promise == INSTANCE NodeList WITH list <- settledList

\* AddSubtreeNode and RemoveNodeAtIndex are atomic whatever else runs: the node
\* list changes by whole additions, only while there is room, and removals.
ImplementsNodeList == Promise!Spec

\* Whenever the lock is free, an index that exists is the index of the list,
\* as long as nothing was removed: no addition is lost to a build that began
\* before it, although NodeIndex decides to build without the lock.
IndexAgrees ==
  lock = NULL /\ ~removed /\ nodeIndex # NULL => nodeIndex = exactIndex(list)

\* Whenever the lock is free, a cached root is the root of the list, unless a
\* goroutine past Length() in RootHash met a holder of the lock; and then only
\* until a change to the list empties the cache while no root is computed.
RootFreshUnlessRaced ==
  lock = NULL /\ ~raced /\ rootHash # NULL =>
    list # << >> /\ rootHash = MerkleRoot(list)

\* Every call returns (or a panic ends the program): no early return of a
\* method keeps the lock, and nobody waits for a lock he holds.
CallsReturn ==
  \A t \in Threads : pc[t] # "idle" ~> pc[t] = "idle" \/ fatal

\* The comment on st.mu: the lock protects the nodes.  Then, with nobody in a
\* call, a cached root is the root of the nodes.
RootFreshWhenIdle ==
  (\A t \in Threads : pc[t] = "idle") /\ rootHash # NULL /\ ~fatal =>
    list # << >> /\ rootHash = MerkleRoot(list)
=============================================================================
