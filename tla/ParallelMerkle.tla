--------------------------- MODULE ParallelMerkle ---------------------------
(***************************************************************************)
(* BuildMerkleTreeStoreFromBytes as it runs: level by level, a wide level  *)
(* cut into chunks of SplitSize positions, one goroutine per chunk, with a *)
(* WaitGroup between levels.  The goroutines share the array merkles       *)
(* without a lock: each reads the pair of children below its position and  *)
(* then writes the parent.                                                 *)
(***************************************************************************)
EXTENDS MerkleTree, FiniteSetsExt

CONSTANTS
  SplitSize,  \* routineSplitSize, 1024 in the code
  MaxLeaves,  \* bound: trees of 0 .. MaxLeaves leaves are built
  NULL        \* no value read

ASSUME ParallelAssumption ==
  /\ SplitSize \in Nat \ {0}
  /\ SplitSize % 2 = 0
  /\ MaxLeaves \in Nat

VARIABLES
  leaves,      \* the nodes' hashes
  merkles,     \* the array being filled
  written,     \* the entries of merkles that have been written
  pc,          \* where the calling goroutine is
  h,           \* the level it works on
  merkleFrom,  \* the first position of that level
  at,          \* its loop variable i
  wg,          \* the WaitGroup's counter
  workers      \* per goroutine not yet done (named by the position it began
               \* at): its loop variable, where its chunk ends, and the
               \* pair it has read, or NULL

vars == <<leaves, merkles, written, pc, h, merkleFrom, at, wg, workers>>

length == Len(leaves)
nextPoT == NextPowerOfTwo(length)
height == Log2Ceil(length)
merkleTo == merkleFrom + 2^(height - h) - 1

Init ==
  /\ \E n \in 0 .. MaxLeaves : leaves = [i \in 1 .. n |-> <<i + 1>>]
  /\ merkles = [offset \in 0 .. nextPoT - 2 |-> ZeroHash]
  /\ written = {}
  /\ pc = "start"
  /\ h = 0
  /\ merkleFrom = 0
  /\ at = 0
  /\ wg = 0
  /\ workers = [i \in {} |-> NULL]

\* merkles[offset] = calcMerkle(...) for the pair at position i.
write(i, pair) ==
  /\ merkles' = [merkles EXCEPT ![i \div 2] = calcMerkle(pair[1], pair[2])]
  /\ written' = written \cup {i \div 2}

\* No leaves: the empty store.  One leaf: the store is that leaf.
Start ==
  /\ pc = "start"
  /\ \/ /\ length <= 1
        /\ merkles' = [offset \in 0 .. length - 1 |-> leaves[offset + 1]]
        /\ pc' = "done"
     \/ length > 1 /\ pc' = "level" /\ UNCHANGED merkles
  /\ UNCHANGED <<leaves, written, h, merkleFrom, at, wg, workers>>

\* The head of the loop over the levels.
Level ==
  /\ pc = "level"
  /\ pc' = IF h > height THEN "done"
           ELSE IF merkleTo - merkleFrom > SplitSize THEN "spawn"
           ELSE "calc"
  /\ at' = merkleFrom
  /\ UNCHANGED <<leaves, merkles, written, h, merkleFrom, wg, workers>>

\* Mutant: chunks overlap by one pair.
chunkToLate(i) == Min({i + SplitSize + 2, merkleTo})

\* The end of the chunk that begins at position i.
chunkTo(i) == Min({i + SplitSize, merkleTo})

\* Mutant: no wg.Add(1).
SpawnUncounted ==
  /\ pc = "spawn"
  /\ at < merkleTo
  /\ workers' = [i \in DOMAIN workers \cup {at} |->
                   IF i = at THEN [i |-> at, to |-> chunkTo(at), pair |-> NULL]
                   ELSE workers[i]]
  /\ at' = at + SplitSize
  /\ UNCHANGED <<leaves, merkles, written, pc, h, merkleFrom, wg>>

\* wg.Add(1); go func(i int) { ... }(i)
Spawn ==
  /\ pc = "spawn"
  /\ at < merkleTo
  /\ wg' = wg + 1
  /\ workers' = [i \in DOMAIN workers \cup {at} |->
                   IF i = at THEN [i |-> at, to |-> chunkTo(at), pair |-> NULL]
                   ELSE workers[i]]
  /\ at' = at + SplitSize
  /\ UNCHANGED <<leaves, merkles, written, pc, h, merkleFrom>>

Spawned ==
  /\ pc = "spawn"
  /\ at >= merkleTo
  /\ pc' = "wait"
  /\ UNCHANGED <<leaves, merkles, written, h, merkleFrom, at, wg, workers>>

\* The tail of the loop over the levels: merkleFrom = merkleTo + 1.
nextLevel ==
  /\ pc' = "level"
  /\ h' = h + 1
  /\ merkleFrom' = merkleTo + 1
  /\ UNCHANGED <<leaves, merkles, written, at, wg, workers>>

\* Mutant: no wg.Wait().
WaitNot == pc = "wait" /\ nextLevel

\* wg.Wait()
Wait ==
  /\ pc = "wait"
  /\ wg = 0
  /\ nextLevel

\* Mutant: the caller's loop stops one pair early.
CalcShort ==
  /\ pc = "calc"
  /\ \/ /\ at < merkleTo - 2
        /\ write(at, getMerklePair(leaves, merkles, at, nextPoT))
        /\ at' = at + 2
        /\ UNCHANGED <<leaves, pc, h, merkleFrom, wg, workers>>
     \/ at >= merkleTo - 2 /\ nextLevel

\* A narrow level, calculated by the caller.
Calc ==
  /\ pc = "calc"
  /\ \/ /\ at < merkleTo
        /\ write(at, getMerklePair(leaves, merkles, at, nextPoT))
        /\ at' = at + 2
        /\ UNCHANGED <<leaves, pc, h, merkleFrom, wg, workers>>
     \/ at >= merkleTo /\ nextLevel

\* calcMerkles in the goroutine that began at position w.
Read(w) ==
  /\ workers[w].i < workers[w].to
  /\ workers[w].pair = NULL
  /\ workers' = [workers EXCEPT ![w].pair =
                   getMerklePair(leaves, merkles, workers[w].i, nextPoT)]
  /\ UNCHANGED <<leaves, merkles, written, pc, h, merkleFrom, at, wg>>

Write(w) ==
  /\ workers[w].pair # NULL
  /\ write(workers[w].i, workers[w].pair)
  /\ workers' = [workers EXCEPT ![w].i = @ + 2, ![w].pair = NULL]
  /\ UNCHANGED <<leaves, pc, h, merkleFrom, at, wg>>

\* Mutant: no wg.Done().
WgDoneForgotten(w) ==
  /\ workers[w].i >= workers[w].to
  /\ workers[w].pair = NULL
  /\ workers' = [i \in DOMAIN workers \ {w} |-> workers[i]]
  /\ UNCHANGED <<leaves, merkles, written, pc, h, merkleFrom, at, wg>>

\* defer wg.Done()
WgDone(w) ==
  /\ workers[w].i >= workers[w].to
  /\ workers[w].pair = NULL
  /\ wg' = wg - 1
  /\ workers' = [i \in DOMAIN workers \ {w} |-> workers[i]]
  /\ UNCHANGED <<leaves, merkles, written, pc, h, merkleFrom, at>>

Caller == Start \/ Level \/ Spawn \/ Spawned \/ Wait \/ Calc
Worker(w) == w \in DOMAIN workers /\ (Read(w) \/ Write(w) \/ WgDone(w))

\* Positions of the array "leaves, then merkles" are below twice MaxLeaves'
\* power of two.
Positions == 0 .. 2 * CeilPowerOfTwo(MaxLeaves)

Next == Caller \/ \E w \in Positions : Worker(w)

\* The Go scheduler runs every goroutine that can run.
Fairness == WF_vars(Caller) /\ \A w \in Positions : WF_vars(Worker(w))

Spec == Init /\ [][Next]_vars /\ Fairness

-----------------------------------------------------------------------------
(* Properties.                                                             *)

\* The variables have their types.
TypeOK ==
  /\ pc \in {"start", "level", "spawn", "wait", "calc", "done"}
  /\ written \subseteq DOMAIN merkles
  /\ h \in Nat /\ merkleFrom \in Nat /\ at \in Nat /\ wg \in Nat
  /\ DOMAIN workers \subseteq Positions
  /\ \A w \in DOMAIN workers : workers[w].i \in Positions

\* The entries of merkles that the pair at position i is made of.
inputs(i) == IF i < nextPoT THEN {} ELSE {i - nextPoT, i - nextPoT + 1}

\* The entries that goroutine w has yet to write.
toWrite(w) == {i \div 2 : i \in workers[w].i .. workers[w].to - 1}

\* The barrier between levels: a goroutine never reads an entry before it has
\* been written, and what it has read is still there when it writes.
ReadsAreSettled ==
  \A w \in DOMAIN workers :
    /\ workers[w].i < workers[w].to => inputs(workers[w].i) \subseteq written
    /\ workers[w].pair # NULL =>
         workers[w].pair = getMerklePair(leaves, merkles, workers[w].i, nextPoT)

\* No data race and no lost entry: what a goroutine will write, no other one
\* will, and nobody has written.
SlotsAreExclusive ==
  \A w \in DOMAIN workers :
    /\ toWrite(w) \cap written = {}
    /\ \A v \in DOMAIN workers : v # w => toWrite(v) \cap toWrite(w) = {}

\* However the goroutines interleave, the store is the one that the level by
\* level definition gives.
ResultIsTheStore ==
  pc = "done" => merkles = BuildMerkleTreeStoreFromBytes(leaves)

\* The call returns: no level waits for a goroutine that never reports.
Termination == <>(pc = "done")
=============================================================================
