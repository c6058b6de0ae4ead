# A TLA+ development of go-subtree

`go-subtree` is a Go package for the subtrees of a Bitcoin SV block: lists of
transaction hashes with fees and sizes, the merkle trees over them, and the
metadata and transactions that go with them. This directory holds TLA+ modules
that model the package, TLC configurations that check them on small instances,
and TLAPS proofs of what matters most. `PROJECT.json` maps every definition to
the lines it models and lists runs, mutants, findings, hazards and theorems.

## 1. Inventory

The package is a library: it has no process of its own. Callers hold `Subtree`
objects and call methods; some methods take a lock, most do not, and several
say that they must be called from one goroutine. The one place where the
package starts goroutines itself is the merkle build.

| component | state | operations | what makes it correct |
|---|---|---|---|
| Merkle algorithms (`merkle_tree.go`, `power_of_two.go`, and in `subtree.go` `GetMerkleProof`, `RootHashPadded`) | none | build the store, root, proof for an index, root lifted to a height, coinbase proof over several subtrees | the root is Bitcoin's merkle root for every number of leaves; a proof verifies; roots of subtrees compose |
| Parallel merkle build (`BuildMerkleTreeStoreFromBytes`) | the array `merkles`, a `WaitGroup` per level, goroutines | fill a wide level in chunks, wait, go up | no race on the array, a result that does not depend on the schedule, return |
| Subtree (`subtree.go`) | the node list and, kept by hand beside it, totals, cached root, lazily built index, conflicting transactions, size and height | three ways to add a node, add the coinbase, remove, replace the first, mark as conflicting, queries that fill a cache, duplicate | the derived state agrees with the list, the list stays within the tree's size |
| Subtree serialization (`subtree.go`) | the bytes, the receiver of a read | `Serialize`, `Deserialize`, reading with an allocator, reading parts, `ReleaseNodes` | what was written is what is read; a failed read is reported |
| TxInpoints (`inpoints.go`) | the parents of a transaction and, packed, the outputs it spends of each | append an input, read per parent, serialize and read back | the packed runs stay aligned with the parents |
| Meta (`subtree_meta.go`) | one `TxInpoints` per node, in an array parallel to the node list | set by transaction (through the index) or by position, serialize and read back | entry i belongs to node i |
| Data (`subtree_data.go`) | one transaction per node, in a parallel array | add with a check of the hash, serialize, stream in chunks, read back | entry i is the transaction of node i; the coinbase at 0 only |
| Mmap store (`mmap_store.go`, `mmap_unix.go`) | a mapped region, its backing file, a `sync.Once` | create (with clean-up on failure), close | no file or mapping is leaked or released twice |
| `GetMap`, `Difference`, errors, `Min`/`Max`, examples | none | | |

How they interact: a `Subtree` calls the merkle build and caches the result;
`GetMerkleProofForCoinbase` builds a `Subtree` of the roots of others; `Meta`
and `Data` hold a pointer to a `Subtree`, size their arrays by its capacity, and
find positions through its index; an mmap-backed `Subtree` has its node list in
the store's memory.

What is hard: the derived state of a `Subtree`, which each of a dozen methods
has to maintain (or not) in its own way, so that mistakes show up only after
particular sequences of calls; the index arithmetic of the merkle store at
counts that are not powers of two; the goroutines sharing an array; reads that
fail half-way; methods that are documented as safe with a lock being mixed with
ones that take none. The hazards of `PROJECT.json` list each at its line.

## 2. Modules

**MerkleTree** - the pure algorithms. Hashes are symbolic: a leaf is `<<k>>`, a
parent is the prefix term `<<0>> \o l \o r`, the zero hash is `<< >>`. Prefix
terms can be decoded in one way only, so the model's hash is injective and
never zero, which is the idealisation of double SHA-256. Logarithms are defined
by counting powers of two. The store keeps the code's zero-based positions and
is built in the order of the code: entry o combines positions 2o and 2o + 1 of
the array "padded leaves, then store". Nothing is RECURSIVE: recursion is over
function definitions, so that the modules above can be proved about.

**BlockMerkle** - a block as a list of subtrees of one height, filled in order
(`NewTree`, `AddCoinbaseNode`, `AddNode`), with the merkle queries of the
package evaluated in every state. The reference (`FlatRoot`, `ProvenRoot`) is
Bitcoin's level by level definition and what a verifier does with a proof; it
uses neither stores nor subtrees. `CoinbaseProofOutcome` is the list of early
returns of `GetMerkleProofForCoinbase`: an empty later subtree makes it
dereference nil, and a subtree of the placeholder alone (height 0) is refused by
`AddNode` of the top tree.

**Subtree** - one `Subtree` used by one goroutine. Each field is a variable;
`capacity` is `cap(st.Nodes)`, which `Size` and `IsComplete` read; `nodeIndex`
is NULL or a function that gives -1 for a hash without an entry. Every method
that changes the receiver is an action with the code's early returns as
disjuncts; `last` records the call and the error it returned. `Duplicate` and
`Reload` (`Serialize`, then `NewSubtreeFromBytes`) return a new object, and the
action goes on with that one. uint64 arithmetic is modulo `Word`. The unused
field `FeeHash` is left out, as is `RootHashWithReplaceRootNode`, which calls
`ReplaceRootNode` on a duplicate and drops it.

**ParallelMerkle** - `BuildMerkleTreeStoreFromBytes` with its goroutines: the
caller's loop over the levels, the loop that starts a goroutine per chunk, the
wait, and in each goroutine a step that reads a pair and a step that writes the
parent. `written` is a history variable for the properties.

**Inpoints** - `TxInpoints`: the loop of `newSizedFromInputs`, one `appendInput`
per step, then any number of round trips through bytes. `withVout` is the shift
and insertion into the packed array, `runStart` the walk over count words that
`appendInput` and `voutSliceForParent` share. `hashesNil` keeps apart a nil and
an empty list of parents, which `Meta` does. **InpointMap** is the abstract
specification: parents in order of first use, and per parent the outputs spent.

**SubtreeConc** - one `Subtree` shared by goroutines that call
`AddSubtreeNode`, `RemoveNodeAtIndex`, `RootHash` and `NodeIndex` (`HasNode` and
`GetNode` call the last). `lock` is `st.mu`. A call is cut into steps wherever
another goroutine can be seen: taking the lock together with the early returns
under it, the append, each node that a removal moves down, the reset of the
cache, the index; in `RootHash` the test of the cache, `Length()`, the copy of
the slice header, each leaf that is read, the store to the cache; in `NodeIndex`
the test without the lock, the empty map, each entry, the lookup. Data races are
choices: a leaf read while a removal overwrites it is the old one, the new one
or `Torn`; a lookup in a map that another goroutine writes may be noticed by the
runtime, which ends the program (`fatal`), as does the index of an emptied store
in `RootHash`. `raced` and `removed` are history variables. The totals, which
only holders of the lock touch, are left out. **NodeList** is the abstract
specification: additions and removals that happen at once.

**SubtreeMeta** - `Meta`, on top of the actions of Subtree: the node list goes on
changing under the array of inpoints. A `TxInpoints` value is what `Meta` tells
apart: nil parents (not set, or no inputs), an empty list of parents, or the
inpoints of a certain transaction. `ReadMeta` reads the bytes of the last
`Serialize`, or a beginning of them, for the list as it is then.

**SubtreeData** - `Data`: transactions added with the check of the hash, written
by `Serialize` or in chunks, read by the constructors or in chunks. A file is a
sequence of transactions that may end inside one, written by this package
(completely, or until a transaction was missing or the writer failed) or by
anybody. `bt.Tx.ReadFrom` is external: it gives the next transaction, says that
the file has ended, or fails where the file ends inside a transaction.

**SubtreeReader** - where node arrays come from and go to: `Deserialize` and its
variants into an object that may have been used before, with an array from
`make` or from a caller's pool that `ReleaseNodes` fills; `NewTreeMmap` and
`NewSubtreeFromReaderMmap`, one step per system call, each of which may fail;
`Close`; streams that end after any field. `whole` remembers which stream was
last read into an object without an error. The garbage collector and the system
give out the least array (or file) that nothing refers to. What a caller may not
do is not in the model: it drops a mapped subtree only after `Close`.

**SubtreeProofs** (Subtree and SubtreeMeta), **SubtreeConcProofs**,
**BlockMerkleProofs**, **ParallelMerkleProofs**, **InpointsProofs**,
**SubtreeDataProofs** and **SubtreeReaderProofs** hold the theorems of section 4. **CommonLemmas** has what
several of them need: least and greatest members of sets of numbers, powers of
two and the rounding routines, and parts of lists.

The definitions marked "Mutant" are versions of the definition after them with
a plausible mistake. No specification uses them: they are there to show that the
properties can fail.

## 3. Runs

| run | module, cfg | checks |
|---|---|---|
| merkle_block | MCBlockMerkle | roots, proofs, padded composition, coinbase proof |
| subtree_calls | MCSubtree | the derived state of a subtree under every sequence of calls |
| parallel_merkle | ParallelMerkle, MCParallelMerkle.cfg | goroutines, result, termination |
| inpoints | Inpoints, MCInpoints.cfg | the packed layout, its refinement of InpointMap, its bytes |
| concurrent_calls | MCSubtreeConc | goroutines on one subtree: refinement of NodeList, index, root, return |
| meta | MCSubtreeMeta | inpoints beside a changing list, round trip |
| data | SubtreeData, MCSubtreeData.cfg | transactions beside a list, files, chunks, failures |
| reader | MCSubtreeReader | node arrays: heap, pool, mapped files; streams and system calls that fail |
| coinbase_proof (violation) | MCBlockMerkle, MCBlockMerkleCoinbase.cfg | the coinbase proof in general |
| get_node (violation) | MCSubtree, MCSubtreeGetNode.cfg | what the comment on `GetNode` says |
| is_complete (violation) | MCSubtree, MCSubtreeComplete.cfg | what the comment on `IsComplete` says |
| conc_root (violation) | MCSubtreeConc, MCSubtreeConcRoot.cfg | what the comment on `st.mu` says |

**merkle_block.** `RootIsCanonical`: the last entry of the store is the Bitcoin
merkle root. `ProofsVerify`: the siblings lead to the root, for every leaf.
`PaddedRootsCompose`: the roots of two or more subtrees, lifted by
`RootHashPadded`, give the root over all leaves. `CoinbaseProofVerifiesIfLevel`:
what holds of the coinbase proof. Bounds: up to 9 leaves (one more than a full
tree of height 3, so every shape with one to three levels of absent nodes
occurs), subtree heights 0 to 4 (from nine subtrees to one that is not full),
two transaction hashes (equal and different leaves next to each other) and the
placeholder.

**subtree_calls.** The invariants are about states: the cached root is fresh,
the list is within the size, the size within the height, an index entry is never
too low. The action properties say which methods may break an agreement and
which may not: the fee total (`FeesKept`), the index (`IndexKept`), the list of
conflicting transactions (`ConflictsKept`), the place of the placeholder
(`PlaceholderKept`), and that a round trip through bytes changes nothing
(`ReloadFaithful`). `PartialReadsAgree` reads every beginning of the bytes with
the two functions that want only a part of them: they agree with the whole, and
fail exactly where that part is incomplete. They are stated from any state in which the agreement holds,
so they cover what a method does after others have broken and mended it. Bounds:
two transactions with different fees and the placeholder, three nodes, heights
to 2, one `ReplaceRootNode` (each lets the size total drift, which would
only multiply states), a word of 4 values (sums wrap as well as differences). Three nodes are what an index mistake needs: a node before, at, and after
the removed one. The configurations use `VIEW subtree`: states that differ only
in `last` are the same; no property reads `last` in the old state, and TLC checks
action properties on every step it generates.

**parallel_merkle.** `ReadsAreSettled`: a goroutine's inputs are complete and
do not change under it. `SlotsAreExclusive`: nobody else writes what it is going
to write. `ResultIsTheStore`: the result is the sequential definition's.
`Termination`: the call returns. Bounds: chunks of 4 positions and up to 16
leaves, in place of 1024 and any number: the lowest level then has four chunks
and the next two, the last chunk of each level is short, and every number of
absent leaves occurs. Fairness is weak fairness of the caller and of every
goroutine: the Go scheduler runs a goroutine that can run, and none waits for
anything but the WaitGroup. The cfg has CHECK_DEADLOCK FALSE because the call
ends.

**inpoints.** `RunsMatchParents`: the invariant the source states for the
packed array. `ImplementsInpointMap`: each append is an append in the abstract
map, and a round trip changes nothing. `NothingLost`: `GetTxInpoints` gives back
the inputs. `NeverGrows`: the buffers sized in advance suffice. `SelfDelimiting`:
reading consumes exactly what was written, whatever follows in the stream, and
every shorter prefix is an error. Bounds: up to four inputs, three parents (one
before and one after the run that grows), outputs 0 to 2, which are also the
values that count words take.

**concurrent_calls.** `ImplementsNodeList`: seen through what the holder of the
lock still has to do, the list changes by whole additions, only while there is
room, and whole removals. `IndexAgrees`: whenever the lock is free and nothing
was removed, an index that exists is complete, although it was decided to build
it without the lock. `RootFreshUnlessRaced`: a cached root is wrong only if a
goroutine that was past `Length()` in `RootHash` met a holder of the lock, and
only until a later change empties the cache. `CallsReturn`: every call comes
back, unless the program ends. Fairness is weak fairness of each goroutine inside
a call: the Go scheduler runs a goroutine that can run, and with boundedly many
calls the lock cannot be taken away for ever. Nothing is assumed about new
calls. Bounds: two goroutines with two calls each, three nodes, two hashes, and
every start list with or without cache and index. Two calls are what a root
that stays stale and its repair need; three nodes let a removal move two, so that
a reader meets it in the middle. CHECK_DEADLOCK FALSE because callers stop.

**meta.** `AlignedKept`: of all methods only a removal and the reading of old
bytes can put an entry at another node, as long as the index is exact and no
entry waits beyond the list. `RereadSame`: for the list they were written for,
the bytes give back what was written, except that an empty list of parents has
become nil; and the result can be serialized again exactly if there was none.
Bounds: heights to 1, so two nodes; two transactions, one of them without
inputs, and the placeholder.

**data.** `TxsMatchNodes`: whatever files hold, an entry is the transaction of its
node or a coinbase in front. `WholeRoundTrip`: what `Serialize` accepts is read
back, and two chunks cut anywhere make the same file. (It is stated for lists
that begin with the placeholder, or whose first transaction has the first node's
hash: a coinbase read into index 0 of another list is written and not read
back.) `ChunksAddUp`: a file that chunk readers have read to its end is accepted
by the constructor with the same transactions. Bounds: three nodes, files of
three transactions from elsewhere, two transactions and a coinbase; arrays as
long as the list or one longer.

**reader.** `NothingLeaked`: a file, descriptor or mapping belongs to a call that
is still going to clean up or to a subtree whose `Close` has not run.
`NodesReadable`: mapped nodes stay mapped until `Close` of the same subtree; the
exception is memory that `ReleaseNodes` handed out. `ArraysExclusive`: no array
serves two subtrees or is in the pool while in use. `GoodReadIsWhole`: a read
without an error leaves nothing of what the object or the array held. Bounds:
two objects, two arrays, streams of one node with one conflicting node and of
two nodes with none (an array of one is too small for the second). The header is
one field: a stream that ends in it leaves it half overwritten. `VIEW MCView`
leaves out what is remembered of arrays that nothing refers to and of files
that are not mapped yet, which is overwritten before anything reads it; the
objects are symmetric.

**The violations.** (1) `GetMerkleProofForCoinbase` puts the natural root of
each subtree into the top tree. If the last subtree is shorter than the others,
as the last one of a block usually may be, the proof leads elsewhere than
the merkle root of the leaves; TLC's counterexample has subtrees of height 1 and
three leaves. (2) `RemoveNodeAtIndex` does not move the index entries of the
nodes it moves. (3) `IsComplete` compares with the capacity of the slice, which
is not what the height defines after `Duplicate` or a read. (4) `RootHash`
computes from `st.Nodes` and fills the cache without the lock that is said to
protect them: a root of the list before an addition is stored after the
addition emptied the cache, and is there still when all calls have returned.

Disagreements with comments that no run shows: `ReleaseNodes` is said to return
nil for a mapped subtree (`subtree.go:852`) and returns the mapping; an
allocator's array that is too small is said to come back through `ReleaseNodes`
(`subtree.go:804`) and is dropped; `WriteTransactionsToWriter` is said to skip nil
entries (`subtree_data.go:118`) and stops with an error.

## 4. Proofs

Every theorem holds for every value of the constants that satisfies the named
ASSUME of its module, and from nothing else. These say little more than what a
constant is: bounds are natural numbers, sizes are positive, nil is not a value
of another kind, a transaction's hash is neither zero nor the placeholder, a
coinbase is not another transaction. `ParallelAssumption` also says that the
chunk size is even, as the constant 1024 of the code is; a chunk must not cut a
pair in two. Nothing is assumed about powers of two: the provers do not know
them, and CommonLemmas derives what is needed from the number of subsets of
a set (`PowerType`, `PowerDoubles`), and from that what `Log2Ceil`, `Log2Floor`
and `NextPowerOfTwo` compute.

| module | theorem | states |
|---|---|---|
| SubtreeProofs | Invariance, TypeCorrect, RootCacheAlwaysFresh, AlwaysWithinTreeSize, IndexNeverTooLow | `IInv`: `TypeOK`, `RootCacheFresh`, `WithinTreeSize`, `IndexNeverUndershoots` |
| | SizeFitsHeight | `FitsHeight` |
| | PartialReadsAlwaysAgree | `PartialReadsAgree` |
| | ReloadIsFaithful, IndexStaysExact, PlaceholderStaysFirst, ConflictsStayPresent, FeesStayRight | the action properties `ReloadFaithful`, `IndexKept`, `PlaceholderKept`, `ConflictsKept`, `FeesKept` |
| | FeesRightUnlessReplaced | `FeesMatch` until the first `ReplaceRootNode` |
| | GetNodeRightWhileExact | `GetNodeFindsTheNode` wherever `IndexExact` (run get_node shows it fails elsewhere) |
| | MetaInvariant, EntriesStayAligned, MetaReadsBack | `MetaInv`; the action properties `AlignedKept`, `RereadSame` |
| SubtreeConcProofs | ConcInvariant, ConcIndexAgrees, ConcRootFresh | `IInv`, `IndexAgrees`, `RootFreshUnlessRaced` |
| | ConcImplementsNodeList | SubtreeConc implements NodeList |
| BlockMerkleProofs | BlockInvariant, BlockTypes, RootAlwaysCanonical | `BInv`, `TypeOK`, `RootIsCanonical` |
| | ProofsAlwaysVerify | `ProofsVerify` |
| | PaddedRootsAlwaysCompose, CoinbaseProofVerifiesWhenLevel | `PaddedRootsCompose`, `CoinbaseProofVerifiesIfLevel` |
| ParallelMerkleProofs | BuildInvariant, BuildTypes, ReadsSettled, SlotsExclusive, StoreIsRight | `IInv`, `TypeOK`, `ReadsAreSettled`, `SlotsAreExclusive`, `ResultIsTheStore` |
| InpointsProofs | InpointsInvariant, InpointsTypes, RunsAlwaysMatch, ReadsWhatWasWritten | `IInv`, `TypeOK`, `RunsMatchParents`, `SelfDelimiting` |
| | BuffersNeverGrow | `NeverGrows` |
| | NothingIsLost | `NothingLost` |
| | InpointsImplementMap | Inpoints implements InpointMap |
| SubtreeDataProofs | DataInvariant, EntriesMatchNodes, SerializedDataReadsBack, ChunkedReadIsWholeRead | `DInv`, `TxsMatchNodes`, `WholeRoundTrip`, `ChunksAddUp` |
| SubtreeReaderProofs | ReaderInvariant, NothingIsLeaked, MappedNodesReadable, NoArrayShared, GoodReadsAreWhole | `IInv`, `NothingLeaked`, `NodesReadable`, `ArraysExclusive`, `GoodReadIsWhole` |

Each inductive invariant was first checked by TLC on the instance of the
component's run.

**Subtree.** `WithinTreeSize` needs `1 <= treeSize` because two methods append
to an empty list unchecked, and after a reload `treeSize` is the number of
nodes; that is at least one because an empty tree has no root to serialize,
which is where `RootCacheFresh` comes in (a cached root means a non-empty list).
`RootCacheFresh` is preserved since each method that touches the list drops or
recomputes the cache, and `Duplicate` and `Reload` take list and root together.
`IndexNeverUndershoots` is the strongest fact about entries that removal
preserves: nodes only ever move down, and new nodes get an entry at the end.
`IndexKept` is a second pass over the methods: an addition at the end keeps the
last position of every other hash, and a removal keeps the index exact only for
a last node whose hash is unique. `FitsHeight` is where the rounding routines
matter: after a reload the height is a logarithm of the number of nodes.
`FeesMatch` compares the total with a sum over a set of positions, which the
community modules define by a fold that takes the positions in an unspecified
order. CommonLemmas shows that any such order gives the last of the prefix sums
(`total`, `FoldIsTotal`): taking one position out of a set changes every prefix
sum from there on by that position's value. So an append adds the new fee, and a removal,
where the later nodes move down, subtracts the removed one (`FeeSumAppend`,
`FeeSumRemove`). The equality is modulo the word, as the code's is: as an equality
of integers it fails as soon as a legal sum wraps.

**Meta.** The methods of Meta find positions through the index of the list, so
`MetaInv` has what they use of it, and of stored bytes that they have an entry
for every node they were written for, none nil after the first. `AlignedKept` is
then a case per method of Subtree (from the effect of each on the list) and per
method of Meta.

**SubtreeConc.** `IInv` says what a goroutine relies on at each of its steps
(`Local`, which begins with mutual exclusion), which nodes the index accounts
for while the holder of the lock has not entered the last or is building it
(`IndexExact`), and that without a race whoever computes a root has read a
beginning of the list as it is (`RootExact`). The refinement maps the list to
what the holder of the lock still has to do; the step that commits is the append
or the first move of a removal.

**BlockMerkle.** The inductive invariant only says that the subtrees are lists of
leaves and all but the last are full; the work is in what the algorithms compute.
Level k of a store of height h begins at entry 2^h - 2^(h-k+1), and entry i of it
is the parent of entries 2i and 2i + 1 of the level below. By that, level k is the
reference's level k, then zero hashes (`Agrees`), and the last entry is the
reference's root. A proof has one hash for each level; the offset that
`GetMerkleProof` accumulates is where the level begins, the position it then looks
at is that of the sibling, and hashing the two gives the entry above. The levels of
a block, cut at multiples of 2^(h-k), are the levels of its subtrees, and those of
the short last subtree go on as H(x, x), as in `RootHashPadded`; at height h each
part is one hash, and the tree over these hashes goes on as the block's own
levels do. The coinbase proof is two climbs on the leftmost path, one after the
other.

**ParallelMerkle.** The offsets of the levels, that the chunks of a level are
disjoint, exactly which entries are written, and that each is the parent of two
children that were there before. `ResultIsTheStore` follows because then the
array satisfies the equation of the recursive definition of MerkleTree, and that
equation has one solution: the children of an entry lie at lower offsets.

**Inpoints.** The packed array is described by the places of its runs
(`Packed`): a run is a count and that many outputs, and the next begins
after it. Inserting an output into a run in the middle moves the later runs by
one and leaves their contents. The walk over count words that the code repeats
finds those places. The refinement reads the abstract map off the runs.
`NothingLost` is a count: `GetTxInpoints` is the runs, each output paired with its
parent, one after the other. A step puts one output at the end of one run or
begins a run with it (`SpendsOneMore`), so the joined list has one element more
somewhere, and every pair occurs as often as before except the appended one
(`FlattenGrows`, `OneMore`). `Counted` carries the equality from step to step.

**Data.** What chunk readers took from a file is the transactions of the nodes
from the first on, without a gap, and nothing else is set (`Reading`). Reading
the whole file, a recursive function, is shown to give the same: no node after
the first is a coinbase, so that none is taken for the one that belongs in front.

**SubtreeReader.** Which call or object owns which array, file and mapping at
each stage of a creation (`JobsOrderly`, `JobsExclusive`, `StoresExclusive`), and
that mapped memory which `ReleaseNodes` has not handed out serves only the
subtree whose `Close` unmaps it.

The induction theorems of the library take an operator as a parameter, which the
provers cannot instantiate. Where a recursive function is involved, the proofs
look at the least position at which the claim would fail (`MinExists`, from the
well-foundedness of the natural numbers): that is how the function is
shown to exist and what it computes.

Only model-checked: the liveness properties `Termination` and `CallsReturn`. Every
safety property of a passing run is stated by a theorem.

## 5. Not modelled

Goroutines that mix the methods with a lock and those that are documented to
need none (`AddNode`, `AddSubtreeNodeWithoutLock`, `ReplaceRootNode`): that is a
misuse the comments exclude. The index and the methods of Subtree on an object
that is read into a second time: no code keeps `nodeIndex` in step there, so
there is nothing to state. Streams of no leaves, whose height is the conversion
of an infinity and depends on the platform, and counts larger than the stream.
A `munmap` or `os.Remove` that fails: the code goes on as if it had not, and never
tries again. Reading mapped memory after `Close`, or memory of a mapped subtree
that came through a pool and was unmapped: the process ends.
Also left out: `NewTxInpointsFromPacked` (trusts its caller), the accessors of `Meta`,
`GetMap` and `Difference` (pure loops over another package's
map), `NextLowerPowerOfTwo` (called by nothing), `IsCoinbasePlaceHolderTx`,
the text of errors, the Windows stub (always fails), the examples. Negative
arguments to methods that index a slice panic at once and are not explored.

## 6. Plan

Nothing of the plan is left: every component listed as modelled has its module,
its run and its theorems. The two liveness properties stay with TLC, as the
prover handles neither fairness nor ENABLED.
