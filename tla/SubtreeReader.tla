--------------------------- MODULE SubtreeReader ----------------------------
(***************************************************************************)
(* Where the node arrays of subtrees come from and go to: reading a        *)
(* subtree into an object that may have been used before, with an array    *)
(* from make, from a pool of the caller's (NodeAllocator, ReleaseNodes) or *)
(* from a mapped file (mmap_store.go); readers that end anywhere, and      *)
(* system calls that fail.                                                 *)
(*                                                                         *)
(* A stream is the bytes of one subtree.  Its fields are the header (root  *)
(* hash, fees, size and number of leaves), one field per node, the number  *)
(* of conflicting nodes and one field per conflicting node.  A field of an *)
(* object is told apart by the stream it was read from.                    *)
(***************************************************************************)
EXTENDS Integers, Sequences, FiniteSets

CONSTANTS
  Subtrees,   \* Subtree objects
  Streams,    \* serialized subtrees
  Leaves,     \* how many nodes each has
  Conflicts,  \* how many conflicting nodes each has
  Arrays,     \* node arrays, and the temporary files and mappings under them
  TreeSize,   \* 2^height of the trees made by NewTreeMmap
  NULL        \* Go's nil; in a field, what no stream has written

\* A creation of a mapped array under way: the system call it comes to next,
\* the stream to read (NULL for a new tree), and the file, once there is one.
Jobs == [stage : {"create", "truncate", "map", "fill"},
         src   : Streams \cup {NULL},
         id    : Arrays \cup {NULL}]

ASSUME SubtreeReaderAssumption ==
  /\ Leaves \in [Streams -> Nat \ {0}]
  /\ Conflicts \in [Streams -> Nat]
  /\ TreeSize \in Nat \ {0}
  /\ Arrays \subseteq Nat
  /\ NULL \notin Streams \cup Arrays \cup Jobs

VARIABLES
  st,       \* the objects
  whole,    \* per object, the stream whose reading ended without an error
  job,      \* per object, a creation of a mapped array that is under way
  content,  \* per array, the stream that wrote each node
  mapped,   \* the arrays that are mapped files, not heap memory
  pool,     \* the arrays in the caller's pool
  released, \* history: mapped arrays ReleaseNodes has handed out
  files,    \* temporary files that exist
  fds,      \* temporary files that are open
  maps,     \* temporary files that are mapped
  closed    \* mmapNodeStore.once: stores whose Close has run

vars == <<st, whole, job, content, mapped, pool, released, files, fds, maps, closed>>
heap == <<content, mapped, pool, released>>
system == <<files, fds, maps, closed>>

\* &Subtree{}: header is rootHash, Fees, SizeInBytes, treeSize and Height,
\* Nodes an array and a length.
zeroSubtree ==
  [header |-> NULL, Nodes |-> NULL, len |-> 0, ConflictingNodes |-> NULL,
   closer |-> NULL]

Init ==
  /\ st = [s \in Subtrees |-> zeroSubtree]
  /\ whole = [s \in Subtrees |-> NULL]
  /\ job = [s \in Subtrees |-> NULL]
  /\ content = [a \in Arrays |-> << >>]
  /\ mapped = {}
  /\ pool = {}
  /\ released = {}
  /\ files = {} /\ fds = {} /\ maps = {} /\ closed = {}

\* Nothing refers to array or file a: the garbage collector has taken the
\* memory back, and os.CreateTemp and mmap may give the name out again.
unused(a) ==
  /\ a \notin pool \cup files \cup fds \cup maps
  /\ \A s \in Subtrees : a \notin {st[s].Nodes, st[s].closer}
  /\ \A s \in Subtrees : job[s] # NULL => job[s].id # a

\* Arrays are told apart only by who refers to them: the least is given out.
free(a) == unused(a) /\ \A b \in Arrays : unused(b) => a <= b

unwritten(n) == [i \in 1 .. n |-> NULL]

-----------------------------------------------------------------------------
(* Reading.                                                                *)

total(f) == 2 + Leaves[f] + Conflicts[f]

\* Mutant: without conflicting nodes in the stream the field is left alone.
conflictsReadIfAny(old, f, fields) ==
  IF fields < 2 + Leaves[f] \/ Conflicts[f] = 0 THEN old
  ELSE IF fields = total(f) THEN f ELSE NULL

\* The conflicting nodes after as many fields of f: as before, half read (NULL)
\* or read.
conflictsRead(old, f, fields) ==
  IF fields < 2 + Leaves[f] THEN old
  ELSE IF fields = total(f) THEN f ELSE NULL

\* Nodes overwritten in place, as far as the stream goes.
nodesRead(old, f, fields) ==
  [i \in DOMAIN old |-> IF i <= Leaves[f] /\ i <= fields - 1 THEN f ELSE old[i]]

\* Array a becomes the nodes of s.
received(s, f, fields, a) ==
  /\ st' = [st EXCEPT ![s].header = f, ![s].Nodes = a, ![s].len = Leaves[f],
                      ![s].ConflictingNodes = conflictsRead(@, f, fields)]
  /\ whole' = [whole EXCEPT ![s] = IF fields = total(f) THEN f ELSE NULL]
  /\ UNCHANGED <<job, released, system>>

\* make([]Node, numLeaves)
makeNodes(s, f, fields) ==
  \E a \in Arrays :
    /\ free(a)
    /\ content' = [content EXCEPT ![a] = nodesRead(unwritten(Leaves[f]), f, fields)]
    /\ mapped' = mapped \ {a}
    /\ received(s, f, fields, a)

\* Deserialize and DeserializeFromReader, and DeserializeFromReaderWithAllocator
\* without an allocator, from a stream of which so many fields are there.
\* One that ends within the header leaves that half overwritten (NULL).
DeserializeFromReader(s, f, fields) ==
  /\ job[s] = NULL
  /\ \/ /\ fields = 0
        /\ st' = [st EXCEPT ![s].header = NULL]
        /\ whole' = [whole EXCEPT ![s] = NULL]
        /\ UNCHANGED <<job, heap, system>>
     \/ fields >= 1 /\ makeNodes(s, f, fields) /\ UNCHANGED pool

\* The allocator takes an array from the pool.  One that is too small is
\* dropped for one from make.  (Writing to one that has been unmapped ends the
\* program.)
DeserializeFromReaderWithAllocator(s, f, fields) ==
  /\ job[s] = NULL
  /\ fields >= 1
  /\ \E a \in pool :
       /\ pool' = pool \ {a}
       /\ \/ /\ Len(content[a]) >= Leaves[f]
             /\ a \in mapped => a \in maps
             /\ content' = [content EXCEPT ![a] = nodesRead(@, f, fields)]
             /\ received(s, f, fields, a)
             /\ UNCHANGED mapped
          \/ Len(content[a]) < Leaves[f] /\ makeNodes(s, f, fields)

\* Mutant: the object keeps the array.
ReleaseNodesKept(s) ==
  /\ job[s] = NULL
  /\ st[s].Nodes # NULL
  /\ pool' = pool \cup {st[s].Nodes}
  /\ released' = released \cup ({st[s].Nodes} \cap mapped)
  /\ whole' = [whole EXCEPT ![s] = NULL]
  /\ UNCHANGED <<st, job, content, mapped, system>>

\* The caller puts what it is handed into the pool.  (With no nodes, nothing
\* happens.)  The array of a mapped subtree is handed out like any other.
ReleaseNodes(s) ==
  /\ job[s] = NULL
  /\ st[s].Nodes # NULL
  /\ pool' = pool \cup {st[s].Nodes}
  /\ released' = released \cup ({st[s].Nodes} \cap mapped)
  /\ st' = [st EXCEPT ![s].Nodes = NULL, ![s].len = 0]
  /\ whole' = [whole EXCEPT ![s] = NULL]
  /\ UNCHANGED <<job, content, mapped, system>>

-----------------------------------------------------------------------------
(* Mapped arrays: newFileBackedMmapNodes, one step per system call.        *)

advance(s, stage) == job' = [job EXCEPT ![s].stage = stage]

begin(s, f) ==
  /\ job[s] = NULL
  /\ st[s] = zeroSubtree
  /\ job' = [job EXCEPT ![s] = [stage |-> "create", src |-> f, id |-> NULL]]
  /\ UNCHANGED <<st, whole, heap, system>>

\* NewTreeMmap and NewTreeByLeafCountMmap.
NewTreeMmap(s) == begin(s, NULL)

\* NewSubtreeFromReaderMmap.  A stream that ends within the header ends the
\* call before anything is created.
NewSubtreeFromReaderMmap(s, f) == begin(s, f)

\* The constructor returns nil and an error.
giveUp(s) ==
  /\ job' = [job EXCEPT ![s] = NULL]
  /\ st' = [st EXCEPT ![s] = zeroSubtree]

CreateTemp(s) ==
  /\ job[s] # NULL /\ job[s].stage = "create"
  /\ \/ giveUp(s) /\ UNCHANGED <<files, fds, closed>>
     \/ \E a \in Arrays :
          /\ free(a)
          /\ files' = files \cup {a}
          /\ fds' = fds \cup {a}
          /\ closed' = closed \ {a}
          /\ job' = [job EXCEPT ![s].stage = "truncate", ![s].id = a]
          /\ UNCHANGED st
  /\ UNCHANGED <<whole, heap, maps>>

\* Mutant: the file is not removed.
abandonFile(s) == fds' = fds \ {job[s].id} /\ giveUp(s) /\ UNCHANGED files

\* f.Close(), os.Remove and an error.  (A file the system will not remove is
\* left out: the error is ignored.)
abandon(s) ==
  /\ fds' = fds \ {job[s].id}
  /\ files' = files \ {job[s].id}
  /\ giveUp(s)

Truncate(s) ==
  /\ job[s] # NULL /\ job[s].stage = "truncate"
  /\ \/ advance(s, "map") /\ UNCHANGED <<st, files, fds>>
     \/ abandon(s)
  /\ UNCHANGED <<whole, heap, maps, closed>>

mmapFile(a) == maps' = maps \cup {a} /\ mapped' = mapped \cup {a}
munmap(a) == maps' = maps \ {a}

\* Mapping the file; then the descriptor is closed.  NewTreeMmap is done, with
\* no nodes in the array yet; otherwise st.closer is set before st.Nodes.
Mmap(s) ==
  LET a == job[s].id
      f == job[s].src
  IN  /\ job[s] # NULL /\ job[s].stage = "map"
      /\ \/ /\ mmapFile(a)
            /\ fds' = fds \ {a}
            /\ released' = released \ {a}
            /\ content' = [content EXCEPT ![a] =
                             unwritten(IF f = NULL THEN TreeSize ELSE Leaves[f])]
            /\ \/ /\ f = NULL
                  /\ st' = [st EXCEPT ![s].Nodes = a, ![s].closer = a]
                  /\ job' = [job EXCEPT ![s] = NULL]
               \/ /\ f # NULL
                  /\ st' = [st EXCEPT ![s].header = f, ![s].closer = a]
                  /\ advance(s, "fill")
            /\ UNCHANGED files
         \/ abandon(s) /\ UNCHANGED <<content, mapped, released, maps>>
      /\ UNCHANGED <<whole, pool, closed>>

\* mmapNodeStore.Close, the first time: the mapping goes, then the file.
\* (Either call may fail, and is then never made again.  The code goes on as
\* if it had not; that the system keeps the file or the mapping is left out.)
closeStore(a) ==
  /\ closed' = closed \cup {a}
  /\ munmap(a)
  /\ files' = files \ {a}
  /\ UNCHANGED fds

\* Mutant: a subtree that was read is closed on return as well.
FillDeferredClose(s, f, fields) ==
  LET a == job[s].id
  IN  /\ job[s] # NULL /\ job[s].stage = "fill" /\ job[s].src = f
      /\ content' = [content EXCEPT ![a] = nodesRead(@, f, fields)]
      /\ closeStore(a)
      /\ \/ /\ fields = total(f)
            /\ st' = [st EXCEPT ![s].Nodes = a, ![s].len = Leaves[f],
                                ![s].ConflictingNodes = conflictsRead(@, f, fields)]
            /\ job' = [job EXCEPT ![s] = NULL]
            /\ whole' = [whole EXCEPT ![s] = f]
         \/ fields < total(f) /\ giveUp(s) /\ UNCHANGED whole
      /\ UNCHANGED <<mapped, pool, released>>

\* The nodes, then the conflicting nodes; a stream that ends first has the
\* store closed and the object dropped.
Fill(s, f, fields) ==
  LET a == job[s].id
  IN  /\ job[s] # NULL /\ job[s].stage = "fill" /\ job[s].src = f
      /\ content' = [content EXCEPT ![a] = nodesRead(@, f, fields)]
      /\ \/ /\ fields = total(f)
            /\ st' = [st EXCEPT ![s].Nodes = a, ![s].len = Leaves[f],
                                ![s].ConflictingNodes = conflictsRead(@, f, fields)]
            /\ job' = [job EXCEPT ![s] = NULL]
            /\ whole' = [whole EXCEPT ![s] = f]
            /\ UNCHANGED system
         \/ fields < total(f) /\ closeStore(a) /\ giveUp(s) /\ UNCHANGED whole
      /\ UNCHANGED <<mapped, pool, released>>

-----------------------------------------------------------------------------
(* The end of an object.                                                   *)

\* Nothing happens on the heap, or the second time.  st.Nodes stays, and may
\* no longer be mapped: nothing is said of what was read.
Close(s) ==
  /\ job[s] = NULL
  /\ st[s].closer # NULL
  /\ \/ st[s].closer \in closed /\ UNCHANGED system
     \/ st[s].closer \notin closed /\ closeStore(st[s].closer)
  /\ whole' = [whole EXCEPT ![s] = NULL]
  /\ UNCHANGED <<st, job, heap>>

\* The caller lets go of an object, a mapped one only after Close.
Drop(s) ==
  /\ job[s] = NULL
  /\ st[s].closer = NULL \/ st[s].closer \in closed
  /\ st' = [st EXCEPT ![s] = zeroSubtree]
  /\ whole' = [whole EXCEPT ![s] = NULL]
  /\ UNCHANGED <<job, heap, system>>

-----------------------------------------------------------------------------
Next ==
  \E s \in Subtrees :
    \/ \E f \in Streams :
         \/ \E fields \in 0 .. total(f) :
              \/ DeserializeFromReader(s, f, fields)
              \/ DeserializeFromReaderWithAllocator(s, f, fields)
         \/ NewSubtreeFromReaderMmap(s, f)
         \/ \E fields \in 1 .. total(f) : Fill(s, f, fields)
    \/ ReleaseNodes(s)
    \/ NewTreeMmap(s)
    \/ CreateTemp(s)
    \/ Truncate(s)
    \/ Mmap(s)
    \/ Close(s)
    \/ Drop(s)

Spec == Init /\ [][Next]_vars

-----------------------------------------------------------------------------
(* Properties.                                                             *)

\* Every temporary file, open descriptor and mapping is one that the call
\* under way will clean up, or one that Close of a subtree a caller holds will
\* release: no failing system call or reader leaks one.
NothingLeaked ==
  \A a \in files \cup fds \cup maps :
    \E s \in Subtrees :
      \/ job[s] # NULL /\ job[s].id = a
      \/ job[s] = NULL /\ a \notin fds /\ st[s].closer = a /\ a \notin closed

\* Nodes in a mapped file can be read until Close of the same subtree (which
\* resets whole).  The way around this is ReleaseNodes on a mapped subtree: it
\* puts memory into the pool that Close will unmap.
NodesReadable ==
  \A s \in Subtrees :
    LET a == st[s].Nodes
    IN  a \in mapped \ released /\ (whole[s] # NULL \/ a \notin closed) => a \in maps

\* No array is the nodes of two subtrees, or in the pool while it is in use.
ArraysExclusive ==
  \A s \in Subtrees :
    st[s].Nodes # NULL =>
      /\ st[s].Nodes \notin pool
      /\ \A u \in Subtrees \ {s} : st[u].Nodes # st[s].Nodes

\* A read that ends without an error gives the subtree that was written and
\* nothing else, whatever object it was read into, whatever earlier reads left
\* in it half-way, and whatever the array held before.
GoodReadIsWhole ==
  \A s \in Subtrees :
    whole[s] # NULL =>
      LET f == whole[s]
      IN  /\ st[s].header = f /\ st[s].ConflictingNodes = f
          /\ st[s].len = Leaves[f]
          /\ \A i \in 1 .. st[s].len : content[st[s].Nodes][i] = f
=============================================================================
