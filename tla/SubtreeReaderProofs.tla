------------------------ MODULE SubtreeReaderProofs -------------------------
(***************************************************************************)
(* What SubtreeReader promises about node arrays, temporary files and      *)
(* mappings, proved for any number of objects, streams and arrays.         *)
(***************************************************************************)
EXTENDS SubtreeReader, SequenceTheorems, TLAPS

SubtreeRecords ==
  [header : Streams \cup {NULL}, Nodes : Arrays \cup {NULL}, len : Nat,
   ConflictingNodes : Streams \cup {NULL}, closer : Arrays \cup {NULL}]

\* The variables have their types.
Types ==
  /\ st \in [Subtrees -> SubtreeRecords]
  /\ whole \in [Subtrees -> Streams \cup {NULL}]
  /\ job \in [Subtrees -> Jobs \cup {NULL}]
  /\ content \in [Arrays -> Seq(Streams \cup {NULL})]
  /\ mapped \subseteq Arrays
  /\ pool \subseteq Arrays
  /\ released \subseteq Arrays
  /\ files \subseteq Arrays
  /\ fds \subseteq Arrays
  /\ maps \subseteq Arrays
  /\ closed \subseteq Arrays

\* What the object and the system hold at each stage of a creation.
JobsOrderly ==
  \A s \in Subtrees :
    job[s] # NULL =>
      /\ job[s].stage = "create" => st[s] = zeroSubtree /\ job[s].id = NULL
      /\ job[s].stage \in {"truncate", "map"} =>
           /\ st[s] = zeroSubtree
           /\ job[s].id \in Arrays \ (maps \cup closed)
      /\ job[s].stage = "fill" =>
           /\ job[s].src # NULL
           /\ st[s] = [zeroSubtree EXCEPT !.header = job[s].src, !.closer = job[s].id]
           /\ job[s].id \in maps \ (fds \cup closed)
           /\ Len(content[job[s].id]) = Leaves[job[s].src]

\* The file of a creation under way is nobody else's.
JobsExclusive ==
  \A s \in Subtrees :
    job[s] # NULL /\ job[s].id # NULL =>
      /\ job[s].id \notin pool
      /\ \A u \in Subtrees \ {s} :
           /\ job[s].id # st[u].Nodes
           /\ job[s].id # st[u].closer
           /\ job[u] # NULL => job[s].id # job[u].id

\* No two subtrees have the same store, and one that has not been closed is
\* mapped.
StoresExclusive ==
  \A s \in Subtrees :
    st[s].closer # NULL =>
      /\ \A u \in Subtrees \ {s} : st[u].closer # st[s].closer
      /\ st[s].closer \notin closed => st[s].closer \in maps

\* Mapped memory that ReleaseNodes has not handed out is in no pool and serves
\* only the subtree whose Close unmaps it, and that has not been closed if a
\* good read is on record.
MappedHeldByOwner ==
  /\ pool \cap mapped \subseteq released
  /\ \A s \in Subtrees :
       st[s].Nodes \in mapped \ released =>
         /\ st[s].closer = st[s].Nodes
         /\ whole[s] # NULL => st[s].Nodes \notin closed

\* A good read has left an array.
WholeHasNodes == \A s \in Subtrees : whole[s] # NULL => st[s].Nodes # NULL

IInv ==
  /\ Types
  /\ JobsOrderly
  /\ JobsExclusive
  /\ StoresExclusive
  /\ MappedHeldByOwner
  /\ WholeHasNodes
  /\ NothingLeaked
  /\ ArraysExclusive
  /\ GoodReadIsWhole

-----------------------------------------------------------------------------
(* Facts about the records.                                                *)

\* The fields of an object have their types.
LEMMA RecordFacts ==
  ASSUME Types, NEW s \in Subtrees
  PROVE  /\ st[s] \in SubtreeRecords
         /\ st[s].header \in Streams \cup {NULL}
         /\ st[s].Nodes \in Arrays \cup {NULL}
         /\ st[s].len \in Nat
         /\ st[s].ConflictingNodes \in Streams \cup {NULL}
         /\ st[s].closer \in Arrays \cup {NULL}
BY DEF Types, SubtreeRecords

\* &Subtree{} has no array, no store and nothing read.
LEMMA ZeroFacts ==
  /\ zeroSubtree \in SubtreeRecords
  /\ zeroSubtree.Nodes = NULL
  /\ zeroSubtree.closer = NULL
BY DEF zeroSubtree, SubtreeRecords

\* An assignment to one object leaves the others alone.
LEMMA ObjectUpdate ==
  ASSUME Types, NEW s \in Subtrees, NEW r \in SubtreeRecords,
         st' = [st EXCEPT ![s] = r]
  PROVE  /\ st' \in [Subtrees -> SubtreeRecords]
         /\ st'[s] = r
         /\ \A u \in Subtrees \ {s} : st'[u] = st[u]
BY DEF Types

\* So does what is remembered of a read.
LEMMA WholeUpdate ==
  ASSUME Types, NEW s \in Subtrees, NEW f \in Streams \cup {NULL},
         whole' = [whole EXCEPT ![s] = f]
  PROVE  /\ whole' \in [Subtrees -> Streams \cup {NULL}]
         /\ whole'[s] = f
         /\ \A u \in Subtrees \ {s} : whole'[u] = whole[u]
BY DEF Types

\* And the progress of a creation.
LEMMA JobUpdate ==
  ASSUME Types, NEW s \in Subtrees, NEW j \in Jobs \cup {NULL},
         job' = [job EXCEPT ![s] = j]
  PROVE  /\ job' \in [Subtrees -> Jobs \cup {NULL}]
         /\ job'[s] = j
         /\ \A u \in Subtrees \ {s} : job'[u] = job[u]
BY DEF Types

\* io.ReadFull into an array: the length stays, and as many nodes as the stream
\* has fields for are overwritten.
LEMMA NodesReadFacts ==
  ASSUME NEW old \in Seq(Streams \cup {NULL}), NEW f \in Streams, NEW fields \in Nat
  PROVE  /\ nodesRead(old, f, fields) \in Seq(Streams \cup {NULL})
         /\ Len(nodesRead(old, f, fields)) = Len(old)
         /\ \A i \in 1 .. Len(old) :
              i <= Leaves[f] /\ i <= fields - 1 => nodesRead(old, f, fields)[i] = f
<1> DEFINE new == nodesRead(old, f, fields)
<1>1. new = [i \in 1 .. Len(old) |->
               IF i <= Leaves[f] /\ i <= fields - 1 THEN f ELSE old[i]]
  BY DEF nodesRead
<1>2. new \in [1 .. Len(old) -> Streams \cup {NULL}]
  BY <1>1
<1>3. Len(old) \in Nat
  OBVIOUS
<1>4. new \in Seq(Streams \cup {NULL}) /\ Len(new) = Len(old)
  <2> HIDE DEF new
  <2> QED BY <1>2, <1>3
<1> QED BY <1>1, <1>4

\* make([]Node, n)
LEMMA UnwrittenFacts ==
  ASSUME NEW n \in Nat
  PROVE  unwritten(n) \in Seq(Streams \cup {NULL}) /\ Len(unwritten(n)) = n
<1> DEFINE new == unwritten(n)
<1>1. new \in [1 .. n -> Streams \cup {NULL}]
  BY DEF unwritten
<1> HIDE DEF new
<1>2. new \in Seq(Streams \cup {NULL}) /\ Len(new) = n
  BY <1>1
<1> QED BY <1>2 DEF new

\* How many fields a stream has.
LEMMA TotalFacts ==
  ASSUME NEW f \in Streams
  PROVE  /\ Leaves[f] \in Nat /\ Conflicts[f] \in Nat
         /\ total(f) \in Nat /\ total(f) >= 2 + Leaves[f]
BY SubtreeReaderAssumption DEF total

-----------------------------------------------------------------------------
(* Reading.                                                                *)

\* An array that no other object, no creation and not the pool holds, and that
\* is not mapped memory unless it came through ReleaseNodes, may become the
\* nodes of s.
LEMMA ReceivedKeepsIInv ==
  ASSUME IInv, NEW s \in Subtrees, NEW f \in Streams, NEW fields \in 1 .. total(f),
         NEW a \in Arrays, NEW c \in Seq(Streams \cup {NULL}),
         job[s] = NULL, received(s, f, fields, a),
         content' = [content EXCEPT ![a] = c],
         Leaves[f] <= Len(c),
         \A i \in 1 .. Leaves[f] : i <= fields - 1 => c[i] = f,
         \A u \in Subtrees \ {s} : st[u].Nodes # a,
         \A u \in Subtrees : job[u] # NULL => job[u].id # a,
         pool' \subseteq pool \ {a},
         mapped' \subseteq mapped, a \in mapped' => a \in released
  PROVE  IInv'
<1> DEFINE r == [st[s] EXCEPT !.header = f, !.Nodes = a, !.len = Leaves[f],
                              !.ConflictingNodes = conflictsRead(@, f, fields)]
           w == IF fields = total(f) THEN f ELSE NULL
<1>1. Types
  BY DEF IInv
<1>2. Leaves[f] \in Nat /\ total(f) \in Nat /\ total(f) >= 2 + Leaves[f]
  BY TotalFacts
<1>3. st[s] \in SubtreeRecords
  BY <1>1, RecordFacts
<1>4. conflictsRead(st[s].ConflictingNodes, f, fields) \in Streams \cup {NULL}
  BY <1>1, RecordFacts DEF conflictsRead
<1>5. /\ r \in SubtreeRecords
      /\ r.header = f /\ r.Nodes = a /\ r.len = Leaves[f] /\ r.closer = st[s].closer
      /\ r.ConflictingNodes = conflictsRead(st[s].ConflictingNodes, f, fields)
  BY <1>2, <1>3, <1>4 DEF SubtreeRecords
<1>6. st' = [st EXCEPT ![s] = r] /\ whole' = [whole EXCEPT ![s] = w]
  <2>1. st' = [st EXCEPT ![s] = r]
    BY <1>1 DEF received, Types
  <2>2. whole' = [whole EXCEPT ![s] = w]
    BY <1>1 DEF received, Types
  <2> QED BY <2>1, <2>2
<1> HIDE DEF r, w
<1>7. /\ st' \in [Subtrees -> SubtreeRecords]
      /\ st'[s] = r
      /\ \A u \in Subtrees \ {s} : st'[u] = st[u]
  BY <1>1, <1>5, <1>6, ObjectUpdate
<1>8. /\ whole' \in [Subtrees -> Streams \cup {NULL}]
      /\ whole'[s] = w
      /\ \A u \in Subtrees \ {s} : whole'[u] = whole[u]
  BY <1>1, <1>6, WholeUpdate DEF w
<1>9. /\ job' = job /\ released' = released
      /\ files' = files /\ fds' = fds /\ maps' = maps /\ closed' = closed
  BY DEF received, system
<1>10. /\ content' \in [Arrays -> Seq(Streams \cup {NULL})]
       /\ content'[a] = c
       /\ \A b \in Arrays \ {a} : content'[b] = content[b]
  BY <1>1 DEF Types
<1>11. Types'
  BY <1>1, <1>7, <1>8, <1>9, <1>10 DEF Types
<1>12. JobsOrderly'
  <2> SUFFICES ASSUME NEW u \in Subtrees, job[u] # NULL
               PROVE  JobsOrderly!(u)'
    BY <1>9 DEF JobsOrderly
  <2>1. u # s /\ st'[u] = st[u]
    BY <1>7
  <2>2. job[u].stage = "fill" => content'[job[u].id] = content[job[u].id]
    BY <1>1, <1>10 DEF Types, IInv, JobsOrderly
  <2> QED BY <1>9, <2>1, <2>2 DEF IInv, JobsOrderly
<1>13. JobsExclusive'
  BY <1>5, <1>7, <1>9 DEF IInv, JobsExclusive
<1>14. StoresExclusive'
  BY <1>5, <1>7, <1>9 DEF IInv, StoresExclusive
<1>15. MappedHeldByOwner'
  BY <1>5, <1>7, <1>8, <1>9 DEF IInv, MappedHeldByOwner
<1>16. WholeHasNodes'
  BY <1>5, <1>7, <1>8, SubtreeReaderAssumption DEF IInv, WholeHasNodes
<1>17. NothingLeaked'
  BY <1>5, <1>7, <1>9 DEF IInv, NothingLeaked
<1>18. ArraysExclusive'
  BY <1>5, <1>7 DEF IInv, ArraysExclusive
<1>19. GoodReadIsWhole'
  <2> SUFFICES ASSUME NEW u \in Subtrees, whole'[u] # NULL
               PROVE  GoodReadIsWhole!(u)!2'
    BY DEF GoodReadIsWhole
  <2>1. CASE u = s
    <3>1. fields = total(f) /\ whole'[u] = f
      BY <1>8, <2>1 DEF w
    <3>2. r.ConflictingNodes = f
      BY <1>2, <1>5, <3>1 DEF conflictsRead
    <3>3. \A i \in 1 .. Leaves[f] : c[i] = f
      BY <1>2, <3>1
    <3> QED BY <1>5, <1>7, <1>10, <2>1, <3>1, <3>2, <3>3
  <2>2. CASE u # s
    <3>1. st'[u] = st[u] /\ whole'[u] = whole[u]
      BY <1>7, <1>8, <2>2
    <3>2. content'[st[u].Nodes] = content[st[u].Nodes]
      <4>1. st[u].Nodes \in Arrays \ {a}
        BY <1>1, <2>2, <3>1, RecordFacts DEF IInv, WholeHasNodes
      <4> QED BY <1>10, <4>1
    <3> QED BY <3>1, <3>2 DEF IInv, GoodReadIsWhole
  <2> QED BY <2>1, <2>2
<1> QED BY <1>11, <1>12, <1>13, <1>14, <1>15, <1>16, <1>17, <1>18, <1>19 DEF IInv

\* make gives an array nothing refers to.
LEMMA MakeNodesKeepsIInv ==
  ASSUME IInv, NEW s \in Subtrees, NEW f \in Streams, NEW fields \in 1 .. total(f),
         job[s] = NULL, makeNodes(s, f, fields), pool' \subseteq pool
  PROVE  IInv'
<1>1. PICK a \in Arrays :
        /\ free(a)
        /\ content' = [content EXCEPT ![a] = nodesRead(unwritten(Leaves[f]), f, fields)]
        /\ mapped' = mapped \ {a}
        /\ received(s, f, fields, a)
  BY DEF makeNodes
<1> DEFINE c == nodesRead(unwritten(Leaves[f]), f, fields)
<1>2. Leaves[f] \in Nat /\ fields \in Nat
  BY TotalFacts
<1>3. /\ c \in Seq(Streams \cup {NULL})
      /\ Len(c) = Leaves[f]
      /\ \A i \in 1 .. Leaves[f] : i <= fields - 1 => c[i] = f
  <2>1. unwritten(Leaves[f]) \in Seq(Streams \cup {NULL}) /\ Len(unwritten(Leaves[f])) = Leaves[f]
    BY <1>2, UnwrittenFacts
  <2> QED BY <1>2, <2>1, NodesReadFacts
<1>4. /\ a \notin pool
      /\ \A u \in Subtrees : st[u].Nodes # a
      /\ \A u \in Subtrees : job[u] # NULL => job[u].id # a
  BY <1>1 DEF free, unused
<1> HIDE DEF c
<1>5. content' = [content EXCEPT ![a] = c]
  BY <1>1 DEF c
<1>6. pool' \subseteq pool \ {a}
  BY <1>4
<1>7. Leaves[f] <= Len(c)
  BY <1>2, <1>3
<1> QED BY <1>1, <1>3, <1>4, <1>5, <1>6, <1>7, ReceivedKeepsIInv

\* Deserialize, and its variants without an allocator.
LEMMA DeserializeKeepsIInv ==
  ASSUME IInv, NEW s \in Subtrees, NEW f \in Streams, NEW fields \in 0 .. total(f),
         DeserializeFromReader(s, f, fields)
  PROVE  IInv'
<1>1. CASE fields >= 1 /\ makeNodes(s, f, fields) /\ UNCHANGED pool
  <2>1. fields \in 1 .. total(f)
    BY <1>1, TotalFacts
  <2> QED BY <1>1, <2>1, MakeNodesKeepsIInv DEF DeserializeFromReader
<1>2. CASE /\ st' = [st EXCEPT ![s].header = NULL]
           /\ whole' = [whole EXCEPT ![s] = NULL]
           /\ UNCHANGED <<job, heap, system>>
  <2> DEFINE r == [st[s] EXCEPT !.header = NULL]
  <2>1. Types /\ job[s] = NULL
    BY DEF IInv, DeserializeFromReader
  <2>2. st[s] \in SubtreeRecords
    BY <2>1, RecordFacts
  <2>3. /\ r \in SubtreeRecords
        /\ r.Nodes = st[s].Nodes /\ r.closer = st[s].closer
    BY <2>2 DEF SubtreeRecords
  <2>4. st' = [st EXCEPT ![s] = r]
    BY <1>2, <2>1 DEF Types
  <2> HIDE DEF r
  <2>5. /\ st' \in [Subtrees -> SubtreeRecords]
        /\ st'[s] = r
        /\ \A u \in Subtrees \ {s} : st'[u] = st[u]
    BY <2>1, <2>3, <2>4, ObjectUpdate
  <2>6. /\ whole' \in [Subtrees -> Streams \cup {NULL}]
        /\ whole'[s] = NULL
        /\ \A u \in Subtrees \ {s} : whole'[u] = whole[u]
    BY <1>2, <2>1, WholeUpdate
  <2>7. /\ job' = job /\ content' = content /\ mapped' = mapped
        /\ pool' = pool /\ released' = released
        /\ files' = files /\ fds' = fds /\ maps' = maps /\ closed' = closed
    BY <1>2 DEF heap, system
  <2>8. Types'
    BY <2>1, <2>5, <2>6, <2>7 DEF Types
  <2>9. JobsOrderly'
    BY <2>1, <2>5, <2>7 DEF IInv, JobsOrderly
  <2>14. JobsExclusive'
    BY <2>3, <2>5, <2>7 DEF IInv, JobsExclusive
  <2>10. StoresExclusive' /\ NothingLeaked'
    BY <2>3, <2>5, <2>7 DEF IInv, StoresExclusive, NothingLeaked
  <2>11. MappedHeldByOwner' /\ WholeHasNodes'
    BY <2>3, <2>5, <2>6, <2>7 DEF IInv, MappedHeldByOwner, WholeHasNodes
  <2>12. ArraysExclusive'
    BY <2>3, <2>5, <2>7 DEF IInv, ArraysExclusive
  <2>13. GoodReadIsWhole'
    BY <2>5, <2>6, <2>7 DEF IInv, GoodReadIsWhole
  <2> QED BY <2>8, <2>9, <2>10, <2>11, <2>12, <2>13, <2>14 DEF IInv
<1> QED BY <1>1, <1>2 DEF DeserializeFromReader

\* Reading with an allocator: the pool's array leaves the pool, and no object
\* held it while it was there.
LEMMA AllocatorKeepsIInv ==
  ASSUME IInv, NEW s \in Subtrees, NEW f \in Streams, NEW fields \in 0 .. total(f),
         DeserializeFromReaderWithAllocator(s, f, fields)
  PROVE  IInv'
<1>1. fields \in 1 .. total(f) /\ fields \in Nat /\ job[s] = NULL /\ Types
  BY TotalFacts DEF DeserializeFromReaderWithAllocator, IInv
<1>2. PICK a \in pool :
       /\ pool' = pool \ {a}
       /\ \/ /\ Len(content[a]) >= Leaves[f]
             /\ a \in mapped => a \in maps
             /\ content' = [content EXCEPT ![a] = nodesRead(@, f, fields)]
             /\ received(s, f, fields, a)
             /\ UNCHANGED mapped
          \/ Len(content[a]) < Leaves[f] /\ makeNodes(s, f, fields)
  BY DEF DeserializeFromReaderWithAllocator
<1>3. CASE makeNodes(s, f, fields)
  BY <1>1, <1>2, <1>3, MakeNodesKeepsIInv
<1>4. CASE /\ Len(content[a]) >= Leaves[f]
           /\ content' = [content EXCEPT ![a] = nodesRead(@, f, fields)]
           /\ received(s, f, fields, a)
           /\ UNCHANGED mapped
  <2> DEFINE c == nodesRead(content[a], f, fields)
  <2>1. a \in Arrays /\ content[a] \in Seq(Streams \cup {NULL}) /\ a # NULL
    BY <1>1, <1>2, SubtreeReaderAssumption DEF Types
  <2>2. Leaves[f] \in Nat /\ Len(content[a]) \in Nat
    BY <2>1, TotalFacts
  <2>3. /\ c \in Seq(Streams \cup {NULL})
        /\ Len(c) = Len(content[a])
        /\ \A i \in 1 .. Len(content[a]) :
             i <= Leaves[f] /\ i <= fields - 1 => c[i] = f
    BY <1>1, <2>1, NodesReadFacts
  <2>4. content' = [content EXCEPT ![a] = c]
    BY <1>4
  <2> HIDE DEF c
  <2>5. Leaves[f] <= Len(c) /\ \A i \in 1 .. Leaves[f] : i <= fields - 1 => c[i] = f
    BY <1>1, <1>4, <2>2, <2>3
  <2>6. \A u \in Subtrees : st[u].Nodes # a
    BY <1>2, <2>1 DEF IInv, ArraysExclusive
  <2>7. \A u \in Subtrees : job[u] # NULL => job[u].id # a
    BY <1>2, <2>1 DEF IInv, JobsExclusive
  <2>8. mapped' \subseteq mapped /\ (a \in mapped' => a \in released)
    BY <1>2, <1>4 DEF IInv, MappedHeldByOwner
  <2> QED BY <1>1, <1>2, <1>4, <2>1, <2>3, <2>4, <2>5, <2>6, <2>7, <2>8, ReceivedKeepsIInv
<1> QED BY <1>2, <1>3, <1>4

\* ReleaseNodes: the array is in the pool and no longer in the object.
LEMMA ReleaseNodesKeepsIInv ==
  ASSUME IInv, NEW s \in Subtrees, ReleaseNodes(s)
  PROVE  IInv'
<1> DEFINE r == [st[s] EXCEPT !.Nodes = NULL, !.len = 0]
<1>1. Types
  BY DEF IInv
<1>2. st[s] \in SubtreeRecords
  BY <1>1, RecordFacts
<1>3. r \in SubtreeRecords /\ r.Nodes = NULL /\ r.closer = st[s].closer
  BY <1>2 DEF SubtreeRecords
<1>4. st' = [st EXCEPT ![s] = r]
  BY <1>1 DEF ReleaseNodes, Types
<1> HIDE DEF r
<1>5. /\ st' \in [Subtrees -> SubtreeRecords]
      /\ st'[s] = r
      /\ \A u \in Subtrees \ {s} : st'[u] = st[u]
  BY <1>1, <1>3, <1>4, ObjectUpdate
<1>6. /\ whole' \in [Subtrees -> Streams \cup {NULL}]
      /\ whole'[s] = NULL
      /\ \A u \in Subtrees \ {s} : whole'[u] = whole[u]
  BY <1>1, WholeUpdate DEF ReleaseNodes
<1>7. /\ job[s] = NULL
      /\ st[s].Nodes \in Arrays
      /\ pool' = pool \cup {st[s].Nodes}
      /\ released' = released \cup ({st[s].Nodes} \cap mapped)
      /\ job' = job /\ content' = content /\ mapped' = mapped
      /\ files' = files /\ fds' = fds /\ maps' = maps /\ closed' = closed
  BY <1>1, RecordFacts DEF ReleaseNodes, system
<1>8. Types'
  BY <1>1, <1>5, <1>6, <1>7 DEF Types
<1>9. JobsOrderly'
  BY <1>5, <1>7 DEF IInv, JobsOrderly
<1>14. JobsExclusive'
  BY <1>3, <1>5, <1>7 DEF IInv, JobsExclusive
<1>10. StoresExclusive' /\ NothingLeaked'
  BY <1>3, <1>5, <1>7 DEF IInv, StoresExclusive, NothingLeaked
<1>11. MappedHeldByOwner' /\ WholeHasNodes'
  BY <1>1, <1>3, <1>5, <1>6, <1>7, SubtreeReaderAssumption
     DEF IInv, MappedHeldByOwner, WholeHasNodes, Types
<1>12. ArraysExclusive'
  BY <1>3, <1>5, <1>7 DEF IInv, ArraysExclusive
<1>13. GoodReadIsWhole'
  BY <1>5, <1>6, <1>7 DEF IInv, GoodReadIsWhole
<1> QED BY <1>8, <1>9, <1>10, <1>11, <1>12, <1>13, <1>14 DEF IInv

-----------------------------------------------------------------------------
(* Mapped arrays.                                                          *)

\* While a creation is under way its object has no array and nothing was read.
LEMMA JobFacts ==
  ASSUME IInv, NEW s \in Subtrees, job[s] # NULL
  PROVE  /\ job[s] \in Jobs
         /\ job[s].id \in Arrays \cup {NULL}
         /\ job[s].src \in Streams \cup {NULL}
         /\ st[s].Nodes = NULL
         /\ st[s].closer # NULL => st[s].closer = job[s].id
         /\ whole[s] = NULL
<1>1. job[s] \in Jobs
  BY DEF IInv, Types
<1>2. /\ job[s].stage \in {"create", "truncate", "map", "fill"}
      /\ job[s].id \in Arrays \cup {NULL}
      /\ job[s].src \in Streams \cup {NULL}
  BY <1>1 DEF Jobs
<1>3. st[s].Nodes = NULL /\ (st[s].closer # NULL => st[s].closer = job[s].id)
  BY <1>2, ZeroFacts DEF IInv, JobsOrderly, zeroSubtree
<1>4. whole[s] = NULL
  BY <1>3 DEF IInv, WholeHasNodes
<1> QED BY <1>1, <1>2, <1>3, <1>4

\* A creation under way is not disturbed by a step that leaves its object and
\* its file alone.
LEMMA OrderlyKept ==
  ASSUME IInv, NEW u \in Subtrees, job[u] # NULL, job'[u] = job[u], st'[u] = st[u],
         job[u].id \in Arrays =>
           /\ job[u].id \in maps' <=> job[u].id \in maps
           /\ job[u].id \in closed' => job[u].id \in closed
           /\ job[u].id \in fds' => job[u].id \in fds
           /\ content'[job[u].id] = content[job[u].id]
  PROVE  JobsOrderly!(u)!2'
<1>1. job[u].stage \in {"create", "truncate", "map", "fill"}
  BY JobFacts DEF Jobs
<1>2. CASE job[u].stage = "create"
  BY <1>2 DEF IInv, JobsOrderly
<1>3. CASE job[u].stage \in {"truncate", "map"}
  BY <1>3 DEF IInv, JobsOrderly
<1>4. CASE job[u].stage = "fill"
  <2>1. job[u].id \in Arrays
    BY <1>4 DEF IInv, JobsOrderly, Types
  <2> QED BY <1>4, <2>1 DEF IInv, JobsOrderly
<1> QED BY <1>1, <1>2, <1>3, <1>4

\* A creation that fails, at whichever system call: its file, descriptor and
\* mapping are gone, and so is the object.
LEMMA GiveUpKeepsIInv ==
  ASSUME IInv, NEW s \in Subtrees, job[s] # NULL, giveUp(s),
         UNCHANGED <<whole, mapped, pool, released>>,
         files' = files \ {job[s].id},
         fds' = fds \ {job[s].id},
         maps' = maps \ {job[s].id},
         closed \subseteq closed', closed' \subseteq closed \cup {job[s].id},
         closed' \subseteq Arrays,
         content' \in [Arrays -> Seq(Streams \cup {NULL})],
         \A a \in Arrays : a # job[s].id => content'[a] = content[a]
  PROVE  IInv'
<1>1. Types
  BY DEF IInv
<1>2. /\ st' \in [Subtrees -> SubtreeRecords]
      /\ st'[s] = zeroSubtree
      /\ \A u \in Subtrees \ {s} : st'[u] = st[u]
  BY <1>1, ZeroFacts, ObjectUpdate DEF giveUp
<1>3. /\ job' \in [Subtrees -> Jobs \cup {NULL}]
      /\ job'[s] = NULL
      /\ \A u \in Subtrees \ {s} : job'[u] = job[u]
  BY <1>1, JobUpdate DEF giveUp
<1>4. /\ job[s].id \in Arrays \cup {NULL}
      /\ whole[s] = NULL
  BY JobFacts
<1>5. NULL \notin Arrays
  BY SubtreeReaderAssumption
<1>6. \A u \in Subtrees \ {s} : job[u] # NULL /\ job[u].id # NULL => job[u].id # job[s].id
  BY DEF IInv, JobsExclusive
<1>7. \A u \in Subtrees \ {s} :
        /\ st[u].Nodes \in Arrays => st[u].Nodes # job[s].id
        /\ st[u].closer \in Arrays => st[u].closer # job[s].id
  BY <1>5 DEF IInv, JobsExclusive
<1>8. Types'
  BY <1>1, <1>2, <1>3 DEF Types
<1>9. JobsOrderly'
  <2> SUFFICES ASSUME NEW u \in Subtrees, job'[u] # NULL
               PROVE  JobsOrderly!(u)!2'
    BY DEF JobsOrderly
  <2>1. u # s /\ job'[u] = job[u] /\ st'[u] = st[u]
    BY <1>2, <1>3
  <2>2. job[u].id \in Arrays => job[u].id # job[s].id
    BY <1>5, <1>6, <2>1
  <2> QED BY <2>1, <2>2, OrderlyKept
<1>10. JobsExclusive'
  BY <1>2, <1>3, <1>5, ZeroFacts DEF IInv, JobsExclusive
<1>11. StoresExclusive'
  <2> SUFFICES ASSUME NEW u \in Subtrees, st'[u].closer # NULL
               PROVE  StoresExclusive!(u)!2'
    BY DEF StoresExclusive
  <2>1. u # s /\ st'[u] = st[u] /\ st[u].closer \in Arrays
    BY <1>1, <1>2, ZeroFacts, RecordFacts
  <2> QED BY <1>2, <1>7, <2>1, ZeroFacts DEF IInv, StoresExclusive
<1>12. MappedHeldByOwner'
  <2> SUFFICES ASSUME NEW u \in Subtrees, st'[u].Nodes \in mapped \ released
               PROVE  MappedHeldByOwner!2!(u)!2'
    BY DEF IInv, MappedHeldByOwner
  <2>1. u # s /\ st'[u] = st[u] /\ st[u].Nodes \in Arrays
    BY <1>1, <1>2, <1>5, ZeroFacts DEF Types
  <2> QED BY <1>7, <2>1 DEF IInv, MappedHeldByOwner
<1>13. WholeHasNodes' /\ ArraysExclusive'
  BY <1>2, <1>4, ZeroFacts DEF IInv, WholeHasNodes, ArraysExclusive
<1>14. NothingLeaked'
  BY <1>2, <1>3 DEF IInv, NothingLeaked
<1>15. GoodReadIsWhole'
  <2> SUFFICES ASSUME NEW u \in Subtrees, whole[u] # NULL
               PROVE  GoodReadIsWhole!(u)!2'
    BY DEF GoodReadIsWhole
  <2>1. u # s /\ st'[u] = st[u]
    BY <1>2, <1>4
  <2>2. st[u].Nodes \in Arrays
    BY <1>1, RecordFacts DEF IInv, WholeHasNodes
  <2>3. content'[st[u].Nodes] = content[st[u].Nodes]
    BY <1>7, <2>1, <2>2
  <2> QED BY <2>1, <2>3 DEF IInv, GoodReadIsWhole
<1> QED BY <1>8, <1>9, <1>10, <1>11, <1>12, <1>13, <1>14, <1>15 DEF IInv

\* A creation that begins: the object is new.
LEMMA BeginKeepsIInv ==
  ASSUME IInv, NEW s \in Subtrees, NEW f \in Streams \cup {NULL}, begin(s, f)
  PROVE  IInv'
<1> DEFINE j == [stage |-> "create", src |-> f, id |-> NULL]
<1>1. Types
  BY DEF IInv
<1>2. j \in Jobs /\ j.stage = "create" /\ j.id = NULL
  BY DEF Jobs
<1>3. job' = [job EXCEPT ![s] = j] /\ st[s] = zeroSubtree
  BY DEF begin
<1> HIDE DEF j
<1>4. /\ job' \in [Subtrees -> Jobs \cup {NULL}]
      /\ job'[s] = j
      /\ \A u \in Subtrees \ {s} : job'[u] = job[u]
  BY <1>1, <1>2, <1>3, JobUpdate
<1>5. UNCHANGED <<st, whole, content, mapped, pool, released, files, fds, maps, closed>>
  BY DEF begin, heap, system
<1>6. Types'
  BY <1>1, <1>4, <1>5 DEF Types
<1>7. JobsOrderly'
  BY <1>2, <1>3, <1>4, <1>5 DEF IInv, JobsOrderly
<1>8. JobsExclusive'
  BY <1>2, <1>4, <1>5 DEF IInv, JobsExclusive
<1>9. NothingLeaked'
  <2> SUFFICES ASSUME NEW a \in files \cup fds \cup maps
               PROVE  NothingLeaked!(a)'
    BY <1>5 DEF NothingLeaked
  <2>1. PICK u \in Subtrees :
          \/ job[u] # NULL /\ job[u].id = a
          \/ job[u] = NULL /\ a \notin fds /\ st[u].closer = a /\ a \notin closed
    BY DEF IInv, NothingLeaked
  <2>2. a # NULL
    BY <1>1, SubtreeReaderAssumption DEF Types
  <2>3. u # s
    BY <1>3, <2>1, <2>2, ZeroFacts DEF begin
  <2> QED BY <1>4, <1>5, <2>1, <2>3
<1>10. StoresExclusive' /\ MappedHeldByOwner' /\ WholeHasNodes' /\ ArraysExclusive'
  BY <1>5 DEF IInv, StoresExclusive, MappedHeldByOwner, WholeHasNodes, ArraysExclusive
<1>11. GoodReadIsWhole'
  BY <1>5 DEF IInv, GoodReadIsWhole
<1> QED BY <1>6, <1>7, <1>8, <1>9, <1>10, <1>11 DEF IInv

\* os.CreateTemp: the new file is nobody's.
LEMMA CreateTempKeepsIInv ==
  ASSUME IInv, NEW s \in Subtrees, CreateTemp(s)
  PROVE  IInv'
<1>1. /\ Types /\ job[s] # NULL /\ job[s] \in Jobs
      /\ job[s].stage = "create" /\ st[s] = zeroSubtree /\ job[s].id = NULL
      /\ NULL \notin Arrays
  BY JobFacts, SubtreeReaderAssumption DEF IInv, JobsOrderly, CreateTemp
<1>2. UNCHANGED <<whole, content, mapped, pool, released, maps>>
  BY DEF CreateTemp, heap
<1>3. CASE giveUp(s) /\ UNCHANGED <<files, fds, closed>>
  <2>1. /\ files' = files \ {job[s].id} /\ fds' = fds \ {job[s].id}
        /\ maps' = maps \ {job[s].id}
    BY <1>1, <1>2, <1>3 DEF Types
  <2> QED BY <1>1, <1>2, <1>3, <2>1, GiveUpKeepsIInv DEF Types
<1>4. ASSUME NEW a \in Arrays, free(a),
             files' = files \cup {a}, fds' = fds \cup {a}, closed' = closed \ {a},
             job' = [job EXCEPT ![s].stage = "truncate", ![s].id = a],
             UNCHANGED st
      PROVE  IInv'
  <2> DEFINE j == [job[s] EXCEPT !.stage = "truncate", !.id = a]
  <2>1. j \in Jobs /\ j.stage = "truncate" /\ j.id = a
    BY <1>1 DEF Jobs
  <2>2. job' = [job EXCEPT ![s] = j]
    BY <1>1, <1>4 DEF Types
  <2>3. /\ a \notin pool /\ a \notin maps /\ a \notin files /\ a \notin fds
        /\ \A u \in Subtrees : st[u].Nodes # a /\ st[u].closer # a
        /\ \A u \in Subtrees : job[u] # NULL => job[u].id # a
    BY <1>4 DEF free, unused
  <2> HIDE DEF j
  <2>4. /\ job' \in [Subtrees -> Jobs \cup {NULL}]
        /\ job'[s] = j /\ j # NULL
        /\ \A u \in Subtrees \ {s} : job'[u] = job[u]
    BY <1>1, <2>1, <2>2, JobUpdate, SubtreeReaderAssumption
  <2>5. Types'
    BY <1>1, <1>2, <1>4, <2>4 DEF Types
  <2>6. JobsOrderly'
    <3> SUFFICES ASSUME NEW u \in Subtrees, job'[u] # NULL
                 PROVE  JobsOrderly!(u)!2'
      BY DEF JobsOrderly
    <3>1. CASE u = s
      BY <1>1, <1>2, <1>4, <2>1, <2>3, <2>4, <3>1
    <3>2. CASE u # s
      <4>1. job'[u] = job[u] /\ job[u].id # a
        BY <2>3, <2>4, <3>2
      <4> QED BY <1>2, <1>4, <4>1, OrderlyKept
    <3> QED BY <3>1, <3>2
  <2>7. JobsExclusive'
    <3> SUFFICES ASSUME NEW u \in Subtrees, job'[u] # NULL, job'[u].id # NULL
                 PROVE  JobsExclusive!(u)!2'
      BY DEF JobsExclusive
    <3>1. CASE u = s
      BY <1>2, <1>4, <2>1, <2>3, <2>4, <3>1
    <3>2. CASE u # s
      <4>1. job'[u] = job[u] /\ job[u].id # a
        BY <2>3, <2>4, <3>2
      <4> QED BY <1>2, <1>4, <2>1, <2>4, <4>1 DEF IInv, JobsExclusive
    <3> QED BY <3>1, <3>2
  <2>8. StoresExclusive'
    BY <1>2, <1>4, <2>3 DEF IInv, StoresExclusive
  <2>9. MappedHeldByOwner' /\ WholeHasNodes' /\ ArraysExclusive'
    BY <1>2, <1>4 DEF IInv, MappedHeldByOwner, WholeHasNodes, ArraysExclusive
  <2>10. NothingLeaked'
    <3> SUFFICES ASSUME NEW b \in files' \cup fds' \cup maps'
                 PROVE  NothingLeaked!(b)'
      BY DEF NothingLeaked
    <3>1. CASE b = a
      BY <2>1, <2>4, <3>1
    <3>2. CASE b # a
      <4>1. b \in files \cup fds \cup maps
        BY <1>2, <1>4, <3>2
      <4>2. PICK u \in Subtrees :
              \/ job[u] # NULL /\ job[u].id = b
              \/ job[u] = NULL /\ b \notin fds /\ st[u].closer = b /\ b \notin closed
        BY <4>1 DEF IInv, NothingLeaked
      <4>3. u # s
        BY <1>1, <4>1, <4>2 DEF Types
      <4> QED BY <1>4, <2>4, <3>2, <4>2, <4>3
    <3> QED BY <3>1, <3>2
  <2>11. GoodReadIsWhole'
    BY <1>2, <1>4 DEF IInv, GoodReadIsWhole
  <2> QED BY <2>5, <2>6, <2>7, <2>8, <2>9, <2>10, <2>11 DEF IInv
<1> QED BY <1>3, <1>4 DEF CreateTemp

\* f.Truncate
LEMMA TruncateKeepsIInv ==
  ASSUME IInv, NEW s \in Subtrees, Truncate(s)
  PROVE  IInv'
<1>1. /\ Types /\ job[s] # NULL /\ job[s] \in Jobs
      /\ job[s].stage = "truncate" /\ st[s] = zeroSubtree
      /\ job[s].id \in Arrays \ (maps \cup closed)
  BY JobFacts DEF IInv, JobsOrderly, Truncate
<1>2. UNCHANGED <<whole, content, mapped, pool, released, maps, closed>>
  BY DEF Truncate, heap
<1>3. CASE abandon(s)
  <2>1. giveUp(s) /\ files' = files \ {job[s].id} /\ fds' = fds \ {job[s].id}
    BY <1>3 DEF abandon
  <2>2. maps' = maps \ {job[s].id}
    BY <1>1, <1>2
  <2> QED BY <1>1, <1>2, <2>1, <2>2, GiveUpKeepsIInv DEF Types
<1>4. CASE advance(s, "map") /\ UNCHANGED <<st, files, fds>>
  <2> DEFINE j == [job[s] EXCEPT !.stage = "map"]
  <2>1. j \in Jobs /\ j.stage = "map" /\ j.id = job[s].id
    BY <1>1 DEF Jobs
  <2>2. job' = [job EXCEPT ![s] = j]
    BY <1>1, <1>4 DEF advance, Types
  <2> HIDE DEF j
  <2>3. /\ job' \in [Subtrees -> Jobs \cup {NULL}]
        /\ job'[s] = j /\ j # NULL
        /\ \A u \in Subtrees \ {s} : job'[u] = job[u]
    BY <1>1, <2>1, <2>2, JobUpdate, SubtreeReaderAssumption
  <2>4. Types'
    BY <1>1, <1>2, <1>4, <2>3 DEF Types
  <2>5. JobsOrderly'
    BY <1>1, <1>2, <1>4, <2>1, <2>3 DEF IInv, JobsOrderly
  <2>6. JobsExclusive'
    BY <1>1, <1>2, <1>4, <2>1, <2>3 DEF IInv, JobsExclusive
  <2>7. StoresExclusive' /\ MappedHeldByOwner' /\ WholeHasNodes' /\ ArraysExclusive'
    BY <1>2, <1>4 DEF IInv, StoresExclusive, MappedHeldByOwner, WholeHasNodes, ArraysExclusive
  <2>8. NothingLeaked'
    BY <1>1, <1>2, <1>4, <2>1, <2>3 DEF IInv, NothingLeaked
  <2>9. GoodReadIsWhole'
    BY <1>2, <1>4 DEF IInv, GoodReadIsWhole
  <2> QED BY <2>4, <2>5, <2>6, <2>7, <2>8, <2>9 DEF IInv
<1> QED BY <1>3, <1>4 DEF Truncate

\* The file is mapped: it becomes the store, and for a new tree the nodes, of
\* the object it was created for.
LEMMA MappedKeepsIInv ==
  ASSUME IInv, NEW s \in Subtrees, job[s] # NULL, job[s].stage = "map",
         NEW a, a = job[s].id,
         NEW r \in SubtreeRecords, NEW j \in Jobs \cup {NULL},
         NEW c \in Seq(Streams \cup {NULL}),
         st' = [st EXCEPT ![s] = r], job' = [job EXCEPT ![s] = j],
         r.closer = a, r.Nodes \in {a, NULL},
         j # NULL => /\ j.stage = "fill" /\ j.id = a /\ j.src # NULL
                     /\ r = [zeroSubtree EXCEPT !.header = j.src, !.closer = a]
                     /\ Len(c) = Leaves[j.src],
         content' = [content EXCEPT ![a] = c],
         mapped' = mapped \cup {a}, maps' = maps \cup {a}, fds' = fds \ {a},
         released' = released \ {a}, UNCHANGED <<files, whole, pool, closed>>
  PROVE  IInv'
<1>1. Types
  BY DEF IInv
<1>2. /\ a \in Arrays /\ a \notin maps /\ a \notin closed
      /\ NULL \notin Arrays
      /\ whole[s] = NULL
  BY JobFacts, SubtreeReaderAssumption DEF IInv, JobsOrderly
<1>3. /\ st' \in [Subtrees -> SubtreeRecords]
      /\ st'[s] = r
      /\ \A u \in Subtrees \ {s} : st'[u] = st[u]
  BY <1>1, ObjectUpdate
<1>4. /\ job' \in [Subtrees -> Jobs \cup {NULL}]
      /\ job'[s] = j
      /\ \A u \in Subtrees \ {s} : job'[u] = job[u]
  BY <1>1, JobUpdate
<1>5. /\ a \notin pool
      /\ \A u \in Subtrees \ {s} :
           /\ st[u].Nodes # a /\ st[u].closer # a
           /\ job[u] # NULL => job[u].id # a
  BY <1>2 DEF IInv, JobsExclusive
<1>6. /\ content' \in [Arrays -> Seq(Streams \cup {NULL})]
      /\ content'[a] = c
      /\ \A b \in Arrays \ {a} : content'[b] = content[b]
  BY <1>1, <1>2 DEF Types
<1>7. Types'
  BY <1>1, <1>2, <1>3, <1>4, <1>6 DEF Types
<1>8. JobsOrderly'
  <2> SUFFICES ASSUME NEW u \in Subtrees, job'[u] # NULL
               PROVE  JobsOrderly!(u)!2'
    BY DEF JobsOrderly
  <2>1. CASE u = s
    <3>1. /\ job'[u] = j /\ st'[u] = r /\ j # NULL
          /\ a \in maps' \ (fds' \cup closed')
      BY <1>2, <1>3, <1>4, <2>1
    <3> QED BY <1>6, <3>1
  <2>2. CASE u # s
    <3>1. job'[u] = job[u] /\ st'[u] = st[u] /\ job[u].id # a
      BY <1>3, <1>4, <1>5, <2>2
    <3> QED BY <1>6, <3>1, OrderlyKept
  <2> QED BY <2>1, <2>2
<1>9. JobsExclusive'
  <2> SUFFICES ASSUME NEW u \in Subtrees, job'[u] # NULL, job'[u].id # NULL
               PROVE  JobsExclusive!(u)!2'
    BY DEF JobsExclusive
  <2>1. CASE u = s
    BY <1>3, <1>4, <1>5, <2>1
  <2>2. CASE u # s
    <3>1. job'[u] = job[u] /\ job[u].id # a
      BY <1>4, <1>5, <2>2
    <3> QED BY <1>3, <1>4, <2>2, <3>1 DEF IInv, JobsExclusive
  <2> QED BY <2>1, <2>2
<1>10. StoresExclusive'
  BY <1>3, <1>5 DEF IInv, StoresExclusive
<1>11. MappedHeldByOwner'
  <2>1. pool' \cap mapped' \subseteq released'
    BY <1>5 DEF IInv, MappedHeldByOwner
  <2>2. ASSUME NEW u \in Subtrees, st'[u].Nodes \in mapped' \ released'
        PROVE  MappedHeldByOwner!2!(u)!2'
    <3>1. CASE u = s
      BY <1>1, <1>2, <1>3, <2>2, <3>1 DEF Types
    <3>2. CASE u # s
      BY <1>3, <1>5, <2>2, <3>2 DEF IInv, MappedHeldByOwner
    <3> QED BY <3>1, <3>2
  <2> QED BY <2>1, <2>2 DEF MappedHeldByOwner
<1>12. WholeHasNodes'
  BY <1>2, <1>3 DEF IInv, WholeHasNodes
<1>13. NothingLeaked'
  <2> SUFFICES ASSUME NEW b \in files' \cup fds' \cup maps'
               PROVE  NothingLeaked!(b)'
    BY DEF NothingLeaked
  <2>1. CASE b = a
    BY <1>2, <1>3, <1>4, <2>1
  <2>2. CASE b # a
    <3>1. PICK u \in Subtrees :
            \/ job[u] # NULL /\ job[u].id = b
            \/ job[u] = NULL /\ b \notin fds /\ st[u].closer = b /\ b \notin closed
      BY <2>2 DEF IInv, NothingLeaked
    <3>2. u # s
      BY <2>2, <3>1
    <3> QED BY <1>3, <1>4, <3>1, <3>2
  <2> QED BY <2>1, <2>2
<1>14. ArraysExclusive'
  BY <1>3, <1>5 DEF IInv, ArraysExclusive
<1>15. GoodReadIsWhole'
  <2> SUFFICES ASSUME NEW u \in Subtrees, whole[u] # NULL
               PROVE  GoodReadIsWhole!(u)!2'
    BY DEF GoodReadIsWhole
  <2>1. u # s /\ st'[u] = st[u]
    BY <1>2, <1>3
  <2>2. st[u].Nodes \in Arrays \ {a}
    BY <1>1, <1>5, <2>1, RecordFacts DEF IInv, WholeHasNodes
  <2> QED BY <1>6, <2>1, <2>2 DEF IInv, GoodReadIsWhole
<1> QED BY <1>7, <1>8, <1>9, <1>10, <1>11, <1>12, <1>13, <1>14, <1>15 DEF IInv

\* syscall.Mmap
LEMMA MmapKeepsIInv ==
  ASSUME IInv, NEW s \in Subtrees, Mmap(s)
  PROVE  IInv'
<1> DEFINE a == job[s].id
           f == job[s].src
           c == unwritten(IF f = NULL THEN TreeSize ELSE Leaves[f])
<1>1. /\ Types /\ job[s] # NULL /\ job[s] \in Jobs
      /\ job[s].stage = "map" /\ st[s] = zeroSubtree
      /\ a \in Arrays \ (maps \cup closed) /\ f \in Streams \cup {NULL}
      /\ NULL \notin Streams
  BY JobFacts, SubtreeReaderAssumption DEF IInv, JobsOrderly, Mmap
<1>2. UNCHANGED <<whole, pool, closed>>
  BY DEF Mmap
<1>3. CASE abandon(s) /\ UNCHANGED <<content, mapped, released, maps>>
  <2>1. giveUp(s) /\ files' = files \ {a} /\ fds' = fds \ {a}
    BY <1>3 DEF abandon
  <2>2. maps' = maps \ {a}
    BY <1>1, <1>3
  <2> QED BY <1>1, <1>2, <1>3, <2>1, <2>2, GiveUpKeepsIInv DEF Types
<1>4. CASE /\ mmapFile(a)
           /\ fds' = fds \ {a}
           /\ released' = released \ {a}
           /\ content' = [content EXCEPT ![a] = c]
           /\ \/ /\ f = NULL
                 /\ st' = [st EXCEPT ![s].Nodes = a, ![s].closer = a]
                 /\ job' = [job EXCEPT ![s] = NULL]
              \/ /\ f # NULL
                 /\ st' = [st EXCEPT ![s].header = f, ![s].closer = a]
                 /\ advance(s, "fill")
           /\ UNCHANGED files
  <2>1. mapped' = mapped \cup {a} /\ maps' = maps \cup {a}
    BY <1>4 DEF mmapFile
  <2>2. /\ c \in Seq(Streams \cup {NULL})
        /\ f # NULL => Len(c) = Leaves[f]
    BY <1>1, UnwrittenFacts, SubtreeReaderAssumption
  <2> HIDE DEF c
  <2>3. CASE /\ f = NULL
             /\ st' = [st EXCEPT ![s].Nodes = a, ![s].closer = a]
             /\ job' = [job EXCEPT ![s] = NULL]
    <3> DEFINE r == [zeroSubtree EXCEPT !.Nodes = a, !.closer = a]
    <3>1. r \in SubtreeRecords /\ r.closer = a /\ r.Nodes = a
      BY <1>1 DEF zeroSubtree, SubtreeRecords
    <3>2. st' = [st EXCEPT ![s] = r]
      BY <1>1, <2>3 DEF Types
    <3> HIDE DEF r
    <3> QED BY <1>1, <1>2, <1>4, <2>1, <2>2, <2>3, <3>1, <3>2, MappedKeepsIInv
  <2>4. CASE /\ f # NULL
             /\ st' = [st EXCEPT ![s].header = f, ![s].closer = a]
             /\ advance(s, "fill")
    <3> DEFINE r == [zeroSubtree EXCEPT !.header = f, !.closer = a]
               j == [job[s] EXCEPT !.stage = "fill"]
    <3>1. r \in SubtreeRecords /\ r.closer = a /\ r.Nodes = NULL
      BY <1>1 DEF zeroSubtree, SubtreeRecords
    <3>2. st' = [st EXCEPT ![s] = r]
      BY <1>1, <2>4 DEF Types
    <3>3. j \in Jobs /\ j.stage = "fill" /\ j.id = a /\ j.src = f
      BY <1>1 DEF Jobs
    <3>4. job' = [job EXCEPT ![s] = j]
      BY <1>1, <2>4 DEF advance, Types
    <3>5. r = [zeroSubtree EXCEPT !.header = j.src, !.closer = a]
      BY <3>3
    <3> HIDE DEF r, j
    <3> QED BY <1>1, <1>2, <1>4, <2>1, <2>2, <2>4, <3>1, <3>2, <3>3, <3>4, <3>5, MappedKeepsIInv
  <2> QED BY <1>4, <2>3, <2>4
<1> QED BY <1>3, <1>4 DEF Mmap

\* A stream read to its end into the mapped array; one that ends early has the
\* store closed.
LEMMA FillKeepsIInv ==
  ASSUME IInv, NEW s \in Subtrees, NEW f \in Streams, NEW fields \in 1 .. total(f),
         Fill(s, f, fields)
  PROVE  IInv'
<1> DEFINE a == job[s].id
           c == nodesRead(content[a], f, fields)
<1>1. /\ Types /\ job[s] # NULL /\ job[s].stage = "fill" /\ job[s].src = f
      /\ NULL \notin Streams \cup Arrays
  BY SubtreeReaderAssumption DEF IInv, Fill
<1>2. /\ st[s] = [zeroSubtree EXCEPT !.header = f, !.closer = a]
      /\ a \in maps /\ a \notin fds /\ a \notin closed
      /\ Len(content[a]) = Leaves[f]
  BY <1>1 DEF IInv, JobsOrderly
<1>3. a \in Arrays /\ content[a] \in Seq(Streams \cup {NULL})
  BY <1>1, <1>2 DEF Types
<1>4. Leaves[f] \in Nat /\ total(f) \in Nat /\ total(f) >= 2 + Leaves[f] /\ fields \in Nat
  BY TotalFacts
<1>5. /\ c \in Seq(Streams \cup {NULL})
      /\ \A i \in 1 .. Leaves[f] :
           i <= Leaves[f] /\ i <= fields - 1 => c[i] = f
  BY <1>2, <1>3, <1>4, NodesReadFacts
<1>6. content' = [content EXCEPT ![a] = c] /\ UNCHANGED <<mapped, pool, released>>
  BY DEF Fill
<1> HIDE DEF c
<1>7. /\ content' \in [Arrays -> Seq(Streams \cup {NULL})]
      /\ content'[a] = c
      /\ \A b \in Arrays \ {a} : content'[b] = content[b]
  BY <1>1, <1>3, <1>5, <1>6 DEF Types
<1>8. CASE fields < total(f) /\ closeStore(a) /\ giveUp(s) /\ UNCHANGED whole
  <2>1. /\ closed' = closed \cup {a} /\ maps' = maps \ {a} /\ files' = files \ {a}
        /\ fds' = fds \ {a}
    BY <1>2, <1>8 DEF closeStore, munmap
  <2>2. closed' \subseteq Arrays
    BY <1>1, <1>3, <2>1 DEF Types
  <2> QED BY <1>1, <1>6, <1>7, <1>8, <2>1, <2>2, GiveUpKeepsIInv
<1>9. CASE /\ fields = total(f)
           /\ st' = [st EXCEPT ![s].Nodes = a, ![s].len = Leaves[f],
                               ![s].ConflictingNodes = conflictsRead(@, f, fields)]
           /\ job' = [job EXCEPT ![s] = NULL]
           /\ whole' = [whole EXCEPT ![s] = f]
           /\ UNCHANGED system
  <2> DEFINE r == [st[s] EXCEPT !.Nodes = a, !.len = Leaves[f], !.ConflictingNodes = f]
  <2>1. st[s] \in SubtreeRecords /\ st[s].header = f /\ st[s].closer = a
    BY <1>1, <1>2, RecordFacts DEF zeroSubtree
  <2>2. /\ r \in SubtreeRecords
        /\ r.header = f /\ r.Nodes = a /\ r.len = Leaves[f] /\ r.closer = a
        /\ r.ConflictingNodes = f
    BY <1>3, <1>4, <2>1 DEF SubtreeRecords
  <2>3. conflictsRead(st[s].ConflictingNodes, f, fields) = f
    BY <1>4, <1>9 DEF conflictsRead
  <2>4. st' = [st EXCEPT ![s] = r]
    BY <1>1, <1>9, <2>3 DEF Types
  <2> HIDE DEF r
  <2>5. /\ st' \in [Subtrees -> SubtreeRecords]
        /\ st'[s] = r
        /\ \A u \in Subtrees \ {s} : st'[u] = st[u]
    BY <1>1, <2>2, <2>4, ObjectUpdate
  <2>6. /\ job' \in [Subtrees -> Jobs \cup {NULL}]
        /\ job'[s] = NULL
        /\ \A u \in Subtrees \ {s} : job'[u] = job[u]
    BY <1>1, <1>9, JobUpdate
  <2>7. /\ whole' \in [Subtrees -> Streams \cup {NULL}]
        /\ whole'[s] = f
        /\ \A u \in Subtrees \ {s} : whole'[u] = whole[u]
    BY <1>1, <1>9, WholeUpdate
  <2>8. UNCHANGED <<files, fds, maps, closed>>
    BY <1>9 DEF system
  <2>9. /\ a \notin pool
        /\ \A u \in Subtrees \ {s} :
             /\ st[u].Nodes # a /\ st[u].closer # a
             /\ job[u] # NULL => job[u].id # a
    BY <1>1, <1>3 DEF IInv, JobsExclusive
  <2>10. Types'
    BY <1>1, <1>6, <1>7, <2>5, <2>6, <2>7, <2>8 DEF Types
  <2>11. JobsOrderly'
    <3> SUFFICES ASSUME NEW u \in Subtrees, job'[u] # NULL
                 PROVE  JobsOrderly!(u)!2'
      BY DEF JobsOrderly
    <3>1. u # s /\ job'[u] = job[u] /\ st'[u] = st[u] /\ job[u].id # a
      BY <2>5, <2>6, <2>9
    <3> QED BY <1>7, <2>8, <3>1, OrderlyKept
  <2>12. JobsExclusive'
    <3> SUFFICES ASSUME NEW u \in Subtrees, job'[u] # NULL, job'[u].id # NULL
                 PROVE  JobsExclusive!(u)!2'
      BY DEF JobsExclusive
    <3>1. u # s /\ job'[u] = job[u] /\ job[u].id # a
      BY <2>6, <2>9
    <3> QED BY <1>6, <2>2, <2>5, <2>6, <3>1 DEF IInv, JobsExclusive
  <2>13. StoresExclusive'
    BY <1>2, <2>2, <2>5, <2>8, <2>9 DEF IInv, StoresExclusive
  <2>14. MappedHeldByOwner'
    BY <1>2, <1>6, <2>2, <2>5, <2>7, <2>8 DEF IInv, MappedHeldByOwner
  <2>15. WholeHasNodes' /\ ArraysExclusive'
    BY <1>1, <1>3, <1>6, <2>2, <2>5, <2>7, <2>9 DEF IInv, WholeHasNodes, ArraysExclusive
  <2>16. NothingLeaked'
    <3> SUFFICES ASSUME NEW b \in files \cup fds \cup maps
                 PROVE  NothingLeaked!(b)'
      BY <2>8 DEF NothingLeaked
    <3>1. PICK u \in Subtrees :
            \/ job[u] # NULL /\ job[u].id = b
            \/ job[u] = NULL /\ b \notin fds /\ st[u].closer = b /\ b \notin closed
      BY DEF IInv, NothingLeaked
    <3>2. CASE u = s
      BY <1>1, <1>2, <2>2, <2>5, <2>6, <2>8, <3>1, <3>2
    <3>3. CASE u # s
      BY <2>5, <2>6, <2>8, <3>1, <3>3
    <3> QED BY <3>2, <3>3
  <2>17. GoodReadIsWhole'
    <3> SUFFICES ASSUME NEW u \in Subtrees, whole'[u] # NULL
                 PROVE  GoodReadIsWhole!(u)!2'
      BY DEF GoodReadIsWhole
    <3>1. CASE u = s
      <4>1. \A i \in 1 .. Leaves[f] : c[i] = f
        BY <1>4, <1>5, <1>9
      <4> QED BY <1>7, <2>2, <2>5, <2>7, <3>1, <4>1
    <3>2. CASE u # s
      <4>1. st'[u] = st[u] /\ whole'[u] = whole[u]
        BY <2>5, <2>7, <3>2
      <4>2. st[u].Nodes \in Arrays \ {a}
        BY <1>1, <2>9, <3>2, <4>1, RecordFacts DEF IInv, WholeHasNodes
      <4> QED BY <1>7, <4>1, <4>2 DEF IInv, GoodReadIsWhole
    <3> QED BY <3>1, <3>2
  <2> QED BY <2>10, <2>11, <2>12, <2>13, <2>14, <2>15, <2>16, <2>17 DEF IInv
<1> QED BY <1>8, <1>9 DEF Fill

-----------------------------------------------------------------------------
(* The end of an object.                                                   *)

\* Close: no other subtree's nodes are in the memory it unmaps.
LEMMA CloseKeepsIInv ==
  ASSUME IInv, NEW s \in Subtrees, Close(s)
  PROVE  IInv'
<1> DEFINE a == st[s].closer
<1>1. Types /\ job[s] = NULL /\ a \in Arrays /\ a # NULL
  BY RecordFacts DEF IInv, Close
<1>2. /\ whole' \in [Subtrees -> Streams \cup {NULL}]
      /\ whole'[s] = NULL
      /\ \A u \in Subtrees \ {s} : whole'[u] = whole[u]
  BY <1>1, WholeUpdate DEF Close
<1>3. UNCHANGED <<st, job, content, mapped, pool, released, fds>>
  BY DEF Close, heap, system, closeStore
<1>4. \/ UNCHANGED <<files, maps, closed>>
      \/ files' = files \ {a} /\ maps' = maps \ {a} /\ closed' = closed \cup {a}
  BY DEF Close, closeStore, munmap, system
<1> HIDE DEF a
<1>5. \A u \in Subtrees \ {s} :
        /\ st[u].closer # a
        /\ job[u] # NULL => job[u].id # a
  BY <1>1 DEF IInv, StoresExclusive, JobsExclusive, a
<1>6. Types'
  BY <1>1, <1>2, <1>3, <1>4 DEF Types
<1>7. JobsOrderly'
  <2> SUFFICES ASSUME NEW u \in Subtrees, job'[u] # NULL
               PROVE  JobsOrderly!(u)!2'
    BY DEF JobsOrderly
  <2>1. u # s /\ job[u] # NULL /\ job[u].id # a
    BY <1>1, <1>3, <1>5
  <2> QED BY <1>3, <1>4, <2>1, OrderlyKept
<1>8. JobsExclusive' /\ ArraysExclusive'
  BY <1>3 DEF IInv, JobsExclusive, ArraysExclusive
<1>9. StoresExclusive'
  BY <1>3, <1>4, <1>5 DEF IInv, StoresExclusive, a
<1>10. MappedHeldByOwner'
  BY <1>2, <1>3, <1>4, <1>5 DEF IInv, MappedHeldByOwner
<1>11. WholeHasNodes' /\ GoodReadIsWhole'
  <2>1. WholeHasNodes'
    BY <1>2, <1>3 DEF IInv, WholeHasNodes
  <2>2. GoodReadIsWhole'
    BY <1>2, <1>3 DEF IInv, GoodReadIsWhole
  <2> QED BY <2>1, <2>2
<1>12. NothingLeaked'
  <2> SUFFICES ASSUME NEW b \in files' \cup fds' \cup maps'
               PROVE  NothingLeaked!(b)'
    BY DEF NothingLeaked
  <2>1. PICK u \in Subtrees :
          \/ job[u] # NULL /\ job[u].id = b
          \/ job[u] = NULL /\ b \notin fds /\ st[u].closer = b /\ b \notin closed
    BY <1>3, <1>4 DEF IInv, NothingLeaked
  <2>2. CASE u = s
    <3>1. b = a /\ b \notin fds
      BY <1>1, <2>1, <2>2 DEF a
    <3>2. UNCHANGED <<files, maps, closed>>
      BY <1>3, <1>4, <3>1
    <3> QED BY <1>3, <2>1, <3>2
  <2>3. CASE u # s
    BY <1>3, <1>4, <1>5, <2>1, <2>3
  <2> QED BY <2>2, <2>3
<1> QED BY <1>6, <1>7, <1>8, <1>9, <1>10, <1>11, <1>12 DEF IInv

\* An object let go of had nothing open.
LEMMA DropKeepsIInv ==
  ASSUME IInv, NEW s \in Subtrees, Drop(s)
  PROVE  IInv'
<1>1. Types /\ job[s] = NULL /\ NULL \notin Arrays
  BY SubtreeReaderAssumption DEF IInv, Drop
<1>2. /\ st' \in [Subtrees -> SubtreeRecords]
      /\ st'[s] = zeroSubtree
      /\ \A u \in Subtrees \ {s} : st'[u] = st[u]
  BY <1>1, ZeroFacts, ObjectUpdate DEF Drop
<1>3. /\ whole' \in [Subtrees -> Streams \cup {NULL}]
      /\ whole'[s] = NULL
      /\ \A u \in Subtrees \ {s} : whole'[u] = whole[u]
  BY <1>1, WholeUpdate DEF Drop
<1>4. UNCHANGED <<job, content, mapped, pool, released, files, fds, maps, closed>>
  BY DEF Drop, heap, system
<1>5. Types'
  BY <1>1, <1>2, <1>3, <1>4 DEF Types
<1>6. JobsOrderly'
  BY <1>1, <1>2, <1>4 DEF IInv, JobsOrderly
<1>7. JobsExclusive'
  BY <1>2, <1>4, ZeroFacts DEF IInv, JobsExclusive
<1>8. StoresExclusive'
  BY <1>2, <1>4, ZeroFacts DEF IInv, StoresExclusive
<1>9. MappedHeldByOwner'
  <2>1. NULL \notin mapped
    BY <1>1 DEF Types
  <2> QED BY <1>2, <1>3, <1>4, <2>1, ZeroFacts DEF IInv, MappedHeldByOwner
<1>10. WholeHasNodes' /\ ArraysExclusive'
  BY <1>2, <1>3, <1>4, ZeroFacts DEF IInv, WholeHasNodes, ArraysExclusive
<1>11. NothingLeaked'
  <2> SUFFICES ASSUME NEW b \in files \cup fds \cup maps
               PROVE  NothingLeaked!(b)'
    BY <1>4 DEF NothingLeaked
  <2>1. PICK u \in Subtrees :
          \/ job[u] # NULL /\ job[u].id = b
          \/ job[u] = NULL /\ b \notin fds /\ st[u].closer = b /\ b \notin closed
    BY DEF IInv, NothingLeaked
  <2>2. b # NULL
    BY <1>1 DEF Types
  <2>3. u # s
    BY <1>1, <2>1, <2>2 DEF Drop
  <2> QED BY <1>2, <1>4, <2>1, <2>3
<1>12. GoodReadIsWhole'
  BY <1>2, <1>3, <1>4 DEF IInv, GoodReadIsWhole
<1> QED BY <1>5, <1>6, <1>7, <1>8, <1>9, <1>10, <1>11, <1>12 DEF IInv

-----------------------------------------------------------------------------
(* The theorems.                                                           *)

\* At the start nothing is held.
LEMMA InitIInv == Init => IInv
<1> SUFFICES ASSUME Init PROVE IInv
  OBVIOUS
<1>1. \A s \in Subtrees : st[s] = zeroSubtree /\ whole[s] = NULL /\ job[s] = NULL
  BY DEF Init
<1>2. Types
  <2>1. << >> \in Seq(Streams \cup {NULL})
    OBVIOUS
  <2> QED BY <2>1, ZeroFacts DEF Init, Types
<1>3. JobsOrderly /\ JobsExclusive /\ StoresExclusive /\ WholeHasNodes
  BY <1>1, ZeroFacts DEF JobsOrderly, JobsExclusive, StoresExclusive, WholeHasNodes
<1>4. MappedHeldByOwner /\ NothingLeaked /\ ArraysExclusive /\ GoodReadIsWhole
  BY <1>1, ZeroFacts DEF Init, MappedHeldByOwner, NothingLeaked, ArraysExclusive, GoodReadIsWhole
<1> QED BY <1>2, <1>3, <1>4 DEF IInv

\* Every step of Next, and a step that changes nothing.
LEMMA StepKeepsIInv == IInv /\ [Next]_vars => IInv'
<1> SUFFICES ASSUME IInv, [Next]_vars PROVE IInv'
  OBVIOUS
<1>1. CASE UNCHANGED vars
  <2>1. UNCHANGED <<st, whole, job, content, mapped, pool, released, files, fds, maps, closed>>
    BY <1>1 DEF vars
  <2>2. Types' /\ JobsExclusive' /\ StoresExclusive' /\ WholeHasNodes'
    BY <2>1 DEF IInv, Types, JobsExclusive, StoresExclusive, WholeHasNodes
  <2>3. MappedHeldByOwner' /\ NothingLeaked' /\ ArraysExclusive'
    BY <2>1 DEF IInv, MappedHeldByOwner, NothingLeaked, ArraysExclusive
  <2>4. JobsOrderly'
    BY <2>1 DEF IInv, JobsOrderly
  <2>5. GoodReadIsWhole'
    BY <2>1 DEF IInv, GoodReadIsWhole
  <2> QED BY <2>2, <2>3, <2>4, <2>5 DEF IInv
<1>2. ASSUME NEW s \in Subtrees, NEW f \in Streams, NEW fields \in 0 .. total(f),
             \/ DeserializeFromReader(s, f, fields)
             \/ DeserializeFromReaderWithAllocator(s, f, fields)
      PROVE  IInv'
  BY <1>2, DeserializeKeepsIInv, AllocatorKeepsIInv
<1>3. ASSUME NEW s \in Subtrees, NEW f \in Streams, NEW fields \in 1 .. total(f),
             Fill(s, f, fields)
      PROVE  IInv'
  BY <1>3, FillKeepsIInv
<1>4. ASSUME NEW s \in Subtrees, NEW f \in Streams, NewSubtreeFromReaderMmap(s, f)
      PROVE  IInv'
  BY <1>4, BeginKeepsIInv DEF NewSubtreeFromReaderMmap
<1>5. ASSUME NEW s \in Subtrees,
             \/ ReleaseNodes(s) \/ NewTreeMmap(s) \/ CreateTemp(s) \/ Truncate(s)
             \/ Mmap(s) \/ Close(s) \/ Drop(s)
      PROVE  IInv'
  BY <1>5, ReleaseNodesKeepsIInv, BeginKeepsIInv, CreateTempKeepsIInv, TruncateKeepsIInv,
     MmapKeepsIInv, CloseKeepsIInv, DropKeepsIInv DEF NewTreeMmap
<1> QED BY <1>1, <1>2, <1>3, <1>4, <1>5 DEF Next

\* The inductive invariant holds in every state of every behaviour.
THEOREM ReaderInvariant == Spec => []IInv
BY InitIInv, StepKeepsIInv, PTL DEF Spec

\* No reader that ends early and no failing system call, at whichever point of
\* newFileBackedMmapNodes or NewSubtreeFromReaderMmap, leaks a temporary file,
\* a descriptor or a mapping.
THEOREM NothingIsLeaked == Spec => []NothingLeaked
<1>1. IInv => NothingLeaked
  BY DEF IInv
<1> QED BY <1>1, ReaderInvariant, PTL

\* The nodes of a mapped subtree stay readable until its own Close, as long as
\* ReleaseNodes has not handed the memory out.
THEOREM MappedNodesReadable == Spec => []NodesReadable
<1>1. IInv => NodesReadable
  <2> SUFFICES ASSUME IInv, NEW s \in Subtrees,
                      st[s].Nodes \in mapped \ released,
                      whole[s] # NULL \/ st[s].Nodes \notin closed
               PROVE  st[s].Nodes \in maps
    BY DEF NodesReadable
  <2>1. st[s].closer = st[s].Nodes /\ st[s].Nodes \notin closed
    BY DEF IInv, MappedHeldByOwner
  <2>2. st[s].closer # NULL
    BY <2>1, SubtreeReaderAssumption DEF IInv, Types
  <2> QED BY <2>1, <2>2 DEF IInv, StoresExclusive
<1> QED BY <1>1, ReaderInvariant, PTL

\* However objects are read into, released, mapped, closed and dropped, and
\* whatever the allocator gives back, no array is shared.
THEOREM NoArrayShared == Spec => []ArraysExclusive
<1>1. IInv => ArraysExclusive
  BY DEF IInv
<1> QED BY <1>1, ReaderInvariant, PTL

\* A read without an error gives exactly the subtree that was written, and
\* nothing other objects do afterwards changes it.
THEOREM GoodReadsAreWhole == Spec => []GoodReadIsWhole
<1>1. IInv => GoodReadIsWhole
  BY DEF IInv
<1> QED BY <1>1, ReaderInvariant, PTL
=============================================================================
