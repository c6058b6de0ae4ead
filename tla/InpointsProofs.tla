--------------------------- MODULE InpointsProofs ---------------------------
(***************************************************************************)
(* TxInpoints, for every transaction and every way in which its inputs     *)
(* share parents.  First the buffers of newSizedFromInputs: the invariant  *)
(* counts words, one in voutIdxs for each input and one more for each      *)
(* parent.  Then the layout: voutIdxs is divided into one run per parent   *)
(* (Packed); from that follow the properties of the packed array, that     *)
(* reading back takes what was written, and that the object implements     *)
(* InpointMap.  The lemmas on the layout are about an array v and the      *)
(* places st of its runs, so that they hold before a step and after it.    *)
(* Last, that nothing is lost: every pair of parent and output is read out *)
(* of the runs as often as an input spends it.                             *)
(***************************************************************************)
EXTENDS Inpoints, CommonLemmas

\* As many words as inputs and parents, and no more parents than inputs.
WordsCounted ==
  /\ Len(inputs) \in Nat
  /\ done \in 0 .. Len(inputs)
  /\ parentTxHashes \in Seq(Parents)
  /\ \E S : voutIdxs \in Seq(S)
  /\ Len(parentTxHashes) <= done
  /\ Len(voutIdxs) = Len(parentTxHashes) + done

UnderConstruction == done # Len(inputs) => WordsCounted

\* A function on 1 .. m is a sequence of length m.
LEMMA FcnIsSeq ==
  ASSUME NEW m \in Nat, NEW f, f = [k \in 1 .. m |-> f[k]]
  PROVE  (\E S : f \in Seq(S)) /\ Len(f) = m
<1> DEFINE S == {f[k] : k \in 1 .. m}
<1>1. f \in [1 .. m -> S]
  OBVIOUS
<1>2. f \in Seq(S)
  <2> HIDE DEF S
  <2> QED BY <1>1
<1>3. Len(f) = m
  <2> HIDE DEF S
  <2> QED BY <1>1
<1> QED BY <1>2, <1>3

\* Shifting the tail of the packed array adds one word to it.
LEMMA WithVoutLength ==
  ASSUME NEW S, voutIdxs \in Seq(S), NEW pos, NEW vout
  PROVE  /\ \E T : withVout(pos, vout) \in Seq(T)
         /\ Len(withVout(pos, vout)) = Len(voutIdxs) + 1
<1> DEFINE w == withVout(pos, vout)
           m == Len(voutIdxs) + 1
           e(k) == CASE k = insertAt(pos) + 1 -> vout
                     [] k > insertAt(pos) + 1 -> voutIdxs[k - 1]
                     [] k = pos + 1           -> voutIdxs[k] + 1
                     [] OTHER                 -> voutIdxs[k]
<1>1. w = [k \in 1 .. m |-> w[k]]
  <2>1. w = [k \in 1 .. m |-> e(k)]
    BY DEF withVout
  <2> HIDE DEF w, e, m
  <2> QED BY <2>1
<1>2. m \in Nat
  OBVIOUS
<1> HIDE DEF w, m
<1>3. (\E T : w \in Seq(T)) /\ Len(w) = m
  BY <1>1, <1>2, FcnIsSeq, Zenon
<1> QED BY <1>3 DEF w, m

\* Two words at the end for a parent that is new.
LEMMA AppendLength ==
  ASSUME NEW S, voutIdxs \in Seq(S), NEW vout
  PROVE  /\ \E T : voutIdxs \o <<1, vout>> \in Seq(T)
         /\ Len(voutIdxs \o <<1, vout>>) = Len(voutIdxs) + 2
<1> DEFINE T == S \cup {1, vout}
<1>1. voutIdxs \in Seq(T) /\ <<1, vout>> \in Seq(T)
  OBVIOUS
<1> HIDE DEF T
<1>2. voutIdxs \o <<1, vout>> \in Seq(T)
  BY <1>1
<1> QED BY <1>1, <1>2

\* One iteration of the loop of newSizedFromInputs keeps the count, also in
\* its last iteration.
LEMMA IterationKeepsCount ==
  ASSUME UnderConstruction, newSizedFromInputs,
         inputs \in Seq(Parents \X Vouts), done \in Nat
  PROVE  WordsCounted'
<1> DEFINE hash == inputs[done + 1][1]
           vout == inputs[done + 1][2]
<1>1. WordsCounted /\ done < Len(inputs)
  BY DEF newSizedFromInputs, UnderConstruction
<1>2. PICK S : voutIdxs \in Seq(S)
  BY <1>1 DEF WordsCounted
<1>3. hash \in Parents
  BY <1>1
<1>4. appendInput(hash, vout) /\ done' = done + 1 /\ inputs' = inputs
  BY DEF newSizedFromInputs
<1> HIDE DEF hash, vout
<1>5. CASE indexOf(hash) = -1
  <2>1. /\ parentTxHashes' = Append(parentTxHashes, hash)
        /\ voutIdxs' = voutIdxs \o <<1, vout>>
    BY <1>4, <1>5 DEF appendInput
  <2>2. (\E T : voutIdxs' \in Seq(T)) /\ Len(voutIdxs') = Len(voutIdxs) + 2
    BY <1>2, <2>1, AppendLength
  <2>3. /\ parentTxHashes' \in Seq(Parents)
        /\ Len(parentTxHashes') = Len(parentTxHashes) + 1
    BY <1>1, <1>3, <2>1 DEF WordsCounted
  <2> QED BY <1>1, <1>4, <2>2, <2>3 DEF WordsCounted
<1>6. CASE indexOf(hash) # -1
  <2>1. /\ parentTxHashes' = parentTxHashes
        /\ voutIdxs' = withVout(runStart(indexOf(hash)), vout)
    BY <1>4, <1>6 DEF appendInput
  <2>2. (\E T : voutIdxs' \in Seq(T)) /\ Len(voutIdxs') = Len(voutIdxs) + 1
    BY <1>2, <2>1, WithVoutLength
  <2> QED BY <1>1, <1>4, <2>1, <2>2 DEF WordsCounted
<1> QED BY <1>5, <1>6

\* The inputs do not change, and the loop counter is a number.
Fixed == inputs \in Seq(Parents \X Vouts) /\ done \in Nat

\* The buffers hold: n hashes and 2n words are enough for n inputs, for every
\* n and whichever inputs share a parent.
THEOREM BuffersNeverGrow == Spec => NeverGrows
<1> DEFINE Inv == Fixed /\ UnderConstruction
           Fits == newSizedFromInputs =>
                     /\ Len(parentTxHashes') <= Len(inputs)
                     /\ Len(voutIdxs') <= 2 * Len(inputs)
<1>1. Init => Inv
  <2> SUFFICES ASSUME Init PROVE Inv
    OBVIOUS
  <2>1. PICK n \in 0 .. MaxInputs : inputs \in [1 .. n -> Parents \X Vouts]
    BY DEF Init
  <2>2. inputs \in Seq(Parents \X Vouts) /\ Len(inputs) \in Nat
    BY <2>1, InpointsAssumption
  <2>3. parentTxHashes = << >> /\ voutIdxs = << >> /\ done = 0
    BY DEF Init
  <2>4. voutIdxs \in Seq(Nat)
    BY <2>3
  <2> QED BY <2>2, <2>3, <2>4 DEF Fixed, UnderConstruction, WordsCounted
<1>2. Inv /\ [Next]_vars => Inv'
  <2> SUFFICES ASSUME Inv, [Next]_vars PROVE Inv'
    OBVIOUS
  <2>1. CASE newSizedFromInputs
    <3>1. WordsCounted'
      BY <2>1, IterationKeepsCount DEF Fixed
    <3> QED BY <2>1, <3>1 DEF newSizedFromInputs, Fixed, UnderConstruction
  <2>2. CASE Reload
    BY <2>2 DEF Reload, Fixed, UnderConstruction
  <2>3. CASE UNCHANGED vars
    BY <2>3 DEF vars, Fixed, UnderConstruction, WordsCounted
  <2> QED BY <2>1, <2>2, <2>3 DEF Next
<1>3. Inv => Fits
  <2> SUFFICES ASSUME Inv, newSizedFromInputs
               PROVE  /\ Len(parentTxHashes') <= Len(inputs)
                      /\ Len(voutIdxs') <= 2 * Len(inputs)
    OBVIOUS
  <2>1. WordsCounted'
    BY IterationKeepsCount DEF Fixed
  <2>2. inputs' = inputs
    BY DEF newSizedFromInputs
  <2> QED BY <2>1, <2>2 DEF WordsCounted
<1>4. Inv => [Fits]_vars
  BY <1>3
<1> QED BY <1>1, <1>2, <1>4, PTL DEF Spec, NeverGrows

-----------------------------------------------------------------------------
(* The packed layout.                                                      *)

\* st[i] is where the run of parent i begins in v, st[P] where v ends.
IsLayout(v, P, st) ==
  /\ st \in [0 .. P -> Nat]
  /\ st[0] = 0
  /\ \A j \in 0 .. P - 1 : /\ v[st[j] + 1] \in Nat \ {0}
                           /\ st[j + 1] = st[j] + 1 + v[st[j] + 1]
  /\ st[P] = Len(v)

\* runStart and voutSliceForParent, for the array v.
walk(v, i) ==
  LET pos[j \in 0 .. i] == IF j = 0 THEN 0 ELSE pos[j - 1] + 1 + v[pos[j - 1] + 1]
  IN  pos[i]
slice(v, p) == SubSeq(v, p + 2, p + 1 + v[p + 1])

\* The runs lie one after the other.
LEMMA LayoutOrdered ==
  ASSUME NEW v, NEW P \in Nat, NEW st, IsLayout(v, P, st),
         NEW i \in 0 .. P, NEW j \in 0 .. P, i <= j
  PROVE  st[i] <= st[j]
<1> DEFINE T == {k \in 0 .. P : i <= k /\ ~(st[i] <= st[k])}
<1>1. \A k \in 0 .. P : st[k] \in Nat
  BY DEF IsLayout
<1> SUFFICES ASSUME T # {} PROVE FALSE
  OBVIOUS
<1>2. T \in SUBSET Nat
  OBVIOUS
<1>3. PICK k \in T : \A l \in T : k <= l
  <2> HIDE DEF T
  <2> QED BY <1>2, MinExists
<1>4. k \in 0 .. P /\ i <= k /\ ~(st[i] <= st[k]) /\ k # i
  BY <1>1
<1>5. k - 1 \in 0 .. P - 1 /\ k - 1 \in 0 .. P /\ i <= k - 1 /\ k - 1 + 1 = k
  BY <1>4
<1>6. st[i] <= st[k - 1]
  BY <1>3, <1>5
<1>7. v[st[k - 1] + 1] \in Nat /\ st[k] = st[k - 1] + 1 + v[st[k - 1] + 1]
  BY <1>5 DEF IsLayout
<1> HIDE DEF T
<1> QED BY <1>1, <1>4, <1>5, <1>6, <1>7

\* A run lies within the array, and ends where the next begins.
LEMMA LayoutRun ==
  ASSUME NEW v, NEW P \in Nat, NEW st, IsLayout(v, P, st), NEW i \in 0 .. P - 1
  PROVE  /\ st[i] \in Nat /\ st[i + 1] \in Nat /\ Len(v) \in Nat
         /\ v[st[i] + 1] \in Nat /\ v[st[i] + 1] >= 1
         /\ st[i + 1] = st[i] + 1 + v[st[i] + 1]
         /\ st[i + 1] <= Len(v)
<1>1. i \in 0 .. P /\ i + 1 \in 0 .. P /\ P \in 0 .. P /\ i + 1 <= P
  OBVIOUS
<1>2. st[i + 1] <= st[P]
  BY <1>1, LayoutOrdered
<1>3. st[i] \in Nat /\ st[i + 1] \in Nat /\ st[P] \in Nat /\ st[P] = Len(v)
  BY <1>1 DEF IsLayout
<1>4. v[st[i] + 1] \in Nat \ {0} /\ st[i + 1] = st[i] + 1 + v[st[i] + 1]
  BY DEF IsLayout
<1> QED BY <1>2, <1>3, <1>4

\* The same, of all runs.
LEMMA LayoutRuns ==
  ASSUME NEW v, NEW P \in Nat, NEW st, IsLayout(v, P, st)
  PROVE  \A j \in 0 .. P - 1 :
           /\ st[j] \in Nat /\ v[st[j] + 1] \in Nat /\ v[st[j] + 1] >= 1
           /\ st[j + 1] = st[j] + 1 + v[st[j] + 1] /\ st[j + 1] <= Len(v)
BY LayoutRun

\* The walk over the runs finds where each begins.
LEMMA WalkFinds ==
  ASSUME NEW v, NEW P \in Nat, NEW st, IsLayout(v, P, st), NEW i \in 0 .. P
  PROVE  walk(v, i) = st[i]
<1> DEFINE Q(f) == f = [j \in 0 .. i |-> IF j = 0 THEN 0 ELSE f[j - 1] + 1 + v[f[j - 1] + 1]]
           r == [j \in 0 .. i |-> st[j]]
           pos == CHOOSE f : Q(f)
<1>1. \A j \in 0 .. i : st[j] = IF j = 0 THEN 0 ELSE st[j - 1] + 1 + v[st[j - 1] + 1]
  <2> SUFFICES ASSUME NEW j \in 0 .. i, j # 0
               PROVE  st[j] = st[j - 1] + 1 + v[st[j - 1] + 1]
    BY DEF IsLayout
  <2>1. j - 1 \in 0 .. P - 1 /\ j - 1 + 1 = j
    OBVIOUS
  <2> QED BY <2>1 DEF IsLayout
<1>2. Q(r)
  <2>1. \A j \in 0 .. i : j # 0 => r[j - 1] = st[j - 1]
    OBVIOUS
  <2>2. \A j \in 0 .. i : st[j] = IF j = 0 THEN 0 ELSE r[j - 1] + 1 + v[r[j - 1] + 1]
    <3> HIDE DEF r
    <3> QED BY <1>1, <2>1
  <2> QED BY <2>2
<1>3. walk(v, i) = pos[i]
  BY DEF walk
<1> HIDE DEF Q
<1>4. Q(pos)
  BY <1>2
<1> HIDE DEF pos
<1>5. \A j \in 0 .. i : pos[j] = IF j = 0 THEN 0 ELSE pos[j - 1] + 1 + v[pos[j - 1] + 1]
  BY <1>4, Zenon DEF Q
<1> DEFINE T == {j \in 0 .. i : pos[j] # st[j]}
<1>6. ASSUME T # {} PROVE FALSE
  <2>1. T \in SUBSET Nat
    OBVIOUS
  <2>2. PICK k \in T : \A l \in T : k <= l
    <3> HIDE DEF T
    <3> QED BY <2>1, <1>6, MinExists
  <2>3. k \in 0 .. i /\ pos[k] # st[k]
    OBVIOUS
  <2>4. CASE k = 0
    BY <2>3, <2>4, <1>1, <1>5
  <2>5. CASE k # 0
    <3>1. k - 1 \in 0 .. i /\ ~(k <= k - 1)
      BY <2>3, <2>5
    <3>2. pos[k - 1] = st[k - 1]
      BY <3>1, <2>2
    <3> HIDE DEF T
    <3> QED BY <2>3, <2>5, <3>2, <1>1, <1>5
  <2> QED BY <2>4, <2>5
<1>7. i \in 0 .. i
  OBVIOUS
<1>8. pos[i] = st[i]
  BY <1>6, <1>7
<1> QED BY <1>3, <1>8

\* The run at p of v stands at q in w.
SameRun(v, p, w, q) ==
  /\ v[p + 1] \in Nat /\ w[q + 1] = v[p + 1]
  /\ p + 1 + v[p + 1] <= Len(v) /\ q + 1 + v[p + 1] <= Len(w)
  /\ \A k \in 1 .. v[p + 1] : w[k + q + 1] = v[k + p + 1]

\* Then it holds the same outputs.
LEMMA SliceSame ==
  ASSUME NEW v \in Seq(Nat), NEW w \in Seq(Nat), NEW p \in Nat, NEW q \in Nat,
         SameRun(v, p, w, q)
  PROVE  slice(w, q) = slice(v, p)
<1> DEFINE c == v[p + 1]
           a == SubSeq(w, q + 2, q + 1 + c)
           b == SubSeq(v, p + 2, p + 1 + c)
<1>1. slice(w, q) = a /\ slice(v, p) = b
  BY DEF slice, SameRun
<1>2. /\ c \in Nat /\ p + 1 + c <= Len(v) /\ q + 1 + c <= Len(w)
      /\ \A k \in 1 .. c : w[k + q + 1] = v[k + p + 1]
  BY Zenon DEF SameRun
<1> HIDE DEF c
<1>3. a \in Seq(Nat) /\ Len(a) = c /\ \A k \in 1 .. c : a[k] = w[k + q + 1]
  BY <1>2
<1>4. b \in Seq(Nat) /\ Len(b) = c /\ \A k \in 1 .. c : b[k] = v[k + p + 1]
  BY <1>2
<1> HIDE DEF a, b
<1>5. \A k \in 1 .. c : a[k] = b[k]
  BY <1>2, <1>3, <1>4
<1>6. a = b
  BY <1>3, <1>4, <1>5, SeqEqual
<1> QED BY <1>1, <1>6

\* A run of one output.
LEMMA SliceOne ==
  ASSUME NEW w \in Seq(Nat), NEW q \in Nat, w[q + 1] = 1, q + 2 <= Len(w)
  PROVE  slice(w, q) = <<w[q + 2]>>
<1>1. slice(w, q) = SubSeq(w, q + 2, q + 1 + 1) /\ q + 1 + 1 = q + 2
  BY DEF slice
<1> DEFINE a == SubSeq(w, q + 2, q + 2)
           x == w[q + 2]
<1>2. x \in Nat
  OBVIOUS
<1>3. a \in Seq(Nat) /\ Len(a) = 1 /\ a[1] = x
  OBVIOUS
<1> HIDE DEF a, x
<1>4. <<x>> \in Seq(Nat) /\ Len(<<x>>) = 1 /\ <<x>>[1] = x
  BY <1>2
<1>5. a = <<x>>
  <2>1. \A i \in 1 .. Len(a) : a[i] = <<x>>[i]
    BY <1>3, <1>4
  <2> QED BY <2>1, <1>3, <1>4, SeqEqual
<1> QED BY <1>1, <1>5 DEF a, x

\* w is v with a run of one output, vout, after it; t are the runs' places in it.
IsExtended(v, P, st, vout, w, t) ==
  /\ w \in Seq(Nat) /\ Len(w) = Len(v) + 2
  /\ \A k \in 1 .. Len(v) : w[k] = v[k]
  /\ w[Len(v) + 1] = 1 /\ w[Len(v) + 2] = vout
  /\ t \in [0 .. P + 1 -> Nat] /\ t[P + 1] = Len(v) + 2
  /\ \A j \in 0 .. P : t[j] = st[j]

\* Two words at the end for a parent that is new: its run is the output, and the
\* other runs are as they were.
LEMMA NewParent ==
  ASSUME NEW v \in Seq(Nat), NEW P \in Nat, NEW st, IsLayout(v, P, st),
         NEW vout \in Nat, NEW w, NEW t, IsExtended(v, P, st, vout, w, t)
  PROVE  /\ IsLayout(w, P + 1, t)
         /\ \A i \in 0 .. P - 1 : slice(w, t[i]) = slice(v, st[i])
         /\ slice(w, t[P]) = <<vout>>
<1>1. Len(v) \in Nat /\ st[P] = Len(v) /\ st[0] = 0 /\ \A j \in 0 .. P : st[j] \in Nat
  BY DEF IsLayout
<1>2. w \in Seq(Nat) /\ Len(w) = Len(v) + 2 /\ \A k \in 1 .. Len(v) : w[k] = v[k]
  BY DEF IsExtended
<1>3. ASSUME NEW i \in 0 .. P - 1
      PROVE  /\ st[i] \in Nat /\ st[i] + 1 \in 1 .. Len(v)
             /\ v[st[i] + 1] \in Nat /\ v[st[i] + 1] >= 1
             /\ w[st[i] + 1] = v[st[i] + 1] /\ t[i] = st[i] /\ t[i + 1] = st[i + 1]
             /\ st[i + 1] = st[i] + 1 + v[st[i] + 1] /\ st[i + 1] <= Len(v)
  <2>1. /\ st[i] \in Nat /\ v[st[i] + 1] \in Nat /\ v[st[i] + 1] >= 1
        /\ st[i + 1] = st[i] + 1 + v[st[i] + 1] /\ st[i + 1] <= Len(v)
    BY LayoutRun
  <2>2. i \in 0 .. P /\ i + 1 \in 0 .. P
    OBVIOUS
  <2>3. t[i] = st[i] /\ t[i + 1] = st[i + 1]
    BY <2>2 DEF IsExtended
  <2> DEFINE p == st[i]
             c == v[st[i] + 1]
             n == Len(v)
  <2>4. p \in Nat /\ c \in Nat /\ c >= 1 /\ p + 1 + c <= n /\ n \in Nat
    BY <2>1, <1>1, Zenon
  <2> HIDE DEF p, c, n
  <2>5. p + 1 \in 1 .. n
    BY <2>4
  <2>6. w[p + 1] = v[p + 1]
    BY <2>5, <1>2, Zenon DEF n
  <2> QED BY <2>1, <2>3, <2>5, <2>6, Zenon DEF p, n
<1>4. t[P] = Len(v) /\ w[t[P] + 1] = 1 /\ t[P + 1] = Len(v) + 2 /\ w[t[P] + 2] = vout
  BY <1>1 DEF IsExtended
<1>5. IsLayout(w, P + 1, t)
  <2>1. t[0] = 0 /\ t[P + 1] = Len(w) /\ t \in [0 .. P + 1 -> Nat]
    BY <1>1 DEF IsExtended
  <2>2. ASSUME NEW j \in 0 .. P + 1 - 1
        PROVE  w[t[j] + 1] \in Nat \ {0} /\ t[j + 1] = t[j] + 1 + w[t[j] + 1]
    <3>1. CASE j = P
      BY <3>1, <1>1, <1>4
    <3>2. CASE j # P
      <4>1. j \in 0 .. P - 1
        BY <3>2
      <4>2. /\ v[st[j] + 1] \in Nat /\ v[st[j] + 1] >= 1
            /\ w[st[j] + 1] = v[st[j] + 1] /\ st[j + 1] = st[j] + 1 + v[st[j] + 1]
            /\ t[j] = st[j] /\ t[j + 1] = st[j + 1]
        BY <4>1, <1>3
      <4> QED BY <4>2
    <3> QED BY <3>1, <3>2
  <2> QED BY <2>1, <2>2 DEF IsLayout
<1>6. ASSUME NEW i \in 0 .. P - 1 PROVE slice(w, t[i]) = slice(v, st[i])
  <2> DEFINE p == st[i]
             c == v[st[i] + 1]
  <2>1. /\ p \in Nat /\ c \in Nat /\ v[p + 1] = c /\ w[p + 1] = c /\ t[i] = p
        /\ st[i + 1] = p + 1 + c /\ st[i + 1] <= Len(v)
    BY <1>3
  <2> HIDE DEF p, c
  <2>2. p + 1 + c <= Len(v) /\ p + 1 + c <= Len(w)
    BY <2>1, <1>1, <1>2
  <2>3. \A k \in 1 .. c : w[k + p + 1] = v[k + p + 1]
    <3> SUFFICES ASSUME NEW k \in 1 .. c PROVE w[k + p + 1] = v[k + p + 1]
      OBVIOUS
    <3>1. k + p + 1 \in 1 .. Len(v)
      BY <2>1, <2>2, <1>1
    <3> QED BY <3>1, <1>2
  <2>4. SameRun(v, p, w, p)
    BY <2>1, <2>2, <2>3, Zenon DEF SameRun
  <2>5. slice(w, p) = slice(v, p)
    BY <2>1, <2>4, <1>2, SliceSame
  <2> QED BY <2>1, <2>5 DEF p
<1>7. slice(w, t[P]) = <<vout>>
  <2> DEFINE q == t[P]
  <2>1. q \in Nat /\ w[q + 1] = 1 /\ q + 2 <= Len(w) /\ w[q + 2] = vout
    BY <1>1, <1>2, <1>4
  <2> HIDE DEF q
  <2>2. slice(w, q) = <<w[q + 2]>>
    BY <2>1, <1>2, SliceOne
  <2> QED BY <2>1, <2>2 DEF q
<1> QED BY <1>5, <1>6, <1>7

\* w is v with vout added to the run of parent idx; t are the runs' places in it.
IsInserted(v, P, st, idx, vout, w, t) ==
  /\ w \in Seq(Nat) /\ Len(w) = Len(v) + 1
  /\ \A k \in 1 .. st[idx + 1] : k # st[idx] + 1 => w[k] = v[k]
  /\ w[st[idx] + 1] = v[st[idx] + 1] + 1
  /\ w[st[idx + 1] + 1] = vout
  /\ \A k \in st[idx + 1] + 1 .. Len(v) : w[k + 1] = v[k]
  /\ t \in [0 .. P -> Nat]
  /\ \A j \in 0 .. P : t[j] = IF j <= idx THEN st[j] ELSE st[j] + 1

\* One word more in the run of a parent that is known: the output comes last in
\* it, the other runs are as they were, those behind it one further on.
LEMMA KnownParent ==
  ASSUME NEW v \in Seq(Nat), NEW P \in Nat, NEW st, IsLayout(v, P, st),
         NEW idx \in 0 .. P - 1, NEW vout \in Nat, NEW w, NEW t,
         IsInserted(v, P, st, idx, vout, w, t)
  PROVE  /\ IsLayout(w, P, t)
         /\ \A i \in 0 .. P - 1 : i # idx => slice(w, t[i]) = slice(v, st[i])
         /\ slice(w, t[idx]) = Append(slice(v, st[idx]), vout)
<1> DEFINE pos == st[idx]
           ins == st[idx + 1]
           n == Len(v)
<1>1. /\ pos \in Nat /\ ins \in Nat /\ n \in Nat /\ v[pos + 1] \in Nat
      /\ v[pos + 1] >= 1 /\ ins = pos + 1 + v[pos + 1] /\ ins <= n
  BY LayoutRun
<1>2. /\ w \in Seq(Nat) /\ Len(w) = n + 1
      /\ \A k \in 1 .. ins : k # pos + 1 => w[k] = v[k]
      /\ w[pos + 1] = v[pos + 1] + 1
      /\ w[ins + 1] = vout
      /\ \A k \in ins + 1 .. n : w[k + 1] = v[k]
  BY Zenon DEF IsInserted
<1>3. \A j \in 0 .. P : st[j] \in Nat /\ t[j] = IF j <= idx THEN st[j] ELSE st[j] + 1
  BY DEF IsInserted, IsLayout
<1>4. st[0] = 0 /\ st[P] = n
  BY DEF IsLayout
<1>5. ASSUME NEW i \in 0 .. P - 1
      PROVE  /\ st[i] \in Nat /\ v[st[i] + 1] \in Nat /\ v[st[i] + 1] >= 1
             /\ st[i + 1] = st[i] + 1 + v[st[i] + 1] /\ st[i + 1] <= n
  <2> HIDE DEF pos, ins
  <2>1. \A j \in 0 .. P - 1 :
          /\ st[j] \in Nat /\ v[st[j] + 1] \in Nat /\ v[st[j] + 1] >= 1
          /\ st[j + 1] = st[j] + 1 + v[st[j] + 1] /\ st[j + 1] <= Len(v)
    BY LayoutRuns, Zenon
  <2> QED BY <2>1, Zenon
<1>6. ASSUME NEW i \in 0 .. P - 1, i < idx PROVE st[i + 1] <= pos
  <2>1. i + 1 \in 0 .. P /\ idx \in 0 .. P /\ i + 1 <= idx
    BY <1>6
  <2> QED BY <2>1, LayoutOrdered
<1>7. ASSUME NEW i \in 0 .. P - 1, idx < i PROVE ins <= st[i]
  <2>1. idx + 1 \in 0 .. P /\ i \in 0 .. P /\ idx + 1 <= i
    BY <1>7
  <2> QED BY <2>1, LayoutOrdered
<1> HIDE DEF pos, ins, n
<1>8. ASSUME NEW i \in 0 .. P - 1, i < idx
      PROVE  SameRun(v, st[i], w, t[i]) /\ t[i] = st[i] /\ t[i + 1] = st[i + 1]
  <2> DEFINE p == st[i]
             c == v[st[i] + 1]
  <2>1. p \in Nat /\ c \in Nat /\ c >= 1 /\ p + 1 + c <= pos
    <3>1. st[i + 1] <= pos /\ st[i + 1] = st[i] + 1 + v[st[i] + 1]
      BY <1>5, <1>6, <1>8
    <3> QED BY <3>1, <1>5
  <2>2. t[i] = p /\ t[i + 1] = st[i + 1]
    <3>1. i \in 0 .. P /\ i + 1 \in 0 .. P /\ i <= idx /\ i + 1 <= idx
      BY <1>8
    <3> QED BY <3>1, <1>3
  <2>3. c = v[p + 1]
    OBVIOUS
  <2> HIDE DEF p, c
  <2>4. p + 1 + c <= n /\ p + 1 + c <= Len(w) /\ p + 1 \in 1 .. ins /\ p + 1 # pos + 1
    <3> DEFINE m == Len(w)
               e == v[pos + 1]
    <3>1. pos \in Nat /\ ins \in Nat /\ n \in Nat /\ e \in Nat /\ ins = pos + 1 + e /\ ins <= n
          /\ m = n + 1
      BY <1>1, <1>2, Zenon
    <3> HIDE DEF m, e
    <3>2. p + 1 + c <= n /\ p + 1 + c <= m /\ p + 1 \in 1 .. ins /\ p + 1 # pos + 1
      BY <2>1, <3>1
    <3> QED BY <3>2, Zenon DEF m
  <2>5. w[p + 1] = v[p + 1]
    BY <2>4, <1>2, Zenon
  <2>6. \A k \in 1 .. c : w[k + p + 1] = v[k + p + 1]
    <3> SUFFICES ASSUME NEW k \in 1 .. c PROVE w[k + p + 1] = v[k + p + 1]
      OBVIOUS
    <3>1. k + p + 1 \in 1 .. ins /\ k + p + 1 # pos + 1
      BY <2>1, <1>1
    <3> QED BY <3>1, <1>2, Zenon
  <2>7. SameRun(v, p, w, p)
    BY <2>1, <2>3, <2>4, <2>5, <2>6, Zenon DEF SameRun, n
  <2> QED BY <2>2, <2>7 DEF p
<1>9. ASSUME NEW i \in 0 .. P - 1, idx < i
      PROVE  SameRun(v, st[i], w, t[i]) /\ t[i] = st[i] + 1 /\ t[i + 1] = st[i + 1] + 1
  <2> DEFINE p == st[i]
             c == v[st[i] + 1]
  <2>1. p \in Nat /\ c \in Nat /\ c >= 1 /\ p + 1 + c <= n /\ ins <= p
    <3>1. ins <= st[i] /\ st[i + 1] = st[i] + 1 + v[st[i] + 1] /\ st[i + 1] <= n
      BY <1>5, <1>7, <1>9
    <3> QED BY <3>1, <1>5
  <2>2. t[i] = p + 1 /\ t[i + 1] = st[i + 1] + 1
    <3>1. i \in 0 .. P /\ i + 1 \in 0 .. P /\ ~(i <= idx) /\ ~(i + 1 <= idx)
      BY <1>9
    <3> QED BY <3>1, <1>3
  <2>3. c = v[p + 1]
    OBVIOUS
  <2> HIDE DEF p, c
  <2>4. p + 1 + 1 + c <= Len(w) /\ p + 1 \in ins + 1 .. n
    BY <2>1, <1>1, <1>2
  <2>5. w[p + 1 + 1] = v[p + 1]
    BY <2>4, <1>2, Zenon
  <2>6. \A k \in 1 .. c : w[k + (p + 1) + 1] = v[k + p + 1]
    <3> SUFFICES ASSUME NEW k \in 1 .. c PROVE w[k + (p + 1) + 1] = v[k + p + 1]
      OBVIOUS
    <3>1. k + p + 1 \in ins + 1 .. n /\ k + p + 1 + 1 = k + (p + 1) + 1
      BY <2>1, <1>1
    <3>2. w[k + p + 1 + 1] = v[k + p + 1]
      BY <3>1, <1>2, Zenon
    <3> QED BY <3>1, <3>2
  <2>7. SameRun(v, p, w, p + 1)
    BY <2>1, <2>3, <2>4, <2>5, <2>6, Zenon DEF SameRun, n
  <2> QED BY <2>2, <2>7 DEF p
<1>10. t[idx] = pos /\ t[idx + 1] = ins + 1
  <2>1. idx \in 0 .. P /\ idx + 1 \in 0 .. P /\ idx <= idx /\ ~(idx + 1 <= idx)
    OBVIOUS
  <2> QED BY <2>1, <1>3 DEF pos, ins
<1>11. IsLayout(w, P, t)
  <2>1. t[0] = 0 /\ t[P] = Len(w) /\ t \in [0 .. P -> Nat]
    <3>1. 0 \in 0 .. P /\ P \in 0 .. P /\ 0 <= idx /\ ~(P <= idx)
      OBVIOUS
    <3>2. t[0] = 0 /\ t[P] = n + 1
      BY <3>1, <1>3, <1>4
    <3> QED BY <3>2, <1>2, Zenon DEF IsInserted
  <2>2. ASSUME NEW j \in 0 .. P - 1
        PROVE  w[t[j] + 1] \in Nat \ {0} /\ t[j + 1] = t[j] + 1 + w[t[j] + 1]
    <3>1. CASE j = idx
      <4>1. w[t[j] + 1] = v[pos + 1] + 1 /\ t[j] = pos /\ t[j + 1] = ins + 1
        BY <3>1, <1>2, <1>10, Zenon
      <4> DEFINE c == v[pos + 1]
      <4> HIDE DEF c
      <4>2. w[t[j] + 1] = c + 1 /\ c \in Nat /\ ins = pos + 1 + c /\ pos \in Nat
        BY <4>1, <1>1, Zenon DEF c
      <4> DEFINE x == w[t[j] + 1]
                 y == t[j]
                 z == t[j + 1]
      <4>3. x = c + 1 /\ y = pos /\ z = ins + 1
        BY <4>1, <4>2, Zenon
      <4> HIDE DEF x, y, z
      <4>4. x \in Nat \ {0} /\ z = y + 1 + x
        BY <4>2, <4>3
      <4> QED BY <4>4, Zenon DEF x, y, z
    <3>2. CASE j # idx
      <4>1. w[t[j] + 1] = v[st[j] + 1] /\ v[st[j] + 1] \in Nat /\ v[st[j] + 1] >= 1
            /\ st[j + 1] = st[j] + 1 + v[st[j] + 1] /\ st[j] \in Nat
        <5>1. j < idx \/ idx < j
          BY <3>2
        <5>2. SameRun(v, st[j], w, t[j])
          BY <5>1, <1>8, <1>9
        <5> QED BY <5>2, <1>5, Zenon DEF SameRun
      <4>2. \/ t[j] = st[j] /\ t[j + 1] = st[j + 1]
            \/ t[j] = st[j] + 1 /\ t[j + 1] = st[j + 1] + 1
        <5>1. j < idx \/ idx < j
          BY <3>2
        <5> QED BY <5>1, <1>8, <1>9
      <4> DEFINE c == v[st[j] + 1]
      <4> HIDE DEF c
      <4>3. w[t[j] + 1] = c /\ c \in Nat /\ c >= 1 /\ st[j + 1] = st[j] + 1 + c /\ st[j] \in Nat
        BY <4>1, Zenon DEF c
      <4> QED BY <4>2, <4>3
    <3> QED BY <3>1, <3>2
  <2> QED BY <2>1, <2>2, Zenon DEF IsLayout
<1>12. ASSUME NEW i \in 0 .. P - 1, i # idx PROVE slice(w, t[i]) = slice(v, st[i])
  <2>1. i < idx \/ idx < i
    BY <1>12
  <2>2. SameRun(v, st[i], w, t[i]) /\ (t[i] = st[i] \/ t[i] = st[i] + 1)
    BY <2>1, <1>8, <1>9
  <2>3. st[i] \in Nat
    BY <1>5
  <2>4. t[i] \in Nat
    BY <2>2, <2>3
  <2> QED BY <2>2, <2>3, <2>4, <1>2, SliceSame
<1>13. slice(w, t[idx]) = Append(slice(v, st[idx]), vout)
  <2> DEFINE c == v[pos + 1]
             a == SubSeq(w, pos + 2, pos + 1 + (c + 1))
             b == SubSeq(v, pos + 2, pos + 1 + c)
  <2>1. slice(w, t[idx]) = a /\ slice(v, st[idx]) = b
    BY <1>2, <1>10, Zenon DEF slice, pos
  <2>2. c \in Nat /\ c >= 1 /\ ins = pos + 1 + c /\ pos \in Nat /\ ins <= n /\ n \in Nat
    BY <1>1, Zenon
  <2> HIDE DEF c
  <2>3. b \in Seq(Nat) /\ Len(b) = c /\ \A k \in 1 .. c : b[k] = v[k + pos + 1]
    BY <2>2 DEF n
  <2>4. a \in Seq(Nat) /\ Len(a) = c + 1 /\ \A k \in 1 .. c + 1 : a[k] = w[k + pos + 1]
    BY <2>2, <1>2
  <2> HIDE DEF a, b
  <2> DEFINE e == Append(b, vout)
  <2>5. e \in Seq(Nat) /\ Len(e) = c + 1 /\ e[c + 1] = vout /\ \A k \in 1 .. c : e[k] = b[k]
    BY <2>3
  <2> HIDE DEF e
  <2>6. ASSUME NEW k \in 1 .. c + 1 PROVE a[k] = e[k]
    <3>1. CASE k = c + 1
      <4>1. k + pos + 1 = ins + 1
        BY <3>1, <2>2
      <4>2. a[k] = w[k + pos + 1]
        BY <2>4
      <4>3. w[ins + 1] = vout
        BY <1>2
      <4> QED BY <3>1, <4>1, <4>2, <4>3, <2>5
    <3>2. CASE k # c + 1
      <4>1. k \in 1 .. c /\ k + pos + 1 \in 1 .. ins /\ k + pos + 1 # pos + 1
        BY <3>2, <2>2
      <4>2. w[k + pos + 1] = v[k + pos + 1]
        BY <4>1, <1>2, Zenon
      <4> QED BY <4>1, <4>2, <2>3, <2>4, <2>5
    <3> QED BY <3>1, <3>2
  <2>7. a = e
    BY <2>4, <2>5, <2>6, SeqEqual
  <2> QED BY <2>1, <2>7 DEF e
<1> QED BY <1>11, <1>12, <1>13

-----------------------------------------------------------------------------
(* Reading the fields back.                                                *)

\* As far as it goes, b has the array v behind its first P + 1 fields.
Follows(b, P, v) ==
  \A k \in 1 .. Len(v) : 1 + P + k <= Len(b) => b[1 + P + k] = v[k]

\* Where the reader is after i runs, or that b has ended.
endOf(b, P, st, i) == IF 1 + P + st[i] <= Len(b) THEN 1 + P + st[i] ELSE -1

\* One run further.
LEMMA RunEnds ==
  ASSUME NEW b, Len(b) \in Nat, NEW P \in Nat, NEW v \in Seq(Nat), NEW st,
         IsLayout(v, P, st), Follows(b, P, v), NEW i \in 0 .. P - 1
  PROVE  runEnd(b, endOf(b, P, st, i)) = endOf(b, P, st, i + 1)
<1> DEFINE p == st[i]
           c == v[st[i] + 1]
           l == Len(b)
           n == Len(v)
           q == st[i + 1]
<1>1. p \in Nat /\ c \in Nat /\ c >= 1 /\ q = p + 1 + c /\ q <= n /\ n \in Nat /\ l \in Nat
  BY LayoutRun
<1>2. c = v[p + 1]
  OBVIOUS
<1>3. \A k \in 1 .. n : 1 + P + k <= l => b[1 + P + k] = v[k]
  BY Zenon DEF Follows
<1> DEFINE x == endOf(b, P, st, i)
           y == endOf(b, P, st, i + 1)
<1>4. /\ x = IF 1 + P + p <= l THEN 1 + P + p ELSE -1
      /\ y = IF 1 + P + q <= l THEN 1 + P + q ELSE -1
  BY Zenon DEF endOf
<1> SUFFICES runEnd(b, x) = y
  OBVIOUS
<1> HIDE DEF p, c, n, q, x, y
<1>5. runEnd(b, x) = IF x # -1 /\ x < l /\ x + 1 + b[x + 1] <= l THEN x + 1 + b[x + 1] ELSE -1
  BY Zenon DEF runEnd
<1> HIDE DEF l
<1>6. CASE 1 + P + p + 1 <= l
  <2>1. x = 1 + P + p /\ p + 1 \in 1 .. n /\ 1 + P + (p + 1) = x + 1 /\ 1 + P + (p + 1) <= l
    BY <1>1, <1>4, <1>6
  <2>2. b[x + 1] = c
    BY <2>1, <1>2, <1>3
  <2> QED BY <2>1, <2>2, <1>1, <1>4, <1>5, <1>6
<1>7. CASE ~(1 + P + p + 1 <= l)
  <2>1. y = -1 /\ ~(x # -1 /\ x < l)
    BY <1>1, <1>4, <1>7
  <2> QED BY <2>1, <1>5
<1> QED BY <1>6, <1>7

\* The loop of deserializeFromReader stops behind the last run, or at the end.
LEMMA LoopEnds ==
  ASSUME NEW b, Len(b) \in Nat, NEW P \in Nat, NEW v \in Seq(Nat), NEW st,
         IsLayout(v, P, st), Follows(b, P, v), 1 + P <= Len(b), NEW end,
         end = CHOOSE f : f = [i \in 0 .. P |-> IF i = 0 THEN 1 + P ELSE runEnd(b, f[i - 1])]
  PROVE  end[P] = IF 1 + P + Len(v) <= Len(b) THEN 1 + P + Len(v) ELSE -1
<1> DEFINE Q(f) == f = [i \in 0 .. P |-> IF i = 0 THEN 1 + P ELSE runEnd(b, f[i - 1])]
           r == [i \in 0 .. P |-> endOf(b, P, st, i)]
<1>1. \A i \in 0 .. P : endOf(b, P, st, i)
                          = IF i = 0 THEN 1 + P ELSE runEnd(b, endOf(b, P, st, i - 1))
  <2> SUFFICES ASSUME NEW i \in 0 .. P
               PROVE  endOf(b, P, st, i)
                          = IF i = 0 THEN 1 + P ELSE runEnd(b, endOf(b, P, st, i - 1))
    OBVIOUS
  <2>1. CASE i = 0
    <3>1. st[0] = 0
      BY DEF IsLayout
    <3> QED BY <2>1, <3>1 DEF endOf
  <2>2. CASE i # 0
    <3>1. i - 1 \in 0 .. P - 1 /\ (i - 1) + 1 = i
      BY <2>2
    <3>2. runEnd(b, endOf(b, P, st, i - 1)) = endOf(b, P, st, (i - 1) + 1)
      BY <3>1, RunEnds
    <3> QED BY <2>2, <3>1, <3>2
  <2> QED BY <2>1, <2>2
<1>2. Q(r)
  <2>1. \A i \in 0 .. P : i # 0 => r[i - 1] = endOf(b, P, st, i - 1)
    OBVIOUS
  <2>2. \A i \in 0 .. P : endOf(b, P, st, i) = IF i = 0 THEN 1 + P ELSE runEnd(b, r[i - 1])
    <3> HIDE DEF r
    <3> QED BY <1>1, <2>1
  <2> QED BY <2>2
<1>3. end = CHOOSE f : Q(f)
  OBVIOUS
<1> HIDE DEF Q
<1>4. Q(end)
  BY <1>2, <1>3
<1>5. \A i \in 0 .. P : end[i] = IF i = 0 THEN 1 + P ELSE runEnd(b, end[i - 1])
  BY <1>4, Zenon DEF Q
<1> DEFINE T == {i \in 0 .. P : end[i] # endOf(b, P, st, i)}
<1>6. ASSUME T # {} PROVE FALSE
  <2>1. T \in SUBSET Nat
    OBVIOUS
  <2>2. PICK k \in T : \A l \in T : k <= l
    <3> HIDE DEF T
    <3> QED BY <2>1, <1>6, MinExists
  <2>3. k \in 0 .. P /\ end[k] # endOf(b, P, st, k)
    OBVIOUS
  <2>4. CASE k = 0
    BY <2>3, <2>4, <1>1, <1>5
  <2>5. CASE k # 0
    <3>1. k - 1 \in 0 .. P /\ ~(k <= k - 1)
      BY <2>3, <2>5
    <3>2. end[k - 1] = endOf(b, P, st, k - 1)
      BY <3>1, <2>2
    <3> HIDE DEF T
    <3> QED BY <2>3, <2>5, <3>2, <1>1, <1>5
  <2> QED BY <2>4, <2>5
<1>7. P \in 0 .. P
  OBVIOUS
<1>8. end[P] = endOf(b, P, st, P)
  BY <1>6, <1>7
<1>9. st[P] = Len(v)
  BY DEF IsLayout
<1> QED BY <1>8, <1>9, Zenon DEF endOf

\* As far as it goes, b is what Serialize writes for hs and v.
Encodes(b, hs, v) ==
  /\ \E S : b \in Seq(S)
  /\ Len(b) >= 1 => b[1] = Len(hs)
  /\ \A k \in 1 .. Len(hs) : 1 + k <= Len(b) => b[1 + k] = hs[k]
  /\ Follows(b, Len(hs), v)

\* From at least as many fields as were written come the hashes and the array,
\* and no field behind them is read.
LEMMA DecodeWhole ==
  ASSUME NEW S, NEW hs \in Seq(S), NEW v \in Seq(Nat), NEW st, IsLayout(v, Len(hs), st),
         NEW b, Encodes(b, hs, v), Len(b) >= 1 + Len(hs) + Len(v)
  PROVE  /\ deserialize(b).ok
         /\ deserialize(b).used = 1 + Len(hs) + Len(v)
         /\ deserialize(b).hashes = hs
         /\ deserialize(b).idxs = v
<1> DEFINE P == Len(hs)
           n == Len(v)
           l == Len(b)
           p == b[1]
           end == CHOOSE f : f = [i \in 0 .. p |-> IF i = 0 THEN 1 + p ELSE runEnd(b, f[i - 1])]
<1>1. PICK U : b \in Seq(U)
  BY DEF Encodes
<1>2. P \in Nat /\ n \in Nat /\ l \in Nat /\ l >= 1 + P + n
  BY <1>1
<1>3. p = P /\ b # << >>
  BY <1>1, <1>2 DEF Encodes
<1>4. deserialize(b) =
        IF p = 0 THEN [ok |-> TRUE, used |-> 1, hashes |-> << >>, idxs |-> << >>]
        ELSE IF l < 1 + p \/ end[p] = -1 THEN [ok |-> FALSE]
        ELSE [ok |-> TRUE, used |-> end[p], hashes |-> SubSeq(b, 2, 1 + p),
              idxs |-> SubSeq(b, 2 + p, end[p])]
  BY <1>3 DEF deserialize
<1>5. CASE P = 0
  <2>1. n = 0
    BY <1>5 DEF IsLayout
  <2>2. hs = << >> /\ v = << >>
    BY <1>5, <2>1
  <2> QED BY <1>3, <1>4, <1>5, <2>1, <2>2
<1>6. CASE P # 0
  <2>1. end[p] = 1 + P + n
    <3>1. Follows(b, p, v) /\ IsLayout(v, p, st) /\ 1 + p <= l /\ l \in Nat /\ p \in Nat
      BY <1>2, <1>3 DEF Encodes
    <3> HIDE DEF p
    <3>2. end[p] = IF 1 + p + n <= l THEN 1 + p + n ELSE -1
      BY <3>1, LoopEnds
    <3> QED BY <3>2, <1>2, <1>3
  <2> HIDE DEF end
  <2> DEFINE a == SubSeq(b, 2, 1 + P)
             c == SubSeq(b, 2 + P, 1 + P + n)
  <2>2. a \in Seq(U) /\ Len(a) = P /\ \A k \in 1 .. P : a[k] = b[1 + k]
    BY <1>1, <1>2
  <2>3. c \in Seq(U) /\ Len(c) = n /\ \A k \in 1 .. n : c[k] = b[1 + P + k]
    BY <1>1, <1>2
  <2>4. \A k \in 1 .. P : b[1 + k] = hs[k]
    BY <1>2 DEF Encodes
  <2>5. \A k \in 1 .. n : b[1 + P + k] = v[k]
    BY <1>2 DEF Encodes, Follows
  <2>6. deserialize(b) = [ok |-> TRUE, used |-> 1 + P + n, hashes |-> a, idxs |-> c]
    BY <1>2, <1>3, <1>4, <1>6, <2>1
  <2> HIDE DEF a, c
  <2>7. a = hs
    BY <2>2, <2>4, SeqEqual
  <2>8. c = v
    BY <2>3, <2>5, SeqEqual
  <2> QED BY <2>6, <2>7, <2>8
<1> QED BY <1>5, <1>6

\* Fewer fields than were written are an error.
LEMMA DecodeShort ==
  ASSUME NEW S, NEW hs \in Seq(S), NEW v \in Seq(Nat), NEW st, IsLayout(v, Len(hs), st),
         NEW b, Encodes(b, hs, v), Len(b) < 1 + Len(hs) + Len(v)
  PROVE  ~deserialize(b).ok
<1> DEFINE P == Len(hs)
           n == Len(v)
           l == Len(b)
           p == b[1]
           end == CHOOSE f : f = [i \in 0 .. p |-> IF i = 0 THEN 1 + p ELSE runEnd(b, f[i - 1])]
<1>1. PICK U : b \in Seq(U)
  BY DEF Encodes
<1>2. P \in Nat /\ n \in Nat /\ l \in Nat /\ l < 1 + P + n
  BY <1>1
<1>3. CASE b = << >>
  BY <1>3 DEF deserialize
<1>4. CASE b # << >>
  <2>1. p = P /\ l >= 1
    BY <1>1, <1>2, <1>4 DEF Encodes
  <2>2. deserialize(b) =
          IF p = 0 THEN [ok |-> TRUE, used |-> 1, hashes |-> << >>, idxs |-> << >>]
          ELSE IF l < 1 + p \/ end[p] = -1 THEN [ok |-> FALSE]
          ELSE [ok |-> TRUE, used |-> end[p], hashes |-> SubSeq(b, 2, 1 + p),
                idxs |-> SubSeq(b, 2 + p, end[p])]
    BY <1>4 DEF deserialize
  <2>3. P # 0
    <3>1. P = 0 => n = 0
      BY DEF IsLayout
    <3> QED BY <3>1, <2>1, <1>2
  <2>4. CASE l < 1 + p
    BY <2>1, <2>2, <2>3, <2>4
  <2>5. CASE 1 + p <= l
    <3>1. Follows(b, p, v) /\ IsLayout(v, p, st) /\ 1 + p <= l /\ l \in Nat /\ p \in Nat
      BY <1>2, <2>1, <2>5 DEF Encodes
    <3> HIDE DEF p
    <3>2. end[p] = IF 1 + p + n <= l THEN 1 + p + n ELSE -1
      BY <3>1, LoopEnds
    <3>3. end[p] = -1
      BY <3>2, <1>2, <2>1
    <3> HIDE DEF end
    <3> QED BY <3>3, <2>1, <2>2, <2>3
  <2> QED BY <1>2, <2>1, <2>4, <2>5
<1> QED BY <1>3, <1>4

-----------------------------------------------------------------------------
(* The operators of the model, for a list hs of parents and an array v.    *)

\* slices.Index of hash in s, counting from 0, or -1.
indexIn(s, hash) ==
  IF Contains(s, hash) THEN (CHOOSE i \in DOMAIN s : s[i] = hash) - 1 ELSE -1

\* The array v is divided into as many runs as there are parents, none of them
\* empty; the walk finds them.
Packed(hs, v) == IsLayout(v, Len(hs), [i \in 0 .. Len(hs) |-> walk(v, i)])

\* The outputs spent of each parent.
spentOf(hs, v) == [hash \in ToSet(hs) |-> slice(v, walk(v, indexIn(hs, hash)))]

\* A division into runs is the one the walk finds.
LEMMA WalkIsLayout ==
  ASSUME NEW v, NEW P \in Nat, NEW st, IsLayout(v, P, st)
  PROVE  [i \in 0 .. P |-> walk(v, i)] = st
<1>1. \A i \in 0 .. P : walk(v, i) = st[i]
  BY WalkFinds
<1>2. st \in [0 .. P -> Nat]
  BY DEF IsLayout
<1>3. st = [i \in 0 .. P |-> st[i]]
  BY <1>2
<1> QED BY <1>1, <1>3, Zenon

\* It is the place of hash, if it has one.
LEMMA IndexInLemma ==
  ASSUME NEW S, NEW s \in Seq(S), NEW hash
  PROVE  /\ Contains(s, hash) => /\ indexIn(s, hash) \in 0 .. Len(s) - 1
                                 /\ indexIn(s, hash) + 1 \in 1 .. Len(s)
                                 /\ s[indexIn(s, hash) + 1] = hash
         /\ ~Contains(s, hash) => indexIn(s, hash) = -1
         /\ Contains(s, hash) <=> hash \in ToSet(s)
         /\ indexIn(s, hash) = -1 <=> ~Contains(s, hash)
<1> DEFINE c == CHOOSE i \in DOMAIN s : s[i] = hash
<1>1. DOMAIN s = 1 .. Len(s) /\ Len(s) \in Nat
  OBVIOUS
<1>2. ASSUME Contains(s, hash) PROVE c \in 1 .. Len(s) /\ s[c] = hash /\ indexIn(s, hash) = c - 1
  <2>1. \E i \in DOMAIN s : s[i] = hash
    BY <1>1, <1>2 DEF Contains
  <2>2. c \in DOMAIN s /\ s[c] = hash
    BY <2>1
  <2> QED BY <1>1, <1>2, <2>2 DEF indexIn
<1> HIDE DEF c
<1>3. Contains(s, hash) => /\ indexIn(s, hash) \in 0 .. Len(s) - 1
                           /\ indexIn(s, hash) + 1 \in 1 .. Len(s)
                           /\ s[indexIn(s, hash) + 1] = hash
  <2> SUFFICES ASSUME Contains(s, hash)
               PROVE  /\ indexIn(s, hash) \in 0 .. Len(s) - 1
                      /\ indexIn(s, hash) + 1 \in 1 .. Len(s)
                      /\ s[indexIn(s, hash) + 1] = hash
    OBVIOUS
  <2>1. indexIn(s, hash) + 1 = c
    BY <1>1, <1>2
  <2> QED BY <1>1, <1>2, <2>1
<1>4. ~Contains(s, hash) => indexIn(s, hash) = -1
  BY DEF indexIn
<1>5. Contains(s, hash) <=> hash \in ToSet(s)
  BY <1>1 DEF Contains, ToSet
<1>6. Contains(s, hash) => indexIn(s, hash) # -1
  BY <1>1, <1>3
<1> QED BY <1>3, <1>4, <1>5, <1>6

\* Two words at the end extend the array.
LEMMA AppendExtends ==
  ASSUME NEW v \in Seq(Nat), NEW P \in Nat, NEW st, IsLayout(v, P, st), NEW vout \in Nat
  PROVE  \E t : IsExtended(v, P, st, vout, v \o <<1, vout>>, t)
<1> DEFINE w == v \o <<1, vout>>
           t == [j \in 0 .. P + 1 |-> IF j = P + 1 THEN Len(v) + 2 ELSE st[j]]
<1>1. Len(v) \in Nat /\ \A j \in 0 .. P : st[j] \in Nat
  BY DEF IsLayout
<1>2. <<1, vout>> \in Seq(Nat) /\ Len(<<1, vout>>) = 2
  OBVIOUS
<1>3. w \in Seq(Nat) /\ Len(w) = Len(v) + 2
  BY <1>2
<1>4. (\A k \in 1 .. Len(v) : w[k] = v[k]) /\ w[Len(v) + 1] = 1 /\ w[Len(v) + 2] = vout
  BY <1>2
<1>5. t[P + 1] = Len(v) + 2 /\ \A j \in 0 .. P : t[j] = st[j]
  OBVIOUS
<1>6. t \in [0 .. P + 1 -> Nat]
  <2>1. \A j \in 0 .. P + 1 : (IF j = P + 1 THEN Len(v) + 2 ELSE st[j]) \in Nat
    <3> SUFFICES ASSUME NEW j \in 0 .. P + 1, j # P + 1 PROVE st[j] \in Nat
      BY <1>1
    <3>1. j \in 0 .. P
      OBVIOUS
    <3> QED BY <3>1, <1>1
  <2> QED BY <2>1
<1> HIDE DEF w, t
<1>7. IsExtended(v, P, st, vout, w, t)
  BY <1>3, <1>4, <1>5, <1>6, Zenon DEF IsExtended
<1> QED BY <1>7 DEF w

\* withVout, for the array v.
insertedInto(v, p, vout) ==
  LET at == p + 1 + v[p + 1]
  IN  [k \in 1 .. Len(v) + 1 |-> CASE k = at + 1 -> vout
                                   [] k > at + 1 -> v[k - 1]
                                   [] k = p + 1  -> v[k] + 1
                                   [] OTHER      -> v[k]]

\* It adds vout to the run that is at p.
LEMMA WithVoutInserts ==
  ASSUME NEW v \in Seq(Nat), NEW P \in Nat, NEW st, IsLayout(v, P, st),
         NEW idx \in 0 .. P - 1, NEW vout \in Nat
  PROVE  \E t : IsInserted(v, P, st, idx, vout, insertedInto(v, st[idx], vout), t)
<1> DEFINE w == insertedInto(v, st[idx], vout)
           t == [j \in 0 .. P |-> IF j <= idx THEN st[j] ELSE st[j] + 1]
           pos == st[idx]
           ins == st[idx + 1]
           n == Len(v)
           c == v[st[idx] + 1]
           e(k) == CASE k = ins + 1 -> vout
                     [] k > ins + 1 -> v[k - 1]
                     [] k = pos + 1 -> v[k] + 1
                     [] OTHER       -> v[k]
<1>1. pos \in Nat /\ ins \in Nat /\ n \in Nat /\ c \in Nat /\ c >= 1 /\ ins = pos + 1 + c
      /\ ins <= n /\ c = v[pos + 1]
  BY LayoutRun
<1>2. \A j \in 0 .. P : st[j] \in Nat
  BY DEF IsLayout
<1>3. t \in [0 .. P -> Nat]
  BY <1>2
<1>4. \A j \in 0 .. P : t[j] = IF j <= idx THEN st[j] ELSE st[j] + 1
  OBVIOUS
<1> HIDE DEF t
<1>5. w = [k \in 1 .. n + 1 |-> CASE k = pos + 1 + v[pos + 1] + 1 -> vout
                     [] k > pos + 1 + v[pos + 1] + 1 -> v[k - 1]
                     [] k = pos + 1 -> v[k] + 1
                     [] OTHER       -> v[k]]
  BY DEF insertedInto
<1>6. w = [k \in 1 .. n + 1 |-> e(k)]
  <2>1. ins = pos + 1 + v[pos + 1]
    BY <1>1
  <2> HIDE DEF w, pos, ins, n
  <2> QED BY <1>5, <2>1
<1>7. \A k \in 1 .. n : v[k] \in Nat
  OBVIOUS
<1> HIDE DEF w, pos, ins, n, c
<1>8. ASSUME NEW k \in 1 .. n + 1
      PROVE  /\ w[k] = e(k)
             /\ k \in 1 .. ins /\ k # pos + 1 => e(k) = v[k]
             /\ k = pos + 1 => e(k) = c + 1
             /\ k = ins + 1 => e(k) = vout
             /\ k > ins + 1 => e(k) = v[k - 1] /\ k - 1 \in 1 .. n
             /\ e(k) \in Nat
  <2>1. w[k] = e(k)
    <3> HIDE DEF e
    <3> QED BY <1>6
  <2>2. ASSUME k \in 1 .. ins, k # pos + 1 PROVE e(k) = v[k] /\ k \in 1 .. n
    <3>1. k # ins + 1 /\ ~(k > ins + 1) /\ k \in 1 .. n
      BY <1>1, <2>2
    <3> QED BY <2>2, <3>1, Zenon
  <2>3. k = pos + 1 => e(k) = c + 1
    BY <1>1
  <2>4. ASSUME k = ins + 1 PROVE e(k) = vout
    <3>1. k # pos + 1 /\ ~(k > ins + 1)
      BY <1>1, <2>4
    <3> QED BY <2>4, <3>1, Zenon
  <2>5. ASSUME k > ins + 1 PROVE e(k) = v[k - 1] /\ k - 1 \in 1 .. n
    <3>1. k # pos + 1 /\ k # ins + 1 /\ k - 1 \in 1 .. n
      BY <1>1, <2>5
    <3> QED BY <2>5, <3>1, Zenon
  <2>6. k \in 1 .. ins \/ k = ins + 1 \/ k > ins + 1
    BY <1>1
  <2>7. e(k) \in Nat
    <3> HIDE DEF e
    <3>1. CASE k = pos + 1
      BY <3>1, <2>3, <1>1
    <3>2. CASE k \in 1 .. ins /\ k # pos + 1
      BY <3>2, <2>2, <1>7
    <3>3. CASE k = ins + 1
      BY <3>3, <2>4
    <3>4. CASE k > ins + 1
      BY <3>4, <2>5, <1>7
    <3> QED BY <2>6, <3>1, <3>2, <3>3, <3>4
  <2> HIDE DEF e
  <2> QED BY <2>1, <2>2, <2>3, <2>4, <2>5, <2>7
<1>9. w \in Seq(Nat) /\ Len(w) = n + 1
  <2>1. w \in [1 .. n + 1 -> Nat]
    <3> HIDE DEF e
    <3> QED BY <1>6, <1>8
  <2> HIDE DEF e
  <2>2. n + 1 \in Nat
    BY <1>1
  <2> QED BY <2>1, <2>2
<1> HIDE DEF e
<1>10. \A k \in 1 .. ins : k # pos + 1 => w[k] = v[k]
  <2> SUFFICES ASSUME NEW k \in 1 .. ins, k # pos + 1 PROVE w[k] = v[k]
    OBVIOUS
  <2>1. k \in 1 .. n + 1
    BY <1>1
  <2> QED BY <2>1, <1>8
<1>11. w[pos + 1] = v[pos + 1] + 1 /\ w[ins + 1] = vout
  <2>1. pos + 1 \in 1 .. n + 1 /\ ins + 1 \in 1 .. n + 1
    <3>1. pos \in Nat /\ ins \in Nat /\ n \in Nat /\ c \in Nat /\ ins = pos + 1 + c /\ ins <= n
      BY <1>1, Zenon
    <3> QED BY <3>1
  <2>2. w[pos + 1] = e(pos + 1) /\ e(pos + 1) = c + 1
    BY <2>1, <1>8, Zenon
  <2>3. w[ins + 1] = e(ins + 1) /\ e(ins + 1) = vout
    BY <2>1, <1>8, Zenon
  <2>4. c + 1 = v[pos + 1] + 1
    BY <1>1, Zenon
  <2> QED BY <2>2, <2>3, <2>4, Zenon
<1>12. \A k \in ins + 1 .. n : w[k + 1] = v[k]
  <2> SUFFICES ASSUME NEW k \in ins + 1 .. n PROVE w[k + 1] = v[k]
    OBVIOUS
  <2>1. k + 1 \in 1 .. n + 1 /\ k + 1 > ins + 1 /\ (k + 1) - 1 = k
    BY <1>1
  <2> QED BY <2>1, <1>8
<1>13. IsInserted(v, P, st, idx, vout, w, t)
  BY <1>3, <1>4, <1>9, <1>10, <1>11, <1>12, Zenon DEF IsInserted, pos, ins, n
<1> QED BY <1>13 DEF w

\* Where no element is listed twice, each has one place.
LEMMA IndexUnique ==
  ASSUME NEW S, NEW s \in Seq(S), IsInjective(s), NEW i \in 0 .. Len(s) - 1
  PROVE  indexIn(s, s[i + 1]) = i /\ s[i + 1] \in ToSet(s)
<1> DEFINE h == s[i + 1]
           k == indexIn(s, h)
<1>1. Len(s) \in Nat /\ i + 1 \in 1 .. Len(s) /\ DOMAIN s = 1 .. Len(s)
  OBVIOUS
<1>2. Contains(s, h)
  BY <1>1 DEF Contains
<1>3. h = s[i + 1]
  OBVIOUS
<1> HIDE DEF h
<1>4. k \in 0 .. Len(s) - 1 /\ k + 1 \in 1 .. Len(s) /\ s[k + 1] = h /\ h \in ToSet(s)
  BY <1>2, IndexInLemma
<1> HIDE DEF k
<1>5. k + 1 = i + 1
  BY <1>1, <1>3, <1>4, Zenon DEF IsInjective
<1>6. k = i
  BY <1>1, <1>4, <1>5
<1> QED BY <1>3, <1>4, <1>6 DEF k, h

\* What is known of the list hs and the array v.
IsState(hs, v) ==
  hs \in Seq(Parents) /\ IsInjective(hs) /\ v \in Seq(Nat) /\ Packed(hs, v)

\* From hs and v to gs and w, output vout of transaction hash is added to the map.
Spends(hs, v, gs, w, hash, vout) ==
  /\ gs = IF hash \in ToSet(hs) THEN hs ELSE Append(hs, hash)
  /\ spentOf(gs, w) = [p \in ToSet(hs) \cup {hash} |->
                         IF p # hash THEN spentOf(hs, v)[p]
                         ELSE IF hash \in ToSet(hs) THEN Append(spentOf(hs, v)[hash], vout)
                         ELSE <<vout>>]

\* A parent that is new: it comes last, with one output.
LEMMA AppendNew ==
  ASSUME NEW hs, NEW v, IsState(hs, v), NEW hash \in Parents, NEW vout \in Nat,
         ~Contains(hs, hash)
  PROVE  /\ IsState(Append(hs, hash), v \o <<1, vout>>)
         /\ Spends(hs, v, Append(hs, hash), v \o <<1, vout>>, hash, vout)
<1> DEFINE S == Parents
           gs == Append(hs, hash)
           w == v \o <<1, vout>>
<1> SUFFICES IsState(gs, w) /\ Spends(hs, v, gs, w, hash, vout)
  OBVIOUS
<1>0. hs \in Seq(S) /\ IsInjective(hs) /\ v \in Seq(Nat) /\ Packed(hs, v)
  BY DEF IsState
<1> USE <1>0
<1> DEFINE P == Len(hs)
           st == [i \in 0 .. P |-> walk(v, i)]
<1>1. IsLayout(v, P, st) /\ P \in Nat
  BY DEF Packed
<1>2. \A i \in 0 .. P : st[i] = walk(v, i)
  OBVIOUS
<1> HIDE DEF st
<1>3. PICK t : IsExtended(v, P, st, vout, w, t)
  <2> HIDE DEF P
  <2> QED BY <1>1, AppendExtends
<1> HIDE DEF w
<1>4. /\ IsLayout(w, P + 1, t)
      /\ \A i \in 0 .. P - 1 : slice(w, t[i]) = slice(v, st[i])
      /\ slice(w, t[P]) = <<vout>>
  BY <1>1, <1>3, NewParent
<1>5. w \in Seq(Nat)
  BY <1>3 DEF IsExtended
<1>6. gs \in Seq(S) /\ Len(gs) = P + 1 /\ gs[P + 1] = hash /\ \A i \in 1 .. P : gs[i] = hs[i]
  OBVIOUS
<1>7. DOMAIN gs = 1 .. P + 1 /\ DOMAIN hs = 1 .. P
  BY <1>6
<1>8. hash \notin ToSet(hs) /\ \A i \in 1 .. P : hs[i] # hash
  <2>1. hash \notin ToSet(hs)
    BY IndexInLemma
  <2> QED BY <2>1, <1>7 DEF ToSet
<1>9. IsInjective(gs)
  <2> SUFFICES ASSUME NEW a \in 1 .. P + 1, NEW b \in 1 .. P + 1, gs[a] = gs[b] PROVE a = b
    BY <1>7 DEF IsInjective
  <2>1. CASE a \in 1 .. P /\ b \in 1 .. P
    <3>1. hs[a] = hs[b]
      BY <2>1, <1>6
    <3> QED BY <2>1, <3>1, <1>7 DEF IsInjective
  <2>2. CASE ~(a \in 1 .. P /\ b \in 1 .. P)
    <3>1. a = P + 1 \/ b = P + 1
      BY <2>2, <1>1
    <3>2. \A i \in 1 .. P + 1 : i # P + 1 => i \in 1 .. P
      BY <1>1
    <3> QED BY <3>1, <3>2, <1>6, <1>8
  <2> QED BY <2>1, <2>2
<1>10. ToSet(gs) = ToSet(hs) \cup {hash}
  <2>1. 1 .. P + 1 = (1 .. P) \cup {P + 1}
    BY <1>1
  <2> QED BY <2>1, <1>6, <1>7 DEF ToSet
<1>11. \A i \in 0 .. P + 1 : walk(w, i) = t[i]
  BY <1>1, <1>4, WalkFinds
<1>12. Packed(gs, w)
  <2>1. [i \in 0 .. P + 1 |-> walk(w, i)] = t
    BY <1>1, <1>4, WalkIsLayout
  <2> QED BY <2>1, <1>4, <1>6 DEF Packed
<1>13. ASSUME NEW p \in ToSet(hs)
       PROVE  slice(w, walk(w, indexIn(gs, p))) = spentOf(hs, v)[p]
  <2> DEFINE i == indexIn(hs, p)
  <2>1. i \in 0 .. P - 1 /\ i + 1 \in 1 .. P /\ hs[i + 1] = p
    <3>1. Contains(hs, p)
      BY IndexInLemma
    <3> QED BY <3>1, IndexInLemma
  <2>2. spentOf(hs, v)[p] = slice(v, walk(v, i))
    BY DEF spentOf
  <2> HIDE DEF i
  <2>3. i \in 0 .. Len(gs) - 1 /\ gs[i + 1] = p /\ i \in 0 .. P /\ i \in 0 .. P + 1
    BY <2>1, <1>1, <1>6
  <2>4. indexIn(gs, p) = i
    BY <2>3, <1>6, <1>9, IndexUnique
  <2>5. slice(w, t[i]) = slice(v, st[i])
    BY <2>1, <1>4
  <2> QED BY <2>2, <2>3, <2>4, <2>5, <1>2, <1>11
<1>14. slice(w, walk(w, indexIn(gs, hash))) = <<vout>>
  <2>1. P \in 0 .. Len(gs) - 1 /\ P \in 0 .. P + 1
    BY <1>1, <1>6
  <2>2. indexIn(gs, hash) = P
    BY <2>1, <1>6, <1>9, IndexUnique
  <2> QED BY <2>1, <2>2, <1>4, <1>11
<1>15. spentOf(gs, w) = [p \in ToSet(hs) \cup {hash} |->
                           IF p # hash THEN spentOf(hs, v)[p] ELSE <<vout>>]
  <2>1. \A p \in ToSet(hs) \cup {hash} :
          slice(w, walk(w, indexIn(gs, p))) = IF p # hash THEN spentOf(hs, v)[p] ELSE <<vout>>
    BY <1>8, <1>13, <1>14
  <2> QED BY <2>1, <1>10 DEF spentOf
<1>16. IsState(gs, w)
  BY <1>5, <1>6, <1>9, <1>12 DEF IsState
<1> HIDE DEF w
<1>17. Spends(hs, v, gs, w, hash, vout)
  <2>1. gs = Append(hs, hash)
    OBVIOUS
  <2> HIDE DEF gs
  <2> QED BY <2>1, <1>8, <1>15, Zenon DEF Spends
<1> QED BY <1>16, <1>17

\* A parent that is known: the output is added to its own.
LEMMA AppendKnown ==
  ASSUME NEW hs, NEW v, IsState(hs, v), NEW hash \in Parents, NEW vout \in Nat,
         Contains(hs, hash),
         NEW w, w = insertedInto(v, walk(v, indexIn(hs, hash)), vout)
  PROVE  IsState(hs, w) /\ Spends(hs, v, hs, w, hash, vout)
<1>0. hs \in Seq(Parents) /\ IsInjective(hs) /\ v \in Seq(Nat) /\ Packed(hs, v)
  BY DEF IsState
<1> USE <1>0
<1> DEFINE P == Len(hs)
           st == [i \in 0 .. P |-> walk(v, i)]
           idx == indexIn(hs, hash)
<1>1. IsLayout(v, P, st) /\ P \in Nat
  BY DEF Packed
<1>2. \A i \in 0 .. P : st[i] = walk(v, i)
  OBVIOUS
<1> HIDE DEF st
<1>3. idx \in 0 .. P - 1 /\ idx \in 0 .. P /\ hs[idx + 1] = hash /\ hash \in ToSet(hs)
  BY <1>1, IndexInLemma
<1>4. w = insertedInto(v, st[idx], vout)
  BY <1>2, <1>3
<1> HIDE DEF idx
<1>5. PICK t : IsInserted(v, P, st, idx, vout, w, t)
  BY <1>1, <1>3, <1>4, WithVoutInserts
<1>6. /\ IsLayout(w, P, t)
      /\ \A i \in 0 .. P - 1 : i # idx => slice(w, t[i]) = slice(v, st[i])
      /\ slice(w, t[idx]) = Append(slice(v, st[idx]), vout)
  BY <1>1, <1>3, <1>5, KnownParent
<1>7. w \in Seq(Nat)
  BY <1>5 DEF IsInserted
<1>8. \A i \in 0 .. P : walk(w, i) = t[i]
  BY <1>1, <1>6, WalkFinds
<1>9. Packed(hs, w)
  <2>1. [i \in 0 .. P |-> walk(w, i)] = t
    BY <1>1, <1>6, WalkIsLayout
  <2> QED BY <2>1, <1>6 DEF Packed
<1>10. ASSUME NEW p \in ToSet(hs)
       PROVE  slice(w, walk(w, indexIn(hs, p)))
                = IF p # hash THEN spentOf(hs, v)[p] ELSE Append(spentOf(hs, v)[hash], vout)
  <2> DEFINE i == indexIn(hs, p)
  <2>1. i \in 0 .. P - 1 /\ i \in 0 .. P /\ hs[i + 1] = p
    <3>1. Contains(hs, p)
      BY IndexInLemma
    <3> QED BY <3>1, IndexInLemma
  <2>2. spentOf(hs, v)[p] = slice(v, walk(v, i))
    BY DEF spentOf
  <2>3. p = hash => i = idx
    BY DEF idx
  <2> HIDE DEF i
  <2>4. walk(w, i) = t[i] /\ walk(v, i) = st[i]
    BY <2>1, <1>2, <1>8
  <2>5. CASE p = hash
    BY <2>2, <2>3, <2>4, <2>5, <1>6 DEF i
  <2>6. CASE p # hash
    <3>1. i # idx
      BY <2>1, <2>6, <1>3
    <3>2. slice(w, t[i]) = slice(v, st[i])
      BY <3>1, <2>1, <1>6
    <3> QED BY <3>2, <2>2, <2>4, <2>6 DEF i
  <2> QED BY <2>5, <2>6
<1>11. spentOf(hs, w) = [p \in ToSet(hs) \cup {hash} |->
                           IF p # hash THEN spentOf(hs, v)[p]
                           ELSE Append(spentOf(hs, v)[hash], vout)]
  <2>1. ToSet(hs) \cup {hash} = ToSet(hs)
    BY <1>3
  <2> QED BY <2>1, <1>10 DEF spentOf
<1>12. IsState(hs, w)
  BY <1>7, <1>9 DEF IsState
<1>13. Spends(hs, v, hs, w, hash, vout)
  BY <1>3, <1>11, Zenon DEF Spends
<1> QED BY <1>12, <1>13

-----------------------------------------------------------------------------
(* The invariant.                                                          *)

\* No parent is listed twice, and the array is divided into their runs.
IInv ==
  /\ inputs \in Seq(Parents \X Vouts)
  /\ done \in 0 .. Len(inputs)
  /\ parentTxHashes \in Seq(Parents)
  /\ IsInjective(parentTxHashes)
  /\ hashesNil \in BOOLEAN
  /\ voutIdxs \in Seq(Nat)
  /\ Packed(parentTxHashes, voutIdxs)

\* The model's operators are those above, of its own list and array.
LEMMA ModelOperators ==
  /\ \A i : runStart(i) = walk(voutIdxs, i)
  /\ \A hash : indexOf(hash) = indexIn(parentTxHashes, hash)
  /\ \A p, vout : withVout(p, vout) = insertedInto(voutIdxs, p, vout)
  /\ \A i : voutSliceForParent(i) = slice(voutIdxs, walk(voutIdxs, i))
<1>1. \A i : runStart(i) = walk(voutIdxs, i)
  BY DEF runStart, walk
<1>2. \A hash : indexOf(hash) = indexIn(parentTxHashes, hash)
  BY DEF indexOf, indexIn
<1>3. \A p, vout : withVout(p, vout) = insertedInto(voutIdxs, p, vout)
  BY DEF withVout, insertAt, insertedInto
<1>4. \A i : voutSliceForParent(i) = slice(voutIdxs, walk(voutIdxs, i))
  BY <1>1, Zenon DEF voutSliceForParent, slice
<1> QED BY <1>1, <1>2, <1>3, <1>4

\* An object without inputs.
LEMMA InitPacked ==
  ASSUME Init PROVE IInv
<1>1. PICK n \in 0 .. MaxInputs : inputs \in [1 .. n -> Parents \X Vouts]
  BY DEF Init
<1>2. inputs \in Seq(Parents \X Vouts) /\ Len(inputs) \in Nat
  BY <1>1, InpointsAssumption
<1>3. parentTxHashes = << >> /\ voutIdxs = << >> /\ done = 0 /\ hashesNil \in BOOLEAN
  BY DEF Init
<1>4. parentTxHashes \in Seq(Parents) /\ voutIdxs \in Seq(Nat) /\ Len(parentTxHashes) = 0
      /\ Len(voutIdxs) = 0
  BY <1>3
<1>5. IsInjective(parentTxHashes)
  BY <1>3 DEF IsInjective
<1>6. Packed(parentTxHashes, voutIdxs)
  <2> DEFINE st == [i \in 0 .. 0 |-> 0]
  <2>1. IsLayout(voutIdxs, 0, st)
    BY <1>4 DEF IsLayout
  <2>2. 0 \in Nat
    OBVIOUS
  <2> HIDE DEF st
  <2>3. [i \in 0 .. 0 |-> walk(voutIdxs, i)] = st
    BY <2>1, <2>2, WalkIsLayout
  <2> QED BY <2>1, <2>3, <1>4 DEF Packed
<1> QED BY <1>2, <1>3, <1>4, <1>5, <1>6 DEF IInv

\* One input more: the list and the array stand for the map with it.
LEMMA AppendStep ==
  ASSUME IInv, newSizedFromInputs
  PROVE  /\ IInv'
         /\ inputs[done + 1][1] \in Parents /\ inputs[done + 1][2] \in Vouts
         /\ Spends(parentTxHashes, voutIdxs, parentTxHashes', voutIdxs',
                   inputs[done + 1][1], inputs[done + 1][2])
<1> DEFINE hash == inputs[done + 1][1]
           vout == inputs[done + 1][2]
<1>1. IsState(parentTxHashes, voutIdxs)
  BY DEF IInv, IsState
<1>2. hash \in Parents /\ vout \in Vouts /\ vout \in Nat
  <2>1. inputs \in Seq(Parents \X Vouts) /\ done + 1 \in 1 .. Len(inputs)
    BY DEF IInv, newSizedFromInputs
  <2>2. inputs[done + 1] \in Parents \X Vouts
    BY <2>1
  <2> QED BY <2>2, InpointsAssumption
<1>3. inputs' = inputs /\ hashesNil' = hashesNil /\ done' \in 0 .. Len(inputs)
  BY DEF IInv, newSizedFromInputs
<1>4. appendInput(hash, vout)
  BY Zenon DEF newSizedFromInputs
<1> HIDE DEF hash, vout
<1> DEFINE idx == indexIn(parentTxHashes, hash)
<1>5. \/ /\ idx = -1
         /\ parentTxHashes' = Append(parentTxHashes, hash)
         /\ voutIdxs' = voutIdxs \o <<1, vout>>
      \/ /\ idx # -1
         /\ voutIdxs' = insertedInto(voutIdxs, walk(voutIdxs, idx), vout)
         /\ parentTxHashes' = parentTxHashes
  BY <1>4, ModelOperators, Zenon DEF appendInput
<1>6. idx = -1 <=> ~Contains(parentTxHashes, hash)
  BY <1>1, IndexInLemma DEF IsState
<1>7. /\ IsState(parentTxHashes', voutIdxs')
      /\ Spends(parentTxHashes, voutIdxs, parentTxHashes', voutIdxs', hash, vout)
  <2>1. CASE idx = -1
    BY <1>1, <1>2, <1>5, <1>6, <2>1, AppendNew, Zenon
  <2>2. CASE idx # -1
    BY <1>1, <1>2, <1>5, <1>6, <2>2, AppendKnown, Zenon
  <2> QED BY <2>1, <2>2
<1>8. IInv'
  BY <1>3, <1>7 DEF IInv, IsState
<1> QED BY <1>2, <1>7, <1>8 DEF hash, vout

\* The fields Serialize writes.
pack(hs, v) == <<Len(hs)>> \o hs \o v

\* Each part of b from its beginning encodes hs and v as far as it goes.
CutsEncode(b, hs, v) ==
  \A k \in 0 .. Len(b) - 1 : Encodes(SubSeq(b, 1, k), hs, v) /\ Len(SubSeq(b, 1, k)) = k

\* A sequence written twice begins with itself.
LEMMA Doubled ==
  ASSUME NEW U, NEW b \in Seq(U)
  PROVE  /\ b \o b \in Seq(U) /\ Len(b \o b) = Len(b) + Len(b)
         /\ \A k \in 1 .. Len(b) : (b \o b)[k] = b[k]
OBVIOUS

\* They can be read back, whatever stands behind them; so can a part of them.
LEMMA PackEncodes ==
  ASSUME NEW hs \in Seq(Parents), NEW v \in Seq(Nat), NEW b, b = pack(hs, v)
  PROVE  /\ Len(b) = 1 + Len(hs) + Len(v) /\ Encodes(b, hs, v)
         /\ Len(b \o b) = Len(b) + Len(b) /\ Encodes(b \o b, hs, v)
         /\ CutsEncode(b, hs, v)
<1> DEFINE U == Parents \cup Nat
           P == Len(hs)
           n == Len(v)
<1>0. b = <<Len(hs)>> \o hs \o v
  BY DEF pack
<1>1. Parents \subseteq U /\ Nat \subseteq U
  OBVIOUS
<1> HIDE DEF U
<1>2. hs \in Seq(U) /\ v \in Seq(U)
  BY <1>1, SeqMonotonic, Zenon
<1>3. P \in Nat /\ n \in Nat /\ P \in U
  BY <1>1
<1>4. b \in Seq(U) /\ Len(b) = 1 + P + n
  BY <1>0, <1>2, <1>3, SMT
<1>5. b[1] = P
  BY <1>0, <1>2, <1>3, SMT
<1>6. \A k \in 1 .. P : b[1 + k] = hs[k]
  BY <1>0, <1>2, <1>3, SMT
<1>7. \A k \in 1 .. n : b[1 + P + k] = v[k]
  BY <1>0, <1>2, <1>3, SMT
<1>8. ASSUME NEW c \in Seq(U),
             \A k \in 1 .. 1 + P + n : k <= Len(c) => c[k] = b[k]
      PROVE  Encodes(c, hs, v)
  <2>1. Len(c) \in Nat
    OBVIOUS
  <2>2. Len(c) >= 1 => c[1] = P
    <3>1. 1 \in 1 .. 1 + P + n
      BY <1>3
    <3> QED BY <3>1, <2>1, <1>5, <1>8
  <2>3. ASSUME NEW k \in 1 .. P, 1 + k <= Len(c) PROVE c[1 + k] = hs[k]
    <3>1. 1 + k \in 1 .. 1 + P + n
      BY <1>3
    <3>2. c[1 + k] = b[1 + k]
      BY <3>1, <2>3, <1>8
    <3> QED BY <3>2, <1>6
  <2>4. ASSUME NEW k \in 1 .. n, 1 + P + k <= Len(c) PROVE c[1 + P + k] = v[k]
    <3>1. 1 + P + k \in 1 .. 1 + P + n
      BY <1>3
    <3>2. c[1 + P + k] = b[1 + P + k]
      BY <3>1, <2>4, <1>8
    <3> QED BY <3>2, <1>7
  <2> QED BY <2>2, <2>3, <2>4, Zenon DEF Encodes, Follows
<1> DEFINE l == 1 + P + n
<1>9. l \in Nat /\ Len(b) = l
  BY <1>3, <1>4
<1>10. \A c \in Seq(U) : (\A k \in 1 .. l : k <= Len(c) => c[k] = b[k]) => Encodes(c, hs, v)
  BY <1>8, Zenon
<1>11. Encodes(b, hs, v)
  BY <1>4, <1>10
<1> DEFINE d == b \o b
<1>12. d \in Seq(U) /\ Len(d) = l + l /\ \A k \in 1 .. l : d[k] = b[k]
  <2> HIDE DEF l, P, n
  <2> QED BY <1>4, <1>9, Doubled, Zenon
<1>13. Encodes(d, hs, v)
  <2> HIDE DEF d
  <2> QED BY <1>10, <1>12, Zenon
<1>14. ASSUME NEW k \in 0 .. l - 1
       PROVE  Encodes(SubSeq(b, 1, k), hs, v) /\ Len(SubSeq(b, 1, k)) = k
  <2> DEFINE e == SubSeq(b, 1, k)
  <2> HIDE DEF l
  <2>1. e \in Seq(U) /\ Len(e) = k /\ \A i \in 1 .. k : e[i] = b[i]
    BY <1>4, <1>9
  <2> HIDE DEF e
  <2>2. \A i \in 1 .. l : i <= Len(e) => e[i] = b[i]
    BY <2>1, <1>9
  <2>3. Encodes(e, hs, v)
    BY <2>1, <2>2, <1>10, Zenon
  <2> QED BY <2>1, <2>3 DEF e
<1>15. CutsEncode(b, hs, v)
  BY <1>9, <1>14 DEF CutsEncode
<1> QED BY <1>4, <1>9, <1>11, <1>12, <1>13, <1>15

\* How many they are.
LEMMA PackLength ==
  ASSUME NEW hs \in Seq(Parents), NEW v \in Seq(Nat), NEW b, b = pack(hs, v)
  PROVE  Len(b) = 1 + Len(hs) + Len(v) /\ Len(b \o b) = Len(b) + Len(b)
BY PackEncodes

\* Reading back what Serialize wrote gives the same list and array.
LEMMA ReloadStep ==
  ASSUME IInv, Reload
  PROVE  /\ parentTxHashes' = parentTxHashes /\ voutIdxs' = voutIdxs
         /\ inputs' = inputs /\ done' = done /\ hashesNil' \in BOOLEAN
<1> DEFINE b == serialized
           st == [i \in 0 .. Len(parentTxHashes) |-> walk(voutIdxs, i)]
<1>1. parentTxHashes \in Seq(Parents) /\ voutIdxs \in Seq(Nat)
  BY DEF IInv
<1>2. IsLayout(voutIdxs, Len(parentTxHashes), st)
  BY DEF IInv, Packed
<1>3. b = pack(parentTxHashes, voutIdxs)
  BY DEF serialized, pack
<1>4. /\ parentTxHashes' = deserialize(b).hashes /\ voutIdxs' = deserialize(b).idxs
      /\ inputs' = inputs /\ done' = done /\ hashesNil' \in BOOLEAN
  BY Zenon DEF Reload
<1> HIDE DEF b, st
<1>5. Len(b) = 1 + Len(parentTxHashes) + Len(voutIdxs) /\ Encodes(b, parentTxHashes, voutIdxs)
  <2>1. Encodes(b, parentTxHashes, voutIdxs)
    BY <1>1, <1>3, PackEncodes, Zenon
  <2>2. Len(b) = 1 + Len(parentTxHashes) + Len(voutIdxs)
    BY <1>1, <1>3, PackLength
  <2> QED BY <2>1, <2>2
<1>6. Len(b) >= 1 + Len(parentTxHashes) + Len(voutIdxs)
  BY <1>1, <1>5
<1>7. deserialize(b).hashes = parentTxHashes /\ deserialize(b).idxs = voutIdxs
  BY <1>1, <1>2, <1>5, <1>6, DecodeWhole
<1> QED BY <1>4, <1>7

\* Every step keeps the invariant.
LEMMA StepKeepsPacked ==
  ASSUME IInv, [Next]_vars PROVE IInv'
<1>1. CASE newSizedFromInputs
  BY <1>1, AppendStep
<1>2. CASE Reload
  <2>1. /\ parentTxHashes' = parentTxHashes /\ voutIdxs' = voutIdxs
        /\ inputs' = inputs /\ done' = done /\ hashesNil' \in BOOLEAN
    BY <1>2, ReloadStep
  <2> QED BY <2>1 DEF IInv
<1>3. CASE UNCHANGED vars
  BY <1>3 DEF vars, IInv
<1> QED BY <1>1, <1>2, <1>3 DEF Next

\* The packed array of TxInpoints stays divided into one run per parent, whatever
\* inputs are appended and however often the object is written and read back.
THEOREM InpointsInvariant == Spec => []IInv
<1>1. Init => IInv
  BY InitPacked
<1>2. IInv /\ [Next]_vars => IInv'
  BY StepKeepsPacked
<1> QED BY <1>1, <1>2, PTL DEF Spec

\* The fields of TxInpoints have their types, and appendInput lists no parent
\* twice.
THEOREM InpointsTypes == Spec => []TypeOK
<1>1. IInv => TypeOK
  BY DEF IInv, TypeOK
<1> QED BY <1>1, InpointsInvariant, PTL

\* Walking over the runs of voutIdxs, one per parent, ends where the array ends,
\* and none of them is empty.
THEOREM RunsAlwaysMatch == Spec => []RunsMatchParents
<1>1. ASSUME IInv PROVE RunsMatchParents
  <2> DEFINE P == Len(parentTxHashes)
             st == [i \in 0 .. P |-> walk(voutIdxs, i)]
  <2>1. IsLayout(voutIdxs, P, st) /\ P \in Nat
    BY <1>1 DEF IInv, Packed
  <2>2. \A i \in 0 .. P : st[i] = runStart(i)
    BY ModelOperators
  <2> HIDE DEF st
  <2>3. st[P] = Len(voutIdxs) /\ P \in 0 .. P
    BY <2>1 DEF IsLayout
  <2>4. \A i \in 0 .. P - 1 : i \in 0 .. P /\ voutIdxs[st[i] + 1] >= 1
    <3>1. \A i \in 0 .. P - 1 : voutIdxs[st[i] + 1] >= 1
      BY <2>1, LayoutRuns, Zenon
    <3> QED BY <3>1, <2>1
  <2> QED BY <2>2, <2>3, <2>4 DEF RunsMatchParents
<1> QED BY <1>1, InpointsInvariant, PTL

\* The fields of a TxInpoints end where they say they do: the reader of meta data
\* takes exactly those, whatever follows them, and refuses any fewer.
THEOREM ReadsWhatWasWritten == Spec => []SelfDelimiting
<1>1. ASSUME IInv PROVE SelfDelimiting
  <2> DEFINE b == serialized
             hs == parentTxHashes
             v == voutIdxs
             st == [i \in 0 .. Len(hs) |-> walk(v, i)]
             d == b \o b
             l == 1 + Len(hs) + Len(v)
  <2>1. hs \in Seq(Parents) /\ v \in Seq(Nat)
    BY <1>1 DEF IInv
  <2>2. IsLayout(v, Len(hs), st)
    BY <1>1 DEF IInv, Packed
  <2>3. b = pack(hs, v)
    BY DEF serialized, pack
  <2> HIDE DEF b, st
  <2>4. Len(b) = l /\ Encodes(d, hs, v) /\ Len(d) = l + l
    <3>1. Encodes(d, hs, v)
      BY <2>1, <2>3, PackEncodes, Zenon
    <3>2. Len(b) = l /\ Len(d) = Len(b) + Len(b)
      BY <2>1, <2>3, PackLength
    <3> QED BY <3>1, <3>2
  <2>5. \A k \in 0 .. l - 1 : /\ Encodes(SubSeq(b, 1, k), hs, v)
                              /\ Len(SubSeq(b, 1, k)) = k
    <3>1. CutsEncode(b, hs, v)
      BY <2>1, <2>3, PackEncodes, Zenon
    <3> HIDE DEF l
    <3> QED BY <3>1, <2>4, Zenon DEF CutsEncode
  <2>6. l \in Nat
    BY <2>1
  <2>7. /\ deserialize(d).ok /\ deserialize(d).used = l
        /\ deserialize(d).hashes = hs /\ deserialize(d).idxs = v
    <3> HIDE DEF d
    <3>1. Len(d) >= 1 + Len(hs) + Len(v)
      BY <2>4, <2>6
    <3> QED BY <2>1, <2>2, <2>4, <3>1, DecodeWhole
  <2>8. ASSUME NEW k \in 0 .. l - 1 PROVE ~deserialize(SubSeq(b, 1, k)).ok
    <3> DEFINE e == SubSeq(b, 1, k)
    <3>1. Encodes(e, hs, v) /\ Len(e) = k
      BY <2>5
    <3> HIDE DEF e
    <3>2. Len(e) < 1 + Len(hs) + Len(v)
      BY <3>1, <2>6
    <3>3. ~deserialize(e).ok
      BY <2>1, <2>2, <3>1, <3>2, DecodeShort
    <3> QED BY <3>3 DEF e
  <2> HIDE DEF l
  <2> QED BY <2>4, <2>7, <2>8, Zenon DEF SelfDelimiting, b
<1> QED BY <1>1, InpointsInvariant, PTL

\* What the object stands for.
LEMMA SpentOfState ==
  [hash \in ToSet(parentTxHashes) |-> voutSliceForParent(indexOf(hash))]
    = spentOf(parentTxHashes, voutIdxs)
BY ModelOperators, Zenon DEF spentOf

\* Appending an input to a packed TxInpoints adds it to the map from parents to
\* the outputs spent of them, in the order of the inputs; writing and reading back
\* leaves the map as it is.
THEOREM InpointsImplementMap == Spec => ImplementsInpointMap
<1> DEFINE spent == [hash \in ToSet(parentTxHashes) |-> voutSliceForParent(indexOf(hash))]
<1>1. Init => Abstract!Init
  <2> SUFFICES ASSUME Init PROVE Abstract!Init
    OBVIOUS
  <2>1. parentTxHashes = << >>
    BY DEF Init
  <2>2. ToSet(parentTxHashes) = {}
    BY <2>1 DEF ToSet
  <2> QED BY <2>1, <2>2 DEF Abstract!Init
<1>2. IInv /\ [Next]_vars => [Abstract!Next]_(Abstract!vars)
  <2> SUFFICES ASSUME IInv, [Next]_vars PROVE [Abstract!Next]_(Abstract!vars)
    OBVIOUS
  <2>1. spent = spentOf(parentTxHashes, voutIdxs)
    BY SpentOfState
  <2>2. spent' = spentOf(parentTxHashes', voutIdxs')
    <3>1. (spent = spentOf(parentTxHashes, voutIdxs))'
      BY SpentOfState, PTL
    <3> QED BY <3>1
  <2>3. CASE newSizedFromInputs
    <3>1. PICK hash \in Parents, vout \in Vouts :
            Spends(parentTxHashes, voutIdxs, parentTxHashes', voutIdxs', hash, vout)
      BY <2>3, AppendStep
    <3>2. DOMAIN spent = ToSet(parentTxHashes)
      OBVIOUS
    <3> HIDE DEF spent
    <3>3. /\ parentTxHashes' = IF hash \in DOMAIN spent THEN parentTxHashes
                               ELSE Append(parentTxHashes, hash)
          /\ spent' = [p \in DOMAIN spent \cup {hash} |->
                         IF p # hash THEN spent[p]
                         ELSE IF hash \in DOMAIN spent THEN Append(spent[hash], vout)
                         ELSE <<vout>>]
      BY <2>1, <2>2, <3>1, <3>2, Zenon DEF Spends
    <3>4. Abstract!Spend(hash, vout)
      BY <3>3, Zenon DEF Abstract!Spend, spent
    <3> QED BY <3>4 DEF Abstract!Next
  <2>4. CASE Reload
    <3>1. parentTxHashes' = parentTxHashes /\ voutIdxs' = voutIdxs
      BY <2>4, ReloadStep
    <3> HIDE DEF spent
    <3>2. spent' = spent
      BY <3>1, <2>1, <2>2
    <3> QED BY <3>1, <3>2 DEF Abstract!vars, spent
  <2>5. CASE UNCHANGED vars
    <3>1. parentTxHashes' = parentTxHashes /\ voutIdxs' = voutIdxs
      BY <2>5 DEF vars
    <3> HIDE DEF spent
    <3>2. spent' = spent
      BY <3>1, <2>1, <2>2
    <3> QED BY <3>1, <3>2 DEF Abstract!vars, spent
  <2> QED BY <2>3, <2>4, <2>5 DEF Next
<1> QED BY <1>1, <1>2, InpointsInvariant, PTL DEF Spec, ImplementsInpointMap, Abstract!Spec

-----------------------------------------------------------------------------
(* Counting in lists.                                                      *)

\* How often e is in s.
occ(s, e) == Cardinality({i \in DOMAIN s : s[i] = e})

\* In two lists one after the other an element is as often as in both together.
LEMMA OccConcat ==
  ASSUME NEW S, NEW s \in Seq(S), NEW t \in Seq(S), NEW e
  PROVE  occ(s \o t, e) = occ(s, e) + occ(t, e) /\ occ(s, e) \in Nat /\ occ(t, e) \in Nat
<1> DEFINE m == Len(s)
           n == Len(t)
           u == s \o t
           A == {i \in 1 .. m : s[i] = e}
           B == {i \in 1 .. n : t[i] = e}
           C == {i \in 1 .. m + n : u[i] = e}
           D == {i \in C : i > m}
<1>1. m \in Nat /\ n \in Nat /\ DOMAIN s = 1 .. m /\ DOMAIN t = 1 .. n
  OBVIOUS
<1>2. /\ u \in Seq(S) /\ Len(u) = m + n
      /\ \A i \in 1 .. m + n : u[i] = IF i <= m THEN s[i] ELSE t[i - m]
  BY ConcatProperties, Zenon
<1> HIDE DEF m, n, u
<1>3. DOMAIN u = 1 .. m + n
  BY <1>2
<1>4. occ(s, e) = Cardinality(A) /\ occ(t, e) = Cardinality(B) /\ occ(u, e) = Cardinality(C)
  BY <1>1, <1>3 DEF occ
<1>5. C = A \cup D /\ A \cap D = {}
  BY <1>1, <1>2
<1>6. /\ IsFiniteSet(A) /\ IsFiniteSet(B) /\ IsFiniteSet(D)
      /\ Cardinality(A) \in Nat /\ Cardinality(B) \in Nat /\ Cardinality(D) \in Nat
  <2>1. IsFiniteSet(1 .. m) /\ IsFiniteSet(1 .. n) /\ IsFiniteSet(1 .. m + n)
    BY <1>1, FS_Interval
  <2>2. A \in SUBSET (1 .. m) /\ B \in SUBSET (1 .. n) /\ D \in SUBSET (1 .. m + n)
    OBVIOUS
  <2> HIDE DEF A, B, D
  <2> QED BY <2>1, <2>2, FS_Subset, FS_CardinalityType
<1>7. Cardinality(D) = Cardinality(B)
  <2> DEFINE f == [i \in B |-> i + m]
  <2>1. f \in [B -> D]
    <3> SUFFICES ASSUME NEW i \in B PROVE i + m \in D
      OBVIOUS
    <3>1. i \in 1 .. n /\ t[i] = e /\ i + m \in 1 .. m + n /\ i + m > m /\ (i + m) - m = i
      BY <1>1
    <3>2. u[i + m] = e
      BY <1>1, <1>2, <3>1
    <3> QED BY <3>1, <3>2
  <2>2. \A i, j \in B : f[i] = f[j] => i = j
    BY <1>1
  <2>3. ASSUME NEW k \in D PROVE \E i \in B : f[i] = k
    <3>1. k - m \in 1 .. n /\ k \in 1 .. m + n /\ ~(k <= m) /\ u[k] = e /\ (k - m) + m = k
      BY <1>1
    <3>2. t[k - m] = e
      BY <1>2, <3>1
    <3>3. k - m \in B
      BY <3>1, <3>2
    <3> QED BY <3>1, <3>3
  <2> HIDE DEF f, B, D
  <2>4. f \in Bijection(B, D)
    BY <2>1, <2>2, <2>3, Fun_IsBij
  <2>5. ExistsBijection(B, D)
    BY <2>4 DEF ExistsBijection
  <2> QED BY <2>5, <1>6, FS_Bijection
<1>8. Cardinality(C) = Cardinality(A) + Cardinality(D)
  <2> HIDE DEF A, C, D
  <2>1. Cardinality(A \cup D) = Cardinality(A) + Cardinality(D) - Cardinality(A \cap D)
    BY <1>6, FS_Union
  <2>2. Cardinality(A \cap D) = 0
    BY <1>5, FS_EmptySet
  <2> QED BY <2>1, <2>2, <1>5, <1>6
<1> HIDE DEF A, B, C, D
<1> QED BY <1>4, <1>6, <1>7, <1>8 DEF u

\* A list of one element.
LEMMA OccOne ==
  ASSUME NEW x, NEW e PROVE occ(<<x>>, e) = IF e = x THEN 1 ELSE 0
<1>1. DOMAIN <<x>> = {1} /\ <<x>>[1] = x
  OBVIOUS
<1>2. CASE e = x
  <2>1. {i \in DOMAIN <<x>> : <<x>>[i] = e} = {1}
    BY <1>1, <1>2
  <2> QED BY <2>1, <1>2, FS_Singleton DEF occ
<1>3. CASE e # x
  <2>1. {i \in DOMAIN <<x>> : <<x>>[i] = e} = {}
    BY <1>1, <1>3
  <2> QED BY <2>1, <1>3, FS_EmptySet DEF occ
<1> QED BY <1>2, <1>3

\* t holds what s holds, and x once more.
OneMore(s, t, x) ==
  /\ Len(t) = Len(s) + 1
  /\ \A e : occ(t, e) = occ(s, e) + IF e = x THEN 1 ELSE 0

\* Appending x is one way.
LEMMA AppendOneMore ==
  ASSUME NEW S, NEW s \in Seq(S), NEW x \in S
  PROVE  OneMore(s, Append(s, x), x) /\ Append(s, x) \in Seq(S) /\ OneMore(s, s \o <<x>>, x)
<1>1. Append(s, x) = s \o <<x>> /\ Append(s, x) \in Seq(S) /\ Len(Append(s, x)) = Len(s) + 1
  BY AppendIsConcat, AppendProperties
<1>2. <<x>> \in Seq(S)
  OBVIOUS
<1>3. \A e : occ(s \o <<x>>, e) = occ(s, e) + IF e = x THEN 1 ELSE 0
  <2> SUFFICES ASSUME NEW e PROVE occ(s \o <<x>>, e) = occ(s, e) + IF e = x THEN 1 ELSE 0
    OBVIOUS
  <2> DEFINE o == <<x>>
  <2>1. occ(o, e) = IF e = x THEN 1 ELSE 0
    BY OccOne
  <2> HIDE DEF o
  <2>2. occ(s \o o, e) = occ(s, e) + occ(o, e)
    BY <1>2, OccConcat DEF o
  <2> QED BY <2>1, <2>2 DEF o
<1> QED BY <1>1, <1>3 DEF OneMore

\* Lists before and after do not matter.
LEMMA OneMoreBetween ==
  ASSUME NEW S, NEW a \in Seq(S), NEW b \in Seq(S), NEW u \in Seq(S), NEW v \in Seq(S),
         NEW x, (OneMore(a, b, x) /\ u = v) \/ (a = b /\ OneMore(u, v, x))
  PROVE  OneMore(a \o u, b \o v, x)
<1>1. /\ Len(a \o u) = Len(a) + Len(u) /\ Len(b \o v) = Len(b) + Len(v)
      /\ Len(a) \in Nat /\ Len(b) \in Nat /\ Len(u) \in Nat /\ Len(v) \in Nat
  BY ConcatProperties
<1>2. Len(b \o v) = Len(a \o u) + 1
  BY <1>1 DEF OneMore
<1>3. ASSUME NEW e PROVE occ(b \o v, e) = occ(a \o u, e) + IF e = x THEN 1 ELSE 0
  <2>1. /\ occ(a \o u, e) = occ(a, e) + occ(u, e) /\ occ(b \o v, e) = occ(b, e) + occ(v, e)
        /\ occ(a, e) \in Nat /\ occ(u, e) \in Nat /\ occ(b, e) \in Nat /\ occ(v, e) \in Nat
    BY OccConcat
  <2>2. CASE OneMore(a, b, x) /\ u = v
    <3>1. occ(b, e) = occ(a, e) + IF e = x THEN 1 ELSE 0
      BY <2>2 DEF OneMore
    <3> QED BY <2>1, <2>2, <3>1
  <2>3. CASE a = b /\ OneMore(u, v, x)
    <3>1. occ(v, e) = occ(u, e) + IF e = x THEN 1 ELSE 0
      BY <2>3 DEF OneMore
    <3> QED BY <2>1, <2>3, <3>1
  <2> QED BY <2>2, <2>3
<1> QED BY <1>2, <1>3 DEF OneMore

\* c[i] is the first i lists of r, one after the other.
IsJoined(r, n, c) ==
  \A i \in 1 .. n : c[i] = IF i = 1 THEN r[i] ELSE c[i - 1] \o r[i]

\* x more at the end of the list at j.
GrowsAt(r, q, n, j, x) ==
  /\ q[j] = Append(r[j], x)
  /\ \A i \in 1 .. n : i # j => q[i] = r[i]

\* One list has x more at its end: so have all of them together.
LEMMA FlattenGrows ==
  ASSUME NEW S, NEW n \in Nat, NEW r \in Seq(Seq(S)), NEW q \in Seq(Seq(S)),
         Len(r) = n, Len(q) = n, NEW j \in 1 .. n, NEW x \in S, GrowsAt(r, q, n, j, x)
  PROVE  OneMore(FlattenSeq(r), FlattenSeq(q), x)
<1>0. n # 0 /\ n \in 1 .. n /\ \A i \in 1 .. n : r[i] \in Seq(S) /\ q[i] \in Seq(S)
  OBVIOUS
<1>1. PICK c : FlattenSeq(r) = c[n] /\ IsJoined(r, n, c)
  BY <1>0, FlattenSteps DEF IsJoined
<1>2. PICK d : FlattenSeq(q) = d[n] /\ IsJoined(q, n, d)
  BY <1>0, FlattenSteps DEF IsJoined
<1> DEFINE G(i) == /\ c[i] \in Seq(S) /\ d[i] \in Seq(S)
                   /\ i < j => d[i] = c[i]
                   /\ i >= j => OneMore(c[i], d[i], x)
           T == {i \in 1 .. n : ~G(i)}
<1>3. ASSUME NEW i \in 1 .. n, i # 1 => G(i - 1) PROVE G(i)
  <2>1. r[i] \in Seq(S) /\ q[i] \in Seq(S)
    BY <1>0
  <2>2. /\ i = j => OneMore(r[i], q[i], x)
        /\ i # j => q[i] = r[i]
    <3>1. i = j => q[i] = Append(r[i], x)
      BY DEF GrowsAt
    <3>2. OneMore(r[i], Append(r[i], x), x)
      BY <2>1, AppendOneMore
    <3> QED BY <3>1, <3>2 DEF GrowsAt
  <2>3. CASE i = 1
    <3>1. c[i] = r[i] /\ d[i] = q[i]
      BY <1>1, <1>2, <2>3 DEF IsJoined
    <3> QED BY <2>1, <2>2, <2>3, <3>1
  <2>4. CASE i # 1
    <3>1. c[i] = c[i - 1] \o r[i] /\ d[i] = d[i - 1] \o q[i]
      BY <1>1, <1>2, <2>4 DEF IsJoined
    <3>2. /\ c[i - 1] \in Seq(S) /\ d[i - 1] \in Seq(S)
          /\ i - 1 < j => d[i - 1] = c[i - 1]
          /\ i - 1 >= j => OneMore(c[i - 1], d[i - 1], x)
      BY <1>3, <2>4
    <3>3. c[i] \in Seq(S) /\ d[i] \in Seq(S)
      BY <2>1, <3>1, <3>2, ConcatProperties
    <3>4. i < j => d[i] = c[i]
      <4>1. i < j => i # j /\ i - 1 < j
        OBVIOUS
      <4> QED BY <4>1, <2>2, <3>1, <3>2, Zenon
    <3>5. i >= j => OneMore(c[i], d[i], x)
      <4> SUFFICES ASSUME i >= j PROVE OneMore(c[i], d[i], x)
        OBVIOUS
      <4>1. \/ OneMore(c[i - 1], d[i - 1], x) /\ r[i] = q[i]
            \/ c[i - 1] = d[i - 1] /\ OneMore(r[i], q[i], x)
        BY <2>2, <3>2
      <4>2. OneMore(c[i - 1] \o r[i], d[i - 1] \o q[i], x)
        BY <2>1, <3>2, <4>1, OneMoreBetween
      <4> QED BY <3>1, <4>2
    <3> QED BY <3>3, <3>4, <3>5
  <2> QED BY <2>3, <2>4
<1> HIDE DEF G
<1>4. T = {}
  <2> SUFFICES ASSUME T # {} PROVE FALSE
    OBVIOUS
  <2>1. PICK i \in T : \A k \in T : i <= k
    <3>1. T \in SUBSET Nat
      OBVIOUS
    <3> HIDE DEF T
    <3> QED BY <3>1, MinExists
  <2>2. i \in 1 .. n /\ ~G(i)
    OBVIOUS
  <2>3. i # 1 => i - 1 \in 1 .. n /\ ~(i <= i - 1)
    BY <2>2
  <2>4. i # 1 => G(i - 1)
    BY <2>1, <2>3
  <2> QED BY <1>3, <2>2, <2>4
<1>5. G(n)
  BY <1>0, <1>4
<1>6. OneMore(c[n], d[n], x)
  BY <1>5 DEF G
<1> QED BY <1>1, <1>2, <1>6

\* One list more, with x alone.
LEMMA FlattenAppends ==
  ASSUME NEW S, NEW n \in Nat, NEW r \in Seq(Seq(S)), NEW q \in Seq(Seq(S)),
         Len(r) = n, Len(q) = n + 1, NEW x \in S, q[n + 1] = <<x>>,
         \A i \in 1 .. n : q[i] = r[i]
  PROVE  OneMore(FlattenSeq(r), FlattenSeq(q), x)
<1>0. n + 1 \in Nat /\ n + 1 # 0 /\ n + 1 \in 1 .. n + 1 /\ (n + 1) - 1 = n
  OBVIOUS
<1>2. PICK d : FlattenSeq(q) = d[n + 1] /\ IsJoined(q, n + 1, d)
  BY <1>0, FlattenSteps DEF IsJoined
<1>3. CASE n = 0
  <2>1. FlattenSeq(r) = r
    BY <1>3, Zenon DEF FlattenSeq
  <2>2. r = << >> /\ << >> \in Seq(S) /\ << >> \o <<x>> = <<x>>
    BY <1>3
  <2>3. FlattenSeq(q) = <<x>>
    BY <1>0, <1>2, <1>3 DEF IsJoined
  <2>4. OneMore(<< >>, << >> \o <<x>>, x)
    BY <2>2, AppendOneMore
  <2> QED BY <2>1, <2>2, <2>3, <2>4
<1>4. CASE n # 0
  <2>1. PICK c : FlattenSeq(r) = c[n] /\ IsJoined(r, n, c)
    BY <1>4, FlattenSteps DEF IsJoined
  <2> DEFINE T == {i \in 1 .. n : d[i] # c[i]}
  <2>2. T = {}
    <3> SUFFICES ASSUME T # {} PROVE FALSE
      OBVIOUS
    <3>1. PICK i \in T : \A k \in T : i <= k
      <4>1. T \in SUBSET Nat
        OBVIOUS
      <4> HIDE DEF T
      <4> QED BY <4>1, MinExists
    <3>2. i \in 1 .. n /\ d[i] # c[i] /\ i \in 1 .. n + 1
      OBVIOUS
    <3>3. i # 1 => i - 1 \in 1 .. n /\ ~(i <= i - 1)
      BY <3>2
    <3>4. i # 1 => d[i - 1] = c[i - 1]
      BY <3>1, <3>3
    <3>5. q[i] = r[i]
      BY <3>2
    <3>6. /\ c[i] = IF i = 1 THEN r[i] ELSE c[i - 1] \o r[i]
          /\ d[i] = IF i = 1 THEN q[i] ELSE d[i - 1] \o q[i]
      BY <1>2, <2>1, <3>2 DEF IsJoined
    <3> QED BY <3>2, <3>4, <3>5, <3>6
  <2>3. d[n] = c[n]
    <3>1. n \in 1 .. n
      BY <1>4
    <3> QED BY <2>2, <3>1, Zenon
  <2>4. d[n + 1] = d[n] \o <<x>>
    <3>1. n + 1 # 1
      BY <1>4
    <3>2. d[n + 1] = IF n + 1 = 1 THEN q[n + 1] ELSE d[(n + 1) - 1] \o q[n + 1]
      BY <1>0, <1>2, Zenon DEF IsJoined
    <3> QED BY <1>0, <3>1, <3>2, Zenon
  <2>5. c[n] \in Seq(S)
    BY <2>1, FlattenType
  <2>6. OneMore(c[n], c[n] \o <<x>>, x)
    BY <2>5, AppendOneMore
  <2> QED BY <1>2, <2>1, <2>3, <2>4, <2>6
<1> QED BY <1>3, <1>4

-----------------------------------------------------------------------------
(* Nothing is lost.                                                        *)

\* The outputs in run, as outputs of transaction hash; the list GetTxInpoints
\* joins.
tag(hash, run) == [k \in DOMAIN run |-> <<hash, run[k]>>]
runsOf(hs, v) == [i \in DOMAIN hs |-> tag(hs[i], slice(v, walk(v, i - 1)))]

\* Tagging the outputs before or after one is appended.
LEMMA TagLemma ==
  ASSUME NEW hash \in Parents, NEW run \in Seq(Nat), NEW vout \in Nat
  PROVE  /\ tag(hash, run) \in Seq(Parents \X Nat)
         /\ tag(hash, Append(run, vout)) = Append(tag(hash, run), <<hash, vout>>)
         /\ tag(hash, <<vout>>) = << <<hash, vout>> >>
<1> DEFINE E == Parents \X Nat
           n == Len(run)
           x == <<hash, vout>>
<1>0. n \in Nat /\ DOMAIN run = 1 .. n /\ x \in E
  OBVIOUS
<1>1. tag(hash, run) \in Seq(E) /\ Len(tag(hash, run)) = n
      /\ \A k \in 1 .. n : tag(hash, run)[k] = <<hash, run[k]>>
  <2> DEFINE t == tag(hash, run)
  <2>1. t \in [1 .. n -> E] /\ \A k \in 1 .. n : t[k] = <<hash, run[k]>>
    BY <1>0 DEF tag
  <2> HIDE DEF t, E, n
  <2>2. t \in Seq(E) /\ Len(t) = n
    BY <1>0, <2>1
  <2> QED BY <2>1, <2>2 DEF t
<1>2. tag(hash, Append(run, vout)) = Append(tag(hash, run), x)
  <2> DEFINE more == Append(run, vout)
             t == tag(hash, more)
             a == Append(tag(hash, run), x)
  <2>1. /\ DOMAIN more = 1 .. n + 1 /\ more[n + 1] = vout
        /\ \A k \in 1 .. n : more[k] = run[k]
        /\ \A k \in 1 .. n + 1 : more[k] \in Nat
    OBVIOUS
  <2> HIDE DEF more
  <2>2. t \in [1 .. n + 1 -> E] /\ \A k \in 1 .. n + 1 : t[k] = <<hash, more[k]>>
    BY <2>1 DEF tag
  <2> HIDE DEF t, E, n
  <2>3. t \in Seq(E) /\ Len(t) = n + 1
    BY <1>0, <2>2
  <2>4. a \in Seq(E) /\ Len(a) = n + 1 /\ a[n + 1] = x
        /\ \A k \in 1 .. n : a[k] = tag(hash, run)[k]
    BY <1>0, <1>1, AppendProperties
  <2> HIDE DEF a
  <2>5. \A k \in 1 .. n + 1 : t[k] = a[k]
    <3> SUFFICES ASSUME NEW k \in 1 .. n + 1 PROVE t[k] = a[k]
      OBVIOUS
    <3>1. k = n + 1 \/ k \in 1 .. n
      BY <1>0
    <3>2. t[k] = <<hash, more[k]>>
      BY <2>2
    <3> QED BY <3>1, <3>2, <1>1, <2>1, <2>4
  <2>6. t = a
    BY <2>3, <2>4, <2>5, SeqEqual
  <2> QED BY <2>6 DEF t, a, more
<1>3. tag(hash, <<vout>>) = << <<hash, vout>> >>
  BY DEF tag
<1> QED BY <1>1, <1>2, <1>3

\* The runs are those of the map.
LEMMA RunsAreSpent ==
  ASSUME NEW hs, NEW v, IsState(hs, v)
  PROVE  /\ runsOf(hs, v) \in Seq(Seq(Parents \X Nat)) /\ Len(runsOf(hs, v)) = Len(hs)
         /\ \A i \in 1 .. Len(hs) : /\ runsOf(hs, v)[i] = tag(hs[i], spentOf(hs, v)[hs[i]])
                                    /\ spentOf(hs, v)[hs[i]] \in Seq(Nat)
                                    /\ hs[i] \in Parents /\ hs[i] \in ToSet(hs)
<1> DEFINE P == Len(hs)
           E == Parents \X Nat
           st == [i \in 0 .. P |-> walk(v, i)]
           r == runsOf(hs, v)
<1>0. hs \in Seq(Parents) /\ IsInjective(hs) /\ v \in Seq(Nat) /\ Packed(hs, v)
  BY DEF IsState
<1>1. IsLayout(v, P, st) /\ P \in Nat /\ DOMAIN hs = 1 .. P
  BY <1>0 DEF Packed
<1>2. \A i \in 0 .. P : st[i] = walk(v, i)
  OBVIOUS
<1> HIDE DEF st, E
<1>3. ASSUME NEW i \in 1 .. P
      PROVE  /\ slice(v, walk(v, i - 1)) = spentOf(hs, v)[hs[i]]
             /\ slice(v, walk(v, i - 1)) \in Seq(Nat)
             /\ hs[i] \in Parents /\ hs[i] \in ToSet(hs)
  <2> DEFINE j == i - 1
  <2>1. j \in 0 .. P - 1 /\ j \in 0 .. P /\ j + 1 = i /\ hs[i] \in Parents
    BY <1>0, <1>1
  <2> HIDE DEF j
  <2>2. indexIn(hs, hs[j + 1]) = j /\ hs[j + 1] \in ToSet(hs)
    BY <1>0, <2>1, IndexUnique
  <2>3. spentOf(hs, v)[hs[i]] = slice(v, walk(v, j))
    BY <2>1, <2>2 DEF spentOf
  <2>4. /\ st[j] \in Nat /\ v[st[j] + 1] \in Nat
        /\ st[j + 1] = st[j] + 1 + v[st[j] + 1] /\ st[j + 1] <= Len(v)
    BY <1>1, <2>1, LayoutRun
  <2>5. slice(v, st[j]) \in Seq(Nat)
    <3> DEFINE m == Len(v)
               s == st[j]
               n == v[st[j] + 1]
               a == s + 2
               b == s + 1 + n
    <3>0. m \in Nat /\ s \in Nat /\ n \in Nat /\ s + 1 + n <= m
      <4>1. m \in Nat
        BY <1>0
      <4>2. s + 1 + n <= m
        BY <2>4, Zenon
      <4> QED BY <2>4, <4>1, <4>2, Zenon
    <3> HIDE DEF m, s, n
    <3>1. a \in Int /\ b \in Int /\ m \in Nat /\ a >= 1 /\ b <= m
      BY <3>0
    <3> HIDE DEF a, b
    <3>2. \A k \in a .. b : v[k] \in Nat
      <4>1. \A k \in a .. b : k \in 1 .. m
        BY <3>1
      <4> QED BY <1>0, <4>1 DEF m
    <3>3. SubSeq(v, a, b) \in Seq(Nat)
      BY <3>1, <3>2, SubSeqProperties
    <3> QED BY <3>3 DEF slice, a, b, s, n
  <2> QED BY <2>1, <2>2, <2>3, <2>5, <1>2 DEF j
<1>4. \A i \in 1 .. P : r[i] = tag(hs[i], spentOf(hs, v)[hs[i]]) /\ r[i] \in Seq(E)
  <2> SUFFICES ASSUME NEW i \in 1 .. P
               PROVE  r[i] = tag(hs[i], spentOf(hs, v)[hs[i]]) /\ r[i] \in Seq(E)
    OBVIOUS
  <2>1. r[i] = tag(hs[i], slice(v, walk(v, i - 1)))
    BY <1>1 DEF runsOf
  <2> HIDE DEF r
  <2>2. r[i] = tag(hs[i], spentOf(hs, v)[hs[i]])
    BY <2>1, <1>3
  <2>3. hs[i] \in Parents /\ spentOf(hs, v)[hs[i]] \in Seq(Nat) /\ 0 \in Nat
    BY <1>3
  <2>4. tag(hs[i], spentOf(hs, v)[hs[i]]) \in Seq(E)
    BY <2>3, TagLemma DEF E
  <2> QED BY <2>2, <2>4
<1>5. r = [i \in 1 .. P |-> r[i]]
  BY <1>1 DEF runsOf
<1> HIDE DEF r
<1>6. r \in [1 .. P -> Seq(E)]
  BY <1>4, <1>5
<1>7. r \in Seq(Seq(E)) /\ Len(r) = P
  BY <1>1, <1>6
<1> QED BY <1>3, <1>4, <1>7 DEF r, E

\* An output added to the map is in the list once more, and all else is in it as
\* often as before.
LEMMA SpendsOneMore ==
  ASSUME NEW hs, NEW v, IsState(hs, v), NEW gs, NEW w, IsState(gs, w),
         NEW hash \in Parents, NEW vout \in Nat, Spends(hs, v, gs, w, hash, vout)
  PROVE  OneMore(FlattenSeq(runsOf(hs, v)), FlattenSeq(runsOf(gs, w)), <<hash, vout>>)
<1> DEFINE E == Parents \X Nat
           n == Len(hs)
           r == runsOf(hs, v)
           q == runsOf(gs, w)
           sp == spentOf(hs, v)
           tp == spentOf(gs, w)
           x == <<hash, vout>>
<1>0. hs \in Seq(Parents) /\ IsInjective(hs) /\ n \in Nat /\ x \in E
  BY DEF IsState
<1>1. /\ r \in Seq(Seq(E)) /\ Len(r) = n
      /\ \A i \in 1 .. n : /\ r[i] = tag(hs[i], sp[hs[i]]) /\ sp[hs[i]] \in Seq(Nat)
                           /\ hs[i] \in Parents /\ hs[i] \in ToSet(hs)
  BY RunsAreSpent
<1>2. /\ q \in Seq(Seq(E)) /\ Len(q) = Len(gs)
      /\ \A i \in 1 .. Len(gs) : q[i] = tag(gs[i], tp[gs[i]])
  BY RunsAreSpent
<1>3. /\ gs = IF hash \in ToSet(hs) THEN hs ELSE Append(hs, hash)
      /\ tp = [p \in ToSet(hs) \cup {hash} |->
                 IF p # hash THEN sp[p]
                 ELSE IF hash \in ToSet(hs) THEN Append(sp[hash], vout)
                 ELSE <<vout>>]
  BY Zenon DEF Spends
<1>4. /\ \A p \in ToSet(hs) : p # hash => tp[p] = sp[p]
      /\ hash \in ToSet(hs) => tp[hash] = Append(sp[hash], vout)
      /\ hash \notin ToSet(hs) => tp[hash] = <<vout>>
  <2> HIDE DEF sp, tp
  <2> QED BY <1>3
<1> HIDE DEF r, q, sp, tp
<1>5. CASE hash \in ToSet(hs)
  <2> DEFINE j == indexIn(hs, hash) + 1
  <2>1. j \in 1 .. n /\ hs[j] = hash
    <3>1. Contains(hs, hash)
      BY <1>0, <1>5, IndexInLemma
    <3> QED BY <1>0, <3>1, IndexInLemma
  <2> HIDE DEF j, E, n
  <2>2. gs = hs
    BY <1>3, <1>5
  <2>3. Len(q) = n
    BY <1>2, <2>2 DEF n
  <2>4. q[j] = Append(r[j], x)
    <3>1. q[j] = tag(hash, Append(sp[hash], vout)) /\ r[j] = tag(hash, sp[hash])
      BY <1>1, <1>2, <1>4, <1>5, <2>1, <2>2 DEF n
    <3>2. sp[hash] \in Seq(Nat)
      BY <1>1, <2>1
    <3>3. tag(hash, Append(sp[hash], vout)) = Append(tag(hash, sp[hash]), x)
      BY <3>2, TagLemma
    <3> QED BY <3>1, <3>3
  <2>5. ASSUME NEW i \in 1 .. n, i # j PROVE q[i] = r[i]
    <3>1. hs[i] # hash
      <4>1. DOMAIN hs = 1 .. n
        BY <1>0 DEF n
      <4> QED BY <1>0, <2>1, <2>5, <4>1 DEF IsInjective
    <3>2. q[i] = tag(hs[i], tp[hs[i]])
      BY <1>2, <2>2 DEF n
    <3> QED BY <1>1, <1>4, <3>1, <3>2
  <2>6. GrowsAt(r, q, n, j, x)
    BY <2>4, <2>5 DEF GrowsAt
  <2>7. OneMore(FlattenSeq(r), FlattenSeq(q), x)
    BY <1>0, <1>1, <1>2, <2>1, <2>3, <2>6, FlattenGrows
  <2> QED BY <2>7 DEF r, q
<1>6. CASE hash \notin ToSet(hs)
  <2>1. gs = Append(hs, hash)
    BY <1>3, <1>6
  <2>2. /\ Len(gs) = n + 1 /\ gs[n + 1] = hash /\ n + 1 \in 1 .. n + 1
        /\ \A i \in 1 .. n : gs[i] = hs[i] /\ i \in 1 .. n + 1
    BY <1>0, <2>1, AppendProperties
  <2> HIDE DEF E, n
  <2>3. q[n + 1] = <<x>>
    <3>1. q[n + 1] = tag(hash, <<vout>>)
      BY <1>2, <1>4, <1>6, <2>2
    <3>2. << >> \in Seq(Nat)
      OBVIOUS
    <3>3. tag(hash, <<vout>>) = <<x>>
      BY <3>2, TagLemma
    <3> QED BY <3>1, <3>3
  <2>4. ASSUME NEW i \in 1 .. n PROVE q[i] = r[i]
    <3>1. q[i] = tag(hs[i], tp[hs[i]])
      BY <1>2, <2>2
    <3>2. hs[i] # hash
      BY <1>1, <1>6
    <3> QED BY <1>1, <1>4, <3>1, <3>2
  <2>5. Len(q) = n + 1
    BY <1>2, <2>2
  <2>6. OneMore(FlattenSeq(r), FlattenSeq(q), x)
    BY <1>0, <1>1, <1>2, <2>3, <2>4, <2>5, FlattenAppends
  <2> QED BY <2>6 DEF r, q
<1> QED BY <1>5, <1>6

\* The invariant: as many words as inputs and parents, as many outputs as inputs,
\* and each as often as the inputs done so far have it.
Counted ==
  /\ IInv
  /\ Len(voutIdxs) = Len(parentTxHashes) + done
  /\ Len(GetTxInpoints) = done
  /\ \A e : occ(GetTxInpoints, e) = occ(SubSeq(inputs, 1, done), e)

\* What GetTxInpoints joins.
LEMMA InpointsAreRuns == GetTxInpoints = FlattenSeq(runsOf(parentTxHashes, voutIdxs))
<1> DEFINE F(i) == LET run == voutSliceForParent(i - 1)
                   IN  [k \in DOMAIN run |-> <<parentTxHashes[i], run[k]>>]
           G(i) == tag(parentTxHashes[i], slice(voutIdxs, walk(voutIdxs, i - 1)))
<1>1. \A i : voutSliceForParent(i - 1) = slice(voutIdxs, walk(voutIdxs, i - 1))
  BY ModelOperators
<1>2. \A i : F(i) = G(i)
  <2> SUFFICES ASSUME NEW i PROVE F(i) = G(i)
    OBVIOUS
  <2> DEFINE run == slice(voutIdxs, walk(voutIdxs, i - 1))
  <2>1. F(i) = [k \in DOMAIN run |-> <<parentTxHashes[i], run[k]>>]
    <3>1. voutSliceForParent(i - 1) = run
      BY <1>1
    <3> HIDE DEF run
    <3> QED BY <3>1
  <2> QED BY <2>1 DEF tag
<1>3. /\ GetTxInpoints = FlattenSeq([i \in DOMAIN parentTxHashes |-> F(i)])
      /\ runsOf(parentTxHashes, voutIdxs) = [i \in DOMAIN parentTxHashes |-> G(i)]
  BY DEF GetTxInpoints, runsOf
<1> HIDE DEF F, G
<1> QED BY <1>2, <1>3

\* Before the first input.
LEMMA InitCounted ==
  ASSUME Init PROVE Counted
<1>1. IInv
  BY InitPacked
<1>2. parentTxHashes = << >> /\ voutIdxs = << >> /\ done = 0 /\ inputs \in Seq(Parents \X Vouts)
  BY <1>1 DEF Init, IInv
<1>3. GetTxInpoints = << >>
  <2> DEFINE r == runsOf(parentTxHashes, voutIdxs)
  <2>1. r \in [{} -> {}]
    BY <1>2 DEF runsOf
  <2>2. r = << >> /\ Len(r) = 0
    <3> HIDE DEF r
    <3> QED BY <2>1
  <2> HIDE DEF r
  <2>3. FlattenSeq(r) = r
    BY <2>2, Zenon DEF FlattenSeq
  <2> QED BY <2>2, <2>3, InpointsAreRuns DEF r
<1>4. SubSeq(inputs, 1, 0) = << >>
  BY <1>2
<1>5. Len(voutIdxs) = Len(parentTxHashes) + done /\ Len(GetTxInpoints) = done
  BY <1>2, <1>3
<1>6. \A e : occ(GetTxInpoints, e) = occ(SubSeq(inputs, 1, done), e)
  BY <1>2, <1>3, <1>4
<1> QED BY <1>1, <1>5, <1>6 DEF Counted

\* One more input.
LEMMA AppendCounted ==
  ASSUME Counted, newSizedFromInputs
  PROVE  Counted'
<1> DEFINE hash == inputs[done + 1][1]
           vout == inputs[done + 1][2]
           x == inputs[done + 1]
           E == Parents \X Vouts
           out == FlattenSeq(runsOf(parentTxHashes, voutIdxs))
           new == FlattenSeq(runsOf(parentTxHashes', voutIdxs'))
           was == SubSeq(inputs, 1, done)
           now == SubSeq(inputs, 1, done + 1)
<1>0. IInv
  BY DEF Counted
<1>1. /\ IInv' /\ hash \in Parents /\ vout \in Vouts
      /\ Spends(parentTxHashes, voutIdxs, parentTxHashes', voutIdxs', hash, vout)
  BY <1>0, AppendStep
<1>2. /\ inputs \in Seq(E) /\ done \in Nat /\ done + 1 <= Len(inputs) /\ Len(inputs) \in Nat
      /\ x \in E /\ x = <<hash, vout>> /\ done' = done + 1 /\ inputs' = inputs
  <2>1. inputs \in Seq(E) /\ done \in Nat /\ done + 1 <= Len(inputs) /\ Len(inputs) \in Nat
        /\ done' = done + 1 /\ inputs' = inputs
    BY <1>0 DEF IInv, newSizedFromInputs
  <2>2. x \in E
    BY <2>1
  <2> QED BY <2>1, <2>2
<1>3. GetTxInpoints = out /\ GetTxInpoints' = new
  <2>1. GetTxInpoints = out
    BY InpointsAreRuns
  <2>2. (GetTxInpoints = FlattenSeq(runsOf(parentTxHashes, voutIdxs)))'
    BY InpointsAreRuns, PTL
  <2> QED BY <2>1, <2>2
<1>4. OneMore(out, new, <<hash, vout>>)
  <2>1. IsState(parentTxHashes, voutIdxs) /\ IsState(parentTxHashes', voutIdxs')
    BY <1>0, <1>1 DEF IInv, IsState
  <2>2. hash \in Parents /\ vout \in Nat
    BY <1>1, InpointsAssumption
  <2> HIDE DEF hash, vout
  <2> QED BY <1>1, <2>1, <2>2, SpendsOneMore
<1>5. OneMore(was, now, x)
  <2>1. now = Append(was, x)
    BY <1>2, PrefixAppend
  <2>2. was \in Seq(E)
    BY <1>2
  <2> HIDE DEF was, now, x, E
  <2> QED BY <1>2, <2>1, <2>2, AppendOneMore
<1>6. Len(voutIdxs') = Len(parentTxHashes') + done + 1
  <2>1. Len(voutIdxs) = Len(parentTxHashes) + done
    BY DEF Counted
  <2>2. voutIdxs \in Seq(Nat) /\ parentTxHashes \in Seq(Parents)
    BY <1>0 DEF IInv
  <2>3. appendInput(hash, vout)
    BY Zenon DEF newSizedFromInputs
  <2> HIDE DEF hash, vout
  <2>4. CASE indexOf(hash) = -1
    <3>1. /\ parentTxHashes' = Append(parentTxHashes, hash)
          /\ voutIdxs' = voutIdxs \o <<1, vout>>
      BY <2>3, <2>4 DEF appendInput
    <3>2. Len(voutIdxs') = Len(voutIdxs) + 2
      BY <2>2, <3>1, AppendLength
    <3>3. Len(parentTxHashes') = Len(parentTxHashes) + 1
      BY <1>1, <2>2, <3>1
    <3> QED BY <1>2, <2>1, <2>2, <3>2, <3>3
  <2>5. CASE indexOf(hash) # -1
    <3>1. /\ parentTxHashes' = parentTxHashes
          /\ voutIdxs' = withVout(runStart(indexOf(hash)), vout)
      BY <2>3, <2>5 DEF appendInput
    <3>2. Len(voutIdxs') = Len(voutIdxs) + 1
      BY <2>2, <3>1, WithVoutLength
    <3> QED BY <1>2, <2>1, <2>2, <3>1, <3>2
  <2> QED BY <2>4, <2>5
<1>7. Len(out) = done /\ \A e : occ(out, e) = occ(was, e)
  BY <1>3 DEF Counted
<1> HIDE DEF out, new, was, now, x, hash, vout
<1>8. Len(new) = done + 1 /\ \A e : occ(new, e) = occ(now, e)
  <2>1. Len(new) = done + 1
    BY <1>4, <1>7 DEF OneMore
  <2>2. ASSUME NEW e PROVE occ(new, e) = occ(now, e)
    <3>1. occ(new, e) = occ(out, e) + IF e = x THEN 1 ELSE 0
      BY <1>2, <1>4 DEF OneMore
    <3>2. occ(now, e) = occ(was, e) + IF e = x THEN 1 ELSE 0
      BY <1>5 DEF OneMore
    <3> QED BY <3>1, <3>2, <1>7
  <2> QED BY <2>1, <2>2
<1>9. SubSeq(inputs, 1, done)' = now
  BY <1>2 DEF now
<1>10. Len(voutIdxs') = Len(parentTxHashes') + done'
  <2>1. parentTxHashes' \in Seq(Parents)
    BY <1>1 DEF IInv
  <2> QED BY <1>2, <1>6, <2>1
<1> QED BY <1>1, <1>2, <1>3, <1>8, <1>9, <1>10, Zenon DEF Counted

\* Every input of the transaction comes back from GetTxInpoints exactly as often
\* as it was appended, for every transaction, whichever of its inputs share a
\* parent and in whatever order they come, also after writing and reading back.
THEOREM NothingIsLost == Spec => []NothingLost
<1>1. Init => Counted
  BY InitCounted
<1>2. Counted /\ [Next]_vars => Counted'
  <2> SUFFICES ASSUME Counted, [Next]_vars PROVE Counted'
    OBVIOUS
  <2>1. CASE newSizedFromInputs
    BY <2>1, AppendCounted
  <2>2. ASSUME UNCHANGED <<parentTxHashes, voutIdxs, inputs, done>> PROVE Counted'
    <3>1. GetTxInpoints' = GetTxInpoints
      <4>1. (GetTxInpoints = FlattenSeq(runsOf(parentTxHashes, voutIdxs)))'
        BY InpointsAreRuns, PTL
      <4> QED BY <2>2, <4>1, InpointsAreRuns
    <3>2. IInv'
      BY StepKeepsPacked DEF Counted
    <3> QED BY <2>2, <3>1, <3>2 DEF Counted
  <2>3. CASE Reload
    BY <2>2, <2>3, ReloadStep DEF Counted
  <2>4. CASE UNCHANGED vars
    BY <2>2, <2>4 DEF vars
  <2> QED BY <2>1, <2>3, <2>4 DEF Next
<1>3. ASSUME Counted PROVE NothingLost
  <2>1. nrInputs = Len(GetTxInpoints)
    <3>1. /\ Len(voutIdxs) = Len(parentTxHashes) + done /\ Len(GetTxInpoints) = done
          /\ parentTxHashes \in Seq(Parents) /\ done \in Nat
      BY <1>3 DEF Counted, IInv
    <3>2. CASE parentTxHashes = << >>
      <4> DEFINE st == [i \in 0 .. Len(parentTxHashes) |-> walk(voutIdxs, i)]
      <4>1. IsLayout(voutIdxs, Len(parentTxHashes), st)
        BY <1>3 DEF Counted, IInv, Packed
      <4> HIDE DEF st
      <4>2. Len(parentTxHashes) = 0
        BY <3>2
      <4>3. Len(voutIdxs) = 0
        BY <4>1, <4>2 DEF IsLayout
      <4> QED BY <3>1, <3>2, <4>2, <4>3 DEF nrInputs
    <3>3. CASE parentTxHashes # << >>
      BY <3>1, <3>3 DEF nrInputs
    <3> QED BY <3>2, <3>3
  <2>2. \A e : occ(GetTxInpoints, e) = occ(SubSeq(inputs, 1, done), e)
    BY <1>3 DEF Counted
  <2> QED BY <2>1, <2>2 DEF NothingLost, occ
<1> QED BY <1>1, <1>2, <1>3, PTL DEF Spec
=============================================================================
