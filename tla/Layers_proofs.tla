---------------------------- MODULE Layers_proofs ----------------------------
(***************************************************************************)
(* Proofs about the layers of a run, and then about scanning one.          *)
(*                                                                         *)
(* The layers.  For any images, formats, depth and number of swap files    *)
(* and of plugins' layers: the search for a free name ends with one that   *)
(* no layer has, and a name means the same layer for as long as it is      *)
(* held; the order lists what is held; what a layer rests on is there and  *)
(* nothing stray is; and what layerwriter takes is the top.                *)
(*                                                                         *)
(* The scan.  For any layer whose runs do not overlap, any file, needles   *)
(* no longer than a chunk repeats, any sizes of chunks and batches, and    *)
(* any sections none of which lies within another, in whatever order the   *)
(* workers of a batch are: what is coalesced is what was asked for; if the *)
(* file holds the runs, a scan that ends by itself has reported what it    *)
(* owes, and one for a single needle in order; and no hit is passed on too *)
(* often.                                                                  *)
(***************************************************************************)
EXTENDS Layers, Scan, SequenceTheorems, FiniteSetTheorems, WellFoundedInduction, TLAPS

-----------------------------------------------------------------------------
(* The name that is found.                                                 *)

\* Of one more number than there are names, one makes a name that is free.
LEMMA SomeNumberIsFree ==
    ASSUME NEW prefix, NEW T, IsFiniteSet(T)
    PROVE  \E n \in 0..Cardinality(T) : <<prefix, n>> \notin T
<1> DEFINE N == Cardinality(T)
           f == [n \in 0..N |-> <<prefix, n>>]
<1>1. N \in Nat
  BY FS_CardinalityType
<1>2. IsFiniteSet(0..N) /\ Cardinality(0..N) = N + 1
  <2> HIDE DEF N
  <2> QED BY <1>1, FS_Interval
<1>3. SUFFICES ASSUME \A n \in 0..N : <<prefix, n>> \in T PROVE FALSE
  OBVIOUS
<1>4. f \in [0..N -> T]
  BY <1>3
<1>5. Cardinality(T) < Cardinality(0..N)
  <2>1. Cardinality(T) = N
    OBVIOUS
  <2> HIDE DEF N
  <2> QED BY <1>1, <1>2, <2>1
<1>6. \E x, y \in 0..N : x # y /\ f[x] = f[y]
  <2> HIDE DEF f, N
  <2> QED BY <1>2, <1>4, <1>5, FS_PigeonHole
<1> QED
  BY <1>6

\* And one of these is the least.
LEMMA SomeNumberIsFirst ==
    ASSUME NEW prefix, NEW T, IsFiniteSet(T)
    PROVE  \E n \in 0..Cardinality(T) :
             /\ <<prefix, n>> \notin T
             /\ \A m \in 0..(n - 1) : <<prefix, m>> \in T
<1> DEFINE Less == {ss \in Nat \X Nat : ss[1] < ss[2]}
           N == Cardinality(T)
           free == {n \in 0..N : <<prefix, n>> \notin T}
<1>1. N \in Nat
  BY FS_CardinalityType
<1>2. free # {} /\ free \in SUBSET Nat
  <2>1. \E n \in 0..N : <<prefix, n>> \notin T
    BY SomeNumberIsFree
  <2> HIDE DEF N
  <2> QED BY <1>1, <2>1
<1>3. IsWellFoundedOn(Less, Nat)
  BY NatLessThanWellFounded DEF OpToRel
<1>4. \E n \in free : \A m \in free : ~ (<<m, n>> \in Less)
  <2> HIDE DEF Less, free
  <2> QED BY <1>2, <1>3, WFMin
<1>5. PICK n \in free : \A m \in free : ~ (<<m, n>> \in Less)
  BY <1>4
<1>6. n \in 0..N /\ <<prefix, n>> \notin T
  OBVIOUS
<1>7. ASSUME NEW m \in 0..(n - 1) PROVE <<prefix, m>> \in T
  <2>1. m \in Nat /\ n \in Nat /\ m < n /\ m \in 0..N
    <3> HIDE DEF N
    <3> QED BY <1>1, <1>6, <1>7
  <2>2. m \notin free
    BY <1>5, <2>1
  <2> QED BY <2>1, <2>2
<1> QED
  BY <1>6, <1>7

\* So the search of free_name ends, with a name of that prefix that no layer has.
LEMMA NameIsFree ==
    ASSUME NEW h, NEW prefix, IsFiniteSet(Named(h))
    PROVE  free_name(h, prefix) \notin Named(h) /\ free_name(h, prefix)[1] = prefix
<1> DEFINE Least(n) == /\ <<prefix, n>> \notin Named(h)
                         /\ \A m \in 0..(n - 1) : <<prefix, m>> \in Named(h)
           number == CHOOSE n \in 0..Cardinality(Named(h)) : Least(n)
<1>1. \E n \in 0..Cardinality(Named(h)) : Least(n)
  BY SomeNumberIsFirst
<1>2. Least(number)
  <2> HIDE DEF Least
  <2> QED BY <1>1, Zenon
<1>3. free_name(h, prefix) = <<prefix, number>>
  BY DEF free_name
<1> HIDE DEF number
<1> QED
  BY <1>2, <1>3

-----------------------------------------------------------------------------
(* The order of the names.                                                 *)

\* What retain keeps of the first i names.  That there is such a sequence of lists is by
\* induction, here as the least number for which there is none.
KeptStep(names, name, f, i) ==
    IF i = 0 THEN <<>>
    ELSE IF names[i] = name THEN f[i - 1] ELSE Append(f[i - 1], names[i])

\* For any number of names there is such a sequence.
LEMMA KeptExists ==
    ASSUME NEW names, NEW name, NEW k \in Nat
    PROVE  \E f : f = [i \in 0..k |-> KeptStep(names, name, f, i)]
<1> DEFINE Less == {ss \in Nat \X Nat : ss[1] < ss[2]}
           P(j) == \E f : f = [i \in 0..j |-> KeptStep(names, name, f, i)]
           bad == {j \in Nat : ~P(j)}
<1>1. IsWellFoundedOn(Less, Nat)
  BY NatLessThanWellFounded DEF OpToRel
<1>2. SUFFICES ASSUME bad # {} PROVE FALSE
  OBVIOUS
<1>3. PICK j \in bad : \A m \in bad : ~ (<<m, j>> \in Less)
  <2>1. bad \in SUBSET Nat
    OBVIOUS
  <2> HIDE DEF Less, bad
  <2> QED BY <1>1, <1>2, <2>1, WFMin
<1>4. j \in Nat /\ ~P(j) /\ \A m \in Nat : m < j => P(m)
  BY <1>3
<1>5. CASE j = 0
  <2> DEFINE f == [i \in 0..0 |-> <<>>]
  <2>1. f = [i \in 0..0 |-> KeptStep(names, name, f, i)]
    BY DEF KeptStep
  <2> HIDE DEF f
  <2> QED BY <2>1, <1>4, <1>5
<1>6. CASE j # 0
  <2>1. P(j - 1)
    BY <1>4, <1>6
  <2>2. PICK f : f = [i \in 0..(j - 1) |-> KeptStep(names, name, f, i)]
    BY <2>1
  <2> DEFINE g == [i \in 0..j |-> IF i = j THEN KeptStep(names, name, f, j) ELSE f[i]]
  <2>3. g = [i \in 0..j |-> KeptStep(names, name, g, i)]
    <3>1. ASSUME NEW i \in 0..j PROVE g[i] = KeptStep(names, name, g, i)
      <4>1. CASE i = 0
        <5>1. g[i] = f[0]
          BY <1>4, <1>6, <4>1
        <5>2. f[0] = KeptStep(names, name, f, 0)
          <6>1. 0 \in 0..(j - 1)
            BY <1>4, <1>6
          <6> HIDE DEF g
          <6> QED BY <6>1, <2>2
        <5> QED BY <4>1, <5>1, <5>2 DEF KeptStep
      <4>2. CASE i # 0
        <5>1. g[i - 1] = f[i - 1] /\ i - 1 \in 0..(j - 1)
          BY <1>4, <4>2
        <5>2. g[i] = KeptStep(names, name, f, i)
          <6>1. CASE i = j
            BY <6>1
          <6>2. CASE i # j
            <7>1. g[i] = f[i] /\ i \in 0..(j - 1)
              BY <1>4, <6>2
            <7>2. f[i] = KeptStep(names, name, f, i)
              BY <2>2, <7>1
            <7> QED BY <7>1, <7>2
          <6> QED BY <6>1, <6>2
        <5> HIDE DEF g
        <5> QED BY <4>2, <5>1, <5>2 DEF KeptStep
      <4> QED BY <4>1, <4>2
    <3>2. g = [i \in 0..j |-> g[i]]
      OBVIOUS
    <3> HIDE DEF g
    <3> QED BY <3>1, <3>2
  <2> HIDE DEF g
  <2> QED BY <2>3, <1>4
<1> QED BY <1>5, <1>6

\* A sequence of lists, each the one before it with one more name or without.
IsKept(names, name, f) == \A i \in 0..Len(names) : f[i] = KeptStep(names, name, f, i)

\* So retain is the last of such a sequence.
LEMMA RetainIsKept ==
    ASSUME NEW S, NEW names \in Seq(S), NEW name
    PROVE  \E f : retain(names, name) = f[Len(names)] /\ IsKept(names, name, f)
<1> DEFINE kept[i \in 0..Len(names)] ==
             IF i = 0 THEN <<>>
             ELSE IF names[i] = name THEN kept[i - 1] ELSE Append(kept[i - 1], names[i])
<1>1. retain(names, name) = kept[Len(names)]
  BY DEF retain
<1>2. \E f : f = [i \in 0..Len(names) |-> KeptStep(names, name, f, i)]
  <2>1. Len(names) \in Nat
    OBVIOUS
  <2> HIDE DEF kept
  <2> QED BY <2>1, KeptExists
<1>3. \E f : f = [i \in 0..Len(names) |-> IF i = 0 THEN <<>>
             ELSE IF names[i] = name THEN f[i - 1] ELSE Append(f[i - 1], names[i])]
  BY <1>2 DEF KeptStep
<1>4. kept = [i \in 0..Len(names) |-> IF i = 0 THEN <<>>
             ELSE IF names[i] = name THEN kept[i - 1] ELSE Append(kept[i - 1], names[i])]
  BY <1>3
<1> HIDE DEF kept
<1>5. \A i \in 0..Len(names) : kept[i] = KeptStep(names, name, kept, i)
  BY <1>4 DEF KeptStep
<1> QED BY <1>1, <1>5 DEF IsKept

\* Up to the first time the name comes all is kept.
LEMMA KeptUntil ==
    ASSUME NEW S, NEW names \in Seq(S), NEW name, NEW f,
           IsKept(names, name, f), NEW k \in 0..Len(names), \A i \in 1..k : names[i] # name
    PROVE  f[k] = SubSeq(names, 1, k)
<1> DEFINE Less == {ss \in Nat \X Nat : ss[1] < ss[2]}
           bad == {j \in 0..k : f[j] # SubSeq(names, 1, j)}
<1>1. IsWellFoundedOn(Less, Nat)
  BY NatLessThanWellFounded DEF OpToRel
<1>2. SUFFICES ASSUME bad # {} PROVE FALSE
  OBVIOUS
<1>3. PICK j \in bad : \A m \in bad : ~ (<<m, j>> \in Less)
  <2>1. bad \in SUBSET Nat
    OBVIOUS
  <2> HIDE DEF Less, bad
  <2> QED BY <1>1, <1>2, <2>1, WFMin
<1>4. j \in 0..k /\ f[j] # SubSeq(names, 1, j)
  OBVIOUS
<1>5. f[j] = KeptStep(names, name, f, j)
  BY <1>4 DEF IsKept
<1>6. CASE j = 0
  <2>1. f[j] = <<>>
    BY <1>5, <1>6 DEF KeptStep
  <2>2. SubSeq(names, 1, 0) = <<>>
    OBVIOUS
  <2> QED BY <1>4, <1>6, <2>1, <2>2
<1>7. CASE j # 0
  <2>1. j - 1 \in 0..k /\ j - 1 \in Nat /\ j \in Nat /\ j - 1 < j
    BY <1>4, <1>7
  <2>2. f[j - 1] = SubSeq(names, 1, j - 1)
    <3>1. <<j - 1, j>> \in Less
      BY <2>1
    <3>2. j - 1 \notin bad
      <4> HIDE DEF Less, bad
      <4> QED BY <3>1, <1>3
    <3> QED BY <2>1, <3>2
  <2>3. f[j] = Append(SubSeq(names, 1, j - 1), names[j])
    <3>1. names[j] # name
      BY <1>4, <1>7
    <3> QED BY <1>5, <1>7, <2>2, <3>1 DEF KeptStep
  <2>4. Append(SubSeq(names, 1, j - 1), names[j]) = SubSeq(names, 1, j)
    <3>1. j \in 1..Len(names)
      BY <1>4, <1>7
    <3> HIDE DEF bad
    <3> QED BY <3>1
  <2> QED BY <1>4, <2>3, <2>4
<1> QED BY <1>6, <1>7

\* A name that is not listed is not missed.
LEMMA RetainAbsent ==
    ASSUME NEW S, NEW names \in Seq(S), NEW name, name \notin Range(names)
    PROVE  retain(names, name) = names
<1>1. PICK f : retain(names, name) = f[Len(names)] /\ IsKept(names, name, f)
  BY RetainIsKept
<1>2. \A i \in 1..Len(names) : names[i] # name
  BY DEF Range
<1>3. Len(names) \in 0..Len(names)
  OBVIOUS
<1>4. f[Len(names)] = SubSeq(names, 1, Len(names))
  BY <1>1, <1>2, <1>3, KeptUntil
<1>5. SubSeq(names, 1, Len(names)) = names
  OBVIOUS
<1> QED BY <1>1, <1>4, <1>5

\* The name last listed is taken off.
LEMMA RetainLast ==
    ASSUME NEW S, NEW names \in Seq(S), NEW name \in S, name \notin Range(names)
    PROVE  retain(Append(names, name), name) = names
<1> DEFINE longer == Append(names, name)
<1>1. longer \in Seq(S) /\ Len(longer) = Len(names) + 1 /\ longer[Len(names) + 1] = name
  OBVIOUS
<1>2. \A i \in 1..Len(names) : longer[i] = names[i] /\ names[i] # name
  BY DEF Range
<1>3. SubSeq(longer, 1, Len(names)) = names
  OBVIOUS
<1> HIDE DEF longer
<1>4. PICK f : retain(longer, name) = f[Len(longer)] /\ IsKept(longer, name, f)
  BY <1>1, RetainIsKept
<1>5. f[Len(names)] = SubSeq(longer, 1, Len(names))
  <2>1. Len(names) \in 0..Len(longer) /\ \A i \in 1..Len(names) : longer[i] # name
    BY <1>1, <1>2
  <2> QED BY <1>1, <1>4, <2>1, KeptUntil
<1>6. f[Len(longer)] = f[Len(names)]
  <2>1. Len(longer) \in 0..Len(longer) /\ Len(longer) # 0 /\ Len(longer) - 1 = Len(names)
    BY <1>1
  <2> QED BY <1>1, <1>4, <2>1 DEF KeptStep, IsKept
<1> QED BY <1>3, <1>4, <1>5, <1>6 DEF longer

\* And so is the last but one.
LEMMA RetainLastButOne ==
    ASSUME NEW S, NEW names \in Seq(S), NEW name \in S, name \notin Range(names),
           NEW next \in S, next # name
    PROVE  retain(Append(Append(names, name), next), name) = Append(names, next)
<1> DEFINE longer == Append(Append(names, name), next)
           N == Len(names)
<1>1. /\ longer \in Seq(S) /\ Len(longer) = N + 2 /\ N \in Nat
      /\ longer[N + 1] = name /\ longer[N + 2] = next
  OBVIOUS
<1>2. \A i \in 1..N : longer[i] = names[i] /\ names[i] # name
  BY DEF Range
<1>3. SubSeq(longer, 1, N) = names
  OBVIOUS
<1> HIDE DEF longer, N
<1>4. PICK f : retain(longer, name) = f[Len(longer)] /\ IsKept(longer, name, f)
  BY <1>1, RetainIsKept
<1>5. f[N] = SubSeq(longer, 1, N)
  <2>1. N \in 0..Len(longer) /\ \A i \in 1..N : longer[i] # name
    BY <1>1, <1>2
  <2>2. longer \in Seq(S) /\ IsKept(longer, name, f)
    BY <1>1, <1>4
  <2> QED BY <2>1, <2>2, KeptUntil
<1>6. f[N + 1] = f[N]
  <2>1. N + 1 \in 0..Len(longer) /\ N + 1 # 0 /\ (N + 1) - 1 = N
    BY <1>1
  <2> QED BY <1>1, <1>4, <2>1 DEF KeptStep, IsKept
<1>7. f[N + 2] = Append(f[N + 1], next)
  <2>1. N + 2 \in 0..Len(longer) /\ N + 2 # 0 /\ (N + 2) - 1 = N + 1
    BY <1>1
  <2> QED BY <1>1, <1>4, <2>1 DEF KeptStep, IsKept
<1> QED BY <1>1, <1>3, <1>4, <1>5, <1>6, <1>7 DEF longer

-----------------------------------------------------------------------------
(* What the operations of the container keep.                              *)

\* The layers of g are those of h, where both hold a name.
Agree(h, g) == \A n \in Named(h) \cap Named(g) : g.layers[n] = h.layers[n]

\* What an action does that gives names, none the one a plugin may want, and may
\* take some back; and one that takes none.
Changed(h, g) ==
    /\ IsFiniteSet(Named(g))
    /\ \A n \in Named(g) \ Named(h) : n[1] # "primary"
    /\ Agree(h, g)
Grown(h, g) == Changed(h, g) /\ Named(h) \subseteq Named(g)

\* A layer under a free name is added to the others.
LEMMA AddGrows ==
    ASSUME NEW h, IsFiniteSet(Named(h)),
           NEW name, name \notin Named(h), name[1] # "primary", NEW layer
    PROVE  Named(add(h, name, layer)) = Named(h) \cup {name} /\ Grown(h, add(h, name, layer))
<1> DEFINE g == add(h, name, layer)
<1>1. g.layers = [n \in {name} \cup Named(h) |-> IF n = name THEN layer ELSE h.layers[n]]
  BY DEF add, insert, Named
<1> HIDE DEF g
<1>2. Named(g) = Named(h) \cup {name} /\ Agree(h, g)
  BY <1>1 DEF Named, Agree
<1>3. IsFiniteSet(Named(g))
  BY <1>2, FS_AddElement
<1> QED
  BY <1>2, <1>3 DEF Grown, Changed, g

\* A layer taken away leaves the others.
LEMMA RemoveKeeps ==
    ASSUME NEW h, NEW name
    PROVE  /\ Named(remove(h, name)) = Named(h) \ {name}
           /\ \A n \in Named(h) \ {name} : remove(h, name).layers[n] = h.layers[n]
BY DEF remove, without, Named

\* So to grow and then to take one away is a change, and no change if it is the
\* one that was added.
LEMMA GrowAndRemove ==
    ASSUME NEW h, NEW g, Grown(h, g), NEW name
    PROVE  Changed(h, remove(g, name))
<1> DEFINE r == remove(g, name)
<1>1. Named(r) = Named(g) \ {name} /\ \A n \in Named(r) : r.layers[n] = g.layers[n]
  BY RemoveKeeps
<1> HIDE DEF r
<1>2. IsFiniteSet(Named(r))
  <2>1. Named(r) \subseteq Named(g) /\ IsFiniteSet(Named(g))
    BY <1>1 DEF Grown, Changed
  <2> QED BY <2>1, FS_Subset
<1>3. Agree(h, r)
  BY <1>1 DEF Grown, Changed, Agree
<1>4. \A n \in Named(r) \ Named(h) : n[1] # "primary"
  BY <1>1 DEF Grown, Changed
<1> QED
  BY <1>2, <1>3, <1>4 DEF Changed, r

\* To grow twice is to grow.
LEMMA GrowAgain ==
    ASSUME NEW h, NEW g, NEW k, Grown(h, g), Grown(g, k)
    PROVE  Grown(h, k)
BY DEF Grown, Changed, Agree

\* A container that is as it was.
LEMMA SameIsGrown ==
    ASSUME NEW h, IsFiniteSet(Named(h))
    PROVE  Grown(h, h)
BY DEF Grown, Changed, Agree

\* A layer that is given a free name of a prefix.
LEMMA FreeNameGrows ==
    ASSUME NEW h, IsFiniteSet(Named(h)), NEW prefix, prefix # "primary", NEW layer
    PROVE  Grown(h, add(h, free_name(h, prefix), layer))
BY NameIsFree, AddGrows

\* A name that no layer has takes the place of the old one.
LEMMA RenameKeeps ==
    ASSUME NEW h, IsFiniteSet(Named(h)), NEW from, NEW to, to \notin Named(h)
    PROVE  Agree(h, rename(h, from, to)) /\ IsFiniteSet(Named(rename(h, from, to)))
<1> DEFINE g == rename(h, from, to)
<1>1. CASE from \notin Named(h)
  BY <1>1 DEF rename, Agree
<1>2. CASE from \in Named(h)
  <2>1. g.layers = insert(without(h.layers, from), to, h.layers[from])
    BY <1>2 DEF rename
  <2> HIDE DEF g
  <2>2. Named(g) = {to} \cup (Named(h) \ {from}) /\ Agree(h, g)
    BY <2>1 DEF Named, Agree, insert, without
  <2>3. IsFiniteSet(Named(h) \ {from})
    BY FS_Subset
  <2>4. IsFiniteSet(Named(g))
    BY <2>2, <2>3, FS_AddElement
  <2> QED BY <2>2, <2>4 DEF g
<1> QED
  BY <1>1, <1>2

-----------------------------------------------------------------------------
(* The invariant.                                                          *)

\* Names are finitely many, and nobody but NameKernel gives the one a plugin wants.
IInv ==
    /\ IsFiniteSet(Named(held))
    /\ wanted \in {None, <<"primary", 0>>}
    /\ stage \notin {"ready", "plugin"} => \A n \in Named(held) : n[1] # "primary"

\* Nothing is held yet.
LEMMA InitIInv == Init => IInv
<1> SUFFICES ASSUME Init PROVE IInv
  OBVIOUS
<1>1. Named(held) = {}
  BY DEF Init, Named
<1> QED
  BY <1>1, FS_EmptySet DEF Init, IInv

\* An action that gives free names of other prefixes keeps the invariant.
LEMMA ChangeKeeps ==
    ASSUME IInv, Changed(held, held'), wanted' = wanted,
           stage' \notin {"ready", "plugin"} => stage \notin {"ready", "plugin"}
    PROVE  IInv' /\ Agree(held, held')
BY DEF IInv, Changed, Named

\* The companion is opened under a name of its own, the format under another.
LEMMA StackOneGrows == ASSUME IInv, StackOne PROVE Changed(held, held')
<1> DEFINE name == free_name(held, "memory_layer")
           meta == free_name(held, "meta_layer")
           opened(format) == IF format = "vmware" THEN add(held, meta, File("meta")) ELSE held
           on(format) == {current} \cup (IF format = "vmware" THEN {meta} ELSE {})
<1>0. PICK i \in DOMAIN Formats :
        held' = add(opened(Formats[i]), name, Layer(Formats[i], on(Formats[i])))
  BY DEF StackOne
<1> DEFINE format == Formats[i]
<1>2. IsFiniteSet(Named(held))
  BY DEF IInv
<1>3. /\ name \notin Named(held) /\ name[1] = "memory_layer"
      /\ meta \notin Named(held) /\ meta[1] = "meta_layer"
  BY <1>2, NameIsFree
<1> HIDE DEF name, meta, on
<1>4. Grown(held, opened(format)) /\ name \notin Named(opened(format))
  <2>1. CASE format = "vmware"
    <3>1. /\ Named(add(held, meta, File("meta"))) = Named(held) \cup {meta}
          /\ Grown(held, add(held, meta, File("meta")))
      BY <1>2, <1>3, AddGrows
    <3> QED BY <3>1, <2>1, <1>3
  <2>2. CASE format # "vmware"
    BY <2>2, <1>2, <1>3, SameIsGrown
  <2> QED BY <2>1, <2>2
<1> HIDE DEF opened, format
<1>5. IsFiniteSet(Named(opened(format)))
  BY <1>4 DEF Grown, Changed
<1>6. Grown(opened(format), held')
  <2>1. held' = add(opened(format), name, Layer(format, on(format)))
    BY <1>0 DEF format
  <2> QED BY <2>1, <1>3, <1>4, <1>5, AddGrows
<1> QED
  BY <1>4, <1>6, GrowAgain DEF Grown

\* The companion of a format that does not match is taken back as it was.
LEMMA StopStackingChanges == ASSUME IInv, StopStacking PROVE Changed(held, held')
<1> DEFINE meta == free_name(held, "meta_layer")
           opened == add(held, meta, File("meta"))
           Opens == "vmware" \in allowed /\ Tried("vmware") /\ Len(created) <= MAX_STACK_DEPTH
           tried == IF Opens THEN remove(opened, meta) ELSE held
           name == free_name(tried, "memory_layer")
<1>1. \/ held' = remove(add(tried, name, File("image")), current)
      \/ held' = tried
  BY DEF StopStacking
<1>2. IsFiniteSet(Named(held))
  BY DEF IInv
<1>3. Grown(held, tried)
  <2>1. CASE Opens
    <3>1. meta \notin Named(held) /\ meta[1] = "meta_layer"
      BY <1>2, NameIsFree
    <3> HIDE DEF meta
    <3>2. Named(opened) = Named(held) \cup {meta} /\ Grown(held, opened)
      BY <1>2, <3>1, AddGrows
    <3> HIDE DEF opened
    <3>3. Changed(held, remove(opened, meta)) /\ Named(held) \subseteq Named(remove(opened, meta))
      BY <3>1, <3>2, GrowAndRemove, RemoveKeeps
    <3> QED BY <3>3, <2>1 DEF Grown
  <2>2. CASE ~Opens
    BY <2>2, <1>2, SameIsGrown
  <2> QED BY <2>1, <2>2
<1> HIDE DEF tried
<1>4. Grown(held, add(tried, name, File("image")))
  <2>1. IsFiniteSet(Named(tried))
    BY <1>3 DEF Grown, Changed
  <2>2. Grown(tried, add(tried, name, File("image")))
    BY <2>1, FreeNameGrows
  <2> QED BY <1>3, <2>2, GrowAgain
<1> HIDE DEF name
<1> QED
  BY <1>1, <1>3, <1>4, GrowAndRemove DEF Grown

\* The kernel's layer takes a name that no layer has before the run is ready.
LEMMA NameKernelKeeps == ASSUME IInv, NameKernel PROVE IInv' /\ Agree(held, held')
<1>1. IsFiniteSet(Named(held)) /\ stage' = "ready" /\ wanted' = wanted
  BY DEF IInv, NameKernel, Chosen
<1>2. CASE held' = held
  <2>1. Changed(held, held')
    BY <1>1, <1>2, SameIsGrown DEF Grown
  <2> QED BY <1>1, <2>1, ChangeKeeps
<1>3. CASE wanted # None /\ held' = rename(held, kernel, wanted)
  <2>1. wanted = <<"primary", 0>> /\ wanted \notin Named(held)
    BY <1>3 DEF IInv, NameKernel
  <2>2. Agree(held, held') /\ IsFiniteSet(Named(held'))
    BY <1>1, <1>3, <2>1, RenameKeeps
  <2> QED BY <1>1, <2>2 DEF IInv, Named
<1> QED
  BY <1>2, <1>3 DEF NameKernel

\* Every step keeps the invariant, and the layers under the names that stay.
LEMMA NextIInv == IInv /\ [Next]_vars => IInv' /\ Agree(held, held')
<1> SUFFICES ASSUME IInv, [Next]_vars PROVE IInv' /\ Agree(held, held')
  OBVIOUS
<1> USE DEF Chosen
<1>0. IsFiniteSet(Named(held))
  BY DEF IInv
<1>1. CASE OpenSwap
  <2>1. Changed(held, held')
    BY <1>0, <1>1, FreeNameGrows DEF OpenSwap, Grown
  <2> QED BY <1>1, <2>1, ChangeKeeps DEF OpenSwap
<1>2. CASE OpenImage
  <2>1. Changed(held, held')
    BY <1>0, <1>2, FreeNameGrows DEF OpenImage, Grown
  <2> QED BY <1>2, <2>1, ChangeKeeps DEF OpenImage
<1>3. CASE StackOne
  BY <1>3, StackOneGrows, ChangeKeeps DEF StackOne
<1>4. CASE StopStacking
  BY <1>4, StopStackingChanges, ChangeKeeps DEF StopStacking
<1>5. CASE WindowsFails
  <2>1. Changed(held, held')
    BY <1>0, <1>5, FreeNameGrows DEF WindowsFails, Translated, Grown
  <2> QED BY <1>5, <2>1, ChangeKeeps DEF WindowsFails
<1>6. CASE Recognise
  <2>1. Changed(held, held')
    BY <1>0, <1>6, FreeNameGrows DEF Recognise, Translated, Grown
  <2> QED BY <1>6, <2>1, ChangeKeeps DEF Recognise
<1>7. CASE RecogniseNothing
  <2>1. Changed(held, held')
    BY <1>0, <1>7, SameIsGrown DEF RecogniseNothing, Grown
  <2> QED BY <1>7, <2>1, ChangeKeeps DEF RecogniseNothing
<1>8. CASE NameKernel
  BY <1>8, NameKernelKeeps
<1>9. CASE AddProcess
  <2>1. Changed(held, held')
    BY <1>0, <1>9, FreeNameGrows DEF AddProcess, Grown
  <2> QED BY <1>9, <2>1, ChangeKeeps DEF AddProcess
<1>10. CASE AddHive
  <2>1. Changed(held, held')
    BY <1>0, <1>10, FreeNameGrows DEF AddHive, Grown
  <2> QED BY <1>10, <2>1, ChangeKeeps DEF AddHive
<1>11. CASE UNCHANGED vars
  <2>1. Changed(held, held') /\ wanted' = wanted /\ stage' = stage
    BY <1>0, <1>11, SameIsGrown DEF vars, Grown
  <2> QED BY <2>1, ChangeKeeps
<1> QED
  BY <1>1, <1>2, <1>3, <1>4, <1>5, <1>6, <1>7, <1>8, <1>9, <1>10, <1>11 DEF Next

\* The invariant holds in every state a run reaches.
THEOREM Invariance == Spec => []IInv
BY InitIInv, NextIInv, PTL DEF Spec

\* A name means the same layer for as long as it is held: what a layer rests on, and
\* what a plugin kept the name of, is not replaced under it.
THEOREM LayersStay == Spec => NamesAreKept
<1>1. IInv /\ [Next]_vars => [\A n \in Named(held) \cap DOMAIN held'.layers :
                                held'.layers[n] = layers[n]]_vars
  BY NextIInv DEF Agree, Named, layers
<1> QED
  BY <1>1, Invariance, PTL DEF Spec, NamesAreKept

-----------------------------------------------------------------------------
(* What is held is whole.                                                  *)

\* The order lists what is held, each once.
Listed(h) ==
    /\ h.order \in Seq(Named(h))
    /\ Range(h.order) = Named(h)
    /\ IsInjective(h.order)

\* What a layer rests on is there, and is no view.
Closed(h) == \A n \in Named(h) : h.layers[n].on \subseteq Named(h)
Viewless(h) == \A n \in Named(h) : \A x \in h.layers[n].on : h.layers[x].kind # "intel"

\* Nothing is left behind of a format that did not match.
Used(h, top) ==
    \A n \in Named(h) :
      \/ n = top
      \/ h.layers[n].kind \in {"swap", "intel", "hive"}
      \/ \E m \in Named(h) : n \in h.layers[m].on

\* After the top come views only.
ViewsAfter(h, top) ==
    \E i \in 1..Len(h.order) :
      /\ h.order[i] = top
      /\ \A j \in (i + 1)..Len(h.order) : h.layers[h.order[j]].kind = "intel"

\* The top of the stack while it grows: what was added last, and nothing rests on it.
OnTop(h, top) ==
    /\ Len(h.order) > 0
    /\ h.order[Len(h.order)] = top
    /\ \A n \in Named(h) : top \notin h.layers[n].on

Opening ==
    stage = "open" => created = <<>> /\ \A n \in Named(held) : layers[n].kind = "swap"
Top ==
    stage # "open" =>
      /\ created # <<>>
      /\ current \in Named(held)
      /\ layers[current].kind # "intel"
      /\ Used(held, current)
Growing ==
    stage = "stack" =>
      /\ OnTop(held, current)
      /\ Len(created) = 1 => layers[current].on = {}
Wired ==
    /\ stage \in {"windows", "others", "name", "ready"} => ViewsAfter(held, current)
    /\ stage \notin {"ready", "plugin"} => Viewless(held)
    /\ stage \in {"open", "stack"} => module = None
    /\ kernel # None => kernel \in Named(held) /\ layers[kernel].kind = "intel"
    /\ wanted = None \/ stage \notin {"ready", "plugin"} => module \in Named(held) \cup {None}

\* The names of the layers stacked.
StackName == {"base_layer", "memory_layer"} \X Nat

WInv ==
    /\ IInv
    /\ stage \in {"open", "stack", "windows", "others", "name", "ready", "plugin"}
    /\ created \in Seq(StackName)
    /\ Listed(held) /\ Closed(held)
    /\ Opening /\ Top /\ Growing /\ Wired

\* The name found is a prefix and a number.
LEMMA FreeNameIsName ==
    ASSUME NEW h, IsFiniteSet(Named(h)), NEW prefix
    PROVE  free_name(h, prefix) \in {prefix} \X Nat
<1> DEFINE Least(n) == /\ <<prefix, n>> \notin Named(h)
                       /\ \A m \in 0..(n - 1) : <<prefix, m>> \in Named(h)
           number == CHOOSE n \in 0..Cardinality(Named(h)) : Least(n)
<1>1. \E n \in 0..Cardinality(Named(h)) : Least(n)
  BY SomeNumberIsFirst
<1>2. number \in 0..Cardinality(Named(h))
  <2> HIDE DEF Least
  <2> QED BY <1>1, Zenon
<1>3. Cardinality(Named(h)) \in Nat
  BY FS_CardinalityType
<1>4. number \in Nat
  <2> HIDE DEF number
  <2> QED BY <1>2, <1>3
<1>5. free_name(h, prefix) = <<prefix, number>>
  BY DEF free_name
<1> HIDE DEF number
<1> QED
  BY <1>4, <1>5

\* g holds what h does and one layer more, named last.
OneMore(h, g, name, layer) ==
    /\ Named(g) = Named(h) \cup {name}
    /\ g.layers[name] = layer
    /\ \A n \in Named(h) : g.layers[n] = h.layers[n]
    /\ g.order = Append(h.order, name)

\* What add does under a free name.
LEMMA AddIsOneMore ==
    ASSUME NEW h, NEW name, name \notin Named(h), NEW layer
    PROVE  OneMore(h, add(h, name, layer), name, layer)
BY DEF add, insert, Named, OneMore

\* One more name at the end of the order, and the order still lists what is held.
LEMMA OneMoreIsListed ==
    ASSUME NEW h, NEW g, NEW name, NEW layer, OneMore(h, g, name, layer),
           name \notin Named(h), Listed(h)
    PROVE  Listed(g)
<1> DEFINE S == Named(h) \cup {name}
<1>1. /\ h.order \in Seq(S) /\ h.order \in Seq(Named(h))
      /\ g.order = Append(h.order, name) /\ Named(g) = S
  <2>1. h.order \in Seq(Named(h)) /\ Named(h) \subseteq S
    BY DEF Listed
  <2>2. h.order \in Seq(S)
    <3> HIDE DEF S
    <3> QED BY <2>1, SeqMonotonic
  <2> QED BY <2>1, <2>2 DEF OneMore
<1>2. /\ g.order \in Seq(S) /\ Len(g.order) = Len(h.order) + 1
      /\ g.order[Len(h.order) + 1] = name
      /\ \A i \in 1..Len(h.order) : g.order[i] = h.order[i]
      /\ Len(h.order) \in Nat
  BY <1>1
<1>3. DOMAIN g.order = 1..(Len(h.order) + 1) /\ DOMAIN h.order = 1..Len(h.order)
  BY <1>1, <1>2
<1>4. Range(g.order) = S
  <2>1. Range(h.order) = Named(h)
    BY DEF Listed
  <2>2. \A i \in DOMAIN g.order : g.order[i] \in S
    BY <1>2
  <2>3. ASSUME NEW n \in S PROVE \E i \in DOMAIN g.order : g.order[i] = n
    <3>1. CASE n = name
      BY <3>1, <1>2, <1>3
    <3>2. CASE n \in Named(h)
      <4>1. PICK i \in DOMAIN h.order : h.order[i] = n
        BY <3>2, <2>1 DEF Range
      <4> QED BY <4>1, <1>2, <1>3
    <3> QED BY <3>1, <3>2
  <2> HIDE DEF S
  <2> QED BY <2>2, <2>3 DEF Range
<1>5. IsInjective(g.order)
  <2>1. SUFFICES ASSUME NEW a \in DOMAIN g.order, NEW b \in DOMAIN g.order,
                        g.order[a] = g.order[b]
                 PROVE  a = b
    BY DEF IsInjective
  <2>2. \A i \in 1..Len(h.order) : g.order[i] \in Named(h)
    BY <1>1, <1>2
  <2>3. \A i, j \in 1..Len(h.order) : h.order[i] = h.order[j] => i = j
    BY <1>3 DEF Listed, IsInjective
  <2>4. CASE a \in 1..Len(h.order) /\ b \in 1..Len(h.order)
    BY <1>2, <2>1, <2>3, <2>4
  <2>5. CASE a = Len(h.order) + 1 \/ b = Len(h.order) + 1
    BY <1>2, <1>3, <2>1, <2>2, <2>5
  <2> QED BY <1>2, <1>3, <2>4, <2>5
<1> QED
  BY <1>1, <1>2, <1>4, <1>5 DEF Listed

\* A layer that rests on what is there.
LEMMA OneMoreIsClosed ==
    ASSUME NEW h, NEW g, NEW name, NEW layer, OneMore(h, g, name, layer),
           Closed(h), layer.on \subseteq Named(h)
    PROVE  Closed(g)
BY DEF OneMore, Closed

\* A layer that rests on no view.
LEMMA OneMoreIsViewless ==
    ASSUME NEW h, NEW g, NEW name, NEW layer, OneMore(h, g, name, layer),
           Closed(h), Viewless(h), layer.on \subseteq Named(h),
           \A x \in layer.on : h.layers[x].kind # "intel"
    PROVE  Viewless(g)
BY DEF OneMore, Closed, Viewless

\* A layer of a kind that nothing needs to rest on.
LEMMA OneMoreIsUsed ==
    ASSUME NEW h, NEW g, NEW name, NEW layer, OneMore(h, g, name, layer), NEW top,
           Used(h, top), layer.kind \in {"swap", "intel", "hive"}
    PROVE  Used(g, top)
BY DEF OneMore, Used

\* A view after the top.
LEMMA OneMoreView ==
    ASSUME NEW h, NEW g, NEW name, NEW layer, OneMore(h, g, name, layer), NEW top,
           name \notin Named(h), Listed(h), ViewsAfter(h, top), layer.kind = "intel"
    PROVE  ViewsAfter(g, top)
<1>1. PICK i \in 1..Len(h.order) :
        /\ h.order[i] = top
        /\ \A j \in (i + 1)..Len(h.order) : h.layers[h.order[j]].kind = "intel"
  BY DEF ViewsAfter
<1>2. /\ h.order \in Seq(Named(h)) /\ Len(h.order) \in Nat
      /\ g.order = Append(h.order, name)
  BY DEF OneMore, Listed
<1>3. /\ Len(g.order) = Len(h.order) + 1
      /\ g.order[Len(h.order) + 1] = name
      /\ \A j \in 1..Len(h.order) : g.order[j] = h.order[j] /\ h.order[j] \in Named(h)
  BY <1>2
<1>4. ASSUME NEW j \in (i + 1)..Len(g.order) PROVE g.layers[g.order[j]].kind = "intel"
  <2>1. CASE j = Len(h.order) + 1
    BY <2>1, <1>3 DEF OneMore
  <2>2. CASE j # Len(h.order) + 1
    <3>1. j \in (i + 1)..Len(h.order) /\ j \in 1..Len(h.order)
      BY <2>2, <1>2, <1>3
    <3> QED BY <3>1, <1>1, <1>3 DEF OneMore
  <2> QED BY <2>1, <2>2
<1>5. i \in 1..Len(g.order) /\ g.order[i] = top
  BY <1>1, <1>2, <1>3
<1> QED
  BY <1>4, <1>5 DEF ViewsAfter

\* The names that others keep of layers go on naming them.
Knows(h) ==
    /\ stage \in {"open", "stack"} => module = None
    /\ kernel # None => kernel \in Named(h) /\ h.layers[kernel].kind = "intel"
    /\ wanted = None \/ stage \notin {"ready", "plugin"} => module \in Named(h) \cup {None}

USE DEF layers, order

\* The name of the next layer of a prefix.
LEMMA FreshName ==
    ASSUME WInv, NEW prefix
    PROVE  /\ free_name(held, prefix) \notin Named(held)
           /\ free_name(held, prefix)[1] = prefix
           /\ free_name(held, prefix) \in {prefix} \X Nat
<1>1. IsFiniteSet(Named(held))
  BY DEF WInv, IInv
<1>2. free_name(held, prefix) \notin Named(held) /\ free_name(held, prefix)[1] = prefix
  BY <1>1, NameIsFree
<1>3. free_name(held, prefix) \in {prefix} \X Nat
  BY <1>1, FreeNameIsName
<1> QED
  BY <1>2, <1>3

\* Nothing is held, and nothing is stacked.
LEMMA InitWInv == Init => WInv
<1> SUFFICES ASSUME Init PROVE WInv
  OBVIOUS
<1>1. IInv
  BY InitIInv
<1>2. Named(held) = {} /\ order = <<>> /\ created = <<>> /\ stage = "open"
  BY DEF Init, Named
<1>3. Listed(held)
  BY <1>2 DEF Listed, Range, IsInjective
<1>4. Closed(held) /\ Viewless(held)
  BY <1>2 DEF Closed, Viewless
<1>5. Opening /\ Top /\ Growing
  BY <1>2 DEF Opening, Top, Growing
<1>6. Wired
  BY <1>2, <1>4 DEF Wired, Init
<1>7. created \in Seq(StackName)
  BY <1>2
<1> QED
  BY <1>1, <1>2, <1>3, <1>4, <1>5, <1>6, <1>7 DEF WInv

\* A swap file rests on nothing.
LEMMA OpenSwapWhole == ASSUME WInv, OpenSwap PROVE WInv'
<1> DEFINE name == free_name(held, "swap_layer")
           layer == File("swap")
<1>1. IInv'
  BY NextIInv DEF WInv, Next
<1>2. /\ stage = "open" /\ stage' = "open" /\ created' = created /\ created = <<>>
      /\ \A n \in Named(held) : held.layers[n].kind = "swap"
      /\ kernel' = kernel /\ module' = module /\ wanted' = wanted
      /\ held' = add(held, name, layer)
  BY DEF OpenSwap, WInv, Opening, Chosen
<1>3. name \notin Named(held)
  BY NameIsFree DEF WInv, IInv
<1>4. layer.kind = "swap" /\ layer.on = {}
  BY DEF File, Layer
<1> HIDE DEF name, layer
<1>5. OneMore(held, held', name, layer)
  BY <1>2, <1>3, AddIsOneMore
<1>6. Listed(held') /\ Closed(held') /\ Viewless(held')
  <2>1. Listed(held) /\ Closed(held) /\ Viewless(held)
    BY <1>2 DEF WInv, Wired
  <2> QED BY <2>1, <1>3, <1>4, <1>5, OneMoreIsListed, OneMoreIsClosed, OneMoreIsViewless
<1>7. Opening'
  BY <1>2, <1>4, <1>5 DEF Opening, OneMore
<1>8. Top' /\ Growing'
  BY <1>2 DEF Top, Growing
<1>9. Wired'
  <2>1. Knows(held)
    BY DEF WInv, Wired, Knows
  <2> QED BY <1>2, <1>5, <1>6, <2>1 DEF Wired, Knows, OneMore
<1>10. created' \in Seq(StackName)
  BY <1>2
<1> QED
  BY <1>1, <1>2, <1>6, <1>7, <1>8, <1>9, <1>10 DEF WInv

\* The image is the first top, and rests on nothing.
LEMMA OpenImageWhole == ASSUME WInv, OpenImage PROVE WInv'
<1> DEFINE name == free_name(held, "base_layer")
           layer == File("image")
<1>1. IInv'
  BY NextIInv DEF WInv, Next
<1>2. /\ stage = "open" /\ stage' = "stack" /\ created' = <<name>>
      /\ \A n \in Named(held) : held.layers[n].kind = "swap"
      /\ kernel' = kernel /\ module' = module /\ wanted' = wanted
      /\ held' = add(held, name, layer)
  BY DEF OpenImage, WInv, Opening, Chosen
<1>3. name \notin Named(held) /\ name \in StackName
  <2>1. name \notin Named(held) /\ name \in {"base_layer"} \X Nat
    BY FreshName
  <2> HIDE DEF name
  <2> QED BY <2>1 DEF StackName
<1>4. layer.kind = "image" /\ layer.on = {}
  BY DEF File, Layer
<1> HIDE DEF name, layer
<1>5. OneMore(held, held', name, layer)
  BY <1>2, <1>3, AddIsOneMore
<1>0. Listed(held) /\ Closed(held) /\ Viewless(held)
  BY <1>2 DEF WInv, Wired
<1>6. Listed(held') /\ Closed(held') /\ Viewless(held')
  BY <1>0, <1>3, <1>4, <1>5, OneMoreIsListed, OneMoreIsClosed, OneMoreIsViewless
<1>7. current' = name
  BY <1>2 DEF current, Last
<1>8. Top'
  <2>1. Used(held', name)
    BY <1>2, <1>5 DEF Used, OneMore
  <2> QED BY <1>2, <1>4, <1>5, <1>7, <2>1 DEF Top, OneMore
<1>9. Growing'
  <2>1. OnTop(held', name)
    <3>1. held.order \in Seq(Named(held)) /\ held'.order = Append(held.order, name)
      BY <1>0, <1>5 DEF Listed, OneMore
    <3>2. Len(held'.order) > 0 /\ held'.order[Len(held'.order)] = name
      BY <3>1
    <3>3. \A n \in Named(held') : name \notin held'.layers[n].on
      BY <1>0, <1>3, <1>4, <1>5 DEF OneMore, Closed
    <3> QED BY <3>2, <3>3 DEF OnTop
  <2> QED BY <1>4, <1>5, <1>7, <2>1 DEF Growing, OneMore
<1>10. Wired' /\ Opening'
  <2>1. Knows(held)
    BY DEF WInv, Wired, Knows
  <2> QED BY <1>2, <1>5, <1>6, <2>1 DEF Wired, Knows, OneMore, Opening
<1>11. created' \in Seq(StackName)
  BY <1>2, <1>3
<1> QED
  BY <1>1, <1>2, <1>6, <1>8, <1>9, <1>10, <1>11 DEF WInv

\* What the layer of a format rests on: the layer below, and a companion if it has one.
LEMMA StackOneWhole == ASSUME WInv, StackOne PROVE WInv'
<1> DEFINE name == free_name(held, "memory_layer")
           meta == free_name(held, "meta_layer")
           opened(format) == IF format = "vmware" THEN add(held, meta, File("meta")) ELSE held
           on(format) == {current} \cup (IF format = "vmware" THEN {meta} ELSE {})
<1>1. PICK i \in DOMAIN Formats :
        held' = add(opened(Formats[i]), name, Layer(Formats[i], on(Formats[i])))
  BY DEF StackOne
<1> DEFINE format == Formats[i]
           mid == opened(format)
           layer == Layer(format, on(format))
<1>2. held' = add(mid, name, layer)
  BY <1>1
<1>3. layer.kind \notin {"intel", "swap", "hive"} /\ layer.on = on(format)
  BY DEF Formats, Layer
<1>4. /\ stage = "stack" /\ stage' = "stack" /\ created' = Append(created, name)
      /\ kernel' = kernel /\ module' = module /\ wanted' = wanted
  BY DEF StackOne, Chosen
<1>5. IInv'
  BY NextIInv DEF WInv, Next
<1>6. /\ name \notin Named(held) /\ name \in StackName
      /\ meta \notin Named(held) /\ name # meta
  <2>2. /\ name \notin Named(held) /\ name \in {"memory_layer"} \X Nat
        /\ name[1] = "memory_layer"
        /\ meta \notin Named(held) /\ meta[1] = "meta_layer"
    BY FreshName
  <2> HIDE DEF name, meta
  <2> QED BY <2>2 DEF StackName
<1>7. /\ Listed(held) /\ Closed(held) /\ Viewless(held) /\ Used(held, current) /\ Knows(held)
      /\ current \in Named(held) /\ held.layers[current].kind # "intel" /\ created # <<>>
      /\ created \in Seq(StackName)
  BY <1>4 DEF WInv, Wired, Top, Knows
<1> HIDE DEF name, meta
<1>8. /\ Listed(mid) /\ Closed(mid) /\ Viewless(mid) /\ Knows(mid) /\ name \notin Named(mid)
      /\ current \in Named(mid)
      /\ \A x \in layer.on : x \in Named(mid) /\ mid.layers[x].kind # "intel"
      /\ \A n \in Named(mid) : \/ n \in layer.on
                                \/ mid.layers[n].kind \in {"swap", "intel", "hive"}
                                \/ \E m \in Named(mid) : n \in mid.layers[m].on
  <2>1. CASE format = "vmware"
    <3> DEFINE file == File("meta")
    <3>1. mid = add(held, meta, file) /\ layer.on = {current, meta}
      BY <2>1, <1>3
    <3>2. file.kind = "meta" /\ file.on = {}
      BY DEF File, Layer
    <3> HIDE DEF mid, file, layer
    <3>3. OneMore(held, mid, meta, file)
      BY <1>6, <3>1, AddIsOneMore
    <3>4. Listed(mid) /\ Closed(mid) /\ Viewless(mid)
      BY <1>6, <1>7, <3>2, <3>3, OneMoreIsListed, OneMoreIsClosed, OneMoreIsViewless
    <3>5. Knows(mid) /\ name \notin Named(mid) /\ current \in Named(mid)
      BY <1>6, <1>7, <3>3 DEF OneMore, Knows
    <3>6. \A x \in layer.on : x \in Named(mid) /\ mid.layers[x].kind # "intel"
      BY <1>7, <3>1, <3>2, <3>3 DEF OneMore
    <3>7. ASSUME NEW n \in Named(mid), n \notin layer.on,
                 mid.layers[n].kind \notin {"swap", "intel", "hive"}
          PROVE  \E m \in Named(mid) : n \in mid.layers[m].on
      <4>1. n \in Named(held) /\ n # current
        BY <3>1, <3>3, <3>7 DEF OneMore
      <4> QED BY <1>7, <3>3, <3>7, <4>1 DEF OneMore, Used
    <3> QED BY <3>4, <3>5, <3>6, <3>7
  <2>2. CASE format # "vmware"
    <3>1. mid = held /\ layer.on = {current}
      BY <2>2, <1>3
    <3> HIDE DEF mid, layer
    <3> QED BY <3>1, <1>6, <1>7 DEF Used
  <2> QED BY <2>1, <2>2
<1>9. current \in layer.on
  BY <1>3
<1> HIDE DEF mid, layer, on, opened
<1>10. OneMore(mid, held', name, layer)
  BY <1>2, <1>8, AddIsOneMore
<1>11. Listed(held') /\ Closed(held') /\ Viewless(held')
  <2>1. layer.on \subseteq Named(mid) /\ \A x \in layer.on : mid.layers[x].kind # "intel"
    BY <1>8
  <2> QED BY <2>1, <1>8, <1>10, OneMoreIsListed, OneMoreIsClosed, OneMoreIsViewless
<1>12. /\ created' \in Seq(StackName) /\ current' = name /\ created' # <<>>
       /\ Len(created') # 1
  <2>1. created' \in Seq(StackName)
    BY <1>4, <1>6, <1>7
  <2>2. Len(created') = Len(created) + 1 /\ created'[Len(created) + 1] = name
    BY <1>4, <1>6, <1>7
  <2>3. Len(created) \in Nat /\ Len(created) # 0
    BY <1>7
  <2> QED BY <2>1, <2>2, <2>3 DEF current, Last
<1>13. Top'
  <2>1. ASSUME NEW n \in Named(held'), n # name,
               held'.layers[n].kind \notin {"swap", "intel", "hive"}
        PROVE  \E m \in Named(held') : n \in held'.layers[m].on
    <3>1. n \in Named(mid) /\ held'.layers[n] = mid.layers[n]
      BY <2>1, <1>10 DEF OneMore
    <3>2. CASE n \in layer.on
      BY <3>2, <1>10 DEF OneMore
    <3>3. CASE n \notin layer.on
      <4>1. PICK m \in Named(mid) : n \in mid.layers[m].on
        BY <2>1, <3>1, <3>3, <1>8
      <4> QED BY <4>1, <1>10 DEF OneMore
    <3> QED BY <3>2, <3>3
  <2>2. Used(held', name)
    BY <2>1 DEF Used
  <2>3. name \in Named(held') /\ held'.layers[name].kind # "intel"
    BY <1>3, <1>10 DEF OneMore
  <2> QED BY <1>12, <2>2, <2>3 DEF Top
<1>14. Growing'
  <2>1. mid.order \in Seq(Named(mid)) /\ held'.order = Append(mid.order, name)
    BY <1>8, <1>10 DEF Listed, OneMore
  <2>2. Len(held'.order) > 0 /\ held'.order[Len(held'.order)] = name
    BY <2>1
  <2>3. \A n \in Named(held') : name \notin held'.layers[n].on
    BY <1>8, <1>10 DEF OneMore, Closed
  <2>4. OnTop(held', name)
    BY <2>2, <2>3 DEF OnTop
  <2> QED BY <1>12, <2>4 DEF Growing
<1>15. Wired' /\ Opening'
  BY <1>4, <1>8, <1>10, <1>11 DEF Wired, Knows, OneMore, Opening
<1> QED
  BY <1>4, <1>5, <1>11, <1>12, <1>13, <1>14, <1>15 DEF WInv

\* Two containers that no one can tell apart.
Same(h, g) ==
    /\ Named(g) = Named(h)
    /\ \A n \in Named(h) : g.layers[n] = h.layers[n]
    /\ g.order = h.order

\* A layer added and taken back has not been there.
LEMMA AddAndRemove ==
    ASSUME NEW h, Listed(h), NEW name, name \notin Named(h), NEW layer
    PROVE  Same(h, remove(add(h, name, layer), name))
<1> DEFINE k == add(h, name, layer)
           g == remove(k, name)
           S == Named(h) \cup {name}
<1>1. OneMore(h, k, name, layer)
  BY AddIsOneMore
<1> HIDE DEF k
<1>2. Named(g) = Named(k) \ {name} /\ \A n \in Named(k) \ {name} : g.layers[n] = k.layers[n]
  BY RemoveKeeps
<1>3. g.order = retain(k.order, name)
  BY DEF remove
<1> HIDE DEF g
<1>4. retain(Append(h.order, name), name) = h.order
  <2>1. h.order \in Seq(Named(h)) /\ Named(h) \subseteq S
    BY DEF Listed
  <2>2. h.order \in Seq(S) /\ name \in S
    <3> HIDE DEF S
    <3>1. h.order \in Seq(S)
      BY <2>1, SeqMonotonic
    <3> QED BY <3>1 DEF S
  <2>3. name \notin Range(h.order)
    BY DEF Listed
  <2> HIDE DEF S
  <2> QED BY <2>2, <2>3, RetainLast
<1>5. Named(g) = Named(h) /\ \A n \in Named(h) : g.layers[n] = h.layers[n]
  BY <1>1, <1>2 DEF OneMore
<1>6. g.order = h.order
  BY <1>1, <1>3, <1>4 DEF OneMore
<1> QED
  BY <1>5, <1>6 DEF Same, g, k

\* A layer added and the one before it taken away: the new takes the old one's place.
LEMMA AddAndReplace ==
    ASSUME NEW h, Listed(h), Len(h.order) > 0, NEW top, h.order[Len(h.order)] = top,
           NEW k, NEW name, name \notin Named(h), NEW layer, OneMore(h, k, name, layer),
           NEW g, g = remove(k, top)
    PROVE  /\ Named(g) = (Named(h) \ {top}) \cup {name}
           /\ \A n \in Named(h) \ {top} : g.layers[n] = h.layers[n]
           /\ g.layers[name] = layer
           /\ Listed(g) /\ Len(g.order) > 0 /\ g.order[Len(g.order)] = name
<1> DEFINE N == Len(h.order)
           S == Named(h) \cup {name}
           front == SubSeq(h.order, 1, N - 1)
<1>1. /\ h.order \in Seq(Named(h)) /\ h.order \in Seq(S) /\ N \in Nat /\ N > 0
      /\ top \in Named(h) /\ top \in S /\ name \in S
  <2>1. h.order \in Seq(Named(h)) /\ Named(h) \subseteq S /\ name \in S
    BY DEF Listed
  <2>2. h.order \in Seq(S)
    <3> HIDE DEF S
    <3> QED BY <2>1, SeqMonotonic
  <2>3. N \in Nat /\ N > 0
    BY <2>1
  <2>4. top \in Named(h)
    BY <2>1, <2>3
  <2> QED BY <2>1, <2>2, <2>3, <2>4
<1>2. \A i, j \in 1..N : h.order[i] = h.order[j] => i = j
  BY <1>1 DEF Listed, IsInjective
<1>3. /\ front \in Seq(S) /\ Len(front) = N - 1 /\ front \in Seq(Named(h))
      /\ \A i \in 1..(N - 1) : front[i] = h.order[i]
  BY <1>1
<1>4. h.order = Append(front, top)
  BY <1>1
<1>5. top \notin Range(front)
  <2>1. \A i \in 1..(N - 1) : front[i] # top
    <3>1. N \in 1..N /\ h.order[N] = top /\ \A i \in 1..(N - 1) : i \in 1..N /\ i # N
      BY <1>1
    <3> QED BY <3>1, <1>2, <1>3
  <2>2. DOMAIN front = 1..(N - 1)
    BY <1>1, <1>3
  <2> HIDE DEF front
  <2> QED BY <2>1, <2>2 DEF Range
<1>6. top # name
  BY <1>1
<1>7. retain(Append(Append(front, top), name), top) = Append(front, name)
  <2> HIDE DEF front, S
  <2> QED BY <1>1, <1>3, <1>5, <1>6, RetainLastButOne
<1>8. g.order = Append(front, name)
  BY <1>4, <1>7 DEF remove, OneMore
<1>9. /\ Named(g) = Named(k) \ {top}
      /\ \A n \in Named(k) \ {top} : g.layers[n] = k.layers[n]
  BY RemoveKeeps
<1>10. Named(g) = (Named(h) \ {top}) \cup {name} /\ g.layers[name] = layer
  BY <1>6, <1>9 DEF OneMore
<1>11. \A n \in Named(h) \ {top} : g.layers[n] = h.layers[n]
  BY <1>9 DEF OneMore
<1> HIDE DEF front
<1>12. /\ Len(g.order) = N /\ DOMAIN g.order = 1..N /\ g.order[N] = name
       /\ \A i \in 1..(N - 1) : g.order[i] = h.order[i]
  BY <1>1, <1>3, <1>8
<1>13. \A i \in 1..(N - 1) : h.order[i] \in Named(h) /\ h.order[i] # top
  <2>1. N \in 1..N /\ h.order[N] = top /\ \A i \in 1..(N - 1) : i \in 1..N /\ i # N
    BY <1>1
  <2>2. \A i \in 1..(N - 1) : h.order[i] \in Named(h)
    BY <1>1
  <2> HIDE DEF N
  <2>3. \A i \in 1..(N - 1) : h.order[i] # top
    BY <2>1, <1>2
  <2> QED BY <2>2, <2>3
<1>14. g.order \in Seq(Named(g))
  <2>1. \A i \in 1..N : g.order[i] \in Named(g)
    BY <1>1, <1>10, <1>12, <1>13
  <2>2. g.order \in Seq(S)
    BY <1>1, <1>3, <1>8
  <2> HIDE DEF N, S
  <2>3. g.order \in [1..Len(g.order) -> S]
    BY <2>2, LenProperties
  <2>4. g.order \in [1..N -> Named(g)]
    BY <2>1, <2>3, <1>12
  <2>5. N \in Nat
    BY <1>1
  <2> QED BY <2>4, <2>5, SeqDef
<1>15. Range(g.order) = Named(g)
  <2>1. \A i \in 1..N : g.order[i] \in Named(g)
    BY <1>1, <1>10, <1>12, <1>13
  <2>2. ASSUME NEW n \in Named(g) PROVE \E i \in 1..N : g.order[i] = n
    <3>1. CASE n = name
      BY <3>1, <1>1, <1>12
    <3>2. CASE n \in Named(h) \ {top}
      <4>1. PICK i \in 1..N : h.order[i] = n
        BY <3>2, <1>1 DEF Listed, Range
      <4>2. i # N
        BY <4>1, <3>2
      <4>3. i \in 1..(N - 1)
        BY <4>1, <4>2, <1>1
      <4> QED BY <4>1, <4>3, <1>12
    <3> QED BY <3>1, <3>2, <1>10
  <2> HIDE DEF N
  <2> QED BY <2>1, <2>2, <1>12 DEF Range
<1>16. IsInjective(g.order)
  <2>1. SUFFICES ASSUME NEW a \in 1..N, NEW b \in 1..N, g.order[a] = g.order[b]
                 PROVE  a = b
    <3> HIDE DEF N
    <3> QED BY <1>12 DEF IsInjective
  <2>2. CASE a = N \/ b = N
    <3>1. \A i \in 1..(N - 1) : g.order[i] # name
      BY <1>12, <1>13
    <3>2. \A i \in 1..N : i # N => i \in 1..(N - 1)
      BY <1>1
    <3> HIDE DEF N
    <3> QED BY <2>1, <2>2, <3>1, <3>2, <1>12
  <2>3. CASE a # N /\ b # N
    <3>1. a \in 1..(N - 1) /\ b \in 1..(N - 1)
      BY <2>3, <1>1
    <3> HIDE DEF N
    <3> QED BY <2>1, <3>1, <1>2, <1>12
  <2> QED BY <2>2, <2>3
<1> QED
  BY <1>1, <1>10, <1>11, <1>12, <1>14, <1>15, <1>16 DEF Listed

\* A raw image takes another name, in the place of the old one; else the top stays.
LEMMA StopStackingWhole == ASSUME WInv, StopStacking PROVE WInv'
<1> DEFINE meta == free_name(held, "meta_layer")
           Opens == "vmware" \in allowed /\ Tried("vmware") /\ Len(created) <= MAX_STACK_DEPTH
           tried == IF Opens THEN remove(add(held, meta, File("meta")), meta) ELSE held
           name == free_name(tried, "memory_layer")
           layer == File("image")
<1>1. /\ stage = "stack" /\ stage' = "windows"
      /\ kernel' = kernel /\ module' = module /\ wanted' = wanted
      /\ \/ /\ Len(created) = 1 /\ created' = <<name>>
            /\ held' = remove(add(tried, name, layer), current)
         \/ held' = tried /\ created' = created
  BY DEF StopStacking, Chosen
<1>2. IInv'
  BY NextIInv DEF WInv, Next
<1>3. /\ Listed(held) /\ Closed(held) /\ Viewless(held) /\ Used(held, current)
      /\ OnTop(held, current)
      /\ Len(created) = 1 => held.layers[current].on = {}
      /\ current \in Named(held) /\ held.layers[current].kind # "intel" /\ created # <<>>
      /\ created \in Seq(StackName) /\ module = None
      /\ kernel # None => kernel \in Named(held) /\ held.layers[kernel].kind = "intel"
  BY <1>1 DEF WInv, Wired, Top, Growing
<1>10. /\ Len(held.order) > 0 /\ held.order[Len(held.order)] = current
       /\ \A n \in Named(held) : current \notin held.layers[n].on
  <2>1. OnTop(held, current)
    BY <1>3
  <2> QED BY <2>1 DEF OnTop
<1>4. Same(held, tried)
  <2>1. CASE Opens
    <3>1. meta \notin Named(held)
      BY FreshName
    <3> HIDE DEF meta
    <3> QED BY <2>1, <3>1, <1>3, AddAndRemove
  <2>2. CASE ~Opens
    BY <2>2 DEF Same
  <2> QED BY <2>1, <2>2
<1> HIDE DEF tried
<1>5. name \notin Named(held) /\ name \in StackName
  <2>1. IsFiniteSet(Named(tried))
    BY <1>4 DEF Same, WInv, IInv
  <2>2. name \notin Named(tried) /\ name \in {"memory_layer"} \X Nat
    BY <2>1, NameIsFree, FreeNameIsName
  <2> HIDE DEF name
  <2> QED BY <2>2, <1>4 DEF Same, StackName
<1>6. layer.kind = "image" /\ layer.on = {}
  BY DEF File, Layer
<1> HIDE DEF name, layer
\* What is shown of the two cases.
<1> DEFINE Goal(top) ==
             /\ Listed(held') /\ Closed(held') /\ Viewless(held') /\ Used(held', top)
             /\ ViewsAfter(held', top) /\ top \in Named(held')
             /\ held'.layers[top].kind # "intel"
             /\ kernel # None => kernel \in Named(held') /\ held'.layers[kernel].kind = "intel"
<1>7. /\ created' \in Seq(StackName) /\ created' # <<>> /\ Goal(current')
  <2>1. CASE held' = tried /\ created' = created
    <3>1. current' = current
      BY <2>1 DEF current
    <3>2. Listed(held') /\ Closed(held') /\ Viewless(held') /\ Used(held', current)
      BY <2>1, <1>3, <1>4 DEF Same, Listed, Closed, Viewless, Used
    <3>3. ViewsAfter(held', current)
      <4>1. held'.order = held.order /\ held.order \in Seq(Named(held))
        BY <2>1, <1>3, <1>4 DEF Same, Listed
      <4>2. Len(held.order) \in 1..Len(held.order)
            /\ (Len(held.order) + 1)..Len(held.order) = {}
        BY <4>1, <1>10
      <4> QED BY <4>1, <4>2, <1>10 DEF ViewsAfter
    <3>4. /\ current \in Named(held') /\ held'.layers[current].kind # "intel"
          /\ kernel # None => kernel \in Named(held') /\ held'.layers[kernel].kind = "intel"
      BY <2>1, <1>3, <1>4 DEF Same
    <3> QED BY <2>1, <1>3, <3>1, <3>2, <3>3, <3>4
  <2>2. CASE /\ Len(created) = 1 /\ created' = <<name>>
             /\ held' = remove(add(tried, name, layer), current)
    <3> DEFINE top == current
               k == add(tried, name, layer)
    <3>1. OneMore(tried, k, name, layer)
      BY <1>4, <1>5, AddIsOneMore DEF Same
    <3>2. held' = remove(k, top)
      BY <2>2
    <3> HIDE DEF k
    <3>3. OneMore(held, k, name, layer)
      BY <1>4, <3>1 DEF Same, OneMore
    <3>4. held.layers[top].on = {} /\ top # name
      <4>1. held.layers[current].on = {}
        BY <1>3, <2>2
      <4>2. current # name
        BY <1>3, <1>5
      <4> QED BY <4>1, <4>2
    <3>5. /\ Listed(held) /\ Len(held.order) > 0 /\ held.order[Len(held.order)] = top
          /\ \A n \in Named(held) : top \notin held.layers[n].on
      BY <1>3, <1>10
    <3>6. current' = name
      BY <2>2 DEF current, Last
    <3> DEFINE g == held'
    <3> HIDE DEF top, g
    <3>7. /\ Named(g) = (Named(held) \ {top}) \cup {name}
          /\ \A n \in Named(held) \ {top} : g.layers[n] = held.layers[n]
          /\ g.layers[name] = layer
          /\ Listed(g) /\ Len(g.order) > 0 /\ g.order[Len(g.order)] = name
      <4>1. g = remove(k, top)
        BY <3>2 DEF g
      <4> QED BY <4>1, <1>5, <3>3, <3>5, AddAndReplace
    <3>8. Closed(g) /\ Viewless(g)
      BY <1>3, <1>6, <3>5, <3>7 DEF Closed, Viewless
    <3>9. Used(g, name)
      <4>1. SUFFICES ASSUME NEW n \in Named(g), n # name,
                            g.layers[n].kind \notin {"swap", "intel", "hive"}
                     PROVE  \E m \in Named(g) : n \in g.layers[m].on
        BY DEF Used
      <4>2. n \in Named(held) /\ n # top /\ g.layers[n] = held.layers[n]
        BY <4>1, <3>7
      <4>3. PICK m \in Named(held) : n \in held.layers[m].on
        BY <4>1, <4>2, <1>3 DEF Used, top
      <4>4. m # top
        BY <4>3, <3>4
      <4> QED BY <4>3, <4>4, <3>7
    <3>10. ViewsAfter(g, name)
      <4>1. g.order \in Seq(Named(g))
        BY <3>7 DEF Listed
      <4>2. Len(g.order) \in 1..Len(g.order) /\ (Len(g.order) + 1)..Len(g.order) = {}
        BY <4>1, <3>7
      <4> QED BY <4>2, <3>7 DEF ViewsAfter
    <3>11. /\ name \in Named(g) /\ g.layers[name].kind # "intel"
           /\ kernel # None => kernel \in Named(g) /\ g.layers[kernel].kind = "intel"
      BY <1>3, <1>6, <3>7 DEF top
    <3>12. created' \in Seq(StackName) /\ created' # <<>>
      BY <2>2, <1>5
    <3> QED BY <3>6, <3>7, <3>8, <3>9, <3>10, <3>11, <3>12 DEF g
  <2> QED BY <1>1, <2>1, <2>2
<1>8. Top' /\ Growing' /\ Opening'
  BY <1>1, <1>7 DEF Top, Growing, Opening
<1>9. Wired'
  BY <1>1, <1>3, <1>7 DEF Wired
<1> QED
  BY <1>1, <1>2, <1>7, <1>8, <1>9 DEF WInv

\* A layer that a plugin or the search for the kernel adds, of kind intel or hive.
LEMMA AddedIsWhole ==
    ASSUME WInv, stage \notin {"open", "stack"}, NEW prefix, NEW layer, NEW g,
           g = add(held, free_name(held, prefix), layer),
           layer.on \subseteq Named(held), layer.kind \in {"intel", "hive"}
    PROVE  /\ OneMore(held, g, free_name(held, prefix), layer)
           /\ free_name(held, prefix) \notin Named(held)
           /\ Listed(g) /\ Closed(g) /\ Used(g, current)
<1> DEFINE name == free_name(held, prefix)
<1>1. name \notin Named(held)
  BY FreshName
<1> HIDE DEF name
<1>2. OneMore(held, g, name, layer)
  BY <1>1, AddIsOneMore DEF name
<1>3. Listed(held) /\ Closed(held) /\ Used(held, current)
  BY DEF WInv, Top
<1>4. Listed(g) /\ Closed(g) /\ Used(g, current)
  BY <1>1, <1>2, <1>3, OneMoreIsListed, OneMoreIsClosed, OneMoreIsUsed
<1> QED
  BY <1>1, <1>2, <1>4 DEF name

\* The kernel's address space rests on the top and on the swap files.
LEMMA AddressSpaceRests ==
    ASSUME WInv, stage \notin {"open", "stack"}
    PROVE  /\ AddressSpace.on \subseteq Named(held) /\ AddressSpace.kind = "intel"
           /\ \A x \in AddressSpace.on : held.layers[x].kind # "intel"
<1>1. current \in Named(held) /\ held.layers[current].kind # "intel"
  BY DEF WInv, Top
<1>2. /\ AddressSpace.kind = "intel"
      /\ AddressSpace.on = {current} \cup {n \in Named(held) : held.layers[n].kind = "swap"}
  BY DEF AddressSpace, Layer
<1> QED
  BY <1>1, <1>2

\* It is a view, added after the top.
LEMMA TranslatedIsWhole ==
    ASSUME WInv, stage \in {"windows", "others"}, NEW g, g = Translated.held
    PROVE  /\ OneMore(held, g, Translated.name, AddressSpace)
           /\ Listed(g) /\ Closed(g) /\ Viewless(g) /\ Used(g, current)
           /\ ViewsAfter(g, current)
<1> DEFINE name == free_name(held, "layer_name")
           layer == AddressSpace
<1>1. Translated.name = name /\ Translated.held = add(held, name, layer)
  BY DEF Translated
<1>2. /\ layer.on \subseteq Named(held) /\ layer.kind = "intel"
      /\ \A x \in layer.on : held.layers[x].kind # "intel"
  BY AddressSpaceRests
<1> HIDE DEF layer
<1>3. /\ OneMore(held, g, name, layer) /\ name \notin Named(held)
      /\ Listed(g) /\ Closed(g) /\ Used(g, current)
  BY <1>1, <1>2, AddedIsWhole
<1>4. Closed(held) /\ Viewless(held) /\ Listed(held) /\ ViewsAfter(held, current)
  BY DEF WInv, Wired
<1> HIDE DEF name
<1>5. Viewless(g)
  BY <1>2, <1>3, <1>4, OneMoreIsViewless
<1>6. ViewsAfter(g, current)
  BY <1>2, <1>3, <1>4, OneMoreView
<1> QED
  BY <1>1, <1>3, <1>5, <1>6 DEF layer

\* A view that nobody names stays behind.
LEMMA WindowsFailsWhole == ASSUME WInv, WindowsFails PROVE WInv'
<1>1. IInv'
  BY NextIInv DEF WInv, Next
<1>2. /\ stage = "windows" /\ stage' = "others" /\ created' = created /\ kernel' = kernel
      /\ module' = module /\ wanted' = wanted /\ held' = Translated.held /\ current' = current
  BY DEF WindowsFails, Chosen, current
<1>3. /\ OneMore(held, held', Translated.name, AddressSpace)
      /\ Listed(held') /\ Closed(held') /\ Viewless(held') /\ Used(held', current)
      /\ ViewsAfter(held', current)
  BY <1>2, TranslatedIsWhole
<1>4. /\ created \in Seq(StackName) /\ created # <<>> /\ current \in Named(held)
      /\ held.layers[current].kind # "intel" /\ Knows(held)
  BY <1>2 DEF WInv, Top, Wired, Knows
<1>5. Top' /\ Growing' /\ Opening'
  BY <1>2, <1>3, <1>4 DEF Top, Growing, Opening, OneMore
<1>6. Wired'
  BY <1>2, <1>3, <1>4 DEF Wired, Knows, OneMore
<1> QED
  BY <1>1, <1>2, <1>3, <1>4, <1>5, <1>6 DEF WInv

\* The kernel's layer, and the module's, is the view.
LEMMA RecogniseWhole == ASSUME WInv, Recognise PROVE WInv'
<1>1. IInv'
  BY NextIInv DEF WInv, Next
<1>2. /\ stage \in {"windows", "others"} /\ stage' = "name" /\ created' = created
      /\ kernel' = Translated.name /\ module' \in {Translated.name, None}
      /\ wanted' = wanted /\ held' = Translated.held /\ current' = current
  BY DEF Recognise, Chosen, current
<1>3. /\ OneMore(held, held', Translated.name, AddressSpace)
      /\ Listed(held') /\ Closed(held') /\ Viewless(held') /\ Used(held', current)
      /\ ViewsAfter(held', current)
  BY <1>2, TranslatedIsWhole
<1>4. /\ created \in Seq(StackName) /\ created # <<>> /\ current \in Named(held)
      /\ held.layers[current].kind # "intel"
  BY <1>2 DEF WInv, Top
<1>5. Top' /\ Growing' /\ Opening'
  BY <1>2, <1>3, <1>4 DEF Top, Growing, Opening, OneMore
<1>6. Wired'
  <2>1. AddressSpace.kind = "intel"
    BY DEF AddressSpace, Layer
  <2> QED BY <1>2, <1>3, <2>1 DEF Wired, OneMore
<1> QED
  BY <1>1, <1>2, <1>3, <1>4, <1>5, <1>6 DEF WInv

\* Nothing is held that was not, and nothing is forgotten.
LEMMA StillIsWhole ==
    ASSUME WInv, IInv', held' = held, created' = created, kernel' = kernel, module' = module,
           wanted' = wanted,
           \/ stage' = stage
           \/ stage \in {"windows", "others"} /\ stage' = "name"
           \/ stage = "name" /\ stage' = "ready"
    PROVE  WInv'
<1>1. current' = current
  BY DEF current
<1>2. Opening' /\ Top' /\ Growing' /\ Wired'
  BY <1>1 DEF WInv, Opening, Top, Growing, Wired
<1> QED
  BY <1>2 DEF WInv

\* The kernel's layer keeps its place under its new name, and what rests on what.
LEMMA NameKernelWhole == ASSUME WInv, NameKernel PROVE WInv'
<1>1. IInv'
  BY NextIInv DEF WInv, Next
<1>2. /\ stage = "name" /\ stage' = "ready" /\ created' = created /\ module' = module
      /\ wanted' = wanted /\ current' = current
  BY DEF NameKernel, Chosen, current
<1>3. CASE held' = held /\ kernel' = kernel
  BY <1>1, <1>2, <1>3, StillIsWhole
<1>4. CASE /\ wanted # None /\ kernel # None /\ wanted # kernel
           /\ held' = rename(held, kernel, wanted) /\ kernel' = wanted
  <2> DEFINE g == held'
             N == Len(held.order)
  <2>1. /\ Listed(held) /\ Closed(held) /\ Viewless(held) /\ Used(held, current)
        /\ ViewsAfter(held, current) /\ current \in Named(held)
        /\ held.layers[current].kind # "intel" /\ created # <<>>
        /\ created \in Seq(StackName)
        /\ kernel \in Named(held) /\ held.layers[kernel].kind = "intel"
    BY <1>2, <1>4 DEF WInv, Top, Wired
  <2>2. wanted \notin Named(held)
    BY <1>2, <1>4 DEF WInv, IInv
  <2>3. current # kernel
    BY <2>1
  <2>4. /\ held.order \in Seq(Named(held)) /\ Range(held.order) = Named(held)
        /\ N \in Nat /\ DOMAIN held.order = 1..N
        /\ \A i \in 1..N : held.order[i] \in Named(held)
        /\ \A i, j \in 1..N : held.order[i] = held.order[j] => i = j
    BY <2>1 DEF Listed, IsInjective
  <2>5. retain(held.order, wanted) = held.order
    BY <2>2, <2>4, RetainAbsent
  <2>6. g = [layers |-> insert(without(held.layers, kernel), wanted, held.layers[kernel]),
             order |-> [i \in 1..N |-> IF held.order[i] = kernel THEN wanted ELSE held.order[i]]]
    BY <1>4, <2>1, <2>4, <2>5 DEF rename
  <2>7. /\ Named(g) = {wanted} \cup (Named(held) \ {kernel})
        /\ g.layers[wanted] = held.layers[kernel]
        /\ \A n \in Named(held) \ {kernel} : g.layers[n] = held.layers[n]
    BY <2>2, <2>6 DEF Named, insert, without
  <2>8. g.order = [i \in 1..N |-> IF held.order[i] = kernel THEN wanted ELSE held.order[i]]
    BY <2>6
  <2> HIDE DEF g, N
  <2>9. /\ g.order \in Seq(Named(g)) /\ Len(g.order) = N /\ DOMAIN g.order = 1..N
        /\ \A i \in 1..N :
             g.order[i] = IF held.order[i] = kernel THEN wanted ELSE held.order[i]
    <3>1. \A i \in 1..N :
             g.order[i] = IF held.order[i] = kernel THEN wanted ELSE held.order[i]
      BY <2>8
    <3>2. \A i \in 1..N : g.order[i] \in Named(g)
      BY <3>1, <2>4, <2>7
    <3>3. g.order \in [1..N -> Named(g)]
      BY <3>2, <2>8
    <3>4. g.order \in Seq(Named(g)) /\ DOMAIN g.order = 1..N
      BY <3>3, <2>4, SeqDef
    <3>5. Len(g.order) = N
      BY <3>4, <2>4
    <3> QED BY <3>1, <3>4, <3>5
  <2>10. Range(g.order) = Named(g)
    <3>1. \A i \in 1..N : g.order[i] \in Named(g)
      BY <2>4, <2>7, <2>9
    <3>2. ASSUME NEW n \in Named(g) PROVE \E i \in 1..N : g.order[i] = n
      <4> DEFINE old == IF n = wanted THEN kernel ELSE n
      <4>1. old \in Named(held)
        BY <2>1, <2>7
      <4>2. PICK i \in 1..N : held.order[i] = old
        BY <4>1, <2>4 DEF Range
      <4> QED BY <4>2, <2>1, <2>7, <2>9
    <3> QED BY <3>1, <3>2, <2>9 DEF Range
  <2>11. IsInjective(g.order)
    <3>1. \A i, j \in 1..N : g.order[i] = g.order[j] => i = j
      BY <2>2, <2>4, <2>9
    <3> QED BY <3>1, <2>9 DEF IsInjective
  <2>12. Closed(g) /\ Used(g, current)
    BY <2>1, <2>7 DEF Closed, Viewless, Used
  <2>13. ViewsAfter(g, current)
    <3>1. PICK i \in 1..N :
            /\ held.order[i] = current
            /\ \A j \in (i + 1)..N : held.layers[held.order[j]].kind = "intel"
      BY <2>1 DEF ViewsAfter, N
    <3>2. g.order[i] = current
      BY <2>3, <2>9, <3>1
    <3>3. ASSUME NEW j \in (i + 1)..N PROVE g.layers[g.order[j]].kind = "intel"
      <4>1. j \in 1..N
        BY <2>4
      <4> QED BY <4>1, <3>1, <2>1, <2>4, <2>7, <2>9
    <3> QED BY <3>1, <3>2, <3>3, <2>9 DEF ViewsAfter
  <2>14. Top' /\ Growing' /\ Opening'
    BY <1>2, <2>1, <2>3, <2>7, <2>12 DEF Top, Growing, Opening, g
  <2>15. Wired'
    BY <1>2, <1>4, <2>1, <2>7, <2>13 DEF Wired, g
  <2> QED BY <1>1, <1>2, <2>1, <2>9, <2>10, <2>11, <2>12, <2>14, <2>15 DEF WInv, Listed, g
<1> QED
  BY <1>3, <1>4 DEF NameKernel

\* A layer for a process or a hive.
LEMMA PluginsLayerWhole ==
    ASSUME WInv, IInv', stage \in {"ready", "plugin"}, stage' = "plugin", wanted = None,
           UNCHANGED <<wanted, created, kernel, module>>, NEW prefix, NEW layer,
           held' = add(held, free_name(held, prefix), layer),
           layer.on \subseteq Named(held), layer.kind \in {"intel", "hive"}
    PROVE  WInv'
<1> DEFINE name == free_name(held, prefix)
<1>1. /\ OneMore(held, held', name, layer) /\ name \notin Named(held)
      /\ Listed(held') /\ Closed(held') /\ Used(held', current)
  BY AddedIsWhole
<1> HIDE DEF name
<1>2. /\ created \in Seq(StackName) /\ created # <<>> /\ current \in Named(held)
      /\ held.layers[current].kind # "intel" /\ Knows(held) /\ current' = current
  BY DEF WInv, Top, Wired, Knows, current
<1>3. Top' /\ Growing' /\ Opening'
  BY <1>1, <1>2 DEF Top, Growing, Opening, OneMore
<1>4. Wired'
  BY <1>1, <1>2 DEF Wired, Knows, OneMore
<1> QED
  BY <1>1, <1>2, <1>3, <1>4 DEF WInv

\* Every step keeps what is held whole.
LEMMA NextWInv == WInv /\ [Next]_vars => WInv'
<1> SUFFICES ASSUME WInv, [Next]_vars PROVE WInv'
  OBVIOUS
<1>0. IInv'
  BY NextIInv DEF WInv
<1>1. CASE OpenSwap
  BY <1>1, OpenSwapWhole
<1>2. CASE OpenImage
  BY <1>2, OpenImageWhole
<1>3. CASE StackOne
  BY <1>3, StackOneWhole
<1>4. CASE StopStacking
  BY <1>4, StopStackingWhole
<1>5. CASE WindowsFails
  BY <1>5, WindowsFailsWhole
<1>6. CASE Recognise
  BY <1>6, RecogniseWhole
<1>7. CASE RecogniseNothing
  BY <1>0, <1>7, StillIsWhole DEF RecogniseNothing, Chosen
<1>8. CASE NameKernel
  BY <1>8, NameKernelWhole
<1>9. CASE AddProcess
  <2>1. AddressSpace.on \subseteq Named(held) /\ AddressSpace.kind = "intel"
    BY <1>9, AddressSpaceRests DEF AddProcess
  <2>2. /\ held' = add(held, free_name(held, "process"), AddressSpace)
        /\ stage \in {"ready", "plugin"} /\ stage' = "plugin" /\ wanted = None
        /\ UNCHANGED <<wanted, created, kernel, module>>
    BY <1>9 DEF AddProcess, Chosen
  <2> QED BY <1>0, <2>1, <2>2, PluginsLayerWhole
<1>10. CASE AddHive
  <2> DEFINE layer == Layer("hive", {module})
  <2>1. layer.on = {module} /\ layer.kind = "hive" /\ module \in Named(held)
    BY <1>10 DEF AddHive, Layer, WInv, Wired
  <2>2. /\ held' = add(held, free_name(held, "hive"), layer)
        /\ stage \in {"ready", "plugin"} /\ stage' = "plugin" /\ wanted = None
        /\ UNCHANGED <<wanted, created, kernel, module>>
    BY <1>10 DEF AddHive, Chosen
  <2> HIDE DEF layer
  <2> QED BY <1>0, <2>1, <2>2, PluginsLayerWhole
<1>11. CASE UNCHANGED vars
  BY <1>0, <1>11, StillIsWhole DEF vars
<1> QED
  BY <1>1, <1>2, <1>3, <1>4, <1>5, <1>6, <1>7, <1>8, <1>9, <1>10, <1>11 DEF Next

\* What is held is whole in every state a run reaches.
THEOREM Wholeness == Spec => []WInv
BY InitWInv, NextWInv, PTL DEF Spec

\* The order lists the names that are held, each once, after any names given, taken
\* back and changed: what layerwriter lists and chooses from is what there is.
THEOREM NamesInOrder == Spec => []OrderIsNames
<1>1. WInv => OrderIsNames
  BY DEF WInv, Listed, OrderIsNames
<1> QED
  BY <1>1, Wholeness, PTL

\* What a layer rests on is there, and nothing is left behind of a format that did
\* not match.
THEOREM NothingDangles == Spec => []StackIsWhole
<1>1. WInv => StackIsWhole
  BY DEF WInv, Closed, Top, Used, StackIsWhole
<1> QED
  BY <1>1, Wholeness, PTL

\* Until plugins add layers of their own, the last layer that is no view of another
\* is the top of the stack, whatever the kernel's layer is named.
THEOREM TopIsWritten == Spec => []WriterTakesTop
<1>1. WInv => WriterTakesTop
  BY DEF WInv, Wired, Top, ViewsAfter, WriterTakesTop, IsView
<1> QED
  BY <1>1, Wholeness, PTL

-----------------------------------------------------------------------------
(* Scanning a layer: what is asked of the constants, and the invariant.    *)

\* No section asked for starts after another and ends before it.
NoneWithin ==
    /\ Sections \subseteq Seq(Nat \X Nat)
    /\ \A q \in Sections : \A i, j \in DOMAIN q : q[i][1] < q[j][1] => endOf(q[i]) <= endOf(q[j])

\* The file is not cut short.
RunsAreInFile ==
    \A l \in LayersScanned : \A i \in DOMAIN l.runs : l.runs[i].mapped + l.runs[i].size <= FileSize

Block == [offset : Nat, size : Int, mapped : Nat]
Chunk == [offset : Nat, want : Nat \ {0}, at : Nat]

ScanTypes ==
    /\ scanned \in LayersScanned /\ content \in Contents /\ kind \in Kinds /\ asked \in Sections
    /\ kind = "bytes" => \A o, p \in content : o.len = p.len
    /\ pc \in {"sort", "trim", "lay", "examine", "report", "done"}
    /\ todo \in Seq(Nat \X Nat) /\ sections \in Seq(Nat \X Nat) /\ position \in Nat
    /\ blocks \in Seq(Block) /\ chunks \in Seq(Chunk)
    /\ base \in 0..Len(chunks)
    /\ pending \in Seq(Nat) /\ reported \in Seq(Nat)
    /\ stopped \in BOOLEAN

\* A sequence of sections covers a byte; one ends before the next one starts.
Covers(q, b) == \E i \in 1..Len(q) : q[i][1] <= b /\ b < endOf(q[i])
Apart(q) == \A i, j \in 1..Len(q) : i < j => endOf(q[i]) < q[j][1]
InLayer(b) == scanned.low <= b /\ b <= scanned.high

\* While they are joined, the sections left are in order, of starts and of ends.
Joining ==
    pc = "sort" =>
      /\ \A b \in Nat : Covers(asked, b) <=> Covers(sections, b) \/ Covers(todo, b)
      /\ Apart(sections)
      /\ \A i, j \in 1..Len(todo) : i < j =>
           todo[i][1] <= todo[j][1] /\ endOf(todo[i]) <= endOf(todo[j])
      /\ sections # <<>> =>
           /\ position = endOf(sections[Len(sections)])
           /\ \A i \in 1..Len(todo) :
                sections[Len(sections)][1] <= todo[i][1] /\ position <= endOf(todo[i])

\* While they are trimmed, what is trimmed is before what is left.
Trimming ==
    pc = "trim" =>
      /\ \A b \in Nat : InLayer(b) => (Covers(asked, b) <=> Covers(sections, b) \/ Covers(todo, b))
      /\ \A b \in Nat : Covers(sections, b) => InLayer(b)
      /\ Apart(sections) /\ Apart(todo)
      /\ \A i \in 1..Len(sections), j \in 1..Len(todo) : endOf(sections[i]) < todo[j][1]

Trimmed ==
    pc \notin {"sort", "trim"} =>
      /\ Apart(sections)
      /\ \A b \in Nat : Covers(sections, b) <=> Covers(asked, b) /\ InLayer(b)

\* How many sections have been mapped, and how many blocks of the last one cut.
Mapped == Len(sections) - Len(todo)
CutOfIt == Len(scanned.runs) - Len(blocks)
Piece(i, j) == Blocks(sections[i])[j]
Laid(i, j) ==
    /\ i \in 1..Mapped /\ j \in 1..Len(scanned.runs)
    /\ i = Mapped => j <= CutOfIt

\* A chunk of a block goes as far as it may, and is read where the block is.
IsChunkOf(c, b) ==
    /\ b.offset <= c.offset
    /\ c.want <= ChunkSize + Overlap
    /\ c.offset + c.want <= b.offset + b.size
    /\ c.want = ChunkSize + Overlap \/ c.offset + c.want = b.offset + b.size
    /\ c.at = b.mapped + (c.offset - b.offset)

\* Its fresh bytes, and a chunk that starts behind them.
Fresh(c, d) == c.offset <= d /\ d < c.offset + c.want /\ d < c.offset + ChunkSize
Behind(c, e) == c.offset + c.want <= e.offset \/ c.offset + ChunkSize <= e.offset
Within(b, d) == b.offset <= d /\ d < b.offset + b.size

\* Where the laying of chunks is: what is left of the sections and of the blocks.
Underway ==
    pc \notin {"sort", "trim"} =>
      /\ Len(todo) <= Len(sections)
      /\ \A i \in 1..Len(todo) : todo[i] = sections[Mapped + i]
      /\ Len(blocks) <= Len(scanned.runs)
      /\ blocks # <<>> => Mapped >= 1
      /\ \A j \in 1..Len(blocks) : blocks[j] = Piece(Mapped, CutOfIt + j)
      /\ pc # "lay" => todo = <<>> /\ blocks = <<>>

\* The chunks are of the blocks cut so far, hold every byte of them fresh once, and
\* are in order.
ChunksAreLaid ==
    pc \notin {"sort", "trim"} =>
      /\ \A k \in 1..Len(chunks) : \E i \in 1..Len(sections), j \in 1..Len(scanned.runs) :
           Laid(i, j) /\ IsChunkOf(chunks[k], Piece(i, j))
      /\ \A i \in 1..Len(sections), j \in 1..Len(scanned.runs) : Laid(i, j) =>
           \A d \in Nat : Within(Piece(i, j), d) =>
             \E k \in 1..Len(chunks) : IsChunkOf(chunks[k], Piece(i, j)) /\ Fresh(chunks[k], d)
      /\ \A k, l \in 1..Len(chunks) : k < l => Behind(chunks[k], chunks[l])

Unlaid ==
    /\ pc \in {"sort", "trim"} => blocks = <<>> /\ chunks = <<>>
    /\ pc \in {"sort", "trim", "lay"} =>
         base = 0 /\ found = <<>> /\ pending = <<>> /\ reported = <<>>

\* A hit stands for a match seen in a chunk the file gives.
StandsFor(h, k, o) ==
    /\ o \in Seen(chunks[k])
    /\ chunks[k].at + chunks[k].want <= FileSize
    /\ h = chunks[k].offset + (o.at - chunks[k].at)

FoundIn(h, n) == \E k \in 1..n : \E i \in 1..Len(Hits(chunks[k])) : h = Hits(chunks[k])[i]
Among(q, h) == \E i \in 1..Len(q) : q[i] = h
Rising(q) == \A i, j \in 1..Len(q) : i < j => q[i] < q[j]

\* Each hit of a sequence stands for a match and a chunk of its own.
Traced(q, n) ==
    \E w \in [1..Len(q) -> (1..n) \X content] :
      /\ \A i \in 1..Len(q) : StandsFor(q[i], w[i][1], w[i][2])
      /\ \A i, j \in 1..Len(q) : w[i] = w[j] => i = j

Batched ==
    /\ pc = "examine" => base < Len(chunks) /\ pending = <<>>
    /\ pc # "examine" => found = <<>>
    /\ DOMAIN found \subseteq Batch
    /\ \A k \in DOMAIN found : found[k] = Hits(chunks[k])
    /\ pc = "done" => stopped \/ (base = Len(chunks) /\ pending = <<>>)
    /\ stopped => pc = "done"

HandedOver ==
    /\ \A h \in Nat : Among(reported, h) \/ Among(pending, h) <=> FoundIn(h, base)
    /\ ~Keeps => \A i, j \in 1..Len(reported) : reported[i] = reported[j] => i = j
    /\ Keeps => Traced(reported \o pending, base)
    /\ kind = "bytes" => Rising(reported \o pending)

ScanInv ==
    /\ ScanTypes /\ Joining /\ Trimming /\ Trimmed /\ Underway /\ ChunksAreLaid
    /\ Unlaid /\ Batched /\ HandedOver

-----------------------------------------------------------------------------
(* The lesser and the greater of two, and the hits of a chunk in order.    *)

LEMMA GreaterOfTwo ==
    ASSUME NEW a \in Int, NEW b \in Int
    PROVE  /\ Max({a, b}) \in {a, b}
           /\ a <= Max({a, b}) /\ b <= Max({a, b})
<1>1. \E m \in {a, b} : \A x \in {a, b} : x <= m
  BY DEF Max
<1>2. Max({a, b}) \in {a, b} /\ \A x \in {a, b} : x <= Max({a, b})
  BY <1>1 DEF Max
<1> QED
  BY <1>2

LEMMA LesserOfTwo ==
    ASSUME NEW a \in Int, NEW b \in Int
    PROVE  /\ Min({a, b}) \in {a, b}
           /\ Min({a, b}) <= a /\ Min({a, b}) <= b
<1>1. \E m \in {a, b} : \A x \in {a, b} : m <= x
  BY DEF Min
<1>2. Min({a, b}) \in {a, b} /\ \A x \in {a, b} : Min({a, b}) <= x
  BY <1>1 DEF Min
<1> QED
  BY <1>2

\* The order of matches is a strict one and leaves no two matches equal.
LEMMA BeforeIsOrder ==
    ASSUME ScanAssumption, ScanTypes
    PROVE  /\ \A a \in content : ~ Before(a, a)
           /\ \A a, b, c \in content : Before(a, b) /\ Before(b, c) => Before(a, c)
           /\ \A a, b \in content : a # b => Before(a, b) \/ Before(b, a)
<1>1. content \subseteq [at : Nat, len : 1..(Overlap + 1)]
  BY DEF ScanAssumption, ScanTypes
<1>2. \A a \in content : a.at \in Nat /\ a.len \in Nat
  BY <1>1
<1>3. \A a, b \in content : a.at = b.at /\ a.len = b.len => a = b
  BY <1>1
<1>4. kind = "bytes" => \A a, b \in content : a.len = b.len
  BY DEF ScanTypes
<1>5. (\A a \in content : ~ Before(a, a))
  BY <1>2 DEF Before
<1>6. \A a, b, c \in content : Before(a, b) /\ Before(b, c) => Before(a, c)
  BY <1>2 DEF Before
<1>7. \A a, b \in content : a # b => Before(a, b) \/ Before(b, a)
  BY <1>2, <1>3, <1>4 DEF Before
<1> QED
  BY <1>5, <1>6, <1>7

\* Any matches can be put in order: each at the place that the number of those
\* before it says.
LEMMA OrderExists ==
    ASSUME ScanAssumption, ScanTypes, NEW S \in SUBSET content
    PROVE  /\ IsFiniteSet(S) /\ Cardinality(S) \in Nat
           /\ \E q \in [1..Cardinality(S) -> S] :
                \A i, j \in 1..Cardinality(S) : i < j => Before(q[i], q[j])
<1> DEFINE n == Cardinality(S)
           Lower(x) == {y \in S : Before(y, x)}
           rank == [x \in S |-> Cardinality(Lower(x)) + 1]
<1>1. IsFiniteSet(S) /\ n \in Nat
  <2>1. IsFiniteSet(content)
    BY DEF ScanAssumption, ScanTypes
  <2> QED BY <2>1, FS_Subset, FS_CardinalityType
<1>2. /\ \A a \in S : ~ Before(a, a)
      /\ \A a, b, c \in S : Before(a, b) /\ Before(b, c) => Before(a, c)
      /\ \A a, b \in S : a # b => Before(a, b) \/ Before(b, a)
  BY BeforeIsOrder
<1>3. ASSUME NEW x \in S
      PROVE  IsFiniteSet(Lower(x)) /\ Cardinality(Lower(x)) \in Nat /\ Cardinality(Lower(x)) < n
  <2>1. Lower(x) \in SUBSET S /\ Lower(x) # S
    BY <1>2
  <2> HIDE DEF Lower
  <2>2. IsFiniteSet(Lower(x)) /\ Cardinality(Lower(x)) <= n /\ Cardinality(Lower(x)) # n
    BY <1>1, <2>1, FS_Subset
  <2>3. Cardinality(Lower(x)) \in Nat
    BY <2>2, FS_CardinalityType
  <2> QED BY <1>1, <2>2, <2>3
<1>4. ASSUME NEW x \in S, NEW y \in S, Before(x, y)
      PROVE  rank[x] < rank[y]
  <2>1. Lower(x) \in SUBSET Lower(y) /\ x \in Lower(y) /\ x \notin Lower(x)
    BY <1>2, <1>4
  <2>2. IsFiniteSet(Lower(x)) /\ Cardinality(Lower(x)) \in Nat
        /\ IsFiniteSet(Lower(y)) /\ Cardinality(Lower(y)) \in Nat
    BY <1>3
  <2>3. rank[x] = Cardinality(Lower(x)) + 1 /\ rank[y] = Cardinality(Lower(y)) + 1
    OBVIOUS
  <2> HIDE DEF Lower
  <2>4. Cardinality(Lower(x)) <= Cardinality(Lower(y)) /\ Cardinality(Lower(x)) # Cardinality(Lower(y))
    BY <2>1, <2>2, FS_Subset
  <2> HIDE DEF rank
  <2> QED BY <2>2, <2>3, <2>4
<1>5. ASSUME NEW x \in S PROVE rank[x] \in 1..n
  <2>1. rank[x] = Cardinality(Lower(x)) + 1
    OBVIOUS
  <2> HIDE DEF rank, Lower, n
  <2> QED BY <1>1, <1>3, <2>1
<1>6. rank \in [S -> 1..n]
  BY <1>5
<1> HIDE DEF rank, Lower
<1>7. \A x, y \in S : rank[x] = rank[y] => x = y
  <2> SUFFICES ASSUME NEW x \in S, NEW y \in S, rank[x] = rank[y], x # y PROVE FALSE
    OBVIOUS
  <2>1. rank[x] \in Int /\ rank[y] \in Int
    BY <1>1, <1>5
  <2>2. Before(x, y) \/ Before(y, x)
    BY <1>2
  <2>3. rank[x] < rank[y] \/ rank[y] < rank[x]
    BY <1>4, <2>2
  <2> QED BY <2>1, <2>3
<1>8. \A i \in 1..n : \E x \in S : rank[x] = i
  <2>1. rank \in Injection(S, 1..n)
    BY <1>6, <1>7 DEF Injection, IsInjective
  <2>2. IsFiniteSet(1..n) /\ Cardinality(1..n) = n
    <3> HIDE DEF n
    <3> QED BY <1>1, FS_Interval
  <2>3. rank \in Surjection(S, 1..n)
    <3>1. Cardinality(S) = Cardinality(1..n)
      BY <2>2
    <3> HIDE DEF n
    <3> QED BY <2>1, <2>2, <3>1, FS_Injection
  <2> QED BY <2>3 DEF Surjection
<1> DEFINE q == [i \in 1..n |-> CHOOSE x \in S : rank[x] = i]
<1>9. \A i \in 1..n : q[i] \in S /\ rank[q[i]] = i
  BY <1>8
<1>10. q \in [1..n -> S]
  BY <1>9
<1>11. ASSUME NEW i \in 1..n, NEW j \in 1..n, i < j PROVE Before(q[i], q[j])
  <2> HIDE DEF q
  <2>1. q[i] \in S /\ q[j] \in S /\ rank[q[i]] = i /\ rank[q[j]] = j
    BY <1>9
  <2>2. i \in Int /\ j \in Int
    BY <1>1
  <2>3. q[i] # q[j] /\ ~ Before(q[j], q[i])
    BY <1>4, <1>11, <2>1, <2>2
  <2> QED BY <1>2, <2>1, <2>3
<1> HIDE DEF q
<1>12. \E p \in [1..n -> S] : \A i, j \in 1..n : i < j => Before(p[i], p[j])
  BY <1>10, <1>11
<1> QED
  BY <1>1, <1>12

\* What the order is, then: all of the matches, each once.
LEMMA InOrderIs ==
    ASSUME ScanAssumption, ScanTypes, NEW S \in SUBSET content
    PROVE  /\ InOrder(S) \in Seq(S) /\ Len(InOrder(S)) = Cardinality(S)
           /\ \A i, j \in 1..Len(InOrder(S)) : i < j => Before(InOrder(S)[i], InOrder(S)[j])
           /\ \A i, j \in 1..Len(InOrder(S)) : InOrder(S)[i] = InOrder(S)[j] => i = j
           /\ \A o \in S : \E i \in 1..Len(InOrder(S)) : InOrder(S)[i] = o
<1> DEFINE n == Cardinality(S)
           q == InOrder(S)
<1>1. IsFiniteSet(S) /\ n \in Nat
  BY OrderExists
<1>2. q \in [1..n -> S] /\ \A i, j \in 1..n : i < j => Before(q[i], q[j])
  BY OrderExists DEF InOrder
<1> HIDE DEF q
<1>3. \A i, j \in 1..n : q[i] = q[j] => i = j
  <2> SUFFICES ASSUME NEW i \in 1..n, NEW j \in 1..n, q[i] = q[j], i # j PROVE FALSE
    OBVIOUS
  <2>1. q[i] \in content /\ q[j] \in content
    BY <1>2
  <2>2. Before(q[i], q[j]) \/ Before(q[j], q[i])
    BY <1>1, <1>2
  <2> QED BY <2>1, <2>2, BeforeIsOrder
<1>4. \A o \in S : \E i \in 1..n : q[i] = o
  <2>1. q \in Injection(1..n, S)
    BY <1>2, <1>3 DEF Injection, IsInjective
  <2>2. Cardinality(1..n) = n
    <3> HIDE DEF n
    <3> QED BY <1>1, FS_Interval
  <2>3. q \in Surjection(1..n, S)
    BY <1>1, <2>1, <2>2, FS_Injection
  <2> QED BY <2>3 DEF Surjection
<1>5. q \in Seq(S) /\ Len(q) = n
  BY <1>1, <1>2
<1> QED
  BY <1>2, <1>3, <1>4, <1>5 DEF q

-----------------------------------------------------------------------------
(* Sequences one after another.                                            *)

\* Where the items of a sequence of sequences are once they are one.
IsFlat(f, ss, m) ==
    f = [i \in 1..m |-> IF i = 1 THEN ss[i] ELSE f[i - 1] \o ss[i]]

LEMMA FlatExists ==
    ASSUME NEW ss, NEW n \in Nat
    PROVE  \E f : IsFlat(f, ss, n)
<1> DEFINE Lacking == {m \in 0..n : ~ \E f : IsFlat(f, ss, m)}
<1>1. SUFFICES ASSUME Lacking # {} PROVE FALSE
  OBVIOUS
<1>2. Lacking \in SUBSET Nat
  OBVIOUS
<1>3. PICK m \in Lacking : \A x \in Lacking : <<x, m>> \notin OpToRel(<, Nat)
  <2> HIDE DEF Lacking
  <2> QED BY <1>1, <1>2, NatLessThanWellFounded, WFMin
<1>4. m \in 0..n /\ ~ \E f : IsFlat(f, ss, m)
  OBVIOUS
<1>5. m # 0
  <2>1. IsFlat(<<>>, ss, 0)
    BY DEF IsFlat
  <2> QED BY <1>4, <2>1
<1>6. m - 1 \in 0..n /\ m - 1 \notin Lacking
  <2>1. m \in Nat /\ m - 1 \in Nat /\ m - 1 < m /\ m - 1 \in 0..n
    BY <1>4, <1>5
  <2>2. <<m - 1, m>> \in OpToRel(<, Nat)
    BY <2>1 DEF OpToRel
  <2> HIDE DEF Lacking
  <2> QED BY <1>3, <2>1, <2>2
<1>7. PICK f : IsFlat(f, ss, m - 1)
  BY <1>6
<1> DEFINE g == [i \in 1..m |-> IF i = m THEN (IF m = 1 THEN ss[m] ELSE f[m - 1] \o ss[m]) ELSE f[i]]
<1>8. \A i \in 1..(m - 1) : g[i] = f[i] /\ f[i] = IF i = 1 THEN ss[i] ELSE f[i - 1] \o ss[i]
  <2>1. \A i \in 1..(m - 1) : f[i] = IF i = 1 THEN ss[i] ELSE f[i - 1] \o ss[i]
    BY <1>7 DEF IsFlat
  <2>2. \A i \in 1..(m - 1) : i \in 1..m /\ i # m
    BY <1>4
  <2>3. \A i \in 1..(m - 1) : g[i] = f[i]
    BY <2>2
  <2> QED BY <2>1, <2>3
<1>9. ASSUME NEW i \in 1..m PROVE g[i] = IF i = 1 THEN ss[i] ELSE g[i - 1] \o ss[i]
  <2>1. CASE i = m /\ m # 1
    <3>1. m - 1 \in 1..(m - 1)
      BY <1>4, <1>5, <2>1
    <3>2. g[m - 1] = f[m - 1] /\ g[i] = f[m - 1] \o ss[m]
      BY <1>8, <2>1, <3>1
    <3> QED BY <2>1, <3>2
  <2>2. CASE i = m /\ m = 1
    BY <2>2
  <2>3. CASE i # m
    <3>1. i \in 1..(m - 1) /\ (i # 1 => i - 1 \in 1..(m - 1))
      BY <1>4, <2>3
    <3> HIDE DEF g
    <3> QED BY <1>8, <3>1
  <2> QED BY <2>1, <2>2, <2>3
<1>10. g = [i \in 1..m |-> g[i]]
  OBVIOUS
<1> HIDE DEF g
<1>11. g = [i \in 1..m |-> IF i = 1 THEN ss[i] ELSE g[i - 1] \o ss[i]]
  BY <1>9, <1>10
<1>12. IsFlat(g, ss, m)
  BY <1>11 DEF IsFlat
<1> QED
  BY <1>4, <1>12

LEMMA FlattenIs ==
    ASSUME NEW ss, NEW n \in Nat \ {0}, Len(ss) = n
    PROVE  \E f : IsFlat(f, ss, n) /\ FlattenSeq(ss) = f[n]
<1> DEFINE flatten == CHOOSE f : f = [i \in 1..n |-> IF i = 1 THEN ss[i] ELSE f[i - 1] \o ss[i]]
<1>1. FlattenSeq(ss) = flatten[n]
  BY DEF FlattenSeq
<1>2. \E f : f = [i \in 1..n |-> IF i = 1 THEN ss[i] ELSE f[i - 1] \o ss[i]]
  BY FlatExists DEF IsFlat
<1>3. IsFlat(flatten, ss, n)
  BY <1>2 DEF IsFlat
<1> QED
  BY <1>1, <1>3

\* Where the items of ss are in f: every one once, those of one sequence before those of
\* the next and each sequence in its own order.
Placed(f, ss, m, w) ==
    /\ \A p \in 1..Len(f) :
         /\ w[p] \in Nat \X Nat
         /\ w[p][1] \in 1..m /\ w[p][2] \in 1..Len(ss[w[p][1]])
         /\ f[p] = ss[w[p][1]][w[p][2]]
    /\ \A p, r \in 1..Len(f) : p < r =>
         w[p][1] < w[r][1] \/ (w[p][1] = w[r][1] /\ w[p][2] < w[r][2])
    /\ \A i \in 1..m : \A x \in 1..Len(ss[i]) :
         \E p \in 1..Len(f) : w[p][1] = i /\ w[p][2] = x

\* One sequence more.
LEMMA PlacedNext ==
    ASSUME NEW S, NEW ss, NEW m \in Nat, NEW f \in Seq(S), NEW w, Placed(f, ss, m, w),
           ss[m + 1] \in Seq(S)
    PROVE  \E v : Placed(f \o ss[m + 1], ss, m + 1, v)
<1> DEFINE g == ss[m + 1]
           n == Len(f)
           h == f \o g
           v == [p \in 1..(n + Len(g)) |-> IF p <= n THEN w[p] ELSE <<m + 1, p - n>>]
<1>1. n \in Nat /\ Len(g) \in Nat /\ Len(h) = n + Len(g)
      /\ \A p \in 1..(n + Len(g)) : h[p] = IF p <= n THEN f[p] ELSE g[p - n]
  BY ConcatProperties, LenProperties
<1>2. \A p \in 1..(n + Len(g)) : v[p] = IF p <= n THEN w[p] ELSE <<m + 1, p - n>>
  OBVIOUS
<1>3. \A p \in 1..n : p \in 1..(n + Len(g))
  BY <1>1
<1>4. \A x \in 1..Len(g) : n + x \in 1..(n + Len(g)) /\ ~ (n + x <= n) /\ (n + x) - n = x
  BY <1>1
<1>5. \A p \in 1..(n + Len(g)) : (p <= n => p \in 1..n) /\ (~ (p <= n) => p - n \in 1..Len(g))
  BY <1>1
<1> HIDE DEF h, v, n, g
<1>6. ASSUME NEW p \in 1..Len(h)
      PROVE  /\ v[p] \in Nat \X Nat
             /\ v[p][1] \in 1..(m + 1) /\ v[p][2] \in 1..Len(ss[v[p][1]])
             /\ h[p] = ss[v[p][1]][v[p][2]]
  <2>1. CASE p <= n
    <3>1. p \in 1..n /\ v[p] = w[p] /\ h[p] = f[p]
      BY <1>1, <1>2, <1>5, <2>1
    <3>2. /\ w[p] \in Nat \X Nat
          /\ w[p][1] \in 1..m /\ w[p][2] \in 1..Len(ss[w[p][1]])
          /\ f[p] = ss[w[p][1]][w[p][2]]
      BY <3>1 DEF Placed, n
    <3>3. w[p][1] \in 1..(m + 1)
      BY <3>2
    <3> QED BY <3>1, <3>2, <3>3
  <2>2. CASE ~ (p <= n)
    <3>1. p - n \in 1..Len(g) /\ v[p] = <<m + 1, p - n>> /\ h[p] = g[p - n]
      BY <1>1, <1>2, <1>5, <2>2
    <3>2. v[p][1] = m + 1 /\ v[p][2] = p - n /\ m + 1 \in 1..(m + 1) /\ m + 1 \in Nat
          /\ p - n \in Nat
      BY <1>1, <3>1
    <3> QED BY <3>1, <3>2 DEF g
  <2> QED BY <2>1, <2>2
<1>7. ASSUME NEW p \in 1..Len(h), NEW r \in 1..Len(h), p < r
      PROVE  v[p][1] < v[r][1] \/ (v[p][1] = v[r][1] /\ v[p][2] < v[r][2])
  <2>0. p \in Int /\ r \in Int
    BY <1>1
  <2>1. CASE r <= n
    <3>0. p <= n
      BY <1>1, <1>7, <2>0, <2>1
    <3>1. p \in 1..n /\ r \in 1..n /\ v[p] = w[p] /\ v[r] = w[r]
      BY <1>1, <1>2, <1>5, <2>1, <3>0
    <3>2. w[p][1] < w[r][1] \/ (w[p][1] = w[r][1] /\ w[p][2] < w[r][2])
      BY <1>7, <3>1 DEF Placed, n
    <3> QED BY <3>1, <3>2
  <2>2. CASE p <= n /\ ~ (r <= n)
    <3>1. p \in 1..n /\ v[p] = w[p] /\ v[r] = <<m + 1, r - n>>
      BY <1>1, <1>2, <1>5, <2>2
    <3>2. w[p][1] \in 1..m
      BY <3>1 DEF Placed, n
    <3> QED BY <3>1, <3>2
  <2>3. CASE ~ (p <= n) /\ ~ (r <= n)
    <3>1. v[p] = <<m + 1, p - n>> /\ v[r] = <<m + 1, r - n>>
      BY <1>1, <1>2, <2>3
    <3> QED BY <1>1, <1>7, <2>0, <3>1
  <2> QED BY <1>1, <1>7, <2>0, <2>1, <2>2, <2>3
<1>8. ASSUME NEW i \in 1..(m + 1), NEW x \in 1..Len(ss[i])
      PROVE  \E p \in 1..Len(h) : v[p][1] = i /\ v[p][2] = x
  <2>1. CASE i = m + 1
    <3>1. x \in 1..Len(g)
      BY <2>1 DEF g
    <3>2. n + x \in 1..Len(h) /\ v[n + x] = <<m + 1, x>>
      BY <1>1, <1>2, <1>4, <3>1
    <3> QED BY <2>1, <3>2
  <2>2. CASE i # m + 1
    <3>1. i \in 1..m
      BY <2>2
    <3>2. PICK p \in 1..n : w[p][1] = i /\ w[p][2] = x
      BY <3>1 DEF Placed, n
    <3>3. p \in 1..(n + Len(g)) /\ p <= n
      BY <1>1, <1>3
    <3>4. p \in 1..Len(h) /\ v[p] = w[p]
      BY <1>1, <1>2, <3>3
    <3> QED BY <3>2, <3>4
  <2> QED BY <2>1, <2>2
<1>9. Placed(h, ss, m + 1, v)
  BY <1>6, <1>7, <1>8 DEF Placed
<1> QED
  BY <1>9 DEF h, g

LEMMA FlattenPlaces ==
    ASSUME NEW S, NEW n \in Nat, NEW ss \in [1..n -> Seq(S)]
    PROVE  FlattenSeq(ss) \in Seq(S) /\ \E w : Placed(FlattenSeq(ss), ss, n, w)
<1>1. Len(ss) = n /\ ss \in Seq(Seq(S))
  OBVIOUS
<1>2. CASE n = 0
  <2>1. ss = <<>> /\ FlattenSeq(ss) = <<>>
    BY <1>1, <1>2 DEF FlattenSeq
  <2>2. Placed(<<>>, ss, 0, <<>>)
    <3>1. 1..Len(<<>>) = {} /\ 1..0 = {}
      OBVIOUS
    <3> QED BY <3>1, ZenonT(20) DEF Placed
  <2>3. <<>> \in Seq(S)
    OBVIOUS
  <2> QED BY <1>2, <2>1, <2>2, <2>3
<1>3. CASE n # 0
  <2>1. PICK f : IsFlat(f, ss, n) /\ FlattenSeq(ss) = f[n]
    BY <1>1, <1>3, FlattenIs
  <2>2. \A i \in 1..n : f[i] = IF i = 1 THEN ss[i] ELSE f[i - 1] \o ss[i]
    BY <2>1 DEF IsFlat
  <2> DEFINE Good(m) == f[m] \in Seq(S) /\ \E w : Placed(f[m], ss, m, w)
             Bad == {m \in 1..n : ~ Good(m)}
  <2>3. SUFFICES ASSUME Bad # {} PROVE FALSE
    <3>1. n \in 1..n
      BY <1>3
    <3>2. SUFFICES Good(n)
      BY <2>1
    <3>3. n \notin Bad
      BY <2>3
    <3> QED BY <3>1, <3>3
  <2>4. Bad \in SUBSET Nat
    OBVIOUS
  <2>5. PICK m \in Bad : \A x \in Bad : <<x, m>> \notin OpToRel(<, Nat)
    <3> HIDE DEF Bad
    <3> QED BY <2>3, <2>4, NatLessThanWellFounded, WFMin
  <2>6. m \in 1..n /\ ~ Good(m)
    OBVIOUS
  <2>7. CASE m = 1
    <3>1. f[1] = ss[1] /\ ss[1] \in Seq(S)
      BY <1>3, <2>2, <2>6, <2>7
    <3>2. Placed(ss[1], ss, 1, [p \in 1..Len(ss[1]) |-> <<1, p>>])
      <4> DEFINE w == [p \in 1..Len(ss[1]) |-> <<1, p>>]
      <4>1. \A p \in 1..Len(ss[1]) : w[p] = <<1, p>> /\ w[p][1] = 1 /\ w[p][2] = p
        OBVIOUS
      <4>2. Len(ss[1]) \in Nat
        BY <3>1
      <4> HIDE DEF w
      <4>3. ASSUME NEW p \in 1..Len(ss[1]) PROVE w[p] \in Nat \X Nat
        <5>1. p \in Nat /\ 1 \in Nat
          BY <4>2
        <5>2. <<1, p>> \in Nat \X Nat
          BY <5>1
        <5>3. w[p] = <<1, p>>
          BY <4>1
        <5> QED BY <5>2, <5>3
      <4>4. ASSUME NEW p \in 1..Len(ss[1])
            PROVE  w[p][1] \in 1..1 /\ w[p][2] \in 1..Len(ss[w[p][1]]) /\ ss[1][p] = ss[w[p][1]][w[p][2]]
        BY <4>1
      <4>5. \A i \in 1..1 : \A x \in 1..Len(ss[i]) :
              \E p \in 1..Len(ss[1]) : w[p][1] = i /\ w[p][2] = x
        <5>1. \A i \in 1..1 : i = 1
          OBVIOUS
        <5> QED BY <4>1, <5>1
      <4>6. \A p, r \in 1..Len(ss[1]) : p < r =>
              w[p][1] < w[r][1] \/ (w[p][1] = w[r][1] /\ w[p][2] < w[r][2])
        BY <4>1
      <4>7. Placed(ss[1], ss, 1, w)
        BY <4>3, <4>4, <4>5, <4>6 DEF Placed
      <4> QED BY <4>7 DEF w
    <3> QED BY <2>6, <2>7, <3>1, <3>2
  <2>8. CASE m # 1
    <3>1. m - 1 \in 1..n /\ m - 1 \in Nat /\ m - 1 < m /\ m \in Nat /\ (m - 1) + 1 = m
      BY <2>6, <2>8
    <3>2. <<m - 1, m>> \in OpToRel(<, Nat)
      BY <3>1 DEF OpToRel
    <3>3. m - 1 \notin Bad
      <4> HIDE DEF Bad
      <4> QED BY <2>5, <3>2
    <3>4. Good(m - 1)
      BY <3>1, <3>3
    <3>5. PICK w : Placed(f[m - 1], ss, m - 1, w)
      BY <3>4
    <3>6. f[m - 1] \in Seq(S) /\ ss[(m - 1) + 1] \in Seq(S) /\ f[m] = f[m - 1] \o ss[(m - 1) + 1]
      BY <2>2, <2>6, <2>8, <3>1, <3>4
    <3>7. \E v : Placed(f[m - 1] \o ss[(m - 1) + 1], ss, (m - 1) + 1, v)
      BY <3>1, <3>5, <3>6, PlacedNext
    <3>8. f[m] \in Seq(S)
      BY <3>6, ConcatProperties
    <3> QED BY <2>6, <3>1, <3>6, <3>7, <3>8
  <2> QED BY <2>7, <2>8
<1> QED
  BY <1>2, <1>3

-----------------------------------------------------------------------------
(* The hits of a chunk, and the chunks of a block.                         *)

\* What holds of the hits of a chunk: each stands for a match that is seen in it, each
\* match has one, and they are in the order of the matches.
LEMMA HitsAre ==
    ASSUME ScanAssumption, ScanTypes, NEW c \in Chunk
    PROVE  /\ Hits(c) \in Seq(Nat)
           /\ \E w \in [1..Len(Hits(c)) -> content] :
                /\ \A i \in 1..Len(Hits(c)) :
                     /\ w[i] \in Seen(c) /\ c.at + c.want <= FileSize
                     /\ Hits(c)[i] = c.offset + (w[i].at - c.at)
                /\ \A i, j \in 1..Len(Hits(c)) : i < j => Before(w[i], w[j])
                /\ \A i, j \in 1..Len(Hits(c)) : w[i] = w[j] => i = j
                /\ c.at + c.want <= FileSize =>
                     \A o \in Seen(c) : \E i \in 1..Len(Hits(c)) : w[i] = o
<1> DEFINE h == Hits(c)
           q == InOrder(Seen(c))
<1>1. Seen(c) \in SUBSET content
  BY DEF Seen
<1>2. CASE c.at + c.want > FileSize
  <2>1. h = <<>> /\ Len(h) = 0
    BY <1>2 DEF Hits
  <2>2. ~ (c.at + c.want <= FileSize)
    BY <1>2 DEF Chunk, ScanAssumption
  <2>3. h \in Seq(Nat)
    BY <2>1
  <2>4. <<>> \in [1..Len(h) -> content] /\ 1..Len(h) = {}
    BY <2>1
  <2> HIDE DEF h
  <2>5. \E w \in [1..Len(h) -> content] :
                /\ \A i \in 1..Len(h) :
                     /\ w[i] \in Seen(c) /\ c.at + c.want <= FileSize
                     /\ h[i] = c.offset + (w[i].at - c.at)
                /\ \A i, j \in 1..Len(h) : i < j => Before(w[i], w[j])
                /\ \A i, j \in 1..Len(h) : w[i] = w[j] => i = j
                /\ c.at + c.want <= FileSize =>
                     \A o \in Seen(c) : \E i \in 1..Len(h) : w[i] = o
    <3> USE <2>4
    <3> WITNESS <<>> \in [1..Len(h) -> content]
    <3> QED BY <2>2, <2>4
  <2> QED BY <2>3, <2>5 DEF h
<1>3. CASE ~ (c.at + c.want > FileSize)
  <2>0. c.at + c.want <= FileSize
    BY <1>3 DEF Chunk, ScanAssumption
  <2>1. /\ q \in Seq(Seen(c))
        /\ \A i, j \in 1..Len(q) : i < j => Before(q[i], q[j])
        /\ \A i, j \in 1..Len(q) : q[i] = q[j] => i = j
        /\ \A o \in Seen(c) : \E i \in 1..Len(q) : q[i] = o
    BY <1>1, InOrderIs
  <2>2. h = [i \in 1..Len(q) |-> c.offset + (q[i].at - c.at)]
    BY <1>3 DEF Hits
  <2> HIDE DEF q, h
  <2>3. Len(q) \in Nat /\ \A i \in 1..Len(q) : q[i] \in Seen(c)
    BY <2>1
  <2>4. ASSUME NEW i \in 1..Len(q)
        PROVE  c.offset + (q[i].at - c.at) \in Nat /\ q[i] \in content
    <3>1. q[i] \in [at : Nat, len : 1..(Overlap + 1)] /\ c.at <= q[i].at /\ q[i] \in content
      BY <2>3 DEF Seen, ScanAssumption, ScanTypes
    <3>2. q[i].at \in Nat /\ c.at \in Nat /\ c.offset \in Nat
      BY <3>1 DEF Chunk
    <3> QED BY <3>1, <3>2
  <2>5. Len(h) = Len(q) /\ h \in Seq(Nat)
    <3>1. h \in [1..Len(q) -> Nat]
      BY <2>2, <2>4
    <3> QED BY <2>3, <3>1
  <2>6. \A i \in 1..Len(q) : h[i] = c.offset + (q[i].at - c.at)
    BY <2>2
  <2>7. q \in [1..Len(h) -> content]
    BY <2>1, <2>3, <2>4, <2>5, LenProperties
  <2>8. \E w \in [1..Len(h) -> content] :
                /\ \A i \in 1..Len(h) :
                     /\ w[i] \in Seen(c) /\ c.at + c.want <= FileSize
                     /\ h[i] = c.offset + (w[i].at - c.at)
                /\ \A i, j \in 1..Len(h) : i < j => Before(w[i], w[j])
                /\ \A i, j \in 1..Len(h) : w[i] = w[j] => i = j
                /\ c.at + c.want <= FileSize =>
                     \A o \in Seen(c) : \E i \in 1..Len(h) : w[i] = o
    <3> WITNESS q \in [1..Len(h) -> content]
    <3> QED BY <2>0, <2>1, <2>3, <2>5, <2>6
  <2> QED BY <2>5, <2>8 DEF h
<1> QED
  BY <1>2, <1>3

\* The hits of a search for one string are in the order of their places.
LEMMA HitsRise ==
    ASSUME ScanAssumption, ScanTypes, NEW c \in Chunk, kind = "bytes"
    PROVE  Rising(Hits(c))
<1>1. PICK w \in [1..Len(Hits(c)) -> content] :
        /\ \A i \in 1..Len(Hits(c)) : Hits(c)[i] = c.offset + (w[i].at - c.at)
        /\ \A i, j \in 1..Len(Hits(c)) : i < j => Before(w[i], w[j])
  BY HitsAre
<1>2. \A o \in content : o.at \in Nat
  BY DEF ScanAssumption, ScanTypes
<1>3. c.offset \in Nat /\ c.at \in Nat
  BY DEF Chunk
<1> SUFFICES ASSUME NEW i \in 1..Len(Hits(c)), NEW j \in 1..Len(Hits(c)), i < j
             PROVE  Hits(c)[i] < Hits(c)[j]
  BY DEF Rising
<1>4. w[i].at < w[j].at
  BY <1>1 DEF Before
<1>5. w[i].at \in Nat /\ w[j].at \in Nat
  BY <1>1, <1>2
<1> QED
  BY <1>1, <1>3, <1>4, <1>5

\* The hits of a chunk are what stands for a match that is seen in it.
LEMMA FoundIs ==
    ASSUME ScanAssumption, ScanTypes, NEW k \in 1..Len(chunks), NEW h
    PROVE  (\E i \in 1..Len(Hits(chunks[k])) : h = Hits(chunks[k])[i])
             <=> (\E o \in content : StandsFor(h, k, o))
<1> DEFINE c == chunks[k]
<1>1. c \in Chunk
  BY DEF ScanTypes
<1>2. PICK w \in [1..Len(Hits(c)) -> content] :
        /\ \A i \in 1..Len(Hits(c)) :
             /\ w[i] \in Seen(c) /\ c.at + c.want <= FileSize
             /\ Hits(c)[i] = c.offset + (w[i].at - c.at)
        /\ c.at + c.want <= FileSize =>
             \A o \in Seen(c) : \E i \in 1..Len(Hits(c)) : w[i] = o
  BY <1>1, HitsAre
<1>3. ASSUME NEW i \in 1..Len(Hits(c)), h = Hits(c)[i]
      PROVE  \E o \in content : StandsFor(h, k, o)
  <2>1. w[i] \in content /\ StandsFor(h, k, w[i])
    BY <1>2, <1>3 DEF StandsFor
  <2> QED BY <2>1
<1>4. ASSUME NEW o \in content, StandsFor(h, k, o)
      PROVE  \E i \in 1..Len(Hits(c)) : h = Hits(c)[i]
  <2>1. PICK i \in 1..Len(Hits(c)) : w[i] = o
    BY <1>2, <1>4 DEF StandsFor
  <2>2. h = Hits(c)[i]
    BY <1>2, <1>4, <2>1 DEF StandsFor
  <2> QED BY <2>2
<1> QED
  BY <1>3, <1>4

LEMMA Multiples ==
    ASSUME NEW C \in Nat \ {0}, NEW i \in Int, NEW j \in Int, i < j
    PROVE  (i * C) + C <= j * C
<1>1. j - i \in Nat /\ j - i >= 1
  OBVIOUS
<1>2. (j - i) * C >= C
  BY <1>1
<1> QED
  BY <1>2

\* What holds of the chunks of a block.
LEMMA ChunksOfBlock ==
    ASSUME ScanAssumption, NEW b \in Block
    PROVE  /\ ChunksOf(b) \in Seq(Chunk)
           /\ \A k \in 1..Len(ChunksOf(b)) : IsChunkOf(ChunksOf(b)[k], b)
           /\ \A d \in Nat : Within(b, d) =>
                \E k \in 1..Len(ChunksOf(b)) : Fresh(ChunksOf(b)[k], d)
           /\ \A k, l \in 1..Len(ChunksOf(b)) : k < l => Behind(ChunksOf(b)[k], ChunksOf(b)[l])
<1> DEFINE C == ChunkSize
           n == (b.size + C - 1) \div C
           at(i) == (i - 1) * C
           chunk(i) == [offset |-> b.offset + at(i),
                        want |-> Min({C + Overlap, b.size - at(i)}),
                        at |-> b.mapped + at(i)]
           q == ChunksOf(b)
<1>1. C \in Nat \ {0} /\ Overlap \in Nat
  BY DEF ScanAssumption
<1>2. b.offset \in Nat /\ b.size \in Int /\ b.mapped \in Nat
  BY DEF Block
<1>3. q = [i \in 1..n |-> chunk(i)]
  BY DEF ChunksOf
<1>4. n \in Int /\ C * n <= b.size + C - 1 /\ b.size + C - 1 < C * n + C
  <2>1. b.size + C - 1 \in Int
    BY <1>1, <1>2
  <2> QED BY <1>1, <2>1
<1>5. CASE b.size <= 0
  <2>1. n <= 0
    <3>1. SUFFICES ASSUME n >= 1 PROVE FALSE
      BY <1>4
    <3>2. C * n >= C
      BY <1>1, <1>4, <3>1
    <3>3. C * n \in Int
      BY <1>1, <1>4
    <3> HIDE DEF n
    <3> QED BY <1>1, <1>2, <1>4, <1>5, <3>2, <3>3
  <2>2. q = <<>>
    <3> HIDE DEF n, chunk, q
    <3>1. 1..n = {}
      BY <1>4, <2>1
    <3> QED BY <1>3, <3>1
  <2>3. \A d \in Nat : ~ Within(b, d)
    BY <1>2, <1>5 DEF Within
  <2>4. Len(q) = 0 /\ q \in Seq(Chunk)
    BY <2>2
  <2> HIDE DEF q
  <2> QED BY <2>3, <2>4 DEF q
<1>6. CASE b.size > 0
  <2>1. n \in Nat
    <3>1. SUFFICES ASSUME n < 0 PROVE FALSE
      BY <1>4
    <3>2. C * n + C <= 0
      BY <1>1, <1>4, <3>1
    <3> HIDE DEF n
    <3>3. C * n \in Int
      BY <1>1, <1>4
    <3> QED BY <1>1, <1>2, <1>4, <1>6, <3>2, <3>3
  <2>2. ASSUME NEW i \in 1..n PROVE at(i) \in Nat /\ at(i) < b.size
    <3>1. i - 1 \in Nat /\ i - 1 < n /\ i - 1 \in Int
      BY <2>1
    <3>2. at(i) \in Nat
      BY <1>1, <3>1
    <3>3. at(i) + C <= n * C /\ n * C = C * n /\ n * C \in Int
      <4> HIDE DEF n
      <4> QED BY <1>1, <1>4, <3>1, Multiples
    <3> HIDE DEF n, at
    <3> QED BY <1>1, <1>2, <1>4, <3>2, <3>3
  <2>3. ASSUME NEW i \in 1..n
        PROVE  /\ chunk(i) \in Chunk /\ IsChunkOf(chunk(i), b)
               /\ chunk(i).offset = b.offset + at(i)
               /\ chunk(i).want = C + Overlap \/ chunk(i).want = b.size - at(i)
    <3> DEFINE m == Min({C + Overlap, b.size - at(i)})
    <3>1. at(i) \in Nat /\ at(i) < b.size
      BY <2>2
    <3> HIDE DEF at, n
    <3>2. m \in {C + Overlap, b.size - at(i)} /\ m <= C + Overlap /\ m <= b.size - at(i)
      BY <1>1, <1>2, <3>1, LesserOfTwo
    <3>3. m \in Nat \ {0}
      BY <1>1, <1>2, <3>1, <3>2
    <3>4. chunk(i) = [offset |-> b.offset + at(i), want |-> m, at |-> b.mapped + at(i)]
      OBVIOUS
    <3> HIDE DEF m, chunk
    <3>5. chunk(i) \in Chunk
      BY <1>2, <3>1, <3>3, <3>4 DEF Chunk
    <3>6. chunk(i).offset = b.offset + at(i) /\ chunk(i).want = m /\ chunk(i).at = b.mapped + at(i)
      BY <3>4
    <3>7. IsChunkOf(chunk(i), b)
      BY <1>1, <1>2, <3>1, <3>2, <3>3, <3>6 DEF IsChunkOf
    <3> QED BY <3>2, <3>5, <3>6, <3>7
  <2>4. q \in Seq(Chunk) /\ Len(q) = n /\ \A i \in 1..n : q[i] = chunk(i)
    <3> HIDE DEF n, chunk, q
    <3>1. q \in [1..n -> Chunk]
      BY <1>3, <2>3
    <3> QED BY <1>3, <2>1, <3>1
  <2>5. \A k \in 1..Len(q) : IsChunkOf(q[k], b)
    <3> HIDE DEF n, chunk, q
    <3> QED BY <2>3, <2>4
  <2>6. ASSUME NEW d \in Nat, Within(b, d)
        PROVE  \E k \in 1..Len(q) : Fresh(q[k], d)
    <3> DEFINE x == d - b.offset
               i == x \div C
    <3>1. x \in Nat /\ x < b.size
      BY <1>2, <2>6 DEF Within
    <3>2. i \in Nat /\ C * i <= x /\ x < C * i + C /\ C * i = i * C
      BY <1>1, <3>1
    <3>3. i < n
      <4>1. SUFFICES ASSUME n <= i PROVE FALSE
        BY <1>4, <3>2
      <4> HIDE DEF n, i
      <4>2. n * C <= i * C
        <5>1. CASE n = i
          BY <1>1, <2>1, <3>2, <5>1
        <5>2. CASE n < i
          <6>1. n * C + C <= i * C /\ n * C \in Int /\ i * C \in Int
            BY <1>1, <2>1, <3>2, <5>2, Multiples
          <6> QED BY <1>1, <6>1
        <5> QED BY <2>1, <3>2, <4>1, <5>1, <5>2
      <4>3. n * C = C * n /\ n * C \in Int /\ i * C \in Int
        BY <1>1, <2>1, <3>2
      <4> HIDE DEF x
      <4> QED BY <1>1, <1>2, <1>4, <3>1, <3>2, <4>2, <4>3
    <3>4. i + 1 \in 1..n /\ at(i + 1) = i * C
      BY <2>1, <3>2, <3>3
    <3>5. /\ q[i + 1].offset = b.offset + i * C
          /\ q[i + 1].want = C + Overlap \/ q[i + 1].want = b.size - i * C
      <4> HIDE DEF n, i, at, chunk, q
      <4> QED BY <2>3, <2>4, <3>4
    <3>6. i * C \in Int
      BY <1>1, <3>2
    <3>7. d = b.offset + x
      BY <1>2
    <3>8. Fresh(q[i + 1], d)
      <4> HIDE DEF n, i, x, at, chunk, q
      <4> QED BY <1>1, <1>2, <3>1, <3>2, <3>5, <3>6, <3>7 DEF Fresh
    <3> QED BY <2>4, <3>4, <3>8
  <2>7. ASSUME NEW k \in 1..Len(q), NEW l \in 1..Len(q), k < l
        PROVE  Behind(q[k], q[l])
    <3>1. k \in 1..n /\ l \in 1..n /\ k - 1 \in Int /\ l - 1 \in Int /\ k - 1 < l - 1
      BY <2>1, <2>4, <2>7
    <3>2. at(k) + C <= at(l) /\ at(k) \in Int /\ at(l) \in Int
      <4> HIDE DEF n
      <4> QED BY <1>1, <3>1, Multiples
    <3>3. q[k].offset = b.offset + at(k) /\ q[l].offset = b.offset + at(l)
      <4> HIDE DEF n, at, chunk, q
      <4> QED BY <2>3, <2>4, <3>1
    <3> HIDE DEF n, at, chunk, q
    <3>4. q[k].offset + C <= q[l].offset
      BY <1>1, <1>2, <3>2, <3>3
    <3> QED BY <3>4 DEF Behind
  <2> QED BY <2>4, <2>5, <2>6, <2>7
<1> QED
  BY <1>2, <1>5, <1>6

-----------------------------------------------------------------------------
(* Sections are joined and trimmed.                                        *)

\* The first of a sequence covers what it covers, and the rest the rest.
LEMMA CoversHead ==
    ASSUME NEW q \in Seq(Nat \X Nat), q # <<>>, NEW b
    PROVE  Covers(q, b) <=> (Head(q)[1] <= b /\ b < endOf(Head(q))) \/ Covers(Tail(q), b)
<1>1. /\ Len(q) \in Nat /\ Len(q) >= 1 /\ Head(q) = q[1]
      /\ Len(Tail(q)) = Len(q) - 1
      /\ \A i \in 1..Len(Tail(q)) : Tail(q)[i] = q[i + 1]
  BY HeadTailProperties
<1> DEFINE In(i) == q[i][1] <= b /\ b < endOf(q[i])
<1>2. ASSUME NEW i \in 1..Len(q), In(i)
      PROVE  In(1) \/ \E j \in 1..Len(Tail(q)) : Tail(q)[j][1] <= b /\ b < endOf(Tail(q)[j])
  <2>1. CASE i = 1
    BY <1>2, <2>1
  <2>2. CASE i # 1
    <3>1. i - 1 \in 1..Len(Tail(q)) /\ Tail(q)[i - 1] = q[i]
      BY <1>1, <2>2
    <3> QED BY <1>2, <3>1
  <2> QED BY <2>1, <2>2
<1>3. ASSUME NEW j \in 1..Len(Tail(q)), Tail(q)[j][1] <= b, b < endOf(Tail(q)[j])
      PROVE  \E i \in 1..Len(q) : In(i)
  <2>1. j + 1 \in 1..Len(q) /\ Tail(q)[j] = q[j + 1]
    BY <1>1
  <2> QED BY <1>3, <2>1
<1>4. In(1) => \E i \in 1..Len(q) : In(i)
  BY <1>1
<1> QED
  BY <1>1, <1>2, <1>3, <1>4 DEF Covers

\* One section more covers what it covers.
LEMMA CoversAppend ==
    ASSUME NEW q \in Seq(Nat \X Nat), NEW s \in Nat \X Nat, NEW b
    PROVE  Covers(Append(q, s), b) <=> Covers(q, b) \/ (s[1] <= b /\ b < endOf(s))
<1>1. /\ Len(q) \in Nat /\ Len(Append(q, s)) = Len(q) + 1
      /\ \A i \in 1..Len(q) : Append(q, s)[i] = q[i]
      /\ Append(q, s)[Len(q) + 1] = s
  BY AppendProperties
<1>2. \A i \in 1..(Len(q) + 1) : i \in 1..Len(q) \/ i = Len(q) + 1
  BY <1>1
<1>3. Len(q) + 1 \in 1..(Len(q) + 1) /\ \A i \in 1..Len(q) : i \in 1..(Len(q) + 1)
  BY <1>1
<1> HIDE DEF endOf
<1> QED
  BY <1>1, <1>2, <1>3 DEF Covers

\* Sections that are apart are apart from one more that starts behind the last.
LEMMA ApartAppend ==
    ASSUME NEW q \in Seq(Nat \X Nat), NEW s \in Nat \X Nat, Apart(q),
           \A i \in 1..Len(q) : endOf(q[i]) < s[1]
    PROVE  Apart(Append(q, s))
<1>1. /\ Len(q) \in Nat /\ Len(Append(q, s)) = Len(q) + 1
      /\ \A i \in 1..Len(q) : Append(q, s)[i] = q[i]
      /\ Append(q, s)[Len(q) + 1] = s
  BY AppendProperties
<1> SUFFICES ASSUME NEW i \in 1..(Len(q) + 1), NEW j \in 1..(Len(q) + 1), i < j
             PROVE  endOf(Append(q, s)[i]) < Append(q, s)[j][1]
  BY <1>1 DEF Apart
<1>2. i \in 1..Len(q) /\ (j \in 1..Len(q) \/ j = Len(q) + 1)
  BY <1>1
<1> HIDE DEF endOf
<1> QED
  BY <1>1, <1>2 DEF Apart

\* A section that is joined to the last one.
LEMMA LastIsSame ==
    ASSUME NEW q \in Seq(Nat \X Nat), q # <<>>
    PROVE  /\ Front(q) \in Seq(Nat \X Nat) /\ Last(q) \in Nat \X Nat
           /\ Last(q) = q[Len(q)] /\ Len(q) \in 1..Len(q)
           /\ q = Append(Front(q), Last(q))
           /\ Len(Front(q)) = Len(q) - 1
           /\ \A i \in 1..(Len(q) - 1) : Front(q)[i] = q[i] /\ i \in 1..Len(q)
<1>1. Len(q) \in Nat /\ Len(q) >= 1 /\ \A i \in 1..Len(q) : q[i] \in Nat \X Nat
  BY EmptySeq, ElementOfSeq
<1>2. Front(q) = SubSeq(q, 1, Len(q) - 1) /\ Last(q) = q[Len(q)]
  BY DEF Front, Last
<1>3. \A i \in 1..(Len(q) - 1) : i \in 1..Len(q) /\ q[i] \in Nat \X Nat
  BY <1>1
<1>4. /\ Front(q) \in Seq(Nat \X Nat) /\ Len(Front(q)) = Len(q) - 1
      /\ \A i \in 1..(Len(q) - 1) : Front(q)[i] = q[i]
  <2> DEFINE n == Len(q) - 1
  <2>1. n \in Nat /\ 1 \in Int /\ n \in Int /\ \A i \in 1..n : q[i] \in Nat \X Nat
    BY <1>1, <1>3
  <2> HIDE DEF n
  <2>2. n - 1 + 1 = n /\ (1 <= n \/ n = 0) /\ \A i \in 1..n : 1 + i - 1 = i
    BY <2>1
  <2>3. /\ SubSeq(q, 1, n) \in Seq(Nat \X Nat)
        /\ Len(SubSeq(q, 1, n)) = IF 1 <= n THEN n - 1 + 1 ELSE 0
        /\ \A i \in 1..n - 1 + 1 : SubSeq(q, 1, n)[i] = q[1 + i - 1]
    BY <2>1, SubSeqProperties
  <2>4. Len(SubSeq(q, 1, n)) = n /\ \A i \in 1..n : SubSeq(q, 1, n)[i] = q[i]
    BY <2>2, <2>3
  <2> QED BY <1>2, <2>3, <2>4 DEF n
<1>5. q = Append(Front(q), Last(q))
  <2>1. /\ Append(Front(q), Last(q)) \in Seq(Nat \X Nat)
        /\ Len(Append(Front(q), Last(q))) = Len(q)
        /\ \A i \in 1..(Len(q) - 1) : Append(Front(q), Last(q))[i] = q[i]
        /\ Append(Front(q), Last(q))[Len(q)] = Last(q)
    BY <1>1, <1>2, <1>4, AppendProperties
  <2>2. \A i \in 1..Len(q) : i \in 1..(Len(q) - 1) \/ i = Len(q)
    BY <1>1
  <2>3. \A i \in 1..Len(q) : Append(Front(q), Last(q))[i] = q[i]
    BY <1>2, <2>1, <2>2
  <2> QED BY <2>1, <2>3, SeqEqual
<1>6. Len(q) \in 1..Len(q)
  BY <1>1
<1>7. Last(q) \in Nat \X Nat
  BY <1>1, <1>2, <1>6
<1> QED
  BY <1>2, <1>3, <1>4, <1>5, <1>6, <1>7

\* Before the first batch nothing has been found, and nothing is lost.
LEMMA NothingHandedOver ==
    ASSUME base' = 0, pending' = <<>>, reported' = <<>>
    PROVE  HandedOver'
<1>1. \A h \in Nat : ~ FoundIn(h, base)'
  BY DEF FoundIn
<1>2. Len(<<>>) = 0 /\ <<>> \o <<>> = <<>> /\ 1..0 = {}
  OBVIOUS
<1>3. Traced(<<>>, base)'
  <2>1. <<>> \in [1..0 -> ((1..base) \X content)']
    BY <1>2
  <2> QED BY <1>2, <2>1 DEF Traced
<1>4. Rising(<<>>)'
  BY <1>2 DEF Rising
<1> QED
  BY <1>1, <1>2, <1>3, <1>4 DEF HandedOver, Among

LEMMA NothingYet ==
    ASSUME base' = 0, found' = <<>>, pending' = <<>>, reported' = <<>>, stopped' = FALSE,
           pc' \in {"sort", "trim", "lay"}
    PROVE  Batched' /\ HandedOver'
<1>1. Batched'
  BY DEF Batched
<1> QED
  BY <1>1, NothingHandedOver

\* The sections asked for, sorted.
LEMMA InitScanInv == ASSUME ScanAssumption, NoneWithin, ScanInit PROVE ScanInv
<1>1. /\ scanned \in LayersScanned /\ content \in Contents /\ kind \in Kinds /\ asked \in Sections
      /\ kind = "bytes" => \A o, p \in content : o.len = p.len
      /\ pc = "sort" /\ sections = <<>> /\ position = 0 /\ blocks = <<>> /\ chunks = <<>>
      /\ base = 0 /\ found = <<>> /\ pending = <<>> /\ reported = <<>> /\ stopped = FALSE
  BY DEF ScanInit
<1>2. asked \in Seq(Nat \X Nat) /\ Wanted = asked
  <2>1. asked \in Seq(Nat \X Nat)
    BY <1>1 DEF NoneWithin
  <2>2. asked # Whole
    <3>1. SUFFICES ASSUME asked = Whole PROVE FALSE
      OBVIOUS
    <3>2. Len(Whole) = 1 /\ Whole[1][1] = -1
      BY DEF Whole
    <3>3. asked[1] \in Nat \X Nat
      BY <2>1, <3>1, <3>2, ElementOfSeq
    <3> QED BY <3>1, <3>2, <3>3
  <2> QED BY <2>1, <2>2 DEF Wanted
<1> DEFINE n == Len(asked)
<1>3. n \in Nat /\ \A i \in 1..n : asked[i] \in Nat \X Nat
  BY <1>2, ElementOfSeq
<1>4. PICK p \in Bijection(1..n, 1..n) :
        /\ todo = [i \in 1..n |-> asked[p[i]]]
        /\ \A i, j \in 1..n : i < j => Lesser(todo[i], todo[j])
  BY <1>2 DEF ScanInit
<1>5. /\ \A i \in 1..n : p[i] \in 1..n
      /\ \A k \in 1..n : \E i \in 1..n : p[i] = k
  BY <1>4 DEF Bijection, Injection, Surjection
<1> HIDE DEF n
<1>6. /\ todo \in Seq(Nat \X Nat) /\ Len(todo) = n
      /\ \A i \in 1..n : todo[i] = asked[p[i]]
  <2>1. todo \in [1..n -> Nat \X Nat]
    BY <1>3, <1>4, <1>5
  <2> QED BY <1>3, <1>4, <2>1, SMTT(30)
<1>7. ScanTypes
  <2>1. <<>> \in Seq(Nat \X Nat) /\ <<>> \in Seq(Block) /\ <<>> \in Seq(Chunk) /\ <<>> \in Seq(Nat)
        /\ Len(<<>>) = 0
    OBVIOUS
  <2>2. base \in 0..Len(chunks)
    BY <1>1, <2>1
  <2>3. stopped \in BOOLEAN /\ position \in Nat
    BY <1>1
  <2> QED BY <1>1, <1>6, <2>1, <2>2, <2>3 DEF ScanTypes
<1>8. Joining
  <2>1. ASSUME NEW b \in Nat
        PROVE  Covers(asked, b) <=> Covers(sections, b) \/ Covers(todo, b)
    <3>1. ~ Covers(sections, b)
      BY <1>1 DEF Covers
    <3>2. Covers(asked, b) <=> \E k \in 1..n : asked[k][1] <= b /\ b < endOf(asked[k])
      BY DEF Covers, n
    <3>3. Covers(todo, b) <=> \E i \in 1..n : asked[p[i]][1] <= b /\ b < endOf(asked[p[i]])
      <4> HIDE DEF endOf
      <4> QED BY <1>6 DEF Covers
    <3> HIDE DEF endOf
    <3> QED BY <1>5, <3>1, <3>2, <3>3
  <2>2. Apart(sections)
    BY <1>1 DEF Apart
  <2>3. ASSUME NEW i \in 1..Len(todo), NEW j \in 1..Len(todo), i < j
        PROVE  todo[i][1] <= todo[j][1] /\ endOf(todo[i]) <= endOf(todo[j])
    <3>1. i \in 1..n /\ j \in 1..n /\ p[i] \in 1..n /\ p[j] \in 1..n
      BY <1>5, <1>6
    <3>2. Lesser(todo[i], todo[j]) /\ todo[i] = asked[p[i]] /\ todo[j] = asked[p[j]]
      BY <1>4, <1>6, <2>3, <3>1
    <3>3. todo[i] \in Nat \X Nat /\ todo[j] \in Nat \X Nat
      BY <1>3, <3>1, <3>2
    <3>4. todo[i][1] < todo[j][1] => endOf(todo[i]) <= endOf(todo[j])
      <4>1. p[i] \in DOMAIN asked /\ p[j] \in DOMAIN asked
        <5>1. DOMAIN asked = 1..Len(asked)
          BY <1>2, LenProperties
        <5> QED BY <3>1, <5>1 DEF n
      <4> HIDE DEF endOf
      <4> QED BY <1>1, <3>2, <4>1 DEF NoneWithin
    <3>5. /\ todo[i][1] \in Nat /\ todo[i][2] \in Nat
          /\ todo[j][1] \in Nat /\ todo[j][2] \in Nat
      BY <3>3
    <3>6. endOf(todo[i]) = todo[i][1] + todo[i][2] /\ endOf(todo[j]) = todo[j][1] + todo[j][2]
      BY DEF endOf
    <3>7. \/ todo[i][1] < todo[j][1]
          \/ todo[i][1] = todo[j][1] /\ todo[i][2] <= todo[j][2]
      BY <3>2 DEF Lesser
    <3> QED BY <3>4, <3>5, <3>6, <3>7
  <2> QED BY <1>1, <2>1, <2>2, <2>3 DEF Joining
<1>9. Trimming /\ Trimmed /\ Underway /\ ChunksAreLaid /\ Unlaid
  BY <1>1 DEF Trimming, Trimmed, Underway, ChunksAreLaid, Unlaid
<1>10. Batched /\ HandedOver
  <2>1. Batched
    BY <1>1 DEF Batched
  <2>2. \A h \in Nat : ~ FoundIn(h, base)
    BY <1>1 DEF FoundIn
  <2>3. Len(<<>>) = 0 /\ <<>> \o <<>> = <<>> /\ 1..0 = {}
    OBVIOUS
  <2>4. Traced(<<>>, base)
    <3>1. <<>> \in [1..0 -> (1..base) \X content]
      BY <2>3
    <3> QED BY <2>3, <3>1 DEF Traced
  <2>5. Rising(<<>>)
    BY <2>3 DEF Rising
  <2> QED BY <1>1, <2>1, <2>2, <2>3, <2>4, <2>5 DEF HandedOver, Among
<1> QED
  BY <1>7, <1>8, <1>9, <1>10 DEF ScanInv

LEMMA TakeSectionInv == ASSUME ScanAssumption, ScanInv, TakeSection PROVE ScanInv'
<1> DEFINE s == Head(todo)
           n == Len(sections)
<1>1. /\ pc = "sort" /\ todo # <<>> /\ todo' = Tail(todo) /\ position' = endOf(s)
      /\ IF sections # <<>> /\ s[1] <= position
         THEN sections' = Append(Front(sections),
                <<Last(sections)[1], Max({endOf(s), position}) - Last(sections)[1]>>)
         ELSE sections' = Append(sections, s)
      /\ UNCHANGED <<input, pc, blocks, chunks, base, found, pending, reported, stopped>>
  BY DEF TakeSection
<1>2. /\ todo \in Seq(Nat \X Nat) /\ sections \in Seq(Nat \X Nat) /\ position \in Nat
      /\ n \in Nat
  BY DEF ScanInv, ScanTypes
<1>3. /\ s \in Nat \X Nat /\ s = todo[1] /\ Len(todo) \in Nat /\ Len(todo) >= 1
      /\ todo' \in Seq(Nat \X Nat) /\ Len(todo') = Len(todo) - 1
      /\ \A i \in 1..Len(todo') : todo'[i] = todo[i + 1] /\ i + 1 \in 1..Len(todo) /\ i + 1 > 1
  BY <1>1, <1>2, HeadTailProperties, EmptySeq
<1>4. /\ \A b \in Nat : Covers(asked, b) <=> Covers(sections, b) \/ Covers(todo, b)
      /\ Apart(sections)
      /\ \A i, j \in 1..Len(todo) : i < j =>
           todo[i][1] <= todo[j][1] /\ endOf(todo[i]) <= endOf(todo[j])
      /\ sections # <<>> =>
           /\ position = endOf(sections[n])
           /\ \A i \in 1..Len(todo) : sections[n][1] <= todo[i][1] /\ position <= endOf(todo[i])
  BY <1>1 DEF ScanInv, Joining
<1>5. \A i \in 1..Len(todo) : todo[i] \in Nat \X Nat
  BY <1>2, ElementOfSeq
<1>6. \A i \in 1..Len(todo') : s[1] <= todo'[i][1] /\ endOf(s) <= endOf(todo'[i])
  <2>1. 1 \in 1..Len(todo)
    BY <1>3
  <2> HIDE DEF s, endOf
  <2> QED BY <1>3, <1>4, <2>1
\* The section taken is joined to the last one, or comes behind it.
<1>7. /\ sections' \in Seq(Nat \X Nat) /\ sections' # <<>> /\ Apart(sections)'
      /\ endOf(sections'[Len(sections')]) = endOf(s) /\ sections'[Len(sections')][1] <= s[1]
      /\ \A b \in Nat : Covers(sections', b) <=> Covers(sections, b) \/ (s[1] <= b /\ b < endOf(s))
  <2>1. CASE sections # <<>> /\ s[1] <= position
    <3> DEFINE start == Last(sections)[1]
               q == Front(sections)
               t == <<start, Max({endOf(s), position}) - start>>
    <3>1. /\ q \in Seq(Nat \X Nat) /\ Last(sections) \in Nat \X Nat
          /\ Last(sections) = sections[n] /\ n \in 1..n
          /\ sections = Append(q, Last(sections))
          /\ Len(q) = n - 1
          /\ \A i \in 1..(n - 1) : q[i] = sections[i] /\ i \in 1..n
      BY <1>2, <2>1, LastIsSame
    <3>2. /\ position = endOf(Last(sections)) /\ start <= s[1] /\ position <= endOf(s) /\ start \in Nat
      <4>1. 1 \in 1..Len(todo)
        BY <1>3
      <4> HIDE DEF s, endOf
      <4> QED BY <1>3, <1>4, <2>1, <3>1, <4>1
    <3>3. endOf(s) \in Nat /\ s[1] \in Nat /\ s[1] <= endOf(s)
      BY <1>3 DEF endOf
    <3>4. Max({endOf(s), position}) = endOf(s)
      <4> HIDE DEF s
      <4>0. endOf(s) \in Int /\ position \in Int
        BY <1>2, <3>3
      <4>1. /\ Max({endOf(s), position}) \in {endOf(s), position}
            /\ endOf(s) <= Max({endOf(s), position})
        BY <4>0, GreaterOfTwo
      <4> QED BY <1>2, <3>2, <3>3, <4>1
    <3>5. t \in Nat \X Nat /\ t[1] = start /\ endOf(t) = endOf(s)
      <4>1. t = <<start, endOf(s) - start>>
        BY <3>4
      <4>2. endOf(s) - start \in Nat
        BY <3>2, <3>3
      <4>3. t[1] = start /\ t[2] = endOf(s) - start
        BY <4>1
      <4> HIDE DEF t, s, start
      <4>4. endOf(t) = t[1] + t[2]
        BY DEF endOf
      <4> QED BY <3>2, <3>3, <4>1, <4>2, <4>3, <4>4
    <3>6. sections' = Append(q, t)
      BY <1>1, <2>1
    <3> HIDE DEF t, q, s, start
    <3>7. sections' \in Seq(Nat \X Nat) /\ sections' # <<>> /\ Len(sections') = n
          /\ sections'[Len(sections')] = t
      BY <1>2, <3>1, <3>5, <3>6, AppendProperties
    <3>8. Apart(q) /\ \A i \in 1..Len(q) : endOf(q[i]) < t[1]
      <4>0. \A i \in 1..Len(q) : i \in 1..(n - 1) /\ i < n
        BY <1>2, <3>1
      <4>1. \A i \in 1..Len(q) : i \in 1..n /\ i < n /\ q[i] = sections[i]
        BY <3>1, <4>0
      <4>2. \A i \in 1..Len(q) : endOf(q[i]) < sections[n][1]
        <5> HIDE DEF endOf
        <5> QED BY <1>4, <3>1, <4>1 DEF Apart
      <4>3. Apart(q)
        <5> HIDE DEF endOf
        <5> QED BY <1>4, <4>1 DEF Apart
      <4> QED BY <3>1, <3>5, <4>2, <4>3 DEF start
    <3>9. Apart(sections')
      BY <3>1, <3>5, <3>6, <3>8, ApartAppend
    <3>10. ASSUME NEW b \in Nat
           PROVE  Covers(sections', b) <=> Covers(sections, b) \/ (s[1] <= b /\ b < endOf(s))
      <4>1. Covers(sections', b) <=> Covers(q, b) \/ (t[1] <= b /\ b < endOf(t))
        BY <3>1, <3>5, <3>6, CoversAppend
      <4>2. Covers(sections, b) <=> Covers(q, b) \/ (Last(sections)[1] <= b /\ b < endOf(Last(sections)))
        BY <3>1, CoversAppend
      <4>3. (t[1] <= b /\ b < endOf(t)) <=>
              (Last(sections)[1] <= b /\ b < endOf(Last(sections))) \/ (s[1] <= b /\ b < endOf(s))
        <5>1. t[1] = start /\ Last(sections)[1] = start /\ endOf(t) = endOf(s)
              /\ endOf(Last(sections)) = position
          BY <3>2, <3>5 DEF start
        <5> HIDE DEF endOf
        <5> QED BY <1>2, <2>1, <3>2, <3>3, <5>1 DEF s
      <4> QED BY <4>1, <4>2, <4>3
    <3>11. Apart(sections)'
      BY <3>9
    <3> QED BY <3>2, <3>5, <3>7, <3>10, <3>11
  <2>2. CASE ~ (sections # <<>> /\ s[1] <= position)
    <3>1. sections' = Append(sections, s)
      BY <1>1, <2>2
    <3>2. \A i \in 1..n : endOf(sections[i]) < s[1]
      <4> SUFFICES ASSUME NEW i \in 1..n PROVE endOf(sections[i]) < s[1]
        OBVIOUS
      <4>1. sections # <<>> /\ n \in 1..n
        BY <1>2
      <4>2. position = endOf(sections[n]) /\ position < s[1]
        BY <1>2, <1>3, <1>4, <2>2, <4>1
      <4>3. sections[i] \in Nat \X Nat /\ sections[n] \in Nat \X Nat
        BY <1>2, <4>1, ElementOfSeq
      <4>4. i # n => endOf(sections[i]) < sections[n][1]
        BY <1>2, <1>4, <4>1 DEF Apart
      <4>5. endOf(sections[i]) \in Nat /\ sections[n][1] <= endOf(sections[n]) /\ sections[n][1] \in Nat
            /\ endOf(sections[n]) \in Nat
        BY <4>3 DEF endOf
      <4> HIDE DEF s, endOf
      <4> QED BY <1>3, <4>2, <4>4, <4>5
    <3> HIDE DEF s
    <3>3. Apart(sections')
      BY <1>2, <1>3, <1>4, <3>1, <3>2, ApartAppend
    <3>4. sections' \in Seq(Nat \X Nat) /\ sections' # <<>> /\ sections'[Len(sections')] = s
      <4>1. /\ Append(sections, s) \in Seq(Nat \X Nat) /\ Append(sections, s) # <<>>
            /\ Len(Append(sections, s)) = Len(sections) + 1
            /\ Append(sections, s)[Len(sections) + 1] = s
        <5>1. sections \in Seq(Nat \X Nat) /\ s \in Nat \X Nat
          BY <1>2, <1>3
        <5>2. Append(sections, s) \in Seq(Nat \X Nat) /\ Append(sections, s) # <<>>
          BY <5>1, AppendProperties
        <5>3. Len(Append(sections, s)) = Len(sections) + 1
          BY <5>1, AppendProperties
        <5>4. Append(sections, s)[Len(sections) + 1] = s
          BY <5>1, AppendProperties
        <5> QED BY <5>2, <5>3, <5>4
      <4> QED BY <3>1, <4>1
    <3>5. \A b \in Nat : Covers(sections', b) <=> Covers(sections, b) \/ (s[1] <= b /\ b < endOf(s))
      BY <1>2, <1>3, <3>1, CoversAppend
    <3>6. Apart(sections)' /\ s[1] <= s[1]
      BY <1>3, <3>3
    <3> QED BY <3>4, <3>5, <3>6
  <2> QED BY <2>1, <2>2
<1>8. ScanTypes'
  <2>1. position' \in Nat
    BY <1>1, <1>3 DEF endOf
  <2> QED BY <1>1, <1>3, <1>7, <2>1 DEF ScanInv, ScanTypes, input
<1>9. Joining'
  <2>1. ASSUME NEW b \in Nat
        PROVE  Covers(asked', b) <=> Covers(sections', b) \/ Covers(todo', b)
    <3>1. Covers(todo, b) <=> (s[1] <= b /\ b < endOf(s)) \/ Covers(todo', b)
      BY <1>1, <1>2, CoversHead
    <3>2. asked' = asked
      BY <1>1 DEF input
    <3> HIDE DEF s
    <3> QED BY <1>4, <1>7, <3>1, <3>2
  <2>2. \A i, j \in 1..Len(todo') : i < j =>
           todo'[i][1] <= todo'[j][1] /\ endOf(todo'[i]) <= endOf(todo'[j])
    <3> SUFFICES ASSUME NEW i \in 1..Len(todo'), NEW j \in 1..Len(todo'), i < j
                 PROVE  todo'[i][1] <= todo'[j][1] /\ endOf(todo'[i]) <= endOf(todo'[j])
      OBVIOUS
    <3>1. i + 1 < j + 1 /\ todo'[i] = todo[i + 1] /\ todo'[j] = todo[j + 1]
          /\ i + 1 \in 1..Len(todo) /\ j + 1 \in 1..Len(todo)
      BY <1>3
    <3> HIDE DEF endOf
    <3> QED BY <1>4, <3>1
  <2>3. ASSUME NEW i \in 1..Len(todo')
        PROVE  /\ sections'[Len(sections')][1] <= todo'[i][1]
               /\ position' <= endOf(todo'[i])
    <3>1. s[1] <= todo'[i][1] /\ endOf(s) <= endOf(todo'[i])
      BY <1>6
    <3>2. todo'[i] \in Nat \X Nat
      BY <1>3, <1>5
    <3>3. sections'[Len(sections')] \in Nat \X Nat
      <4>1. Len(sections') \in 1..Len(sections')
        BY <1>7, EmptySeq
      <4> QED BY <1>7, <4>1, ElementOfSeq
    <3>4. todo'[i][1] \in Nat /\ sections'[Len(sections')][1] \in Nat /\ s[1] \in Nat
      BY <1>3, <3>2, <3>3
    <3> HIDE DEF s, endOf
    <3> QED BY <1>1, <1>7, <3>1, <3>4, SMTT(30)
  <2>4. position' = endOf(sections'[Len(sections')])
    BY <1>1, <1>7
  <2> QED BY <1>7, <2>1, <2>2, <2>3, <2>4 DEF Joining
<1>10. Trimming' /\ Trimmed' /\ Underway' /\ ChunksAreLaid' /\ Unlaid'
  BY <1>1 DEF ScanInv, Unlaid, Trimming, Trimmed, Underway, ChunksAreLaid
<1>11. Batched' /\ HandedOver'
  <2>1. base' = 0 /\ found' = <<>> /\ pending' = <<>> /\ reported' = <<>> /\ pc' = "sort" /\ stopped' = FALSE
    BY <1>1 DEF ScanInv, ScanTypes, Unlaid, Batched
  <2> QED BY <2>1, NothingYet
<1> QED
  BY <1>8, <1>9, <1>10, <1>11 DEF ScanInv

LEMMA StartTrimInv == ASSUME ScanAssumption, ScanInv, StartTrim PROVE ScanInv'
<1>1. /\ pc = "sort" /\ todo = <<>> /\ pc' = "trim" /\ todo' = sections /\ sections' = <<>>
      /\ UNCHANGED <<input, position, blocks, chunks, base, found, pending, reported, stopped>>
  BY DEF StartTrim
<1>2. Len(<<>>) = 0 /\ <<>> \in Seq(Nat \X Nat)
  OBVIOUS
<1>3. ScanTypes'
  BY <1>1, <1>2 DEF ScanInv, ScanTypes, input
<1>4. Trimming'
  <2>1. \A b \in Nat : ~ Covers(<<>>, b)
    BY <1>2 DEF Covers
  <2>2. Apart(<<>>)
    BY <1>2 DEF Apart
  <2>3. \A b \in Nat : Covers(asked, b) <=> Covers(sections, b)
    BY <1>1, <2>1 DEF ScanInv, Joining
  <2>4. Apart(sections)
    BY <1>1 DEF ScanInv, Joining
  <2>5. \A b \in Nat : Covers(asked', b) <=> Covers(sections', b) \/ Covers(todo', b)
    BY <1>1, <2>1, <2>3 DEF input
  <2>6. \A b \in Nat : ~ Covers(sections', b)
    BY <1>1, <2>1
  <2>7. Apart(sections') /\ Apart(todo')
    BY <1>1, <2>2, <2>4
  <2>8. \A i \in 1..Len(sections'), j \in 1..Len(todo') : endOf(sections'[i]) < todo'[j][1]
    BY <1>1, <1>2
  <2>9. Apart(sections)' /\ Apart(todo)'
    BY <2>7
  <2> HIDE DEF endOf
  <2> QED BY <2>5, <2>6, <2>8, <2>9 DEF Trimming
<1>5. Joining' /\ Trimmed' /\ Underway' /\ ChunksAreLaid' /\ Unlaid'
  BY <1>1 DEF ScanInv, Unlaid, Joining, Trimmed, Underway, ChunksAreLaid
<1>6. Batched' /\ HandedOver'
  <2>1. base' = 0 /\ found' = <<>> /\ pending' = <<>> /\ reported' = <<>> /\ pc' = "trim" /\ stopped' = FALSE
    BY <1>1 DEF ScanInv, ScanTypes, Unlaid, Batched
  <2> QED BY <2>1, NothingYet
<1> QED
  BY <1>3, <1>4, <1>5, <1>6 DEF ScanInv

LEMMA TrimInv == ASSUME ScanAssumption, ScanInv, Trim PROVE ScanInv'
<1> DEFINE s == Head(todo)
           from == Max({s[1], scanned.low})
           to == Min({endOf(s), scanned.high + 1})
           t == <<from, to - from>>
<1>1. /\ pc = "trim" /\ todo # <<>> /\ todo' = Tail(todo)
      /\ sections' = IF from < to THEN Append(sections, t) ELSE sections
      /\ UNCHANGED <<input, pc, position, blocks, chunks, base, found, pending, reported, stopped>>
  BY DEF Trim
<1>2. /\ todo \in Seq(Nat \X Nat) /\ sections \in Seq(Nat \X Nat)
      /\ scanned.low \in Nat /\ scanned.high \in Nat
  BY DEF ScanInv, ScanTypes, ScanAssumption
<1>3. /\ s \in Nat \X Nat /\ s = todo[1] /\ Len(todo) \in Nat /\ Len(todo) >= 1
      /\ todo' \in Seq(Nat \X Nat) /\ Len(todo') = Len(todo) - 1
      /\ \A i \in 1..Len(todo') : todo'[i] = todo[i + 1] /\ i + 1 \in 1..Len(todo) /\ i + 1 > 1
      /\ 1 \in 1..Len(todo)
  BY <1>1, <1>2, HeadTailProperties, EmptySeq
<1>4. /\ \A b \in Nat : InLayer(b) => (Covers(asked, b) <=> Covers(sections, b) \/ Covers(todo, b))
      /\ \A b \in Nat : Covers(sections, b) => InLayer(b)
      /\ Apart(sections) /\ Apart(todo)
      /\ \A i \in 1..Len(sections), j \in 1..Len(todo) : endOf(sections[i]) < todo[j][1]
  BY <1>1 DEF ScanInv, Trimming
<1>5. s[1] \in Nat /\ endOf(s) \in Nat
  BY <1>3 DEF endOf
<1> HIDE DEF s
<1>6. /\ from \in {s[1], scanned.low} /\ s[1] <= from /\ scanned.low <= from
      /\ to \in {endOf(s), scanned.high + 1} /\ to <= endOf(s) /\ to <= scanned.high + 1
  <2>1. s[1] \in Int /\ endOf(s) \in Int /\ scanned.low \in Int /\ scanned.high + 1 \in Int
    BY <1>2, <1>5
  <2> QED BY <2>1, GreaterOfTwo, LesserOfTwo
<1> HIDE DEF from, to
<1>7. from \in Nat /\ to \in Nat
  BY <1>2, <1>5, <1>6
<1>8. ASSUME from < to
      PROVE  t \in Nat \X Nat /\ t[1] = from /\ endOf(t) = to
  <2>1. to - from \in Nat
    BY <1>7, <1>8
  <2>2. t[1] = from /\ t[2] = to - from
    OBVIOUS
  <2>3. t \in Nat \X Nat
    BY <1>7, <2>1
  <2> HIDE DEF t
  <2>4. endOf(t) = t[1] + t[2]
    BY DEF endOf
  <2> QED BY <1>7, <2>2, <2>3, <2>4
<1> HIDE DEF t
<1>9. /\ sections' \in Seq(Nat \X Nat)
      /\ \A b \in Nat : Covers(sections', b) <=> Covers(sections, b) \/ (from <= b /\ b < to)
      /\ Apart(sections')
      /\ \A i \in 1..Len(sections') : \A j \in 1..Len(todo') : endOf(sections'[i]) < todo'[j][1]
  <2>1. \A i \in 1..Len(sections) : endOf(sections[i]) \in Nat
    <3>1. \A i \in 1..Len(sections) : sections[i] \in Nat \X Nat
      BY <1>2, ElementOfSeq
    <3> QED BY <3>1 DEF endOf
  <2>2. \A i \in 1..Len(sections) : \A j \in 1..Len(todo') : endOf(sections[i]) < todo'[j][1]
    <3> HIDE DEF endOf
    <3> QED BY <1>3, <1>4
  <2>3. CASE from < to
    <3>1. sections' = Append(sections, t)
      BY <1>1, <2>3
    <3>2. t \in Nat \X Nat /\ t[1] = from /\ endOf(t) = to
      BY <1>8, <2>3
    <3>3. \A i \in 1..Len(sections) : endOf(sections[i]) < t[1]
      <4>1. \A i \in 1..Len(sections) : endOf(sections[i]) < s[1]
        <5> HIDE DEF endOf
        <5> QED BY <1>3, <1>4
      <4> HIDE DEF endOf
      <4> QED BY <1>5, <1>6, <1>7, <2>1, <3>2, <4>1
    <3>4. Apart(sections')
      BY <1>2, <1>4, <3>1, <3>2, <3>3, ApartAppend
    <3>5. ASSUME NEW b \in Nat
          PROVE  Covers(sections', b) <=> Covers(sections, b) \/ (from <= b /\ b < to)
      <4>1. Covers(Append(sections, t), b) <=> Covers(sections, b) \/ (t[1] <= b /\ b < endOf(t))
        BY <1>2, <3>2, CoversAppend
      <4> HIDE DEF endOf
      <4> QED BY <3>1, <3>2, <4>1
    <3>6. /\ sections' \in Seq(Nat \X Nat) /\ Len(sections') = Len(sections) + 1
          /\ sections'[Len(sections) + 1] = t
          /\ \A i \in 1..Len(sections) : sections'[i] = sections[i]
      <4>1. Append(sections, t) \in Seq(Nat \X Nat)
        BY <1>2, <3>2, AppendProperties
      <4>2. Len(Append(sections, t)) = Len(sections) + 1
        BY <1>2, <3>2, AppendProperties
      <4>3. /\ Append(sections, t)[Len(sections) + 1] = t
            /\ \A i \in 1..Len(sections) : Append(sections, t)[i] = sections[i]
        BY <1>2, <3>2, AppendProperties
      <4> QED BY <3>1, <4>1, <4>2, <4>3
    <3>7. ASSUME NEW i \in 1..Len(sections'), NEW j \in 1..Len(todo')
          PROVE  endOf(sections'[i]) < todo'[j][1]
      <4>1. CASE i \in 1..Len(sections)
        <5>1. sections'[i] = sections[i]
          BY <3>6, <4>1
        <5> HIDE DEF endOf
        <5> QED BY <2>2, <4>1, <5>1
      <4>2. CASE i = Len(sections) + 1
        <5>1. endOf(sections'[i]) = to
          BY <3>2, <3>6, <4>2
        <5>2. endOf(todo[1]) < todo[j + 1][1] /\ todo'[j] = todo[j + 1]
          <6> HIDE DEF endOf
          <6> QED BY <1>3, <1>4 DEF Apart
        <5>3. todo[j + 1][1] \in Nat
          <6>1. todo[j + 1] \in Nat \X Nat
            BY <1>2, <1>3, ElementOfSeq
          <6> QED BY <6>1
        <5>4. endOf(s) < todo'[j][1] /\ todo'[j][1] \in Nat
          BY <1>3, <5>2, <5>3
        <5> DEFINE e == endOf(sections'[i])
                   f == endOf(s)
        <5> HIDE DEF e, f
        <5>5. e = to /\ f < todo'[j][1] /\ to <= f /\ f \in Nat
          BY <1>5, <1>6, <5>1, <5>4 DEF e, f
        <5>6. e < todo'[j][1]
          BY <1>7, <5>4, <5>5
        <5> QED BY <5>6 DEF e
      <4>3. i \in 1..Len(sections) \/ i = Len(sections) + 1
        <5>1. Len(sections) \in Nat
          BY <1>2
        <5> QED BY <3>6, <5>1
      <4> QED BY <4>1, <4>2, <4>3
    <3> QED BY <3>4, <3>5, <3>6, <3>7
  <2>4. CASE ~ (from < to)
    <3>1. sections' = sections
      BY <1>1, <2>4
    <3>2. \A b \in Nat : ~ (from <= b /\ b < to)
      BY <1>7, <2>4
    <3> HIDE DEF endOf
    <3> QED BY <1>2, <1>4, <2>2, <3>1, <3>2
  <2> QED BY <2>3, <2>4
<1>10. ScanTypes'
  BY <1>1, <1>3, <1>9 DEF ScanInv, ScanTypes, input
<1>11. Trimming'
  <2>1. scanned' = scanned /\ asked' = asked
    BY <1>1 DEF input
  <2>2. \A b \in Nat : InLayer(b)' <=> InLayer(b)
    BY <2>1 DEF InLayer
  <2>3. \A b \in Nat : InLayer(b) => ((s[1] <= b /\ b < endOf(s)) <=> (from <= b /\ b < to))
    <3> HIDE DEF endOf
    <3> QED BY <1>2, <1>5, <1>6, <1>7 DEF InLayer
  <2>4. \A b \in Nat : (from <= b /\ b < to) => InLayer(b)
    BY <1>2, <1>6, <1>7 DEF InLayer
  <2>5. \A b \in Nat : Covers(todo, b) <=> (s[1] <= b /\ b < endOf(s)) \/ Covers(todo', b)
    <3>1. \A b \in Nat : Covers(todo, b) <=> (Head(todo)[1] <= b /\ b < endOf(Head(todo))) \/ Covers(todo', b)
      BY <1>1, <1>2, CoversHead
    <3> HIDE DEF endOf
    <3> QED BY <3>1 DEF s
  <2> HIDE DEF endOf
  <2>6. \A b \in Nat : InLayer(b)' =>
          (Covers(asked', b) <=> Covers(sections', b) \/ Covers(todo', b))
    BY <1>4, <1>9, <2>1, <2>2, <2>3, <2>5
  <2>7. \A b \in Nat : Covers(sections', b) => InLayer(b)'
    BY <1>4, <1>9, <2>2, <2>4
  <2>8. Apart(todo)'
    <3> SUFFICES ASSUME NEW i \in 1..Len(todo'), NEW j \in 1..Len(todo'), i < j
                 PROVE  endOf(todo'[i]) < todo'[j][1]
      BY DEF Apart
    <3>1. i + 1 < j + 1 /\ todo'[i] = todo[i + 1] /\ todo'[j] = todo[j + 1]
          /\ i + 1 \in 1..Len(todo) /\ j + 1 \in 1..Len(todo)
      BY <1>3
    <3> QED BY <1>4, <3>1 DEF Apart
  <2>9. Apart(sections)'
    BY <1>9
  <2> QED BY <1>9, <2>6, <2>7, <2>8, <2>9 DEF Trimming
<1>12. Joining' /\ Trimmed' /\ Underway' /\ ChunksAreLaid' /\ Unlaid'
  BY <1>1 DEF ScanInv, Unlaid, Joining, Trimmed, Underway, ChunksAreLaid
<1>13. Batched' /\ HandedOver'
  <2>1. base' = 0 /\ found' = <<>> /\ pending' = <<>> /\ reported' = <<>> /\ pc' = "trim" /\ stopped' = FALSE
    BY <1>1 DEF ScanInv, ScanTypes, Unlaid, Batched
  <2> QED BY <2>1, NothingYet
<1> QED
  BY <1>10, <1>11, <1>12, <1>13 DEF ScanInv

LEMMA StartLayInv == ASSUME ScanAssumption, ScanInv, StartLay PROVE ScanInv'
<1>1. /\ pc = "trim" /\ todo = <<>> /\ pc' = "lay" /\ todo' = sections
      /\ UNCHANGED <<input, sections, position, blocks, chunks, base, found, pending, reported, stopped>>
  BY DEF StartLay
<1>2. Len(<<>>) = 0 /\ blocks = <<>> /\ chunks = <<>>
  BY <1>1 DEF ScanInv, Unlaid
<1>3. scanned.runs \in Seq([offset : Nat, mapped : Nat, size : Nat]) /\ Len(scanned.runs) \in Nat
      /\ sections \in Seq(Nat \X Nat) /\ Len(sections) \in Nat
  BY DEF ScanInv, ScanTypes, ScanAssumption
<1>4. ScanTypes'
  BY <1>1 DEF ScanInv, ScanTypes, input
<1>5. Trimmed'
  <2>1. \A b \in Nat : ~ Covers(todo, b)
    BY <1>1, <1>2 DEF Covers
  <2>2. \A b \in Nat : InLayer(b)' <=> InLayer(b)
    BY <1>1 DEF InLayer, input
  <2>3. /\ \A b \in Nat : InLayer(b) => (Covers(asked, b) <=> Covers(sections, b) \/ Covers(todo, b))
        /\ \A b \in Nat : Covers(sections, b) => InLayer(b)
        /\ Apart(sections)
    BY <1>1 DEF ScanInv, Trimming
  <2>4. \A b \in Nat : Covers(sections', b) <=> Covers(asked', b) /\ InLayer(b)'
    BY <1>1, <2>1, <2>2, <2>3 DEF input
  <2>5. Apart(sections)'
    BY <1>1, <2>3 DEF Apart
  <2> QED BY <2>4, <2>5 DEF Trimmed
<1>6. Mapped' = 0
  BY <1>1, <1>3 DEF Mapped
<1>7. Underway'
  <2>1. \A i \in 1..Len(todo') : todo'[i] = sections'[Mapped' + i]
    BY <1>1, <1>3, <1>6
  <2>2. Len(todo') <= Len(sections') /\ blocks' = <<>> /\ Len(blocks') <= Len(scanned.runs)'
    BY <1>1, <1>2, <1>3 DEF input
  <2> QED BY <1>1, <1>2, <2>1, <2>2 DEF Underway
<1>8. ChunksAreLaid'
  <2>1. \A i, j : ~ Laid(i, j)'
    BY <1>6 DEF Laid
  <2> QED BY <1>1, <1>2, <2>1 DEF ChunksAreLaid
<1>9. Joining' /\ Trimming' /\ Unlaid'
  BY <1>1 DEF ScanInv, Unlaid, Joining, Trimming
<1>10. Batched' /\ HandedOver'
  <2>1. base' = 0 /\ found' = <<>> /\ pending' = <<>> /\ reported' = <<>> /\ pc' = "lay" /\ stopped' = FALSE
    BY <1>1 DEF ScanInv, ScanTypes, Unlaid, Batched
  <2> QED BY <2>1, NothingYet
<1> QED
  BY <1>4, <1>5, <1>7, <1>8, <1>9, <1>10 DEF ScanInv

-----------------------------------------------------------------------------
(* Chunks are laid.                                                        *)

\* A block is the part of its run that is inside its section.
LEMMA BlocksAre ==
    ASSUME ScanAssumption, ScanTypes, NEW s \in Nat \X Nat
    PROVE  /\ Blocks(s) \in Seq(Block) /\ Len(Blocks(s)) = Len(scanned.runs)
           /\ \A j \in 1..Len(scanned.runs) :
                LET b == Blocks(s)[j]
                    r == scanned.runs[j]
                IN /\ b \in Block /\ r \in [offset : Nat, mapped : Nat, size : Nat]
                   /\ r.offset <= b.offset /\ s[1] <= b.offset
                   /\ b.offset \in {r.offset, s[1]}
                   /\ b.offset + b.size <= r.offset + r.size /\ b.offset + b.size <= endOf(s)
                   /\ b.offset + b.size \in {r.offset + r.size, endOf(s)}
                   /\ b.mapped = r.mapped + b.offset - r.offset
<1> DEFINE n == Len(scanned.runs)
           run(j) == scanned.runs[j]
           from(r) == Max({r.offset, s[1]})
           to(r) == Min({r.offset + r.size, endOf(s)})
           block(r) == [offset |-> from(r), size |-> to(r) - from(r),
                        mapped |-> r.mapped + from(r) - r.offset]
<1>1. n \in Nat /\ \A j \in 1..n : run(j) \in [offset : Nat, mapped : Nat, size : Nat]
  <2> DEFINE R == [offset : Nat, mapped : Nat, size : Nat]
  <2>1. scanned.runs \in Seq(R)
    BY DEF ScanTypes, ScanAssumption
  <2> HIDE DEF R
  <2>2. n \in Nat /\ \A j \in 1..n : run(j) \in R
    BY <2>1, ElementOfSeq, LenProperties
  <2> QED BY <2>2 DEF R
<1>2. s[1] \in Nat /\ endOf(s) \in Nat
  BY DEF endOf
<1>3. ASSUME NEW r \in [offset : Nat, mapped : Nat, size : Nat]
      PROVE  /\ block(r) \in Block
             /\ r.offset <= block(r).offset /\ s[1] <= block(r).offset
             /\ block(r).offset \in {r.offset, s[1]}
             /\ block(r).offset + block(r).size <= r.offset + r.size
             /\ block(r).offset + block(r).size <= endOf(s)
             /\ block(r).offset + block(r).size \in {r.offset + r.size, endOf(s)}
             /\ block(r).mapped = r.mapped + block(r).offset - r.offset
  <2>0. r.offset \in Nat /\ r.size \in Nat /\ r.mapped \in Nat
    OBVIOUS
  <2>1. /\ from(r) \in {r.offset, s[1]} /\ r.offset <= from(r) /\ s[1] <= from(r)
        /\ to(r) \in {r.offset + r.size, endOf(s)}
        /\ to(r) <= r.offset + r.size /\ to(r) <= endOf(s)
    <3> HIDE DEF endOf
    <3>1. r.offset \in Int /\ s[1] \in Int /\ r.offset + r.size \in Int /\ endOf(s) \in Int
      BY <1>2, <2>0
    <3>2. from(r) \in {r.offset, s[1]} /\ r.offset <= from(r) /\ s[1] <= from(r)
      BY <3>1, GreaterOfTwo
    <3>3. to(r) \in {r.offset + r.size, endOf(s)} /\ to(r) <= r.offset + r.size /\ to(r) <= endOf(s)
      BY <3>1, LesserOfTwo
    <3> QED BY <3>2, <3>3
  <2>2. /\ block(r).offset = from(r) /\ block(r).size = to(r) - from(r)
        /\ block(r).mapped = r.mapped + from(r) - r.offset
        /\ block(r) = [offset |-> from(r), size |-> to(r) - from(r),
                       mapped |-> r.mapped + from(r) - r.offset]
    OBVIOUS
  <2> HIDE DEF from, to, block, endOf
  <2>3. from(r) \in Nat /\ to(r) \in Nat /\ from(r) + (to(r) - from(r)) = to(r)
        /\ r.mapped + from(r) - r.offset \in Nat /\ to(r) - from(r) \in Int
    BY <1>2, <2>0, <2>1
  <2>4. block(r) \in Block
    BY <2>2, <2>3 DEF Block
  <2> QED BY <2>1, <2>2, <2>3, <2>4
<1>4. Blocks(s) = [j \in 1..n |-> block(run(j))]
  BY DEF Blocks
<1> HIDE DEF n, block
<1>5. Blocks(s) \in Seq(Block) /\ Len(Blocks(s)) = n /\ \A j \in 1..n : Blocks(s)[j] = block(run(j))
  <2>1. Blocks(s) \in [1..n -> Block]
    <3>1. \A j \in 1..n : block(run(j)) \in Block
      <4> HIDE DEF run
      <4> QED BY <1>1, <1>3
    <3> HIDE DEF run
    <3> QED BY <1>4, <3>1
  <2> QED BY <1>1, <1>4, <2>1
<1>6. ASSUME NEW j \in 1..n
      PROVE  LET b == Blocks(s)[j]
                 r == scanned.runs[j]
             IN /\ b \in Block /\ r \in [offset : Nat, mapped : Nat, size : Nat]
                /\ r.offset <= b.offset /\ s[1] <= b.offset
                /\ b.offset \in {r.offset, s[1]}
                /\ b.offset + b.size <= r.offset + r.size /\ b.offset + b.size <= endOf(s)
                /\ b.offset + b.size \in {r.offset + r.size, endOf(s)}
                /\ b.mapped = r.mapped + b.offset - r.offset
  <2>1. run(j) \in [offset : Nat, mapped : Nat, size : Nat] /\ Blocks(s)[j] = block(run(j))
    BY <1>1, <1>5
  <2> HIDE DEF endOf
  <2> QED BY <1>3, <2>1
<1> QED
  BY <1>5, <1>6 DEF n

LEMMA LaySectionInv == ASSUME ScanAssumption, ScanInv, LaySection PROVE ScanInv'
<1> DEFINE s == Head(todo)
           n == Len(scanned.runs)
<1>1. /\ pc = "lay" /\ blocks = <<>> /\ todo # <<>>
      /\ blocks' = Blocks(s) /\ todo' = Tail(todo)
      /\ UNCHANGED <<input, pc, sections, position, chunks, base, found, pending, reported, stopped>>
  BY DEF LaySection
<1>2. /\ todo \in Seq(Nat \X Nat) /\ sections \in Seq(Nat \X Nat) /\ Len(sections) \in Nat
      /\ scanned.runs \in Seq([offset : Nat, mapped : Nat, size : Nat]) /\ n \in Nat
      /\ ScanTypes
  BY DEF ScanInv, ScanTypes, ScanAssumption
<1>3. /\ s \in Nat \X Nat /\ s = todo[1] /\ Len(todo) \in Nat /\ Len(todo) >= 1
      /\ todo' \in Seq(Nat \X Nat) /\ Len(todo') = Len(todo) - 1
      /\ \A i \in 1..Len(todo') : todo'[i] = todo[i + 1] /\ i + 1 \in 1..Len(todo)
      /\ 1 \in 1..Len(todo)
  BY <1>1, <1>2, HeadTailProperties, EmptySeq
<1>4. blocks' \in Seq(Block) /\ Len(blocks') = n
  BY <1>1, <1>2, <1>3, BlocksAre
<1> HIDE DEF s
<1>5. /\ Len(todo) <= Len(sections) /\ \A i \in 1..Len(todo) : todo[i] = sections[Mapped + i]
  BY <1>1 DEF ScanInv, Underway
<1>6. scanned' = scanned /\ sections' = sections /\ chunks' = chunks /\ asked' = asked
  BY <1>1 DEF input
<1>7. Mapped \in Nat /\ Mapped' = Mapped + 1 /\ CutOfIt = n /\ CutOfIt' = 0 /\ Len(scanned.runs') = n
  <2>1. Len(<<>>) = 0
    OBVIOUS
  <2> QED BY <1>1, <1>2, <1>3, <1>4, <1>5, <1>6, <2>1 DEF Mapped, CutOfIt
<1>8. ScanTypes'
  BY <1>1, <1>3, <1>4 DEF ScanInv, ScanTypes, input
<1>9. Trimmed'
  BY <1>1, <1>6 DEF ScanInv, Trimmed, Apart, InLayer, Covers
<1>10. \A i, j : Piece(i, j)' = Piece(i, j)
  BY <1>6 DEF Piece, Blocks
<1>11. Underway'
  <2>1. Len(todo') <= Len(sections')
    BY <1>2, <1>3, <1>5, <1>6
  <2>2. ASSUME NEW i \in 1..Len(todo') PROVE todo'[i] = sections'[Mapped' + i]
    <3>0. i \in Int
      OBVIOUS
    <3>1. todo'[i] = todo[i + 1] /\ i + 1 \in 1..Len(todo) /\ i \in Int
      BY <1>3, <3>0
    <3>2. Mapped' + i = Mapped + (i + 1)
      BY <1>7, <3>1
    <3> QED BY <1>5, <1>6, <3>1, <3>2
  <2>3. ASSUME NEW j \in 1..Len(blocks') PROVE blocks'[j] = Piece(Mapped, CutOfIt + j)'
    <3>1. s = sections[Mapped + 1]
      BY <1>3, <1>5
    <3>2. Piece(Mapped, CutOfIt + j)' = Blocks(sections[Mapped + 1])[j]
      <4>1. (CutOfIt + j)' = j
        BY <1>4, <1>7
      <4>2. Piece(Mapped, CutOfIt + j)' = (Blocks(sections[Mapped])[CutOfIt + j])'
        BY DEF Piece
      <4>3. \A q : Blocks(q)' = Blocks(q)
        BY <1>6 DEF Blocks
      <4> QED BY <1>6, <1>7, <4>1, <4>2, <4>3 DEF Blocks
    <3> QED BY <1>1, <3>1, <3>2
  <2>4. Len(blocks') <= Len(scanned.runs)' /\ Mapped' >= 1 /\ pc' = "lay"
    BY <1>1, <1>2, <1>4, <1>7
  <2> QED BY <2>1, <2>2, <2>3, <2>4 DEF Underway
<1>12. ChunksAreLaid'
  <2>1. \A i, j : Laid(i, j)' <=> Laid(i, j)
    <3> SUFFICES ASSUME NEW i, NEW j PROVE Laid(i, j)' <=> Laid(i, j)
      OBVIOUS
    <3>1. Laid(i, j) <=> i \in 1..Mapped /\ j \in 1..n
      BY <1>2, <1>7 DEF Laid
    <3>2. Laid(i, j)' <=> i \in 1..(Mapped + 1) /\ j \in 1..n /\ (i = Mapped + 1 => j <= 0)
      BY <1>7 DEF Laid
    <3>3. i \in 1..(Mapped + 1) <=> i \in 1..Mapped \/ i = Mapped + 1
      BY <1>7
    <3>4. j \in 1..n => ~ (j <= 0)
      OBVIOUS
    <3>5. Mapped + 1 \notin 1..Mapped
      BY <1>7
    <3> QED BY <3>1, <3>2, <3>3, <3>4, <3>5
  <2>2. ChunksAreLaid
    BY DEF ScanInv
  <2> HIDE DEF n
  <2> QED BY <1>1, <1>6, <1>10, <2>1, <2>2 DEF ChunksAreLaid
<1>13. Joining' /\ Trimming' /\ Unlaid'
  BY <1>1 DEF ScanInv, Unlaid, Joining, Trimming
<1>14. Batched' /\ HandedOver'
  <2>1. base' = 0 /\ found' = <<>> /\ pending' = <<>> /\ reported' = <<>> /\ pc' = "lay" /\ stopped' = FALSE
    BY <1>1 DEF ScanInv, ScanTypes, Unlaid, Batched
  <2> QED BY <2>1, NothingYet
<1> QED
  BY <1>8, <1>9, <1>11, <1>12, <1>13, <1>14 DEF ScanInv

\* One block before another: of an earlier section, or of an earlier run of the same.
LEMMA PiecesInOrder ==
    ASSUME ScanAssumption, ScanTypes, Apart(sections),
           NEW i \in 1..Len(sections), NEW j \in 1..Len(scanned.runs),
           NEW k \in 1..Len(sections), NEW l \in 1..Len(scanned.runs),
           i < k \/ (i = k /\ j < l)
    PROVE  /\ Piece(i, j) \in Block /\ Piece(k, l) \in Block
           /\ Piece(i, j).offset + Piece(i, j).size <= Piece(k, l).offset
<1> DEFINE b == Piece(i, j)
           c == Piece(k, l)
           r == scanned.runs[j]
           q == scanned.runs[l]
<1>1. sections[i] \in Nat \X Nat /\ sections[k] \in Nat \X Nat
  BY ElementOfSeq DEF ScanTypes
<1>2. /\ b \in Block /\ r \in [offset : Nat, mapped : Nat, size : Nat]
      /\ b.offset + b.size <= r.offset + r.size /\ b.offset + b.size <= endOf(sections[i])
  <2> HIDE DEF endOf
  <2> QED BY <1>1, BlocksAre DEF Piece
<1>3. /\ c \in Block /\ q \in [offset : Nat, mapped : Nat, size : Nat]
      /\ q.offset <= c.offset /\ sections[k][1] <= c.offset
  BY <1>1, BlocksAre DEF Piece
<1> HIDE DEF b, c
<1>4. b.offset + b.size \in Int /\ c.offset \in Int
  BY <1>2, <1>3 DEF Block
<1>5. CASE i < k
  <2>1. endOf(sections[i]) < sections[k][1]
    BY <1>5 DEF Apart
  <2>2. sections[k][1] \in Nat /\ endOf(sections[i]) \in Nat
    BY <1>1 DEF endOf
  <2> DEFINE e == endOf(sections[i])
  <2>3. b.offset + b.size <= e /\ e < sections[k][1] /\ e \in Nat
    BY <1>2, <2>1, <2>2
  <2> HIDE DEF e
  <2>4. b.offset + b.size <= c.offset
    BY <1>3, <1>4, <2>2, <2>3
  <2> QED BY <1>2, <1>3, <2>4 DEF b, c
<1>6. CASE i = k /\ j < l
  <2>1. r.offset + r.size <= q.offset
    <3>1. scanned \in LayersScanned /\ scanned.runs \in Seq([offset : Nat, mapped : Nat, size : Nat])
      BY DEF ScanTypes, ScanAssumption
    <3>2. DOMAIN scanned.runs = 1..Len(scanned.runs)
      BY <3>1, LenProperties
    <3> QED BY <1>6, <3>1, <3>2 DEF ScanAssumption
  <2>2. r.offset + r.size \in Int /\ q.offset \in Int
    BY <1>2, <1>3, SMTT(30)
  <2> HIDE DEF r, q
  <2>3. b.offset + b.size <= c.offset
    BY <1>2, <1>3, <1>4, <2>1, <2>2
  <2> QED BY <1>2, <1>3, <2>3 DEF b, c
<1> QED
  BY <1>5, <1>6

LEMMA LayBlockInv == ASSUME ScanAssumption, ScanInv, LayBlock PROVE ScanInv'
<1> DEFINE b == Head(blocks)
           q == ChunksOf(b)
           n == Len(scanned.runs)
           m == Len(chunks)
<1>1. /\ pc = "lay" /\ blocks # <<>> /\ chunks' = chunks \o q /\ blocks' = Tail(blocks)
      /\ UNCHANGED <<input, pc, todo, sections, position, base, found, pending, reported, stopped>>
  BY DEF LayBlock
<1>2. /\ sections \in Seq(Nat \X Nat) /\ Len(sections) \in Nat /\ Len(todo) \in Nat
      /\ scanned.runs \in Seq([offset : Nat, mapped : Nat, size : Nat]) /\ n \in Nat
      /\ blocks \in Seq(Block) /\ chunks \in Seq(Chunk) /\ m \in Nat
      /\ ScanTypes
  BY DEF ScanInv, ScanTypes, ScanAssumption
<1>3. /\ b \in Block /\ b = blocks[1] /\ Len(blocks) \in Nat /\ Len(blocks) >= 1
      /\ blocks' \in Seq(Block) /\ Len(blocks') = Len(blocks) - 1
      /\ \A j \in 1..Len(blocks') : blocks'[j] = blocks[j + 1] /\ j + 1 \in 1..Len(blocks)
      /\ 1 \in 1..Len(blocks)
  BY <1>1, <1>2, HeadTailProperties, EmptySeq
<1> HIDE DEF b
<1>4. /\ Len(todo) <= Len(sections) /\ \A i \in 1..Len(todo) : todo[i] = sections[Mapped + i]
      /\ Len(blocks) <= n /\ Mapped >= 1
      /\ \A j \in 1..Len(blocks) : blocks[j] = Piece(Mapped, CutOfIt + j)
  BY <1>1 DEF ScanInv, Underway
<1>5. /\ scanned' = scanned /\ sections' = sections /\ asked' = asked /\ todo' = todo /\ pc' = "lay"
  BY <1>1 DEF input
<1>6. /\ Mapped \in 1..Len(sections) /\ Mapped' = Mapped
      /\ CutOfIt \in Nat /\ CutOfIt + 1 \in 1..n /\ CutOfIt' = CutOfIt + 1
  BY <1>2, <1>3, <1>4, <1>5 DEF Mapped, CutOfIt
<1>7. b = Piece(Mapped, CutOfIt + 1)
  BY <1>3, <1>4
<1>8. /\ q \in Seq(Chunk)
      /\ \A k \in 1..Len(q) : IsChunkOf(q[k], b)
      /\ \A d \in Nat : Within(b, d) => \E k \in 1..Len(q) : Fresh(q[k], d)
      /\ \A k, l \in 1..Len(q) : k < l => Behind(q[k], q[l])
  BY <1>3, ChunksOfBlock
<1> HIDE DEF q
<1>9. /\ chunks' \in Seq(Chunk) /\ Len(chunks') = m + Len(q) /\ Len(q) \in Nat
      /\ \A k \in 1..m : k \in 1..Len(chunks') /\ chunks'[k] = chunks[k]
      /\ \A k \in 1..Len(q) : m + k \in 1..Len(chunks') /\ chunks'[m + k] = q[k]
      /\ \A k \in 1..Len(chunks') : k \in 1..m \/ (k - m \in 1..Len(q) /\ chunks'[k] = q[k - m] /\ k > m)
  <2>0. Len(q) \in Nat
    BY <1>8
  <2>1. chunks \o q \in Seq(Chunk) /\ Len(chunks \o q) = m + Len(q)
    BY <1>2, <1>8, ConcatProperties
  <2>2. \A k \in 1..(m + Len(q)) : (chunks \o q)[k] = IF k <= m THEN chunks[k] ELSE q[k - m]
    BY <1>2, <1>8, ConcatProperties
  <2>3. \A k \in 1..m : k \in 1..(m + Len(q)) /\ k <= m
    BY <1>2, <2>0
  <2>4. \A k \in 1..Len(q) : m + k \in 1..(m + Len(q)) /\ ~ (m + k <= m) /\ (m + k) - m = k
    BY <1>2, <2>0
  <2>5. \A k \in 1..(m + Len(q)) : k \in 1..m \/ (k - m \in 1..Len(q) /\ ~ (k <= m) /\ k > m)
    BY <1>2, <2>0
  <2> HIDE DEF m
  <2> QED BY <1>1, <2>0, <2>1, <2>2, <2>3, <2>4, <2>5
<1>10. ScanTypes'
  <2>1. base' \in 0..Len(chunks')
    BY <1>1, <1>2, <1>9 DEF ScanTypes
  <2> QED BY <1>1, <1>2, <1>3, <1>9, <2>1 DEF ScanTypes, input
<1>11. Trimmed'
  BY <1>1, <1>5 DEF ScanInv, Trimmed, Apart, InLayer, Covers
<1>12. \A i, j : Piece(i, j)' = Piece(i, j)
  BY <1>5 DEF Piece, Blocks
<1>13. Underway'
  <2>1. \A i \in 1..Len(todo') : todo'[i] = sections'[Mapped' + i]
    BY <1>4, <1>5, <1>6
  <2>2. ASSUME NEW j \in 1..Len(blocks') PROVE blocks'[j] = Piece(Mapped, CutOfIt + j)'
    <3>0. j \in Int
      OBVIOUS
    <3>1. blocks'[j] = blocks[j + 1] /\ j + 1 \in 1..Len(blocks)
      BY <1>3
    <3>2. blocks[j + 1] = Piece(Mapped, CutOfIt + (j + 1)) /\ CutOfIt + (j + 1) = CutOfIt' + j
      <4>1. blocks[j + 1] = Piece(Mapped, CutOfIt + (j + 1))
        BY <1>4, <3>1
      <4>2. CutOfIt + (j + 1) = CutOfIt' + j
        BY <1>6, <3>0
      <4> QED BY <4>1, <4>2
    <3>3. Piece(Mapped, CutOfIt + j)' = Blocks(sections'[Mapped'])[CutOfIt' + j]
      BY <1>5 DEF Piece, Blocks
    <3>4. Piece(Mapped, CutOfIt + (j + 1)) = Blocks(sections[Mapped])[CutOfIt' + j]
      BY <3>2 DEF Piece
    <3> QED BY <1>5, <1>6, <3>1, <3>2, <3>3, <3>4
  <2>3. Len(todo') <= Len(sections') /\ Len(blocks') <= Len(scanned.runs)' /\ Mapped' >= 1 /\ pc' = "lay"
    BY <1>2, <1>3, <1>4, <1>5, <1>6
  <2> QED BY <2>1, <2>2, <2>3 DEF Underway
<1>14. ChunksAreLaid'
  <2> DEFINE old == 1..Mapped
  <2>1. ASSUME NEW i \in 1..Len(sections), NEW j \in 1..n
        PROVE  /\ Laid(i, j)' <=> Laid(i, j) \/ (i = Mapped /\ j = CutOfIt + 1)
               /\ Laid(i, j) => i < Mapped \/ (i = Mapped /\ j < CutOfIt + 1)
    <3>1. Laid(i, j) <=> i \in 1..Mapped /\ j \in 1..n /\ (i = Mapped => j <= CutOfIt)
      BY DEF Laid
    <3>2. Laid(i, j)' <=> i \in 1..Mapped /\ j \in 1..n /\ (i = Mapped => j <= CutOfIt + 1)
      BY <1>5, <1>6 DEF Laid
    <3> QED BY <1>2, <1>6, <3>1, <3>2, SMTT(30)
  <2>2. /\ \A k \in 1..m : \E i \in 1..Len(sections), j \in 1..n :
             Laid(i, j) /\ IsChunkOf(chunks[k], Piece(i, j))
        /\ \A i \in 1..Len(sections), j \in 1..n : Laid(i, j) =>
             \A d \in Nat : Within(Piece(i, j), d) =>
               \E k \in 1..m : IsChunkOf(chunks[k], Piece(i, j)) /\ Fresh(chunks[k], d)
        /\ \A k, l \in 1..m : k < l => Behind(chunks[k], chunks[l])
    BY <1>1 DEF ScanInv, ChunksAreLaid
  <2>3. Mapped \in 1..Len(sections) /\ CutOfIt + 1 \in 1..n
    BY <1>6
  <2>4. ASSUME NEW k \in 1..Len(chunks')
        PROVE  \E i \in 1..Len(sections), j \in 1..n :
                 Laid(i, j)' /\ IsChunkOf(chunks'[k], Piece(i, j))
    <3>1. CASE k \in 1..m
      <4>1. PICK i \in 1..Len(sections), j \in 1..n : Laid(i, j) /\ IsChunkOf(chunks[k], Piece(i, j))
        BY <2>2, <3>1
      <4> QED BY <1>9, <2>1, <3>1, <4>1
    <3>2. CASE k - m \in 1..Len(q) /\ chunks'[k] = q[k - m]
      <4>1. IsChunkOf(chunks'[k], Piece(Mapped, CutOfIt + 1))
        BY <1>7, <1>8, <3>2
      <4> QED BY <2>1, <2>3, <4>1
    <3> QED BY <1>9, <3>1, <3>2
  <2>5. ASSUME NEW i \in 1..Len(sections), NEW j \in 1..n, Laid(i, j)',
               NEW d \in Nat, Within(Piece(i, j), d)
        PROVE  \E k \in 1..Len(chunks') : IsChunkOf(chunks'[k], Piece(i, j)) /\ Fresh(chunks'[k], d)
    <3>1. CASE Laid(i, j)
      <4>1. PICK k \in 1..m : IsChunkOf(chunks[k], Piece(i, j)) /\ Fresh(chunks[k], d)
        BY <2>2, <2>5, <3>1
      <4> QED BY <1>9, <4>1
    <3>2. CASE i = Mapped /\ j = CutOfIt + 1
      <4>1. PICK k \in 1..Len(q) : Fresh(q[k], d)
        BY <1>7, <1>8, <2>5, <3>2
      <4>2. IsChunkOf(q[k], Piece(i, j)) /\ m + k \in 1..Len(chunks') /\ chunks'[m + k] = q[k]
        BY <1>7, <1>8, <1>9, <3>2
      <4> QED BY <4>1, <4>2
    <3> QED BY <2>1, <2>5, <3>1, <3>2
  <2>6. ASSUME NEW k \in 1..Len(chunks'), NEW l \in 1..Len(chunks'), k < l
        PROVE  Behind(chunks'[k], chunks'[l])
    <3>0. k \in Int /\ l \in Int
      BY <1>2, <1>9
    <3>1. CASE k \in 1..m /\ l \in 1..m
      BY <1>9, <2>2, <2>6, <3>1
    <3>2. CASE k \in 1..m /\ l \notin 1..m
      <4>1. PICK i \in 1..Len(sections), j \in 1..n : Laid(i, j) /\ IsChunkOf(chunks[k], Piece(i, j))
        BY <2>2, <3>2
      <4>2. chunks'[k] = chunks[k] /\ l - m \in 1..Len(q) /\ chunks'[l] = q[l - m] /\ IsChunkOf(chunks'[l], b)
        BY <1>8, <1>9, <3>2
      <4>3. Apart(sections)
        BY <1>1 DEF ScanInv, Trimmed
      <4>4. i < Mapped \/ (i = Mapped /\ j < CutOfIt + 1)
        BY <2>1, <4>1
      <4>5. /\ Piece(i, j) \in Block /\ b \in Block
            /\ Piece(i, j).offset + Piece(i, j).size <= b.offset
        BY <1>2, <1>7, <2>3, <4>3, <4>4, PiecesInOrder
      <4>6. chunks[k] \in Chunk /\ q[l - m] \in Chunk
        BY <1>2, <1>8, <3>2, <4>2, ElementOfSeq
      <4> DEFINE c == chunks'[k]
                 e == chunks'[l]
                 p == Piece(i, j)
      <4>7. c \in Chunk /\ e \in Chunk /\ p \in Block /\ IsChunkOf(c, p) /\ IsChunkOf(e, b)
            /\ p.offset + p.size <= b.offset
        BY <4>1, <4>2, <4>5, <4>6
      <4> HIDE DEF c, e, p
      <4>8. c.offset + c.want <= p.offset + p.size /\ b.offset <= e.offset
        BY <4>7 DEF IsChunkOf
      <4>9. c.offset + c.want <= e.offset
        <5>1. c.offset \in Int /\ c.want \in Int /\ e.offset \in Int
          BY <4>7 DEF Chunk
        <5>2. p.offset \in Int /\ p.size \in Int /\ b.offset \in Int
          BY <1>3, <4>7 DEF Block
        <5> DEFINE x == c.offset + c.want
                   y == p.offset + p.size
        <5>3. x \in Int /\ y \in Int
          BY <5>1, <5>2, SMTT(30)
        <5>0. x <= y /\ y <= b.offset
          BY <4>7, <4>8
        <5> HIDE DEF x, y
        <5>4. x <= e.offset
          BY <4>8, <5>0, <5>1, <5>2, <5>3
        <5> QED BY <5>4 DEF x
      <4> QED BY <4>9 DEF Behind, c, e
    <3>3. CASE k \notin 1..m /\ l \notin 1..m
      <4>1. /\ k - m \in 1..Len(q) /\ chunks'[k] = q[k - m]
            /\ l - m \in 1..Len(q) /\ chunks'[l] = q[l - m] /\ k - m < l - m
        <5>1. k - m \in 1..Len(q) /\ chunks'[k] = q[k - m] /\ l - m \in 1..Len(q) /\ chunks'[l] = q[l - m]
          BY <1>9, <3>3
        <5>2. k - m < l - m
          <6> HIDE DEF m
          <6> QED BY <1>2, <2>6, <3>0
        <5> QED BY <5>1, <5>2
      <4> QED BY <1>8, <4>1
    <3>4. CASE k \notin 1..m /\ l \in 1..m
      BY <1>2, <1>9, <2>6, <3>0, <3>4
    <3> QED BY <3>1, <3>2, <3>3, <3>4
  <2> HIDE DEF n
  <2> QED BY <1>5, <1>12, <2>4, <2>5, <2>6 DEF ChunksAreLaid, n
<1>15. Joining' /\ Trimming' /\ Unlaid'
  BY <1>1 DEF ScanInv, Unlaid, Joining, Trimming
<1>16. Batched' /\ HandedOver'
  <2>1. base' = 0 /\ found' = <<>> /\ pending' = <<>> /\ reported' = <<>> /\ pc' = "lay" /\ stopped' = FALSE
    BY <1>1 DEF ScanInv, ScanTypes, Unlaid, Batched
  <2> QED BY <2>1, NothingYet
<1> QED
  BY <1>10, <1>11, <1>13, <1>14, <1>15, <1>16 DEF ScanInv

LEMMA StartScanInv == ASSUME ScanAssumption, ScanInv, StartScan PROVE ScanInv'
<1>1. /\ pc = "lay" /\ blocks = <<>> /\ todo = <<>>
      /\ pc' = IF chunks = <<>> THEN "done" ELSE "examine"
      /\ UNCHANGED <<input, todo, sections, position, blocks, chunks, base, found, pending, reported, stopped>>
  BY DEF StartScan
<1>2. ScanTypes'
  BY <1>1 DEF ScanInv, ScanTypes, input
<1>3. Trimmed'
  BY <1>1 DEF ScanInv, Trimmed, Apart, InLayer, Covers, input
<1>4. /\ scanned' = scanned /\ sections' = sections /\ chunks' = chunks /\ todo' = todo /\ blocks' = blocks
      /\ pc' \notin {"sort", "trim", "lay"}
      /\ Mapped' = Mapped /\ CutOfIt' = CutOfIt
  BY <1>1 DEF input, Mapped, CutOfIt
<1>5. \A i, j : Piece(i, j)' = Piece(i, j)
  BY <1>4 DEF Piece, Blocks
<1>6. \A i, j : Laid(i, j)' <=> Laid(i, j)
  BY <1>4 DEF Laid
<1>7. Underway'
  <2>1. Underway
    BY DEF ScanInv
  <2>2. Len(<<>>) = 0
    OBVIOUS
  <2> QED BY <1>1, <1>4, <2>1, <2>2 DEF Underway
<1>8. ChunksAreLaid'
  <2>1. ChunksAreLaid
    BY DEF ScanInv
  <2> QED BY <1>1, <1>4, <1>5, <1>6, <2>1 DEF ChunksAreLaid
<1>9. Joining' /\ Trimming' /\ Unlaid'
  BY <1>4 DEF Unlaid, Joining, Trimming
<1>10. base' = 0 /\ found' = <<>> /\ pending' = <<>> /\ reported' = <<>> /\ stopped' = FALSE
       /\ chunks \in Seq(Chunk)
  BY <1>1 DEF ScanInv, ScanTypes, Unlaid, Batched
<1>11. Batched'
  <2>1. Len(chunks) \in Nat /\ (chunks = <<>> <=> Len(chunks) = 0)
    BY <1>10, EmptySeq
  <2>2. pc' \in {"done", "examine"} /\ (pc' = "done" <=> chunks = <<>>) /\ DOMAIN <<>> = {}
    BY <1>1
  <2> QED BY <1>4, <1>10, <2>1, <2>2 DEF Batched
<1>12. HandedOver'
  BY <1>10, NothingHandedOver
<1> QED
  BY <1>2, <1>3, <1>7, <1>8, <1>9, <1>11, <1>12 DEF ScanInv

-----------------------------------------------------------------------------
(* Chunks are examined and what was found is handed over.                  *)

\* What was laid stays.
LEMMA LayoutStays ==
    ASSUME ScanInv, pc \notin {"sort", "trim", "lay"}, pc' \in {"examine", "report", "done"},
           UNCHANGED <<input, todo, sections, position, blocks, chunks>>
    PROVE  Joining' /\ Trimming' /\ Trimmed' /\ Underway' /\ ChunksAreLaid' /\ Unlaid'
<1>1. Trimmed'
  BY DEF ScanInv, Trimmed, Apart, InLayer, Covers, input
<1>2. /\ scanned' = scanned /\ sections' = sections /\ chunks' = chunks /\ todo' = todo /\ blocks' = blocks
      /\ pc' \notin {"sort", "trim", "lay"}
      /\ Mapped' = Mapped /\ CutOfIt' = CutOfIt
  BY DEF input, Mapped, CutOfIt
<1>3. \A i, j : Piece(i, j)' = Piece(i, j)
  BY <1>2 DEF Piece, Blocks
<1>4. \A i, j : Laid(i, j)' <=> Laid(i, j)
  BY <1>2 DEF Laid
<1>5. Underway'
  <2>1. Underway
    BY DEF ScanInv
  <2> QED BY <1>2, <2>1 DEF Underway
<1>6. ChunksAreLaid'
  <2>1. ChunksAreLaid
    BY DEF ScanInv
  <2> QED BY <1>2, <1>3, <1>4, <2>1 DEF ChunksAreLaid
<1>7. Joining' /\ Trimming' /\ Unlaid'
  BY <1>2 DEF Unlaid, Joining, Trimming
<1> QED
  BY <1>1, <1>5, <1>6, <1>7

\* And with it what there is to find.
LEMMA HitsStay ==
    ASSUME UNCHANGED <<input, chunks>>
    PROVE  /\ \A c : Hits(c)' = Hits(c)
           /\ \A h, k, o : StandsFor(h, k, o)' <=> StandsFor(h, k, o)
           /\ \A h, n : FoundIn(h, n)' <=> FoundIn(h, n)
           /\ Keeps' <=> Keeps
<1>1. content' = content /\ kind' = kind /\ chunks' = chunks
  BY DEF input
<1>2. Keeps' <=> Keeps
  BY <1>1 DEF Keeps
<1>3. \A c : Seen(c)' = Seen(c)
  BY <1>1, <1>2 DEF Seen
<1>4. \A a, b : Before(a, b)' <=> Before(a, b)
  BY <1>1 DEF Before
<1>5. \A S : InOrder(S)' = InOrder(S)
  BY <1>1 DEF InOrder, Before
<1>6. \A c : Hits(c)' = Hits(c)
  <2> SUFFICES ASSUME NEW c PROVE Hits(c)' = Hits(c)
    OBVIOUS
  <2>1. InOrder(Seen(c))' = InOrder(Seen(c))
    BY <1>1, <1>3, <1>5 DEF InOrder, Before
  <2> QED BY <2>1 DEF Hits
<1>7. \A h, k, o : StandsFor(h, k, o)' <=> StandsFor(h, k, o)
  BY <1>1, <1>3 DEF StandsFor
<1>8. \A h, n : FoundIn(h, n)' <=> FoundIn(h, n)
  BY <1>1, <1>6 DEF FoundIn
<1> QED
  BY <1>2, <1>6, <1>7, <1>8

LEMMA ExamineInv ==
    ASSUME ScanAssumption, ScanInv, NEW i \in Batch, Examine(i) PROVE ScanInv'
<1>1. /\ pc = "examine" /\ i \in Batch \ DOMAIN found
      /\ found' = [j \in DOMAIN found \cup {i} |-> IF j = i THEN Hits(chunks[i]) ELSE found[j]]
      /\ UNCHANGED <<input, pc, todo, sections, position, blocks, chunks, base, pending, reported, stopped>>
  BY DEF Examine
<1>2. ScanTypes'
  BY <1>1 DEF ScanInv, ScanTypes, input
<1>3. Joining' /\ Trimming' /\ Trimmed' /\ Underway' /\ ChunksAreLaid' /\ Unlaid'
  BY <1>1, LayoutStays
<1>4. /\ \A c : Hits(c)' = Hits(c)
      /\ \A h, k, o : StandsFor(h, k, o)' <=> StandsFor(h, k, o)
      /\ \A h, n : FoundIn(h, n)' <=> FoundIn(h, n)
      /\ Keeps' <=> Keeps
  BY <1>1, HitsStay
<1>5. Batched'
  <2>1. Batched
    BY DEF ScanInv
  <2>2. Batch' = Batch
    BY <1>1 DEF Batch
  <2>3. DOMAIN found' = DOMAIN found \cup {i}
    BY <1>1
  <2>4. DOMAIN found' \subseteq Batch'
    BY <1>1, <2>1, <2>2, <2>3 DEF Batched
  <2>5. \A k \in DOMAIN found' : found'[k] = Hits(chunks[k])
    BY <1>1, <2>1 DEF Batched
  <2>6. (\A k \in DOMAIN found : found[k] = Hits(chunks[k]))'
    BY <1>1, <1>4, <2>5
  <2>7. /\ pc' = "examine" /\ base' = base /\ chunks' = chunks /\ pending' = pending /\ stopped' = stopped
    BY <1>1
  <2>8. pc' = "examine" /\ base' < Len(chunks') /\ pending' = <<>> /\ ~ stopped'
    BY <1>1, <2>1, <2>7 DEF Batched
  <2> QED BY <2>4, <2>6, <2>8 DEF Batched
<1>6. HandedOver'
  <2>1. HandedOver
    BY DEF ScanInv
  <2>2. reported' = reported /\ pending' = pending /\ base' = base /\ kind' = kind /\ content' = content
    BY <1>1 DEF input
  <2>3. Traced(reported \o pending, base)' <=> Traced(reported \o pending, base)
    BY <1>4, <2>2 DEF Traced
  <2> QED BY <1>4, <2>1, <2>2, <2>3 DEF HandedOver, Among, Rising
<1> QED
  BY <1>2, <1>3, <1>5, <1>6 DEF ScanInv

LEMMA NextBatchInv == ASSUME ScanAssumption, ScanInv, NextBatch PROVE ScanInv'
<1>1. /\ pc = "report" /\ pending = <<>>
      /\ pc' = IF base = Len(chunks) THEN "done" ELSE "examine"
      /\ UNCHANGED <<input, todo, sections, position, blocks, chunks, base, found, pending, reported, stopped>>
  BY DEF NextBatch
<1>2. ScanTypes'
  BY <1>1 DEF ScanInv, ScanTypes, input
<1>3. Joining' /\ Trimming' /\ Trimmed' /\ Underway' /\ ChunksAreLaid' /\ Unlaid'
  BY <1>1, LayoutStays
<1>4. /\ \A c : Hits(c)' = Hits(c)
      /\ \A h, k, o : StandsFor(h, k, o)' <=> StandsFor(h, k, o)
      /\ \A h, n : FoundIn(h, n)' <=> FoundIn(h, n)
      /\ Keeps' <=> Keeps
  BY <1>1, HitsStay
<1>5. Batched'
  <2>1. Batched /\ found = <<>>
    BY <1>1 DEF ScanInv, Batched
  <2>2. DOMAIN <<>> = {}
    OBVIOUS
  <2>3. base \in 0..Len(chunks) /\ Len(chunks) \in Nat
    BY DEF ScanInv, ScanTypes
  <2>4. /\ base' = base /\ chunks' = chunks /\ pending' = <<>> /\ stopped' = stopped /\ found' = <<>>
    BY <1>1, <2>1
  <2>5. ~ stopped
    BY <1>1, <2>1 DEF Batched
  <2> QED BY <1>1, <2>2, <2>3, <2>4, <2>5 DEF Batched
<1>6. HandedOver'
  <2>1. HandedOver
    BY DEF ScanInv
  <2>2. reported' = reported /\ pending' = pending /\ base' = base /\ kind' = kind /\ content' = content
    BY <1>1 DEF input
  <2>3. Traced(reported \o pending, base)' <=> Traced(reported \o pending, base)
    BY <1>4, <2>2 DEF Traced
  <2> QED BY <1>4, <2>1, <2>2, <2>3 DEF HandedOver, Among, Rising
<1> QED
  BY <1>2, <1>3, <1>5, <1>6 DEF ScanInv

\* The hit handed over is the first of those that were still to be.
LEMMA RejoinIs ==
    ASSUME NEW p \in Seq(Nat), NEW q \in Seq(Nat), q # <<>>
    PROVE  Append(p, Head(q)) \o Tail(q) = p \o q
<1> DEFINE m == Len(p)
           a == Append(p, Head(q))
           t == Tail(q)
<1>1. /\ Len(q) \in Nat /\ Len(q) >= 1 /\ Head(q) = q[1] /\ Head(q) \in Nat
      /\ t \in Seq(Nat) /\ Len(t) = Len(q) - 1
      /\ \A i \in 1..Len(t) : t[i] = q[i + 1]
  BY HeadTailProperties, EmptySeq
<1>2. a \in Seq(Nat)
  BY <1>1, AppendProperties
<1>3. Len(a) = m + 1 /\ m \in Nat
  BY <1>1, AppendProperties, LenProperties
<1>4. /\ \A i \in 1..m : a[i] = p[i]
      /\ a[m + 1] = q[1]
  BY <1>1, AppendProperties
<1> HIDE DEF a, t
<1>5. a \o t \in Seq(Nat) /\ Len(a \o t) = Len(a) + Len(t)
      /\ \A i \in 1..(Len(a) + Len(t)) : (a \o t)[i] = IF i <= Len(a) THEN a[i] ELSE t[i - Len(a)]
  BY <1>1, <1>2, ConcatProperties
<1>6. p \o q \in Seq(Nat) /\ Len(p \o q) = m + Len(q)
      /\ \A i \in 1..(m + Len(q)) : (p \o q)[i] = IF i <= m THEN p[i] ELSE q[i - m]
  BY ConcatProperties
<1>7. Len(a) + Len(t) = m + Len(q)
  BY <1>1, <1>3
<1>8. ASSUME NEW i \in 1..(m + Len(q)) PROVE (a \o t)[i] = (p \o q)[i]
  <2>0. i \in Int
    OBVIOUS
  <2>1. CASE i <= m
    <3>1. i \in 1..m /\ i <= Len(a)
      BY <1>3, <2>1
    <3> QED BY <1>4, <1>5, <1>6, <1>7, <2>1, <3>1
  <2>2. CASE i = m + 1
    <3>1. i <= Len(a) /\ ~ (i <= m) /\ i - m = 1
      BY <1>3, <2>2
    <3> QED BY <1>4, <1>5, <1>6, <1>7, <2>2, <3>1
  <2>3. CASE i > m + 1
    <3>1. ~ (i <= m) /\ ~ (i <= Len(a)) /\ i - Len(a) \in 1..Len(t) /\ (i - Len(a)) + 1 = i - m
      BY <1>1, <1>3, <2>3
    <3>2. t[i - Len(a)] = q[i - m]
      BY <1>1, <3>1
    <3> QED BY <1>5, <1>6, <1>7, <3>1, <3>2
  <2> HIDE DEF m
  <2>4. i <= m \/ i = m + 1 \/ i > m + 1
    BY <1>3, <2>0
  <2> QED BY <2>1, <2>2, <2>3, <2>4
<1>9. a \o t = p \o q
  BY <1>5, <1>6, <1>7, <1>8, SeqEqual
<1> QED
  BY <1>9 DEF a, t

LEMMA ReportInv == ASSUME ScanAssumption, ScanInv, Report PROVE ScanInv'
<1> DEFINE h == Head(pending)
<1>1. /\ pc = "report" /\ pending # <<>> /\ pending' = Tail(pending)
      /\ UNCHANGED <<input, todo, sections, position, blocks, chunks, base, found>>
      /\ \/ pc' = pc /\ stopped' = stopped
         \/ stopped' = TRUE /\ pc' = "done"
      /\ \/ ~Keeps /\ h \in ToSet(reported) /\ reported' = reported
         \/ (Keeps \/ h \notin ToSet(reported)) /\ reported' = Append(reported, h)
  BY DEF Report
<1>2. /\ pending \in Seq(Nat) /\ reported \in Seq(Nat) /\ Len(reported) \in Nat
  BY DEF ScanInv, ScanTypes
<1>3. /\ h \in Nat /\ h = pending[1] /\ Len(pending) \in Nat /\ Len(pending) >= 1
      /\ pending' \in Seq(Nat) /\ Len(pending') = Len(pending) - 1
      /\ \A i \in 1..Len(pending') : pending'[i] = pending[i + 1] /\ i + 1 \in 1..Len(pending)
      /\ 1 \in 1..Len(pending)
  BY <1>1, <1>2, HeadTailProperties, EmptySeq
<1>4. h \in ToSet(reported) <=> Among(reported, h)
  <2>1. DOMAIN reported = 1..Len(reported)
    BY <1>2, LenProperties
  <2> HIDE DEF h
  <2> QED BY <2>1 DEF ToSet, Among
<1>5. \A g : Among(pending, g) <=> g = h \/ Among(pending', g)
  <2> HIDE DEF h
  <2> SUFFICES ASSUME NEW g PROVE Among(pending, g) <=> g = h \/ Among(pending', g)
    OBVIOUS
  <2>1. ASSUME NEW i \in 1..Len(pending), pending[i] = g, i # 1
        PROVE  \E k \in 1..Len(pending') : pending'[k] = g
    <3>1. i - 1 \in 1..Len(pending') /\ (i - 1) + 1 = i
      BY <1>3, <2>1
    <3> QED BY <1>3, <2>1, <3>1
  <2> QED BY <1>3, <2>1 DEF Among
<1> HIDE DEF h
<1>6. reported' \in Seq(Nat)
  <2>1. Append(reported, h) \in Seq(Nat)
    BY <1>2, <1>3, AppendProperties
  <2> QED BY <1>1, <1>2, <2>1
<1>7. ScanTypes'
  BY <1>1, <1>3, <1>6 DEF ScanInv, ScanTypes, input
<1>8. Joining' /\ Trimming' /\ Trimmed' /\ Underway' /\ ChunksAreLaid' /\ Unlaid'
  BY <1>1, LayoutStays
<1>9. /\ \A c : Hits(c)' = Hits(c)
      /\ \A g, k, o : StandsFor(g, k, o)' <=> StandsFor(g, k, o)
      /\ \A g, n : FoundIn(g, n)' <=> FoundIn(g, n)
      /\ Keeps' <=> Keeps
  BY <1>1, HitsStay
<1>10. Batched'
  <2>1. Batched /\ found = <<>>
    BY <1>1 DEF ScanInv, Batched
  <2>2. DOMAIN <<>> = {}
    OBVIOUS
  <2>3. ~ stopped
    BY <1>1, <2>1 DEF Batched
  <2>4. (pc' = "report" /\ stopped' = stopped) \/ (pc' = "done" /\ stopped' = TRUE)
    BY <1>1, <2>1
  <2>5. found' = <<>>
    BY <1>1, <2>1
  <2> QED BY <2>2, <2>3, <2>4, <2>5 DEF Batched
<1>11. /\ \A g \in Nat : Among(reported, g) \/ Among(pending, g) <=> FoundIn(g, base)
       /\ ~Keeps => \A i, j \in 1..Len(reported) : reported[i] = reported[j] => i = j
       /\ Keeps => Traced(reported \o pending, base)
       /\ kind = "bytes" => Rising(reported \o pending)
  BY DEF ScanInv, HandedOver
<1>12. base' = base /\ kind' = kind /\ content' = content
  BY <1>1 DEF input
<1>13. CASE ~Keeps /\ h \in ToSet(reported) /\ reported' = reported
  <2>1. kind # "bytes"
    <3>1. SUFFICES ASSUME kind = "bytes" PROVE FALSE
      OBVIOUS
    <3>2. PICK i \in 1..Len(reported) : reported[i] = h
      BY <1>4, <1>13 DEF Among
    <3>3. /\ Len(reported \o pending) = Len(reported) + Len(pending)
          /\ \A k \in 1..(Len(reported) + Len(pending)) :
               (reported \o pending)[k] = IF k <= Len(reported) THEN reported[k] ELSE pending[k - Len(reported)]
      BY <1>2, ConcatProperties
    <3>4. /\ i \in 1..(Len(reported) + Len(pending)) /\ i <= Len(reported)
          /\ Len(reported) + 1 \in 1..(Len(reported) + Len(pending)) /\ ~ (Len(reported) + 1 <= Len(reported))
          /\ (Len(reported) + 1) - Len(reported) = 1 /\ i < Len(reported) + 1
      BY <1>2, <1>3
    <3>5. (reported \o pending)[i] = h /\ (reported \o pending)[Len(reported) + 1] = h
      BY <1>3, <3>2, <3>3, <3>4
    <3>6. h < h
      BY <1>11, <3>1, <3>3, <3>4, <3>5 DEF Rising
    <3> QED BY <1>3, <3>6
  <2>2. \A g \in Nat : Among(reported', g) \/ Among(pending', g) <=> FoundIn(g, base)
    BY <1>4, <1>5, <1>11, <1>13
  <2>3. HandedOver'
    BY <1>9, <1>11, <1>12, <1>13, <2>1, <2>2 DEF HandedOver
  <2> QED BY <1>7, <1>8, <1>10, <2>3 DEF ScanInv
<1>14. CASE (Keeps \/ h \notin ToSet(reported)) /\ reported' = Append(reported, h)
  <2>1. reported' \o pending' = reported \o pending
    BY <1>1, <1>2, <1>14, RejoinIs DEF h
  <2>2. Len(reported') = Len(reported) + 1
    BY <1>2, <1>3, <1>14, AppendProperties
  <2>3. /\ \A i \in 1..Len(reported) : reported'[i] = reported[i]
        /\ reported'[Len(reported) + 1] = h
    BY <1>2, <1>3, <1>14, AppendProperties
  <2>4. \A i \in 1..Len(reported') : i \in 1..Len(reported) \/ i = Len(reported) + 1
    BY <1>2, <2>2
  <2>5. Len(reported) + 1 \in 1..Len(reported') /\ \A i \in 1..Len(reported) : i \in 1..Len(reported')
    BY <1>2, <2>2
  <2>6. \A g : Among(reported', g) <=> Among(reported, g) \/ g = h
    BY <2>3, <2>4, <2>5 DEF Among
  <2>7. \A g \in Nat : Among(reported', g) \/ Among(pending', g) <=> FoundIn(g, base)
    BY <1>5, <1>11, <2>6
  <2>8. ~Keeps => \A i, j \in 1..Len(reported') : reported'[i] = reported'[j] => i = j
    <3> SUFFICES ASSUME ~Keeps, NEW i \in 1..Len(reported'), NEW j \in 1..Len(reported'),
                        reported'[i] = reported'[j]
                 PROVE  i = j
      OBVIOUS
    <3>1. \A k \in 1..Len(reported) : reported[k] # h
      BY <1>4, <1>14 DEF Among
    <3> QED BY <1>11, <2>3, <2>4, <3>1
  <2>9. ASSUME Keeps PROVE Traced(reported \o pending, base)'
    <3> DEFINE q == reported \o pending
    <3>1. PICK w \in [1..Len(q) -> (1..base) \X content] :
            /\ \A i \in 1..Len(q) : StandsFor(q[i], w[i][1], w[i][2])
            /\ \A i, j \in 1..Len(q) : w[i] = w[j] => i = j
      BY <1>11, <2>9 DEF Traced
    <3>2. q' = q
      BY <2>1
    <3> HIDE DEF q
    <3>3. \A i \in 1..Len(q) : StandsFor(q[i], w[i][1], w[i][2])'
      BY <1>9, <3>1, <3>2
    <3>4. Traced(q, base)'
      BY <1>12, <3>1, <3>2, <3>3 DEF Traced
    <3> QED BY <3>4 DEF q
  <2>10. Rising(reported \o pending)' <=> Rising(reported \o pending)
    BY <2>1 DEF Rising
  <2>11. HandedOver'
    BY <1>9, <1>11, <1>12, <2>7, <2>8, <2>9, <2>10 DEF HandedOver
  <2> QED BY <1>7, <1>8, <1>10, <2>11 DEF ScanInv
<1> QED
  BY <1>1, <1>13, <1>14

\* A batch is the next chunks, and has at least one.
LEMMA BatchIs ==
    ASSUME ScanAssumption, ScanTypes, base < Len(chunks)
    PROVE  /\ Cardinality(Batch) \in Nat \ {0}
           /\ base + Cardinality(Batch) <= Len(chunks)
           /\ Batch = (base + 1)..(base + Cardinality(Batch))
<1> DEFINE m == Min({base + BatchSize, Len(chunks)})
<1>1. base \in Nat /\ Len(chunks) \in Nat /\ BatchSize \in Nat \ {0} /\ base + BatchSize \in Int
  BY DEF ScanTypes, ScanAssumption
<1>2. m \in {base + BatchSize, Len(chunks)} /\ m <= Len(chunks)
  BY <1>1, LesserOfTwo
<1>3. Batch = (base + 1)..m
  BY DEF Batch
<1> HIDE DEF m
<1>4. m \in Int /\ base + 1 \in Int /\ m >= base + 1
  BY <1>1, <1>2
<1>5. Cardinality((base + 1)..m) = m - (base + 1) + 1
  BY <1>4, FS_Interval
<1> QED
  BY <1>1, <1>2, <1>3, <1>4, <1>5

\* A scanner that reports only what begins in a chunk's fresh part reports what is in one
\* chunk before what is in the next.
LEMMA HitsOfChunksRise ==
    ASSUME ScanAssumption, ScanInv, pc \notin {"sort", "trim"}, ~Keeps,
           NEW k \in 1..Len(chunks), NEW l \in 1..Len(chunks), k < l,
           NEW g, NEW h, NEW o, NEW p, StandsFor(g, k, o), StandsFor(h, l, p)
    PROVE  g < h
<1> DEFINE c == chunks[k]
           e == chunks[l]
<1>1. c \in Chunk /\ e \in Chunk
  BY ElementOfSeq DEF ScanInv, ScanTypes
<1>2. Behind(c, e)
  BY DEF ScanInv, ChunksAreLaid
<1>3. /\ o \in content /\ c.at <= o.at /\ o.at + o.len <= c.at + c.want /\ o.at - c.at < ChunkSize
      /\ g = c.offset + (o.at - c.at)
  BY DEF StandsFor, Seen
<1>4. /\ p \in content /\ e.at <= p.at /\ h = e.offset + (p.at - e.at)
  BY DEF StandsFor, Seen
<1> HIDE DEF c, e
<1>5. /\ \A q \in content : q.at \in Nat /\ q.len \in Nat \ {0}
      /\ ChunkSize \in Nat
  <2>1. content \subseteq [at : Nat, len : 1..(Overlap + 1)] /\ Overlap \in Nat /\ ChunkSize \in Nat
    BY DEF ScanInv, ScanTypes, ScanAssumption
  <2>2. \A q \in [at : Nat, len : 1..(Overlap + 1)] : q.at \in Nat /\ q.len \in Nat \ {0}
    BY <2>1
  <2> QED BY <2>1, <2>2
<1>6. /\ c.at \in Nat /\ c.offset \in Nat /\ c.want \in Nat /\ e.at \in Nat /\ e.offset \in Nat
  BY <1>1 DEF Chunk
<1>7. o.at \in Nat /\ o.len \in Nat /\ o.len # 0 /\ p.at \in Nat
  BY <1>3, <1>4, <1>5
<1> DEFINE co == c.offset
           ca == c.at
           cw == c.want
           eo == e.offset
           ea == e.at
           oa == o.at
           ol == o.len
           pa == p.at
<1>8. /\ co \in Nat /\ ca \in Nat /\ cw \in Nat /\ eo \in Nat /\ ea \in Nat
      /\ oa \in Nat /\ ol \in Nat /\ ol # 0 /\ pa \in Nat /\ ChunkSize \in Nat
      /\ oa + ol <= ca + cw /\ oa - ca < ChunkSize /\ g = co + (oa - ca)
      /\ ea <= pa /\ h = eo + (pa - ea)
      /\ co + cw <= eo \/ co + ChunkSize <= eo
  BY <1>2, <1>3, <1>4, <1>5, <1>6, <1>7 DEF Behind
<1> HIDE DEF co, ca, cw, eo, ea, oa, ol, pa
<1> QED
  BY <1>8

LEMMA CollectInv == ASSUME ScanAssumption, ScanInv, Collect PROVE ScanInv'
<1> DEFINE n == Cardinality(Batch)
           ss == [i \in 1..n |-> found[base + i]]
           q == FlattenSeq(ss)
<1>1. /\ pc = "examine" /\ DOMAIN found = Batch
      /\ pending' = q /\ found' = <<>> /\ base' = base + n /\ pc' = "report"
      /\ UNCHANGED <<input, todo, sections, position, blocks, chunks, reported, stopped>>
  BY DEF Collect
<1>2. ScanTypes /\ base < Len(chunks) /\ pending = <<>> /\ ~ stopped
      /\ \A k \in DOMAIN found : found[k] = Hits(chunks[k])
  BY <1>1 DEF ScanInv, Batched
<1>3. n \in Nat \ {0} /\ base + n <= Len(chunks) /\ Batch = (base + 1)..(base + n)
  BY <1>2, BatchIs
<1> HIDE DEF n
<1>4. base \in Nat /\ Len(chunks) \in Nat /\ reported \in Seq(Nat)
  BY <1>2 DEF ScanTypes
<1>5. ASSUME NEW i \in 1..n
      PROVE  /\ base + i \in 1..Len(chunks) /\ base + i \in 1..(base + n) /\ base + i > base
             /\ ss[i] = Hits(chunks[base + i]) /\ ss[i] \in Seq(Nat)
  <2>1. base + i \in Batch /\ base + i \in 1..Len(chunks) /\ base + i > base /\ base + i \in 1..(base + n)
    BY <1>3, <1>4
  <2>2. chunks[base + i] \in Chunk
    BY <1>2, <2>1, ElementOfSeq DEF ScanTypes
  <2>3. ss[i] = Hits(chunks[base + i])
    BY <1>1, <1>2, <2>1
  <2> QED BY <1>2, <2>1, <2>2, <2>3, HitsAre
<1>6. \A k \in (base + 1)..(base + n) : k - base \in 1..n /\ base + (k - base) = k
  BY <1>3, <1>4
<1>7. ss \in [1..n -> Seq(Nat)]
  BY <1>5
<1> HIDE DEF ss
<1>8. q \in Seq(Nat) /\ \E w : Placed(q, ss, n, w)
  BY <1>3, <1>7, FlattenPlaces
<1>9. PICK w : Placed(q, ss, n, w)
  BY <1>8
<1>10. /\ \A x \in 1..Len(q) :
            /\ w[x] \in Nat \X Nat
            /\ w[x][1] \in 1..n /\ w[x][2] \in 1..Len(ss[w[x][1]])
            /\ q[x] = ss[w[x][1]][w[x][2]]
       /\ \A x, y \in 1..Len(q) : x < y =>
            w[x][1] < w[y][1] \/ (w[x][1] = w[y][1] /\ w[x][2] < w[y][2])
       /\ \A i \in 1..n : \A x \in 1..Len(ss[i]) :
            \E y \in 1..Len(q) : w[y][1] = i /\ w[y][2] = x
  BY <1>9 DEF Placed
<1> HIDE DEF q
<1>11. ScanTypes'
  <2>1. base' \in 0..Len(chunks') /\ pending' \in Seq(Nat) /\ pc' = "report"
    BY <1>1, <1>3, <1>4, <1>8
  <2> QED BY <1>1, <1>2, <2>1 DEF ScanTypes, input
<1>12. Joining' /\ Trimming' /\ Trimmed' /\ Underway' /\ ChunksAreLaid' /\ Unlaid'
  BY <1>1, LayoutStays
<1>13. /\ \A c : Hits(c)' = Hits(c)
       /\ \A g, k, o : StandsFor(g, k, o)' <=> StandsFor(g, k, o)
       /\ \A g, m : FoundIn(g, m)' <=> FoundIn(g, m)
       /\ Keeps' <=> Keeps
  BY <1>1, HitsStay
<1>14. Batched'
  <2>1. DOMAIN <<>> = {}
    OBVIOUS
  <2> QED BY <1>1, <1>2, <2>1 DEF Batched
<1>15. /\ \A g \in Nat : Among(reported, g) <=> FoundIn(g, base)
       /\ ~Keeps => \A i, j \in 1..Len(reported) : reported[i] = reported[j] => i = j
       /\ Keeps => Traced(reported, base)
       /\ kind = "bytes" => Rising(reported)
  <2>1. reported \o pending = reported
    BY <1>2, <1>4, ConcatEmptySeq
  <2>2. \A g : ~ Among(pending, g)
    <3>1. Len(<<>>) = 0 /\ 1..0 = {}
      OBVIOUS
    <3> QED BY <1>2, <3>1 DEF Among
  <2> QED BY <2>1, <2>2 DEF ScanInv, HandedOver
<1>16. kind' = kind /\ content' = content /\ reported' = reported
  BY <1>1 DEF input
<1>17. /\ Len(reported) \in Nat /\ Len(q) \in Nat /\ reported \o q \in Seq(Nat)
       /\ Len(reported \o q) = Len(reported) + Len(q)
       /\ \A x \in 1..(Len(reported) + Len(q)) :
            (reported \o q)[x] = IF x <= Len(reported) THEN reported[x] ELSE q[x - Len(reported)]
  BY <1>4, <1>8, ConcatProperties
\* What is found in the batch.
<1>18. ASSUME NEW g \in Nat
       PROVE  Among(reported', g) \/ Among(pending', g) <=> FoundIn(g, base')
  <2>1. FoundIn(g, base + n) => FoundIn(g, base) \/ Among(q, g)
    <3> SUFFICES ASSUME FoundIn(g, base + n) PROVE FoundIn(g, base) \/ Among(q, g)
      OBVIOUS
    <3>1. PICK k \in 1..(base + n) : \E i \in 1..Len(Hits(chunks[k])) : g = Hits(chunks[k])[i]
      BY DEF FoundIn
    <3>2. CASE k \in 1..base
      BY <3>1, <3>2 DEF FoundIn
    <3>3. CASE k \notin 1..base
      <4>1. k \in (base + 1)..(base + n)
        BY <1>3, <1>4, <3>3
      <4>2. k - base \in 1..n /\ ss[k - base] = Hits(chunks[k])
        BY <1>5, <1>6, <4>1
      <4>3. PICK i \in 1..Len(ss[k - base]) : g = ss[k - base][i]
        BY <3>1, <4>2
      <4>4. PICK y \in 1..Len(q) : w[y][1] = k - base /\ w[y][2] = i
        BY <1>10, <4>2, <4>3
      <4>5. q[y] = g
        BY <1>10, <4>3, <4>4
      <4> QED BY <4>5 DEF Among
    <3> QED BY <3>2, <3>3
  <2>2. Among(q, g) => FoundIn(g, base + n)
    <3> SUFFICES ASSUME NEW y \in 1..Len(q), q[y] = g PROVE FoundIn(g, base + n)
      BY DEF Among
    <3> DEFINE i == w[y][1]
    <3>1. i \in 1..n /\ w[y][2] \in 1..Len(ss[i]) /\ g = ss[i][w[y][2]]
      BY <1>10
    <3> HIDE DEF i
    <3>2. base + i \in 1..(base + n) /\ ss[i] = Hits(chunks[base + i])
      BY <1>5, <3>1
    <3> QED BY <3>1, <3>2 DEF FoundIn
  <2>3. FoundIn(g, base) => FoundIn(g, base + n)
    <3>1. \A k \in 1..base : k \in 1..(base + n)
      BY <1>3, <1>4
    <3> QED BY <3>1 DEF FoundIn
  <2> QED BY <1>1, <1>15, <1>16, <2>1, <2>2, <2>3
<1>19. ASSUME Keeps PROVE Traced(reported \o q, base + n)
  <2> DEFINE r == Len(reported)
             H(i) == Hits(chunks[base + i])
             Witness(i, v) ==
               /\ v \in [1..Len(H(i)) -> content]
               /\ \A x \in 1..Len(H(i)) : StandsFor(H(i)[x], base + i, v[x])
               /\ \A x, y \in 1..Len(H(i)) : v[x] = v[y] => x = y
  <2>1. PICK u \in [1..r -> (1..base) \X content] :
          /\ \A x \in 1..r : StandsFor(reported[x], u[x][1], u[x][2])
          /\ \A x, y \in 1..r : u[x] = u[y] => x = y
    BY <1>15, <1>19 DEF Traced
  <2>2. ASSUME NEW i \in 1..n PROVE \E v : Witness(i, v)
    <3>1. chunks[base + i] \in Chunk
      BY <1>2, <1>5, ElementOfSeq DEF ScanTypes
    <3>2. PICK v \in [1..Len(H(i)) -> content] :
            /\ \A x \in 1..Len(H(i)) :
                 /\ v[x] \in Seen(chunks[base + i])
                 /\ chunks[base + i].at + chunks[base + i].want <= FileSize
                 /\ H(i)[x] = chunks[base + i].offset + (v[x].at - chunks[base + i].at)
            /\ \A x, y \in 1..Len(H(i)) : v[x] = v[y] => x = y
      BY <1>2, <3>1, HitsAre
    <3>3. Witness(i, v)
      BY <3>2 DEF StandsFor
    <3> QED BY <3>3
  <2> HIDE DEF Witness
  <2> DEFINE V == [i \in 1..n |-> CHOOSE v : Witness(i, v)]
  <2>3. \A i \in 1..n : Witness(i, V[i])
    BY <2>2
  <2> HIDE DEF V
  <2> DEFINE t == [x \in 1..(r + Len(q)) |->
                     IF x <= r THEN u[x] ELSE <<base + w[x - r][1], V[w[x - r][1]][w[x - r][2]]>>]
             all == reported \o q
  <2>4. r \in Nat /\ Len(all) = r + Len(q)
    BY <1>17
  <2>5. ASSUME NEW x \in 1..r
        PROVE  /\ x \in 1..(r + Len(q)) /\ t[x] = u[x] /\ all[x] = reported[x]
               /\ t[x][1] \in 1..base /\ t[x] \in (1..(base + n)) \X content
               /\ StandsFor(all[x], t[x][1], t[x][2])
    <3>1. x \in 1..(r + Len(q)) /\ x <= r
      BY <1>17
    <3>2. t[x] = u[x] /\ all[x] = reported[x]
      <4>1. all[x] = reported[x]
        BY <1>17, <3>1
      <4> HIDE DEF all
      <4> QED BY <3>1, <4>1
    <3> HIDE DEF t, all
    <3>3. u[x] \in (1..base) \X content
      BY <2>1
    <3>4. u[x][1] \in 1..base /\ u[x] \in (1..(base + n)) \X content
      BY <1>3, <1>4, <3>3
    <3> QED BY <2>1, <3>1, <3>2, <3>4
  <2>6. ASSUME NEW x \in 1..Len(q)
        PROVE  /\ r + x \in 1..(r + Len(q)) /\ all[r + x] = q[x]
               /\ t[r + x] = <<base + w[x][1], V[w[x][1]][w[x][2]]>>
               /\ t[r + x][1] = base + w[x][1] /\ t[r + x][2] = V[w[x][1]][w[x][2]]
               /\ t[r + x] \in (1..(base + n)) \X content
               /\ StandsFor(all[r + x], t[r + x][1], t[r + x][2])
    <3> DEFINE i == w[x][1]
               y == w[x][2]
    <3>1. r + x \in 1..(r + Len(q)) /\ ~ (r + x <= r) /\ (r + x) - r = x
      BY <1>17
    <3>2. all[r + x] = q[x]
      BY <1>17, <3>1
    <3>3. t[r + x] = <<base + i, V[i][y]>>
      <4> HIDE DEF all
      <4> QED BY <3>1
    <3>4. i \in 1..n /\ y \in 1..Len(ss[i]) /\ q[x] = ss[i][y] /\ ss[i] = H(i)
          /\ base + i \in 1..(base + n)
      BY <1>5, <1>10
    <3>5. V[i] \in [1..Len(H(i)) -> content] /\ \A z \in 1..Len(H(i)) : StandsFor(H(i)[z], base + i, V[i][z])
      BY <2>3, <3>4 DEF Witness
    <3> HIDE DEF i, y, t, all, H
    <3>6. V[i][y] \in content /\ StandsFor(q[x], base + i, V[i][y])
      BY <3>4, <3>5
    <3>7. t[r + x][1] = base + i /\ t[r + x][2] = V[i][y] /\ t[r + x] \in (1..(base + n)) \X content
      BY <3>3, <3>4, <3>6
    <3> QED BY <3>1, <3>2, <3>3, <3>6, <3>7 DEF i, y
  <2>7. \A x \in 1..(r + Len(q)) : x \in 1..r \/ (x - r \in 1..Len(q) /\ r + (x - r) = x)
    BY <1>17
  <2>8. t \in [1..(r + Len(q)) -> (1..(base + n)) \X content]
    <3>1. \A x \in 1..(r + Len(q)) : t[x] \in (1..(base + n)) \X content
      <4> HIDE DEF t
      <4> SUFFICES ASSUME NEW x \in 1..(r + Len(q)) PROVE t[x] \in (1..(base + n)) \X content
        OBVIOUS
      <4>1. CASE x \in 1..r
        BY <2>5, <4>1
      <4>2. CASE x - r \in 1..Len(q) /\ r + (x - r) = x
        <5>1. t[r + (x - r)] \in (1..(base + n)) \X content
          BY <2>6, <4>2
        <5> QED BY <4>2, <5>1
      <4> QED BY <2>7, <4>1, <4>2
    <3>2. t = [x \in 1..(r + Len(q)) |-> t[x]]
      OBVIOUS
    <3> HIDE DEF t
    <3> QED BY <3>1, <3>2
  <2> HIDE DEF t, all
  <2>9. \A x \in 1..Len(all) : StandsFor(all[x], t[x][1], t[x][2])
    BY <2>4, <2>5, <2>6, <2>7
  <2>10. ASSUME NEW x \in 1..Len(q), NEW y \in 1..Len(q), t[r + x] = t[r + y] PROVE x = y
    <3>1. /\ base + w[x][1] = base + w[y][1] /\ V[w[x][1]][w[x][2]] = V[w[y][1]][w[y][2]]
      BY <2>6, <2>10
    <3>2. /\ w[x][1] \in 1..n /\ w[x][2] \in 1..Len(ss[w[x][1]]) /\ ss[w[x][1]] = H(w[x][1])
          /\ w[y][1] \in 1..n /\ w[y][2] \in 1..Len(ss[w[y][1]]) /\ ss[w[y][1]] = H(w[y][1])
          /\ w[x][2] \in Nat /\ w[y][2] \in Nat
      BY <1>5, <1>10
    <3>3. w[x][1] = w[y][1]
      <4> DEFINE a == w[x][1]
                 b == w[y][1]
      <4>1. a \in 1..n /\ b \in 1..n /\ base + a = base + b
        BY <3>1, <3>2
      <4> HIDE DEF a, b
      <4>2. a = b
        BY <1>3, <1>4, <4>1
      <4> QED BY <4>2 DEF a, b
    <3>4. w[x][2] = w[y][2]
      <4>1. Witness(w[x][1], V[w[x][1]])
        BY <2>3, <3>2
      <4>2. \A a, b \in 1..Len(H(w[x][1])) : V[w[x][1]][a] = V[w[x][1]][b] => a = b
        BY <4>1 DEF Witness
      <4> HIDE DEF H
      <4> QED BY <3>1, <3>2, <3>3, <4>2
    <3>5. ~ (x < y) /\ ~ (y < x)
      <4> HIDE DEF H
      <4> QED BY <1>10, <3>2, <3>3, <3>4
    <3> QED BY <1>17, <3>5
  <2>11. \A x, y \in 1..Len(all) : t[x] = t[y] => x = y
    <3> SUFFICES ASSUME NEW x \in 1..Len(all), NEW y \in 1..Len(all), t[x] = t[y] PROVE x = y
      OBVIOUS
    <3>0. \A z \in 1..Len(q) : t[r + z][1] > base
      <4>1. ASSUME NEW z \in 1..Len(q) PROVE base + w[z][1] > base
        <5>1. w[z][1] \in 1..n
          BY <1>10
        <5> DEFINE a == w[z][1]
        <5> HIDE DEF a
        <5>2. a \in 1..n
          BY <5>1 DEF a
        <5>3. base + a > base
          BY <1>4, <5>2
        <5> QED BY <5>3 DEF a
      <4> QED BY <2>6, <4>1
    <3>1. \A z \in 1..r : ~ (t[z][1] > base)
      <4>1. \A z \in 1..base : ~ (z > base)
        BY <1>4
      <4> QED BY <2>5, <4>1
    <3>2. CASE x \in 1..r /\ y \in 1..r
      BY <2>1, <2>5, <3>2
    <3>3. CASE x \notin 1..r /\ y \notin 1..r
      <4>1. x - r \in 1..Len(q) /\ r + (x - r) = x /\ y - r \in 1..Len(q) /\ r + (y - r) = y
        BY <2>4, <2>7, <3>3
      <4>2. x - r = y - r
        BY <2>10, <4>1
      <4> QED BY <4>1, <4>2
    <3>4. CASE x \in 1..r /\ y \notin 1..r
      BY <2>4, <2>7, <3>0, <3>1, <3>4
    <3>5. CASE x \notin 1..r /\ y \in 1..r
      BY <2>4, <2>7, <3>0, <3>1, <3>5
    <3> QED BY <3>2, <3>3, <3>4, <3>5
  <2>12. Traced(all, base + n)
    BY <2>4, <2>8, <2>9, <2>11 DEF Traced
  <2> QED BY <2>12 DEF all
<1>20. ASSUME kind = "bytes" PROVE Rising(reported \o q)
  <2> DEFINE r == Len(reported)
             all == reported \o q
  <2>1. ~Keeps /\ pc \notin {"sort", "trim"}
    BY <1>1, <1>20 DEF Keeps
  <2>2. ASSUME NEW x \in 1..Len(q), NEW y \in 1..Len(q), x < y PROVE q[x] < q[y]
    <3> DEFINE i == w[x][1]
               j == w[y][1]
    <3>1. /\ i \in 1..n /\ w[x][2] \in 1..Len(ss[i]) /\ q[x] = ss[i][w[x][2]]
          /\ j \in 1..n /\ w[y][2] \in 1..Len(ss[j]) /\ q[y] = ss[j][w[y][2]]
          /\ i < j \/ (i = j /\ w[x][2] < w[y][2])
      BY <1>10, <2>2
    <3> HIDE DEF i, j
    <3>2. /\ base + i \in 1..Len(chunks) /\ ss[i] = Hits(chunks[base + i])
          /\ base + j \in 1..Len(chunks) /\ ss[j] = Hits(chunks[base + j])
      BY <1>5, <3>1
    <3>3. CASE i < j
      <4>1. base + i < base + j
        BY <1>4, <3>1, <3>3
      <4>2. (\E o \in content : StandsFor(q[x], base + i, o)) /\ (\E o \in content : StandsFor(q[y], base + j, o))
        BY <1>2, <3>1, <3>2, FoundIs
      <4> QED BY <2>1, <3>2, <4>1, <4>2, HitsOfChunksRise
    <3>4. CASE i = j /\ w[x][2] < w[y][2]
      <4>1. chunks[base + i] \in Chunk
        BY <1>2, <3>2, ElementOfSeq DEF ScanTypes
      <4>2. Rising(ss[i])
        BY <1>2, <1>20, <3>2, <4>1, HitsRise
      <4> QED BY <3>1, <3>4, <4>2 DEF Rising
    <3> QED BY <3>1, <3>3, <3>4
  <2>3. ASSUME NEW x \in 1..r, NEW y \in 1..Len(q) PROVE reported[x] < q[y]
    <3>1. reported[x] \in Nat /\ FoundIn(reported[x], base)
      <4>1. reported[x] \in Nat
        BY <1>4, ElementOfSeq
      <4>2. Among(reported, reported[x])
        BY DEF Among
      <4> QED BY <1>15, <4>1, <4>2
    <3>2. PICK k \in 1..base : \E i \in 1..Len(Hits(chunks[k])) : reported[x] = Hits(chunks[k])[i]
      BY <3>1 DEF FoundIn
    <3> DEFINE j == w[y][1]
    <3>3. j \in 1..n /\ w[y][2] \in 1..Len(ss[j]) /\ q[y] = ss[j][w[y][2]]
      BY <1>10
    <3> HIDE DEF j
    <3>4. base + j \in 1..Len(chunks) /\ ss[j] = Hits(chunks[base + j]) /\ base + j > base
      BY <1>5, <3>3
    <3>5. k \in 1..Len(chunks) /\ k < base + j
      <4>1. k \in Nat /\ 1 <= k /\ k <= base /\ base <= Len(chunks)
        <5>1. k \in Nat /\ 1 <= k /\ k <= base
          BY <1>4
        <5>2. base <= Len(chunks)
          BY <1>3, <1>4
        <5> QED BY <5>1, <5>2
      <4>2. j \in Nat /\ j >= 1
        BY <3>3
      <4> QED BY <1>4, <4>1, <4>2
    <3>6. (\E o \in content : StandsFor(reported[x], k, o)) /\ (\E o \in content : StandsFor(q[y], base + j, o))
      BY <1>2, <3>2, <3>3, <3>4, <3>5, FoundIs
    <3> QED BY <2>1, <3>4, <3>5, <3>6, HitsOfChunksRise
  <2>4. Rising(reported)
    BY <1>15, <1>20
  <2> SUFFICES ASSUME NEW x \in 1..Len(all), NEW y \in 1..Len(all), x < y
               PROVE  all[x] < all[y]
    BY DEF Rising
  <2>5. x \in 1..(r + Len(q)) /\ y \in 1..(r + Len(q)) /\ x \in Int /\ y \in Int
    BY <1>17
  <2>6. /\ all[x] = IF x <= r THEN reported[x] ELSE q[x - r]
        /\ all[y] = IF y <= r THEN reported[y] ELSE q[y - r]
    BY <1>17, <2>5
  <2> HIDE DEF all
  <2>7. CASE x <= r /\ y <= r
    <3>1. x \in 1..r /\ y \in 1..r
      BY <1>17, <2>5, <2>7
    <3> QED BY <2>4, <2>5, <2>6, <2>7, <3>1 DEF Rising
  <2>8. CASE x <= r /\ ~ (y <= r)
    <3>1. x \in 1..r /\ y - r \in 1..Len(q)
      BY <1>17, <2>5, <2>8
    <3> QED BY <2>3, <2>6, <2>8, <3>1
  <2>9. CASE ~ (x <= r) /\ ~ (y <= r)
    <3>1. x - r \in 1..Len(q) /\ y - r \in 1..Len(q) /\ x - r < y - r
      BY <1>17, <2>5, <2>9
    <3> QED BY <2>2, <2>6, <2>9, <3>1
  <2>10. x <= r \/ ~ (y <= r)
    BY <1>17, <2>5
  <2> QED BY <2>7, <2>8, <2>9, <2>10
<1>21. HandedOver'
  <2>1. ~Keeps' => \A i, j \in 1..Len(reported') : reported'[i] = reported'[j] => i = j
    BY <1>13, <1>15, <1>16
  <2>2. Keeps' => Traced(reported \o pending, base)'
    <3> SUFFICES ASSUME Keeps PROVE Traced(reported \o pending, base)'
      BY <1>13
    <3>1. PICK a : a = reported \o q
      OBVIOUS
    <3>2. PICK b : b = base + n
      OBVIOUS
    <3>3. PICK u \in [1..Len(a) -> (1..b) \X content] :
            /\ \A i \in 1..Len(a) : StandsFor(a[i], u[i][1], u[i][2])
            /\ \A i, j \in 1..Len(a) : u[i] = u[j] => i = j
      BY <1>19, <3>1, <3>2 DEF Traced
    <3> DEFINE z == reported \o pending
    <3>4. z' = a /\ base' = b
      BY <1>1, <1>16, <3>1, <3>2
    <3> HIDE DEF z
    <3>5. \A i \in 1..Len(a) : StandsFor(a[i], u[i][1], u[i][2])'
      BY <1>13, <3>3
    <3>6. Traced(z, base)'
      BY <1>16, <3>3, <3>4, <3>5 DEF Traced
    <3> QED BY <3>6 DEF z
  <2>3. kind' = "bytes" => Rising(reported \o pending)'
    <3>1. (reported \o pending)' = reported \o q
      BY <1>1, <1>16
    <3> QED BY <1>16, <1>20, <3>1 DEF Rising
  <2>4. \A g \in Nat : (Among(reported, g) \/ Among(pending, g) <=> FoundIn(g, base))'
    BY <1>13, <1>18 DEF Among
  <2> QED BY <2>1, <2>2, <2>3, <2>4 DEF HandedOver
<1> QED
  BY <1>11, <1>12, <1>14, <1>21 DEF ScanInv

LEMMA NextScanInv == ASSUME ScanAssumption, ScanInv, [ScanNext]_scanVars PROVE ScanInv'
<1>1. CASE UNCHANGED scanVars
  <2>1. /\ UNCHANGED <<input, chunks>> /\ scanned' = scanned /\ content' = content /\ kind' = kind
        /\ asked' = asked /\ pc' = pc /\ todo' = todo /\ sections' = sections /\ position' = position
        /\ blocks' = blocks /\ chunks' = chunks /\ base' = base /\ found' = found
        /\ pending' = pending /\ reported' = reported /\ stopped' = stopped
    BY <1>1 DEF scanVars, input
  <2>2. /\ \A c : Hits(c)' = Hits(c)
        /\ \A h, k, o : StandsFor(h, k, o)' <=> StandsFor(h, k, o)
        /\ \A h, n : FoundIn(h, n)' <=> FoundIn(h, n)
        /\ Keeps' <=> Keeps
    BY <2>1, HitsStay
  <2>3. (\A i, j : Piece(i, j)' = Piece(i, j)) /\ (\A i, j : Laid(i, j)' <=> Laid(i, j))
        /\ Mapped' = Mapped /\ CutOfIt' = CutOfIt
    BY <2>1 DEF Piece, Blocks, Laid, Mapped, CutOfIt
  <2>4. ScanTypes' /\ Joining' /\ Trimming' /\ Trimmed' /\ Unlaid'
    <3>1. ScanTypes'
      BY <2>1 DEF ScanInv, ScanTypes
    <3>2. Joining'
      BY <2>1 DEF ScanInv, Joining, Covers, Apart
    <3>3. Trimming'
      BY <2>1 DEF ScanInv, Trimming, Covers, Apart, InLayer
    <3>4. Trimmed'
      BY <2>1 DEF ScanInv, Trimmed, Covers, Apart, InLayer
    <3>5. Unlaid'
      BY <2>1 DEF ScanInv, Unlaid
    <3> QED BY <3>1, <3>2, <3>3, <3>4, <3>5
  <2>5. Underway'
    <3>1. Underway
      BY DEF ScanInv
    <3> QED BY <2>1, <2>3, <3>1 DEF Underway
  <2>6. ChunksAreLaid'
    <3>1. ChunksAreLaid
      BY DEF ScanInv
    <3> QED BY <2>1, <2>3, <3>1 DEF ChunksAreLaid
  <2>7. Batched'
    <3>1. Batched
      BY DEF ScanInv
    <3>2. Batch' = Batch
      BY <2>1 DEF Batch
    <3>3. (\A k \in DOMAIN found : found[k] = Hits(chunks[k]))'
      BY <2>1, <2>2, <3>1 DEF Batched
    <3> QED BY <2>1, <3>1, <3>2, <3>3 DEF Batched
  <2>8. HandedOver'
    <3>1. HandedOver
      BY DEF ScanInv
    <3>2. Traced(reported \o pending, base)' <=> Traced(reported \o pending, base)
      <4>1. reported' = reported /\ pending' = pending /\ base' = base /\ content' = content
        BY <2>1
      <4> QED BY <2>2, <4>1 DEF Traced
    <3> QED BY <2>1, <2>2, <3>1, <3>2 DEF HandedOver, Among, Rising
  <2> QED BY <2>4, <2>5, <2>6, <2>7, <2>8 DEF ScanInv
<1>2. CASE TakeSection
  BY <1>2, TakeSectionInv
<1>3. CASE StartTrim
  BY <1>3, StartTrimInv
<1>4. CASE Trim
  BY <1>4, TrimInv
<1>5. CASE StartLay
  BY <1>5, StartLayInv
<1>6. CASE LaySection
  BY <1>6, LaySectionInv
<1>7. CASE LayBlock
  BY <1>7, LayBlockInv
<1>8. CASE StartScan
  BY <1>8, StartScanInv
<1>9. CASE \E i \in Batch : Examine(i)
  BY <1>9, ExamineInv
<1>10. CASE Collect
  BY <1>10, CollectInv
<1>11. CASE Report
  BY <1>11, ReportInv
<1>12. CASE NextBatch
  BY <1>12, NextBatchInv
<1> QED
  BY <1>1, <1>2, <1>3, <1>4, <1>5, <1>6, <1>7, <1>8, <1>9, <1>10, <1>11, <1>12 DEF ScanNext

\* The sections, the chunks and what is found and handed over are in step.
THEOREM ScanInvariance == ASSUME NoneWithin PROVE ScanSpec => []ScanInv
<1>1. ScanInit => ScanInv
  BY ScanAssumption, InitScanInv
<1>2. ScanInv /\ [ScanNext]_scanVars => ScanInv'
  BY ScanAssumption, NextScanInv
<1> QED
  BY <1>1, <1>2, PTL DEF ScanSpec

-----------------------------------------------------------------------------
(* What the caller is promised.                                            *)

LEMMA SpansCover ==
    ASSUME NEW q \in Seq(Nat \X Nat), NEW b
    PROVE  b \in UNION {Span(s) : s \in ToSet(q)} <=> b \in Nat /\ Covers(q, b)
<1>1. DOMAIN q = 1..Len(q) /\ \A i \in 1..Len(q) : q[i] \in Nat \X Nat
  BY ElementOfSeq, LenProperties
<1>2. b \in UNION {Span(s) : s \in ToSet(q)} <=> \E i \in 1..Len(q) : b \in Span(q[i])
  BY <1>1 DEF ToSet
<1>3. ASSUME NEW i \in 1..Len(q)
      PROVE  b \in Span(q[i]) <=> b \in Nat /\ q[i][1] <= b /\ b < endOf(q[i])
  <2>1. q[i][1] \in Nat /\ endOf(q[i]) \in Nat
    BY <1>1 DEF endOf
  <2> DEFINE f == q[i][1]
             e == endOf(q[i])
  <2>2. f \in Nat /\ e \in Nat
    BY <2>1
  <2> HIDE DEF f, e
  <2>3. b \in f..(e - 1) <=> b \in Nat /\ f <= b /\ b < e
    BY <2>2
  <2> QED BY <2>3 DEF Span, f, e
<1> HIDE DEF endOf
<1> QED
  BY <1>2, <1>3 DEF Covers

\* The bytes asked for.
LEMMA AskedIs ==
    ASSUME ScanAssumption, NoneWithin, ScanTypes, NEW b
    PROVE  b \in Asked <=> b \in Nat /\ Covers(asked, b) /\ InLayer(b)
<1>1. asked \in Seq(Nat \X Nat) /\ asked # Whole
  <2>1. asked \in Seq(Nat \X Nat)
    BY DEF NoneWithin, ScanTypes
  <2>2. Len(Whole) = 1 /\ Whole[1][1] = -1
    BY DEF Whole
  <2>3. SUFFICES ASSUME asked = Whole PROVE FALSE
    BY <2>1
  <2>4. asked[1] \in Nat \X Nat
    BY <2>1, <2>2, <2>3, ElementOfSeq
  <2> QED BY <2>2, <2>3, <2>4
<1>2. scanned.low \in Nat /\ scanned.high \in Nat
  BY DEF ScanTypes, ScanAssumption
<1>3. b \in UNION {Span(s) : s \in ToSet(asked)} <=> b \in Nat /\ Covers(asked, b)
  BY <1>1, SpansCover
<1>4. b \in Nat => (b \in scanned.low..scanned.high <=> InLayer(b))
  BY <1>2 DEF InLayer
<1> HIDE DEF Covers, InLayer
<1> QED
  BY <1>1, <1>3, <1>4 DEF Asked

\* What is coalesced is what was asked for, in whatever order it was and however the
\* sections meet and stick out of the layer.
THEOREM CoalescingKeeps == ASSUME NoneWithin PROVE ScanSpec => []CoalescedIsAsked
<1>1. ScanInv => CoalescedIsAsked
  <2> SUFFICES ASSUME ScanInv, pc \in {"lay", "examine"}
               PROVE  UNION {Span(s) : s \in ToSet(sections)} = Asked
    BY DEF CoalescedIsAsked
  <2>1. \A b \in Nat : Covers(sections, b) <=> Covers(asked, b) /\ InLayer(b)
    BY DEF ScanInv, Trimmed
  <2>2. ScanTypes /\ sections \in Seq(Nat \X Nat)
    BY DEF ScanInv, ScanTypes
  <2>3. \A b : b \in UNION {Span(s) : s \in ToSet(sections)} <=> b \in Nat /\ Covers(sections, b)
    BY <2>2, SpansCover
  <2>4. \A b : b \in Asked <=> b \in Nat /\ Covers(asked, b) /\ InLayer(b)
    BY <2>2, ScanAssumption, AskedIs
  <2> HIDE DEF Covers, InLayer
  <2>5. \A b : b \in UNION {Span(s) : s \in ToSet(sections)} <=> b \in Asked
    BY <2>1, <2>3, <2>4
  <2> QED BY <2>5
<1> QED
  BY <1>1, ScanInvariance, PTL

\* A match that is seen in a chunk lies inside the run that the chunk is of, in the file,
\* and every byte of it was asked for.
LEMMA SeenIsOwed ==
    ASSUME ScanAssumption, NoneWithin, ScanInv, pc \notin {"sort", "trim"},
           NEW k \in 1..Len(chunks), NEW h, NEW o, StandsFor(h, k, o)
    PROVE  /\ h \in Nat /\ o \in content
           /\ \E j \in 1..Len(scanned.runs) : Owes(scanned.runs[j], o) /\ h = Place(o, scanned.runs[j])
<1> DEFINE c == chunks[k]
<1>1. c \in Chunk /\ ScanTypes
  BY ElementOfSeq DEF ScanInv, ScanTypes
<1>2. PICK i \in 1..Len(sections), j \in 1..Len(scanned.runs) : IsChunkOf(c, Piece(i, j))
  BY DEF ScanInv, ChunksAreLaid
<1>3. sections[i] \in Nat \X Nat
  BY <1>1, ElementOfSeq DEF ScanTypes
<1> DEFINE b == Piece(i, j)
           r == scanned.runs[j]
           s == sections[i]
<1>4. /\ b \in Block /\ r \in [offset : Nat, mapped : Nat, size : Nat]
      /\ r.offset <= b.offset /\ s[1] <= b.offset
      /\ b.offset + b.size <= r.offset + r.size /\ b.offset + b.size <= endOf(s)
      /\ b.mapped = r.mapped + b.offset - r.offset
  <2> HIDE DEF endOf
  <2> QED BY <1>1, <1>3, BlocksAre DEF Piece
<1>5. /\ o \in content /\ c.at <= o.at /\ o.at + o.len <= c.at + c.want
      /\ c.at + c.want <= FileSize /\ h = c.offset + (o.at - c.at)
  BY DEF StandsFor, Seen
<1>6. o \in [at : Nat, len : 1..(Overlap + 1)] /\ Overlap \in Nat
  BY <1>1, <1>5 DEF ScanTypes, ScanAssumption
<1>7. IsChunkOf(c, b)
  BY <1>2
<1> HIDE DEF c, b, r
<1>8. /\ b.offset <= c.offset /\ c.offset + c.want <= b.offset + b.size
      /\ c.at = b.mapped + (c.offset - b.offset)
  BY <1>7 DEF IsChunkOf
<1>9. o.at \in Nat /\ o.len \in Nat /\ o.len # 0
  BY <1>6
<1>10. c.at \in Nat /\ c.offset \in Nat /\ c.want \in Nat
  BY <1>1 DEF Chunk
<1>11. b.offset \in Nat /\ b.size \in Int /\ b.mapped \in Nat
  BY <1>4 DEF Block
<1>12. r.offset \in Nat /\ r.size \in Nat /\ r.mapped \in Nat
  BY <1>4
<1>13. s[1] \in Nat /\ endOf(s) \in Nat /\ FileSize \in Nat
  BY <1>3 DEF endOf, ScanAssumption
<1> DEFINE ro == r.offset
           rm == r.mapped
           rs == r.size
           bo == b.offset
           bs == b.size
           bm == b.mapped
           co == c.offset
           ca == c.at
           cw == c.want
           oa == o.at
           ol == o.len
           s1 == s[1]
           se == endOf(s)
<1>14. /\ ro \in Nat /\ rm \in Nat /\ rs \in Nat /\ bo \in Nat /\ bs \in Int /\ bm \in Nat
       /\ co \in Nat /\ ca \in Nat /\ cw \in Nat /\ oa \in Nat /\ ol \in Nat /\ ol # 0
       /\ s1 \in Nat /\ se \in Nat /\ FileSize \in Nat
  BY <1>9, <1>10, <1>11, <1>12, <1>13
<1>15. /\ ro <= bo /\ s1 <= bo /\ bo + bs <= ro + rs /\ bo + bs <= se /\ bm = rm + bo - ro
       /\ bo <= co /\ co + cw <= bo + bs /\ ca = bm + (co - bo)
       /\ ca <= oa /\ oa + ol <= ca + cw /\ ca + cw <= FileSize /\ h = co + (oa - ca)
  BY <1>4, <1>5, <1>8
<1> HIDE DEF ro, rm, rs, bo, bs, bm, co, ca, cw, oa, ol, s1, se
<1>16. /\ rm <= oa /\ oa + ol <= rm + rs /\ oa + ol <= FileSize
       /\ h = ro + (oa - rm) /\ h \in Nat /\ s1 <= h /\ h + ol <= se
  BY <1>14, <1>15
<1>17. h = Place(o, r)
  BY <1>16 DEF Place, ro, oa, rm
<1>18. ASSUME NEW d \in 0..(o.len - 1) PROVE Place(o, r) + d \in Asked
  <2>1. d \in Nat /\ d < ol
    BY <1>14, <1>18 DEF ol
  <2>2. h + d \in Nat /\ s1 <= h + d /\ h + d < se
    BY <1>14, <1>16, <2>1
  <2>3. Covers(sections, h + d)
    BY <2>2 DEF Covers, s1, se
  <2>4. Covers(asked, h + d) /\ InLayer(h + d)
    BY <2>2, <2>3 DEF ScanInv, Trimmed
  <2>5. h + d \in Asked
    BY <1>1, <2>2, <2>4, AskedIs
  <2> QED BY <1>17, <2>5
<1>19. Owes(r, o)
  BY <1>16, <1>18 DEF Owes, rm, oa, ol, rs
<1> QED
  BY <1>5, <1>16, <1>17, <1>19 DEF r

\* What is owed can be seen in the chunk where it begins, if the file gives the chunk.
LEMMA OwedIsSeen ==
    ASSUME ScanAssumption, NoneWithin, RunsAreInFile, ScanInv,
           pc \notin {"sort", "trim", "lay"},
           NEW j \in 1..Len(scanned.runs), NEW o \in content, Owes(scanned.runs[j], o)
    PROVE  \E k \in 1..Len(chunks) : StandsFor(Place(o, scanned.runs[j]), k, o)
<1> DEFINE r == scanned.runs[j]
           h == Place(o, r)
<1>1. ScanTypes /\ sections \in Seq(Nat \X Nat) /\ Len(sections) \in Nat
  BY DEF ScanInv, ScanTypes
<1>2. r \in [offset : Nat, mapped : Nat, size : Nat] /\ r.mapped + r.size <= FileSize
  <2>1. scanned \in LayersScanned /\ scanned.runs \in Seq([offset : Nat, mapped : Nat, size : Nat])
    BY <1>1 DEF ScanTypes, ScanAssumption
  <2>2. j \in DOMAIN scanned.runs
    BY <2>1, LenProperties
  <2>3. r.mapped + r.size <= FileSize
    BY <2>1, <2>2 DEF RunsAreInFile
  <2> DEFINE R == [offset : Nat, mapped : Nat, size : Nat]
  <2>4. scanned.runs \in Seq(R)
    BY <2>1
  <2> HIDE DEF R
  <2>5. scanned.runs[j] \in R
    BY <2>4, ElementOfSeq
  <2> QED BY <2>3, <2>5 DEF R
<1>3. /\ r.mapped <= o.at /\ o.at + o.len <= r.mapped + r.size /\ o.at + o.len <= FileSize
      /\ \A d \in 0..(o.len - 1) : h + d \in Asked
  BY DEF Owes
<1>4. o \in [at : Nat, len : 1..(Overlap + 1)] /\ Overlap \in Nat /\ ChunkSize \in Nat /\ FileSize \in Nat
  BY <1>1 DEF ScanTypes, ScanAssumption
<1>5. o.at \in Nat /\ o.len \in Nat /\ o.len # 0 /\ o.len <= Overlap + 1
  BY <1>4
<1>6. r.offset \in Nat /\ r.size \in Nat /\ r.mapped \in Nat
  BY <1>2
<1>7. h = r.offset + (o.at - r.mapped)
  BY DEF Place
<1> HIDE DEF r, h
<1>8. h \in Nat /\ r.offset <= h /\ h + o.len <= r.offset + r.size
  <2> DEFINE ro == r.offset
             rm == r.mapped
             rs == r.size
             oa == o.at
             ol == o.len
  <2>1. /\ ro \in Nat /\ rm \in Nat /\ rs \in Nat /\ oa \in Nat /\ ol \in Nat
        /\ rm <= oa /\ oa + ol <= rm + rs /\ h = ro + (oa - rm)
    BY <1>3, <1>5, <1>6, <1>7
  <2> HIDE DEF ro, rm, rs, oa, ol
  <2>2. h \in Nat /\ ro <= h /\ h + ol <= ro + rs
    BY <2>1
  <2> QED BY <2>2 DEF ro, rs, ol
<1>9. \A d \in 0..(o.len - 1) : Covers(sections, h + d)
  <2> SUFFICES ASSUME NEW d \in 0..(o.len - 1) PROVE Covers(sections, h + d)
    OBVIOUS
  <2>1. h + d \in Nat /\ Covers(asked, h + d) /\ InLayer(h + d)
    BY <1>1, <1>3, AskedIs
  <2> QED BY <2>1 DEF ScanInv, Trimmed
\* It lies inside one section: sections leave a byte between them.
<1>10. 0 \in 0..(o.len - 1) /\ h + 0 = h
  BY <1>5, <1>8
<1>11. PICK i \in 1..Len(sections) : sections[i][1] <= h /\ h < endOf(sections[i])
  BY <1>9, <1>10 DEF Covers
<1>12. \A m \in 1..Len(sections) : sections[m][1] \in Nat /\ endOf(sections[m]) \in Nat
                                    /\ sections[m] \in Nat \X Nat
  <2>1. \A m \in 1..Len(sections) : sections[m] \in Nat \X Nat
    BY <1>1, ElementOfSeq
  <2> QED BY <2>1 DEF endOf
<1>13. h + o.len <= endOf(sections[i])
  <2> DEFINE e == endOf(sections[i])
  <2> SUFFICES ASSUME e < h + o.len PROVE FALSE
    BY <1>5, <1>8, <1>12
  <2>0. e \in Nat /\ h < e
    BY <1>11, <1>12
  <2>1. e - h \in 0..(o.len - 1) /\ h + (e - h) = e
    <3> HIDE DEF e
    <3> QED BY <1>5, <1>8, <2>0
  <2>2. PICK m \in 1..Len(sections) : sections[m][1] <= e /\ e < endOf(sections[m])
    BY <1>9, <2>1 DEF Covers
  <2> DEFINE f == endOf(sections[m])
  <2>3. f \in Nat /\ e < f /\ sections[m][1] \in Nat /\ sections[i][1] \in Nat
    BY <1>12, <2>2
  <2>4. Apart(sections)
    BY DEF ScanInv, Trimmed
  <2>5. (i < m => e < sections[m][1]) /\ (m < i => f < sections[i][1]) /\ (i = m => e = f)
    <3> HIDE DEF endOf
    <3> QED BY <2>4 DEF Apart
  <2>6. i < m \/ m < i \/ i = m
    BY <1>1
  <2>7. sections[m][1] <= e /\ sections[i][1] <= h
    BY <1>11, <2>2
  <2> HIDE DEF e, f
  <2> QED BY <1>8, <2>0, <2>3, <2>5, <2>6, <2>7
<1> DEFINE b == Piece(i, j)
           s == sections[i]
<1>14. /\ b \in Block /\ b.offset \in {r.offset, s[1]}
       /\ b.offset + b.size \in {r.offset + r.size, endOf(s)}
       /\ b.mapped = r.mapped + b.offset - r.offset
       /\ b.offset + b.size <= r.offset + r.size
  <2> HIDE DEF endOf
  <2> QED BY <1>1, <1>12, BlocksAre DEF Piece, r
<1>15. Laid(i, j)
  <2>1. todo = <<>> /\ blocks = <<>>
    BY DEF ScanInv, Underway
  <2>2. scanned.runs \in Seq([offset : Nat, mapped : Nat, size : Nat])
    BY <1>1 DEF ScanTypes, ScanAssumption
  <2>3. Mapped = Len(sections) /\ CutOfIt = Len(scanned.runs) /\ Len(scanned.runs) \in Nat
    BY <1>1, <2>1, <2>2 DEF Mapped, CutOfIt
  <2> QED BY <2>3 DEF Laid
<1> HIDE DEF b
<1>16. b.offset \in Nat /\ b.size \in Int /\ b.mapped \in Nat
  BY <1>14 DEF Block
<1> DEFINE s1 == s[1]
           se == endOf(s)
           be == b.offset + b.size
<1>17. s1 \in Nat /\ se \in Nat /\ s1 <= h /\ h + o.len <= se /\ be \in Int
       /\ b.offset \in {r.offset, s1} /\ be \in {r.offset + r.size, se} /\ be <= r.offset + r.size
  BY <1>11, <1>12, <1>13, <1>14, <1>16
<1> HIDE DEF s1, se
<1>18. b.offset <= h /\ h + o.len <= be
  <2> HIDE DEF be
  <2> QED BY <1>5, <1>6, <1>8, <1>17
<1>19. Within(b, h)
  BY <1>5, <1>8, <1>16, <1>18, SMTT(30) DEF Within
<1>20. PICK k \in 1..Len(chunks) : IsChunkOf(chunks[k], b) /\ Fresh(chunks[k], h)
  BY <1>8, <1>15, <1>19 DEF ScanInv, ChunksAreLaid, b
<1> DEFINE c == chunks[k]
<1>21. c \in Chunk
  BY <1>1, ElementOfSeq DEF ScanTypes
<1>22. IsChunkOf(c, b) /\ Fresh(c, h)
  BY <1>20
<1> HIDE DEF c
<1>23. /\ c.offset <= h /\ h < c.offset + ChunkSize
       /\ b.offset <= c.offset /\ c.offset + c.want <= be
       /\ c.want = ChunkSize + Overlap \/ c.offset + c.want = be
       /\ c.at = b.mapped + (c.offset - b.offset)
  BY <1>22 DEF Fresh, IsChunkOf
<1>24. c.at \in Nat /\ c.offset \in Nat /\ c.want \in Nat
  BY <1>21 DEF Chunk
<1> DEFINE ro == r.offset
           rm == r.mapped
           rs == r.size
           bo == b.offset
           bm == b.mapped
           co == c.offset
           ca == c.at
           cw == c.want
           oa == o.at
           ol == o.len
<1>25. /\ ro \in Nat /\ rm \in Nat /\ rs \in Nat /\ bo \in Nat /\ bm \in Nat /\ be \in Int
       /\ co \in Nat /\ ca \in Nat /\ cw \in Nat /\ oa \in Nat /\ ol \in Nat /\ ol # 0
       /\ ol <= Overlap + 1 /\ FileSize \in Nat /\ Overlap \in Nat /\ ChunkSize \in Nat /\ h \in Nat
  BY <1>4, <1>5, <1>6, <1>8, <1>16, <1>17, <1>24
<1>26. /\ rm + rs <= FileSize /\ h = ro + (oa - rm) /\ bm = rm + bo - ro
       /\ h + ol <= be /\ be <= ro + rs
       /\ co <= h /\ h < co + ChunkSize /\ bo <= co /\ co + cw <= be
       /\ cw = ChunkSize + Overlap \/ co + cw = be
       /\ ca = bm + (co - bo)
  BY <1>2, <1>7, <1>14, <1>17, <1>18, <1>23
<1> HIDE DEF ro, rm, rs, bo, bm, be, co, ca, cw, oa, ol
<1>27. /\ ca <= oa /\ oa + ol <= ca + cw /\ oa - ca < ChunkSize
       /\ ca + cw <= FileSize /\ h = co + (oa - ca)
  <2>1. ca = rm + co - ro
    BY <1>25, <1>26
  <2>2. h + ol <= co + cw
    BY <1>25, <1>26
  <2>3. ca + cw <= FileSize
    BY <1>25, <1>26, <2>1
  <2>4. oa = rm + h - ro
    BY <1>25, <1>26
  <2>5. ca <= oa /\ oa - ca < ChunkSize /\ h = co + (oa - ca) /\ oa + ol <= ca + cw
    BY <1>25, <1>26, <2>1, <2>2, <2>4
  <2> QED BY <2>3, <2>5
<1>28. StandsFor(h, k, o)
  BY <1>27 DEF StandsFor, Seen, co, ca, cw, oa, ol, c
<1> QED
  BY <1>28 DEF h, r

LEMMA OwedIs ==
    ASSUME ScanAssumption, ScanTypes, NEW h
    PROVE  h \in Owed <=> \E j \in 1..Len(scanned.runs) : \E o \in content :
                            Owes(scanned.runs[j], o) /\ h = Place(o, scanned.runs[j])
<1>1. scanned.runs \in Seq([offset : Nat, mapped : Nat, size : Nat])
  BY DEF ScanTypes, ScanAssumption
<1>2. DOMAIN scanned.runs = 1..Len(scanned.runs)
  BY <1>1, LenProperties
<1>3. \A d : d \in Due <=> \E j \in 1..Len(scanned.runs) : \E o \in content :
                 Owes(scanned.runs[j], o) /\ d = <<Place(o, scanned.runs[j]), o>>
  BY <1>2 DEF Due, ToSet
<1>4. h \in Owed <=> \E d \in Due : h = d[1]
  BY DEF Owed
<1>5. ASSUME NEW d \in Due, h = d[1]
      PROVE  \E j \in 1..Len(scanned.runs) : \E o \in content :
                 Owes(scanned.runs[j], o) /\ h = Place(o, scanned.runs[j])
  BY <1>3, <1>5
<1>6. ASSUME NEW j \in 1..Len(scanned.runs), NEW o \in content,
             Owes(scanned.runs[j], o), h = Place(o, scanned.runs[j])
      PROVE  \E d \in Due : h = d[1]
  <2>1. <<h, o>> \in Due
    BY <1>3, <1>6
  <2> QED BY <2>1
<1> QED
  BY <1>4, <1>5, <1>6

\* All that is owed is found, and nothing else.
LEMMA HitsAreOwed ==
    ASSUME ScanAssumption, NoneWithin, RunsAreInFile, ScanInv,
           pc \notin {"sort", "trim", "lay"}, NEW h
    PROVE  h \in Owed <=> h \in Nat /\ FoundIn(h, Len(chunks))
<1>1. ScanTypes
  BY DEF ScanInv
<1>2. FoundIn(h, Len(chunks)) <=> \E k \in 1..Len(chunks) : \E o \in content : StandsFor(h, k, o)
  BY <1>1, FoundIs DEF FoundIn
<1>3. ASSUME NEW k \in 1..Len(chunks), NEW o \in content, StandsFor(h, k, o)
      PROVE  h \in Owed /\ h \in Nat
  <2>1. h \in Nat /\ \E j \in 1..Len(scanned.runs) :
                        Owes(scanned.runs[j], o) /\ h = Place(o, scanned.runs[j])
    BY <1>3, SeenIsOwed
  <2> QED BY <1>1, <2>1, OwedIs
<1>4. ASSUME h \in Owed
      PROVE  \E k \in 1..Len(chunks) : \E o \in content : StandsFor(h, k, o)
  <2>1. PICK j \in 1..Len(scanned.runs), o \in content :
          Owes(scanned.runs[j], o) /\ h = Place(o, scanned.runs[j])
    BY <1>1, <1>4, OwedIs
  <2> QED BY <2>1, OwedIsSeen
<1> QED
  BY <1>2, <1>3, <1>4

\* A scan that ends by itself has reported what it owes, all of it and no more.
THEOREM ScanReportsAll ==
    ASSUME NoneWithin, RunsAreInFile PROVE ScanSpec => []FinishedReportsAll
<1>1. ScanInv => FinishedReportsAll
  <2> SUFFICES ASSUME ScanInv, pc = "done", ~ stopped PROVE ToSet(reported) = Owed
    BY DEF FinishedReportsAll
  <2>1. base = Len(chunks) /\ pending = <<>>
    BY DEF ScanInv, Batched
  <2>2. reported \in Seq(Nat)
    BY DEF ScanInv, ScanTypes
  <2>3. \A h : h \in ToSet(reported) <=> h \in Nat /\ Among(reported, h)
    <3>1. DOMAIN reported = 1..Len(reported) /\ \A i \in 1..Len(reported) : reported[i] \in Nat
      BY <2>2, ElementOfSeq, LenProperties
    <3> QED BY <3>1 DEF ToSet, Among
  <2>4. \A h : ~ Among(pending, h)
    <3>1. Len(<<>>) = 0 /\ 1..0 = {}
      OBVIOUS
    <3> QED BY <2>1, <3>1 DEF Among
  <2>5. \A h \in Nat : Among(reported, h) <=> FoundIn(h, Len(chunks))
    BY <2>1, <2>4 DEF ScanInv, HandedOver
  <2>6. \A h : h \in Owed <=> h \in Nat /\ FoundIn(h, Len(chunks))
    BY ScanAssumption, HitsAreOwed
  <2> QED BY <2>3, <2>5, <2>6
<1> QED
  BY <1>1, ScanInvariance, PTL

\* A caller that takes the first hits takes the lowest: what it has is every owed hit up
\* to the last it has, in order, whatever was examined first.
THEOREM FirstHitsAreLowest ==
    ASSUME NoneWithin, RunsAreInFile PROVE ScanSpec => []FirstIsLowest
<1>1. ScanInv => FirstIsLowest
  <2> SUFFICES ASSUME ScanInv, kind = "bytes" PROVE ReportedInOrder
    BY DEF FirstIsLowest
  <2>1. /\ ScanTypes /\ reported \in Seq(Nat) /\ pending \in Seq(Nat)
        /\ Len(reported) \in Nat /\ Len(pending) \in Nat
        /\ base \in 0..Len(chunks) /\ Len(chunks) \in Nat
    BY DEF ScanInv, ScanTypes
  <2>2. DOMAIN reported = 1..Len(reported) /\ \A i \in 1..Len(reported) : reported[i] \in Nat
    BY <2>1, ElementOfSeq, LenProperties
  <2>3. \A h : h \in ToSet(reported) <=> h \in Nat /\ Among(reported, h)
    BY <2>2 DEF ToSet, Among
  <2>4. Rising(reported \o pending)
    BY DEF ScanInv, HandedOver
  <2>5. /\ Len(reported \o pending) = Len(reported) + Len(pending)
        /\ \A x \in 1..(Len(reported) + Len(pending)) :
             (reported \o pending)[x] = IF x <= Len(reported) THEN reported[x] ELSE pending[x - Len(reported)]
    BY <2>1, ConcatProperties
  <2>6. ASSUME NEW i \in 1..Len(reported), NEW j \in 1..Len(reported), i < j
        PROVE  reported[i] < reported[j]
    <3>1. i \in 1..(Len(reported) + Len(pending)) /\ i <= Len(reported)
          /\ j \in 1..(Len(reported) + Len(pending)) /\ j <= Len(reported)
      BY <2>1
    <3> QED BY <2>4, <2>5, <2>6, <3>1 DEF Rising
  <2>7. ASSUME NEW i \in 1..Len(reported), NEW j \in 1..Len(pending)
        PROVE  reported[i] < pending[j]
    <3>1. /\ i \in 1..(Len(reported) + Len(pending)) /\ i <= Len(reported)
          /\ Len(reported) + j \in 1..(Len(reported) + Len(pending))
          /\ ~ (Len(reported) + j <= Len(reported)) /\ (Len(reported) + j) - Len(reported) = j
          /\ i < Len(reported) + j
      BY <2>1
    <3>2. (reported \o pending)[i] = reported[i] /\ (reported \o pending)[Len(reported) + j] = pending[j]
      BY <2>5, <3>1
    <3>3. (reported \o pending)[i] < (reported \o pending)[Len(reported) + j]
      BY <2>4, <2>5, <3>1 DEF Rising
    <3> QED BY <3>2, <3>3
  <2>8. CASE reported = <<>>
    <3>1. ToSet(reported) = {}
      <4>1. Len(<<>>) = 0 /\ 1..0 = {}
        OBVIOUS
      <4> QED BY <2>3, <2>8, <4>1 DEF Among
    <3>2. ToSet(reported) = {h \in Owed : reported # <<>> /\ h <= Last(reported)}
      BY <2>8, <3>1
    <3> QED BY <2>2, <2>6, <3>2 DEF ReportedInOrder
  <2>9. CASE reported # <<>>
    <3> DEFINE n == Len(reported)
               last == reported[n]
    <3>1. n \in 1..n /\ last \in Nat /\ Last(reported) = last
      BY <2>1, <2>2, <2>9, EmptySeq DEF Last
    <3>2. pc \notin {"sort", "trim", "lay"} /\ ~Keeps
      BY <2>9 DEF ScanInv, Unlaid, Keeps
    <3>3. \A h \in Nat : Among(reported, h) \/ Among(pending, h) <=> FoundIn(h, base)
      BY DEF ScanInv, HandedOver
    <3>4. \A h : h \in Owed <=> h \in Nat /\ FoundIn(h, Len(chunks))
      BY <3>2, ScanAssumption, HitsAreOwed
    <3>5. \A k \in 1..base : k \in 1..Len(chunks)
      BY <2>1
    <3>6. ASSUME NEW h \in ToSet(reported) PROVE h \in Owed /\ h <= last
      <4>1. h \in Nat /\ Among(reported, h)
        BY <2>3
      <4>2. FoundIn(h, Len(chunks))
        BY <3>3, <3>5, <4>1 DEF FoundIn
      <4>3. PICK i \in 1..n : reported[i] = h
        BY <4>1 DEF Among
      <4>4. i = n \/ i < n
        BY <2>1
      <4>5. h <= last
        BY <2>6, <3>1, <4>1, <4>3, <4>4
      <4> QED BY <3>4, <4>1, <4>2, <4>5
    <3>7. ASSUME NEW h \in Owed, h <= last PROVE h \in ToSet(reported)
      <4>1. h \in Nat /\ FoundIn(h, Len(chunks))
        BY <3>4
      <4>2. PICK k \in 1..Len(chunks) : \E i \in 1..Len(Hits(chunks[k])) : h = Hits(chunks[k])[i]
        BY <4>1 DEF FoundIn
      <4>3. CASE k \in 1..base
        <5>1. Among(reported, h) \/ Among(pending, h)
          BY <3>3, <4>1, <4>2, <4>3 DEF FoundIn
        <5>2. CASE Among(pending, h)
          <6>1. PICK j \in 1..Len(pending) : pending[j] = h
            BY <5>2 DEF Among
          <6>2. last < h
            BY <2>7, <3>1, <6>1
          <6> QED BY <3>1, <3>7, <4>1, <6>2
        <5> QED BY <2>3, <4>1, <5>1, <5>2
      <4>4. CASE k \notin 1..base
        <5>1. FoundIn(last, base)
          <6>1. Among(reported, last)
            BY <3>1 DEF Among
          <6> QED BY <3>1, <3>3, <6>1
        <5>2. PICK l \in 1..base : \E i \in 1..Len(Hits(chunks[l])) : last = Hits(chunks[l])[i]
          BY <5>1 DEF FoundIn
        <5>3. l \in 1..Len(chunks) /\ l < k
          BY <2>1, <3>5, <4>4
        <5> HIDE DEF last
        <5>4. (\E o \in content : StandsFor(last, l, o)) /\ (\E o \in content : StandsFor(h, k, o))
          BY <2>1, <4>2, <5>2, <5>3, ScanAssumption, FoundIs
        <5>5. last < h
          BY <3>2, <5>3, <5>4, ScanAssumption, HitsOfChunksRise
        <5> QED BY <3>1, <3>7, <4>1, <5>5
      <4> QED BY <4>3, <4>4
    <3>8. ToSet(reported) = {h \in Owed : reported # <<>> /\ h <= Last(reported)}
      BY <2>9, <3>1, <3>6, <3>7
    <3> QED BY <2>2, <2>6, <3>8 DEF ReportedInOrder
  <2> QED BY <2>8, <2>9
<1> QED
  BY <1>1, ScanInvariance, PTL

\* A match is seen at one place in at most two chunks.
LEMMA SeenTwice ==
    ASSUME ScanAssumption, ScanInv, pc \notin {"sort", "trim"},
           NEW k \in 1..Len(chunks), NEW l \in 1..Len(chunks), NEW m \in 1..Len(chunks),
           k < l, l < m, NEW h, NEW o,
           StandsFor(h, k, o), StandsFor(h, l, o), StandsFor(h, m, o)
    PROVE  FALSE
<1> DEFINE c == chunks[k]
           e == chunks[l]
           g == chunks[m]
<1>1. c \in Chunk /\ e \in Chunk /\ g \in Chunk /\ ScanTypes
  BY ElementOfSeq DEF ScanInv, ScanTypes
<1>2. Behind(c, e) /\ Behind(e, g)
  BY DEF ScanInv, ChunksAreLaid
<1>3. /\ o \in content
      /\ c.at <= o.at /\ o.at + o.len <= c.at + c.want /\ h = c.offset + (o.at - c.at)
      /\ e.at <= o.at /\ o.at + o.len <= e.at + e.want /\ h = e.offset + (o.at - e.at)
      /\ g.at <= o.at /\ h = g.offset + (o.at - g.at)
  BY DEF StandsFor, Seen
<1>4. c.want <= ChunkSize + Overlap
  BY DEF ScanInv, ChunksAreLaid, IsChunkOf
<1> HIDE DEF c, e, g
<1>5. o \in [at : Nat, len : 1..(Overlap + 1)] /\ Overlap \in Nat /\ ChunkSize \in Nat /\ Overlap <= ChunkSize
  BY <1>1, <1>3 DEF ScanTypes, ScanAssumption
<1>6. o.at \in Nat /\ o.len \in Nat /\ o.len # 0
  BY <1>5
<1>7. /\ c.at \in Nat /\ c.offset \in Nat /\ c.want \in Nat
      /\ e.at \in Nat /\ e.offset \in Nat /\ e.want \in Nat
      /\ g.at \in Nat /\ g.offset \in Nat
  BY <1>1 DEF Chunk
<1> DEFINE co == c.offset
           ca == c.at
           cw == c.want
           eo == e.offset
           ea == e.at
           ew == e.want
           go == g.offset
           ga == g.at
           oa == o.at
           ol == o.len
<1>8. /\ co \in Nat /\ ca \in Nat /\ cw \in Nat /\ eo \in Nat /\ ea \in Nat /\ ew \in Nat
      /\ go \in Nat /\ ga \in Nat /\ oa \in Nat /\ ol \in Nat /\ ol # 0
      /\ Overlap \in Nat /\ ChunkSize \in Nat /\ Overlap <= ChunkSize
  BY <1>5, <1>6, <1>7
<1>9. /\ ca <= oa /\ oa + ol <= ca + cw /\ h = co + (oa - ca) /\ cw <= ChunkSize + Overlap
      /\ ea <= oa /\ oa + ol <= ea + ew /\ h = eo + (oa - ea)
      /\ ga <= oa /\ h = go + (oa - ga)
      /\ co + cw <= eo \/ co + ChunkSize <= eo
      /\ eo + ew <= go \/ eo + ChunkSize <= go
  BY <1>2, <1>3, <1>4 DEF Behind
<1> HIDE DEF co, ca, cw, eo, ea, ew, go, ga, oa, ol
<1>10. h \in Nat /\ eo <= h /\ go <= h /\ h + ol <= co + cw /\ h + ol <= eo + ew
  BY <1>8, <1>9
<1>11. co + ChunkSize <= eo
  BY <1>8, <1>9, <1>10
<1>12. eo + ChunkSize <= go
  BY <1>8, <1>9, <1>10
<1> QED
  BY <1>8, <1>9, <1>10, <1>11, <1>12

\* No hit is passed on too often: once, or by a scanner that reports both regions once
\* for each of the two chunks that see it.
THEOREM HitsAreNotRepeated == ASSUME NoneWithin PROVE ScanSpec => []NoHitTooOften
<1>1. ScanInv => NoHitTooOften
  <2> SUFFICES ASSUME ScanInv, NEW h \in ToSet(reported)
               PROVE  Cardinality({i \in DOMAIN reported : reported[i] = h}) <=
                        IF Keeps THEN 2 * Cardinality({d \in Due : d[1] = h}) ELSE 1
    BY DEF NoHitTooOften
  <2> DEFINE n == Len(reported)
             I == {i \in DOMAIN reported : reported[i] = h}
             D == {d \in Due : d[1] = h}
  <2>1. /\ ScanTypes /\ reported \in Seq(Nat) /\ pending \in Seq(Nat)
        /\ n \in Nat /\ Len(pending) \in Nat /\ DOMAIN reported = 1..n
        /\ base \in 0..Len(chunks) /\ Len(chunks) \in Nat
    BY LenProperties DEF ScanInv, ScanTypes
  <2>2. pc \notin {"sort", "trim", "lay"}
    <3>1. reported # <<>>
      <4>1. DOMAIN <<>> = {}
        OBVIOUS
      <4> QED BY <4>1 DEF ToSet
    <3> QED BY <3>1 DEF ScanInv, Unlaid
  <2>3. \A i : i \in I <=> i \in 1..n /\ reported[i] = h
    BY <2>1
  <2>4. CASE ~Keeps
    <3>1. PICK i \in 1..n : reported[i] = h
      BY <2>1 DEF ToSet
    <3>2. \A a, b \in 1..n : reported[a] = reported[b] => a = b
      BY <2>4 DEF ScanInv, HandedOver
    <3>3. I = {i}
      <4> HIDE DEF I
      <4> QED BY <2>3, <3>1, <3>2
    <3>4. Cardinality(I) = 1
      BY <3>3, FS_Singleton
    <3> QED BY <2>4, <3>4
  <2>5. CASE Keeps
    <3>1. PICK w \in [1..Len(reported \o pending) -> (1..base) \X content] :
            /\ \A i \in 1..Len(reported \o pending) : StandsFor((reported \o pending)[i], w[i][1], w[i][2])
            /\ \A i, j \in 1..Len(reported \o pending) : w[i] = w[j] => i = j
      BY <2>5 DEF ScanInv, HandedOver, Traced
    <3>2. /\ Len(reported \o pending) = n + Len(pending)
          /\ \A x \in 1..(n + Len(pending)) :
               (reported \o pending)[x] = IF x <= n THEN reported[x] ELSE pending[x - n]
      BY <2>1, ConcatProperties
    <3>3. \A i \in 1..n : i \in 1..(n + Len(pending)) /\ i <= n
      BY <2>1
    <3> HIDE DEF I, D, n
    <3>4. ASSUME NEW i \in I
          PROVE  /\ i \in 1..(n + Len(pending)) /\ w[i] = <<w[i][1], w[i][2]>>
                 /\ w[i][1] \in 1..Len(chunks) /\ w[i][2] \in content
                 /\ StandsFor(h, w[i][1], w[i][2])
                 /\ <<h, w[i][2]>> \in D
      <4>1. i \in 1..n /\ reported[i] = h /\ i \in 1..(n + Len(pending)) /\ i <= n
        BY <2>3, <3>3
      <4>2. StandsFor(h, w[i][1], w[i][2]) /\ w[i] \in (1..base) \X content
        BY <3>1, <3>2, <4>1
      <4>3. w[i] = <<w[i][1], w[i][2]>> /\ w[i][1] \in 1..base /\ w[i][2] \in content
        BY <4>2
      <4>4. w[i][1] \in 1..Len(chunks)
        BY <2>1, <4>3
      <4>5. PICK j \in 1..Len(scanned.runs) : Owes(scanned.runs[j], w[i][2]) /\ h = Place(w[i][2], scanned.runs[j])
        BY <2>2, <4>2, <4>4, ScanAssumption, SeenIsOwed
      <4>6. <<h, w[i][2]>> \in Due
        <5>1. DOMAIN scanned.runs = 1..Len(scanned.runs)
          <6>1. scanned.runs \in Seq([offset : Nat, mapped : Nat, size : Nat])
            BY <2>1, ScanAssumption DEF ScanTypes, ScanAssumption
          <6> QED BY <6>1, LenProperties
        <5>2. scanned.runs[j] \in ToSet(scanned.runs)
          BY <5>1 DEF ToSet
        <5> QED BY <4>3, <4>5, <5>2 DEF Due
      <4> QED BY <4>1, <4>2, <4>3, <4>4, <4>6 DEF D
    <3> DEFINE Again(i) == \E j \in I : w[j][2] = w[i][2] /\ w[j][1] < w[i][1]
               f == [i \in I |-> <<<<h, w[i][2]>>, IF Again(i) THEN 2 ELSE 1>>]
    <3>5. f \in [I -> D \X {1, 2}]
      BY <3>4
    <3>6. ASSUME NEW i \in I, NEW j \in I, f[i] = f[j], w[i][1] < w[j][1] PROVE FALSE
      <4>1. w[i][2] = w[j][2] /\ (Again(i) <=> Again(j))
        <5>1. /\ f[i][1] = <<h, w[i][2]>> /\ f[i][2] = IF Again(i) THEN 2 ELSE 1
              /\ f[j][1] = <<h, w[j][2]>> /\ f[j][2] = IF Again(j) THEN 2 ELSE 1
          OBVIOUS
        <5> HIDE DEF f, Again
        <5>2. <<h, w[i][2]>> = <<h, w[j][2]>> /\ (IF Again(i) THEN 2 ELSE 1) = (IF Again(j) THEN 2 ELSE 1)
          BY <3>6, <5>1
        <5> QED BY <5>2
      <4>2. Again(j)
        BY <3>6, <4>1
      <4>3. PICK a \in I : w[a][2] = w[i][2] /\ w[a][1] < w[i][1]
        BY <4>1, <4>2
      <4> HIDE DEF f, Again
      <4>4. /\ w[a][1] \in 1..Len(chunks) /\ w[i][1] \in 1..Len(chunks) /\ w[j][1] \in 1..Len(chunks)
            /\ StandsFor(h, w[a][1], w[i][2]) /\ StandsFor(h, w[i][1], w[i][2]) /\ StandsFor(h, w[j][1], w[i][2])
        BY <3>4, <4>1, <4>3
      <4> QED BY <2>2, <3>6, <4>3, <4>4, ScanAssumption, SeenTwice
    <3>7. ASSUME NEW i \in I, NEW j \in I, f[i] = f[j] PROVE i = j
      <4>1. w[i][2] = w[j][2]
        <5>1. f[i][1] = <<h, w[i][2]>> /\ f[j][1] = <<h, w[j][2]>>
          OBVIOUS
        <5> HIDE DEF f
        <5>2. <<h, w[i][2]>> = <<h, w[j][2]>>
          BY <3>7, <5>1
        <5> QED BY <5>2
      <4> HIDE DEF f
      <4>2. ~ (w[i][1] < w[j][1]) /\ ~ (w[j][1] < w[i][1])
        BY <3>6, <3>7
      <4>3. w[i][1] \in Int /\ w[j][1] \in Int
        <5>1. \A x \in 1..Len(chunks) : x \in Int
          OBVIOUS
        <5> QED BY <3>4, <5>1
      <4>4. w[i][1] = w[j][1]
        BY <4>2, <4>3
      <4>5. w[i] = w[j]
        BY <3>4, <4>1, <4>4
      <4> QED BY <3>1, <3>2, <3>4, <4>5
    <3> HIDE DEF f
    <3>8. IsFiniteSet(D) /\ Cardinality(D) \in Nat
      <4>1. IsFiniteSet(content)
        BY <2>1, ScanAssumption DEF ScanTypes, ScanAssumption
      <4>2. IsFiniteSet({h} \X content)
        BY <4>1, FS_Singleton, FS_Product
      <4>3. D \in SUBSET ({h} \X content)
        BY DEF D, Due
      <4>4. IsFiniteSet(D)
        BY <4>2, <4>3, FS_Subset
      <4> QED BY <4>4, FS_CardinalityType
    <3>9. IsFiniteSet({1, 2}) /\ Cardinality({1, 2}) = 2
      <4>1. {1, 2} = {1} \cup {2} /\ 2 \notin {1}
        OBVIOUS
      <4>2. IsFiniteSet({1}) /\ Cardinality({1}) = 1
        BY FS_Singleton
      <4>3. /\ IsFiniteSet({1} \cup {2})
            /\ Cardinality({1} \cup {2}) = IF 2 \in {1} THEN Cardinality({1}) ELSE Cardinality({1}) + 1
        BY <4>2, FS_AddElement
      <4>4. Cardinality({1} \cup {2}) = Cardinality({1}) + 1
        BY <4>1, <4>3
      <4> DEFINE T == {1, 2}
      <4>5. T = {1} \cup {2}
        BY <4>1
      <4> HIDE DEF T
      <4>6. IsFiniteSet(T) /\ Cardinality(T) = Cardinality({1}) + 1
        BY <4>3, <4>4, <4>5
      <4>7. Cardinality(T) = 2
        BY <4>2, <4>6
      <4> QED BY <4>6, <4>7 DEF T
    <3>10. IsFiniteSet(D \X {1, 2}) /\ Cardinality(D \X {1, 2}) = Cardinality(D) * 2
      BY <3>8, <3>9, FS_Product
    <3>11. f \in Injection(I, D \X {1, 2})
      BY <3>5, <3>7 DEF Injection, IsInjective
    <3>12. Cardinality(I) <= Cardinality(D) * 2
      BY <3>10, <3>11, FS_Injection
    <3>13. Cardinality(D) * 2 = 2 * Cardinality(D)
      BY <3>8
    <3>14. Cardinality(I) <= 2 * Cardinality(D)
      BY <3>12, <3>13
    <3> QED BY <2>5, <3>14 DEF I, D
  <2> QED BY <2>4, <2>5
<1> QED
  BY <1>1, ScanInvariance, PTL
=============================================================================
