----------------------------- MODULE Intel_proofs -----------------------------
(***************************************************************************)
(* Proofs about the caches of the translation layer.  For any number of    *)
(* threads, any paging structure, any images and any sizes of the caches:  *)
(* what a thread takes from a cache is what it would have found without    *)
(* one, and so is what it maps.                                            *)
(***************************************************************************)
EXTENDS Intel, FiniteSetTheorems, WellFoundedInduction, TLAPS

-----------------------------------------------------------------------------
(* The walk without caches.                                                *)

\* One equation of its recursive definition.
WalkStep(page, f, l) ==
    IF l = 0 THEN [goes_on |-> TRUE, walk |-> Reached(Root, VirtualBits)]
    ELSE Through(f[l - 1], l, page)

\* For any number of levels there is a function that satisfies the equations.  The
\* proof looks at the least number for which there is none.
LEMMA WalkExists ==
    ASSUME NEW page, NEW k \in Nat
    PROVE  \E f : f = [l \in 0..k |-> WalkStep(page, f, l)]
<1> DEFINE Less == {ss \in Nat \X Nat : ss[1] < ss[2]}
           P(j) == \E f : f = [l \in 0..j |-> WalkStep(page, f, l)]
           bad == {j \in Nat : ~P(j)}
<1>1. IsWellFoundedOn(Less, Nat)
  BY NatLessThanWellFounded DEF OpToRel
<1>2. SUFFICES ASSUME bad # {} PROVE FALSE
  OBVIOUS
<1>3. PICK j \in bad : \A m \in bad : ~ (<<m, j>> \in Less)
  <2>1. bad \in SUBSET Nat
    OBVIOUS
  <2> HIDE DEF Less, bad
  <2> QED BY <1>1, <1>2, <2>1, WFMin
<1>4. j \in Nat /\ ~P(j) /\ \A m \in Nat : m < j => P(m)
  BY <1>3
<1>5. CASE j = 0
  <2> DEFINE f == [l \in 0..0 |-> [goes_on |-> TRUE, walk |-> Reached(Root, VirtualBits)]]
  <2>1. f = [l \in 0..0 |-> WalkStep(page, f, l)]
    BY DEF WalkStep
  <2> HIDE DEF f
  <2> QED BY <2>1, <1>4, <1>5
<1>6. CASE j # 0
  <2>1. P(j - 1)
    BY <1>4, <1>6
  <2>2. PICK f : f = [l \in 0..(j - 1) |-> WalkStep(page, f, l)]
    BY <2>1
  <2> DEFINE g == [l \in 0..j |-> IF l = j THEN WalkStep(page, f, j) ELSE f[l]]
  <2>3. ASSUME NEW l \in 0..j PROVE g[l] = WalkStep(page, g, l)
    <3>1. CASE l = 0
      <4>1. g[l] = f[0] /\ 0 \in 0..(j - 1)
        BY <1>4, <1>6, <3>1
      <4>2. f[0] = WalkStep(page, f, 0)
        <5> HIDE DEF g
        <5> QED BY <4>1, <2>2
      <4> HIDE DEF g
      <4> QED BY <3>1, <4>1, <4>2 DEF WalkStep
    <3>2. CASE l # 0
      <4>1. g[l - 1] = f[l - 1] /\ l - 1 \in 0..(j - 1)
        BY <1>4, <3>2
      <4>2. g[l] = WalkStep(page, f, l)
        <5>1. CASE l = j
          BY <5>1
        <5>2. CASE l # j
          <6>1. g[l] = f[l] /\ l \in 0..(j - 1)
            BY <1>4, <5>2
          <6> HIDE DEF g
          <6> QED BY <2>2, <6>1
        <5> QED BY <5>1, <5>2
      <4> HIDE DEF g
      <4> QED BY <3>2, <4>1, <4>2 DEF WalkStep
    <3> QED BY <3>1, <3>2
  <2>4. g = [l \in 0..j |-> g[l]]
    OBVIOUS
  <2>5. g = [l \in 0..j |-> WalkStep(page, g, l)]
    <3> HIDE DEF g
    <3> QED BY <2>3, <2>4
  <2> HIDE DEF g
  <2> QED BY <2>5, <1>4
<1> QED BY <1>5, <1>6

\* So the definition is what it says: the root first, and then table by table.
LEMMA WalkUnfolds ==
    ASSUME NEW page
    PROVE  /\ UncachedWalk(page)[0] = [goes_on |-> TRUE, walk |-> Reached(Root, VirtualBits)]
           /\ \A l \in 1..Levels :
                UncachedWalk(page)[l] = Through(UncachedWalk(page)[l - 1], l, page)
<1> DEFINE after[l \in 0..Levels] ==
             IF l = 0 THEN [goes_on |-> TRUE, walk |-> Reached(Root, VirtualBits)]
             ELSE Through(after[l - 1], l, page)
<1>1. UncachedWalk(page) = after
  BY DEF UncachedWalk
<1>2. \E f : f = [l \in 0..Levels |-> WalkStep(page, f, l)]
  <2>1. Levels \in Nat
    BY ConstantsAssumption
  <2> HIDE DEF after
  <2> QED BY <2>1, WalkExists
<1>3. \E f : f = [l \in 0..Levels |->
                    IF l = 0 THEN [goes_on |-> TRUE, walk |-> Reached(Root, VirtualBits)]
                    ELSE Through(f[l - 1], l, page)]
  BY <1>2 DEF WalkStep
<1>4. after = [l \in 0..Levels |->
                 IF l = 0 THEN [goes_on |-> TRUE, walk |-> Reached(Root, VirtualBits)]
                 ELSE Through(after[l - 1], l, page)]
  BY <1>3
<1> HIDE DEF after
<1>5. Levels \in Nat
  BY ConstantsAssumption
<1>6. after[0] = [goes_on |-> TRUE, walk |-> Reached(Root, VirtualBits)]
  BY <1>4, <1>5
<1>7. ASSUME NEW l \in 1..Levels PROVE after[l] = Through(after[l - 1], l, page)
  <2>1. l \in 0..Levels /\ l # 0
    BY <1>5
  <2> QED BY <1>4, <2>1
<1> QED BY <1>1, <1>6, <1>7

\* A walk that has ended stays as it is.
LEMMA EndedWalkStays ==
    ASSUME NEW page, NEW l \in 0..Levels, ~UncachedWalk(page)[l].goes_on
    PROVE  WalkOf(page) = UncachedWalk(page)[l].walk
<1> DEFINE U == UncachedWalk(page)
           Less == {ss \in Nat \X Nat : ss[1] < ss[2]}
           bad == {j \in l..Levels : U[j] # U[l]}
<1>1. IsWellFoundedOn(Less, Nat)
  BY NatLessThanWellFounded DEF OpToRel
<1>2. Levels \in Nat /\ l \in Nat
  BY ConstantsAssumption
<1>3. bad = {}
  <2>1. SUFFICES ASSUME bad # {} PROVE FALSE
    OBVIOUS
  <2>2. bad \in SUBSET Nat
    BY <1>2
  <2>3. PICK j \in bad : \A m \in bad : ~ (<<m, j>> \in Less)
    <3> HIDE DEF Less, bad
    <3> QED BY <1>1, <2>1, <2>2, WFMin
  <2>4. j \in l..Levels /\ U[j] # U[l] /\ j # l
    OBVIOUS
  <2>5. j - 1 \in l..Levels /\ j \in 1..Levels /\ <<j - 1, j>> \in Less
    <3> HIDE DEF U
    <3> QED BY <1>2, <2>4
  <2>6. U[j - 1] = U[l]
    <3>1. j - 1 \notin bad
      <4> HIDE DEF Less, bad
      <4> QED BY <2>3, <2>5
    <3> HIDE DEF U
    <3> QED BY <2>5, <3>1
  <2>7. U[j] = Through(U[j - 1], j, page)
    BY <2>5, WalkUnfolds
  <2>8. ~U[j - 1].goes_on
    <3>1. ~U[l].goes_on
      OBVIOUS
    <3> HIDE DEF U
    <3> QED BY <2>6, <3>1
  <2> HIDE DEF U
  <2> QED BY <2>4, <2>6, <2>7, <2>8 DEF Through
<1>4. U[Levels] = U[l]
  <2>1. Levels \in l..Levels
    BY <1>2
  <2>2. Levels \notin bad
    <3> HIDE DEF bad
    <3> QED BY <1>3
  <2> HIDE DEF U
  <2> QED BY <2>1, <2>2
<1> QED BY <1>4 DEF WalkOf

-----------------------------------------------------------------------------
(* The caches.                                                             *)

\* What a cache that was put into holds: what was put, and nothing else that it did
\* not hold before; it is not larger than it may be.
LEMMA PutKeeps ==
    ASSUME NEW c, NEW k, NEW v, NEW capacity \in Nat \ {0},
           IsFiniteSet(DOMAIN c), Cardinality(DOMAIN c) <= capacity,
           NEW d \in Put(c, k, v, capacity)
    PROVE  /\ IsFiniteSet(DOMAIN d) /\ Cardinality(DOMAIN d) <= capacity
           /\ \A x \in DOMAIN d : d[x] = IF x = k THEN v ELSE c[x]
           /\ \A x \in DOMAIN d : x = k \/ x \in DOMAIN c
<1> DEFINE with(D) == [x \in D \cup {k} |-> IF x = k THEN v ELSE c[x]]
<1>1. Cardinality(DOMAIN c) \in Nat
  BY FS_CardinalityType
<1>2. CASE k \in DOMAIN c \/ Cardinality(DOMAIN c) < capacity
  <2>1. d = with(DOMAIN c)
    BY <1>2 DEF Put
  <2>2. DOMAIN d = DOMAIN c \cup {k}
    BY <2>1
  <2>3. IsFiniteSet(DOMAIN d) /\ Cardinality(DOMAIN d) <= capacity
    <3>1. /\ IsFiniteSet(DOMAIN c \cup {k})
          /\ Cardinality(DOMAIN c \cup {k}) =
               IF k \in DOMAIN c THEN Cardinality(DOMAIN c) ELSE Cardinality(DOMAIN c) + 1
      BY FS_AddElement
    <3> QED BY <1>1, <1>2, <2>2, <3>1
  <2> QED BY <2>1, <2>2, <2>3
<1>3. CASE ~(k \in DOMAIN c \/ Cardinality(DOMAIN c) < capacity)
  <2>1. PICK x \in DOMAIN c : d = with(DOMAIN c \ {x})
    BY <1>3 DEF Put
  <2>2. DOMAIN d = (DOMAIN c \ {x}) \cup {k}
    BY <2>1
  <2>3. IsFiniteSet(DOMAIN d) /\ Cardinality(DOMAIN d) <= capacity
    <3>1. /\ IsFiniteSet(DOMAIN c \ {x})
          /\ Cardinality(DOMAIN c \ {x}) = Cardinality(DOMAIN c) - 1
      BY FS_RemoveElement
    <3>2. k \notin DOMAIN c \ {x}
      BY <1>3
    <3>3. /\ IsFiniteSet((DOMAIN c \ {x}) \cup {k})
          /\ Cardinality((DOMAIN c \ {x}) \cup {k}) = Cardinality(DOMAIN c \ {x}) + 1
      BY <3>1, <3>2, FS_AddElement
    <3> QED BY <1>1, <2>2, <3>1, <3>3
  <2> QED BY <2>1, <2>2, <2>3
<1> QED BY <1>2, <1>3

\* The layer below does not change, so neither does what a walk finds in it.
LEMMA WalkIsSteady ==
    ASSUME memory' = memory
    PROVE  /\ \A e : page_is_valid(e)' <=> page_is_valid(e)
           /\ \A frame : ValidTable(frame)' = ValidTable(frame)
           /\ \A page : UncachedWalk(page)' = UncachedWalk(page)
           /\ \A page : WalkOf(page)' = WalkOf(page)
<1>1. \A e : page_is_valid(e)' <=> page_is_valid(e)
  BY DEF page_is_valid
<1>2. \A frame : ValidTable(frame)' = ValidTable(frame)
  BY DEF ValidTable
<1>3. \A page : UncachedWalk(page)' = UncachedWalk(page)
  BY <1>1, <1>2 DEF UncachedWalk, Through, Levels, ValidTable, page_is_valid
<1>4. \A page : WalkOf(page)' = WalkOf(page)
  BY <1>3 DEF WalkOf
<1> QED BY <1>1, <1>2, <1>3, <1>4

-----------------------------------------------------------------------------
(* The inductive invariant.                                                *)

Functions ==
    /\ DOMAIN pc = Workers /\ DOMAIN offset = Workers /\ DOMAIN level = Workers
    /\ DOMAIN walk = Workers /\ DOMAIN table = Workers

\* The cache of tables, and the cache of finished walks.
TablesAreTrue ==
    /\ IsFiniteSet(DOMAIN tableCache) /\ Cardinality(DOMAIN tableCache) <= TableCapacity
    /\ \A frame \in DOMAIN tableCache : tableCache[frame] = ValidTable(frame)

EntriesAreTrue ==
    /\ IsFiniteSet(DOMAIN entryCache) /\ Cardinality(DOMAIN entryCache) <= EntryCapacity
    /\ \A page \in DOMAIN entryCache : entryCache[page] = WalkOf(page)

\* A walk on its way is where the walk without caches is after as many tables.
OnTheWay(w) ==
    pc[w] \in {"walk", "read", "store"} =>
      /\ level[w] \in 1..Levels
      /\ UncachedWalk(PageOf(offset[w]))[level[w] - 1] = [goes_on |-> TRUE, walk |-> walk[w]]
      /\ walk[w] = Reached(walk[w].entry, walk[w].span)

\* The table a walk has read is the one its entry names.
TableIsRead(w) ==
    /\ pc[w] \in {"read", "store"} => page_is_valid(walk[w].entry)
    /\ pc[w] = "store" => table[w] = ValidTable(walk[w].entry.frame)

\* What a walk has found is what the walk without caches finds.
WalkIsTrue(w) == pc[w] \in {"keep", "map"} => walk[w] = WalkOf(PageOf(offset[w]))

WorkerIsTrue(w) == OnTheWay(w) /\ TableIsRead(w) /\ WalkIsTrue(w)

IInv ==
    /\ Functions
    /\ TablesAreTrue
    /\ EntriesAreTrue
    /\ \A w \in Workers : WorkerIsTrue(w)

-----------------------------------------------------------------------------
(* What a step needs.                                                      *)

\* A worker of whom nothing changes stays true.
LEMMA OtherStaysTrue ==
    ASSUME memory' = memory, NEW u \in Workers, WorkerIsTrue(u),
           pc'[u] = pc[u], offset'[u] = offset[u], level'[u] = level[u],
           walk'[u] = walk[u], table'[u] = table[u]
    PROVE  WorkerIsTrue(u)'
  BY WalkIsSteady DEF WorkerIsTrue, OnTheWay, TableIsRead, WalkIsTrue, Levels, PageOf

\* The caches a step leaves alone stay true.
LEMMA CachesStayTrue ==
    ASSUME memory' = memory
    PROVE  /\ TablesAreTrue /\ tableCache' = tableCache => TablesAreTrue'
           /\ EntriesAreTrue /\ entryCache' = entryCache => EntriesAreTrue'
  BY WalkIsSteady DEF TablesAreTrue, EntriesAreTrue

\* Going on with the table the entry names, or with none, the walk stays with the one
\* that has no caches.
LEMMA TakeIsTrue ==
    ASSUME memory' = memory, offset' = offset, Functions, NEW w \in Workers, WorkerIsTrue(w),
           pc[w] \in {"walk", "store"}, NEW t, Take(w, t),
           t = IF page_is_valid(walk[w].entry) THEN ValidTable(walk[w].entry.frame) ELSE Rejected
    PROVE  WorkerIsTrue(w)'
<1> DEFINE page == PageOf(offset[w])
           l == level[w]
           U == UncachedWalk(page)
<1>1. /\ l \in 1..Levels
      /\ U[l - 1] = [goes_on |-> TRUE, walk |-> walk[w]]
      /\ walk[w] = Reached(walk[w].entry, walk[w].span)
  BY DEF WorkerIsTrue, OnTheWay
<1>2. Levels \in Nat \ {0} /\ Levels' = Levels
  BY ConstantsAssumption DEF Levels
<1>3. U[l] = IF t = Rejected THEN [goes_on |-> FALSE, walk |-> Fault(walk[w].entry, walk[w].span)]
             ELSE [goes_on |-> ~EndsAt(l, t[IndexOf(l, page)]), walk |-> Descend(t, l, page)]
  <2>1. U[l] = Through(U[l - 1], l, page)
    BY <1>1, WalkUnfolds
  <2> HIDE DEF U, l, page
  <2> QED BY <1>1, <2>1 DEF Through
<1>4. /\ UncachedWalk(page)' = UncachedWalk(page) /\ WalkOf(page)' = WalkOf(page)
      /\ PageOf(offset[w])' = page
  BY WalkIsSteady DEF PageOf
<1>5. l \in 0..Levels
  <2> HIDE DEF l
  <2> QED BY <1>1, <1>2
<1>6. CASE t = Rejected
  <2>1. walk'[w] = Fault(walk[w].entry, walk[w].span) /\ pc'[w] = "map"
    <3>1. walk'[w] = [walk[w] EXCEPT !.ok = FALSE] /\ pc'[w] = "map"
      BY <1>6 DEF Take, Goto, Functions
    <3> QED BY <1>1, <3>1 DEF Reached, Fault
  <2>2. WalkOf(page) = Fault(walk[w].entry, walk[w].span)
    <3>1. ~U[l].goes_on /\ U[l].walk = Fault(walk[w].entry, walk[w].span)
      BY <1>3, <1>6
    <3> QED BY <1>5, <3>1, EndedWalkStays
  <2> QED BY <1>4, <2>1, <2>2 DEF WorkerIsTrue, OnTheWay, TableIsRead, WalkIsTrue
<1>7. CASE t # Rejected /\ EndsAt(l, t[IndexOf(l, page)])
  <2>1. walk'[w] = Descend(t, l, page) /\ pc'[w] = "keep"
    BY <1>7 DEF Take, Goto, Functions
  <2>2. WalkOf(page) = Descend(t, l, page)
    <3>1. U[l] = [goes_on |-> FALSE, walk |-> Descend(t, l, page)]
      <4>1. (~EndsAt(l, t[IndexOf(l, page)])) = FALSE
        BY <1>7
      <4> HIDE DEF U, l, page
      <4> QED BY <1>3, <1>7, <4>1
    <3>2. ~U[l].goes_on /\ U[l].walk = Descend(t, l, page)
      <4> HIDE DEF U, l, page
      <4> QED BY <3>1
    <3> QED BY <1>5, <3>2, EndedWalkStays
  <2> QED BY <1>4, <2>1, <2>2 DEF WorkerIsTrue, OnTheWay, TableIsRead, WalkIsTrue
<1>8. CASE t # Rejected /\ ~EndsAt(l, t[IndexOf(l, page)])
  <2>1. walk'[w] = Descend(t, l, page) /\ level'[w] = l + 1 /\ pc'[w] = "walk"
    BY <1>8 DEF Take, Goto, Functions
  <2>2. l + 1 \in 1..Levels /\ (l + 1) - 1 = l
    <3>1. l # Levels
      BY <1>8 DEF EndsAt
    <3> HIDE DEF l
    <3> QED BY <1>1, <1>2, <3>1
  <2>3. U[l] = [goes_on |-> TRUE, walk |-> Descend(t, l, page)]
    BY <1>3, <1>8
  <2>4. Descend(t, l, page) = Reached(Descend(t, l, page).entry, Descend(t, l, page).span)
    BY DEF Descend, Reached
  <2> QED BY <1>2, <1>4, <2>1, <2>2, <2>3, <2>4 DEF WorkerIsTrue, OnTheWay, TableIsRead, WalkIsTrue
<1> QED BY <1>6, <1>7, <1>8

\* Take goes on with that worker alone.
LEMMA TakeIsLocal ==
    ASSUME Functions, NEW w \in Workers, NEW t, Take(w, t)
    PROVE  /\ DOMAIN pc' = Workers /\ DOMAIN walk' = Workers /\ DOMAIN level' = Workers
           /\ \A u \in Workers \ {w} : pc'[u] = pc[u] /\ walk'[u] = walk[u] /\ level'[u] = level[u]
  BY DEF Take, Goto, Functions

-----------------------------------------------------------------------------
(* The invariant is inductive.                                             *)

LEMMA InitIInv == Init => IInv
<1> SUFFICES ASSUME Init PROVE IInv
  OBVIOUS
<1>1. Functions
  BY DEF Init, Functions
<1>2. TablesAreTrue /\ EntriesAreTrue
  <2>1. DOMAIN tableCache = {} /\ DOMAIN entryCache = {}
    BY DEF Init
  <2> QED BY <2>1, FS_EmptySet, ConstantsAssumption DEF TablesAreTrue, EntriesAreTrue
<1>3. \A w \in Workers : WorkerIsTrue(w)
  BY DEF Init, WorkerIsTrue, OnTheWay, TableIsRead, WalkIsTrue
<1> QED BY <1>1, <1>2, <1>3 DEF IInv

\* One lemma for each action.
LEMMA AskIsTrue ==
    ASSUME IInv, NEW w \in Workers, Ask(w) PROVE IInv'
<1>1. memory' = memory /\ tableCache' = tableCache /\ entryCache' = entryCache
  BY DEF Ask
<1>2. TablesAreTrue' /\ EntriesAreTrue'
  BY <1>1, CachesStayTrue DEF IInv
<1>3. Functions'
  BY DEF IInv, Functions, Ask, Goto
<1>4. ASSUME NEW u \in Workers PROVE WorkerIsTrue(u)'
  <2>1. CASE u = w
    <3>1. pc'[u] = "entry"
      BY <2>1 DEF Ask, Goto, IInv, Functions
    <3> QED BY <3>1 DEF WorkerIsTrue, OnTheWay, TableIsRead, WalkIsTrue
  <2>2. CASE u # w
    <3>1. /\ pc'[u] = pc[u] /\ offset'[u] = offset[u] /\ level'[u] = level[u]
          /\ walk'[u] = walk[u] /\ table'[u] = table[u]
      BY <2>2 DEF Ask, Goto, IInv, Functions
    <3> QED BY <1>1, <3>1, OtherStaysTrue DEF IInv
  <2> QED BY <2>1, <2>2
<1> QED BY <1>2, <1>3, <1>4 DEF IInv

LEMMA LookUpEntryIsTrue ==
    ASSUME IInv, NEW w \in Workers, LookUpEntry(w) PROVE IInv'
<1>1. memory' = memory /\ tableCache' = tableCache /\ entryCache' = entryCache
  BY DEF LookUpEntry
<1>2. TablesAreTrue' /\ EntriesAreTrue'
  BY <1>1, CachesStayTrue DEF IInv
<1>3. Functions'
  BY DEF IInv, Functions, LookUpEntry, Goto
<1>4. ASSUME NEW u \in Workers PROVE WorkerIsTrue(u)'
  <2>1. CASE u = w
    <3>0. PICK page : page = PageOf(offset[w])
      OBVIOUS
    <3>1. PageOf(offset[w])' = page /\ UncachedWalk(page)' = UncachedWalk(page)
          /\ WalkOf(page)' = WalkOf(page) /\ Levels' = Levels
      BY <1>1, <3>0, WalkIsSteady DEF LookUpEntry, PageOf, Levels
    <3>2. CASE page \in DOMAIN entryCache
      <4>1. pc'[w] = "map" /\ walk'[w] = WalkOf(page)
        BY <3>0, <3>2 DEF LookUpEntry, Goto, IInv, Functions, EntriesAreTrue
      <4> QED BY <2>1, <3>1, <4>1 DEF WorkerIsTrue, OnTheWay, TableIsRead, WalkIsTrue
    <3>3. CASE page \notin DOMAIN entryCache
      <4>1. /\ pc'[w] = "walk" /\ level'[w] = 1
            /\ walk'[w] = Reached(Root, VirtualBits)
        BY <3>0, <3>3 DEF LookUpEntry, Goto, IInv, Functions
      <4>2. UncachedWalk(page)[0] = [goes_on |-> TRUE, walk |-> Reached(Root, VirtualBits)]
        BY WalkUnfolds
      <4>3. walk'[w] = Reached(walk'[w].entry, walk'[w].span)
        BY <4>1 DEF Reached
      <4>4. 1 \in 1..Levels /\ level'[w] - 1 = 0
        BY <4>1, ConstantsAssumption
      <4>5. UncachedWalk(PageOf(offset[w]))'[level'[w] - 1] = [goes_on |-> TRUE, walk |-> walk'[w]]
        BY <3>1, <4>1, <4>2, <4>4
      <4> QED BY <2>1, <3>1, <4>1, <4>3, <4>4, <4>5
              DEF WorkerIsTrue, OnTheWay, TableIsRead, WalkIsTrue
    <3> QED BY <3>2, <3>3
  <2>2. CASE u # w
    <3>1. /\ pc'[u] = pc[u] /\ offset'[u] = offset[u] /\ level'[u] = level[u]
          /\ walk'[u] = walk[u] /\ table'[u] = table[u]
      BY <2>2 DEF LookUpEntry, Goto, IInv, Functions
    <3> QED BY <1>1, <3>1, OtherStaysTrue DEF IInv
  <2> QED BY <2>1, <2>2
<1> QED BY <1>2, <1>3, <1>4 DEF IInv

\* A table from the cache is the one that would be read.
LEMMA LookUpTableIsTrue ==
    ASSUME IInv, NEW w \in Workers, LookUpTable(w) PROVE IInv'
<1> DEFINE e == walk[w].entry
<1>1. /\ memory' = memory /\ tableCache' = tableCache /\ entryCache' = entryCache
      /\ offset' = offset /\ table' = table /\ pc[w] = "walk"
  BY DEF LookUpTable
<1>2. TablesAreTrue' /\ EntriesAreTrue'
  BY <1>1, CachesStayTrue DEF IInv
<1>3. CASE page_is_valid(e) /\ e.frame \notin DOMAIN tableCache
  <2>1. pc' = [pc EXCEPT ![w] = "read"] /\ level' = level /\ walk' = walk
    BY <1>3 DEF LookUpTable, Goto
  <2>2. Functions'
    BY <1>1, <2>1 DEF IInv, Functions
  <2>3. ASSUME NEW u \in Workers PROVE WorkerIsTrue(u)'
    <3>1. CASE u = w
      <4>1. pc'[w] = "read" /\ OnTheWay(w)
        BY <2>1 DEF IInv, Functions, WorkerIsTrue
      <4>2. page_is_valid(walk[w].entry)' /\ Levels' = Levels /\ PageOf(offset[w])' = PageOf(offset[w])
        BY <1>1, <1>3, <2>1 DEF page_is_valid, Levels, PageOf
      <4>3. UncachedWalk(PageOf(offset[w]))' = UncachedWalk(PageOf(offset[w]))
        BY <1>1, <4>2, WalkIsSteady
      <4> QED BY <1>1, <2>1, <3>1, <4>1, <4>2, <4>3 DEF WorkerIsTrue, OnTheWay, TableIsRead, WalkIsTrue
    <3>2. CASE u # w
      BY <1>1, <2>1, <3>2, OtherStaysTrue DEF IInv, Functions
    <3> QED BY <3>1, <3>2
  <2> QED BY <1>2, <2>2, <2>3 DEF IInv
<1>4. CASE ~page_is_valid(e) \/ e.frame \in DOMAIN tableCache
  <2>1. PICK t : /\ Take(w, t)
                 /\ t = IF page_is_valid(e) THEN ValidTable(e.frame) ELSE Rejected
    <3>1. CASE ~page_is_valid(e)
      BY <3>1 DEF LookUpTable
    <3>2. CASE page_is_valid(e)
      <4>1. Take(w, tableCache[e.frame]) /\ tableCache[e.frame] = ValidTable(e.frame)
        BY <1>4, <3>2 DEF LookUpTable, IInv, TablesAreTrue
      <4> QED BY <3>2, <4>1
    <3> QED BY <3>1, <3>2
  <2>2. WorkerIsTrue(w)'
    BY <1>1, <2>1, TakeIsTrue DEF IInv
  <2>3. /\ DOMAIN pc' = Workers /\ DOMAIN walk' = Workers /\ DOMAIN level' = Workers
        /\ \A u \in Workers \ {w} : pc'[u] = pc[u] /\ walk'[u] = walk[u] /\ level'[u] = level[u]
    BY <2>1, TakeIsLocal DEF IInv
  <2>4. ASSUME NEW u \in Workers PROVE WorkerIsTrue(u)'
    BY <1>1, <2>2, <2>3, OtherStaysTrue DEF IInv
  <2>5. Functions'
    BY <1>1, <2>3 DEF IInv, Functions
  <2> QED BY <1>2, <2>4, <2>5 DEF IInv
<1> QED BY <1>3, <1>4

LEMMA ReadTableIsTrue ==
    ASSUME IInv, NEW w \in Workers, ReadTable(w) PROVE IInv'
<1>1. /\ memory' = memory /\ tableCache' = tableCache /\ entryCache' = entryCache
      /\ offset' = offset /\ level' = level /\ walk' = walk /\ pc[w] = "read"
      /\ pc' = [pc EXCEPT ![w] = "store"]
      /\ table' = [table EXCEPT ![w] = ValidTable(walk[w].entry.frame)]
  BY DEF ReadTable, Goto
<1>2. TablesAreTrue' /\ EntriesAreTrue'
  BY <1>1, CachesStayTrue DEF IInv
<1>3. Functions'
  BY <1>1 DEF IInv, Functions
<1>4. ASSUME NEW u \in Workers PROVE WorkerIsTrue(u)'
  <2>1. CASE u = w
    <3>1. pc'[w] = "store" /\ table'[w] = ValidTable(walk[w].entry.frame) /\ OnTheWay(w)
          /\ page_is_valid(walk[w].entry)
      BY <1>1 DEF IInv, Functions, WorkerIsTrue, TableIsRead
    <3>2. /\ page_is_valid(walk[w].entry)' /\ Levels' = Levels
          /\ PageOf(offset[w])' = PageOf(offset[w])
          /\ ValidTable(walk[w].entry.frame)' = ValidTable(walk[w].entry.frame)
      BY <1>1, <3>1 DEF page_is_valid, Levels, PageOf, ValidTable
    <3>3. UncachedWalk(PageOf(offset[w]))' = UncachedWalk(PageOf(offset[w]))
      BY <1>1, <3>2, WalkIsSteady
    <3> QED BY <1>1, <2>1, <3>1, <3>2, <3>3 DEF WorkerIsTrue, OnTheWay, TableIsRead, WalkIsTrue
  <2>2. CASE u # w
    BY <1>1, <2>2, OtherStaysTrue DEF IInv, Functions
  <2> QED BY <2>1, <2>2
<1> QED BY <1>2, <1>3, <1>4 DEF IInv

\* What is stored is the table of the entry the walk is at, before it goes on.
LEMMA StoreTableIsTrue ==
    ASSUME IInv, NEW w \in Workers, StoreTable(w) PROVE IInv'
<1>1. /\ memory' = memory /\ entryCache' = entryCache /\ offset' = offset /\ table' = table
      /\ pc[w] = "store" /\ Take(w, table[w])
      /\ tableCache' \in Put(tableCache, walk[w].entry.frame, table[w], TableCapacity)
  BY DEF StoreTable
<1>2. page_is_valid(walk[w].entry) /\ table[w] = ValidTable(walk[w].entry.frame)
  BY <1>1 DEF IInv, WorkerIsTrue, TableIsRead
<1>3. EntriesAreTrue'
  BY <1>1, CachesStayTrue DEF IInv
<1>4. TablesAreTrue'
  <2>1. TablesAreTrue /\ TableCapacity \in Nat \ {0}
    BY ConstantsAssumption DEF IInv
  <2>2. /\ IsFiniteSet(DOMAIN tableCache') /\ Cardinality(DOMAIN tableCache') <= TableCapacity
        /\ \A x \in DOMAIN tableCache' :
             tableCache'[x] = IF x = walk[w].entry.frame THEN table[w] ELSE tableCache[x]
        /\ \A x \in DOMAIN tableCache' : x = walk[w].entry.frame \/ x \in DOMAIN tableCache
    BY <1>1, <2>1, PutKeeps DEF TablesAreTrue
  <2>3. \A x \in DOMAIN tableCache' : tableCache'[x] = ValidTable(x)
    BY <1>2, <2>1, <2>2 DEF TablesAreTrue
  <2>4. \A x : ValidTable(x)' = ValidTable(x)
    BY <1>1, WalkIsSteady
  <2> QED BY <2>2, <2>3, <2>4 DEF TablesAreTrue
<1>5. WorkerIsTrue(w)'
  BY <1>1, <1>2, TakeIsTrue DEF IInv
<1>6. /\ DOMAIN pc' = Workers /\ DOMAIN walk' = Workers /\ DOMAIN level' = Workers
      /\ \A u \in Workers \ {w} : pc'[u] = pc[u] /\ walk'[u] = walk[u] /\ level'[u] = level[u]
  BY <1>1, TakeIsLocal DEF IInv
<1>7. ASSUME NEW u \in Workers PROVE WorkerIsTrue(u)'
  BY <1>1, <1>5, <1>6, OtherStaysTrue DEF IInv
<1>8. Functions'
  BY <1>1, <1>6 DEF IInv, Functions
<1> QED BY <1>3, <1>4, <1>7, <1>8 DEF IInv

LEMMA StoreEntryIsTrue ==
    ASSUME IInv, NEW w \in Workers, StoreEntry(w) PROVE IInv'
<1>0. PICK page : page = PageOf(offset[w])
  OBVIOUS
<1>1. /\ memory' = memory /\ tableCache' = tableCache /\ offset' = offset /\ table' = table
      /\ level' = level /\ walk' = walk /\ pc[w] = "keep" /\ pc' = [pc EXCEPT ![w] = "map"]
      /\ entryCache' \in Put(entryCache, page, walk[w], EntryCapacity)
  BY <1>0 DEF StoreEntry, Goto
<1>2. walk[w] = WalkOf(page)
  BY <1>0, <1>1 DEF IInv, WorkerIsTrue, WalkIsTrue
<1>3. TablesAreTrue'
  BY <1>1, CachesStayTrue DEF IInv
<1>4. EntriesAreTrue'
  <2>1. EntriesAreTrue /\ EntryCapacity \in Nat \ {0}
    BY ConstantsAssumption DEF IInv
  <2>2. /\ IsFiniteSet(DOMAIN entryCache') /\ Cardinality(DOMAIN entryCache') <= EntryCapacity
        /\ \A x \in DOMAIN entryCache' :
             entryCache'[x] = IF x = page THEN walk[w] ELSE entryCache[x]
        /\ \A x \in DOMAIN entryCache' : x = page \/ x \in DOMAIN entryCache
    BY <1>1, <2>1, PutKeeps DEF EntriesAreTrue
  <2>3. \A x \in DOMAIN entryCache' : entryCache'[x] = WalkOf(x)
    BY <1>2, <2>1, <2>2 DEF EntriesAreTrue
  <2>4. \A x : WalkOf(x)' = WalkOf(x)
    BY <1>1, WalkIsSteady
  <2> QED BY <2>2, <2>3, <2>4 DEF EntriesAreTrue
<1>5. Functions'
  BY <1>1 DEF IInv, Functions
<1>6. ASSUME NEW u \in Workers PROVE WorkerIsTrue(u)'
  <2>1. CASE u = w
    <3>1. pc'[w] = "map"
      BY <1>1 DEF IInv, Functions
    <3>2. PageOf(offset[w])' = page /\ WalkOf(page)' = WalkOf(page)
      BY <1>0, <1>1, WalkIsSteady DEF PageOf
    <3> QED BY <1>1, <1>2, <2>1, <3>1, <3>2 DEF WorkerIsTrue, OnTheWay, TableIsRead, WalkIsTrue
  <2>2. CASE u # w
    BY <1>1, <2>2, OtherStaysTrue DEF IInv, Functions
  <2> QED BY <2>1, <2>2
<1> QED BY <1>3, <1>4, <1>5, <1>6 DEF IInv

LEMMA MapPieceIsTrue ==
    ASSUME IInv, NEW w \in Workers, MapPiece(w) PROVE IInv'
<1>1. /\ memory' = memory /\ tableCache' = tableCache /\ entryCache' = entryCache
      /\ level' = level /\ walk' = walk /\ table' = table
  BY DEF MapPiece
<1>2. \/ pc' = [pc EXCEPT ![w] = "idle"] /\ offset' = offset
      \/ \E to : pc' = [pc EXCEPT ![w] = "entry"] /\ offset' = [offset EXCEPT ![w] = to]
  BY DEF MapPiece, GoOn, Finish, Goto
<1>3. TablesAreTrue' /\ EntriesAreTrue'
  BY <1>1, CachesStayTrue DEF IInv
<1>4. Functions'
  BY <1>1, <1>2 DEF IInv, Functions
<1>5. ASSUME NEW u \in Workers PROVE WorkerIsTrue(u)'
  <2>1. CASE u = w
    <3>1. pc'[u] \in {"idle", "entry"}
      BY <1>2, <2>1 DEF IInv, Functions
    <3> QED BY <3>1 DEF WorkerIsTrue, OnTheWay, TableIsRead, WalkIsTrue
  <2>2. CASE u # w
    <3>1. pc'[u] = pc[u] /\ offset'[u] = offset[u]
      BY <1>2, <2>2 DEF IInv, Functions
    <3> QED BY <1>1, <3>1, OtherStaysTrue DEF IInv
  <2> QED BY <2>1, <2>2
<1> QED BY <1>3, <1>4, <1>5 DEF IInv

LEMMA NextIInv == IInv /\ [Next]_vars => IInv'
<1> SUFFICES ASSUME IInv, [Next]_vars PROVE IInv'
  OBVIOUS
<1>1. CASE UNCHANGED vars
  <2>1. memory' = memory /\ Functions'
    BY <1>1 DEF vars, IInv, Functions
  <2>2. TablesAreTrue' /\ EntriesAreTrue'
    BY <1>1, <2>1, CachesStayTrue DEF vars, IInv
  <2>3. ASSUME NEW u \in Workers PROVE WorkerIsTrue(u)'
    BY <1>1, <2>1, OtherStaysTrue DEF vars, IInv
  <2> QED BY <2>1, <2>2, <2>3 DEF IInv
<1>2. ASSUME NEW w \in Workers, Ask(w) \/ Proceed(w)
      PROVE  IInv'
  BY <1>2, AskIsTrue, LookUpEntryIsTrue, LookUpTableIsTrue, ReadTableIsTrue, StoreTableIsTrue,
     StoreEntryIsTrue, MapPieceIsTrue DEF Proceed
<1> QED BY <1>1, <1>2 DEF Next

\* Intel: the caches and the walks under way are true in every reachable state, for
\* any number of threads that interleave at each lock.
THEOREM Invariance == Spec => []IInv
<1>1. Init => IInv
  BY InitIInv
<1>2. IInv /\ [Next]_vars => IInv'
  BY NextIInv
<1> QED BY <1>1, <1>2, PTL DEF Spec

\* intel.rs, get_valid_table and translate_entry: whatever the threads have put and the
\* caches have dropped, what either holds is what a walk without caches finds, and
\* neither holds more than it may.
THEOREM CachesHoldTheTruth == Spec => []CachesAreTrue
<1>1. IInv => CachesAreTrue
  BY DEF IInv, TablesAreTrue, EntriesAreTrue, CachesAreTrue
<1> QED BY <1>1, Invariance, PTL

\* What walk_mapping_raw maps from is what the page tables say, with a fault where
\* they have none: as if every thread had walked them alone.
MappedIsWalked == \A w \in Workers : pc[w] = "map" => walk[w] = WalkOf(PageOf(offset[w]))

THEOREM MapsWhatIsThere == Spec => []MappedIsWalked
<1>1. IInv => MappedIsWalked
  BY DEF IInv, WorkerIsTrue, WalkIsTrue, MappedIsWalked
<1> QED BY <1>1, Invariance, PTL
=============================================================================
