------------------------- MODULE SegmentedImage_proofs -------------------------
(***************************************************************************)
(* Proofs about image formats that are a table of segments, and the layer  *)
(* over such a table.                                                      *)
(***************************************************************************)
EXTENDS SegmentedImage, FiniteSetTheorems, SequenceTheorems, WellFoundedInduction, TLAPS

-----------------------------------------------------------------------------
\* The operators of the libraries are the same in the modules instantiated here.
LEMMA SameOperators ==
    /\ \A S : Formats!Cardinality(S) = Cardinality(S)
    /\ \A S : Layer!Max(S) = Max(S) /\ Layer!Min(S) = Min(S)
    /\ \A S : Layer!ToSet(S) = ToSet(S) /\ Formats!ToSet(S) = ToSet(S)
<1>1. \A S : Formats!Cardinality(S) = Cardinality(S)
  BY DEF Formats!Cardinality, Cardinality, Formats!IsFiniteSet, IsFiniteSet
<1>2. \A S : Layer!Max(S) = Max(S) /\ Layer!Min(S) = Min(S)
  BY DEF Layer!Max, Max, Layer!Min, Min
<1>3. \A S : Layer!ToSet(S) = ToSet(S) /\ Formats!ToSet(S) = ToSet(S)
  BY DEF Layer!ToSet, Formats!ToSet, ToSet
<1> QED BY <1>1, <1>2, <1>3

-----------------------------------------------------------------------------
(* Tables, and sums.                                                       *)

Segment == [offset : Nat, mapped : Nat, length : Nat]

\* What a piece places, and what a table does.
Span(s) == Formats!Bytes(s.offset, s.mapped, s.length)
Shown(t) == UNION {Span(s) : s \in ToSet(t)}

\* A table that grows by a piece shows what the piece places besides.
LEMMA ShownGrows ==
    ASSUME NEW t \in Seq(Segment), NEW s \in Segment
    PROVE  Append(t, s) \in Seq(Segment) /\ Append(t, s) # <<>> /\ Shown(Append(t, s)) = Shown(t) \cup Span(s)
<1> DEFINE more == Append(t, s)
<1>1. /\ more \in Seq(Segment) /\ Len(more) = Len(t) + 1 /\ Len(t) \in Nat
      /\ \A i \in 1..Len(t) : more[i] = t[i]
      /\ more[Len(t) + 1] = s
  OBVIOUS
<1>2. DOMAIN more = 1..(Len(t) + 1) /\ DOMAIN t = 1..Len(t)
  BY <1>1
<1> HIDE DEF more
<1>3. ToSet(more) \subseteq ToSet(t) \cup {s}
  <2> SUFFICES ASSUME NEW i \in 1..(Len(t) + 1) PROVE more[i] \in ToSet(t) \cup {s}
    BY <1>2 DEF ToSet
  <2>1. CASE i = Len(t) + 1
    BY <1>1, <2>1
  <2>2. CASE i \in 1..Len(t)
    BY <1>1, <1>2, <2>2 DEF ToSet
  <2> QED BY <1>1, <2>1, <2>2
<1>4. ToSet(t) \subseteq ToSet(more) /\ s \in ToSet(more)
  <2>1. \A i \in 1..Len(t) : i \in 1..(Len(t) + 1) /\ more[i] = t[i]
    BY <1>1
  <2>2. Len(t) + 1 \in 1..(Len(t) + 1)
    BY <1>1
  <2> QED BY <1>1, <1>2, <2>1, <2>2 DEF ToSet
<1>5. more # <<>>
  <2>1. Len(more) # 0 /\ Len(<<>>) = 0
    BY <1>1
  <2> QED BY <2>1, Zenon
<1>6. ToSet(more) = ToSet(t) \cup {s}
  BY <1>3, <1>4
<1> QED BY <1>1, <1>5, <1>6 DEF Shown, more

LEMMA NothingShown == Shown(<<>>) = {}
BY DEF Shown, ToSet

\* The sum of what comes before adds up: the recursive function of SumBefore
\* satisfies its equations.
LEMMA SumSteps ==
    ASSUME NEW rooms \in Seq(Int)
    PROVE  /\ Formats!SumBefore(rooms, 1) = 0
           /\ \A i \in 1..Len(rooms) :
                /\ Formats!SumBefore(rooms, i) \in Int
                /\ Formats!SumBefore(rooms, i + 1) = Formats!SumBefore(rooms, i) + rooms[i]
<1> DEFINE n == Len(rooms)
           IsSum(f, m) == f = [j \in 0..m |-> IF j = 0 THEN 0 ELSE f[j - 1] + rooms[j]]
           sum == CHOOSE f : IsSum(f, n)
<1>1. n \in Nat
  OBVIOUS
<1>2. \A m \in 0..n : \E f : IsSum(f, m)
  <2> DEFINE Lacking == {m \in 0..n : ~\E f : IsSum(f, m)}
  <2>1. SUFFICES ASSUME Lacking # {} PROVE FALSE
    OBVIOUS
  <2>2. Lacking \in SUBSET Nat
    BY <1>1
  <2>3. PICK m \in Lacking : \A x \in Lacking : <<x, m>> \notin OpToRel(<, Nat)
    <3> HIDE DEF Lacking
    <3> QED BY <2>1, <2>2, NatLessThanWellFounded, WFMin
  <2>4. m \in 0..n /\ ~\E f : IsSum(f, m)
    OBVIOUS
  <2>5. CASE m = 0
    <3>1. IsSum([j \in 0..0 |-> 0], 0)
      OBVIOUS
    <3> QED BY <2>4, <2>5, <3>1
  <2>6. CASE m # 0
    <3>1. m - 1 \in 0..n /\ m - 1 < m /\ m \in Nat /\ m - 1 \in Nat
      BY <1>1, <2>4, <2>6
    <3>2. m - 1 \notin Lacking
      <4> HIDE DEF Lacking
      <4> QED BY <2>3, <3>1 DEF OpToRel
    <3>3. PICK f : IsSum(f, m - 1)
      BY <3>1, <3>2
    <3> DEFINE g == [j \in 0..m |-> IF j = m THEN f[m - 1] + rooms[m] ELSE f[j]]
    <3>4. \A j \in 0..(m - 1) : g[j] = f[j] /\ f[j] = IF j = 0 THEN 0 ELSE f[j - 1] + rooms[j]
      BY <3>1, <3>3
    <3>5. ASSUME NEW j \in 0..m PROVE g[j] = IF j = 0 THEN 0 ELSE g[j - 1] + rooms[j]
      <4>1. CASE j = m
        <5>1. g[j] = f[m - 1] + rooms[m] /\ g[m - 1] = f[m - 1]
          BY <3>1, <4>1
        <5> QED BY <2>6, <4>1, <5>1
      <4>2. CASE j = 0
        <5>1. j \in 0..(m - 1)
          BY <3>1, <4>2
        <5> QED BY <3>4, <4>2, <5>1
      <4>3. CASE j # m /\ j # 0
        <5>1. j \in 0..(m - 1) /\ j - 1 \in 0..(m - 1)
          BY <3>1, <4>3
        <5> QED BY <3>4, <4>3, <5>1
      <4> QED BY <4>1, <4>2, <4>3
    <3>6. g = [j \in 0..m |-> g[j]]
      OBVIOUS
    <3> HIDE DEF g
    <3>7. IsSum(g, m)
      BY <3>5, <3>6
    <3> QED BY <2>4, <3>7
  <2> QED BY <2>5, <2>6
<1>3. \E f : IsSum(f, n)
  BY <1>1, <1>2
<1>4. IsSum(sum, n)
  BY <1>3
<1>5. \A i \in 1..(n + 1) : Formats!SumBefore(rooms, i) = sum[i - 1]
  BY DEF Formats!SumBefore
<1> HIDE DEF sum, n
<1>6. sum[0] = 0 /\ \A j \in 1..n : sum[j] = sum[j - 1] + rooms[j]
  BY <1>1, <1>4
<1>7. \A j \in 0..n : sum[j] \in Int
  <2> DEFINE Strange == {j \in 0..n : sum[j] \notin Int}
  <2>1. SUFFICES ASSUME Strange # {} PROVE FALSE
    OBVIOUS
  <2>2. Strange \in SUBSET Nat
    BY <1>1
  <2>3. PICK j \in Strange : \A x \in Strange : <<x, j>> \notin OpToRel(<, Nat)
    <3> HIDE DEF Strange
    <3> QED BY <2>1, <2>2, NatLessThanWellFounded, WFMin
  <2>4. j \in 1..n
    BY <1>6
  <2>5. j - 1 \in Nat /\ j - 1 < j /\ j - 1 \notin Strange /\ j - 1 \in 0..n
    <3>1. j - 1 \in Nat /\ j - 1 < j /\ j \in Nat /\ j - 1 \in 0..n
      BY <1>1, <2>4
    <3> HIDE DEF Strange
    <3> QED BY <2>3, <3>1 DEF OpToRel
  <2>6. sum[j - 1] \in Int /\ rooms[j] \in Int
    BY <2>4, <2>5 DEF n
  <2> QED BY <1>6, <2>4, <2>6
<1>8. \A i \in 1..n : i - 1 \in 0..n /\ (i + 1) - 1 = i /\ i \in 1..(n + 1) /\ i + 1 \in 1..(n + 1)
  BY <1>1
<1>9. 1 - 1 = 0 /\ 1 \in 1..(n + 1)
  BY <1>1
<1> QED BY <1>5, <1>6, <1>7, <1>8, <1>9 DEF n

-----------------------------------------------------------------------------
(* The loops of the six formats.                                           *)

\* What is declared, and how far the loop over it can have come.
ImageTypes ==
    /\ format \in {"lime", "full", "bitmap", "elf", "vmware", "xen"}
    /\ format = "lime" => image \in Seq([start : Nat, end : Nat])
    /\ format = "full" => image \in Seq([page : Nat, count : Nat])
    /\ format = "bitmap" => image \in [size : Nat \ {0}, set : SUBSET Nat]
    /\ format = "elf" => image \in Seq([load : BOOLEAN, paddr : Nat, place : Nat, filesz : Nat])
    /\ format = "vmware" => image \in Seq([told : BOOLEAN, ppn : Nat, page : Nat, count : Nat])
    /\ format = "xen" => image \in [pfn : BOOLEAN, p2m : BOOLEAN, frames : Seq(Nat)]
BuildTypes ==
    /\ ImageTypes
    /\ index \in 0..Formats!Steps
    /\ place \in Nat
    /\ highest \in Nat
    /\ run \in Int
    /\ runPlace \in Nat
    /\ table \in Seq(Segment)
    /\ result \in {"open", "built", "refused"}

\* The room a record or a run takes in the file.
LimeRooms == [i \in 1..Len(image) |-> Header + (image[i].end - image[i].start + 1)]
FullRooms == [i \in 1..Len(image) |-> image[i].count * PageSize]

\* What one turn of the loop has to place, and what the turns so far have.
Piece(i) ==
    CASE format = "lime" ->
           Formats!Bytes(image[i].start, Formats!SumBefore(LimeRooms, i) + Header,
                         image[i].end - image[i].start + 1)
      [] format = "full" ->
           Formats!Bytes(image[i].page * PageSize, Header + Formats!SumBefore(FullRooms, i),
                         image[i].count * PageSize)
      [] format = "bitmap" ->
           IF i - 1 \in image.set
           THEN Formats!Bytes((i - 1) * PageSize,
                              Header + (PageSize * Cardinality(Formats!HeldBelow(i - 1))), PageSize)
           ELSE {}
      [] format = "elf" ->
           IF image[i].load THEN Formats!Bytes(image[i].paddr, image[i].place, image[i].filesz) ELSE {}
      [] format = "vmware" ->
           IF image[i].told
           THEN Formats!Bytes(image[i].ppn * PageSize, image[i].page * PageSize,
                              image[i].count * PageSize)
           ELSE {}
      [] format = "xen" ->
           IF image.frames[i] # Formats!Absent /\ (image.pfn => image.frames[i] # 0)
           THEN Formats!Bytes(image.frames[i] * PageSize, Header + ((i - 1) * PageSize), PageSize)
           ELSE {}
Told(n) == UNION {Piece(i) : i \in 1..n}

\* Where the loop is in the file.
PlaceIs ==
    /\ format = "lime" => place = Formats!SumBefore(LimeRooms, index + 1)
    /\ format = "full" => place = Header + Formats!SumBefore(FullRooms, index + 1)
    /\ format = "bitmap" => place = Header + (PageSize * Cardinality(Formats!HeldBelow(index)))
    /\ format = "xen" => place = Header + (index * PageSize)

\* The run of a bitmap that is not closed yet, and what it will place.
RunIs ==
    \/ run = Formats!NoRun
    \/ /\ format = "bitmap" /\ run \in Nat /\ run < index
       /\ place = runPlace + ((index - run) * PageSize)
OpenRun ==
    IF run = Formats!NoRun THEN {}
    ELSE Formats!Bytes(run * PageSize, runPlace, (index - run) * PageSize)

BuildInv ==
    /\ BuildTypes
    /\ result = "open" => /\ PlaceIs /\ RunIs
                          /\ Shown(table) \cup OpenRun = Told(index)
    /\ result = "built" => Shown(table) = Formats!Says /\ table # <<>>

\* Sums and products of whole numbers of pages.
LEMMA Pages ==
    /\ PageSize \in Nat /\ PageSize # 0
    /\ \A a \in Nat : a * PageSize \in Nat /\ PageSize * a \in Nat
    /\ \A a \in Nat : (a + 1) * PageSize = (a * PageSize) + PageSize
    /\ \A a \in Nat : PageSize * (a + 1) = (PageSize * a) + PageSize
    /\ \A a, b \in Nat : a <= b => (a * PageSize) + ((b - a) * PageSize) = b * PageSize
BY ConstantsAssumption DEF Formats!FormatsAssumption

LEMMA StepsAreNat == ImageTypes => Formats!Steps \in Nat
<1> SUFFICES ASSUME ImageTypes PROVE Formats!Steps \in Nat
  OBVIOUS
<1>1. CASE format = "bitmap"
  <2>1. image.size \in Nat /\ image.size # 0 /\ WordBits \in Nat /\ WordBits # 0
    BY <1>1, ConstantsAssumption DEF ImageTypes, Formats!FormatsAssumption
  <2>2. image.size + WordBits - 1 \in Nat
    BY <2>1
  <2>3. \A a, b \in Nat : b # 0 => a \div b \in Nat
    OBVIOUS
  <2>4. \A a, b \in Nat : a * b \in Nat
    OBVIOUS
  <2>5. ((image.size + WordBits - 1) \div WordBits) * WordBits \in Nat
    BY <2>1, <2>2, <2>3, <2>4
  <2> QED BY <1>1, <2>5 DEF Formats!Steps, Formats!Covered
<1>2. CASE format = "xen"
  <2>1. Len(image.frames) \in Nat
    BY <1>2 DEF ImageTypes
  <2> QED BY <1>2, <2>1 DEF Formats!Steps
<1>3. CASE format \in {"lime", "full", "elf", "vmware"}
  <2>1. Len(image) \in Nat
    BY <1>3 DEF ImageTypes
  <2> QED BY <1>3, <2>1 DEF Formats!Steps
<1> QED BY <1>1, <1>2, <1>3 DEF ImageTypes

LEMMA ToldGrows ==
    ASSUME NEW n \in Nat
    PROVE  Told(0) = {} /\ Told(n + 1) = Told(n) \cup Piece(n + 1)
<1>1. 1..(n + 1) = (1..n) \cup {n + 1} /\ 1..0 = {}
  OBVIOUS
<1> QED BY <1>1 DEF Told

\* A piece that is grown at its end, and one without bytes.
LEMMA BytesJoin ==
    ASSUME NEW o \in Nat, NEW m \in Nat, NEW l \in Nat, NEW k \in Nat,
           NEW all, NEW ol, NEW ml, all = l + k, ol = o + l, ml = m + l
    PROVE  Formats!Bytes(o, m, all) = Formats!Bytes(o, m, l) \cup Formats!Bytes(ol, ml, k)
<1>1. Formats!Bytes(o, m, all) \subseteq Formats!Bytes(o, m, l) \cup Formats!Bytes(ol, ml, k)
  <2> SUFFICES ASSUME NEW d \in 0..(all - 1)
               PROVE  <<o + d, m + d>> \in Formats!Bytes(o, m, l) \cup Formats!Bytes(ol, ml, k)
    BY DEF Formats!Bytes
  <2>1. CASE d \in 0..(l - 1)
    BY <2>1 DEF Formats!Bytes
  <2>2. CASE d \notin 0..(l - 1)
    <3>1. d - l \in 0..(k - 1) /\ o + d = ol + (d - l) /\ m + d = ml + (d - l)
      BY <2>2
    <3> QED BY <3>1 DEF Formats!Bytes
  <2> QED BY <2>1, <2>2
<1>2. \A d \in 0..(k - 1) : l + d \in 0..(all - 1) /\ ol + d = o + (l + d) /\ ml + d = m + (l + d)
  OBVIOUS
<1>3. Formats!Bytes(ol, ml, k) \subseteq Formats!Bytes(o, m, all)
  BY <1>2 DEF Formats!Bytes
<1>4. \A d \in 0..(l - 1) : d \in 0..(all - 1)
  OBVIOUS
<1>5. Formats!Bytes(o, m, l) \subseteq Formats!Bytes(o, m, all)
  BY <1>4 DEF Formats!Bytes
<1> QED BY <1>1, <1>3, <1>5

LEMMA NoBytes == \A o, m : Formats!Bytes(o, m, 0) = {}
BY DEF Formats!Bytes

\* The pages held below the next page.
LEMMA HeldGrows ==
    ASSUME ImageTypes, format = "bitmap", NEW p \in Nat
    PROVE  /\ Cardinality(Formats!HeldBelow(p)) \in Nat /\ Cardinality(Formats!HeldBelow(0)) = 0
           /\ Cardinality(Formats!HeldBelow(p + 1)) = Cardinality(Formats!HeldBelow(p)) + (IF p \in image.set THEN 1 ELSE 0)
<1>1. image.set \in SUBSET Nat
  BY DEF ImageTypes
<1>2. Formats!HeldBelow(p) \subseteq 0..(p - 1) /\ Formats!HeldBelow(0) = {} /\ p \notin Formats!HeldBelow(p)
  BY <1>1 DEF Formats!HeldBelow
<1>3. IsFiniteSet(0..(p - 1))
  BY FS_Interval
<1>4. IsFiniteSet(Formats!HeldBelow(p)) /\ Cardinality(Formats!HeldBelow(p)) \in Nat
  BY <1>2, <1>3, FS_Subset, FS_CardinalityType
<1>5. Formats!HeldBelow(p + 1) = IF p \in image.set THEN Formats!HeldBelow(p) \cup {p} ELSE Formats!HeldBelow(p)
  BY <1>1 DEF Formats!HeldBelow
<1>6. Cardinality(Formats!HeldBelow(p) \cup {p}) = Cardinality(Formats!HeldBelow(p)) + 1
  BY <1>2, <1>4, FS_AddElement
<1>7. Cardinality(Formats!HeldBelow(0)) = 0
  BY <1>2, FS_EmptySet
<1> QED BY <1>4, <1>5, <1>6, <1>7

\* What the format says is what the turns of its loop have to place.
LEMMA SaysIsTold == ImageTypes => Formats!Says = Told(Formats!Steps)
<1> SUFFICES ASSUME ImageTypes PROVE Formats!Says = Told(Formats!Steps)
  OBVIOUS
<1>1. CASE format = "lime"
  <2> DEFINE length == [i \in 1..Len(image) |-> image[i].end - image[i].start + 1]
             room == [i \in 1..Len(image) |-> Header + length[i]]
  <2>1. room = LimeRooms
    BY DEF LimeRooms
  <2>2. Formats!LimeSays =
          UNION {Formats!Bytes(image[i].start, Formats!SumBefore(room, i) + Header, length[i]) :
                   i \in 1..Len(image)}
    BY DEF Formats!LimeSays
  <2> HIDE DEF room
  <2>3. Formats!LimeSays = Told(Len(image))
    BY <1>1, <2>1, <2>2 DEF Told, Piece
  <2> QED BY <1>1, <2>3 DEF Formats!Says, Formats!Steps
<1>2. CASE format = "full"
  <2> DEFINE room == [i \in 1..Len(image) |-> image[i].count * PageSize]
  <2>1. room = FullRooms
    BY DEF FullRooms
  <2>2. Formats!FullSays =
          UNION {Formats!Bytes(image[i].page * PageSize, Header + Formats!SumBefore(room, i), room[i]) :
                   i \in 1..Len(image)}
    BY DEF Formats!FullSays
  <2>3. \A i \in 1..Len(image) : room[i] = image[i].count * PageSize
    OBVIOUS
  <2> DEFINE said(i) == Formats!Bytes(image[i].page * PageSize, Header + Formats!SumBefore(room, i), room[i])
  <2> HIDE DEF room
  <2>5. \A i \in 1..Len(image) : said(i) = Piece(i)
    BY <1>2, <2>1, <2>3 DEF Piece
  <2> HIDE DEF said
  <2>6. Formats!FullSays = UNION {said(i) : i \in 1..Len(image)}
    BY <2>2 DEF said
  <2>4. Formats!FullSays = Told(Len(image))
    BY <2>5, <2>6 DEF Told
  <2> QED BY <1>2, <2>4 DEF Formats!Says, Formats!Steps
<1>3. CASE format = "bitmap"
  <2> DEFINE covered == Formats!Covered(image)
             page(q) == Formats!Bytes(q * PageSize, Header + (PageSize * Cardinality(Formats!HeldBelow(q))), PageSize)
  <2>1. Formats!Steps = covered /\ covered \in Nat
    BY <1>3, StepsAreNat DEF Formats!Steps
  <2> DEFINE pages == Formats!HeldBelow(covered)
  <2>2. Formats!BitmapSays = UNION {page(q) : q \in pages}
    BY SameOperators DEF Formats!BitmapSays
  <2>8. pages = {q \in image.set : q < covered}
    BY DEF Formats!HeldBelow
  <2>3. \A i : Piece(i) = IF i - 1 \in image.set THEN page(i - 1) ELSE {}
    BY <1>3 DEF Piece
  <2>4. image.set \in SUBSET Nat
    BY <1>3 DEF ImageTypes
  <2> HIDE DEF covered, page, pages
  <2>5. ASSUME NEW q \in image.set, q < covered PROVE page(q) \subseteq Told(covered)
    <3>1. q + 1 \in 1..covered /\ (q + 1) - 1 = q
      BY <2>1, <2>4, <2>5
    <3>2. Piece(q + 1) = page(q)
      BY <2>3, <3>1
    <3> QED BY <3>1, <3>2 DEF Told
  <2>6. ASSUME NEW i \in 1..covered PROVE Piece(i) \subseteq Formats!BitmapSays
    <3>1. i - 1 < covered
      BY <2>1
    <3>2. i - 1 \in image.set => i - 1 \in pages
      BY <2>8, <3>1
    <3> QED BY <2>2, <2>3, <3>2
  <2>7. Formats!BitmapSays = Told(covered)
    <3>1. Formats!BitmapSays \subseteq Told(covered)
      BY <2>2, <2>5, <2>8
    <3>2. Told(covered) \subseteq Formats!BitmapSays
      BY <2>6 DEF Told
    <3> QED BY <3>1, <3>2
  <2> QED BY <1>3, <2>1, <2>7 DEF Formats!Says
<1>4. CASE format = "elf"
  <2>1. Formats!ElfSays = Told(Len(image))
    BY <1>4 DEF Formats!ElfSays, Told, Piece
  <2> QED BY <1>4, <2>1 DEF Formats!Says, Formats!Steps
<1>5. CASE format = "vmware"
  <2>1. Formats!VmwareSays = Told(Len(image))
    BY <1>5 DEF Formats!VmwareSays, Told, Piece
  <2> QED BY <1>5, <2>1 DEF Formats!Says, Formats!Steps
<1>6. CASE format = "xen"
  <2> DEFINE frame(i) == Formats!Bytes(image.frames[i] * PageSize, Header + ((i - 1) * PageSize), PageSize)
             held(i) == image.frames[i] # Formats!Absent /\ (image.pfn => image.frames[i] # 0)
  <2>1. Formats!XenSays = UNION {frame(i) : i \in {j \in 1..Len(image.frames) :
                                                    image.pfn # image.p2m /\ held(j)}}
    BY DEF Formats!XenSays
  <2>2. \A i : Piece(i) = IF held(i) THEN frame(i) ELSE {}
    BY <1>6 DEF Piece
  <2>3. Formats!Steps = IF image.pfn # image.p2m THEN Len(image.frames) ELSE 0
    BY <1>6 DEF Formats!Steps
  <2>4. 1..0 = {}
    OBVIOUS
  <2> HIDE DEF frame, held
  <2>5. Formats!XenSays = Told(Formats!Steps)
    BY <2>1, <2>2, <2>3, <2>4 DEF Told
  <2> QED BY <1>6, <2>5 DEF Formats!Says
<1> QED BY <1>1, <1>2, <1>3, <1>4, <1>5, <1>6 DEF ImageTypes

\* A turn of a loop that goes on keeps the invariant if it places one more piece.
LEMMA TurnKeeps ==
    ASSUME BuildInv, result = "open", index < Formats!Steps, index' = index + 1,
           UNCHANGED <<format, image>>, result' = "open", BuildTypes', PlaceIs', RunIs',
           Shown(table') \cup OpenRun' = (Shown(table) \cup OpenRun) \cup Piece(index + 1)
    PROVE  BuildInv'
<1>1. index \in Nat
  BY StepsAreNat DEF BuildInv, BuildTypes
<1>2. Told(index + 1) = Told(index) \cup Piece(index + 1)
  BY <1>1, ToldGrows
<1>3. Shown(table) \cup OpenRun = Told(index)
  BY DEF BuildInv
<1>4. \A i : Piece(i)' = Piece(i)
  BY DEF Piece, LimeRooms, FullRooms, Formats!HeldBelow
<1>5. Told(index)' = Told(index + 1)
  BY <1>4 DEF Told
<1>6. (Shown(table) \cup OpenRun)' = Told(index)'
  BY <1>2, <1>3, <1>5
<1> QED BY <1>6 DEF BuildInv

\* What any turn finds, and what the types of the next state need besides.
LEMMA TurnFacts ==
    ASSUME BuildInv, NEW f, Formats!Turn(f)
    PROVE  /\ format = f /\ result = "open" /\ index < Formats!Steps /\ index' = index + 1
           /\ UNCHANGED <<format, image>>
           /\ index \in Nat /\ Formats!Steps \in Nat /\ index + 1 \in 1..Formats!Steps
           /\ ImageTypes' /\ index' \in 0..Formats!Steps'
           /\ PlaceIs /\ RunIs /\ place \in Nat /\ highest \in Nat /\ runPlace \in Nat
           /\ run \in Int /\ table \in Seq(Segment)
<1>1. /\ format = f /\ result = "open" /\ index < Formats!Steps /\ index' = index + 1
      /\ UNCHANGED <<format, image>>
  BY DEF Formats!Turn
<1>2. ImageTypes /\ index \in 0..Formats!Steps /\ Formats!Steps \in Nat
  BY StepsAreNat DEF BuildInv, BuildTypes
<1>3. Formats!Steps' = Formats!Steps
  BY <1>1 DEF Formats!Steps, Formats!Covered
<1>4. index \in Nat /\ index + 1 \in 1..Formats!Steps /\ index' \in 0..Formats!Steps'
  BY <1>1, <1>2, <1>3
<1>5. ImageTypes'
  BY <1>1, <1>2 DEF ImageTypes
<1>6. PlaceIs /\ RunIs /\ place \in Nat /\ highest \in Nat /\ runPlace \in Nat
      /\ run \in Int /\ table \in Seq(Segment)
  BY <1>1 DEF BuildInv, BuildTypes
<1> QED BY <1>1, <1>2, <1>4, <1>5, <1>6

\* A turn that adds one segment, or none, and has no run open.
LEMMA SegmentPlaced ==
    ASSUME BuildInv, NEW f, Formats!Turn(f), f # "bitmap",
           UNCHANGED <<run, runPlace>>, result' = "open", place' \in Nat, highest' \in Nat, PlaceIs',
           \/ table' = table /\ Piece(index + 1) = {}
           \/ \E s \in Segment : table' = Append(table, s) /\ Piece(index + 1) = Span(s)
    PROVE  BuildInv'
<1>1. /\ format = f /\ result = "open" /\ index < Formats!Steps /\ index' = index + 1
      /\ UNCHANGED <<format, image>> /\ ImageTypes' /\ index' \in 0..Formats!Steps'
      /\ RunIs /\ runPlace \in Nat /\ run \in Int /\ table \in Seq(Segment)
  BY TurnFacts
<1>2. run = Formats!NoRun /\ run' = Formats!NoRun
  BY <1>1 DEF RunIs
<1>3. OpenRun = {} /\ OpenRun' = {} /\ RunIs'
  BY <1>2 DEF OpenRun, RunIs
<1>4. table' \in Seq(Segment) /\ Shown(table') = Shown(table) \cup Piece(index + 1)
  BY <1>1, ShownGrows
<1>5. BuildTypes'
  BY <1>1, <1>4 DEF BuildTypes
<1> QED BY <1>1, <1>3, <1>4, <1>5, TurnKeeps

LEMMA SegmentIs ==
    ASSUME NEW o \in Nat, NEW m \in Nat, NEW l \in Nat
    PROVE  Formats!linear(o, m, l) \in Segment /\ Span(Formats!linear(o, m, l)) = Formats!Bytes(o, m, l)
BY DEF Formats!linear, Segment, Span

\* The rooms of records and runs are sequences to sum.
LEMMA LimeRoomsAre ==
    ASSUME image \in Seq([start : Nat, end : Nat])
    PROVE  /\ LimeRooms \in Seq(Int) /\ Len(LimeRooms) = Len(image)
           /\ \A i \in 1..Len(image) : LimeRooms[i] = Header + (image[i].end - image[i].start + 1)
<1>1. \A j \in 1..Len(image) : image[j] \in [start : Nat, end : Nat]
  BY ElementOfSeq
<1>2. \A a, b \in Nat : Header + (b - a + 1) \in Int
  BY ConstantsAssumption DEF Formats!FormatsAssumption
<1>3. \A j \in 1..Len(image) : Header + (image[j].end - image[j].start + 1) \in Int
  BY <1>1, <1>2
<1>4. Len(image) \in Nat
  OBVIOUS
<1> QED BY <1>3, <1>4 DEF LimeRooms

LEMMA FullRoomsAre ==
    ASSUME image \in Seq([page : Nat, count : Nat])
    PROVE  /\ FullRooms \in Seq(Int) /\ Len(FullRooms) = Len(image)
           /\ \A i \in 1..Len(image) : FullRooms[i] = image[i].count * PageSize
<1>1. \A j \in 1..Len(image) : image[j] \in [page : Nat, count : Nat]
  BY ElementOfSeq
<1>2. \A j \in 1..Len(image) : image[j].count \in Nat
  BY <1>1
<1>3. \A j \in 1..Len(image) : image[j].count * PageSize \in Int
  BY <1>2, Pages
<1>4. Len(image) \in Nat
  OBVIOUS
<1> QED BY <1>3, <1>4 DEF FullRooms

LEMMA LimeKeeps == BuildInv /\ Formats!LimeRecord => BuildInv'
<1> SUFFICES ASSUME BuildInv, Formats!LimeRecord PROVE BuildInv'
  OBVIOUS
<1> DEFINE i == index + 1
           r == image[i]
           length == r.end - r.start + 1
<1>1. Formats!Turn("lime") /\ UNCHANGED <<run, runPlace>>
  BY DEF Formats!LimeRecord
<1>2. /\ format = "lime" /\ result = "open" /\ index' = i /\ UNCHANGED <<format, image>>
      /\ index \in Nat /\ i \in 1..Formats!Steps /\ ImageTypes' /\ index' \in 0..Formats!Steps'
      /\ PlaceIs /\ place \in Nat /\ highest \in Nat /\ runPlace \in Nat /\ run \in Int
      /\ table \in Seq(Segment)
  BY <1>1, TurnFacts
<1>3. i \in 1..Len(image) /\ image \in Seq([start : Nat, end : Nat]) /\ Header \in Nat
  BY <1>2, ConstantsAssumption DEF Formats!Steps, BuildInv, BuildTypes, ImageTypes, Formats!FormatsAssumption
<1>4. r \in [start : Nat, end : Nat]
  BY <1>3, ElementOfSeq
<1>5. CASE (r.start < highest /\ table # <<>>) \/ r.end < r.start
  <2>1. result' = "refused" /\ UNCHANGED <<table, highest, place>>
    BY <1>5 DEF Formats!LimeRecord
  <2> QED BY <1>1, <1>2, <2>1 DEF BuildInv, BuildTypes
<1>6. CASE ~((r.start < highest /\ table # <<>>) \/ r.end < r.start)
  <2>1. /\ table' = Append(table, Formats!linear(r.start, place + Header, length))
        /\ highest' = r.end /\ place' = place + Header + length /\ result' = result
    BY <1>6 DEF Formats!LimeRecord
  <2>2. length \in Nat /\ r.start \in Nat /\ place + Header \in Nat /\ r.end \in Nat
    BY <1>2, <1>3, <1>4, <1>6
  <2>3. LimeRooms \in Seq(Int) /\ Len(LimeRooms) = Len(image) /\ LimeRooms[i] = Header + length
    BY <1>3, LimeRoomsAre
  <2>4. /\ Formats!SumBefore(LimeRooms, i) \in Int
        /\ Formats!SumBefore(LimeRooms, i + 1) = Formats!SumBefore(LimeRooms, i) + (Header + length)
    BY <1>3, <2>3, SumSteps
  <2>5. place = Formats!SumBefore(LimeRooms, i)
    BY <1>2 DEF PlaceIs
  <2> DEFINE s == Formats!linear(r.start, place + Header, length)
  <2>6. s \in Segment /\ Span(s) = Formats!Bytes(r.start, place + Header, length)
    BY <2>2, SegmentIs
  <2>7. Piece(i) = Span(s)
    BY <1>2, <2>5, <2>6 DEF Piece
  <2>8. place' = Formats!SumBefore(LimeRooms, i + 1) /\ place' \in Nat
    <3>1. Header \in Nat /\ place \in Nat /\ place' = place + Header + length
      BY <1>2, <1>3, <2>1
    <3> HIDE DEF length
    <3> QED BY <2>2, <2>4, <2>5, <3>1
  <2>9. PlaceIs'
    BY <1>2, <2>8 DEF PlaceIs, LimeRooms
  <2> QED BY <1>1, <1>2, <2>1, <2>2, <2>6, <2>7, <2>8, <2>9, SegmentPlaced
<1> QED BY <1>5, <1>6

LEMMA FullKeeps == BuildInv /\ Formats!FullRun => BuildInv'
<1> SUFFICES ASSUME BuildInv, Formats!FullRun PROVE BuildInv'
  OBVIOUS
<1> DEFINE i == index + 1
           r == image[i]
           length == r.count * PageSize
<1>1. Formats!Turn("full") /\ UNCHANGED <<highest, run, runPlace, result>>
  BY DEF Formats!FullRun
<1>2. /\ format = "full" /\ result = "open" /\ index' = i /\ UNCHANGED <<format, image>>
      /\ index \in Nat /\ i \in 1..Formats!Steps
      /\ PlaceIs /\ place \in Nat /\ highest \in Nat /\ table \in Seq(Segment)
  BY <1>1, TurnFacts
<1>3. i \in 1..Len(image) /\ image \in Seq([page : Nat, count : Nat]) /\ Header \in Nat
  BY <1>2, ConstantsAssumption DEF Formats!Steps, BuildInv, BuildTypes, ImageTypes, Formats!FormatsAssumption
<1>4. r \in [page : Nat, count : Nat]
  BY <1>3, ElementOfSeq
<1>5. length \in Nat /\ r.page * PageSize \in Nat /\ (r.count = 0 => length = 0)
  <2>1. r.count \in Nat /\ r.page \in Nat
    BY <1>4
  <2> QED BY <2>1, Pages
<1>6. FullRooms \in Seq(Int) /\ Len(FullRooms) = Len(image) /\ FullRooms[i] = length
  BY <1>3, FullRoomsAre
<1>7. /\ Formats!SumBefore(FullRooms, i) \in Int
      /\ Formats!SumBefore(FullRooms, i + 1) = Formats!SumBefore(FullRooms, i) + length
  BY <1>3, <1>6, SumSteps
<1>8. place = Header + Formats!SumBefore(FullRooms, i)
  BY <1>2 DEF PlaceIs
<1>9. Piece(i) = Formats!Bytes(r.page * PageSize, place, length)
  BY <1>2, <1>8 DEF Piece
<1>10. place' = place + length
       /\ (\/ table' = table /\ length = 0
           \/ table' = Append(table, Formats!linear(r.page * PageSize, place, length)))
  <2>1. CASE r.count = 0
    BY <1>2, <1>5, <2>1 DEF Formats!FullRun
  <2>2. CASE r.count # 0
    BY <2>2 DEF Formats!FullRun
  <2> QED BY <2>1, <2>2
<1>11. place' = Header + Formats!SumBefore(FullRooms, i + 1) /\ place' \in Nat
  <2>1. Header \in Nat /\ place \in Nat /\ place' = place + length
    BY <1>2, <1>3, <1>10
  <2> HIDE DEF length, r
  <2> QED BY <1>5, <1>7, <1>8, <2>1
<1>12. PlaceIs'
  BY <1>2, <1>11 DEF PlaceIs, FullRooms
<1> DEFINE s == Formats!linear(r.page * PageSize, place, length)
<1>13. s \in Segment /\ Span(s) = Piece(i)
  BY <1>2, <1>5, <1>9, SegmentIs
<1>14. length = 0 => Piece(i) = {}
  BY <1>2, <1>5, <1>9, NoBytes
<1> HIDE DEF length, r
<1> QED BY <1>1, <1>2, <1>10, <1>11, <1>12, <1>13, <1>14, SegmentPlaced

LEMMA BitmapKeeps == BuildInv /\ Formats!BitmapPage => BuildInv'
<1> SUFFICES ASSUME BuildInv, Formats!BitmapPage PROVE BuildInv'
  OBVIOUS
<1> DEFINE held(n) == Cardinality(Formats!HeldBelow(n))
           page == Formats!Bytes(index * PageSize, place, PageSize)
           pages == (index - run) * PageSize
           present == index \in image.set
<1>1. Formats!Turn("bitmap") /\ UNCHANGED <<highest, result>>
  BY DEF Formats!BitmapPage
<1>2. /\ format = "bitmap" /\ result = "open" /\ index < Formats!Steps /\ index' = index + 1
      /\ UNCHANGED <<format, image>>
      /\ index \in Nat /\ ImageTypes' /\ index' \in 0..Formats!Steps'
      /\ PlaceIs /\ RunIs /\ place \in Nat /\ highest \in Nat /\ runPlace \in Nat
      /\ run \in Int /\ table \in Seq(Segment)
  BY <1>1, TurnFacts
<1>3. ImageTypes /\ Header \in Nat /\ PageSize \in Nat
  BY ConstantsAssumption DEF BuildInv, BuildTypes, Formats!FormatsAssumption
<1>4. /\ held(index) \in Nat /\ held(index + 1) = held(index) + (IF present THEN 1 ELSE 0)
      /\ held(index + 1) = Cardinality(Formats!HeldBelow(index)')
  <2>1. held(index) \in Nat /\ held(index + 1) = held(index) + (IF present THEN 1 ELSE 0)
    BY <1>2, <1>3, HeldGrows
  <2>2. Formats!HeldBelow(index)' = Formats!HeldBelow(index + 1)
    BY <1>2 DEF Formats!HeldBelow
  <2> QED BY <2>1, <2>2
<1>5. place = Header + (PageSize * held(index))
  BY <1>2 DEF PlaceIs
<1>6. Piece(index + 1) = IF present THEN page ELSE {}
  BY <1>2, <1>5 DEF Piece
<1>7. place' = IF present THEN place + PageSize ELSE place
  BY DEF Formats!BitmapPage
<1>8. place' \in Nat /\ PlaceIs'
  <2>1. PageSize * held(index + 1) = (PageSize * held(index)) + (IF present THEN PageSize ELSE 0)
    <3>1. held(index) \in Nat => PageSize * (held(index) + 1) = (PageSize * held(index)) + PageSize
      BY Pages
    <3>2. held(index) \in Nat => PageSize * held(index) \in Nat
      BY Pages
    <3> HIDE DEF held
    <3>3. CASE present
      BY <1>4, <3>1, <3>3
    <3>4. CASE ~present
      <4>1. held(index + 1) = held(index)
        BY <1>4, <3>4
      <4>2. \A a \in Nat : a = a + 0
        OBVIOUS
      <4> QED BY <1>4, <3>2, <3>4, <4>1, <4>2, Zenon
    <3> QED BY <3>3, <3>4
  <2>2. PageSize * held(index) \in Nat
    BY <1>4, Pages
  <2>3. place' = Header + (PageSize * held(index + 1))
    <3> HIDE DEF held, present
    <3> QED BY <1>3, <1>5, <1>7, <2>1, <2>2
  <2>4. place' \in Nat
    BY <1>2, <1>3, <1>7
  <2> QED BY <1>2, <1>4, <2>3, <2>4 DEF PlaceIs
<1>9. run = Formats!NoRun \/ /\ run \in Nat /\ run < index /\ place = runPlace + pages
                             /\ pages \in Nat /\ run * PageSize \in Nat
                             /\ (run * PageSize) + pages = index * PageSize
  <2>1. CASE run # Formats!NoRun
    <3>1. run \in Nat /\ run < index /\ place = runPlace + pages
      BY <2>1, <1>2 DEF RunIs
    <3>2. index - run \in Nat /\ run <= index
      BY <1>2, <3>1
    <3> QED BY <1>2, <3>1, <3>2, Pages
  <2> QED BY <2>1
<1>10. CASE present /\ run = Formats!NoRun
  <2>1. run' = index /\ runPlace' = place /\ table' = table
    BY <1>10 DEF Formats!BitmapPage, Formats!NoRun
  <2>2. index + 1 - index = 1 /\ 1 * PageSize = PageSize
    BY <1>2, <1>3
  <2>3. OpenRun = {} /\ OpenRun' = page
    <3>1. run' # Formats!NoRun
      BY <1>2, <2>1 DEF Formats!NoRun
    <3> QED BY <1>2, <1>10, <2>1, <2>2, <3>1 DEF OpenRun
  <2>4. RunIs'
    <3>1. place' = runPlace' + ((index' - run') * PageSize)
      BY <1>2, <1>7, <1>10, <2>1, <2>2
    <3>2. run' < index'
      BY <1>2, <2>1
    <3> QED BY <1>2, <2>1, <3>1, <3>2 DEF RunIs
  <2>5. BuildTypes'
    BY <1>1, <1>2, <1>8, <2>1 DEF BuildTypes
  <2> QED BY <1>1, <1>2, <1>6, <1>8, <1>10, <2>1, <2>3, <2>4, <2>5, TurnKeeps
<1>11. CASE present /\ run # Formats!NoRun
  <2>1. UNCHANGED <<run, runPlace, table>>
    BY <1>11 DEF Formats!BitmapPage
  <2>2. (index + 1 - run) * PageSize = pages + PageSize
    <3>1. index - run \in Nat /\ index + 1 - run = (index - run) + 1
      BY <1>2, <1>9, <1>11
    <3> QED BY <3>1, Pages
  <2>3. OpenRun' = OpenRun \cup page
    <3>1. OpenRun = Formats!Bytes(run * PageSize, runPlace, pages)
      BY <1>11 DEF OpenRun
    <3>2. OpenRun' = Formats!Bytes(run * PageSize, runPlace, pages + PageSize)
      BY <1>2, <1>11, <2>1, <2>2 DEF OpenRun
    <3> DEFINE start == run * PageSize
               all == pages + PageSize
    <3>4. start \in Nat /\ pages \in Nat /\ runPlace \in Nat /\ PageSize \in Nat
      BY <1>2, <1>3, <1>9, <1>11
    <3>5. index * PageSize = start + pages /\ place = runPlace + pages
      BY <1>9, <1>11, Zenon
    <3>6. OpenRun = Formats!Bytes(start, runPlace, pages) /\ OpenRun' = Formats!Bytes(start, runPlace, all)
      BY <3>1, <3>2
    <3>7. all = pages + PageSize
      OBVIOUS
    <3> DEFINE here == index * PageSize
    <3>8. here = start + pages
      BY <3>5
    <3>9. page = Formats!Bytes(here, place, PageSize)
      OBVIOUS
    <3> HIDE DEF pages, start, all, here, page
    <3> QED BY <3>4, <3>5, <3>6, <3>7, <3>8, <3>9, BytesJoin
  <2>4. RunIs'
    <3>1. place' = runPlace' + ((index' - run') * PageSize)
      <4>1. place' = (runPlace + pages) + PageSize /\ pages \in Nat
        BY <1>7, <1>9, <1>11
      <4>2. (index' - run') * PageSize = pages + PageSize
        BY <1>2, <2>1, <2>2
      <4> HIDE DEF pages
      <4> QED BY <1>2, <1>3, <2>1, <4>1, <4>2
    <3>2. run' \in Nat /\ run' < index'
      BY <1>2, <1>9, <1>11, <2>1
    <3> QED BY <1>2, <3>1, <3>2 DEF RunIs
  <2>5. BuildTypes'
    BY <1>1, <1>2, <1>8, <2>1 DEF BuildTypes
  <2>6. Shown(table') \cup OpenRun' = (Shown(table) \cup OpenRun) \cup Piece(index + 1)
    BY <1>6, <1>11, <2>1, <2>3
  <2> QED BY <1>1, <1>2, <1>8, <2>4, <2>5, <2>6, TurnKeeps
<1>12. CASE ~present /\ run # Formats!NoRun
  <2> DEFINE s == Formats!linear(run * PageSize, runPlace, pages)
  <2>1. table' = Append(table, s) /\ run' = Formats!NoRun /\ UNCHANGED <<runPlace, place>>
    BY <1>12 DEF Formats!BitmapPage
  <2>2. s \in Segment /\ Span(s) = OpenRun
    BY <1>2, <1>9, <1>12, SegmentIs DEF OpenRun
  <2> HIDE DEF s
  <2>3. Shown(table') = Shown(table) \cup OpenRun /\ table' \in Seq(Segment)
    BY <1>2, <2>1, <2>2, ShownGrows
  <2>4. OpenRun' = {} /\ RunIs' /\ run' \in Int
    BY <2>1 DEF OpenRun, RunIs, Formats!NoRun
  <2>5. BuildTypes'
    BY <1>1, <1>2, <1>8, <2>1, <2>3, <2>4 DEF BuildTypes
  <2> QED BY <1>1, <1>2, <1>6, <1>8, <1>12, <2>3, <2>4, <2>5, TurnKeeps
<1>13. CASE ~present /\ run = Formats!NoRun
  <2>1. UNCHANGED <<run, runPlace, place, table>>
    BY <1>13 DEF Formats!BitmapPage
  <2>2. OpenRun = {} /\ OpenRun' = {} /\ RunIs'
    BY <1>13, <2>1 DEF OpenRun, RunIs
  <2>3. BuildTypes'
    BY <1>1, <1>2, <1>8, <2>1 DEF BuildTypes
  <2> QED BY <1>1, <1>2, <1>6, <1>8, <1>13, <2>1, <2>2, <2>3, TurnKeeps
<1> QED BY <1>10, <1>11, <1>12, <1>13

LEMMA ElfKeeps == BuildInv /\ Formats!ElfHeader => BuildInv'
<1> SUFFICES ASSUME BuildInv, Formats!ElfHeader PROVE BuildInv'
  OBVIOUS
<1> DEFINE i == index + 1
           h == image[i]
           s == Formats!linear(h.paddr, h.place, h.filesz)
<1>1. Formats!Turn("elf") /\ UNCHANGED <<place, highest, run, runPlace, result>>
  BY DEF Formats!ElfHeader
<1>2. /\ format = "elf" /\ result = "open" /\ UNCHANGED format /\ i \in 1..Formats!Steps
      /\ place \in Nat /\ highest \in Nat
  BY <1>1, TurnFacts
<1>3. i \in 1..Len(image) /\ image \in Seq([load : BOOLEAN, paddr : Nat, place : Nat, filesz : Nat])
  BY <1>2 DEF Formats!Steps, BuildInv, BuildTypes, ImageTypes
<1>4. h \in [load : BOOLEAN, paddr : Nat, place : Nat, filesz : Nat]
  BY <1>3, ElementOfSeq
<1>5. h.paddr \in Nat /\ h.place \in Nat /\ h.filesz \in Nat
  BY <1>4
<1>6. table' = IF h.load /\ h.filesz # 0 THEN Append(table, s) ELSE table
  BY DEF Formats!ElfHeader
<1>7. Piece(i) = IF h.load THEN Formats!Bytes(h.paddr, h.place, h.filesz) ELSE {}
  BY <1>2 DEF Piece
<1>8. s \in Segment /\ Span(s) = Formats!Bytes(h.paddr, h.place, h.filesz)
  BY <1>5, SegmentIs
<1>9. h.filesz = 0 => Formats!Bytes(h.paddr, h.place, h.filesz) = {}
  BY <1>5, NoBytes
<1>10. PlaceIs'
  BY <1>2 DEF PlaceIs
<1> HIDE DEF h
<1>11. \/ table' = table /\ Piece(i) = {}
       \/ \E x \in Segment : table' = Append(table, x) /\ Piece(i) = Span(x)
  BY <1>6, <1>7, <1>8, <1>9
<1> QED BY <1>1, <1>2, <1>10, <1>11, SegmentPlaced

LEMMA VmwareKeeps == BuildInv /\ Formats!VmwareRegion => BuildInv'
<1> SUFFICES ASSUME BuildInv, Formats!VmwareRegion PROVE BuildInv'
  OBVIOUS
<1> DEFINE i == index + 1
           r == image[i]
           s == Formats!linear(r.ppn * PageSize, r.page * PageSize, r.count * PageSize)
<1>1. Formats!Turn("vmware") /\ UNCHANGED <<place, highest, run, runPlace, result>>
  BY DEF Formats!VmwareRegion
<1>2. /\ format = "vmware" /\ result = "open" /\ UNCHANGED format /\ i \in 1..Formats!Steps
      /\ place \in Nat /\ highest \in Nat
  BY <1>1, TurnFacts
<1>3. i \in 1..Len(image) /\ image \in Seq([told : BOOLEAN, ppn : Nat, page : Nat, count : Nat])
  BY <1>2 DEF Formats!Steps, BuildInv, BuildTypes, ImageTypes
<1>4. r \in [told : BOOLEAN, ppn : Nat, page : Nat, count : Nat]
  BY <1>3, ElementOfSeq
<1>5. r.ppn \in Nat /\ r.page \in Nat /\ r.count \in Nat
  BY <1>4
<1>6. r.ppn * PageSize \in Nat /\ r.page * PageSize \in Nat /\ r.count * PageSize \in Nat
  BY <1>5, Pages
<1>7. table' = IF r.told THEN Append(table, s) ELSE table
  BY DEF Formats!VmwareRegion
<1>8. Piece(i) = IF r.told
                 THEN Formats!Bytes(r.ppn * PageSize, r.page * PageSize, r.count * PageSize) ELSE {}
  BY <1>2 DEF Piece
<1>9. s \in Segment /\ Span(s) = Formats!Bytes(r.ppn * PageSize, r.page * PageSize, r.count * PageSize)
  BY <1>6, SegmentIs
<1>10. PlaceIs'
  BY <1>2 DEF PlaceIs
<1> HIDE DEF r
<1>11. \/ table' = table /\ Piece(i) = {}
       \/ \E x \in Segment : table' = Append(table, x) /\ Piece(i) = Span(x)
  BY <1>7, <1>8, <1>9
<1> QED BY <1>1, <1>2, <1>10, <1>11, SegmentPlaced

LEMMA XenKeeps == BuildInv /\ Formats!XenFrame => BuildInv'
<1> SUFFICES ASSUME BuildInv, Formats!XenFrame PROVE BuildInv'
  OBVIOUS
<1> DEFINE i == index + 1
           f == image.frames[i]
           absent == f = Formats!Absent \/ (image.pfn /\ f = 0)
           s == Formats!linear(f * PageSize, place, PageSize)
<1>1. /\ Formats!Turn("xen") /\ UNCHANGED <<highest, run, runPlace, result>>
      /\ place' = place + PageSize
  BY DEF Formats!XenFrame
<1>2. /\ format = "xen" /\ result = "open" /\ UNCHANGED format /\ index \in Nat /\ index' = i
      /\ i \in 1..Formats!Steps /\ place \in Nat /\ highest \in Nat /\ PlaceIs
  BY <1>1, TurnFacts
<1>3. image \in [pfn : BOOLEAN, p2m : BOOLEAN, frames : Seq(Nat)]
  BY <1>2 DEF BuildInv, BuildTypes, ImageTypes
<1>4. image.frames \in Seq(Nat) /\ Len(image.frames) \in Nat
  BY <1>3
<1>5. i \in 1..Len(image.frames)
  <2>1. Formats!Steps = IF image.pfn # image.p2m THEN Len(image.frames) ELSE 0
    BY <1>2 DEF Formats!Steps
  <2> HIDE DEF i
  <2> QED BY <1>2, <1>4, <2>1
<1>6. f \in Nat
  BY <1>4, <1>5, ElementOfSeq
<1>7. f * PageSize \in Nat /\ PageSize \in Nat /\ Header \in Nat
  BY <1>6, Pages, ConstantsAssumption DEF Formats!FormatsAssumption
<1>8. table' = IF absent THEN table ELSE Append(table, s)
  BY DEF Formats!XenFrame
<1>9. place = Header + (index * PageSize) /\ i - 1 = index
  BY <1>2 DEF PlaceIs
<1>10. Piece(i) = IF absent THEN {} ELSE Formats!Bytes(f * PageSize, place, PageSize)
  BY <1>2, <1>9 DEF Piece
<1>11. s \in Segment /\ Span(s) = Formats!Bytes(f * PageSize, place, PageSize)
  BY <1>2, <1>7, SegmentIs
<1>12. place' \in Nat /\ place' = Header + (index' * PageSize)
  <2>1. (index + 1) * PageSize = (index * PageSize) + PageSize /\ index * PageSize \in Nat
    BY <1>2, Pages
  <2>2. place' = Header + ((index + 1) * PageSize)
    BY <1>1, <1>7, <1>9, <2>1
  <2> QED BY <1>1, <1>2, <1>7, <2>2
<1>13. PlaceIs'
  BY <1>2, <1>12 DEF PlaceIs
<1> HIDE DEF f, absent
<1>14. \/ table' = table /\ Piece(i) = {}
       \/ \E x \in Segment : table' = Append(table, x) /\ Piece(i) = Span(x)
  BY <1>8, <1>10, <1>11
<1> QED BY <1>1, <1>2, <1>12, <1>13, <1>14, SegmentPlaced

\* The loop is over: all turns have placed their pieces.
LEMMA FinishKeeps == BuildInv /\ Formats!Finish => BuildInv'
<1> SUFFICES ASSUME BuildInv, Formats!Finish PROVE BuildInv'
  OBVIOUS
<1> DEFINE s == Formats!linear(run * PageSize, runPlace, (index - run) * PageSize)
<1>1. /\ result = "open" /\ index = Formats!Steps /\ run' = Formats!NoRun
      /\ table' = (IF run = Formats!NoRun THEN table ELSE Append(table, s))
      /\ result' = (IF table' = <<>> THEN "refused" ELSE "built")
      /\ UNCHANGED <<format, image, index, place, highest, runPlace>>
  BY DEF Formats!Finish
<1>2. BuildTypes /\ ImageTypes /\ RunIs /\ Shown(table) \cup OpenRun = Told(index)
  BY <1>1 DEF BuildInv, BuildTypes
<1>3. Formats!Says = Told(index)
  BY <1>1, <1>2, SaysIsTold
<1>4. Formats!Says' = Formats!Says
  BY <1>1 DEF Formats!Says, Formats!LimeSays, Formats!FullSays, Formats!BitmapSays, Formats!ElfSays,
              Formats!VmwareSays, Formats!XenSays, Formats!HeldBelow, Formats!Covered
<1>5. table' \in Seq(Segment) /\ Shown(table') = Shown(table) \cup OpenRun
  <2>1. CASE run = Formats!NoRun
    BY <1>1, <1>2, <2>1 DEF BuildTypes, OpenRun
  <2>2. CASE run # Formats!NoRun
    <3>1. run \in Nat /\ run < index /\ runPlace \in Nat /\ table \in Seq(Segment) /\ index \in Nat
      BY <1>2, <2>2, StepsAreNat DEF RunIs, BuildTypes
    <3>2. index - run \in Nat
      BY <3>1
    <3>3. run * PageSize \in Nat /\ (index - run) * PageSize \in Nat
      BY <3>1, <3>2, Pages
    <3>4. s \in Segment /\ Span(s) = OpenRun
      BY <2>2, <3>1, <3>3, SegmentIs DEF OpenRun
    <3> HIDE DEF s
    <3> QED BY <1>1, <2>2, <3>1, <3>4, ShownGrows
  <2> QED BY <2>1, <2>2
<1>6. BuildTypes'
  <2>1. Formats!Steps' = Formats!Steps
    BY <1>1 DEF Formats!Steps, Formats!Covered
  <2>2. ImageTypes'
    BY <1>1, <1>2 DEF ImageTypes
  <2>3. index' \in 0..Formats!Steps' /\ place' \in Nat /\ highest' \in Nat /\ runPlace' \in Nat
    BY <1>1, <1>2, <2>1 DEF BuildTypes
  <2>4. run' \in Int
    BY <1>1 DEF Formats!NoRun
  <2> QED BY <1>1, <1>5, <2>2, <2>3, <2>4 DEF BuildTypes
<1> QED BY <1>1, <1>2, <1>3, <1>4, <1>5, <1>6 DEF BuildInv

-----------------------------------------------------------------------------
(* The table of every format.                                              *)

LEMMA BuildStarts == Formats!Init => BuildInv
<1> SUFFICES ASSUME Formats!Init PROVE BuildInv
  OBVIOUS
<1>1. ImageTypes /\ place \in Nat
  BY ConstantsAssumption DEF Formats!Init, ImageTypes, Formats!FormatsAssumption
<1>2. /\ index = 0 /\ highest = 0 /\ run = Formats!NoRun /\ runPlace = 0 /\ table = <<>>
      /\ result = "open"
  BY DEF Formats!Init
<1>3. BuildTypes
  <2>1. Formats!Steps \in Nat
    BY <1>1, StepsAreNat
  <2> QED BY <1>1, <1>2, <2>1 DEF BuildTypes, Formats!NoRun
<1>4. PlaceIs
  <2>1. CASE format = "lime"
    <3>1. image \in Seq([start : Nat, end : Nat]) /\ Header \in Nat
      BY <1>1, <2>1, ConstantsAssumption DEF ImageTypes, Formats!FormatsAssumption
    <3>2. LimeRooms \in Seq(Int)
      BY <3>1, LimeRoomsAre
    <3>3. place = 0
      BY <2>1 DEF Formats!Init
    <3> QED BY <1>2, <2>1, <3>2, <3>3, SumSteps DEF PlaceIs
  <2>2. CASE format = "full"
    <3>1. image \in Seq([page : Nat, count : Nat]) /\ Header \in Nat
      BY <1>1, <2>2, ConstantsAssumption DEF ImageTypes, Formats!FormatsAssumption
    <3>2. FullRooms \in Seq(Int)
      BY <3>1, FullRoomsAre
    <3>3. place = Header
      BY <2>2 DEF Formats!Init
    <3> QED BY <1>2, <2>2, <3>1, <3>2, <3>3, SumSteps DEF PlaceIs
  <2>3. CASE format = "bitmap"
    <3>1. Cardinality(Formats!HeldBelow(0)) = 0 /\ PageSize * 0 = 0
      BY <1>1, <2>3, HeldGrows, Pages
    <3>2. place = Header /\ Header \in Nat
      BY <2>3, ConstantsAssumption DEF Formats!Init, Formats!FormatsAssumption
    <3> QED BY <1>2, <2>3, <3>1, <3>2 DEF PlaceIs
  <2>4. CASE format = "xen"
    <3>1. place = Header /\ Header \in Nat /\ 0 * PageSize = 0
      BY <2>4, ConstantsAssumption DEF Formats!Init, Formats!FormatsAssumption
    <3> QED BY <1>2, <2>4, <3>1 DEF PlaceIs
  <2>5. CASE format \in {"elf", "vmware"}
    BY <2>5 DEF PlaceIs
  <2> QED BY <1>1, <2>1, <2>2, <2>3, <2>4, <2>5 DEF ImageTypes
<1>5. RunIs /\ Shown(table) \cup OpenRun = Told(index)
  BY <1>2, NothingShown, ToldGrows DEF RunIs, OpenRun
<1> QED BY <1>2, <1>3, <1>4, <1>5 DEF BuildInv

LEMMA BuildStutters == BuildInv /\ UNCHANGED formatVars => BuildInv'
<1> SUFFICES ASSUME BuildInv, UNCHANGED formatVars PROVE BuildInv'
  OBVIOUS
<1> USE DEF formatVars
<1>1. Formats!Steps' = Formats!Steps
  BY DEF Formats!Steps, Formats!Covered
<1>2. Formats!Says' = Formats!Says
  BY DEF Formats!Says, Formats!LimeSays, Formats!FullSays, Formats!BitmapSays, Formats!ElfSays,
         Formats!VmwareSays, Formats!XenSays, Formats!HeldBelow, Formats!Covered
<1>3. \A i : Piece(i)' = Piece(i)
  BY DEF Piece, LimeRooms, FullRooms, Formats!HeldBelow
<1>4. Told(index)' = Told(index)
  BY <1>3 DEF Told
<1>5. BuildTypes => BuildTypes'
  BY <1>1 DEF BuildTypes, ImageTypes
<1>6. PlaceIs => PlaceIs'
  BY DEF PlaceIs, LimeRooms, FullRooms, Formats!HeldBelow
<1>7. (RunIs => RunIs') /\ OpenRun' = OpenRun
  BY DEF RunIs, OpenRun
<1> QED BY <1>2, <1>4, <1>5, <1>6, <1>7 DEF BuildInv

LEMMA BuildStep == BuildInv /\ [Next]_vars => BuildInv'
<1> SUFFICES ASSUME BuildInv, [Next]_vars PROVE BuildInv'
  OBVIOUS
<1>1. CASE Build
  BY <1>1, LimeKeeps, FullKeeps, BitmapKeeps, ElfKeeps, VmwareKeeps, XenKeeps, FinishKeeps
     DEF Build, Formats!Next
<1>2. CASE UNCHANGED formatVars
  BY <1>2, BuildStutters
<1> QED BY <1>1, <1>2 DEF Next, Open, Serve, vars

\* The loops keep the invariant, whatever an image declares.
THEOREM BuildInvariance == Spec => []BuildInv
<1>1. Init => BuildInv
  BY BuildStarts DEF Init
<1> QED BY <1>1, BuildStep, PTL DEF Spec

\* A table that was built places every byte where its format says it is, and no
\* other byte: for every image of the six formats.
THEOREM TablesAreImages == Spec => []TableIsImage
<1>1. BuildInv => TableIsImage
  BY SameOperators DEF BuildInv, TableIsImage, Formats!TableIsImage, Shown, Span
<1> QED BY <1>1, BuildInvariance, PTL

-----------------------------------------------------------------------------
(* The layer over the table.                                               *)

Entry == [offset : Nat, size : Nat, mapped : Nat]
End(e) == e.offset + e.size
Covers(e, a) == e.offset <= a /\ a < End(e)
Placed(e, a) == e.mapped + (a - e.offset)
Inside(s, a) == s.offset <= a /\ a < Layer!EndOf(s)

\* Addresses that are passed over: where pieces do not nest, nothing is there.
Holes == {a \in Nat : lenient /\ (Disjoint => Places(a) = {})}

\* Pieces for the addresses from lo to hi: in order, each byte of each at a place that
\* is said, and nothing but holes between them.
PiecesOf(es, lo, hi, said, holes) ==
    /\ \A i \in 1..Len(es) :
         /\ es[i].size # 0 /\ lo <= es[i].offset /\ End(es[i]) <= hi
         /\ \A a \in Nat : Covers(es[i], a) => <<a, Placed(es[i], a)>> \in said
    /\ \A i, j \in 1..Len(es) : i < j => End(es[i]) <= es[j].offset
    /\ \A a \in Nat : lo <= a /\ a < hi => a \in holes \/ \E i \in 1..Len(es) : Covers(es[i], a)

\* One byte of an answer, and the bytes of an answer so far.
Byte(a, v, said, holes, bytes) == (<<a, v>> \in said /\ v < bytes) \/ (v = Layer!Zero /\ a \in holes)
Delivered(out, lo, hi, said, holes, bytes) ==
    /\ Len(out) = hi - lo
    /\ \A k \in 1..Len(out) : Byte(lo + (k - 1), out[k], said, holes, bytes)

\* A byte that was asked for and cannot be given.
Missing == \E a \in Wanted : ~Held(a) /\ ~(pad /\ Places(a) = {})

\* What a layer is, once it is open.
Opened ==
    /\ result = "built"
    /\ size \in Int
    /\ segments \in Seq(Segment)
    /\ ToSet(segments) = ToSet(table)
    /\ \A i, j \in 1..Len(segments) : i < j => segments[i].offset <= segments[j].offset
LayerTypes ==
    /\ pc \in {"closed", "idle", "single", "map", "stitch", "done"}
    /\ op \in {"read", "lend", "valid"} /\ pad \in BOOLEAN /\ lenient \in BOOLEAN
    /\ request \in Nat \X Nat
    /\ current \in Nat
    /\ entries \in Seq(Entry)
    /\ output \in Seq(Int)

\* What an operation that is over has answered.
Outcome ==
    /\ op = "valid" =>
         /\ output \in {Layer!Yes, Layer!No}
         /\ Disjoint => (output = Layer!Yes <=> \A a \in Wanted : Held(a))
    /\ op # "valid" =>
         \/ output = Layer!Failed /\ (Disjoint => Missing)
         \/ Delivered(output, from, from + request[2], Formats!Says, Holes, size)

LayerInv ==
    /\ LayerTypes
    /\ pc # "closed" => Opened
    /\ lenient => pad /\ op # "valid"
    /\ pc \in {"closed", "idle"} => entries = <<>> /\ output = <<>>
    /\ pc = "single" => request[2] = 0
    /\ pc \in {"map", "stitch"} =>
         request[2] # 0 /\ from <= current /\ current <= from + request[2]
    /\ pc = "map" =>
         /\ op = "read" => lenient = pad
         /\ output = <<>>
         /\ PiecesOf(entries, from, current, Formats!Says, Holes)
    /\ pc = "stitch" =>
         /\ op # "valid"
         /\ PiecesOf(entries, current, from + request[2], Formats!Says, Holes)
         /\ Delivered(output, from, current, Formats!Says, Holes, size)
    /\ pc = "done" /\ request[2] # 0 => Outcome

-----------------------------------------------------------------------------
(* Extremes.                                                               *)

LEMMA LeastIs ==
    ASSUME NEW S \in SUBSET Nat, S # {}
    PROVE  Min(S) \in S /\ \A x \in S : Min(S) <= x
<1>1. PICK m \in S : \A x \in S : <<x, m>> \notin OpToRel(<, Nat)
  BY NatLessThanWellFounded, WFMin
<1>2. \A x \in S : m <= x
  <2> SUFFICES ASSUME NEW x \in S PROVE m <= x
    OBVIOUS
  <2>1. x \in Nat /\ m \in Nat /\ ~(x < m)
    BY <1>1 DEF OpToRel
  <2> QED BY <2>1
<1>3. \E x \in S : \A y \in S : x =< y
  BY <1>2
<1> QED BY <1>3 DEF Min

LEMMA GreatestIs ==
    ASSUME NEW n \in Nat, NEW S, S \subseteq 0..n, S # {}
    PROVE  Max(S) \in S /\ \A x \in S : x <= Max(S)
<1> DEFINE below == {n - x : x \in S}
<1>1. \A x \in S : n - x \in Nat /\ x \in Nat
  OBVIOUS
<1>2. below \in SUBSET Nat /\ below # {}
  BY <1>1
<1>3. Min(below) \in below /\ \A y \in below : Min(below) <= y
  <2> HIDE DEF below
  <2> QED BY <1>2, LeastIs
<1>4. PICK g \in S : Min(below) = n - g
  BY <1>3
<1>5. \A x \in S : n - g <= n - x
  BY <1>3, <1>4
<1>6. \A x \in S : g >= x
  <2> SUFFICES ASSUME NEW x \in S PROVE g >= x
    OBVIOUS
  <2>1. n - g <= n - x /\ g \in Nat /\ x \in Nat
    BY <1>1, <1>5
  <2> QED BY <2>1
<1>7. Max(S) \in S /\ \A y \in S : Max(S) >= y
  BY <1>6 DEF Max
<1> QED BY <1>1, <1>7

\* Of the pieces of a table one ends last.
LEMMA LastEnd ==
    ASSUME NEW t \in Seq(Segment), t # <<>>
    PROVE  Max({s.mapped + s.length : s \in ToSet(t)}) \in Int
<1> DEFINE n == Len(t)
           e(i) == t[i].mapped + t[i].length
           ends == {s.mapped + s.length : s \in ToSet(t)}
<1>1. n \in Nat /\ n # 0 /\ DOMAIN t = 1..n
  OBVIOUS
<1>2. \A i \in 1..n : e(i) \in Nat
  <2>1. \A i \in 1..n : t[i] \in Segment
    BY ElementOfSeq
  <2> QED BY <2>1 DEF Segment
<1>3. ends = {e(i) : i \in 1..n}
  BY <1>1 DEF ToSet
<1> HIDE DEF n, e, ends
<1> DEFINE Bounded(k) == \E b \in Nat : \A i \in 1..k : e(i) <= b
           Lacking == {k \in 0..n : ~Bounded(k)}
<1>4. Bounded(n)
  <2>12. SUFFICES ASSUME ~Bounded(n) PROVE FALSE
    OBVIOUS
  <2>1. Lacking # {}
    <3>1. n \in 0..n
      BY <1>1
    <3> HIDE DEF Bounded
    <3> QED BY <2>12, <3>1
  <2>2. Lacking \in SUBSET Nat
    BY <1>1
  <2>3. Min(Lacking) \in Lacking /\ \A x \in Lacking : Min(Lacking) <= x
    <3> HIDE DEF Lacking
    <3> QED BY <2>1, <2>2, LeastIs
  <2>4. PICK k \in Lacking : \A x \in Lacking : k <= x
    BY <2>3
  <2>5. k \in 0..n /\ ~Bounded(k)
    OBVIOUS
  <2>6. k # 0
    <3>1. \A i \in 1..0 : e(i) <= 0
      OBVIOUS
    <3> QED BY <2>5, <3>1
  <2>7. k - 1 \in 0..n /\ ~(k <= k - 1)
    BY <1>1, <2>5, <2>6
  <2>13. Bounded(k - 1)
    <3> HIDE DEF Bounded
    <3> QED BY <2>4, <2>7
  <2>8. PICK b \in Nat : \A i \in 1..(k - 1) : e(i) <= b
    BY <2>13
  <2>14. k \in 1..n
    BY <1>1, <2>5, <2>6
  <2>9. k \in 1..n /\ e(k) \in Nat
    BY <1>2, <2>14
  <2>15. \A x, y, z \in Nat : x <= y => x <= y + z
    OBVIOUS
  <2>10. \A i \in 1..k : e(i) <= b + e(k)
    <3> SUFFICES ASSUME NEW i \in 1..k PROVE e(i) <= b + e(k)
      OBVIOUS
    <3>1. CASE i = k
      BY <2>8, <2>9, <3>1
    <3>2. CASE i # k
      <4>1. i \in 1..(k - 1) /\ i \in 1..n
        BY <1>1, <2>9, <3>2
      <4>2. e(i) <= b /\ e(i) \in Nat
        BY <1>2, <2>8, <4>1
      <4> QED BY <2>8, <2>9, <2>15, <4>2, Zenon
    <3> QED BY <3>1, <3>2
  <2>16. \A x, y \in Nat : x + y \in Nat
    OBVIOUS
  <2>11. b + e(k) \in Nat
    BY <2>8, <2>9, <2>16, Zenon
  <2> QED BY <2>5, <2>10, <2>11
<1>5. PICK b \in Nat : \A i \in 1..n : e(i) <= b
  BY <1>4
<1>6. ends \subseteq 0..b /\ ends # {}
  <2>1. \A i \in 1..n : e(i) \in 0..b
    BY <1>2, <1>5
  <2>2. 1 \in 1..n
    BY <1>1
  <2> QED BY <1>3, <2>1, <2>2
<1>7. Max(ends) \in ends
  BY <1>6, GreatestIs
<1> QED BY <1>6, <1>7 DEF ends

-----------------------------------------------------------------------------
(* Pieces and answers.                                                     *)

\* A piece is added at the end.
LEMMA PieceAppended ==
    ASSUME NEW es \in Seq(Entry), NEW lo \in Nat, NEW hi \in Nat, NEW said, NEW holes,
           PiecesOf(es, lo, hi, said, holes), lo <= hi,
           NEW e \in Entry, e.offset = hi, e.size # 0,
           \A a \in Nat : Covers(e, a) => <<a, Placed(e, a)>> \in said
    PROVE  Append(es, e) \in Seq(Entry) /\ PiecesOf(Append(es, e), lo, End(e), said, holes)
<1> DEFINE more == Append(es, e)
           n == Len(es)
<1>1. /\ more \in Seq(Entry) /\ Len(more) = n + 1 /\ n \in Nat
      /\ \A i \in 1..n : more[i] = es[i]
      /\ more[n + 1] = e
  BY AppendProperties
<1>2. \A i \in 1..(n + 1) : i \in 1..n \/ i = n + 1
  BY <1>1
<1>3. \A i \in 1..n : es[i] \in Entry
  BY ElementOfSeq
<1>4. e.size \in Nat /\ e.offset \in Nat /\ End(e) \in Nat /\ hi <= End(e)
  BY DEF Entry, End
<1> HIDE DEF more, n
<1>5. ASSUME NEW i \in 1..(n + 1)
      PROVE  /\ more[i].size # 0 /\ lo <= more[i].offset /\ End(more[i]) <= End(e)
             /\ \A a \in Nat : Covers(more[i], a) => <<a, Placed(more[i], a)>> \in said
  <2>1. CASE i \in 1..n
    <3>1. /\ es[i].size # 0 /\ lo <= es[i].offset /\ End(es[i]) <= hi
          /\ \A a \in Nat : Covers(es[i], a) => <<a, Placed(es[i], a)>> \in said
      BY <2>1 DEF PiecesOf, n
    <3>2. End(es[i]) \in Nat
      BY <1>3, <2>1 DEF Entry, End
    <3>3. End(es[i]) <= End(e)
      BY <1>4, <3>1, <3>2
    <3> QED BY <1>1, <2>1, <3>1, <3>3
  <2>2. CASE i = n + 1
    BY <1>1, <1>4, <2>2
  <2> QED BY <1>2, <2>1, <2>2
<1>6. ASSUME NEW i \in 1..(n + 1), NEW j \in 1..(n + 1), i < j PROVE End(more[i]) <= more[j].offset
  <2>1. i \in 1..n
    BY <1>1, <1>6
  <2>2. CASE j \in 1..n
    BY <1>1, <1>6, <2>1, <2>2 DEF PiecesOf, n
  <2>3. CASE j = n + 1
    BY <1>1, <2>1, <2>3 DEF PiecesOf, n
  <2> QED BY <1>2, <2>2, <2>3
<1>7. ASSUME NEW a \in Nat, lo <= a, a < End(e)
      PROVE  a \in holes \/ \E i \in 1..(n + 1) : Covers(more[i], a)
  <2>1. CASE a < hi
    <3>1. a \in holes \/ \E i \in 1..n : Covers(es[i], a)
      BY <1>7, <2>1 DEF PiecesOf, n
    <3>2. \A i \in 1..n : i \in 1..(n + 1)
      BY <1>1
    <3> QED BY <1>1, <3>1, <3>2
  <2>2. CASE ~(a < hi)
    <3>1. Covers(e, a)
      BY <1>7, <2>2 DEF Covers
    <3>2. n + 1 \in 1..(n + 1)
      BY <1>1
    <3> QED BY <1>1, <3>1, <3>2
  <2> QED BY <2>1, <2>2
<1> QED BY <1>1, <1>5, <1>6, <1>7 DEF PiecesOf, more

\* Holes are passed over.
LEMMA HolesPassed ==
    ASSUME NEW es \in Seq(Entry), NEW lo \in Nat, NEW hi \in Nat, NEW said, NEW holes,
           PiecesOf(es, lo, hi, said, holes),
           NEW next \in Nat, hi <= next, \A a \in Nat : hi <= a /\ a < next => a \in holes
    PROVE  PiecesOf(es, lo, next, said, holes)
<1>1. \A i \in 1..Len(es) : End(es[i]) <= next
  <2> SUFFICES ASSUME NEW i \in 1..Len(es) PROVE End(es[i]) <= next
    OBVIOUS
  <2>1. es[i] \in Entry
    BY ElementOfSeq
  <2>2. End(es[i]) \in Nat /\ End(es[i]) <= hi
    BY <2>1 DEF PiecesOf, End, Entry
  <2> QED BY <2>2
<1>2. ASSUME NEW a \in Nat, lo <= a, a < next
      PROVE  a \in holes \/ \E i \in 1..Len(es) : Covers(es[i], a)
  <2>1. CASE a < hi
    BY <1>2, <2>1 DEF PiecesOf
  <2>2. CASE hi <= a
    BY <1>2, <2>2
  <2> QED BY <2>1, <2>2
<1> QED BY <1>1, <1>2 DEF PiecesOf

LEMMA NoPieces ==
    ASSUME NEW lo \in Nat, NEW said, NEW holes
    PROVE  PiecesOf(<<>>, lo, lo, said, holes)
<1>1. \A i : i \notin 1..Len(<<>>)
  OBVIOUS
<1>2. \A a \in Nat : ~(lo <= a /\ a < lo)
  OBVIOUS
<1> QED BY <1>1, <1>2 DEF PiecesOf

\* The first piece is taken: before it there are only holes.
LEMMA PieceTaken ==
    ASSUME NEW es \in Seq(Entry), NEW lo \in Nat, NEW hi \in Nat, NEW said, NEW holes,
           PiecesOf(es, lo, hi, said, holes), es # <<>>
    PROVE  /\ Head(es) \in Entry /\ Head(es).size # 0
           /\ lo <= Head(es).offset /\ End(Head(es)) <= hi
           /\ \A a \in Nat : Covers(Head(es), a) => <<a, Placed(Head(es), a)>> \in said
           /\ \A a \in Nat : lo <= a /\ a < Head(es).offset => a \in holes
           /\ Tail(es) \in Seq(Entry) /\ PiecesOf(Tail(es), End(Head(es)), hi, said, holes)
<1> DEFINE n == Len(es)
           rest == Tail(es)
           e == Head(es)
<1>1. n \in Nat /\ n # 0 /\ e = es[1]
  OBVIOUS
<1>2. rest \in Seq(Entry) /\ Len(rest) = n - 1 /\ \A i \in 1..(n - 1) : rest[i] = es[i + 1]
  BY HeadTailProperties
<1>3. \A i \in 1..n : es[i] \in Entry
  BY ElementOfSeq
<1> HIDE DEF n, rest, e
<1>4. 1 \in 1..n
  BY <1>1
<1>5. e \in Entry /\ e.size # 0 /\ lo <= e.offset /\ End(e) <= hi
      /\ \A a \in Nat : Covers(e, a) => <<a, Placed(e, a)>> \in said
  BY <1>1, <1>3, <1>4 DEF PiecesOf, n
<1>6. ASSUME NEW i \in 1..n, i # 1 PROVE End(e) <= es[i].offset
  <2>1. 1 < i
    BY <1>6, <1>1
  <2> QED BY <1>1, <1>4, <2>1 DEF PiecesOf, n
<1>7. e.offset \in Nat /\ End(e) \in Nat /\ e.offset < End(e)
  BY <1>5 DEF Entry, End
<1>8. ASSUME NEW a \in Nat, lo <= a, a < e.offset PROVE a \in holes
  <2>1. a < hi
    <3>1. e.offset < hi
      BY <1>5, <1>7
    <3> QED BY <1>7, <1>8, <3>1
  <2>2. a \in holes \/ \E i \in 1..n : Covers(es[i], a)
    BY <1>8, <2>1 DEF PiecesOf, n
  <2>3. ASSUME NEW i \in 1..n PROVE ~Covers(es[i], a)
    <3>1. CASE i = 1
      BY <1>1, <1>7, <1>8, <3>1 DEF Covers
    <3>2. CASE i # 1
      <4>1. End(e) <= es[i].offset /\ es[i].offset \in Nat
        BY <1>3, <1>6, <3>2 DEF Entry
      <4> QED BY <1>7, <1>8, <4>1 DEF Covers
    <3> QED BY <3>1, <3>2
  <2> QED BY <2>2, <2>3
<1>9. \A i \in 1..(n - 1) : i + 1 \in 1..n /\ i + 1 # 1
  BY <1>1
<1>10. ASSUME NEW i \in 1..(n - 1)
       PROVE  /\ rest[i].size # 0 /\ End(e) <= rest[i].offset /\ End(rest[i]) <= hi
              /\ \A a \in Nat : Covers(rest[i], a) => <<a, Placed(rest[i], a)>> \in said
  <2>1. rest[i] = es[i + 1] /\ i + 1 \in 1..n /\ i + 1 # 1
    BY <1>2, <1>9
  <2> DEFINE j == i + 1
  <2>2. rest[i] = es[j] /\ j \in 1..n /\ j # 1
    BY <2>1
  <2> HIDE DEF j
  <2>3. End(e) <= es[j].offset
    BY <1>6, <2>2
  <2>4. /\ es[j].size # 0 /\ End(es[j]) <= hi
        /\ \A a \in Nat : Covers(es[j], a) => <<a, Placed(es[j], a)>> \in said
    BY <2>2 DEF PiecesOf, n
  <2> QED BY <2>2, <2>3, <2>4
<1>11. ASSUME NEW i \in 1..(n - 1), NEW j \in 1..(n - 1), i < j PROVE End(rest[i]) <= rest[j].offset
  <2>1. i + 1 \in 1..n /\ j + 1 \in 1..n /\ i + 1 < j + 1
    BY <1>9, <1>11
  <2>2. rest[i] = es[i + 1] /\ rest[j] = es[j + 1]
    BY <1>2
  <2> DEFINE k == i + 1
             l == j + 1
  <2>3. k \in 1..n /\ l \in 1..n /\ k < l /\ rest[i] = es[k] /\ rest[j] = es[l]
    BY <2>1, <2>2
  <2> HIDE DEF k, l
  <2> QED BY <2>3 DEF PiecesOf, n
<1>12. ASSUME NEW a \in Nat, End(e) <= a, a < hi
       PROVE  a \in holes \/ \E i \in 1..(n - 1) : Covers(rest[i], a)
  <2>1. lo <= a
    BY <1>5, <1>7, <1>12
  <2>2. a \in holes \/ \E i \in 1..n : Covers(es[i], a)
    BY <1>12, <2>1 DEF PiecesOf, n
  <2>3. SUFFICES ASSUME NEW i \in 1..n, Covers(es[i], a) PROVE \E k \in 1..(n - 1) : Covers(rest[k], a)
    BY <2>2
  <2>4. i # 1
    BY <1>1, <1>7, <1>12, <2>3 DEF Covers
  <2>5. i - 1 \in 1..(n - 1) /\ (i - 1) + 1 = i
    BY <1>1, <2>4
  <2>6. rest[i - 1] = es[i]
    BY <1>2, <2>5
  <2> QED BY <2>3, <2>5, <2>6
<1>13. PiecesOf(rest, End(e), hi, said, holes)
  BY <1>2, <1>10, <1>11, <1>12 DEF PiecesOf
<1> QED BY <1>2, <1>5, <1>8, <1>13 DEF rest, e

\* More bytes are delivered.
LEMMA MoreDelivered ==
    ASSUME NEW out \in Seq(Int), NEW lo \in Nat, NEW hi \in Nat, NEW said, NEW holes, NEW bytes,
           Delivered(out, lo, hi, said, holes, bytes),
           NEW more \in Seq(Int), NEW next \in Nat, Len(more) = next - hi,
           \A k \in 1..Len(more) : Byte(hi + (k - 1), more[k], said, holes, bytes)
    PROVE  out \o more \in Seq(Int) /\ Delivered(out \o more, lo, next, said, holes, bytes)
<1> DEFINE all == out \o more
           n == Len(out)
           m == Len(more)
<1>1. /\ all \in Seq(Int) /\ Len(all) = n + m /\ n \in Nat /\ m \in Nat
      /\ \A i \in 1..(n + m) : all[i] = IF i <= n THEN out[i] ELSE more[i - n]
  <2>1. all \in Seq(Int) /\ Len(all) = n + m
    BY ConcatProperties
  <2>2. \A i \in 1..(n + m) : all[i] = IF i <= n THEN out[i] ELSE more[i - n]
    BY ConcatProperties, Zenon
  <2> QED BY <2>1, <2>2
<1>2. n = hi - lo /\ m = next - hi
  BY DEF Delivered
<1>3. \A k \in 1..n : Byte(lo + (k - 1), out[k], said, holes, bytes)
  BY DEF Delivered
<1>4. \A k \in 1..m : Byte(hi + (k - 1), more[k], said, holes, bytes)
  OBVIOUS
<1> HIDE DEF all, n, m
<1>5. n + m = next - lo
  BY <1>1, <1>2
<1>6. ASSUME NEW k \in 1..(n + m) PROVE Byte(lo + (k - 1), all[k], said, holes, bytes)
  <2>1. CASE k <= n
    <3>1. k \in 1..n
      BY <1>1, <2>1
    <3> QED BY <1>1, <1>3, <2>1, <3>1
  <2>2. CASE ~(k <= n)
    <3>1. k - n \in 1..m /\ hi + ((k - n) - 1) = lo + (k - 1)
      <4>1. n \in Nat /\ m \in Nat /\ k \in Nat /\ k <= n + m /\ ~(k <= n) /\ n = hi - lo
        BY <1>1, <1>2, <2>2
      <4> QED BY <4>1
    <3>2. all[k] = more[k - n]
      BY <1>1, <2>2
    <3>3. Byte(hi + ((k - n) - 1), more[k - n], said, holes, bytes)
      BY <1>4, <3>1
    <3> QED BY <3>1, <3>2, <3>3
  <2> QED BY <2>1, <2>2
<1> QED BY <1>1, <1>5, <1>6 DEF Delivered, all

-----------------------------------------------------------------------------
(* What a layer finds in its table.                                        *)

\* What is said, segment by segment.
LEMMA SaidIs ==
    ASSUME BuildInv, Opened, NEW a \in Nat, NEW m
    PROVE  /\ <<a, m>> \in Formats!Says <=>
                \E s \in ToSet(segments) : Inside(s, a) /\ m = s.mapped + (a - s.offset)
           /\ m \in Places(a) <=> <<a, m>> \in Formats!Says
           /\ ToSet(segments) \subseteq Segment
<1>1. ToSet(segments) \subseteq Segment
  <2>1. \A i \in DOMAIN segments : segments[i] \in Segment
    BY ElementOfSeq DEF Opened
  <2> QED BY <2>1 DEF ToSet
<1>2. Formats!Says = UNION {Span(s) : s \in ToSet(segments)}
  BY DEF BuildInv, Opened, Shown
<1>3. ASSUME NEW s \in ToSet(segments), <<a, m>> \in Span(s)
      PROVE  Inside(s, a) /\ m = s.mapped + (a - s.offset)
  <2>1. s.offset \in Nat /\ s.mapped \in Nat /\ s.length \in Nat
    BY <1>1 DEF Segment
  <2>2. PICK d \in 0..(s.length - 1) : <<a, m>> = <<s.offset + d, s.mapped + d>>
    BY <1>3 DEF Span, Formats!Bytes
  <2>3. a = s.offset + d /\ m = s.mapped + d
    BY <2>2
  <2> QED BY <2>1, <2>2, <2>3 DEF Inside, Layer!EndOf
<1>4. ASSUME NEW s \in ToSet(segments), Inside(s, a), m = s.mapped + (a - s.offset)
      PROVE  <<a, m>> \in Span(s)
  <2>1. s.offset \in Nat /\ s.mapped \in Nat /\ s.length \in Nat
    BY <1>1 DEF Segment
  <2> DEFINE d == a - s.offset
  <2>2. d \in 0..(s.length - 1) /\ a = s.offset + d /\ m = s.mapped + d
    BY <1>4, <2>1 DEF Inside, Layer!EndOf
  <2> HIDE DEF d
  <2> QED BY <2>2 DEF Span, Formats!Bytes
<1>5. <<a, m>> \in Formats!Says <=>
                \E s \in ToSet(segments) : Inside(s, a) /\ m = s.mapped + (a - s.offset)
  BY <1>2, <1>3, <1>4
<1>6. \A c \in Formats!Says : c = <<c[1], c[2]>>
  <2> SUFFICES ASSUME NEW s \in ToSet(segments), NEW c \in Span(s) PROVE c = <<c[1], c[2]>>
    BY <1>2
  <2>1. PICK d \in 0..(s.length - 1) : c = <<s.offset + d, s.mapped + d>>
    BY DEF Span, Formats!Bytes
  <2> QED BY <2>1
<1>7. m \in Places(a) <=> \E c \in Formats!Says : c[1] = a /\ c[2] = m
  BY DEF Places
<1>8. <<a, m>>[1] = a /\ <<a, m>>[2] = m
  OBVIOUS
<1>9. m \in Places(a) <=> <<a, m>> \in Formats!Says
  BY <1>6, <1>7, <1>8
<1> QED BY <1>1, <1>5, <1>9

\* Where no piece begins inside another, at most one piece has an address.
LEMMA OnePiece ==
    ASSUME BuildInv, Opened, Disjoint, NEW a \in Nat, NEW s \in ToSet(segments),
           NEW t \in ToSet(segments), Inside(s, a), t.offset <= a, s.offset <= t.offset \/ Inside(t, a)
    PROVE  s = t
<1>1. s \in Segment /\ t \in Segment
  BY SaidIs
<1>2. s.offset \in Nat /\ t.offset \in Nat /\ s.length \in Nat /\ t.length \in Nat
  BY <1>1 DEF Segment
<1>3. table \in Seq(Segment) /\ s \in ToSet(table) /\ t \in ToSet(table)
  BY DEF Opened, BuildInv, BuildTypes
<1>4. PICK i \in 1..Len(table), j \in 1..Len(table) : table[i] = s /\ table[j] = t
  BY <1>3 DEF ToSet
<1>5. SUFFICES ASSUME s # t PROVE FALSE
  OBVIOUS
<1>6. i # j
  BY <1>4, <1>5
<1>7. /\ ~(s.offset <= t.offset /\ t.offset < Layer!EndOf(s))
      /\ ~(t.offset <= s.offset /\ s.offset < Layer!EndOf(t))
  BY <1>4, <1>6 DEF Disjoint
<1>8. a < s.offset + s.length /\ s.offset <= a
  BY DEF Inside, Layer!EndOf
<1>9. CASE s.offset <= t.offset
  BY <1>2, <1>7, <1>8, <1>9 DEF Layer!EndOf
<1>10. CASE Inside(t, a)
  BY <1>2, <1>7, <1>8, <1>10 DEF Layer!EndOf, Inside
<1> QED BY <1>9, <1>10

LEMMA OnePlace ==
    ASSUME BuildInv, Opened, Disjoint, NEW a \in Nat, NEW m \in Places(a), NEW n \in Places(a)
    PROVE  m = n
<1>1. PICK s \in ToSet(segments) : Inside(s, a) /\ m = s.mapped + (a - s.offset)
  BY SaidIs
<1>2. PICK t \in ToSet(segments) : Inside(t, a) /\ n = t.mapped + (a - t.offset)
  BY SaidIs
<1>3. t.offset <= a
  BY <1>2 DEF Inside
<1>4. s = t
  BY <1>1, <1>2, <1>3, OnePiece
<1> QED BY <1>1, <1>2, <1>4

\* The segment that is found has the address; where none is found and pieces do not
\* nest, none has it.
LEMMA FindSegment ==
    ASSUME BuildInv, Opened, NEW a \in Nat
    PROVE  /\ \A i \in Layer!find_segment(a) : segments[i] \in ToSet(segments) /\ Inside(segments[i], a)
           /\ Layer!find_segment(a) = {} /\ Disjoint => \A s \in ToSet(segments) : ~Inside(s, a)
<1> DEFINE n == Len(segments)
           before == {i \in 1..n : segments[i].offset <= a}
<1>1. n \in Nat /\ DOMAIN segments = 1..n /\ \A i \in 1..n : segments[i] \in Segment
  BY ElementOfSeq DEF Opened
<1>2. Layer!find_segment(a) =
        IF before = {} THEN {} ELSE {i \in {Max(before)} : a < Layer!EndOf(segments[i])}
  BY SameOperators DEF Layer!find_segment
<1>3. \A i \in before : i \in 1..n /\ segments[i].offset <= a
  OBVIOUS
<1>4. before # {} => Max(before) \in before /\ \A i \in before : i <= Max(before)
  <2>1. before \subseteq 0..n
    BY <1>1
  <2> HIDE DEF before
  <2> QED BY <1>1, <2>1, GreatestIs
<1>5. \A i \in 1..n : segments[i].offset <= a => i \in before
  OBVIOUS
<1> HIDE DEF before
<1>6. ASSUME NEW i \in Layer!find_segment(a)
      PROVE  segments[i] \in ToSet(segments) /\ Inside(segments[i], a)
  <2>1. i \in before /\ a < Layer!EndOf(segments[i])
    BY <1>2, <1>4
  <2> QED BY <1>1, <1>3, <2>1 DEF ToSet, Inside
<1>7. ASSUME Layer!find_segment(a) = {}, Disjoint, NEW s \in ToSet(segments), Inside(s, a)
      PROVE  FALSE
  <2>1. PICK k \in 1..n : segments[k] = s
    BY <1>1 DEF ToSet
  <2>2. k \in before
    BY <1>5, <1>7, <2>1 DEF Inside
  <2> DEFINE last == Max(before)
  <2>3. last \in 1..n /\ segments[last].offset <= a /\ k <= last
    BY <1>3, <1>4, <2>2
  <2>4. segments[last] \in ToSet(segments)
    BY <1>1, <2>3 DEF ToSet
  <2>5. s.offset <= segments[last].offset
    <3>1. CASE k = last
      <4>1. s.offset \in Nat
        BY <1>1, <2>1 DEF Segment
      <4> QED BY <2>1, <3>1, <4>1
    <3>2. CASE k # last
      <4>1. k < last
        BY <2>3, <3>2
      <4> QED BY <2>1, <2>3, <4>1 DEF Opened
    <3> QED BY <3>1, <3>2
  <2>6. s = segments[last]
    BY <1>7, <2>3, <2>4, <2>5, OnePiece
  <2>7. last \in Layer!find_segment(a)
    BY <1>2, <1>7, <2>2, <2>6 DEF Inside
  <2> QED BY <1>7, <2>7
<1> QED BY <1>6, <1>7

\* Nothing is at an address that no segment has.
LEMMA NothingThere ==
    ASSUME BuildInv, Opened, NEW a \in Nat, \A s \in ToSet(segments) : ~Inside(s, a)
    PROVE  Places(a) = {}
BY SaidIs

\* The check of the file, for ranges that are not empty.
LEMMA ValidIs ==
    ASSUME NEW at \in Nat, NEW length \in Nat, length # 0
    PROVE  Layer!IsValidInFile(at, length) <=> at + length - 1 < size
<1>1. Max({length, 1}) = length
  <2>1. {length, 1} \subseteq 0..length
    OBVIOUS
  <2>2. {length, 1} # {}
    OBVIOUS
  <2>3. Max({length, 1}) \in {length, 1} /\ length <= Max({length, 1})
    BY <2>1, <2>2, GreatestIs
  <2> QED BY <2>3
<1> QED BY <1>1, SameOperators DEF Layer!IsValidInFile

\* A piece is valid if its last byte is in the file, and so each one is.
LEMMA PieceValid ==
    ASSUME Opened, NEW e \in Entry, e.size # 0
    PROVE  /\ Layer!IsValidInFile(e.mapped, e.size) <=> Placed(e, End(e) - 1) < size
           /\ End(e) - 1 \in Nat /\ Covers(e, End(e) - 1)
           /\ \A a \in Nat : Covers(e, a) => /\ Placed(e, a) \in Nat
                                             /\ Layer!IsValidInFile(e.mapped, e.size) => Placed(e, a) < size
<1>1. e.offset \in Nat /\ e.size \in Nat /\ e.mapped \in Nat /\ size \in Int
  BY DEF Entry, Opened
<1>2. Layer!IsValidInFile(e.mapped, e.size) <=> e.mapped + e.size - 1 < size
  BY <1>1, ValidIs
<1>3. /\ End(e) - 1 \in Nat /\ Covers(e, End(e) - 1)
      /\ Placed(e, End(e) - 1) = e.mapped + e.size - 1
  BY <1>1 DEF End, Covers, Placed
<1>4. ASSUME NEW a \in Nat, Covers(e, a)
      PROVE  Placed(e, a) \in Nat /\ Placed(e, a) <= e.mapped + e.size - 1
  BY <1>1, <1>4 DEF End, Covers, Placed
<1>5. ASSUME NEW a \in Nat, Covers(e, a), e.mapped + e.size - 1 < size PROVE Placed(e, a) < size
  <2>1. Placed(e, a) \in Nat /\ Placed(e, a) <= e.mapped + e.size - 1
    BY <1>4, <1>5
  <2> QED BY <1>1, <1>5, <2>1
<1> QED BY <1>2, <1>3, <1>4, <1>5

-----------------------------------------------------------------------------
(* The steps of the layer.                                                 *)

LEMMA Kept ==
    ASSUME UNCHANGED formatVars
    PROVE  /\ Formats!Says' = Formats!Says /\ Disjoint' = Disjoint
           /\ \A a : Places(a)' = Places(a)
           /\ lenient' = lenient => Holes' = Holes
           /\ UNCHANGED <<size, segments>> /\ Opened => Opened'
<1> USE DEF formatVars
<1>1. Formats!Says' = Formats!Says
  BY DEF Formats!Says, Formats!LimeSays, Formats!FullSays, Formats!BitmapSays, Formats!ElfSays,
         Formats!VmwareSays, Formats!XenSays, Formats!HeldBelow, Formats!Covered
<1>2. Disjoint' = Disjoint
  BY DEF Disjoint
<1>3. \A a : Places(a)' = Places(a)
  BY <1>1 DEF Places
<1>4. lenient' = lenient => Holes' = Holes
  BY <1>2, <1>3 DEF Holes
<1>5. UNCHANGED <<size, segments>> /\ Opened => Opened'
  BY DEF Opened
<1> QED BY <1>1, <1>2, <1>3, <1>4, <1>5

LEMMA OpenKeeps == BuildInv /\ LayerInv /\ Open => LayerInv'
<1> SUFFICES ASSUME BuildInv, LayerInv, Open PROVE LayerInv'
  OBVIOUS
<1>1. /\ result = "built" /\ UNCHANGED formatVars
      /\ pc = "closed" /\ pc' = "idle" /\ segments' \in Layer!SortedByOffset(table)
      /\ UNCHANGED <<op, pad, request, current, lenient, entries, output>>
  BY DEF Open, Layer!Open
<1>2. table \in Seq(Segment) /\ table # <<>> /\ table' = table /\ result' = "built"
  BY <1>1 DEF BuildInv, BuildTypes, formatVars
<1>3. size' \in Int
  <2>1. PICK cut \in Cuts : size' = FileEnd - cut
    BY DEF Open, Layer!Open
  <2>2. FileEnd \in Int
    BY <1>2, LastEnd DEF FileEnd
  <2>3. cut \in Int
    BY ConstantsAssumption
  <2> QED BY <2>1, <2>2, <2>3
<1> DEFINE n == Len(table)
<1>4. n \in Nat /\ \A i \in 1..n : table[i] \in Segment
  BY <1>2, ElementOfSeq
<1>5. PICK p \in [1..n -> 1..n] : segments' = [i \in 1..n |-> table[p[i]]]
  BY <1>1 DEF Layer!SortedByOffset
<1>6. ToSet(segments') = ToSet(table) /\ \A i \in 1..(n - 1) : segments'[i].offset <= segments'[i + 1].offset
  BY <1>1, SameOperators DEF Layer!SortedByOffset
<1> HIDE DEF n
<1>7. \A i \in 1..n : segments'[i] \in Segment /\ segments'[i].offset \in Nat
  BY <1>4, <1>5 DEF Segment
<1>8. segments' \in Seq(Segment) /\ Len(segments') = n
  BY <1>4, <1>5, <1>7
<1>9. \A i, j \in 1..n : i < j => segments'[i].offset <= segments'[j].offset
  <2> SUFFICES ASSUME NEW i \in 1..n,
                      ~\A j \in 1..n : i < j => segments'[i].offset <= segments'[j].offset
               PROVE  FALSE
    BY Zenon
  <2> DEFINE low == {j \in 1..n : i < j /\ ~(segments'[i].offset <= segments'[j].offset)}
  <2>8. low # {}
    <3>1. \E j \in 1..n : i < j /\ ~(segments'[i].offset <= segments'[j].offset)
      BY Zenon
    <3> QED BY <3>1
  <2>1. low # {} /\ low \in SUBSET Nat
    BY <1>4, <2>8
  <2>2. Min(low) \in low /\ \A x \in low : Min(low) <= x
    <3> HIDE DEF low
    <3> QED BY <2>1, LeastIs
  <2>3. PICK j \in low : \A x \in low : j <= x
    BY <2>2
  <2>4. j \in 1..n /\ i < j /\ ~(segments'[i].offset <= segments'[j].offset)
    OBVIOUS
  <2> DEFINE k == j - 1
  <2>5. k \in 1..n /\ k \in 1..(n - 1) /\ k + 1 = j /\ (i < k \/ i = k) /\ ~(j <= k)
    BY <1>4, <2>4
  <2> HIDE DEF k
  <2>6. segments'[k].offset <= segments'[j].offset
    BY <1>6, <2>5
  <2>7. segments'[i].offset <= segments'[k].offset
    <3>1. CASE i < k
      BY <2>3, <2>5, <3>1
    <3>2. CASE i = k
      BY <1>7, <3>2
    <3> QED BY <2>5, <3>1, <3>2
  <2> QED BY <1>7, <2>4, <2>5, <2>6, <2>7
<1>10. Opened'
  BY <1>2, <1>3, <1>6, <1>8, <1>9 DEF Opened
<1> QED BY <1>1, <1>10 DEF LayerInv, LayerTypes

LEMMA AskKeeps == BuildInv /\ LayerInv /\ Layer!Ask /\ UNCHANGED formatVars => LayerInv'
<1> SUFFICES ASSUME BuildInv, LayerInv, Layer!Ask, UNCHANGED formatVars PROVE LayerInv'
  OBVIOUS
<1>1. /\ pc = "idle" /\ op' \in Layer!Ops /\ pad' \in BOOLEAN /\ request' \in Requests
      /\ lenient' = (pad' /\ (op' = "read" \/ (op' = "lend" /\ request'[2] = 0)))
      /\ pc' = (IF request'[2] = 0 THEN "single" ELSE "map")
      /\ current' = request'[1]
      /\ UNCHANGED <<segments, size, entries, output>>
  BY DEF Layer!Ask
<1>2. entries = <<>> /\ output = <<>> /\ Opened
  BY <1>1 DEF LayerInv
<1>3. request' \in Nat \X Nat
  BY <1>1, ConstantsAssumption DEF Layer!RequestsAssumption
<1>4. request'[1] \in Nat /\ request'[2] \in Nat
  BY <1>3
<1>5. Opened'
  BY <1>1, <1>2, Kept
<1>6. LayerTypes'
  BY <1>1, <1>2, <1>3, <1>4 DEF LayerTypes, LayerInv, Layer!Ops
<1>7. lenient' => pad' /\ op' # "valid"
  BY <1>1
<1>8. pc' = "map" => /\ request'[2] # 0 /\ from' <= current' /\ current' <= from' + request'[2]
                     /\ op' = "read" => lenient' = pad'
  BY <1>1, <1>4 DEF from
<1>9. PiecesOf(entries', from', current', Formats!Says', Holes')
  BY <1>1, <1>2, <1>4, NoPieces DEF from
<1>10. pc' \in {"single", "map"} /\ (pc' = "single" => request'[2] = 0)
  BY <1>1
<1> QED BY <1>1, <1>2, <1>5, <1>6, <1>7, <1>8, <1>9, <1>10 DEF LayerInv

LEMMA AnswersAreSeqs ==
    <<>> \in Seq(Int) /\ Layer!Yes \in Seq(Int) /\ Layer!No \in Seq(Int) /\ Layer!Failed \in Seq(Int)
<1>1. <<>> \in Seq(Int)
  OBVIOUS
<1>2. \A i \in Int : <<i>> \in Seq(Int)
  OBVIOUS
<1>3. -2 \in Int /\ -3 \in Int /\ -4 \in Int
  OBVIOUS
<1> QED BY <1>1, <1>2, <1>3, Zenon DEF Layer!Yes, Layer!No, Layer!Failed

LEMMA SingleKeeps == BuildInv /\ LayerInv /\ Layer!MapSingle /\ UNCHANGED formatVars => LayerInv'
<1> SUFFICES ASSUME BuildInv, LayerInv, Layer!MapSingle, UNCHANGED formatVars PROVE LayerInv'
  OBVIOUS
<1>1. /\ pc = "single" /\ pc' = "done"
      /\ output' \in {Layer!Yes, Layer!No, Layer!Failed, <<>>}
      /\ UNCHANGED <<segments, size, op, pad, request, current, lenient, entries>>
  BY DEF Layer!MapSingle, Layer!Answer
<1>2. request[2] = 0 /\ Opened
  BY <1>1 DEF LayerInv
<1>3. Opened'
  BY <1>1, <1>2, Kept
<1>4. output' \in Seq(Int)
  <2>1. <<>> \in Seq(Int) /\ Layer!Yes \in Seq(Int) /\ Layer!No \in Seq(Int) /\ Layer!Failed \in Seq(Int)
    BY AnswersAreSeqs
  <2> QED BY <1>1, <2>1, Zenon
<1> QED BY <1>1, <1>2, <1>3, <1>4 DEF LayerInv, LayerTypes

LEMMA SegmentKeeps == BuildInv /\ LayerInv /\ Layer!MapSegment /\ UNCHANGED formatVars => LayerInv'
<1> SUFFICES ASSUME BuildInv, LayerInv, Layer!MapSegment, UNCHANGED formatVars PROVE LayerInv'
  OBVIOUS
<1>1. /\ pc = "map" /\ current < Layer!to
      /\ UNCHANGED <<segments, size, pc, op, pad, request, lenient, output>>
  BY DEF Layer!MapSegment
<1>2. Opened /\ LayerTypes /\ PiecesOf(entries, from, current, Formats!Says, Holes)
      /\ request[2] # 0 /\ from <= current /\ current <= from + request[2]
  BY <1>1 DEF LayerInv
<1>3. entries \in Seq(Entry) /\ current \in Nat /\ from \in Nat /\ request[2] \in Nat
      /\ Layer!to = from + request[2]
  BY <1>2 DEF LayerTypes, from, Layer!to
<1> DEFINE chunk(s) == Min({s.length - (current - s.offset), Layer!to - current})
           e(s) == [offset |-> current, size |-> chunk(s), mapped |-> s.mapped + (current - s.offset)]
<1>4. PICK s \in ToSet(segments) : /\ Inside(s, current)
                                   /\ entries' = Append(entries, e(s))
                                   /\ current' = current + chunk(s)
  BY <1>2, <1>3, FindSegment, SameOperators DEF Layer!MapSegment
<1>5. s.offset \in Nat /\ s.mapped \in Nat /\ s.length \in Nat
  BY <1>2, <1>3, SaidIs DEF Segment
<1> DEFINE rest == s.length - (current - s.offset)
           wanted == Layer!to - current
<1>6. rest \in Nat /\ rest # 0 /\ wanted \in Nat /\ wanted # 0 /\ s.offset <= current
      /\ current + rest = s.offset + s.length /\ current + wanted = from + request[2]
  <2>1. s.offset <= current /\ current < s.offset + s.length
    BY <1>4 DEF Inside, Layer!EndOf
  <2>2. current \in Nat /\ current < Layer!to /\ Layer!to = from + request[2] /\ Layer!to \in Nat
    BY <1>1, <1>3
  <2>3. rest \in Nat /\ rest # 0 /\ current + rest = s.offset + s.length
    BY <1>5, <2>1, <2>2
  <2>4. wanted \in Nat /\ wanted # 0 /\ current + wanted = Layer!to
    BY <2>2
  <2> QED BY <2>1, <2>2, <2>3, <2>4
<1>7. chunk(s) \in Nat /\ chunk(s) # 0 /\ chunk(s) <= rest /\ chunk(s) <= wanted
  <2>1. {rest, wanted} \in SUBSET Nat /\ {rest, wanted} # {}
    BY <1>6
  <2> DEFINE both == {rest, wanted}
  <2>2. rest \in both /\ wanted \in both /\ \A x \in both : x = rest \/ x = wanted
    OBVIOUS
  <2>3. chunk(s) = Min(both)
    OBVIOUS
  <2> HIDE DEF both, chunk, rest, wanted
  <2>4. Min(both) \in both /\ \A x \in both : Min(both) <= x
    BY <2>1, LeastIs DEF both
  <2> QED BY <1>6, <2>2, <2>3, <2>4
<1> DEFINE piece == e(s)
<1>8. /\ piece \in Entry /\ piece.offset = current /\ piece.size = chunk(s)
      /\ piece.mapped = s.mapped + (current - s.offset) /\ End(piece) = current'
  <2> DEFINE base == s.mapped + (current - s.offset)
  <2>5. current \in Nat /\ s.offset \in Nat /\ s.mapped \in Nat /\ s.offset <= current
    BY <1>3, <1>5, <1>6
  <2>1. base \in Nat
    BY <2>5
  <2>2. piece = [offset |-> current, size |-> chunk(s), mapped |-> base]
    OBVIOUS
  <2>3. current' = current + chunk(s)
    BY <1>4
  <2> HIDE DEF chunk, piece, base
  <2>4. /\ piece \in Entry /\ piece.offset = current /\ piece.size = chunk(s)
        /\ piece.mapped = base
    BY <1>3, <1>7, <2>1, <2>2 DEF Entry
  <2> QED BY <2>3, <2>4 DEF End, base
<1>9. current' \in Nat /\ current <= current' /\ current' <= current + rest /\ current' <= from + request[2]
  <2> HIDE DEF chunk, rest, wanted
  <2> QED BY <1>3, <1>4, <1>6, <1>7
<1> HIDE DEF chunk, rest, wanted, piece
<1>10. ASSUME NEW a \in Nat, Covers(piece, a) PROVE <<a, Placed(piece, a)>> \in Formats!Says
  <2>1. current <= a /\ a < current'
    BY <1>8, <1>10 DEF Covers
  <2>2. Inside(s, a)
    BY <1>3, <1>5, <1>6, <1>9, <2>1 DEF Inside, Layer!EndOf
  <2>3. Placed(piece, a) = s.mapped + (a - s.offset)
    BY <1>3, <1>5, <1>8 DEF Placed
  <2> QED BY <1>2, <2>2, <2>3, SaidIs
<1>11. entries' = Append(entries, piece)
  BY <1>4 DEF piece
<1>12. entries' \in Seq(Entry) /\ PiecesOf(entries', from, current', Formats!Says, Holes)
  BY <1>2, <1>3, <1>7, <1>8, <1>10, <1>11, PieceAppended
<1>13. Formats!Says' = Formats!Says /\ Holes' = Holes /\ Opened' /\ from' = from
  BY <1>1, <1>2, Kept DEF from
<1>14. LayerTypes'
  BY <1>1, <1>2, <1>9, <1>12 DEF LayerTypes
<1>15. from' <= current' /\ current' <= from' + request'[2]
  BY <1>1, <1>2, <1>3, <1>9, <1>13
<1> QED BY <1>1, <1>12, <1>13, <1>14, <1>15 DEF LayerInv

LEMMA HoleKeeps == BuildInv /\ LayerInv /\ Layer!MapHole /\ UNCHANGED formatVars => LayerInv'
<1> SUFFICES ASSUME BuildInv, LayerInv, Layer!MapHole, UNCHANGED formatVars PROVE LayerInv'
  OBVIOUS
<1>1. /\ pc = "map" /\ current < Layer!to /\ Layer!find_segment(current) = {}
      /\ UNCHANGED <<segments, size, op, pad, request>>
  BY DEF Layer!MapHole
<1>2. Opened /\ LayerTypes /\ PiecesOf(entries, from, current, Formats!Says, Holes)
      /\ request[2] # 0 /\ from <= current /\ current <= from + request[2] /\ output = <<>>
      /\ (lenient => pad /\ op # "valid") /\ (op = "read" => lenient = pad)
  BY <1>1 DEF LayerInv
<1>3. entries \in Seq(Entry) /\ current \in Nat /\ from \in Nat /\ request[2] \in Nat
      /\ Layer!to = from + request[2] /\ Layer!from = from
  BY <1>2 DEF LayerTypes, from, Layer!to, Layer!from
<1>4. Formats!Says' = Formats!Says /\ Opened' /\ from' = from
  BY <1>1, <1>2, Kept DEF from
<1>5. Disjoint => \A s \in ToSet(segments) : ~Inside(s, current)
  BY <1>1, <1>2, <1>3, FindSegment
<1>6. CASE lenient
  <2> DEFINE starts == Layer!StartsAfter(current)
             stops == {Layer!to} \cup starts
  <2>1. current' = Min(stops) /\ UNCHANGED <<pc, lenient, entries, output>>
    BY <1>6, SameOperators DEF Layer!MapHole
  <2>2. starts = {s.offset : s \in {x \in ToSet(segments) : x.offset > current}}
    BY SameOperators DEF Layer!StartsAfter
  <2>3. \A s \in ToSet(segments) : s.offset \in Nat /\ s.length \in Nat
    BY <1>2, <1>3, SaidIs DEF Segment
  <2>4. stops \in SUBSET Nat /\ Layer!to \in stops /\ \A x \in stops : current < x
    BY <1>1, <1>3, <2>2, <2>3
  <2>5. \A s \in ToSet(segments) : s.offset > current => s.offset \in stops
    BY <2>2
  <2> HIDE DEF stops, starts
  <2>6. current' \in stops /\ \A x \in stops : current' <= x
    BY <2>1, <2>4, LeastIs
  <2>7. current' \in Nat /\ current < current' /\ current' <= from + request[2]
    BY <1>3, <2>4, <2>6
  <2>8. ASSUME NEW a \in Nat, current <= a, a < current', Disjoint, NEW s \in ToSet(segments), Inside(s, a)
        PROVE  FALSE
    <3>1. s.offset \in Nat /\ s.offset <= a /\ a < Layer!EndOf(s) /\ Layer!EndOf(s) \in Nat
      BY <2>3, <2>8 DEF Inside, Layer!EndOf
    <3>2. ~(s.offset > current)
      <4>1. s.offset > current => current' <= s.offset
        BY <2>5, <2>6
      <4> QED BY <2>7, <2>8, <3>1, <4>1
    <3>3. Inside(s, current)
      BY <1>3, <2>8, <3>1, <3>2 DEF Inside
    <3> QED BY <1>5, <2>8, <3>3
  <2>9. \A a \in Nat : current <= a /\ a < current' => a \in Holes
    <3> SUFFICES ASSUME NEW a \in Nat, current <= a, a < current' PROVE a \in Holes
      OBVIOUS
    <3>1. Disjoint => Places(a) = {}
      BY <1>2, <2>8, NothingThere
    <3> QED BY <1>6, <3>1 DEF Holes
  <2>10. PiecesOf(entries, from, current', Formats!Says, Holes)
    <3>1. current <= current'
      BY <1>3, <2>7
    <3> QED BY <1>2, <1>3, <2>7, <2>9, <3>1, HolesPassed
  <2>11. Holes' = Holes
    BY <2>1, Kept
  <2>12. from' <= current' /\ current' <= from' + request'[2]
    BY <1>1, <1>2, <1>3, <1>4, <2>7
  <2>13. LayerTypes'
    BY <1>1, <1>2, <2>1, <2>7 DEF LayerTypes
  <2> QED BY <1>1, <1>2, <1>4, <2>1, <2>10, <2>11, <2>12, <2>13 DEF LayerInv
<1>7. CASE ~lenient /\ op = "lend" /\ pad
  <2>1. lenient' = TRUE /\ current' = from /\ entries' = <<>> /\ UNCHANGED <<pc, output>>
    BY <1>3, <1>7 DEF Layer!MapHole
  <2>2. PiecesOf(entries', from', current', Formats!Says', Holes')
    BY <1>3, <1>4, <2>1, NoPieces
  <2>3. LayerTypes'
    BY <1>1, <1>2, <1>3, <2>1 DEF LayerTypes
  <2>4. from' <= current' /\ current' <= from' + request'[2] /\ request'[2] # 0
    BY <1>1, <1>2, <1>3, <1>4, <2>1
  <2> QED BY <1>1, <1>2, <1>4, <1>7, <2>1, <2>2, <2>3, <2>4 DEF LayerInv
<1>8. CASE ~lenient /\ ~(op = "lend" /\ pad)
  <2>1. /\ output' = (IF op = "valid" THEN Layer!No ELSE Layer!Failed) /\ pc' = "done"
        /\ UNCHANGED <<current, lenient, entries>>
    BY <1>8 DEF Layer!MapHole, Layer!Answer
  <2>2. current \in Wanted
    BY <1>1, <1>2, <1>3 DEF Wanted
  <2>3. Disjoint => Places(current) = {}
    BY <1>2, <1>3, <1>5, NothingThere
  <2>4. Disjoint => ~Held(current)
    BY <2>3 DEF Held
  <2>5. op # "valid" => ~pad
    BY <1>2, <1>8 DEF LayerTypes
  <2>6. Wanted' = Wanted /\ Disjoint' = Disjoint /\ pad' = pad
        /\ \A a : (Held(a)' <=> Held(a)) /\ Places(a)' = Places(a)
    BY <1>1, <1>4, Kept DEF Wanted, Held
  <2>7. op # "valid" => output' = Layer!Failed /\ (Disjoint' => Missing')
    <3>1. op # "valid" /\ Disjoint => Missing
      BY <2>2, <2>4, <2>5 DEF Missing
    <3>2. Missing => Missing'
      BY <2>6 DEF Missing
    <3> QED BY <2>1, <2>6, <3>1, <3>2
  <2>8. op = "valid" => /\ output' = Layer!No /\ output' # Layer!Yes
                        /\ Disjoint' => ~\A a \in Wanted' : Held(a)'
    BY <2>1, <2>2, <2>4, <2>6 DEF Layer!No, Layer!Yes
  <2>9. Outcome'
    BY <1>1, <2>7, <2>8 DEF Outcome
  <2>10. LayerTypes'
    <3>1. output' \in Seq(Int)
      BY <2>1 DEF Layer!No, Layer!Failed
    <3> QED BY <1>1, <1>2, <2>1, <3>1 DEF LayerTypes
  <2> QED BY <1>1, <1>2, <1>4, <2>1, <2>9, <2>10 DEF LayerInv
<1> QED BY <1>6, <1>7, <1>8

LEMMA WantedKept ==
    ASSUME UNCHANGED formatVars, UNCHANGED <<size, pad, request>>
    PROVE  /\ Wanted' = Wanted /\ from' = from /\ Missing' = Missing
           /\ \A a : Held(a)' = Held(a)
<1>1. Wanted' = Wanted /\ from' = from
  BY DEF Wanted, from
<1>2. \A a : Places(a)' = Places(a)
  BY Kept
<1>3. \A a : Held(a)' = Held(a)
  BY <1>2 DEF Held
<1>4. Missing' = Missing
  BY <1>1, <1>2, <1>3 DEF Missing
<1> QED BY <1>1, <1>3, <1>4

\* The bytes of a piece that is in the file are those of its addresses; of one that is
\* not, a byte is missing.
LEMMA PieceRead ==
    ASSUME BuildInv, Opened, request \in Nat \X Nat, NEW e \in Entry, e.size # 0,
           \A a \in Nat : Covers(e, a) => <<a, Placed(e, a)>> \in Formats!Says,
           from <= e.offset, End(e) <= from + request[2]
    PROVE  /\ Layer!IsValidInFile(e.mapped, e.size) =>
                /\ Layer!FileBytes(e.mapped, e.size) \in Seq(Int)
                /\ Len(Layer!FileBytes(e.mapped, e.size)) = e.size
                /\ \A k \in 1..e.size :
                     Byte(e.offset + (k - 1), Layer!FileBytes(e.mapped, e.size)[k], Formats!Says, Holes, size)
           /\ ~Layer!IsValidInFile(e.mapped, e.size) /\ Disjoint =>
                Missing /\ \E a \in Wanted : ~Held(a)
<1>1. e.offset \in Nat /\ e.size \in Nat /\ e.mapped \in Nat /\ from \in Nat /\ request[2] \in Nat
  BY DEF Entry, from
<1>2. ASSUME Layer!IsValidInFile(e.mapped, e.size)
      PROVE  /\ Layer!FileBytes(e.mapped, e.size) \in Seq(Int)
             /\ Len(Layer!FileBytes(e.mapped, e.size)) = e.size
             /\ \A k \in 1..e.size :
                  Byte(e.offset + (k - 1), Layer!FileBytes(e.mapped, e.size)[k], Formats!Says, Holes, size)
  <2> DEFINE file == Layer!FileBytes(e.mapped, e.size)
  <2>1. file = [k \in 1..e.size |-> e.mapped + k - 1]
    BY DEF Layer!FileBytes
  <2>2. \A k \in 1..e.size : e.mapped + k - 1 \in Int
    BY <1>1
  <2> DEFINE n == e.size
             at(k) == e.mapped + k - 1
  <2>5. n \in Nat /\ file = [k \in 1..n |-> at(k)] /\ \A k \in 1..n : at(k) \in Int
    BY <1>1, <2>1, <2>2
  <2> HIDE DEF file, n, at
  <2>6. file \in Seq(Int) /\ Len(file) = n /\ \A k \in 1..n : file[k] = at(k)
    BY <2>5
  <2>3. file \in Seq(Int) /\ Len(file) = e.size /\ \A k \in 1..e.size : file[k] = e.mapped + k - 1
    BY <2>6 DEF n, at
  <2>4. ASSUME NEW k \in 1..e.size
        PROVE  Byte(e.offset + (k - 1), file[k], Formats!Says, Holes, size)
    <3> DEFINE a == e.offset + (k - 1)
    <3>1. a \in Nat /\ Covers(e, a) /\ Placed(e, a) = e.mapped + k - 1
      BY <1>1 DEF Covers, Placed, End
    <3>2. file[k] = Placed(e, a)
      BY <2>3, <3>1
    <3> HIDE DEF a
    <3>3. Placed(e, a) < size /\ <<a, Placed(e, a)>> \in Formats!Says
      BY <1>2, <3>1, PieceValid
    <3>4. Byte(a, file[k], Formats!Says, Holes, size)
      BY <3>2, <3>3 DEF Byte
    <3> QED BY <3>4 DEF a
  <2> QED BY <2>3, <2>4 DEF file
<1>3. ASSUME ~Layer!IsValidInFile(e.mapped, e.size), Disjoint
      PROVE  Missing /\ \E a \in Wanted : ~Held(a)
  <2> DEFINE a == End(e) - 1
  <2>1. a \in Nat /\ Covers(e, a) /\ ~(Placed(e, a) < size)
    BY <1>3, PieceValid
  <2>2. a \in Wanted
    BY <1>1, <2>1 DEF Wanted, Covers, End
  <2> HIDE DEF a
  <2>3. Placed(e, a) \in Places(a)
    BY <2>1, SaidIs
  <2>4. ASSUME Held(a) PROVE FALSE
    <3>1. PICK m \in Places(a) : m < size
      BY <2>4 DEF Held
    <3>2. m = Placed(e, a)
      BY <1>3, <2>1, <2>3, OnePlace
    <3> QED BY <2>1, <3>1, <3>2
  <2> QED BY <2>2, <2>3, <2>4 DEF Missing
<1> QED BY <1>2, <1>3

LEMMA ZeroesAre ==
    ASSUME NEW n \in Nat
    PROVE  /\ Layer!Zeroes(n) \in Seq(Int) /\ Len(Layer!Zeroes(n)) = n
           /\ \A k \in 1..n : Layer!Zeroes(n)[k] = Layer!Zero
<1>1. Layer!Zero \in Int
  BY DEF Layer!Zero
<1> QED BY <1>1 DEF Layer!Zeroes

LEMMA MappedKeeps == BuildInv /\ LayerInv /\ Layer!Mapped /\ UNCHANGED formatVars => LayerInv'
<1> SUFFICES ASSUME BuildInv, LayerInv, Layer!Mapped, UNCHANGED formatVars PROVE LayerInv'
  OBVIOUS
<1> DEFINE n == Len(entries)
           up == from + request[2]
<1>1. /\ pc = "map" /\ current >= Layer!to
      /\ UNCHANGED <<segments, size, op, pad, request, lenient, entries>>
  BY DEF Layer!Mapped
<1>2. Opened /\ LayerTypes /\ PiecesOf(entries, from, current, Formats!Says, Holes)
      /\ request[2] # 0 /\ from <= current /\ current <= from + request[2] /\ output = <<>>
      /\ (lenient => pad /\ op # "valid")
  BY <1>1 DEF LayerInv
<1>3. entries \in Seq(Entry) /\ current \in Nat /\ from \in Nat /\ request[2] \in Nat
      /\ Layer!to = up /\ Layer!from = from /\ request \in Nat \X Nat /\ n \in Nat /\ up \in Nat
  BY <1>2 DEF LayerTypes, from, Layer!to, Layer!from
<1>4. current = up /\ from < up
  BY <1>1, <1>2, <1>3
<1>5. PiecesOf(entries, from, up, Formats!Says, Holes)
  BY <1>2, <1>4
<1>6. Formats!Says' = Formats!Says /\ Holes' = Holes /\ Opened' /\ Disjoint' = Disjoint
  BY <1>1, <1>2, Kept
<1>7. from' = from /\ Wanted' = Wanted /\ Missing' = Missing /\ \A a : Held(a)' = Held(a)
  BY <1>1, WantedKept
<1>8. \A i \in 1..n : /\ entries[i] \in Entry /\ entries[i].size # 0
                      /\ from <= entries[i].offset /\ End(entries[i]) <= up
                      /\ \A a \in Nat : Covers(entries[i], a) => <<a, Placed(entries[i], a)>> \in Formats!Says
  BY <1>3, <1>5, ElementOfSeq DEF PiecesOf
<1>9. \A a \in Nat : from <= a /\ a < up => a \in Holes \/ \E i \in 1..n : Covers(entries[i], a)
  BY <1>5 DEF PiecesOf
<1>10. ~lenient => Holes = {}
  BY DEF Holes
<1>11. \A a \in Wanted : a \in Nat /\ from <= a /\ a < up
  BY <1>3 DEF Wanted
<1> HIDE DEF n, up
<1>12. CASE op = "valid"
  <2> DEFINE valid == \A i \in 1..n : Layer!IsValidInFile(entries[i].mapped, entries[i].size)
  <2>1. output' = (IF valid THEN Layer!Yes ELSE Layer!No) /\ pc' = "done" /\ current' = current
    <3>1. (\A e \in ToSet(entries) : Layer!IsValidInFile(e.mapped, e.size)) <=> valid
      BY <1>3 DEF ToSet, n
    <3> HIDE DEF valid
    <3> QED BY <1>12, <3>1, SameOperators DEF Layer!Mapped, Layer!Answer
  <2>2. ~lenient
    BY <1>2, <1>12
  <2>3. ASSUME valid, NEW a \in Wanted PROVE Held(a)
    <3>1. PICK i \in 1..n : Covers(entries[i], a)
      BY <1>9, <1>10, <1>11, <2>2
    <3> DEFINE e == entries[i]
    <3>2. e \in Entry /\ e.size # 0 /\ Covers(e, a) /\ <<a, Placed(e, a)>> \in Formats!Says
          /\ Layer!IsValidInFile(e.mapped, e.size) /\ a \in Nat
      BY <1>8, <1>11, <2>3, <3>1
    <3> HIDE DEF e
    <3>3. Placed(e, a) < size
      BY <1>2, <3>2, PieceValid
    <3>4. Placed(e, a) \in Places(a)
      BY <1>2, <3>2, SaidIs
    <3> QED BY <3>3, <3>4 DEF Held
  <2>4. ASSUME ~valid, Disjoint PROVE \E a \in Wanted : ~Held(a)
    <3>1. PICK i \in 1..n : ~Layer!IsValidInFile(entries[i].mapped, entries[i].size)
      BY <2>4
    <3> QED BY <1>2, <1>3, <1>8, <2>4, <3>1, PieceRead DEF up
  <2> HIDE DEF valid
  <2>5. Outcome'
    <3>1. Layer!Yes # Layer!No
      BY DEF Layer!Yes, Layer!No
    <3>2. output' \in {Layer!Yes, Layer!No} /\ (output' = Layer!Yes <=> valid)
      BY <2>1, <3>1
    <3>3. Disjoint => (valid <=> \A a \in Wanted : Held(a))
      BY <2>3, <2>4
    <3> QED BY <1>1, <1>6, <1>7, <1>12, <3>2, <3>3 DEF Outcome
  <2>6. LayerTypes'
    BY <1>1, <1>2, <2>1, AnswersAreSeqs DEF LayerTypes
  <2> QED BY <1>1, <1>2, <1>6, <2>1, <2>5, <2>6 DEF LayerInv
<1>13. CASE op = "lend" /\ ~lenient /\ Len(entries) = 1
  <2> DEFINE e == entries[1]
             valid == Layer!IsValidInFile(e.mapped, e.size)
  <2>1. output' = (IF valid THEN Layer!FileBytes(e.mapped, e.size) ELSE Layer!Failed)
        /\ pc' = "done" /\ current' = current
    BY <1>13 DEF Layer!Mapped, Layer!Answer
  <2>2. n = 1 /\ 1 \in 1..n /\ \A i \in 1..n : i = 1
    BY <1>13 DEF n
  <2>3. /\ e \in Entry /\ e.size # 0 /\ from <= e.offset /\ End(e) <= up
        /\ \A a \in Nat : Covers(e, a) => <<a, Placed(e, a)>> \in Formats!Says
    BY <1>8, <2>2
  <2>4. \A a \in Nat : from <= a /\ a < up => Covers(e, a)
    BY <1>9, <1>10, <1>13, <2>2
  <2> HIDE DEF e
  <2>5. e.offset = from /\ End(e) = up /\ e.size = request[2]
    <3>1. Covers(e, from)
      BY <1>3, <1>4, <2>4
    <3>2. up - 1 \in Nat /\ from <= up - 1 /\ up - 1 < up
      BY <1>3, <1>4
    <3>3. Covers(e, up - 1)
      BY <2>4, <3>2
    <3>4. e.offset \in Nat /\ e.size \in Nat
      BY <2>3 DEF Entry
    <3> QED BY <1>3, <2>3, <3>1, <3>2, <3>3, <3>4 DEF Covers, End, up
  <2> HIDE DEF valid
  <2>6. valid => /\ output' \in Seq(Int) /\ Len(output') = request[2]
                 /\ \A k \in 1..request[2] : Byte(from + (k - 1), output'[k], Formats!Says, Holes, size)
    BY <1>2, <1>3, <2>1, <2>3, <2>5, PieceRead DEF valid, up
  <2>7. ~valid => output' = Layer!Failed /\ (Disjoint => Missing)
    BY <1>2, <1>3, <2>1, <2>3, PieceRead DEF valid, up
  <2>8. valid => Delivered(output', from, up, Formats!Says, Holes, size)
    <3>1. up - from = request[2]
      BY <1>3 DEF up
    <3> QED BY <2>6, <3>1 DEF Delivered
  <2>9. Outcome'
    BY <1>1, <1>6, <1>7, <1>13, <2>7, <2>8 DEF Outcome, up
  <2>10. LayerTypes'
    <3>1. output' \in Seq(Int)
      BY <2>6, <2>7, AnswersAreSeqs
    <3> QED BY <1>1, <1>2, <2>1, <3>1 DEF LayerTypes
  <2> QED BY <1>1, <1>2, <1>6, <2>1, <2>9, <2>10 DEF LayerInv
<1>14. CASE op # "valid" /\ ~(op = "lend" /\ ~lenient /\ Len(entries) = 1)
  <2>1. pc' = "stitch" /\ current' = from /\ output' = <<>>
    BY <1>2, <1>3, <1>14 DEF Layer!Mapped
  <2>2. PiecesOf(entries', current', from' + request'[2], Formats!Says', Holes')
    BY <1>1, <1>5, <1>6, <1>7, <2>1 DEF up
  <2>3. Delivered(output', from', current', Formats!Says', Holes', size')
    <3>1. from - from = 0 /\ Len(<<>>) = 0 /\ \A k : k \notin 1..Len(<<>>)
      BY <1>3
    <3> QED BY <1>7, <2>1, <3>1 DEF Delivered
  <2>4. LayerTypes'
    BY <1>1, <1>2, <1>3, <2>1, AnswersAreSeqs DEF LayerTypes
  <2>5. from' <= current' /\ current' <= from' + request'[2]
    BY <1>1, <1>3, <1>7, <2>1
  <2> QED BY <1>1, <1>2, <1>6, <1>14, <2>1, <2>2, <2>3, <2>4, <2>5 DEF LayerInv
<1> QED BY <1>12, <1>13, <1>14

LEMMA StitchKeeps == BuildInv /\ LayerInv /\ Layer!Stitch /\ UNCHANGED formatVars => LayerInv'
<1> SUFFICES ASSUME BuildInv, LayerInv, Layer!Stitch, UNCHANGED formatVars PROVE LayerInv'
  OBVIOUS
<1> DEFINE e == Head(entries)
           up == from + request[2]
           valid == Layer!IsValidInFile(e.mapped, e.size)
<1>1. pc = "stitch" /\ entries # <<>> /\ UNCHANGED <<segments, size, op, pad, request, lenient>>
  BY DEF Layer!Stitch
<1>2. Opened /\ LayerTypes /\ PiecesOf(entries, current, up, Formats!Says, Holes)
      /\ Delivered(output, from, current, Formats!Says, Holes, size)
      /\ request[2] # 0 /\ from <= current /\ current <= up /\ op # "valid"
      /\ (lenient => pad /\ op # "valid")
  BY <1>1 DEF LayerInv
<1>3. entries \in Seq(Entry) /\ output \in Seq(Int) /\ current \in Nat /\ from \in Nat
      /\ request[2] \in Nat /\ request \in Nat \X Nat /\ up \in Nat
  BY <1>2 DEF LayerTypes, from
<1>4. Formats!Says' = Formats!Says /\ Holes' = Holes /\ Opened' /\ Disjoint' = Disjoint
  BY <1>1, <1>2, Kept
<1>5. from' = from /\ Missing' = Missing
  BY <1>1, WantedKept
<1>6. /\ e \in Entry /\ e.size # 0 /\ current <= e.offset /\ End(e) <= up
      /\ \A a \in Nat : Covers(e, a) => <<a, Placed(e, a)>> \in Formats!Says
      /\ \A a \in Nat : current <= a /\ a < e.offset => a \in Holes
      /\ Tail(entries) \in Seq(Entry) /\ PiecesOf(Tail(entries), End(e), up, Formats!Says, Holes)
  <2> HIDE DEF up
  <2> QED BY <1>1, <1>2, <1>3, PieceTaken
<1>7. valid => /\ output' = (output \o Layer!Zeroes(e.offset - current)) \o Layer!FileBytes(e.mapped, e.size)
               /\ current' = End(e) /\ entries' = Tail(entries) /\ pc' = pc
  BY DEF Layer!Stitch, End
<1>8. ~valid => output' = Layer!Failed /\ pc' = "done" /\ UNCHANGED <<current, entries>>
  BY DEF Layer!Stitch, Layer!Answer
<1> HIDE DEF e
<1>9. e.offset \in Nat /\ e.size \in Nat /\ End(e) = e.offset + e.size
  BY <1>6 DEF Entry, End
<1>10. from <= e.offset /\ from <= End(e)
  BY <1>2, <1>3, <1>6, <1>9
<1>11. CASE valid
  <2> DEFINE gap == e.offset - current
             zeroes == Layer!Zeroes(gap)
             file == Layer!FileBytes(e.mapped, e.size)
  <2>1. gap \in Nat
    BY <1>3, <1>6, <1>9
  <2>2. zeroes \in Seq(Int) /\ Len(zeroes) = gap /\ \A k \in 1..gap : zeroes[k] = Layer!Zero
    <3> HIDE DEF gap
    <3> QED BY <2>1, ZeroesAre
  <2>3. \A k \in 1..gap : Byte(current + (k - 1), zeroes[k], Formats!Says, Holes, size)
    <3> SUFFICES ASSUME NEW k \in 1..gap PROVE Byte(current + (k - 1), zeroes[k], Formats!Says, Holes, size)
      OBVIOUS
    <3>1. current + (k - 1) \in Nat /\ current <= current + (k - 1) /\ current + (k - 1) < e.offset
      BY <1>3, <1>9
    <3>2. current + (k - 1) \in Holes
      BY <1>6, <3>1
    <3> QED BY <2>2, <3>2 DEF Byte
  <2>4. file \in Seq(Int) /\ Len(file) = e.size
        /\ \A k \in 1..e.size : Byte(e.offset + (k - 1), file[k], Formats!Says, Holes, size)
    BY <1>2, <1>3, <1>6, <1>10, <1>11, PieceRead
  <2> HIDE DEF zeroes, file
  <2>5. output \o zeroes \in Seq(Int) /\ Delivered(output \o zeroes, from, e.offset, Formats!Says, Holes, size)
    <3>1. Len(zeroes) = e.offset - current
      BY <2>2
    <3>2. \A k \in 1..Len(zeroes) : Byte(current + (k - 1), zeroes[k], Formats!Says, Holes, size)
      BY <2>2, <2>3
    <3> HIDE DEF gap
    <3> QED BY <1>2, <1>3, <1>9, <2>2, <3>1, <3>2, MoreDelivered
  <2>6. (output \o zeroes) \o file \in Seq(Int)
        /\ Delivered((output \o zeroes) \o file, from, End(e), Formats!Says, Holes, size)
    <3> DEFINE sofar == output \o zeroes
    <3>1. sofar \in Seq(Int) /\ Delivered(sofar, from, e.offset, Formats!Says, Holes, size)
      BY <2>5
    <3>2. Len(file) = End(e) - e.offset /\ End(e) \in Nat
      BY <1>9, <2>4
    <3>3. \A k \in 1..Len(file) : Byte(e.offset + (k - 1), file[k], Formats!Says, Holes, size)
      BY <2>4
    <3> HIDE DEF sofar
    <3>4. sofar \o file \in Seq(Int) /\ Delivered(sofar \o file, from, End(e), Formats!Says, Holes, size)
      BY <1>3, <1>9, <2>4, <3>1, <3>2, <3>3, MoreDelivered
    <3> QED BY <3>4 DEF sofar
  <2>7. /\ output' \in Seq(Int) /\ Delivered(output', from, End(e), Formats!Says, Holes, size)
        /\ current' = End(e) /\ entries' = Tail(entries) /\ pc' = "stitch"
    BY <1>1, <1>7, <1>11, <2>6 DEF zeroes, file
  <2>8. LayerTypes'
    <3>1. End(e) \in Nat
      BY <1>9
    <3> QED BY <1>1, <1>2, <1>6, <2>7, <3>1 DEF LayerTypes
  <2>9. from' <= current' /\ current' <= from' + request'[2] /\ request'[2] # 0
    BY <1>1, <1>2, <1>5, <1>6, <1>10, <2>7
  <2>10. PiecesOf(entries', current', from' + request'[2], Formats!Says', Holes')
    BY <1>1, <1>4, <1>5, <1>6, <2>7
  <2>11. Delivered(output', from', current', Formats!Says', Holes', size')
    BY <1>1, <1>4, <1>5, <2>7
  <2> QED BY <1>1, <1>2, <1>4, <2>7, <2>8, <2>9, <2>10, <2>11 DEF LayerInv
<1>12. CASE ~valid
  <2>1. Disjoint => Missing
    BY <1>2, <1>3, <1>6, <1>10, <1>12, PieceRead
  <2>2. Outcome'
    BY <1>1, <1>2, <1>4, <1>5, <1>8, <1>12, <2>1 DEF Outcome
  <2>3. LayerTypes'
    BY <1>1, <1>2, <1>8, <1>12, AnswersAreSeqs DEF LayerTypes
  <2> QED BY <1>1, <1>2, <1>4, <1>8, <1>12, <2>2, <2>3 DEF LayerInv
<1> QED BY <1>11, <1>12

LEMMA DeliverKeeps == BuildInv /\ LayerInv /\ Layer!Deliver /\ UNCHANGED formatVars => LayerInv'
<1> SUFFICES ASSUME BuildInv, LayerInv, Layer!Deliver, UNCHANGED formatVars PROVE LayerInv'
  OBVIOUS
<1> DEFINE up == from + request[2]
           rest == request[2] - Len(output)
           zeroes == Layer!Zeroes(rest)
<1>1. /\ pc = "stitch" /\ entries = <<>> /\ output' = output \o zeroes /\ pc' = "done"
      /\ UNCHANGED <<segments, size, op, pad, request, current, lenient, entries>>
  BY DEF Layer!Deliver, Layer!Answer
<1>2. Opened /\ LayerTypes /\ PiecesOf(<<>>, current, up, Formats!Says, Holes)
      /\ Delivered(output, from, current, Formats!Says, Holes, size)
      /\ request[2] # 0 /\ from <= current /\ current <= up /\ op # "valid"
      /\ (lenient => pad /\ op # "valid")
  BY <1>1 DEF LayerInv
<1>3. output \in Seq(Int) /\ current \in Nat /\ from \in Nat
      /\ request[2] \in Nat /\ request \in Nat \X Nat /\ up \in Nat
  BY <1>2 DEF LayerTypes, from
<1>4. Formats!Says' = Formats!Says /\ Holes' = Holes /\ Opened' /\ Disjoint' = Disjoint
  BY <1>1, <1>2, Kept
<1>5. from' = from /\ Missing' = Missing
  BY <1>1, WantedKept
<1>6. \A a \in Nat : current <= a /\ a < up => a \in Holes
  <2>1. \A i : i \notin 1..Len(<<>>)
    OBVIOUS
  <2> QED BY <1>2, <2>1 DEF PiecesOf
<1>7. Len(output) = current - from
  BY <1>2 DEF Delivered
<1>8. rest = up - current /\ rest \in Nat
  BY <1>2, <1>3, <1>7
<1>9. zeroes \in Seq(Int) /\ Len(zeroes) = rest /\ \A k \in 1..rest : zeroes[k] = Layer!Zero
  <2> HIDE DEF rest
  <2> QED BY <1>8, ZeroesAre
<1> HIDE DEF rest, zeroes
<1>10. \A k \in 1..rest : Byte(current + (k - 1), zeroes[k], Formats!Says, Holes, size)
  <2> SUFFICES ASSUME NEW k \in 1..rest PROVE Byte(current + (k - 1), zeroes[k], Formats!Says, Holes, size)
    OBVIOUS
  <2>1. current + (k - 1) \in Nat /\ current <= current + (k - 1) /\ current + (k - 1) < up
    BY <1>3, <1>8
  <2>2. current + (k - 1) \in Holes
    BY <1>6, <2>1
  <2> QED BY <1>9, <2>2 DEF Byte
<1> HIDE DEF up
<1>11. output' \in Seq(Int) /\ Delivered(output', from, up, Formats!Says, Holes, size)
  <2>1. Len(zeroes) = up - current /\ \A k \in 1..Len(zeroes) : Byte(current + (k - 1), zeroes[k], Formats!Says, Holes, size)
    BY <1>8, <1>9, <1>10
  <2> QED BY <1>1, <1>2, <1>3, <1>9, <2>1, MoreDelivered
<1>12. Outcome'
  BY <1>1, <1>2, <1>4, <1>5, <1>11 DEF Outcome, up
<1>13. LayerTypes'
  BY <1>1, <1>2, <1>11 DEF LayerTypes
<1> QED BY <1>1, <1>2, <1>4, <1>12, <1>13 DEF LayerInv

\* While the table is built there is no layer.
LEMMA BuildKeeps == BuildInv /\ LayerInv /\ Build => LayerInv'
<1> SUFFICES ASSUME BuildInv, LayerInv, Build PROVE LayerInv'
  OBVIOUS
<1>1. result = "open" /\ UNCHANGED layerVars
  BY DEF Build, Formats!Next, Formats!LimeRecord, Formats!FullRun, Formats!BitmapPage,
         Formats!ElfHeader, Formats!VmwareRegion, Formats!XenFrame, Formats!Finish, Formats!Turn
<1>2. pc = "closed"
  BY <1>1 DEF LayerInv, Opened
<1> QED BY <1>1, <1>2 DEF LayerInv, LayerTypes, layerVars

LEMMA LayerStarts == Init => LayerInv
<1>1. <<0, 0>> \in Nat \X Nat /\ <<>> \in Seq(Int) /\ <<>> \in Seq(Entry)
  OBVIOUS
<1> QED BY <1>1 DEF Init, Layer!Init, LayerInv, LayerTypes

LEMMA LayerStutters == BuildInv /\ LayerInv /\ UNCHANGED vars => LayerInv'
<1> SUFFICES ASSUME BuildInv, LayerInv, UNCHANGED vars PROVE LayerInv'
  OBVIOUS
<1>1. UNCHANGED formatVars /\ UNCHANGED layerVars
  BY DEF vars
<1>2. Formats!Says' = Formats!Says /\ Holes' = Holes /\ Disjoint' = Disjoint
      /\ (Opened => Opened')
  BY <1>1, Kept DEF layerVars
<1>3. from' = from /\ Missing' = Missing /\ Wanted' = Wanted /\ \A a : Held(a)' = Held(a)
  BY <1>1, WantedKept DEF layerVars
<1>4. LayerTypes => LayerTypes'
  BY <1>1 DEF LayerTypes, layerVars
<1>5. Outcome => Outcome'
  BY <1>1, <1>2, <1>3 DEF Outcome, layerVars
<1> QED BY <1>1, <1>2, <1>3, <1>4, <1>5 DEF LayerInv, layerVars

LEMMA LayerStep == BuildInv /\ LayerInv /\ [Next]_vars => LayerInv'
BY BuildKeeps, OpenKeeps, AskKeeps, SingleKeeps, SegmentKeeps, HoleKeeps, MappedKeeps, StitchKeeps,
   DeliverKeeps, LayerStutters DEF Next, Serve, Layer!Next

\* The layer keeps its invariant, whatever is asked of it.
THEOREM LayerInvariance == Spec => []LayerInv
<1> QED BY LayerStarts, LayerStep, BuildInvariance, PTL DEF Spec

-----------------------------------------------------------------------------
(* What is answered.                                                       *)

LEMMA DeliveredBytes ==
    ASSUME BuildInv, LayerInv, Opened,
           Delivered(output, from, from + request[2], Formats!Says, Holes, size),
           NEW i \in 1..request[2]
    PROVE  /\ Len(output) = request[2] /\ from + i - 1 \in Wanted /\ from + i - 1 \in Nat
           /\ \/ output[i] \in Places(from + i - 1) /\ output[i] < size
              \/ output[i] = Layer!Zero /\ pad /\ (Disjoint => Places(from + i - 1) = {})
<1>1. from \in Nat /\ request[2] \in Nat
  BY DEF LayerInv, LayerTypes, from
<1> DEFINE a == from + i - 1
<1>2. a \in Wanted /\ a \in Nat /\ a = from + (i - 1)
  BY <1>1 DEF Wanted
<1>3. Len(output) = request[2]
  BY <1>1 DEF Delivered
<1>4. Byte(a, output[i], Formats!Says, Holes, size)
  <2> HIDE DEF a
  <2> QED BY <1>2, <1>3 DEF Delivered
<1> HIDE DEF a
<1>5. \/ output[i] \in Places(a) /\ output[i] < size
      \/ output[i] = Layer!Zero /\ a \in Holes
  <2> DEFINE v == output[i]
  <2>1. (<<a, v>> \in Formats!Says /\ v < size) \/ (v = Layer!Zero /\ a \in Holes)
    BY <1>4 DEF Byte
  <2> HIDE DEF v
  <2>2. v \in Places(a) <=> <<a, v>> \in Formats!Says
    BY <1>2, SaidIs
  <2>3. (v \in Places(a) /\ v < size) \/ (v = Layer!Zero /\ a \in Holes)
    BY <2>1, <2>2
  <2> QED BY <2>3 DEF v
<1>6. a \in Holes => pad /\ (Disjoint => Places(a) = {})
  BY DEF Holes, LayerInv
<1>7. \/ output[i] \in Places(a) /\ output[i] < size
      \/ output[i] = Layer!Zero /\ pad /\ (Disjoint => Places(a) = {})
  BY <1>5, <1>6
<1> QED BY <1>2, <1>3, <1>7 DEF a

\* Where pieces do not nest an answer is the one that is expected.
LEMMA AnswerIsExpected ==
    ASSUME BuildInv, LayerInv, pc = "done", Wanted # {}, op # "valid", Disjoint
    PROVE  output = Expected
<1>1. from \in Nat /\ request[2] \in Nat /\ output \in Seq(Int) /\ Opened
  BY DEF LayerInv, LayerTypes, from
<1>2. request[2] # 0
  <2>1. from..(from + 0 - 1) = {}
    BY <1>1
  <2> QED BY <2>1 DEF Wanted
<1>3. \/ output = Layer!Failed /\ Missing
      \/ Delivered(output, from, from + request[2], Formats!Says, Holes, size)
  BY <1>2 DEF LayerInv, Outcome
<1>4. CASE output = Layer!Failed /\ Missing
  BY <1>4 DEF Expected, Missing
<1>5. CASE Delivered(output, from, from + request[2], Formats!Says, Holes, size)
  <2>1. \A i \in 1..request[2] :
          /\ Len(output) = request[2] /\ from + i - 1 \in Nat
          /\ \/ output[i] \in Places(from + i - 1) /\ output[i] < size
             \/ output[i] = Layer!Zero /\ pad /\ Places(from + i - 1) = {}
    BY <1>1, <1>5, DeliveredBytes
  <2>2. \A a \in Wanted : Held(a) \/ (pad /\ Places(a) = {})
    <3> SUFFICES ASSUME NEW a \in Wanted PROVE Held(a) \/ (pad /\ Places(a) = {})
      OBVIOUS
    <3> DEFINE i == a - from + 1
    <3>1. i \in 1..request[2] /\ from + i - 1 = a
      BY <1>1 DEF Wanted
    <3> HIDE DEF i
    <3>2. \/ output[i] \in Places(a) /\ output[i] < size
          \/ output[i] = Layer!Zero /\ pad /\ Places(a) = {}
      BY <2>1, <3>1
    <3> QED BY <3>2 DEF Held
  <2> DEFINE answer(i) == IF Places(from + i - 1) = {} THEN Layer!Zero
                          ELSE CHOOSE m \in Places(from + i - 1) : TRUE
  <2>3. Expected = [i \in 1..request[2] |-> answer(i)]
    BY <2>2 DEF Expected
  <2>4. ASSUME NEW i \in 1..request[2] PROVE output[i] = answer(i)
    <3> DEFINE a == from + i - 1
    <3>1. a \in Nat /\ (output[i] \in Places(a) \/ (output[i] = Layer!Zero /\ Places(a) = {}))
      BY <2>1
    <3>2. answer(i) = IF Places(a) = {} THEN Layer!Zero ELSE CHOOSE m \in Places(a) : TRUE
      OBVIOUS
    <3> HIDE DEF a, answer
    <3>3. CASE output[i] \in Places(a)
      <4>1. answer(i) \in Places(a)
        BY <3>2, <3>3
      <4> QED BY <1>1, <3>1, <3>3, <4>1, OnePlace
    <3>4. CASE output[i] = Layer!Zero /\ Places(a) = {}
      BY <3>2, <3>4
    <3> QED BY <3>1, <3>3, <3>4
  <2>5. Len(output) = request[2]
    <3>1. 1 \in 1..request[2]
      BY <1>1, <1>2
    <3> QED BY <2>1, <3>1
  <2>6. output = [i \in 1..request[2] |-> output[i]]
    BY <1>1, <2>5
  <2> HIDE DEF answer
  <2> QED BY <2>3, <2>4, <2>6
<1> QED BY <1>3, <1>4, <1>5

\* A read through the layer gives the bytes the format puts at the addresses asked for,
\* and where pieces nest no byte that belongs elsewhere: for every image, every length
\* of the file, and every range.
THEOREM ReadsAreExact == Spec => []ReadIsExact
<1>1. ASSUME BuildInv, LayerInv PROVE ReadIsExact
  <2> SUFFICES ASSUME Answered("read") PROVE
        IF Disjoint THEN output = Expected
        ELSE output # Layer!Failed =>
               \A i \in 1..request[2] :
                  output[i] \in Places(from + i - 1) \cup (IF pad THEN {Layer!Zero} ELSE {})
    BY DEF ReadIsExact
  <2>1. pc = "done" /\ op = "read" /\ Wanted # {}
    BY DEF Answered
  <2>2. CASE Disjoint
    BY <1>1, <2>1, <2>2, AnswerIsExpected
  <2>3. ASSUME ~Disjoint, output # Layer!Failed, NEW i \in 1..request[2]
        PROVE  output[i] \in Places(from + i - 1) \cup (IF pad THEN {Layer!Zero} ELSE {})
    <3>1. request[2] # 0 /\ Opened
      <4>1. request[2] \in Nat
        BY <1>1 DEF LayerInv, LayerTypes
      <4>2. request[2] # 0
        BY <4>1
      <4> QED BY <1>1, <2>1, <4>2 DEF LayerInv
    <3>2. Delivered(output, from, from + request[2], Formats!Says, Holes, size)
      BY <1>1, <2>1, <2>3, <3>1 DEF LayerInv, Outcome
    <3> DEFINE a == from + i - 1
    <3>3. output[i] \in Places(a) \/ (output[i] = Layer!Zero /\ pad)
      BY <1>1, <3>1, <3>2, DeliveredBytes
    <3> HIDE DEF a
    <3>4. output[i] \in Places(a) \cup (IF pad THEN {Layer!Zero} ELSE {})
      BY <3>3
    <3> QED BY <3>4 DEF a
  <2> QED BY <2>2, <2>3
<1> QED BY <1>1, BuildInvariance, LayerInvariance, PTL

\* Lending gives what a read would have given.
THEOREM LendingReads == Spec => []LendingIsReading
<1>1. BuildInv /\ LayerInv => LendingIsReading
  BY AnswerIsExpected DEF LendingIsReading, Answered
<1> QED BY <1>1, BuildInvariance, LayerInvariance, PTL

\* A range is valid exactly where a strict read of it would succeed.
THEOREM ValidIsReadable == Spec => []ValidMeansReadable
<1>1. ASSUME BuildInv, LayerInv PROVE ValidMeansReadable
  <2> SUFFICES ASSUME Answered("valid"), Disjoint
               PROVE  output = Layer!Yes <=> \A a \in Wanted : Held(a)
    BY DEF ValidMeansReadable
  <2>1. pc = "done" /\ op = "valid" /\ Wanted # {}
    BY DEF Answered
  <2>2. request[2] # 0
    <3>1. request[1] \in Nat /\ from = request[1]
      BY <1>1 DEF LayerInv, LayerTypes, from
    <3>2. request[1]..(request[1] + 0 - 1) = {}
      BY <3>1
    <3> QED BY <2>1, <3>1, <3>2 DEF Wanted
  <2> QED BY <1>1, <2>1, <2>2 DEF LayerInv, Outcome
<1> QED BY <1>1, BuildInvariance, LayerInvariance, PTL

=============================================================================
