------------------------------- MODULE Intel -------------------------------
(***************************************************************************)
(* The Intel translation layer (layers/intel.rs): the page-table walk, the *)
(* two LRU caches every reader of the layer shares, and the loop that maps *)
(* a range of virtual memory page by page.  Scanning reads the layer from  *)
(* many threads at once; each cache has a lock of its own, held for one    *)
(* look-up or one insertion, so the workers interleave between them.       *)
(*                                                                         *)
(* An entry keeps the bits the walk tests and the two numbers it carries:  *)
(* the frame it names and, for a page Windows swapped out, its place in a  *)
(* swap file.  Structure[l].span is the number of address bits an entry of *)
(* level l covers, so 2^span bytes; the code's position is span - 1.       *)
(***************************************************************************)
EXTENDS Integers, Sequences, FiniteSets, FiniteSetsExt, SequencesExt

CONSTANTS
    Workers,     \* the threads that read the layer
    VirtualBits, \* maxvirtaddr
    PageBits,    \* page_size_in_bits
    Structure,   \* the levels, from the root: [span, large]
    Images,      \* the layers: what physical memory holds, whether the layer has
                 \* the Windows flavour, and what each of its swap layers holds
    Root,        \* initial_entry: the entry that names the top table
    Ranges(_),   \* the ranges the workers map of an image: <<offset, length>>
    TableCapacity, EntryCapacity,  \* sizes of the two caches
    Readers(_),  \* the workers that read an image
    MaxAsks(_)   \* bound: how many ranges of an image are mapped in all

Levels == Len(Structure)
PageSize == 2^PageBits
Pages == 0..(2^(VirtualBits - PageBits) - 1)
Indices(l) == 0..(2^((IF l = 1 THEN VirtualBits ELSE Structure[l - 1].span)
                       - Structure[l].span) - 1)

ASSUME ConstantsAssumption ==
    /\ VirtualBits \in Nat /\ PageBits \in Nat /\ PageBits < VirtualBits
    /\ Levels \in Nat \ {0}
    /\ Structure[Levels].span = PageBits
    /\ TableCapacity \in Nat \ {0} /\ EntryCapacity \in Nat \ {0}
    /\ \A image \in Images : /\ MaxAsks(image) \in Nat /\ Readers(image) \subseteq Workers
                             /\ \A range \in Ranges(image) : range[1] + range[2] <= 2^VirtualBits

VARIABLES
    memory,     \* the image and the layer's flavour; nothing writes to it
    tableCache, \* a partial function from frames to tables (or Rejected)
    entryCache, \* a partial function from pages to finished walks
    asks,       \* how many ranges were asked for
    pc,         \* where each worker is
    offset,     \* the address the worker is at
    length,     \* how much of its range is left
    asked,      \* the range it was asked for
    lenient,    \* ignore_errors
    level,      \* the level of the walk in progress
    walk,       \* the entry the walk has reached, and the span it covers
    table,      \* the table just read, before it is cached
    pieces      \* the mapping so far, or the final one

vars == <<memory, tableCache, entryCache, asks, pc, offset, length, asked,
          lenient, level, walk, table, pieces>>

NoRange == <<-1, 0>>
Rejected == <<>>  \* a table that cannot be read, or is all one entry

\* The walk as it stands: an entry, the span it covers, and whether it was
\* reached (ok) or is where the walk faulted.
Reached(e, span) == [entry |-> e, span |-> span, ok |-> TRUE]
Fault(e, span) == [entry |-> e, span |-> span, ok |-> FALSE]

---------------------------------------------------------------------------
(* The walk of one page.                                                   *)

PageOf(address) == address \div PageSize

page_is_valid(e) == e.present \/ (memory.windows /\ e.transition /\ ~e.prototype)

\* get_valid_table without its cache.
ValidTable(frame) ==
    IF frame \notin DOMAIN memory.tables THEN Rejected
    ELSE LET t == memory.tables[frame] IN
           IF \A i \in DOMAIN t : t[i] = t[0] THEN Rejected ELSE t

IndexOf(l, page) ==
    ((page * PageSize) \div 2^Structure[l].span) % Cardinality(Indices(l))

EndsAt(l, e) == l = Levels \/ (Structure[l].large /\ e.bit7)

\* Mutant of Descend: the PAT bit stays in the frame number.
DescendWithPat(t, l, page) == Reached(t[IndexOf(l, page)], Structure[l].span)

\* One level down.  A large page has its PAT bit in the frame number.
Descend(t, l, page) ==
    LET e == t[IndexOf(l, page)] IN
      IF Structure[l].large /\ e.bit7
      THEN Reached([e EXCEPT !.frame = @ - (@ % 2)], Structure[l].span)
      ELSE Reached(e, Structure[l].span)

\* The walk from the root goes on through one more table, if it has not ended.
Through(m, l, page) ==
    LET e == m.walk.entry
        t == IF page_is_valid(e) THEN ValidTable(e.frame) ELSE Rejected
    IN IF ~m.goes_on THEN m
       ELSE IF t = Rejected THEN [goes_on |-> FALSE, walk |-> Fault(e, m.walk.span)]
       ELSE [goes_on |-> ~EndsAt(l, t[IndexOf(l, page)]), walk |-> Descend(t, l, page)]

\* The walk of a page when nothing is cached: where it is after so many tables.
UncachedWalk(page) ==
    LET after[l \in 0..Levels] ==
          IF l = 0 THEN [goes_on |-> TRUE, walk |-> Reached(Root, VirtualBits)]
          ELSE Through(after[l - 1], l, page)
    IN after

\* And what it finds.
WalkOf(page) == UncachedWalk(page)[Levels].walk

---------------------------------------------------------------------------
(* What a finished walk makes of an address.                               *)

\* handle_swap: the entry of a page Windows moved to a swap file.
IsSwapped(e) ==
    /\ memory.windows
    /\ ~e.transition /\ ~e.prototype /\ ~e.present /\ e.bit7
    /\ e.place # 0
    /\ e.slot < Len(memory.swaps)

Base == <<"base">>
Swap(slot) == <<"swap", slot>>
Nowhere == <<"nowhere">>

\* The layer and the address an address is found at, with the span that is
\* contiguous there; the layer is Nowhere when it faults, with the span that faults.
translate(w, address) ==
    IF w.ok /\ page_is_valid(w.entry)
    THEN [layer |-> Base, at |-> (w.entry.frame * PageSize) + (address % 2^w.span),
          span |-> w.span]
    ELSE IF IsSwapped(w.entry)
    THEN [layer |-> Swap(w.entry.slot), at |-> w.entry.place * 2^w.span, span |-> w.span]
    ELSE [layer |-> Nowhere, at |-> 0, span |-> w.span]

\* The frames a layer below holds.
Holds(layer) ==
    CASE layer = Base -> memory.present
      [] layer = Nowhere -> {}
      [] OTHER -> memory.swaps[layer[2] + 1]

\* What the layer below answers when it is asked for a piece: the base layer of a
\* resident page, a swap layer of a swapped one.
IsValidBelow(layer, at, size) ==
    \A a \in at..(at + size - 1) : PageOf(a) \in Holds(layer)

Piece(o, size, at, layer) == [offset |-> o, size |-> size, at |-> at, layer |-> layer]

Failed == <<Piece(0, 0, 0, <<"failed">>)>>  \* the mapping ended in an error

\* Mutant of coalesce_mappings: nothing is joined.
coalesce_nothing(s) == s

coalesce_mappings(s) ==
    LET join(acc, p) ==
          IF acc = <<>> THEN <<p>>
          ELSE LET last == acc[Len(acc)] IN
                 IF /\ last.offset + last.size = p.offset
                    /\ last.at + last.size = p.at
                    /\ last.layer = p.layer
                 THEN Front(acc) \o <<[last EXCEPT !.size = @ + p.size]>>
                 ELSE Append(acc, p)
    IN FoldLeft(join, <<>>, s)

Bit(n, i) == (n \div 2^i) % 2
And(m, n) == MapThenSumSet(LAMBDA i : 2^i * Bit(m, i) * Bit(n, i), 0..VirtualBits)

\* Mutants of Advance: from the address and not from the start of its region, and
\* one byte short.
AdvanceFromHere(mask, address) == mask + 1
AdvanceShort(mask, address) == mask - And(address, mask)

\* How far to jump over what did not map.
Advance(mask, address) == mask + 1 - And(address, mask)

---------------------------------------------------------------------------

Goto(w, label) == pc' = [pc EXCEPT ![w] = label]

\* LruCache::put: a full cache drops an entry.  Which one is the least recently
\* used is left open.
Put(cache, k, v, capacity) ==
    LET with(d) == [x \in d \cup {k} |-> IF x = k THEN v ELSE cache[x]] IN
      IF k \in DOMAIN cache \/ Cardinality(DOMAIN cache) < capacity
      THEN {with(DOMAIN cache)}
      ELSE {with(DOMAIN cache \ {x}) : x \in DOMAIN cache}

Init ==
    /\ memory \in Images
    /\ tableCache = <<>>
    /\ entryCache = <<>>
    /\ asks = 0
    /\ pc = [w \in Workers |-> "idle"]
    /\ offset = [w \in Workers |-> 0]
    /\ length = [w \in Workers |-> 0]
    /\ asked = [w \in Workers |-> NoRange]
    /\ lenient = [w \in Workers |-> FALSE]
    /\ level = [w \in Workers |-> 1]
    /\ walk = [w \in Workers |-> Reached(Root, VirtualBits)]
    /\ table = [w \in Workers |-> Rejected]
    /\ pieces = [w \in Workers |-> <<>>]

\* A worker asks for the mapping of a range.
Ask(w) ==
    /\ w \in Readers(memory)
    /\ pc[w] = "idle"
    /\ asks < MaxAsks(memory)
    /\ asks' = asks + 1
    /\ \E range \in Ranges(memory), ignore_errors \in BOOLEAN :
        /\ asked' = [asked EXCEPT ![w] = range]
        /\ offset' = [offset EXCEPT ![w] = range[1]]
        /\ length' = [length EXCEPT ![w] = range[2]]
        /\ lenient' = [lenient EXCEPT ![w] = ignore_errors]
    /\ pieces' = [pieces EXCEPT ![w] = <<>>]
    /\ Goto(w, "entry")
    /\ UNCHANGED <<memory, tableCache, entryCache, level, walk, table>>

\* translate_entry looks in the cache of finished walks.
LookUpEntry(w) ==
    /\ pc[w] = "entry"
    /\ LET page == PageOf(offset[w]) IN
         IF page \in DOMAIN entryCache
         THEN /\ walk' = [walk EXCEPT ![w] = entryCache[page]]
              /\ Goto(w, "map")
              /\ UNCHANGED level
         ELSE /\ walk' = [walk EXCEPT ![w] = Reached(Root, VirtualBits)]
              /\ level' = [level EXCEPT ![w] = 1]
              /\ Goto(w, "walk")
    /\ UNCHANGED <<memory, tableCache, entryCache, asks, offset, length, asked,
                   lenient, table, pieces>>

\* The walk goes on with a table: it faults, ends or takes the next level.
Take(w, t) ==
    LET page == PageOf(offset[w])
        l == level[w]
    IN IF t = Rejected
       THEN /\ walk' = [walk EXCEPT ![w].ok = FALSE]
            /\ Goto(w, "map")
            /\ UNCHANGED level
       ELSE /\ walk' = [walk EXCEPT ![w] = Descend(t, l, page)]
            /\ IF EndsAt(l, t[IndexOf(l, page)])
               THEN Goto(w, "keep") /\ UNCHANGED level
               ELSE level' = [level EXCEPT ![w] = l + 1] /\ Goto(w, "walk")

\* get_valid_table looks in the cache of tables.
LookUpTable(w) ==
    /\ pc[w] = "walk"
    /\ LET e == walk[w].entry IN
         IF ~page_is_valid(e) THEN Take(w, Rejected)
         ELSE IF e.frame \in DOMAIN tableCache THEN Take(w, tableCache[e.frame])
         ELSE Goto(w, "read") /\ UNCHANGED <<level, walk>>
    /\ UNCHANGED <<memory, tableCache, entryCache, asks, offset, length, asked,
                   lenient, table, pieces>>

\* The table is read from the layer below, with no lock held.
ReadTable(w) ==
    /\ pc[w] = "read"
    /\ table' = [table EXCEPT ![w] = ValidTable(walk[w].entry.frame)]
    /\ Goto(w, "store")
    /\ UNCHANGED <<memory, tableCache, entryCache, asks, offset, length, asked,
                   lenient, level, walk, pieces>>

\* Mutant of StoreTable: the table is stored under the entry it led to.
StoreTableAfterDescent(w) ==
    /\ pc[w] = "store"
    /\ Take(w, table[w])
    /\ tableCache' \in Put(tableCache, walk'[w].entry.frame, table[w], TableCapacity)
    /\ UNCHANGED <<memory, entryCache, asks, offset, length, asked, lenient,
                   table, pieces>>

StoreTable(w) ==
    /\ pc[w] = "store"
    /\ tableCache' \in Put(tableCache, walk[w].entry.frame, table[w], TableCapacity)
    /\ Take(w, table[w])
    /\ UNCHANGED <<memory, entryCache, asks, offset, length, asked, lenient,
                   table, pieces>>

\* Only walks that reached an entry are cached; faults are not.
StoreEntry(w) ==
    /\ pc[w] = "keep"
    /\ entryCache' \in Put(entryCache, PageOf(offset[w]), walk[w], EntryCapacity)
    /\ Goto(w, "map")
    /\ UNCHANGED <<memory, tableCache, asks, offset, length, asked, lenient, level,
                   walk, table, pieces>>

\* The worker has its answer.
Finish(w, answer) ==
    /\ pieces' = [pieces EXCEPT ![w] = answer]
    /\ Goto(w, "idle")
    /\ UNCHANGED <<offset, length>>

\* The mapping goes on after size bytes, if there are more.
GoOn(w, size, sofar) ==
    IF size >= length[w] THEN Finish(w, coalesce_mappings(sofar))
    ELSE /\ offset' = [offset EXCEPT ![w] = @ + size]
         /\ length' = [length EXCEPT ![w] = @ - size]
         /\ pieces' = [pieces EXCEPT ![w] = sofar]
         /\ Goto(w, "entry")

\* walk_mapping_raw maps what the walk found, or skips what it did not.
MapPiece(w) ==
    /\ pc[w] = "map"
    /\ LET here == offset[w]
           found == translate(walk[w], here)
           chunk == Min({2^found.span - (here % 2^found.span), length[w]})
           mapped == IsValidBelow(found.layer, found.at, IF chunk = 0 THEN 1 ELSE chunk)
       IN IF found.layer # Nowhere /\ mapped
          THEN GoOn(w, chunk, Append(pieces[w], Piece(here, chunk, found.at, found.layer)))
          ELSE IF ~lenient[w] THEN Finish(w, Failed)
          ELSE IF length[w] = 0 THEN Finish(w, pieces[w])
          ELSE GoOn(w, Advance(IF found.layer = Nowhere THEN 2^found.span - 1 ELSE chunk - 1,
                               here), pieces[w])
    /\ UNCHANGED <<memory, tableCache, entryCache, asks, asked, lenient, level,
                   walk, table>>

Proceed(w) ==
    \/ LookUpEntry(w) \/ LookUpTable(w) \/ ReadTable(w)
    \/ StoreTable(w) \/ StoreEntry(w) \/ MapPiece(w)

Next == \E w \in Workers : Ask(w) \/ Proceed(w)

Spec == Init /\ [][Next]_vars
LiveSpec == Spec /\ \A w \in Workers : WF_vars(Proceed(w))

---------------------------------------------------------------------------

\* Where the page tables put the byte at an address, and the span of its page: a
\* fact of the image, which no cache and no mapping loop has a part in.  The tables
\* are followed as far as they go, and a page of any size begins at a multiple of
\* its size.
Place(address) ==
    LET met[l \in 0..Levels] ==
          IF l = 0 THEN [depth |-> 0, entry |-> Root]
          ELSE LET m == met[l - 1]
                   leads == /\ m.depth = l - 1 /\ page_is_valid(m.entry)
                            /\ ValidTable(m.entry.frame) # Rejected
                            /\ l = 1 \/ ~EndsAt(l - 1, m.entry)
               IN IF leads
                  THEN [depth |-> l,
                        entry |-> ValidTable(m.entry.frame)[IndexOf(l, PageOf(address))]]
                  ELSE m
        e == met[Levels].entry
        depth == met[Levels].depth
        span == IF depth = 0 THEN VirtualBits ELSE Structure[depth].span
        first == e.frame - (e.frame % 2^(span - PageBits))
        within == address % 2^span
    IN IF depth > 0 /\ EndsAt(depth, e) /\ page_is_valid(e)
       THEN [home |-> <<Base, (first * PageSize) + within>>, span |-> span]
       ELSE IF IsSwapped(e)
       THEN [home |-> <<Swap(e.slot), (e.place * 2^span) + within>>, span |-> span]
       ELSE [home |-> <<Nowhere, 0>>, span |-> span]

Home(address) == Place(address).home

\* The layers below hold the byte.
IsKept(address) ==
    LET home == Home(address) IN PageOf(home[2]) \in Holds(home[1])

\* The addresses of the page an address is in, whatever its size.
PageAround(address) ==
    LET size == 2^Place(address).span
        first == address - (address % size)
    IN first..(first + size - 1)

\* A range of length 0 asks about one address.
Bytes(from, size) == from..(from + Max({size, 1}) - 1)
Wanted(w) == Bytes(asked[w][1], asked[w][2])
Kept(w) == {a \in Wanted(w) : IsKept(a)}
Torn(w) == {a \in Wanted(w) : ~(PageAround(a) \cap Wanted(w) \subseteq Kept(w))}
Mapped(w) ==
    UNION {{<<a, <<p.layer, p.at + (a - p.offset)>>>> : a \in Bytes(p.offset, p.size)} :
             p \in Range(pieces[w])}
Answered(w) == pc[w] = "idle" /\ asked[w] # NoRange

\* Every piece of a mapping leads to bytes the layers below hold, where the page
\* tables put them, however the caches were filled, by whom, and what they dropped
\* since.  It is also what intel.rs:292 says of swapped pages: "a page swapped out of
\* one process is read the same way as any other."
MappingIsSound ==
    \A w \in Workers : Answered(w) /\ pieces[w] # Failed =>
        Mapped(w) \subseteq {<<a, Home(a)>> : a \in Kept(w)}

\* A byte is missing from a mapping only with a reason: something of its own page that
\* was asked for as well is not held.  A strict mapping fails only over a byte that is
\* not held.  So no fault, however large its page, and no jump over one takes another
\* page along.
MappingIsComplete ==
    \A w \in Workers : Answered(w) =>
        IF pieces[w] = Failed THEN Kept(w) # Wanted(w)
        ELSE Wanted(w) \ Torn(w) \subseteq {m[1] : m \in Mapped(w)}

\* Every byte that is held is in the mapping.  This is what intel.rs:932 says of what
\* is jumped over: "all bytes in between aren't mapped (virtually and) physically
\* anyway."  It is false where a layer holds a part of a large page.
NothingHeldIsSkipped ==
    \A w \in Workers : Answered(w) /\ pieces[w] # Failed =>
        Kept(w) \subseteq {m[1] : m \in Mapped(w)}

\* A mapping is in address order, overlaps nowhere, and joins what can be joined.
MappingIsJoined ==
    \A w \in Workers : Answered(w) /\ pieces[w] # Failed =>
        \A i \in 1..(Len(pieces[w]) - 1) :
            LET p == pieces[w][i]
                q == pieces[w][i + 1]
            IN /\ p.offset + p.size <= q.offset
               /\ ~ /\ p.offset + p.size = q.offset
                    /\ p.at + p.size = q.at
                    /\ p.layer = q.layer

\* What either cache holds is what a walk without caches finds, and neither holds more
\* than it may.
CachesAreTrue ==
    /\ Cardinality(DOMAIN tableCache) <= TableCapacity
    /\ Cardinality(DOMAIN entryCache) <= EntryCapacity
    /\ \A frame \in DOMAIN tableCache : tableCache[frame] = ValidTable(frame)
    /\ \A page \in DOMAIN entryCache : entryCache[page] = WalkOf(page)

\* The mapping of a range ends: whatever faults, the loop moves on.
MappingEnds == \A w \in Workers : pc[w] = "entry" ~> pc[w] = "idle"

===========================================================================
