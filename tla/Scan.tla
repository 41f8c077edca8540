-------------------------------- MODULE Scan --------------------------------
(***************************************************************************)
(* Scanning a layer (layers/scanners.rs, scan_layer_until, and             *)
(* coalesce_sections of layers/mod.rs).  The sections asked for are sorted *)
(* and coalesced; each is mapped to runs of the file beneath; each run is  *)
(* cut into chunks that overlap; the chunks are examined by the workers of *)
(* a thread pool, one batch at a time and in any order within the batch;   *)
(* what a batch found is handed to the caller in the order of its chunks,  *)
(* and the caller may stop the scan at any hit.                            *)
(*                                                                         *)
(* The layer is linear and the file below knows what it contains: a set of *)
(* occurrences of the needles, each with its place and its length.         *)
(***************************************************************************)
EXTENDS Integers, Sequences, FiniteSets, FiniteSetsExt, Functions, SequencesExt

CONSTANTS
    LayersScanned, \* what is scanned: [low, high, runs], the runs sorted and disjoint
    FileSize,   \* bytes of the file below
    Contents,   \* what the file holds: sets of [at, len]
    Sections,   \* what is asked for: sequences of <<start, length>>, or Whole
    Kinds,      \* "bytes", "strings" and "both_regions" (reporting_overlap)
    ChunkSize,
    Overlap,
    BatchSize,  \* four times the number of threads
    MayStop     \* whether the caller may stop

Whole == << <<-1, -1>> >>

\* A chunk repeats no more than a chunk, and enough of it to see any needle.
ScanAssumption ==
    /\ ChunkSize \in Nat \ {0} /\ Overlap \in 0..ChunkSize /\ BatchSize \in Nat \ {0}
    /\ FileSize \in Nat
    /\ Kinds \subseteq {"bytes", "strings", "both_regions"}
    /\ \A c \in Contents : IsFiniteSet(c) /\ c \subseteq [at : Nat, len : 1..(Overlap + 1)]
    /\ Sections \subseteq Seq(Nat \X Nat) \cup {Whole}
    /\ \A l \in LayersScanned :
         /\ l.low \in Nat /\ l.high \in Nat /\ l.low <= l.high
         /\ l.runs \in Seq([offset : Nat, mapped : Nat, size : Nat])
         /\ \A i, j \in DOMAIN l.runs : i < j => l.runs[i].offset + l.runs[i].size <= l.runs[j].offset
ASSUME ScanAssumption

VARIABLES
    scanned, content, kind, asked,
    pc,         \* "sort", "trim", "lay", "examine", "report", "done"
    todo,       \* the sections not yet taken
    sections,   \* the sections coalesced so far
    position,   \* where the section taken last ends
    blocks,     \* the blocks of the section at hand that are not yet cut
    chunks,     \* every chunk: its place in the layer, its length, its place below
    base,       \* the chunks of the batches that are over
    found,      \* what each worker of this batch returned, by chunk
    pending,    \* hits of the batch that are still to be handed over
    reported,   \* hits handed to the caller, in order
    stopped

input == <<scanned, content, kind, asked>>
scanVars == <<input, pc, todo, sections, position, blocks, chunks, base, found, pending, reported, stopped>>

Lesser(a, b) == a[1] < b[1] \/ (a[1] = b[1] /\ a[2] <= b[2])
endOf(s) == s[1] + s[2]

\* With nothing asked for, the whole layer is the section.
Wanted == IF asked = Whole THEN << <<scanned.low, scanned.high - scanned.low>> >> ELSE asked

\* The sections are taken in order.
ScanInit ==
    /\ scanned \in LayersScanned /\ content \in Contents /\ kind \in Kinds /\ asked \in Sections
    /\ kind = "bytes" => \A o, p \in content : o.len = p.len
    /\ \E p \in Bijection(1..Len(Wanted), 1..Len(Wanted)) :
         /\ todo = [i \in 1..Len(Wanted) |-> Wanted[p[i]]]
         /\ \A i, j \in 1..Len(Wanted) : i < j => Lesser(todo[i], todo[j])
    /\ pc = "sort"
    /\ sections = <<>> /\ position = 0
    /\ blocks = <<>> /\ chunks = <<>> /\ base = 0
    /\ found = <<>> /\ pending = <<>> /\ reported = <<>>
    /\ stopped = FALSE

---------------------------------------------------------------------------
(* Coalescing.                                                             *)

\* Mutant of TakeSection: a section that touches the last one replaces it.
TakeSectionReplacing ==
    /\ pc = "sort" /\ todo # <<>>
    /\ LET s == Head(todo) IN
       /\ position' = endOf(s)
       /\ IF sections # <<>> /\ s[1] <= position
          THEN LET start == Last(sections)[1] IN
               sections' = Append(Front(sections), <<start, s[2]>>)
          ELSE sections' = Append(sections, s)
    /\ todo' = Tail(todo)
    /\ UNCHANGED <<input, pc, blocks, chunks, base, found, pending, reported, stopped>>

\* A section that starts at or before the end of the one before it is joined to
\* it.  position is the end of the section taken last, not of the joined one.
TakeSection ==
    /\ pc = "sort" /\ todo # <<>>
    /\ LET s == Head(todo) IN
       /\ position' = endOf(s)
       /\ IF sections # <<>> /\ s[1] <= position
          THEN LET start == Last(sections)[1] IN
               sections' = Append(Front(sections), <<start, Max({endOf(s), position}) - start>>)
          ELSE sections' = Append(sections, s)
    /\ todo' = Tail(todo)
    /\ UNCHANGED <<input, pc, blocks, chunks, base, found, pending, reported, stopped>>

\* Then what was joined is trimmed.
StartTrim ==
    /\ pc = "sort" /\ todo = <<>>
    /\ pc' = "trim"
    /\ todo' = sections
    /\ sections' = <<>>
    /\ UNCHANGED <<input, position, blocks, chunks, base, found, pending, reported, stopped>>

\* A section outside the layer is dropped and any other cut to it.
Trim ==
    /\ pc = "trim" /\ todo # <<>>
    /\ LET from == Max({Head(todo)[1], scanned.low})
           to == Min({endOf(Head(todo)), scanned.high + 1})
       IN sections' = IF from < to THEN Append(sections, <<from, to - from>>) ELSE sections
    /\ todo' = Tail(todo)
    /\ UNCHANGED <<input, pc, position, blocks, chunks, base, found, pending, reported, stopped>>

StartLay ==
    /\ pc = "trim" /\ todo = <<>>
    /\ pc' = "lay"
    /\ todo' = sections
    /\ UNCHANGED <<input, sections, position, blocks, chunks, base, found, pending, reported, stopped>>

---------------------------------------------------------------------------
(* Chunks.                                                                 *)

\* layer.mapping with ignore_errors: the parts of the runs inside the section.  A run
\* beside it leaves a part of no bytes or fewer, and that is cut into no chunks.
Blocks(s) ==
    LET from(r) == Max({r.offset, s[1]})
        to(r) == Min({r.offset + r.size, endOf(s)})
    IN [i \in 1..Len(scanned.runs) |->
          LET r == scanned.runs[i] IN
            [offset |-> from(r), size |-> to(r) - from(r), mapped |-> r.mapped + from(r) - r.offset]]

\* Mutant of ChunksOf: no chunk reads past its own fresh part.
ChunksOfNoOverlap(b) ==
    [i \in 1..((b.size + ChunkSize - 1) \div ChunkSize) |->
       [offset |-> b.offset + ((i - 1) * ChunkSize),
        want |-> Min({ChunkSize, b.size - ((i - 1) * ChunkSize)}),
        at |-> b.mapped + ((i - 1) * ChunkSize)]]

\* A run is cut every ChunkSize bytes, each chunk reading Overlap bytes further.
ChunksOf(b) ==
    [i \in 1..((b.size + ChunkSize - 1) \div ChunkSize) |->
       [offset |-> b.offset + ((i - 1) * ChunkSize),
        want |-> Min({ChunkSize + Overlap, b.size - ((i - 1) * ChunkSize)}),
        at |-> b.mapped + ((i - 1) * ChunkSize)]]

LaySection ==
    /\ pc = "lay" /\ blocks = <<>> /\ todo # <<>>
    /\ blocks' = Blocks(Head(todo))
    /\ todo' = Tail(todo)
    /\ UNCHANGED <<input, pc, sections, position, chunks, base, found, pending, reported, stopped>>

LayBlock ==
    /\ pc = "lay" /\ blocks # <<>>
    /\ chunks' = chunks \o ChunksOf(Head(blocks))
    /\ blocks' = Tail(blocks)
    /\ UNCHANGED <<input, pc, todo, sections, position, base, found, pending, reported, stopped>>

StartScan ==
    /\ pc = "lay" /\ blocks = <<>> /\ todo = <<>>
    /\ pc' = IF chunks = <<>> THEN "done" ELSE "examine"
    /\ UNCHANGED <<input, todo, sections, position, blocks, chunks, base, found, pending, reported, stopped>>

---------------------------------------------------------------------------
(* A batch.                                                                *)

Keeps == kind = "both_regions"

\* The order in which matches are found: the search for one string goes by where
\* they begin, the automaton for several by where they end.
Before(a, b) ==
    IF kind = "bytes" THEN a.at < b.at
    ELSE a.at + a.len < b.at + b.len \/ (a.at + a.len = b.at + b.len /\ a.at < b.at)
InOrder(S) ==
    CHOOSE q \in [1..Cardinality(S) -> S] :
        \A i, j \in 1..Cardinality(S) : i < j => Before(q[i], q[j])

\* What a scanner finds in a chunk's bytes.
Seen(c) ==
    {o \in content :
       /\ c.at <= o.at /\ o.at + o.len <= c.at + c.want
       /\ Keeps \/ o.at - c.at < ChunkSize}

\* The closure of par_iter: a chunk the file cannot give whole is skipped, and
\* what is found below is reported where it lies in the layer scanned.
Hits(c) ==
    IF c.at + c.want > FileSize THEN <<>>
    ELSE LET q == InOrder(Seen(c)) IN [i \in 1..Len(q) |-> c.offset + (q[i].at - c.at)]

Batch == (base + 1)..Min({base + BatchSize, Len(chunks)})

\* A worker finishes one chunk of the batch.
Examine(i) ==
    /\ pc = "examine"
    /\ i \in Batch \ DOMAIN found
    /\ found' = [j \in DOMAIN found \cup {i} |-> IF j = i THEN Hits(chunks[i]) ELSE found[j]]
    /\ UNCHANGED <<input, pc, todo, sections, position, blocks, chunks, base, pending, reported, stopped>>

\* Mutant of Collect: the chunks are collected with the last one first.
CollectBackwards ==
    /\ pc = "examine"
    /\ DOMAIN found = Batch
    /\ pending' = FlattenSeq(Reverse([i \in 1..Cardinality(Batch) |-> found[base + i]]))
    /\ found' = <<>>
    /\ base' = base + Cardinality(Batch)
    /\ pc' = "report"
    /\ UNCHANGED <<input, todo, sections, position, blocks, chunks, reported, stopped>>

\* collect: every worker of the batch has returned.
Collect ==
    /\ pc = "examine"
    /\ DOMAIN found = Batch
    /\ pending' = FlattenSeq([i \in 1..Cardinality(Batch) |-> found[base + i]])
    /\ found' = <<>>
    /\ base' = base + Cardinality(Batch)
    /\ pc' = "report"
    /\ UNCHANGED <<input, todo, sections, position, blocks, chunks, reported, stopped>>

\* Mutant of Report: a place two needles match is passed on for each.
ReportEvery ==
    /\ pc = "report" /\ pending # <<>>
    /\ pending' = Tail(pending)
    /\ reported' = Append(reported, Head(pending))
    /\ \/ UNCHANGED <<pc, stopped>>
       \/ MayStop /\ stopped' = TRUE /\ pc' = "done"
    /\ UNCHANGED <<input, todo, sections, position, blocks, chunks, base, found>>

\* A hit is handed over, unless it was before.  The caller may stop the scan.
Report ==
    /\ pc = "report" /\ pending # <<>>
    /\ pending' = Tail(pending)
    /\ \/ /\ ~Keeps /\ Head(pending) \in ToSet(reported)
          /\ UNCHANGED <<reported, pc, stopped>>
       \/ /\ Keeps \/ Head(pending) \notin ToSet(reported)
          /\ reported' = Append(reported, Head(pending))
          /\ \/ UNCHANGED <<pc, stopped>>
             \/ MayStop /\ stopped' = TRUE /\ pc' = "done"
    /\ UNCHANGED <<input, todo, sections, position, blocks, chunks, base, found>>

\* Mutant of NextBatch: a scan that is over starts its last batch again.
NextBatchForever ==
    /\ pc = "report" /\ pending = <<>>
    /\ pc' = "examine"
    /\ base' = IF base = Len(chunks) THEN 0 ELSE base
    /\ UNCHANGED <<input, todo, sections, position, blocks, chunks, found, pending, reported, stopped>>

NextBatch ==
    /\ pc = "report" /\ pending = <<>>
    /\ pc' = IF base = Len(chunks) THEN "done" ELSE "examine"
    /\ UNCHANGED <<input, todo, sections, position, blocks, chunks, base, found, pending, reported, stopped>>

ScanNext ==
    \/ TakeSection \/ StartTrim \/ Trim \/ StartLay \/ LaySection \/ LayBlock \/ StartScan
    \/ \E i \in Batch : Examine(i)
    \/ Collect \/ Report \/ NextBatch

ScanSpec == ScanInit /\ [][ScanNext]_scanVars
FairScanSpec == ScanSpec /\ WF_scanVars(ScanNext)

---------------------------------------------------------------------------
(* What the caller is promised.                                            *)

Span(s) == s[1]..(endOf(s) - 1)
Asked == (IF asked = Whole THEN scanned.low..scanned.high
          ELSE UNION {Span(s) : s \in ToSet(asked)})
         \cap (scanned.low..scanned.high)

Place(o, r) == r.offset + (o.at - r.mapped)

\* The occurrences a scan owes, with their place in the layer: those that lie
\* inside one run, in the file, with every byte asked for.
Owes(r, o) ==
    /\ r.mapped <= o.at /\ o.at + o.len <= r.mapped + r.size
    /\ o.at + o.len <= FileSize
    /\ \A d \in 0..(o.len - 1) : Place(o, r) + d \in Asked
Due == UNION {{<<Place(o, r), o>> : o \in {p \in content : Owes(r, p)}} : r \in ToSet(scanned.runs)}
Owed == {d[1] : d \in Due}

\* mod.rs:380: "Take a list of (start, length) sections and coalesce any adjacent
\* sections, clamping them to the layer's addressable range."  Nothing that was
\* asked for is lost and nothing is added.
CoalescedIsAsked ==
    pc \in {"lay", "examine"} =>
        UNION {Span(s) : s \in ToSet(sections)} = Asked

\* A scan that was not stopped has reported every occurrence it owes, however
\* the chunk and batch boundaries fall and whichever worker is first.
FinishedReportsAll ==
    pc = "done" /\ ~stopped => ToSet(reported) = Owed

\* scanners.rs:422: "Reported in address order, whatever order they were found in."
\* At every moment the caller has seen the owed hits below the last one, in
\* order: a caller that takes the first hit gets the lowest.
ReportedInOrder ==
    ~Keeps =>
      /\ \A i, j \in DOMAIN reported : i < j => reported[i] < reported[j]
      /\ ToSet(reported) = {h \in Owed : reported # <<>> /\ h <= Last(reported)}

\* The same of a search for one string, where it is so.
FirstIsLowest == kind = "bytes" => ReportedInOrder

\* "must not report it twice"; a scanner that owns the repeated bytes passes a
\* match on at most once for each of the two chunks that see it.
NoHitTooOften ==
    \A h \in ToSet(reported) :
        Cardinality({i \in DOMAIN reported : reported[i] = h}) <=
            IF Keeps THEN 2 * Cardinality({d \in Due : d[1] = h}) ELSE 1

\* Every scan ends.
ScanEnds == <>(pc = "done")

=============================================================================
