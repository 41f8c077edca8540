# Verification of vol-rs

vol-rs is a Rust port of the memory-forensics framework Volatility 3. It opens
a memory image, works out what format it is in and which kernel it holds, lays
a virtual address space over it, and runs a plugin that walks the kernel's
structures. This directory holds TLA+ specifications of the parts of it whose
control is hard to test, the TLC instances that check them, and proofs checked
by TLAPS. Paths below are relative to `src/src/framework/` unless they begin
with `src/`.

## 1. Inventory

### 1.1 Parts, their state and their operations

| part | state | operations | where |
|---|---|---|---|
| parsed-symbol cache | files `*.bin`, `*.partial` in the cache directory, shared by processes | `get`, `put`, `path_for`, clearing | `symbols/intermed.rs`, `cache.rs` |
| banner cache | append-only `banners.tsv`; a table read once per process | look up, read a symbol file, append | `symbols/intermed.rs` |
| symbol files | directories of ISF documents | find by banner or by name, parse | `symbols/intermed.rs`, `symbols/isf.rs`, `automagic/symbol_finder.rs` |
| image facts | append-only `images.tsv` keyed by an identity | read facts, append | `automagic/image_cache.rs` |
| stacker | the stack of layers of this run | try every format on the top layer, up to eight times | `automagic/stacker.rs` |
| file and buffer layers | a file, mapped or in memory | `read`, `with_bytes`, `is_valid` | `layers/physical.rs` |
| table formats | the segment table made at open | LiME, crash dump, ELF, VMware, Xen loops; mapping, reading | `layers/{lime,crash,elf,vmware,xen,segmented}.rs` |
| framed formats | a table of compressed or scattered pages | AVML, QEMU | `layers/{avml,qemu}.rs` |
| Intel layer | two LRU caches behind locks, shared by threads | translate, map a range, read | `layers/intel.rs` |
| registry layer | hive cells in virtual memory | translate | `layers/registry.rs` |
| scanner | chunks of a scan, results by chunk | coalesce, cut, examine in parallel, report | `layers/scanners.rs`, `layers/mod.rs` |
| kernel detection | what a run has worked out | Windows, Linux, mac detectors | `automagic/{windows,linux,mac,mod,pdbscan}.rs` |
| symbol fetch | the `.pdb` and the converted file on disk | look, download, convert, write, load | `symbols/windows/{pdb,pdbconv}.rs`, `automagic/windows.rs` |
| symbol space, context | tables by name, aliases, a cache of resolved types, modules, layers | append, remove, alias, resolve, rename | `symbols/mod.rs`, `context.rs`, `layers/mod.rs` |
| objects | none (values over a layer) | members, pointers, casts | `objects/` |
| walks | a cursor, a set of seen nodes, results | lists, queues, trees, handle tables, registry keys | `objects/utility.rs`, `symbols/*` , some plugins |
| plugins | none between rows | about 160 passes over the above | `plugins/` |
| output files | the output directory, shared by processes | free name, create, write | `plugins/mod.rs` |
| renderers, CLI | none | format a grid; read options | `renderers/`, `src/src/cli/` |

### 1.2 How the parts interact

A run goes in a line: options; the stacker puts a format layer over the file;
`automagic::run` identifies the image and asks the detectors, which scan the
physical layer, read symbol files through the two caches, maybe fetch and
convert a Windows database, and add a kernel layer, a symbol table and a
module; the runner may rename the layer; the plugin reads objects through the
kernel layer, which reads the format layer, which reads the file; rows go to a
renderer, extracted bytes to files.

Real concurrency is in two places. *Threads*: a scan hands the chunks of a
batch to rayon (`layers/scanners.rs:376`), all of them reading one Intel layer
with its two caches; the search for a page table base and the look through
symbol directories use rayon too, over independent items. *Processes*: several
runs of the program share the cache directory, the symbol directories and the
output directory, with no lock between them. The symbol space, the layer
container and the context have locks but one thread uses them.

### 1.3 What is hard, and what makes each part correct

* Caches on disk: runs overlap, are killed between two writes, find a file
  replaced. Correct when an answer is what a run without the cache would get.
* Caches in memory: two threads fill and evict. Correct when what is cached is
  what the tables say.
* Ranges: pieces, holes, ends of files, starts inside a page. Correct when
  every byte asked for comes from the place the format says, once.
* Scans: workers finish in any order, needles cross chunks, the caller stops.
  Correct when every match in what was asked for is reported, and none that is
  not.
* Walks: memory is damaged or was captured while it changed. Correct when a
  walk ends, repeats nothing, invents nothing and loses no more than lies
  behind the damage.
* Files written in place and names looked for before they are taken.
* Listings: one structure of many is damaged. Correct when its row is lost and
  no other, or the listing says that it is not whole.
* Layers: names are looked for and then taken, a layer is opened for a format
  that does not match after all, one is renamed. Correct when no layer is
  replaced under its name and nothing rests on one that is gone.

`PROJECT.json` lists the hazards at their lines, with the properties that
would catch each or the reason none does yet.

## 2. Modules

| module | code | composes |
|---|---|---|
| `ParsedCache` | `load_isf_file` against the cache | - |
| `BannerCache` | `banner_cache` | - |
| `Intel` | walk, caches, `mapping` | - |
| `SegmentFormats` | the loops of six formats | - |
| `Segmented` | the segmented layer over a file | - |
| `SegmentedImage` | a format whose table is opened as a layer | `SegmentFormats`, `Segmented` by `INSTANCE` |
| `Scan` | `scan_layer_until`, `coalesce_sections` | - |
| `Detect` | detectors and image facts | - |
| `SymbolFetch` | `pdb::fetch`, `build_symbols` | - |
| `ExtractedFiles` | `open_extracted` | - |
| `ListWalk` | the list walks: forward, backward, both ways, mac's queues and tail queues | - |
| `Layers` | the layer container and everything that adds to it, removes or renames | - |
| `ListingSteps`, `Listing` | a plugin over a damaged image: `Plugin::run`, `TreeGrid` and what the runner makes of it | - |
| `LinuxListings`, `MacListings`, `WindowsListings`, `WindowsScans`, `WindowsTraces`, `RegistryListings` | the plugins, as what `Listing` runs | `ListingSteps` |
| `LinuxKernel`, `WindowsKernel` | the readers of kernel structures that plugins share | `ListingSteps` |
| `SharedFiles_proofs` | theorems of the three modules about files that processes share | `SymbolFetch`, `ExtractedFiles`, `BannerCache` |
| `Layers_proofs` | theorems of the layers of a run, and of scanning one of them | `Layers`, `Scan` |
| `*_proofs` | theorems of the module it is named for: `ParsedCache`, `Intel`, `Detect`, `ListWalk`, `Listing`, `SegmentedImage` | |
| `MC*` | values of the constants for TLC | |

A definition named `M` is followed through the code by the entry
`map.<module>.M` of `PROJECT.json`. In the modules a definition that a comment
calls a *mutant of* another one is that definition with a plausible slip in it;
nothing uses it but the experiments that ask whether a property would notice.

### 2.1 ParsedCache

State: what every symbol file holds (`source`), the directory as two maps from
names to inodes (`final`, `partial`) and the contents of inodes as two blocks,
and for each run its place in `load_isf_file`. One action for each file-system
call: `Start`, `Get` (stamp and look), `Parse`, `Stat` (the stamp `put` takes),
`Open` (create and truncate the `.partial`), `WriteHead`, `WriteTail`,
`Rename`; `WriteFails` and `Crash` at any point; `ClearEntry` is `--clear-cache`
in another process. Descriptors name inodes, so a writer goes on after another
run renamed its file. `Decoded` is what a file with a torn or mixed pair of
blocks gives.

`LoadIsCurrent`: whatever interleaves and wherever runs die, a load returns
what the symbol file holds. `EntriesMatchTheirNames`: no entry that decodes
belongs to another file. `LoadEnds`: nobody waits for anybody. All three while
no symbol file is replaced (`FixedSpec`); section 5 has what happens otherwise.
`DistinctNames` is an assumption about the installation: the cache name drops
the directory, so two files of one name, length and second must be equal.

### 2.2 BannerCache

`writeln!` on a file makes one write of each piece, so the log is a sequence of
fragments and a line is put together by whoever reads it. A process loads the log
at its first call (`Look`), looks up by a stamp, reads the symbol file, stamps it
again and appends four fragments. The stamp is the file's name with the
modification time in seconds and the length (`stamp`, `Shows`): two versions may
show alike. Any call of the file system may fail (`Fails`): the metadata, the
log, the symbol file, which is then taken for one without a banner, and the
writes. Files are replaced and processes started between calls.

`AnswersAreTrue`: a banner given is one the file declared while it had the time
and the length it has now; a file that could not be read declared none. That it
is the banner the file has, as the comment on `stamp` promises
(`NothingStaleIsTrusted`), is false: section 5. `AnswersAreKept`: a call that
appended makes the next process answer from the log. They are checked with
processes in turns.

### 2.3 Intel

State: the image and, behind their locks, the two caches: tables by frame with
eviction of the oldest, entries by page. A worker maps a range: `Ask`, look in
the entry cache, descend (`Descend` for one level, each table by a locked look
and, when it is missing, an unlocked read and a locked `StoreTable`), `Put`,
`Advance` by the page or by the hole. Two workers interleave between all of
these. The reference is a walk without caches: `UncachedWalk` says where it is
after each table, `WalkOf` where it ends.
The layers below, the file and any number of swap layers, hold each frame or
not (`Holds`), and are asked about every piece, swapped ones included
(`IsValidBelow`). `MappingIsSound`: a piece leads to bytes that are held, where
the tables put them. `MappingIsComplete`: a byte is missing only if something of
its own page that was asked for is not held. So of a large page of which half is
held that half is dropped, which `layers/intel.rs:932` takes to be impossible
(`NothingHeldIsSkipped`, section 5), but nothing else is.
`MappingIsJoined`: neighbours are joined; `CachesAreTrue` that no interleaving leaves an entry the tables do not have;
`MappingEnds` that the loop over a range ends.

The instance has two levels of two entries; the code's four levels repeat the
same step. Tables whose entries are all identical are rejected by the code
(`layers/intel.rs:533`, a documented trade-off): the model does the same and
the reference too.

### 2.4 SegmentFormats, Segmented, SegmentedImage

`SegmentFormats` is one action per turn of a format's loop, `LimeRecord`,
`FullRun`, `BitmapPage`, `ElfHeader`, `VmwareRegion`, `XenFrame`, then
`Finish`. `Says` gives, without a loop, the bytes of memory a file declares and
where they are. `Segmented` is the layer: `MapSegment` and `MapHole` are turns
of the loop of `mapping`, `MapSingle` its short cut for ranges inside one
segment, `Stitch` and `Deliver` the read with its padding, `Mapped` the
answers of `with_bytes` and `is_valid`. `SegmentedImage` opens a built table
over a file from which bytes may be missing at the end.

`TableIsImage`: the table and the format say the same. `ReadIsExact`: a read
gives, byte for byte, what the format says, zeroes only where padding was asked
for, and fails otherwise. `LendingIsReading` and `ValidMeansReadable`: the two
short cuts agree with a read. They hold of images in which no piece begins
inside another (`Disjoint`), an empty one included: the last segment that starts
at or before an address is the only one looked at, so one of no length hides the
rest of the one it begins in. Where pieces do nest, `ReadIsExact` says that a
read still gives no byte that belongs elsewhere.

### 2.5 Scan

`ScanInit` has the sections sorted, `TakeSection` and `Trim` are turns of the
loop of `coalesce_sections` and of the `filter_map` behind it, `LaySection` maps
a section to runs (`Blocks`), `LayBlock` cuts a run into chunks (`ChunksOf`),
`Examine` is one worker with one chunk of the batch, `Collect` puts the
results of a batch in the order of its chunks, `Report` hands a hit to the
caller, who may stop. `CoalescedIsAsked`: what is coalesced and trimmed covers
what was asked for of the layer, and nothing else. `FinishedReportsAll`: a scan that ran to its end reported every
match that lies in what was asked for, also across the border of two chunks,
and nothing else. `NoHitTooOften`, `FirstIsLowest`, `ScanEnds`.

### 2.6 Detect

Processes open whatever capture is at the path, each a sequence of answers:
recall, confirm, else search, then append what is news. What an image holds is
data: its candidates for page tables and, for each kernel, the places that pass
for the idle task in the order they are found. A line is appended as `writeln!`
does it, in four writes: the identity (`Put`), a tab, the facts and a newline
(`WriteTab`, `WriteFacts`, `WriteNewline`). Writes of other runs may fall between
them, and after any of them a run may be cut short or a write fail
(`WriteFails`). `Get` reads the pieces back as the code does: facts count if
their line begins with the identity and a tab and has the right fields after it,
and what else got into the line ends up in the first or the last field
(`Says`, `Read`), as a system that no detector answers to or a banner that no
image has (`Garbled`). The last line about an image counts, whole or not.

`RunIsFresh`: what a run concludes is what it would have concluded with
an empty log, whatever lies in it. `KnownIsNotSearched`: a run that reads a line
nobody wrote into searches for nothing that could have been confirmed; what
cannot be is the base of PAE tables and a task that was not found
(`Unconfirmable`). Both are about captures that come one after another; `Mixed`
lets runs over different captures overlap (section 5).

Taken as given: a write of one piece happens as a whole or not at all; no
identity is made by joining others; a task remembered is among those a search
would come by, since both look for the same signature. The base that
`automagic/windows.rs:402` prefers to the remembered one is left out: it reads
an option that nothing sets.

### 2.7 SymbolFetch and ExtractedFiles

`SymbolFetch` has the two files as sets of blocks with a length, because they
are written in place and another process may read them meanwhile. `world`
chooses which disturbances a behaviour has: overlapping runs, crashes, a server
or a directory that refuses, and a disk that fills up. `std::fs::write` empties
the file before it writes, so a write that fails half way leaves a part under the
final name, and for the database the error is dropped (`WritePdb`, `Build`,
`WriteIsf`). `WorkIsDoneOnce`, `UndisturbedIsGood`: in turns, uncut and with no
write that ends half way (`Undisturbed`), one download and one conversion serve
everybody, and nobody fails. There is one symbol directory, and a file that is
there can be read.

`ExtractedFiles` separates looking for a free name (`Name`) from creating the
file (`Create`) and writing it (`Write`). `OthersAreKept`: what was in the
directory stays, whoever races. `DoneIsKeptInTurns`: a finished dump keeps its
file while processes take turns.

### 2.8 ListWalk

Nodes, a head, and two links per place, each of which holds a place, null or
something that cannot be read. `ListEnter`, `ListVisit`, `ListStop` are the
parts of `walk_list_into`; `EndPass` turns the walk that goes both ways.
`Queue*` is mac's `walk_queue`, which forgives a broken head but not a long
queue; `Tail*` is `walk_iterable_links`, which remembers links rather than
nodes. Properties: `EachOnce`, `OnlyWhatIsLinked`, `StopsOnlyAtAnEnd`,
`OneBreakLosesNothing` (with one broken node and a sound head, a walk both
ways finds every sound node), `WalkEnds`.

### 2.9 Layers

State: the container (`held`: layers by name and the order of the names), the
image and what the run was told (which formats match at each depth, whether
there is a companion file, which formats to try, whether the plugin names its
layer), how far the run has come, the chain of layers stacked, and the kernel's
layer and module. A layer is its kind and the names of the layers it rests on.
`OpenSwap` and `OpenImage` are the runner's and the stacker's first steps;
`StackOne` is `try_stack_one` with the order of the formats and the companion
of a VMware image; `StopStacking` is the end of `stack_image`, the new name of
a file with nothing on it included; `WindowsFails` is a kernel whose symbol
file cannot be read, after which the other systems are tried and the address
space stays; `NameKernel` is the runner's rename; `AddProcess` and `AddHive`
stand for any number of plugins. Properties: a name never means another layer
while it is held (`NamesAreKept`), the order lists what is held
(`OrderIsNames`), what a layer rests on is there and nothing is left of a
format that did not match (`StackIsWhole`), and what `layerwriter` writes by
default is the physical memory (`WriterTakesTop`). The rename leaves the module
with the old name; that does no harm only because no plugin that names its
layer uses the module, which is what the guard of `AddProcess` and `AddHive`
says.

### 2.10 Listing and the listings

A plugin is one pass over lists inside lists. What a damaged image can do to it
is settled by how each read fails: with `?` (`Must`), by marking the grid and
returning it (`Tell`), by returning the grid as if it were whole (`Quit`), with
`continue` (`Need`), with `break` (`Leave`, or `Link` where the next item is
found through what was read), with an empty cell (`Cell`), with a default
(`Blank`), or with `None` out of a function (`Give` in a `Try`). The listings
give each plugin and each shared reader as a sequence of such steps, with its
loops (`Each`), options (`When`, `Unless`), filters (`Pick`), rows and files.
They leave out what is computed of the values.

`Listing` runs any of them. The state is the plugin, its options, the one thing
that is damaged or the one item that is not wanted, the place in the plugin, the
positions in the lists, the rows and the outcome: whole, told (the runner exits
with 1 after the rows) or error (the runner prints the error and no rows).
`Read` is every read by what its failure leads to; `Enter`, `NextItem`,
`Continue`, `Break` and `GiveUp` are the control of Rust; `Push` is
`TreeGrid::push`; `Finish` is the end of `run`.

`DamageIsLocal`: a listing given as whole has a row for everything sound and
wanted. Excused are the item that is damaged, what is in it, and what lies
behind it where the way to the next item was damaged. `RowsAreKept`: an error
comes before there are rows to drop. Plugins that are not so are named in
`MCHiding` and `MCDropping`; section 5 says of them what they lose.

## 3. Runs

| run | instance | why the bounds are enough |
|---|---|---|
| `parsed_all` | two runs, three symbol files (storable, small, broken), three inodes | two writers of one `.partial` and a reader that comes after need no third; an inode more than writers lets one be replaced while open |
| `banner_turns` | two processes and two started after them, two files of three versions, two of which show alike, one change, one failing call | a stale line needs one file, two versions, two processes |
| `intel_all` | 16 one-level choices over two leaf tables, each with frames missing, half of a large page among them; with Windows entries, a swap layer that holds everything, part or nothing; chosen ranges; caches of one table and two entries, two workers on one image (about 400,000 states) | a cache smaller than the tables in use evicts on every walk |
| `image_all` | up to three records, runs, headers, regions or frames, up to eight bits; ranges that begin and end anywhere; up to two bytes cut, the last piece with them | touching, overlapping, nested, empty, unordered and holed pieces all occur with three |
| `scan_all` | file of twelve bytes, chunks of three that overlap by two, batches of two | matches at, across and beside every border; several batches |
| `detect_all` | three runs of two processes, eleven captures, two changes (3.2 million states) | learn, change, learn again; two runs mix their pieces and a third reads them |
| `fetch_all` | three processes, files of two writes; three worlds, one with every disturbance and two without any but refusals | a part of a file is one write |
| `extract_all` | five dumps of two processes, a name already taken | numbered names collide with asked ones |
| `walk_all` | rings of two and three, a stray node, any two links overwritten, one structure unreadable | a walk can leave, return, be crossed and merge; limits of three are reached |
| `listing_all` | 352 plugins and readers, every option, two items to a list, any one thing damaged or any one item unwanted | one item is damaged and another is not: with two, one comes before the other either way round; loops are nested up to five deep |
| `layers_all` | up to two swap files, ten images (one nested nine deep, three with a companion), three choices of formats, three layers of plugins | every prefix is taken twice; the stack reaches its limit and stops before it |
| `fetch_crash` | a violation, section 5 | |

Deadlock is not checked where work is finite: a walk, scan, fetch, listing or
run that is over stops.

Fairness. `LoadEnds` and `MappingEnds` assume that a process or thread that is
not killed keeps running (`WF` of its own steps; a crash is never forced).
`ScanEnds`, `OperationEnds` and `WalkEnds` assume only that the program does
not stand still: in `Scan` a batch is joined by rayon, which runs every task
of it, and the other two are a single thread.

## 4. Proofs

`ParsedCache_proofs`: for any number of runs, symbol files, names and inodes,
`FixedSpec => []LoadIsCurrent` and `[]EntriesMatchTheirNames`. The invariant
`IInv` adds that each inode a run writes, and each that has a name, belongs to
the content its name stands for; blocks that are there are of that content;
hence any mixture of blocks of two writers decodes to the same value or to
nothing. It rests on `ConstantsAssumption` and `DistinctNames`.

`ListWalk_proofs`: for any image whatever, any limits and all five walks,
`[]EachOnce`, `[]OnlyWhatIsLinked`, `[]StopsOnlyAtAnEnd`. `EachOnce` is not
inductive: `IInv` ties the set of seen nodes to the results (`Remembered`; for
tail queues `RememberedLinks`, with the cardinality that their limit counts),
the node looked at to the link of the last result (`Underway`), and keeps how
the first pass ended (`HasTurned`). `[]OneBreakLosesNothing` is about a
ring with at most one broken place. `Settled` adds that a walk both ways that is
over short of its limit has been both ways; then, with `IInv`, the results of
each pass are the nodes of the ring in their order (`PassFollowsRing`), a pass
that ended short of the ring ended at the broken node or at what the walk had
(`PassEndsAtBreak`), and what one pass lacks the other has (`SettledFindsAll`).
It rests on a ring that passes each node once, which is part of
`ConstantsAssumption`: a node has one link of each kind.

`Layers_proofs`: for any images, formats, depths and numbers of swap files and of
plugins' layers, `NamesAreKept`. The search of `free_name` ends, by the
pigeonhole principle, with a name no layer has (`NameIsFree`). `IInv` adds what
the rename needs: until the kernel's layer is given the name a plugin asks for,
no layer has it. Each action only adds layers under free names, or takes back
one (`Changed`), which leaves what is under the other names. A second invariant,
`WInv`, gives `[]OrderIsNames`, `[]StackIsWhole` and `[]WriterTakesTop`. None of
them is inductive: a companion is removed and the kernel's layer renamed, and the
container does not look whether another layer rests on them. `WInv` says what
makes that safe: what is under a layer is held (`Closed`), and all but views,
hives and swap files is under something or is the top (`Used`); while the stack
grows its top is the last in the order and nothing rests on it (`OnTop`); after
it only views come (`ViewsAfter`); and no layer rests on a view until plugins
run (`Viewless`). The `retain` that takes a name out of
the order is a recursive function; that a function with its equations exists is
shown by looking at the least argument for which none would.

The second half of `Layers_proofs` is about `Scan`: for any layer whose runs
do not overlap, any file, needles no longer than a chunk repeats, any sizes of
chunks and batches and any order of the workers, `ScanSpec => []CoalescedIsAsked`,
`[]FinishedReportsAll`, `[]FirstIsLowest` and `[]NoHitTooOften`. `ScanInv` follows
the scan from stage to stage. While sections are joined, those joined are apart
and with those left cover what was asked for (`Joining`); the position is the end
of the last one only as long as none left ends before it, which is what nesting
would break. What is trimmed is the same within the layer (`Trimming`, `Trimmed`).
The chunks are of the runs cut so far, each byte of which is fresh in one of them, and
a chunk ends, or ends its fresh bytes, before a later one starts (`ChunksAreLaid`). Then what
was found is what the chunks hold (`Batched`), and what was handed over, with
what is to be, is every hit of the batches that are over: once, or in order if it is
one needle, or each with a match and a chunk of its own that see it
(`HandedOver`, `Traced`). From that, a match that is owed lies in one run and in one
section (`OwedIsSeen`), so that the chunk in which its first byte is fresh holds all of it;
and no more than two chunks see one match. The theorems suppose `NoneWithin`: sections
are given, and none lies within another; the loop loses its position where one
does, and the whole layer is taken one byte short (section 5).
`FinishedReportsAll` and `FirstIsLowest` suppose besides `RunsAreInFile`: a chunk
that goes on past the end of the file is skipped (`Scan_tail`). The instances
of `scan_all` satisfy both.

`Intel_proofs`: for any number of threads, any number of levels, any images and
capacities, `[]CachesAreTrue`, and `[]MappedIsWalked`: a thread that makes a
piece of a mapping has the entry or the fault that a walk without caches ends
with. `CachesAreTrue` is not inductive, because what a thread stores it read
before it took the lock, maybe many steps of others ago. `IInv` adds what each
thread carries between the locks: the walk it is on is where `UncachedWalk` is
after as many tables (`OnTheWay`), the table it is about to store is the one its
entry names (`TableIsRead`), and the entry it is about to keep is what `WalkOf`
finds for its page (`WalkIsTrue`). `PutKeeps` is the lemma about the caches: a
`put` changes no other key, and evicts before it would be too large. That `UncachedWalk` satisfies its equations is shown as for
`retain`.

`Detect_proofs`: for any processes, numbers of runs and of changes of the
captures, `[]RunIsFresh` and `[]KnownIsNotSearched`, however the writes of runs
over one capture mix and wherever they are cut short. What is in the cache is not
lines that are true of an image, so the invariant is about pieces. Facts are read
under an identity (`Says`) only if the one tab of their line is right behind it.
The run that wrote the facts had written a tab of its own before, so its own
identity is not behind the one of the line; and since it was written, no identity
but that of the same capture was (`Since`), because the next capture comes when
all runs are over. Hence facts that can be read about a capture are facts found in it
(`CacheIsTrue`), and whatever got into their first or last field makes them
facts no detector takes or can confirm (`WindowsRead`, `LinuxRead`). The rest of
the invariant is that a run has, of each question it is past, the answer it would
have had with no cache (`RunTrue`). The theorems suppose `World`:

* runs over different captures do not overlap (`Mixed` is false);
* no symbol file is installed or removed meanwhile (`Movable = {}`);
* captures that differ have different identities (`ToldApart`), and the name of
  a Windows symbol file is not the banner of a Linux kernel;
* an image leaves no doubt (`Unambiguous`): a page refers to itself in one way,
  no page table is where the base of PAE tables is, one banner is at one place,
  a place passes for one idle task, and nothing is found at 0, which the code
  takes for not found.

TLC evaluates the last two of the captures of `detect_all`
(`CapturesAssumption`). What the first three keep away is seen in section 5: runs
over two captures mix, `BannerIsTheSearched` has a symbol file installed between
runs, and `Detect_replaced` gives two captures one identity.

`SharedFiles_proofs` is about the three places where processes share files
without a lock; the three modules have nothing in common but that, and each
theorem is about one of them.

`SymbolFetch`: for any number of runs and files of any length,
`[]UndisturbedIsGood` and `[]WorkIsDoneOnce`. Both are about worlds where runs
take turns, none is cut short and no write ends half way; that a file cannot be
created, or the server refuses, is among what the first allows. Without them it is
false (`FullWorlds`, `OverlapWorlds`, `fetch_crash`). `FetchInv` says that a file a run is writing
holds what it has written so far and that any other that is there is whole
(`Written`), hence what a run converts and loads is whole (`Sound`), and that what
was downloaded or converted is there unless its run is about to write it (`Once`).

`ExtractedFiles`: for any processes, dumps and directory,
`[]OthersAreKept`, and `[]DoneIsKeptInTurns` where processes take turns. The
search for a name is shown to end by the pigeonhole principle (`NameIsFree`):
one of more numbers than there are files is free. `ExtractInv` adds that a dump in
progress has a name nobody else has.

`BannerCache`: for any number of processes that take turns, symbol files,
versions, restarts and changes, `[]AnswersAreTrue` and `[]AnswersAreKept`.
Neither is inductive: what a call is told rests on what `banners.tsv` is read
back for, and that on how the fragments of it, which were written one at a time,
are put together again. `Whole` says that the first `n` fragments are lines with a
newline each, and that each line is something its file declared while it had
the time and the length that the key shows (`said`); appending keeps it
(`AppendKeeps`), and a line that has got its newline adds to it (`LineEnded`).
`TableIs` says what reading does: of a file of whole lines every newline ends a
line that begins after the one before (`LineBegins`), a line that is whole is
identified by its key alone and declares its banner (`LineSays`), and
so the greatest end of a line about a key is as good as any. `BannerInv` says then
that the file is whole lines and, behind them, what the one process in a call has
written of its own (`Pending`); that a table a process holds is true, and is in
the file but for the line about to be written (`TablesAreTrue`); that the file
asked about stands still in a call (`CallIsSteady`); and that an answer is logged
unless it could not be (`AnswersAreLogged`, `unlogged`). Nothing is supposed of the
stamps: versions may show alike, and the theorems say only what was declared under
such a stamp. It rests on `VersionsAssumption`: what stands for no answer
and for a mixture of lines is no banner.

`Listing_proofs`: for any plugins whatever, lists of any length and any damage,
`[]RowsAreKept`. What makes a plugin keep its rows is the shape `Cut`: there is
a step such that everything that fails as a whole is before it, everything that
is found behind it, and no loop leads from behind it back. The invariant
`Behindhand` says that a listing with a row is behind every such step; every
jump but that to a next item goes forward, and that one stays behind the step
by `Cut`. The theorem rests on `ListingAssumption`: that loops and functions
are nested as they should be, and that every plugin outside `Dropping` has such
a step.

It also proves `[]DamageIsLocal`, for the plugins outside `Hiding`. What makes
damage local is a criterion on the steps alone, `Local`: of a step that fails or
finds an item unwanted, the jump misses the steps between, and the further turns
of the loops it ends; every row or file found there is of the item that the step
reads, or, if it reads a link, of one behind that, or cannot be wanted together
with the step. The invariant `Kept` says that a row of a sound, wanted item whose
step the listing has passed is there or is excused (`Excused`); `Passed` is the
order of steps and turns, outer loops first. Going on to the next step or into a
body passes nothing but the step itself (`GoingOnKeeps`), a next item nothing but
the end of its body, and of a jump `PassJump` says what it passes besides, which
`JumpKeeps` finds excused by `Local`: at an item that is left, by a look at the
first loop in which the missed row's item is another, hence the library's
well-founded induction. At the last step everything has been passed
(`AllIsPassed`). That is for lists of any length and any damage to one thing,
where the run has lists of two.

Both theorems rest on `ListingAssumption`, which besides `Cut` says how bodies
are entered and left (`Nested`) and that every plugin outside `Hiding` is
`Local`. TLC evaluates the assumption for all 352 plugins on `listing_all`. The
criterion is not stronger than it needs to be for them: of the plugins in `Hiding`,
each of which has a counterexample, none meets it.

`SegmentedImage_proofs`: for any page size, word size and header, any records, runs,
bitmaps, program headers, regions and frames, any length the file is left with
and any ranges, `[]TableIsImage`, `[]ReadIsExact`, `[]LendingIsReading` and
`[]ValidMeansReadable`. Of a format `BuildInv` says that the place in the file the
loop has reached is what came before it takes (`PlaceIs`), that a bitmap's open
run began that many pages back (`RunIs`), and that the table and the open run
together place what the turns so far had to (`Told`); that all turns together
are what the format says (`SaysIsTold`) needs the sums of the rooms and
the count of the pages held below one, which step with the index (`SumSteps`,
`HeldGrows`). Of the layer `LayerInv` says what the loops have found: entries in
order, each byte of each at a place the format names, and between them only
addresses where nothing is (`PiecesOf`); and that the bytes stitched so far are
those of the addresses passed, each of them in the file (`Delivered`). Its
use of the table is in three lemmas: the segment found has the address, none
has it where none is found (`FindSegment`), and at most one has it (`OnePiece`).
The last two suppose `Disjoint`, and are false without it (section 5,
`NestedPrograms`). The theorems rest on the types of what a file can declare
(`FormatsAssumption`), all of them unsigned integers in the code; sums that would
wrap in 64 bits are not in the model.

The invariants were checked by TLC on the instances before they were proved.
What stays with TLC:

* liveness (`LoadEnds`, `MappingEnds`, `ScanEnds`, `OperationEnds`, `WalkEnds`):
  this prover has no `ENABLED`;
* `MappingIsSound`, `MappingIsComplete`, `MappingIsJoined`: they are about
  addresses made of powers of two, and of `^` the prover knows the type and no
  more, not even that `2^n > 0`; and about the bits of an address (`And`). What the proofs say of `Intel` is the part threads
  can disturb. `MappingIsSound` is besides true only of reads that begin where a
  swapped page does (`Intel_swap`).

## 5. Where the code and its words differ

Listed run and its finding:

* `fetch_crash`: a database cut short while it is written spoils every later
  run (`symbols/windows/pdb.rs:106`, against `:65`).

Further instances, kept as configurations to be run by hand (each ends in a
counterexample):

| cfg | what it shows |
|---|---|
| `Scan_tail` | a chunk that goes on past the end of the file is skipped with the bytes the file has (`layers/scanners.rs:410`, against `:387`) |
| `Intel_swap` | a read that starts inside a swapped page gets the bytes of the page's start (`layers/intel.rs:718`, against `:291`) |
| `ListWalk_tail` | a tail queue that runs into itself gives one element twice (`symbols/mac/mod.rs:691`) |
| `ParsedCache_replaced` | a file replaced during a load is stored under its new stamp (`symbols/intermed.rs:705`) |
| `Detect_replaced` | a capture of the same length within the same second |

And with the configuration of the listed run and what is named here in place of
what it has:

| in place | what it shows |
|---|---|
| `ListWalk`: `NothingNewBeyond` | a node that only the backward links reach, behind a node both passes meet at, is not found (`objects/utility.rs:162` "there is nothing new beyond it") |
| `ExtractedFiles`: `DoneIsKept`, `OverlapRegimes` | two processes take one free name (`plugins/mod.rs:528`) |
| `SymbolFetch`: `FetchedOnceIsGood`, `OverlapWorlds` | a reader converts what a writer is still writing |
| `ParsedCache`: `NoHalfWrittenEntry` | two writers leave a half-written entry under the final name (`symbols/intermed.rs:825`); it does not decode |
| `BannerCache`: `NoLostWork`, `OverlapSpec`, a file of three versions and no change | pieces of two lines of the log mixed |
| `BannerCache`: `KillSpec`, `ChangeSpec` | a line without its end swallows the next; a file replaced while it is read |
| `Detect`: `BannerIsTheSearched`, `MCLinFiles`, `MCLinInstalled`, `Movable = {"a"}` | the remembered banner wins over an earlier one installed since |
| `Detect`: `NothingIsSearchedAgain`; the same with `MCLinFiles`, `MCLinInstalled` | a PAE base cannot be confirmed and is searched for each time; a banner into which a write of another run fell is recalled, not confirmed and never replaced, because what is known is compared without it (`automagic/linux.rs:236`), so it is searched for in every later run |
| `Detect`: `RunIsFresh`, `MCKernelTwice`, `MCLinInstalled`, `Mixed = TRUE`, four runs, three changes | the identity of one capture before the facts of another of the same kernel, whose class is believed |
| `Intel_swap.cfg` with `NothingHeldIsSkipped`, `MCImages` | the part of a large page that the file holds is dropped with the rest (`layers/intel.rs:932`) |
| `BannerCache`: `NothingStaleIsTrusted` | a symbol file replaced within the second by one as long answers for the old one (`symbols/intermed.rs:594`) |
| `SymbolFetch`: `FetchedOnceIsGood`, `FullWorlds` | a write that fails half way leaves a part that every later run fails on |
| `SegmentedImage`: `RecordsDoNotOverlap` | a record that begins on the last byte of the one before is taken (`layers/lime.rs:65`, against `:63`) |
| `SegmentedImage`: `FindsTheCovering`, `NestedPrograms` | the rest of a segment behind a nested one reads as a hole |
| `Scan`: `MCNestedSections`; `ReportedInOrder`, `MCNested`; `MCWhole` | a section inside another moves the position back; hits of several needles are not in order; the whole layer is taken one byte short |

### Plugins that hide or drop

`MCHiding` and `MCDropping` hold the plugins and readers of which
`DamageIsLocal` and `RowsAreKept` are not true. A name taken out of one of them
makes `ListingAssumption` fail; with its conjunct about `Local` or `Cut` taken
out too, TLC gives the counterexample. Some
are what the reference implementation does, and the code says so; they are
listed because a reader of the output cannot tell.

Hiding, that is, giving as whole a listing that lacks a sound row:

* a `break`, or a `return` of what there is, where nothing but the item is
  damaged: `LibraryList`, `KeyboardNotifiers`, `CheckFtrace`,
  `CheckTracepoints`, `CheckSysctl`, `LinuxEnvars`, `LinuxMalfind`,
  `InodePages`, `hashed_upids`, `taint_letters`, `format_sockaddr_dl`,
  `directory_entry`, `imports`, `object_type_map`, `sids`, `JobLinks`,
  `host_image`, `screen_buffer`, `MemMap`;
* the end of the chain of service records at one whose own fields cannot be read
  or make no sense, though its link onward can be (`record_ends_chain`,
  `plugins/windows/svcscan.rs:444`): `traverse`, `service_scan`, `service_list`;
* a `continue` of the loop over drivers for one device that cannot be read
  (`DeviceTree`, `plugins/windows/devicetree.rs`);
* an empty grid for any error (`HashDump`, `LsaDump`);
* a row of the hive that says what failed, in place of the rows of its keys
  (`PrintKey`).

Dropping, that is, ending in an error with rows already found:

* one process, or one hit, of many: `LinuxBash`, `MacBash`, `VmaRegExScan`,
  `VadRegExScan`, `MemMap`, `service_scan`, `service_list`,
  `selected_processes`;
* one node or slot of a table: `xarray_entries`, `maple_tree_slots`,
  `dentry_path`, `subkeys`, `read_subkey_list`, `read_users`, `exports`,
  `imports`, `pe_sections`, `ExtensionResolver`, `determine_map`, `Kallsyms`;
* the next record of a log, or the next line of a report: `Kmsg`, `Info`.

## 6. Not modelled

Parsing and formatting (ISF, PDB, templates, renderers, options and help), what
plugins compute of the fields they read, disassembly, hashing, compression,
decryption. They are functions of bytes with no state to interleave. The data
behind searches (which page looks like a page table, which bytes like a banner)
is a constant of the models. A listing says which rows there are and not what
is in their cells; so a wrong number of a handle or a path left over from the
descriptor before (section 1, hazards) is not seen. Its lists are finite: that
walks of damaged links end is shown of those in `ListWalk` alone. Symbol tables
are only ever added, under names that were free, so there is no order of events
in which the cache of resolved types is stale, and nothing to check. Linux pages
marked `PROT_NONE`, the pages of AVML and QEMU files, the translation of registry
hives, the search for the debug record, the malware and cache plugins and the
generic ones are not modelled.

## 7. What could come next

1. AVML frames and QEMU sections, in the form of `SegmentFormats` (equal
   offsets, duplicate pages, other devices' sections, validity of both ends).
2. VADs, maple trees, handle tables and registry keys with links that hold
   anything, in the form of `ListWalk`; the position a handle is given.
3. Proofs: the three invariants of `Intel` about addresses, over an arithmetic of
   powers of two and bits that the provers can use; a `Local` for damage to two
   things at once.
