------------------------------- MODULE Detect -------------------------------
(***************************************************************************)
(* Working out what an image is (automagic/mod.rs, windows.rs, linux.rs),  *)
(* with what earlier runs wrote down about the same file (image_cache.rs). *)
(* Every run is a sequence of answers: the page tables, the kernel and its *)
(* symbols for Windows; the banner, the shift and the class of the layer   *)
(* for Linux.  Each answer is recalled and confirmed, or searched for, and *)
(* a run that learned something appends it to the cache: writeln! on a     *)
(* file opened to append, four writes, between which those of other runs   *)
(* may fall, and after any of which it may be cut short.                   *)
(*                                                                         *)
(* What an image holds is data: its candidate page tables, the kernels an  *)
(* address space shows, its banners and idle tasks.  The last detector     *)
(* (mac.rs) remembers nothing and is left out.  So is the base that        *)
(* windows.rs:402 prefers to one it remembers: nothing ever sets it.       *)
(***************************************************************************)
EXTENDS Integers, Sequences, FiniteSets, FiniteSetsExt, Functions

CONSTANTS
    Runs,       \* processes
    Files,      \* what may be at the path: [id, holds], id being its identity
    Installed,  \* the symbol files that may be installed at first
    Movable,    \* the symbol files that are installed or removed between runs
    Mixed,      \* BOOLEAN: do runs over different captures overlap?
    Broken,     \* symbol files that do not load, or have no type for the idle task
    NoPageTable,\* Linux symbol files that name no top-level page table
    MaxRuns,    \* bound: how many runs are started
    MaxChanges  \* bound: how many times the file or the symbols change

ASSUME BoundsAssumption == MaxRuns \in Nat /\ MaxChanges \in Nat /\ Mixed \in BOOLEAN

VARIABLES
    file,       \* what is at the path
    installed,  \* the symbol files that are installed
    cache,      \* images.tsv: what was appended to it, write by write
    run,        \* each process: where it is and what it has worked out
    started, changes

vars == <<file, installed, cache, run, started, changes>>

NoFacts == [os |-> "none", at |-> 0, text |-> "", task |-> 0, physical |-> 0,
            virtual |-> 0, kernel |-> 0, dtb |-> 0, class |-> ""]
NoTask == [at |-> 0, physical |-> 0, virtual |-> 0]
NoResult == [os |-> "none", base |-> 0, class |-> "", symbols |-> "", shift |-> NoTask]
Idle(image) ==
        [pc |-> "idle", image |-> image, facts |-> NoFacts, known |-> NoFacts, first |-> FALSE, index |-> {},
         base |-> 0, class |-> "", found |-> [at |-> 0, sig |-> 0, text |-> ""],
         shift |-> NoTask, searched |-> {}, line |-> NoFacts, result |-> NoResult]

Init ==
    /\ file \in Files
    /\ installed \in Installed
    /\ cache = <<>>
    /\ run = [r \in Runs |-> Idle(file)]
    /\ started = 0 /\ changes = 0

---------------------------------------------------------------------------
(* What the cache says.                                                    *)

Id(id) == [kind |-> "id", val |-> id]
Tab == [kind |-> "tab"]
Facts(facts) == [kind |-> "facts", val |-> facts]
Newline == [kind |-> "newline"]

Garbled == "?"  \* a text in which the writes of several runs run together

\* The facts at p are read as those of an image: their line begins with its identity
\* and a tab, and nothing but identities stands between.  One more tab, and a field
\* that has to be a number is none.
Says(id, p) ==
    /\ cache[p].kind = "facts"
    /\ \E i \in 1..(p - 2) :
         /\ i = 1 \/ cache[i - 1].kind = "newline"
         /\ cache[i].kind = "id" /\ cache[i].val = id
         /\ cache[i + 1].kind = "tab"
         /\ \A j \in (i + 2)..(p - 1) : cache[j].kind = "id"

\* What stands before them is part of the first field, what follows part of the last.
Read(p) ==
    [cache[p].val EXCEPT
        !.os = IF cache[p - 1].kind = "tab" THEN @ ELSE Garbled,
        !.text = IF p = Len(cache) \/ cache[p + 1].kind = "newline" THEN @ ELSE Garbled]

\* Mutant of Get: the last facts of the file, whatever image they are about.
GetOfAnyFile(id) ==
    LET said == {p \in 2..Len(cache) : cache[p].kind = "facts"} IN
      IF said = {} THEN NoFacts ELSE Read(Max(said))

\* The last line about an image that can be decoded.
Get(id) ==
    LET said == {p \in 1..Len(cache) : Says(id, p)} IN
      IF said = {} THEN NoFacts ELSE Read(Max(said))

\* What was remembered, if the detector that asks is the one that wrote it.
Remembered(image, os) == IF Get(image.id).os = os THEN Get(image.id) ELSE NoFacts

---------------------------------------------------------------------------
(* What the image answers.                                                 *)

Label(kind) == IF kind = "legacy" THEN "64" ELSE kind
\* find_dtb takes the tests in their order, then the addresses.
Rank == [k \in {"64", "PAE", "32", "legacy"} |->
            CASE k = "64" -> 0 [] k = "PAE" -> 1 [] k = "32" -> 2 [] k = "legacy" -> 3]
Before(p, q) == Rank[p.kind] < Rank[q.kind] \/ (Rank[p.kind] = Rank[q.kind] /\ p.page <= q.page)

\* find_dtb: the first self-reference whose table holds up and translates like
\* Windows.  One of the PAE kind names the table four pages below it.
find_dtb(image) ==
    LET good == {p \in image.pages : p.good}
        best == {p \in good : \A q \in good : Before(p, q)}
    IN {[base |-> IF p.kind = "PAE" THEN p.page - 4 ELSE p.page, class |-> Label(p.kind)] : p \in best}

\* paging_at: what a page that is already known to be the base refers to itself as.
paging_at(image, base) ==
    {[base |-> base, class |-> Label(p.kind)] : p \in {p \in image.pages : p.page = base}}

\* find_kernel: the first that any method finds.
find_kernel(image, base) ==
    IF base \in DOMAIN image.kernels /\ image.kernels[base] # <<>>
    THEN {Head(image.kernels[base])} ELSE {}

\* Mutant of KernelAtRecord: the places of the kernel and of its record change roles.
KernelAtRecordSwapped(image, base, facts) ==
    {k \in (IF base \in DOMAIN image.kernels
            THEN {image.kernels[base][i] : i \in DOMAIN image.kernels[base]} ELSE {}) :
        facts.kernel # 0 /\ facts.at # 0
        /\ k.at = facts.at /\ k.sig = facts.kernel /\ k.text = facts.text}

\* kernel_at_known_record, and the comparison of the name.
KernelAtRecord(image, base, facts) ==
    {k \in (IF base \in DOMAIN image.kernels
            THEN {image.kernels[base][i] : i \in DOMAIN image.kernels[base]} ELSE {}) :
        facts.kernel # 0 /\ facts.at # 0
        /\ k.at = facts.kernel /\ k.sig = facts.at /\ k.text = facts.text}

\* first_known_banner: the lowest banner whose symbols are installed.
first_known_banner(image, index) ==
    LET known == {b \in image.banners : b.text \in index} IN
      {b \in known : \A c \in known : b.at <= c.at}

\* The places that pass for the idle task of a kernel, in the order of the search.
TasksOf(image, text) == IF text \in DOMAIN image.tasks THEN image.tasks[text] ELSE <<>>

\* find_aslr_shift: the first; no idle task means no shift.
TaskOf(image, text) ==
    IF TasksOf(image, text) = <<>> THEN NoTask ELSE Head(TasksOf(image, text))

\* examine, asked about the place where the task was.
TaskAtRecord(image, text, facts) ==
    {t \in Range(TasksOf(image, text)) :
        /\ facts.os = "linux" /\ facts.task = t.at
        /\ facts.physical = t.physical /\ facts.virtual = t.virtual}

\* vmcoreinfo_layer_config, and the class taken without a usable note.
ClassOf(image, text) == IF text \in image.notes THEN "Intel32e" ELSE "LinuxIntel32e"

---------------------------------------------------------------------------
(* Linux.                                                                  *)

\* Nothing came of Linux: the first time Windows is tried, the last time nothing is.
NotLinux(r, now) ==
    run' = [run EXCEPT ![r] = IF now.first THEN [now EXCEPT !.pc = "base", !.first = FALSE]
                              ELSE [now EXCEPT !.pc = "done"]]

\* confirm_banner reads the text where it was found.
Confirmed(image, facts) ==
    {b \in image.banners : facts.os = "linux" /\ b.at = facts.at /\ b.text = facts.text}

LinuxBanner(r) ==
    /\ run[r].pc = "banner"
    /\ LET image == run[r].image
           facts == Remembered(image, "linux")
           seen == Confirmed(image.holds, facts)
           now == [run[r] EXCEPT !.facts = facts, !.index = installed,
                     !.searched = IF seen = {} /\ installed # {} THEN @ \cup {"banner"} ELSE @]
           banners == IF seen # {} THEN seen ELSE first_known_banner(image.holds, installed)
       IN \/ /\ installed = {} \/ banners = {}
             /\ NotLinux(r, now)
          \/ /\ installed # {}
             /\ \E b \in banners :
                  run' = [run EXCEPT ![r] = [now EXCEPT !.pc = "shift",
                            !.found = [at |-> b.at, sig |-> 0, text |-> b.text]]]
    /\ UNCHANGED <<file, installed, cache, started, changes>>

\* The shift is that of the task measured before, if it still gives the same.  Symbols
\* that do not load end the detection, an error; those without a page table make it
\* pass the banner over.
LinuxShift(r) ==
    /\ run[r].pc = "shift"
    /\ LET me == run[r]
           confirmed == TaskAtRecord(me.image.holds, me.found.text, me.facts)
           tasks == IF confirmed # {} THEN confirmed ELSE {TaskOf(me.image.holds, me.found.text)}
           searched == IF confirmed # {} THEN me.searched ELSE me.searched \cup {"task"}
       IN \/ /\ me.found.text \notin me.index \/ me.found.text \in Broken
             /\ NotLinux(r, me)
          \/ /\ me.found.text \in me.index \ Broken
             /\ \E t \in tasks :
                  LET now == [me EXCEPT !.shift = t, !.searched = searched] IN
                    IF me.found.text \in NoPageTable THEN NotLinux(r, now)
                    ELSE run' = [run EXCEPT ![r] = [now EXCEPT !.pc = "class"]]
    /\ UNCHANGED <<file, installed, cache, started, changes>>

\* The class of the layer: the one recorded for this banner is not checked again.
LinuxClass(r) ==
    /\ run[r].pc = "class"
    /\ LET me == run[r]
           recalled == me.facts.os = "linux" /\ me.facts.text = me.found.text /\ me.facts.class # ""
       IN run' = [run EXCEPT ![r] = [me EXCEPT !.pc = "note",
                    !.class = IF recalled THEN me.facts.class ELSE ClassOf(me.image.holds, me.found.text),
                    !.searched = IF recalled THEN @ ELSE @ \cup {"note"}]]
    /\ UNCHANGED <<file, installed, cache, started, changes>>

\* put: a run with nothing new to say is done; so is one that cannot open the cache or
\* write to it.
Put(r, already_known, line, result) ==
    \/ run' = [run EXCEPT ![r].pc = "done", ![r].result = result] /\ UNCHANGED cache
    \/ /\ ~already_known
       /\ cache' = Append(cache, Id(run[r].image.id))
       /\ run' = [run EXCEPT ![r].pc = "tab", ![r].line = line, ![r].result = result]

LinuxPut(r) ==
    /\ run[r].pc = "note"
    /\ LET me == run[r]
           already_known == /\ me.facts.os = "linux"
                            /\ me.facts.at = me.found.at /\ me.facts.task = me.shift.at
                            /\ me.facts.physical = me.shift.physical
                            /\ me.facts.virtual = me.shift.virtual
           line == [os |-> "linux", at |-> me.found.at, text |-> me.found.text,
                    task |-> me.shift.at, physical |-> me.shift.physical,
                    virtual |-> me.shift.virtual, kernel |-> 0, dtb |-> 0, class |-> me.class]
       IN Put(r, already_known, line,
              [os |-> "linux", base |-> me.found.at, class |-> me.class,
               symbols |-> me.found.text, shift |-> me.shift])
    /\ UNCHANGED <<file, installed, started, changes>>

\* The writes that follow the first.
Write(r, here, fragment, next) ==
    /\ run[r].pc = here
    /\ cache' = Append(cache, fragment)
    /\ run' = [run EXCEPT ![r].pc = next]
    /\ UNCHANGED <<file, installed, started, changes>>

WriteTab(r) == Write(r, "tab", Tab, "facts")
WriteFacts(r) == Write(r, "facts", Facts(run[r].line), "newline")
WriteNewline(r) == Write(r, "newline", Newline, "done")

\* A write fails, or the process dies: the rest of the line is never written.
WriteFails(r) ==
    /\ run[r].pc \in {"tab", "facts", "newline"}
    /\ run' = [run EXCEPT ![r].pc = "done"]
    /\ UNCHANGED <<file, installed, cache, started, changes>>

---------------------------------------------------------------------------
(* Windows.                                                                *)

\* The page tables: a base that is remembered has to refer to itself still.
WindowsBase(r) ==
    /\ run[r].pc = "base"
    /\ LET image == run[r].image
           facts == Remembered(image, "windows")
           declared == IF facts.dtb = 0 THEN {} ELSE paging_at(image.holds, facts.dtb)
           now == [run[r] EXCEPT !.facts = facts,
                     !.searched = IF declared = {} THEN @ \cup {"base"} ELSE @]
           found == IF declared # {} THEN declared ELSE find_dtb(image.holds)
       IN \/ /\ found = {}
             /\ run' = [run EXCEPT ![r] = [now EXCEPT !.pc = "banner"]]
          \/ \E f \in found :
               run' = [run EXCEPT ![r] = [now EXCEPT !.pc = "kernel", !.base = f.base, !.class = f.class]]
    /\ UNCHANGED <<file, installed, cache, started, changes>>

WindowsResult(me, symbols) ==
    [os |-> "windows", base |-> me.base, class |-> me.class, symbols |-> symbols, shift |-> NoTask]

WindowsKernel(r) ==
    /\ run[r].pc = "kernel"
    /\ LET me == run[r]
           recalled == KernelAtRecord(me.image.holds, me.base, me.facts)
           now == [me EXCEPT !.searched = IF recalled = {} THEN @ \cup {"kernel"} ELSE @]
           found == IF recalled # {} THEN recalled ELSE find_kernel(me.image.holds, me.base)
       IN \/ /\ found = {}
             /\ run' = [run EXCEPT ![r] = [now EXCEPT !.pc = "done", !.result = WindowsResult(me, "")]]
          \/ \E k \in found : run' = [run EXCEPT ![r] = [now EXCEPT !.pc = "symbols", !.found = k]]
    /\ UNCHANGED <<file, installed, cache, started, changes>>

\* finder.find, or build_symbols, which the symbol server may refuse.  Symbols that do
\* not load end the detection, and Linux is tried.
WindowsSymbols(r) ==
    /\ run[r].pc = "symbols"
    /\ LET me == run[r]
           next == IF me.found.text \in Broken THEN "banner" ELSE "record"
       IN \/ /\ installed' = installed \cup {me.found.text}
             /\ run' = [run EXCEPT ![r].pc = next]
          \/ /\ me.found.text \notin installed
             /\ run' = [run EXCEPT ![r].pc = "done", ![r].result = WindowsResult(me, "")]
             /\ UNCHANGED installed
    /\ UNCHANGED <<file, cache, started, changes>>

WindowsPut(r) ==
    /\ run[r].pc = "record"
    /\ LET me == run[r]
           already_known == /\ me.facts.os = "windows"
                            /\ me.facts.kernel = me.found.at /\ me.facts.at = me.found.sig
                            /\ me.facts.dtb = me.base /\ me.facts.text = me.found.text
           line == [NoFacts EXCEPT !.os = "windows", !.at = me.found.sig,
                      !.text = me.found.text, !.kernel = me.found.at, !.dtb = me.base]
       IN Put(r, already_known, line, WindowsResult(me, me.found.text))
    /\ UNCHANGED <<file, installed, started, changes>>

---------------------------------------------------------------------------

\* A process opens the image.  Linux goes first where it is remembered.  known
\* and index are what the run is judged by: the facts and the symbols it began with.
Open(r) ==
    /\ run[r].pc \in {"idle", "done"}
    /\ started < MaxRuns
    /\ started' = started + 1
    /\ LET known == Get(file.id) IN
         run' = [run EXCEPT ![r] = [Idle(file) EXCEPT !.known = known, !.index = installed,
                   !.first = known.os = "linux",
                   !.pc = IF known.os = "linux" THEN "banner" ELSE "base"]]
    /\ UNCHANGED <<file, installed, cache, changes>>

\* The next runs are over another capture, at this path or a different one, or the
\* symbols change.  Runs over different captures overlap only where Mixed says so.
Change ==
    /\ Mixed \/ \A r \in Runs : run[r].pc \in {"idle", "done"}
    /\ changes < MaxChanges
    /\ changes' = changes + 1
    /\ \/ file' \in Files \ {file} /\ UNCHANGED installed
       \/ \E t \in Movable :
            /\ installed' = IF t \in installed THEN installed \ {t} ELSE installed \cup {t}
            /\ UNCHANGED file
    /\ run' = [r \in Runs |-> IF run[r].pc \in {"idle", "done"} THEN Idle(file') ELSE run[r]]
    /\ UNCHANGED <<cache, started>>

Next ==
    \/ \E r \in Runs :
         \/ Open(r)
         \/ LinuxBanner(r) \/ LinuxShift(r) \/ LinuxClass(r) \/ LinuxPut(r)
         \/ WindowsBase(r) \/ WindowsKernel(r) \/ WindowsSymbols(r) \/ WindowsPut(r)
         \/ WriteTab(r) \/ WriteFacts(r) \/ WriteNewline(r) \/ WriteFails(r)
    \/ Change

Spec == Init /\ [][Next]_vars

---------------------------------------------------------------------------
(* What a run may conclude.                                                *)

\* What a run without a cache may conclude: the search order, the first banner that is
\* known and the first kernel that is found, and nothing else.
FreshLinux(image, index) ==
    LET usable == {b \in first_known_banner(image, index) : b.text \notin NoPageTable \cup Broken} IN
      IF usable = {} THEN {NoResult}
      ELSE {[os |-> "linux", base |-> b.at, class |-> ClassOf(image, b.text),
             symbols |-> b.text, shift |-> TaskOf(image, b.text)] : b \in usable}

FreshWindows(image, index, f) ==
    LET answer(symbols) == [os |-> "windows", base |-> f.base, class |-> f.class,
                            symbols |-> symbols, shift |-> NoTask]
        kernels == find_kernel(image, f.base)
    IN IF kernels = {} THEN {answer("")}
       ELSE UNION {(IF k.text \in Broken THEN FreshLinux(image, index) ELSE {answer(k.text)})
                   \cup (IF k.text \in index THEN {} ELSE {answer("")}) : k \in kernels}

Fresh(image, index) ==
    IF find_dtb(image) = {} THEN FreshLinux(image, index)
    ELSE UNION {FreshWindows(image, index, f) : f \in find_dtb(image)}

\* image_cache.rs:4: "The answers do not change while the file does not, so they
\* are written down and checked, not trusted, on the next run".  However runs
\* overlap, however their writes mix in the cache and wherever they are cut short, a
\* run concludes what it would have concluded with no cache at all.
RunIsFresh ==
    \A r \in Runs : run[r].pc = "done" => run[r].result \in Fresh(run[r].image.holds, run[r].index)

\* linux.rs:513: "if the text matches, the search would have found exactly this".
BannerIsTheSearched ==
    \A r \in Runs : run[r].pc \in {"shift", "class", "note"} =>
        [at |-> run[r].found.at, text |-> run[r].found.text]
            \in first_known_banner(run[r].image.holds, run[r].index)

\* mod.rs:72: what a previous run learned "saves searching the whole image again
\* for answers that cannot have changed".  A run over a file that was identified
\* before searches for nothing.
NothingIsSearchedAgain ==
    \A r \in Runs : run[r].pc = "done" /\ run[r].known.os = run[r].result.os
                    /\ run[r].result.symbols # "" => run[r].searched = {}

\* What cannot be confirmed: the base of PAE is not a page that refers to itself, and
\* an idle task that was not found has no place.
Unconfirmable(answer) ==
    IF answer.class = "PAE" THEN {"base"}
    ELSE IF answer.os = "linux" /\ answer.shift = NoTask THEN {"task"}
    ELSE {}

\* The same of a run that read a line nobody had written into: it searches for nothing
\* that could have been confirmed.
KnownIsNotSearched ==
    \A r \in Runs : LET me == run[r] IN
        /\ me.pc = "done" /\ me.result.symbols # ""
        /\ me.known.os = me.result.os
        /\ me.facts.os = me.result.os /\ me.facts.text # Garbled
        => me.searched \subseteq Unconfirmable(me.result)

---------------------------------------------------------------------------
(* What the proofs suppose of the captures.                                *)

\* An image that leaves no doubt: a page refers to itself in one way and is not page 0,
\* none refers to itself at the base of PAE tables, one banner is at one place, and
\* what is found is found at a place that is not 0.
Unambiguous(image) ==
    /\ \A p \in image.pages : p.page \in Nat \ {0} /\ p.kind \in DOMAIN Rank
    /\ \A p, q \in image.pages : /\ p.page = q.page => p.kind = q.kind
                                 /\ p.kind = "PAE" => q.page # p.page - 4
    /\ \A base \in DOMAIN image.kernels : LET ks == image.kernels[base] IN
         /\ ks \in Seq({ks[i] : i \in DOMAIN ks})
         /\ \A i \in DOMAIN ks : ks[i].at # 0 /\ ks[i].sig # 0
    /\ \A b \in image.banners : b.at \in Nat
    /\ \A b, c \in image.banners : b.at = c.at => b = c
    /\ \A text \in DOMAIN image.tasks : LET ts == image.tasks[text] IN
         /\ ts \in Seq({ts[i] : i \in DOMAIN ts})
         /\ \A i \in DOMAIN ts :
              /\ ts[i] = [at |-> ts[i].at, physical |-> ts[i].physical, virtual |-> ts[i].virtual]
              /\ ts[i].at # 0
              /\ \A j \in DOMAIN ts : ts[i].at = ts[j].at => i = j

\* No two captures have the same path, length and time, no Windows kernel names its
\* symbols by a Linux banner, and neither is a text in which writes run together.
ToldApart(files) ==
    /\ \A f, g \in files : f.id = g.id => f = g
    /\ \A f, g \in files : \A base \in DOMAIN f.holds.kernels, b \in g.holds.banners :
         \A i \in DOMAIN f.holds.kernels[base] : f.holds.kernels[base][i].text # b.text
    /\ \A f \in files : /\ \A b \in f.holds.banners : b.text # Garbled
                        /\ \A base \in DOMAIN f.holds.kernels :
                             \A i \in DOMAIN f.holds.kernels[base] :
                               f.holds.kernels[base][i].text # Garbled

=============================================================================
