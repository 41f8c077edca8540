---------------------------- MODULE Detect_proofs ----------------------------
(***************************************************************************)
(* Proofs about working out what an image is.  For any captures that leave *)
(* no doubt and have identities of their own, looked at one after another  *)
(* by any number of processes, with symbols that nobody removes: what can  *)
(* be read in the cache about a capture is what would be found in it, how- *)
(* ever the writes of the runs mix and wherever they stop.  So a run con-  *)
(* cludes the same with the cache as without, and one that read a whole    *)
(* line about its capture searches for nothing that could be confirmed.    *)
(***************************************************************************)
EXTENDS Detect, SequenceTheorems, FiniteSetTheorems, WellFoundedInduction, TLAPS

\* What the theorems suppose: Detect.tla has the reasons.
World == /\ Movable = {} /\ ~Mixed
         /\ ToldApart(Files) /\ \A f \in Files : Unambiguous(f.holds)

-----------------------------------------------------------------------------
(* What was written down about an image.                                   *)

\* A set of numbers up to n that is not empty has a greatest.
LEMMA GreatestExists ==
    ASSUME NEW n \in Nat, NEW S \in SUBSET (1..n), S # {}
    PROVE  Max(S) \in S
<1> DEFINE Less == {ss \in Nat \X Nat : ss[1] < ss[2]}
           above == {m \in Nat : \A x \in S : x <= m}
<1>1. IsWellFoundedOn(Less, Nat)
  BY NatLessThanWellFounded DEF OpToRel
<1>2. n \in above /\ above \in SUBSET Nat
  OBVIOUS
<1>3. PICK m \in above : \A k \in above : ~ (<<k, m>> \in Less)
  <2> HIDE DEF Less, above
  <2> QED BY <1>1, <1>2, WFMin
<1>4. m \in Nat /\ \A x \in S : x \in 1..n /\ x <= m
  OBVIOUS
<1>5. m \in S
  <2>1. SUFFICES ASSUME m \notin S PROVE FALSE
    OBVIOUS
  <2>2. m - 1 \in Nat /\ \A x \in S : x <= m - 1
    <3>1. PICK x \in S : TRUE
      OBVIOUS
    <3>2. x <= m /\ x \in 1..n
      BY <1>4
    <3>3. m - 1 \in Nat
      BY <1>4, <3>2
    <3> QED BY <1>4, <2>1, <3>3
  <2>3. <<m - 1, m>> \in Less
    BY <1>4, <2>2
  <2>4. m - 1 \in above
    BY <2>2
  <2> HIDE DEF Less, above
  <2> QED BY <1>3, <2>3, <2>4
<1>6. \E x \in S : \A y \in S : x >= y
  BY <1>4, <1>5
<1> QED BY <1>6 DEF Max

IsCache(cs) == \E S : cs \in Seq(S)

\* What an append leaves.
LEMMA Appended ==
    ASSUME NEW cs, IsCache(cs), NEW x
    PROVE  /\ IsCache(Append(cs, x)) /\ Len(cs) \in Nat
           /\ Len(Append(cs, x)) = Len(cs) + 1
           /\ Append(cs, x)[Len(cs) + 1] = x
           /\ \A i \in 1..Len(cs) : Append(cs, x)[i] = cs[i]
<1>1. PICK S : cs \in Seq(S)
  BY DEF IsCache
<1>2. cs \in Seq(S \cup {x})
  BY <1>1, SeqMonotonic
<1>3. Append(cs, x) \in Seq(S \cup {x})
  BY <1>2
<1> QED BY <1>2, <1>3 DEF IsCache

\* What is remembered of an image is what some facts of the cache are read as.
LEMMA GetCases ==
    ASSUME NEW id, IsCache(cache)
    PROVE  Get(id) = NoFacts \/ \E p \in 1..Len(cache) : Says(id, p) /\ Get(id) = Read(p)
<1> DEFINE said == {p \in 1..Len(cache) : Says(id, p)}
<1>1. Len(cache) \in Nat
  BY DEF IsCache
<1>2. Get(id) = IF said = {} THEN NoFacts ELSE Read(Max(said))
  BY DEF Get
<1>3. said \in SUBSET (1..Len(cache))
  OBVIOUS
<1>4. said # {} => Max(said) \in said
  <2> HIDE DEF said
  <2> QED BY <1>1, <1>3, GreatestExists
<1>5. \A p \in said : p \in 1..Len(cache) /\ Says(id, p)
  OBVIOUS
<1> HIDE DEF said
<1> QED BY <1>2, <1>4, <1>5

-----------------------------------------------------------------------------
(* What an image answers.                                                  *)

\* There is at most one answer to the search for page tables.
LEMMA TablesAreOne ==
    ASSUME NEW image, Unambiguous(image), NEW f \in find_dtb(image), NEW g \in find_dtb(image)
    PROVE  f = g
<1> DEFINE good == {p \in image.pages : p.good}
           best == {p \in good : \A q \in good : Before(p, q)}
<1>1. PICK p \in best : f = [base |-> IF p.kind = "PAE" THEN p.page - 4 ELSE p.page, class |-> Label(p.kind)]
  BY DEF find_dtb
<1>2. PICK q \in best : g = [base |-> IF q.kind = "PAE" THEN q.page - 4 ELSE q.page, class |-> Label(q.kind)]
  BY DEF find_dtb
<1>3. Before(p, q) /\ Before(q, p)
  OBVIOUS
<1>4. p.page \in Nat /\ q.page \in Nat /\ p.kind \in DOMAIN Rank /\ q.kind \in DOMAIN Rank
  BY DEF Unambiguous
<1>5. /\ DOMAIN Rank = {"64", "PAE", "32", "legacy"}
      /\ Rank["64"] = 0 /\ Rank["PAE"] = 1 /\ Rank["32"] = 2 /\ Rank["legacy"] = 3
  BY DEF Rank
<1>6. p.kind = q.kind /\ p.page = q.page
  BY <1>3, <1>4, <1>5 DEF Before
<1> QED BY <1>1, <1>2, <1>6

\* A base that refers to itself is what the search finds, if its page is what it found.
LEMMA PagingIsFound ==
    ASSUME NEW image, Unambiguous(image), NEW f \in find_dtb(image)
    PROVE  /\ paging_at(image, f.base) \subseteq {f}
           /\ f.class # "PAE" => paging_at(image, f.base) # {} /\ f.base # 0
<1>1. PICK p \in image.pages :
        f = [base |-> IF p.kind = "PAE" THEN p.page - 4 ELSE p.page, class |-> Label(p.kind)]
  BY DEF find_dtb
<1>2. ASSUME NEW q \in image.pages, q.page = f.base
      PROVE  f = [base |-> f.base, class |-> Label(q.kind)]
  <2>1. p.kind # "PAE"
    BY <1>1, <1>2 DEF Unambiguous
  <2>2. p.page = q.page
    BY <1>1, <1>2, <2>1
  <2> QED BY <1>1, <1>2, <2>1, <2>2 DEF Unambiguous
<1>3. paging_at(image, f.base) \subseteq {f}
  BY <1>2 DEF paging_at
<1>4. ASSUME f.class # "PAE" PROVE paging_at(image, f.base) # {} /\ f.base # 0
  <2>1. p.kind # "PAE"
    BY <1>1, <1>4 DEF Label
  <2>2. p.page = f.base /\ p.page # 0
    BY <1>1, <2>1 DEF Unambiguous
  <2> QED BY <2>2 DEF paging_at
<1> QED BY <1>3, <1>4

\* Nor is there more than one banner that may be the lowest.
LEMMA BannerIsOne ==
    ASSUME NEW image, Unambiguous(image), NEW index,
           NEW b \in first_known_banner(image, index), NEW c \in first_known_banner(image, index)
    PROVE  b = c
<1>1. b \in image.banners /\ c \in image.banners /\ b.at <= c.at /\ c.at <= b.at
  BY DEF first_known_banner
<1>2. b.at \in Nat /\ c.at \in Nat
  BY <1>1 DEF Unambiguous
<1>3. b.at = c.at
  BY <1>1, <1>2
<1> QED BY <1>1, <1>3 DEF Unambiguous

\* The kernel that is found is one of those the space shows.
LEMMA KernelIsShown ==
    ASSUME NEW image, Unambiguous(image), NEW base, NEW k \in find_kernel(image, base)
    PROVE  /\ base \in DOMAIN image.kernels
           /\ \E i \in DOMAIN image.kernels[base] : k = image.kernels[base][i]
           /\ k.at # 0 /\ k.sig # 0
<1> DEFINE ks == image.kernels[base]
<1>1. base \in DOMAIN image.kernels /\ ks # <<>> /\ k = Head(ks)
  BY DEF find_kernel
<1>2. ks \in Seq({ks[i] : i \in DOMAIN ks}) /\ \A i \in DOMAIN ks : ks[i].at # 0 /\ ks[i].sig # 0
  BY <1>1 DEF Unambiguous
<1>3. 1 \in DOMAIN ks /\ k = ks[1]
  <2> DEFINE S == {ks[i] : i \in DOMAIN ks}
  <2>1. ks \in Seq(S)
    BY <1>2
  <2> HIDE DEF ks, S
  <2> QED BY <1>1, <2>1
<1> QED BY <1>1, <1>2, <1>3

\* And that one alone.
LEMMA KernelIsOne ==
    ASSUME NEW image, NEW base, NEW k \in find_kernel(image, base), NEW j \in find_kernel(image, base)
    PROVE  k = j
  BY DEF find_kernel

\* The places of the tasks tell them apart.
LEMMA TaskIsOne ==
    ASSUME NEW image, Unambiguous(image), NEW text, NEW facts, facts.os = "linux",
           TaskOf(image, text) = [at |-> facts.task, physical |-> facts.physical,
                                  virtual |-> facts.virtual]
    PROVE  TaskAtRecord(image, text, facts)
             = IF TaskOf(image, text) = NoTask THEN {} ELSE {TaskOf(image, text)}
<1> DEFINE ts == TasksOf(image, text)
           head == TaskOf(image, text)
           S == {ts[i] : i \in DOMAIN ts}
<1>1. CASE text \notin DOMAIN image.tasks
  <2>1. ts = <<>>
    BY <1>1 DEF TasksOf
  <2>2. Range(ts) = {} /\ head = NoTask
    BY <2>1 DEF Range, TaskOf
  <2> QED BY <2>2 DEF TaskAtRecord
<1>2. CASE text \in DOMAIN image.tasks
  <2>1. ts = image.tasks[text]
    BY <1>2 DEF TasksOf
  <2>2. /\ ts \in Seq(S)
        /\ \A i \in DOMAIN ts :
              /\ ts[i] = [at |-> ts[i].at, physical |-> ts[i].physical, virtual |-> ts[i].virtual]
              /\ ts[i].at # 0
              /\ \A j \in DOMAIN ts : ts[i].at = ts[j].at => i = j
    BY <1>2, <2>1 DEF Unambiguous
  <2> HIDE DEF ts, S
  <2>3. CASE ts = <<>>
    <3>1. Range(ts) = {} /\ head = NoTask
      BY <2>3 DEF Range, TaskOf, ts
    <3> QED BY <3>1 DEF TaskAtRecord, ts
  <2>4. CASE ts # <<>>
    <3>1. 1 \in DOMAIN ts /\ Head(ts) = ts[1]
      BY <2>2, <2>4
    <3>2. head = ts[1]
      BY <2>4, <3>1 DEF TaskOf, ts
    <3>3. ts[1].at # 0 /\ NoTask.at = 0
      BY <2>2, <3>1 DEF NoTask
    <3>4. head # NoTask
      BY <3>2, <3>3
    <3>5. head.at = facts.task /\ head.physical = facts.physical /\ head.virtual = facts.virtual
      OBVIOUS
    <3>6. TaskAtRecord(image, text, facts)
            = {t \in Range(ts) : /\ facts.task = t.at
                                 /\ facts.physical = t.physical /\ facts.virtual = t.virtual}
      BY DEF TaskAtRecord, ts
    <3> HIDE DEF head
    <3>7. head \in TaskAtRecord(image, text, facts)
      BY <3>1, <3>2, <3>5, <3>6 DEF Range
    <3>8. ASSUME NEW t \in TaskAtRecord(image, text, facts) PROVE t = head
      <4>1. PICK i \in DOMAIN ts : t = ts[i]
        BY <3>6 DEF Range
      <4>2. t.at = facts.task
        BY <3>6
      <4> QED BY <2>2, <3>1, <3>2, <3>5, <4>1, <4>2
    <3> QED BY <3>4, <3>7, <3>8 DEF head
  <2> QED BY <2>3, <2>4
<1> QED BY <1>1, <1>2

-----------------------------------------------------------------------------
(* The inductive invariant.                                                *)

\* Windows comes to nothing: no tables, or a kernel whose symbols do not load.
NotWindows(image) ==
    \A f \in find_dtb(image) : \E k \in find_kernel(image, f.base) : k.text \in Broken

\* Facts of an image of Windows, with text as their last field: tables, a kernel in
\* their space.
WindowsHolds(image, x, text) ==
    /\ \E f \in find_dtb(image) : f.base = x.dtb
    /\ \E k \in find_kernel(image, x.dtb) :
         k.at = x.kernel /\ k.sig = x.at /\ k.text = text /\ text \notin Broken

\* And of Linux: the lowest banner with symbols, and what the image has for its kernel.
LinuxHolds(image, x, text, index) ==
    /\ NotWindows(image)
    /\ \E b \in first_known_banner(image, index) : b.at = x.at /\ b.text = text
    /\ text \notin NoPageTable \cup Broken
    /\ x.class = ClassOf(image, text)
    /\ TaskOf(image, text) = [at |-> x.task, physical |-> x.physical, virtual |-> x.virtual]

\* Facts as they are written down, and as they are read: what follows may have run into
\* the last field.
Written(image, x, index) ==
    /\ DOMAIN x = DOMAIN NoFacts
    /\ \/ x.os = "windows" /\ WindowsHolds(image, x, x.text)
       \/ x.os = "linux" /\ LinuxHolds(image, x, x.text, index)
WindowsRead(image, x) ==
    x.os = "windows" /\ \E text : x.text \in {text, Garbled} /\ WindowsHolds(image, x, text)
LinuxRead(image, x, index) ==
    x.os = "linux" /\ \E text : x.text \in {text, Garbled} /\ LinuxHolds(image, x, text, index)

\* They are true of every capture with that identity.
TrueOf(id, x, index) == \A f \in Files : f.id = id => Written(f.holds, x, index)

\* From u on the identities in the cache are this one.
Since(cs, u, id) ==
    u \in 1..Len(cs) /\ \A q \in u..Len(cs) : cs[q].kind = "id" => cs[q].val = id

\* Facts are true of whatever identity stands between them and the beginning of the
\* write that they are part of, which is before the last tab.
FactsAreTrue(cs, p, index) ==
    \E u, t \in 1..Len(cs) :
      /\ u < t /\ t < p /\ cs[t].kind = "tab"
      /\ \A q \in u..p : cs[q].kind = "id" => TrueOf(cs[q].val, cs[p].val, index)

CacheIsTrue(cs, index) ==
    \A p \in 1..Len(cs) : cs[p].kind = "facts" =>
      DOMAIN cs[p].val = DOMAIN NoFacts /\ FactsAreTrue(cs, p, index)

\* A run that writes has written its identity, and the tab, and nobody another one since.
Writes(m, cs, id) ==
    /\ m.pc = "tab" => \E u \in 1..Len(cs) : Since(cs, u, id)
    /\ m.pc = "facts" =>
         \E u, t \in 1..Len(cs) : Since(cs, u, id) /\ u < t /\ cs[t].kind = "tab"

\* What a search for Linux ends with.
Usable(image, index) ==
    {b \in first_known_banner(image, index) : b.text \notin NoPageTable \cup Broken}

Ended == {"tab", "facts", "newline", "done"}

\* A run that has no result yet: here are the symbols installed by now.
Begun(m, image, here) ==
    m.pc \notin {"idle"} \cup Ended =>
      /\ m.index \subseteq here
      /\ m.result = NoResult
      /\ m.known.os = "windows" => ~NotWindows(image)
      /\ m.known.os = "linux" => NotWindows(image) /\ Usable(image, here) # {}
      /\ m.first \in BOOLEAN /\ (m.first => m.known.os = "linux")
      /\ m.pc = "base" => m.searched = {}
      /\ m.pc \in {"base", "kernel", "symbols", "record"} => m.known.os # "linux"

Whole(x, os) == x.os = os /\ x.text # Garbled

\* It has page tables, the ones the search finds; and a kernel, the one it finds.
HasTables(m, image) ==
    m.pc \in {"kernel", "symbols", "record"} =>
      /\ [base |-> m.base, class |-> m.class] \in find_dtb(image)
      /\ m.facts = NoFacts \/ WindowsRead(image, m.facts)
      /\ Whole(m.facts, "windows") => m.searched \subseteq (IF m.class = "PAE" THEN {"base"} ELSE {})

SameKernel(m, image) ==
    \E k \in find_kernel(image, m.base) :
        k.at = m.found.at /\ k.sig = m.found.sig /\ k.text = m.found.text

HasKernel(m, image) ==
    /\ m.pc \in {"symbols", "record"} => SameKernel(m, image)
    /\ m.pc = "record" => m.found.text \notin Broken

\* Windows came to nothing; and it has a banner, the one the search finds.
HasNoTables(m, image) ==
    m.pc \in {"banner", "shift", "class", "note"} =>
      /\ NotWindows(image)
      /\ m.pc = "banner" /\ m.known.os = "linux" => m.searched = {}

SameBanner(m, image) ==
    \E b \in first_known_banner(image, m.index) : b.at = m.found.at /\ b.text = m.found.text

HasBanner(m, image, here) ==
    m.pc \in {"shift", "class", "note"} =>
      /\ first_known_banner(image, m.index) = first_known_banner(image, here)
      /\ SameBanner(m, image)
      /\ m.facts.os = "linux" => LinuxRead(image, m.facts, here)
      /\ Whole(m.facts, "linux") => m.facts.text = m.found.text
      /\ m.pc = "shift" /\ m.known.os = "linux" /\ Whole(m.facts, "linux") => m.searched = {}

\* It has the shift and the class that the image has for that banner.
HasShift(m, image) ==
    /\ m.pc \in {"class", "note"} =>
         /\ m.found.text \notin NoPageTable \cup Broken
         /\ m.shift = TaskOf(image, m.found.text)
         /\ m.known.os = "linux" /\ Whole(m.facts, "linux") =>
              m.searched \subseteq (IF m.shift = NoTask THEN {"task"} ELSE {})
    /\ m.pc = "note" => m.class = ClassOf(image, m.found.text)

\* It has a result: what RunIsFresh and KnownIsNotSearched say of one run.
NotSearched(m) ==
    /\ m.result.symbols # "" /\ m.known.os = m.result.os /\ Whole(m.facts, m.result.os)
    => m.searched \subseteq Unconfirmable(m.result)

Concluded(m, image) ==
    m.pc \in Ended => m.result \in Fresh(image, m.index) /\ NotSearched(m)

RunTrue(m, image, here) ==
    /\ Begun(m, image, here)
    /\ HasTables(m, image) /\ HasKernel(m, image)
    /\ HasNoTables(m, image) /\ HasBanner(m, image, here) /\ HasShift(m, image)
    /\ Concluded(m, image)
    /\ m.pc \in {"tab", "facts"} => Written(image, m.line, here)

IsRun(m) == DOMAIN m = {"pc", "image", "facts", "known", "first", "index", "base", "class",
                        "found", "shift", "searched", "line", "result"}

IInv ==
    /\ file \in Files
    /\ IsCache(cache) /\ CacheIsTrue(cache, installed)
    /\ DOMAIN run = Runs
    /\ \A r \in Runs : /\ IsRun(run[r]) /\ run[r].image = file
                       /\ RunTrue(run[r], file.holds, installed)
                       /\ Writes(run[r], cache, file.id)

-----------------------------------------------------------------------------
(* What a step needs.                                                      *)

\* Windows came to nothing, or it did not.
LEMMA WindowsIsNot ==
    ASSUME NEW image, Unambiguous(image), NEW x, NEW text, WindowsHolds(image, x, text)
    PROVE  ~NotWindows(image)
<1>1. PICK f \in find_dtb(image) : f.base = x.dtb
  BY DEF WindowsHolds
<1>2. PICK k \in find_kernel(image, x.dtb) : k.text = text /\ text \notin Broken
  BY DEF WindowsHolds
<1>3. \A j \in find_kernel(image, f.base) : j.text \notin Broken
  BY <1>1, <1>2, KernelIsOne
<1> QED BY <1>3 DEF NotWindows

\* Facts that are read as those of an image were written for it.
LEMMA SaidIsTrue ==
    ASSUME NEW id, NEW p \in 1..Len(cache), IsCache(cache), CacheIsTrue(cache, installed), Says(id, p)
    PROVE  TrueOf(id, cache[p].val, installed) /\ DOMAIN cache[p].val = DOMAIN NoFacts
<1>1. Len(cache) \in Nat
  BY DEF IsCache
<1>2. PICK i \in 1..(p - 2) :
         /\ cache[i].kind = "id" /\ cache[i].val = id
         /\ cache[i + 1].kind = "tab"
         /\ \A j \in (i + 2)..(p - 1) : cache[j].kind = "id"
  BY DEF Says
<1>3. cache[p].kind = "facts"
  BY DEF Says
<1>4. PICK u, t \in 1..Len(cache) :
      /\ u < t /\ t < p /\ cache[t].kind = "tab"
      /\ \A q \in u..p : cache[q].kind = "id" => TrueOf(cache[q].val, cache[p].val, installed)
  BY <1>3 DEF CacheIsTrue, FactsAreTrue
<1>5. t \notin (i + 2)..(p - 1)
  BY <1>2, <1>4
<1>6. i \in u..p
  BY <1>1, <1>4, <1>5
<1> QED BY <1>2, <1>3, <1>4, <1>6 DEF CacheIsTrue

\* What is read of them keeps all but the ends.
LEMMA ReadIsTrue ==
    ASSUME NEW p, NEW image, DOMAIN cache[p].val = DOMAIN NoFacts,
           Written(image, cache[p].val, installed)
    PROVE  \/ Read(p).os = Garbled
           \/ WindowsRead(image, Read(p)) \/ LinuxRead(image, Read(p), installed)
<1> DEFINE x == cache[p].val
           y == Read(p)
<1>1. DOMAIN x = {"os", "at", "text", "task", "physical", "virtual", "kernel", "dtb", "class"}
  BY DEF NoFacts
<1>2. /\ y.os \in {x.os, Garbled} /\ y.text \in {x.text, Garbled}
      /\ y.at = x.at /\ y.task = x.task /\ y.physical = x.physical /\ y.virtual = x.virtual
      /\ y.kernel = x.kernel /\ y.dtb = x.dtb /\ y.class = x.class
  BY <1>1 DEF Read
<1> HIDE DEF x, y
<1>3. \A text : /\ WindowsHolds(image, x, text) => WindowsHolds(image, y, text)
                /\ LinuxHolds(image, x, text, installed) => LinuxHolds(image, y, text, installed)
  BY <1>2 DEF WindowsHolds, LinuxHolds
<1>4. \/ x.os = "windows" /\ WindowsHolds(image, y, x.text)
      \/ x.os = "linux" /\ LinuxHolds(image, y, x.text, installed)
  BY <1>3 DEF Written, x
<1>5. \/ y.os = Garbled
      \/ WindowsRead(image, y) \/ LinuxRead(image, y, installed)
  BY <1>2, <1>4 DEF WindowsRead, LinuxRead
<1> QED BY <1>5 DEF y

\* What is remembered of the image at the path is true of it.
LEMMA RememberedIsTrue ==
    ASSUME World, IInv
    PROVE  /\ Get(file.id).os = "windows" => WindowsRead(file.holds, Get(file.id))
           /\ Get(file.id).os = "linux" => LinuxRead(file.holds, Get(file.id), installed)
           /\ Remembered(file, "windows") = NoFacts \/ WindowsRead(file.holds, Remembered(file, "windows"))
           /\ Remembered(file, "linux") = NoFacts
              \/ LinuxRead(file.holds, Remembered(file, "linux"), installed)
<1> DEFINE x == Get(file.id)
<1>1. \/ x.os \in {"none", Garbled}
      \/ WindowsRead(file.holds, x) \/ LinuxRead(file.holds, x, installed)
  <2>1. CASE x = NoFacts
    <3>1. NoFacts.os = "none"
      BY DEF NoFacts
    <3> HIDE DEF x
    <3> QED BY <2>1, <3>1
  <2>2. CASE \E p \in 1..Len(cache) : Says(file.id, p) /\ x = Read(p)
    <3>1. PICK p \in 1..Len(cache) : Says(file.id, p) /\ x = Read(p)
      BY <2>2
    <3>2. TrueOf(file.id, cache[p].val, installed) /\ DOMAIN cache[p].val = DOMAIN NoFacts
      BY <3>1, SaidIsTrue DEF IInv
    <3>3. Written(file.holds, cache[p].val, installed)
      BY <3>2 DEF TrueOf, IInv
    <3> HIDE DEF x
    <3> QED BY <3>1, <3>2, <3>3, ReadIsTrue
  <2> HIDE DEF x
  <2>3. IsCache(cache)
    BY DEF IInv
  <2> QED BY <2>1, <2>2, <2>3, GetCases DEF x
<1>2. /\ WindowsRead(file.holds, x) => x.os = "windows"
      /\ LinuxRead(file.holds, x, installed) => x.os = "linux"
  BY DEF WindowsRead, LinuxRead
<1>3. /\ Remembered(file, "windows") = IF x.os = "windows" THEN x ELSE NoFacts
      /\ Remembered(file, "linux") = IF x.os = "linux" THEN x ELSE NoFacts
  BY DEF Remembered
<1>4. Garbled # "windows" /\ Garbled # "linux"
  BY DEF Garbled
<1> HIDE DEF x
<1>5. /\ x.os = "windows" => WindowsRead(file.holds, x)
      /\ x.os = "linux" => LinuxRead(file.holds, x, installed)
  BY <1>1, <1>2, <1>4
<1> QED BY <1>3, <1>5 DEF x

\* More symbols that no banner names do not disturb a run, nor what is written.
LEMMA RunStaysTrue ==
    ASSUME NEW m, NEW image, NEW here, NEW now, here \subseteq now,
           first_known_banner(image, now) = first_known_banner(image, here),
           RunTrue(m, image, here)
    PROVE  RunTrue(m, image, now)
<1>1. Begun(m, image, now)
  BY DEF RunTrue, Begun, Usable
<1>2. HasBanner(m, image, now)
  BY DEF RunTrue, HasBanner, LinuxRead, LinuxHolds
<1>3. m.pc \in {"tab", "facts"} => Written(image, m.line, now)
  BY DEF RunTrue, Written, LinuxHolds
<1> QED BY <1>1, <1>2, <1>3 DEF RunTrue

SameBanners(now, here) ==
    \A f \in Files : first_known_banner(f.holds, now) = first_known_banner(f.holds, here)

LEMMA TrueStaysTrue ==
    ASSUME NEW id, NEW x, NEW here, NEW now, SameBanners(now, here), TrueOf(id, x, here)
    PROVE  TrueOf(id, x, now)
  BY DEF TrueOf, Written, LinuxHolds, SameBanners

\* What may be appended: an identity, if it is this one; facts, if they are true of it
\* and the write began before the last tab.
Fits(cs, x, id, index) ==
    /\ x.kind = "id" => x.val = id
    /\ x.kind = "facts" =>
         /\ DOMAIN x.val = DOMAIN NoFacts /\ TrueOf(id, x.val, index)
         /\ \E u, t \in 1..Len(cs) : Since(cs, u, id) /\ u < t /\ cs[t].kind = "tab"

\* A write leaves what was written since, and what was true.
LEMMA SinceStays ==
    ASSUME NEW cs, IsCache(cs), NEW x, NEW id, x.kind = "id" => x.val = id,
           NEW u \in 1..Len(cs), Since(cs, u, id)
    PROVE  Since(Append(cs, x), u, id)
<1>1. /\ Len(cs) \in Nat /\ Len(Append(cs, x)) = Len(cs) + 1
      /\ Append(cs, x)[Len(cs) + 1] = x
      /\ \A i \in 1..Len(cs) : Append(cs, x)[i] = cs[i]
  BY Appended
<1>2. u \in 1..Len(Append(cs, x))
  BY <1>1
<1>3. ASSUME NEW q \in u..Len(Append(cs, x)), Append(cs, x)[q].kind = "id"
      PROVE  Append(cs, x)[q].val = id
  <2>1. CASE q = Len(cs) + 1
    BY <1>1, <1>3, <2>1
  <2>2. CASE q # Len(cs) + 1
    <3>1. q \in u..Len(cs) /\ q \in 1..Len(cs)
      BY <1>1, <2>2
    <3> QED BY <1>1, <1>3, <3>1 DEF Since
  <2> QED BY <2>1, <2>2
<1> QED BY <1>2, <1>3 DEF Since

LEMMA WritesStay ==
    ASSUME NEW m, NEW cs, IsCache(cs), NEW x, NEW id, x.kind = "id" => x.val = id,
           Writes(m, cs, id)
    PROVE  Writes(m, Append(cs, x), id)
<1>1. /\ Len(cs) \in Nat /\ Len(Append(cs, x)) = Len(cs) + 1
      /\ \A i \in 1..Len(cs) : Append(cs, x)[i] = cs[i]
  BY Appended
<1>2. \A i \in 1..Len(cs) : i \in 1..Len(Append(cs, x))
  BY <1>1
<1>3. \A u \in 1..Len(cs) : Since(cs, u, id) => Since(Append(cs, x), u, id)
  BY SinceStays
<1> QED BY <1>1, <1>2, <1>3 DEF Writes

LEMMA CacheStaysTrue ==
    ASSUME NEW cs, IsCache(cs), NEW here, NEW now, SameBanners(now, here), CacheIsTrue(cs, here)
    PROVE  CacheIsTrue(cs, now)
  BY TrueStaysTrue DEF CacheIsTrue, FactsAreTrue

LEMMA AppendIsTrue ==
    ASSUME NEW cs, IsCache(cs), NEW x, NEW id, NEW index,
           CacheIsTrue(cs, index), Fits(cs, x, id, index)
    PROVE  CacheIsTrue(Append(cs, x), index)
<1> DEFINE ds == Append(cs, x)
           n == Len(cs) + 1
<1>1. /\ Len(cs) \in Nat /\ Len(ds) = n /\ ds[n] = x
      /\ \A i \in 1..Len(cs) : ds[i] = cs[i]
  BY Appended
<1> HIDE DEF ds
<1>2. ASSUME NEW p \in 1..n, ds[p].kind = "facts"
      PROVE  DOMAIN ds[p].val = DOMAIN NoFacts /\ FactsAreTrue(ds, p, index)
  <2>1. CASE p = n
    <3>1. x.kind = "facts"
      BY <1>1, <1>2, <2>1
    <3>2. PICK u, t \in 1..Len(cs) : Since(cs, u, id) /\ u < t /\ cs[t].kind = "tab"
      BY <3>1 DEF Fits
    <3>3. u \in 1..Len(ds) /\ t \in 1..Len(ds) /\ t < p /\ ds[t].kind = "tab"
      BY <1>1, <2>1, <3>2
    <3>4. TrueOf(id, ds[p].val, index) /\ DOMAIN ds[p].val = DOMAIN NoFacts
      BY <1>1, <2>1, <3>1 DEF Fits
    <3>5. ASSUME NEW q \in u..p, ds[q].kind = "id" PROVE TrueOf(ds[q].val, ds[p].val, index)
      <4>1. q # n
        BY <1>1, <3>1, <3>5
      <4>2. q \in u..Len(cs) /\ q \in 1..Len(cs)
        BY <1>1, <2>1, <4>1
      <4>3. cs[q].kind = "id" /\ ds[q].val = cs[q].val
        BY <1>1, <3>5, <4>2
      <4>4. ds[q].val = id
        BY <3>2, <4>2, <4>3 DEF Since
      <4> QED BY <3>4, <4>4
    <3> QED BY <3>2, <3>3, <3>4, <3>5 DEF FactsAreTrue
  <2>2. CASE p # n
    <3>1. p \in 1..Len(cs) /\ ds[p] = cs[p]
      BY <1>1, <2>2
    <3>2. DOMAIN cs[p].val = DOMAIN NoFacts /\ FactsAreTrue(cs, p, index)
      BY <1>2, <3>1 DEF CacheIsTrue
    <3>3. PICK u, t \in 1..Len(cs) :
            /\ u < t /\ t < p /\ cs[t].kind = "tab"
            /\ \A q \in u..p : cs[q].kind = "id" => TrueOf(cs[q].val, cs[p].val, index)
      BY <3>2 DEF FactsAreTrue
    <3>4. u \in 1..Len(ds) /\ t \in 1..Len(ds) /\ ds[t].kind = "tab"
      BY <1>1, <3>3
    <3>5. \A q \in u..p : q \in 1..Len(cs) /\ ds[q] = cs[q]
      BY <1>1, <3>1
    <3> QED BY <3>1, <3>2, <3>3, <3>4, <3>5 DEF FactsAreTrue
  <2> QED BY <2>1, <2>2
<1>3. CacheIsTrue(ds, index)
  BY <1>1, <1>2 DEF CacheIsTrue
<1> QED BY <1>3 DEF ds

\* A step of one run, of which the new state is true, that writes what fits or nothing.
LEMMA StepKeeps ==
    ASSUME IInv, NEW r \in Runs, NEW m, file' = file, run' = [run EXCEPT ![r] = m],
           IsRun(m), m.image = file,
           installed \subseteq installed', SameBanners(installed', installed),
           \/ cache' = cache
           \/ \E x : cache' = Append(cache, x) /\ Fits(cache, x, file.id, installed'),
           RunTrue(m, file.holds, installed'), Writes(m, cache', file.id)
    PROVE  IInv'
<1>1. IsCache(cache) /\ CacheIsTrue(cache, installed')
  BY CacheStaysTrue DEF IInv
<1>2. /\ IsCache(cache') /\ CacheIsTrue(cache', installed')
      /\ \A u \in Runs : Writes(run[u], cache', file.id)
  <2>1. CASE cache' = cache
    BY <1>1, <2>1 DEF IInv
  <2>2. CASE \E x : cache' = Append(cache, x) /\ Fits(cache, x, file.id, installed')
    <3>1. PICK x : cache' = Append(cache, x) /\ Fits(cache, x, file.id, installed')
      BY <2>2
    <3>2. IsCache(cache') /\ CacheIsTrue(cache', installed')
      BY <1>1, <3>1, Appended, AppendIsTrue
    <3>3. x.kind = "id" => x.val = file.id
      BY <3>1 DEF Fits
    <3>4. \A u \in Runs : Writes(run[u], cache, file.id)
      BY DEF IInv
    <3>5. \A u \in Runs : Writes(run[u], cache', file.id)
      BY <1>1, <3>1, <3>3, <3>4, WritesStay
    <3> QED BY <3>2, <3>5
  <2> QED BY <2>1, <2>2
<1>3. ASSUME NEW u \in Runs
      PROVE  /\ IsRun(run'[u]) /\ run'[u].image = file
             /\ RunTrue(run'[u], file.holds, installed') /\ Writes(run'[u], cache', file.id)
  <2>1. file \in Files
    BY DEF IInv
  <2>2. CASE u = r
    <3>1. run'[u] = m
      BY <2>2 DEF IInv
    <3> QED BY <3>1
  <2>3. CASE u # r
    <3>1. run'[u] = run[u] /\ IsRun(run[u]) /\ run[u].image = file
          /\ RunTrue(run[u], file.holds, installed)
      BY <2>3 DEF IInv
    <3>2. RunTrue(run[u], file.holds, installed')
      BY <2>1, <3>1, RunStaysTrue DEF SameBanners
    <3> QED BY <1>2, <3>1, <3>2
  <2> QED BY <2>2, <2>3
<1>4. file' \in Files /\ DOMAIN run' = Runs
  BY DEF IInv
<1> QED BY <1>2, <1>3, <1>4 DEF IInv

\* Most steps change one run and nothing else.
LEMMA QuietStepKeeps ==
    ASSUME IInv, NEW r \in Runs, NEW m, file' = file, installed' = installed, cache' = cache,
           run' = [run EXCEPT ![r] = m], IsRun(m), m.image = file, m.pc \notin {"tab", "facts"},
           RunTrue(m, file.holds, installed)
    PROVE  IInv'
<1>1. SameBanners(installed', installed)
  BY DEF SameBanners
<1>2. Writes(m, cache', file.id)
  BY DEF Writes
<1> QED BY <1>1, <1>2, StepKeeps

-----------------------------------------------------------------------------
(* The steps.                                                              *)

LEMMA InitIInv == ASSUME World PROVE Init => IInv
<1> SUFFICES ASSUME Init PROVE IInv
  OBVIOUS
<1>1. cache = <<>> /\ file \in Files /\ DOMAIN run = Runs
  BY DEF Init
<1>2. IsCache(cache) /\ CacheIsTrue(cache, installed)
  <2>1. cache \in Seq({}) /\ Len(cache) = 0
    BY <1>1
  <2> QED BY <2>1 DEF IsCache, CacheIsTrue
<1>3. ASSUME NEW r \in Runs
      PROVE  /\ IsRun(run[r]) /\ run[r].image = file
             /\ RunTrue(run[r], file.holds, installed) /\ Writes(run[r], cache, file.id)
  <2>1. IsRun(run[r]) /\ run[r].image = file /\ run[r].pc = "idle"
    BY DEF Init, Idle, IsRun
  <2> QED BY <2>1 DEF RunTrue, Begun, HasTables, HasKernel, HasNoTables, HasBanner, HasShift,
                      Concluded, Writes, Ended
<1> QED BY <1>1, <1>2, <1>3 DEF IInv

\* A run begins with nothing searched for, and with Linux if the image was said to be.
LEMMA OpenKeeps ==
    ASSUME World, IInv, NEW r \in Runs, Open(r) PROVE IInv'
<1> DEFINE known == Get(file.id)
           m == [Idle(file) EXCEPT !.known = known, !.index = installed,
                   !.first = known.os = "linux",
                   !.pc = IF known.os = "linux" THEN "banner" ELSE "base"]
<1>1. /\ file' = file /\ installed' = installed /\ cache' = cache
      /\ run' = [run EXCEPT ![r] = m]
  BY DEF Open
<1>2. /\ IsRun(m) /\ m.image = file /\ m.known = known /\ m.index = installed
      /\ m.first = (known.os = "linux") /\ m.searched = {} /\ m.result = NoResult
      /\ m.pc = IF known.os = "linux" THEN "banner" ELSE "base"
  <2> HIDE DEF known
  <2> QED BY DEF Idle, IsRun
<1>3. known.os = "windows" => ~NotWindows(file.holds)
  <2>1. SUFFICES ASSUME known.os = "windows" PROVE ~NotWindows(file.holds)
    OBVIOUS
  <2>2. WindowsRead(file.holds, known) /\ Unambiguous(file.holds)
    BY <2>1, RememberedIsTrue DEF World, IInv
  <2> HIDE DEF known
  <2> QED BY <2>2, WindowsIsNot DEF WindowsRead
<1>4. known.os = "linux" => NotWindows(file.holds) /\ Usable(file.holds, installed) # {}
  <2>1. SUFFICES ASSUME known.os = "linux"
                 PROVE  NotWindows(file.holds) /\ Usable(file.holds, installed) # {}
    OBVIOUS
  <2>2. LinuxRead(file.holds, known, installed)
    BY <2>1, RememberedIsTrue
  <2>3. PICK text : LinuxHolds(file.holds, known, text, installed)
    <3> HIDE DEF known
    <3> QED BY <2>2 DEF LinuxRead
  <2> HIDE DEF known
  <2> QED BY <2>3 DEF LinuxHolds, Usable
<1> HIDE DEF m, known
<1>5. Begun(m, file.holds, installed)
  BY <1>2, <1>3, <1>4 DEF Begun
<1>6. HasNoTables(m, file.holds)
  BY <1>2, <1>4 DEF HasNoTables
<1>7. m.pc \in {"banner", "base"}
  BY <1>2
<1>8. RunTrue(m, file.holds, installed)
  BY <1>5, <1>6, <1>7 DEF RunTrue, HasTables, HasKernel, HasBanner, HasShift, Concluded, Ended
<1> QED BY <1>1, <1>2, <1>7, <1>8, QuietStepKeeps

\* Where Windows comes to nothing, a run may end as a search for Linux does.
LEMMA LinuxIsFresh ==
    ASSUME NEW image, NEW index, NotWindows(image)
    PROVE  FreshLinux(image, index) \subseteq Fresh(image, index)
<1>1. CASE find_dtb(image) = {}
  BY <1>1 DEF Fresh
<1>2. CASE find_dtb(image) # {}
  <2>1. PICK f \in find_dtb(image) : TRUE
    BY <1>2
  <2>2. PICK k \in find_kernel(image, f.base) : k.text \in Broken
    BY <2>1 DEF NotWindows
  <2> DEFINE answer(s) == [os |-> "windows", base |-> f.base, class |-> f.class,
                           symbols |-> s, shift |-> NoTask]
             one(j) == (IF j.text \in Broken THEN FreshLinux(image, index) ELSE {answer(j.text)})
                       \cup (IF j.text \in index THEN {} ELSE {answer("")})
  <2>3. FreshWindows(image, index, f) = UNION {one(j) : j \in find_kernel(image, f.base)}
    BY <2>2 DEF FreshWindows
  <2>4. FreshLinux(image, index) \subseteq one(k)
    BY <2>2
  <2> HIDE DEF one
  <2>5. FreshLinux(image, index) \subseteq FreshWindows(image, index, f)
    BY <2>2, <2>3, <2>4
  <2>6. Fresh(image, index) = UNION {FreshWindows(image, index, g) : g \in find_dtb(image)}
    BY <1>2 DEF Fresh
  <2> QED BY <2>1, <2>5, <2>6
<1> QED BY <1>1, <1>2

\* Nothing came of Linux: a run that tried it first was told so and finds the same.
LEMMA NotLinuxIsTrue ==
    ASSUME World, IInv, NEW r \in Runs, NEW now, IsRun(now), now.image = file, NotLinux(r, now),
           file' = file, installed' = installed, cache' = cache,
           now.first = FALSE, now.result = NoResult,
           NotWindows(file.holds), Usable(file.holds, now.index) = {}
    PROVE  IInv'
<1> DEFINE m == [now EXCEPT !.pc = "done"]
<1>1. run' = [run EXCEPT ![r] = m]
  BY DEF NotLinux
<1>2. /\ IsRun(m) /\ m.image = file /\ m.pc = "done" /\ m.result = NoResult /\ m.index = now.index
  BY DEF IsRun
<1> HIDE DEF m
<1>3. NoResult \in FreshLinux(file.holds, now.index)
  BY DEF FreshLinux, Usable
<1>4. NoResult \in Fresh(file.holds, m.index)
  BY <1>2, <1>3, LinuxIsFresh
<1>5. NoResult.symbols = ""
  BY DEF NoResult
<1>6. Concluded(m, file.holds)
  BY <1>2, <1>4, <1>5 DEF Concluded, NotSearched
<1>7. RunTrue(m, file.holds, installed)
  BY <1>2, <1>6 DEF RunTrue, Begun, HasTables, HasKernel, HasNoTables, HasBanner, HasShift, Ended
<1> QED BY <1>1, <1>2, <1>7, QuietStepKeeps

\* The banner that is confirmed is the one that would be found.
LEMMA LinuxBannerKeeps ==
    ASSUME World, IInv, NEW r \in Runs, LinuxBanner(r) PROVE IInv'
<1> DEFINE me == run[r]
           facts == Remembered(file, "linux")
           seen == Confirmed(file.holds, facts)
           now == [run[r] EXCEPT !.facts = facts, !.index = installed,
                     !.searched = IF seen = {} /\ installed # {} THEN @ \cup {"banner"} ELSE @]
           banners == IF seen # {} THEN seen ELSE first_known_banner(file.holds, installed)
<1>1. /\ IsRun(me) /\ file \in Files /\ Unambiguous(file.holds) /\ me.image = file
      /\ Begun(me, file.holds, installed) /\ HasNoTables(me, file.holds)
  BY DEF IInv, RunTrue, World
<1>2. /\ file' = file /\ installed' = installed /\ cache' = cache /\ me.pc = "banner"
      /\ \/ (installed = {} \/ banners = {}) /\ NotLinux(r, now)
         \/ /\ installed # {}
            /\ \E b \in banners :
                 run' = [run EXCEPT ![r] = [now EXCEPT !.pc = "shift",
                            !.found = [at |-> b.at, sig |-> 0, text |-> b.text]]]
  BY <1>1 DEF LinuxBanner
<1>3. /\ IsRun(now) /\ now.image = file /\ now.facts = facts /\ now.index = installed
      /\ now.first = me.first /\ now.result = me.result /\ now.known = me.known
      /\ (seen # {} => now.searched = me.searched)
  <2> HIDE DEF facts, seen
  <2> QED BY <1>1 DEF IsRun
<1>4. /\ NotWindows(file.holds) /\ me.result = NoResult
      /\ me.known.os # "windows"
      /\ me.known.os = "linux" => Usable(file.holds, installed) # {} /\ me.searched = {}
      /\ me.first \in BOOLEAN /\ (me.first => me.known.os = "linux")
  BY <1>1, <1>2 DEF Begun, HasNoTables, Ended
<1>5. facts = NoFacts \/ LinuxRead(file.holds, facts, installed)
  BY RememberedIsTrue
<1>6. facts.os = "linux" => LinuxRead(file.holds, facts, installed)
  <2>1. NoFacts.os # "linux"
    BY DEF NoFacts
  <2> HIDE DEF facts
  <2> QED BY <1>5, <2>1
<1>7. ASSUME NEW b \in seen
      PROVE  b \in first_known_banner(file.holds, installed)
  <2>1. b \in file.holds.banners /\ facts.os = "linux" /\ b.at = facts.at
    <3> HIDE DEF facts
    <3> QED BY <1>7 DEF Confirmed
  <2>2. PICK c \in first_known_banner(file.holds, installed) : c.at = facts.at
    <3> HIDE DEF facts
    <3> QED BY <1>6, <2>1 DEF LinuxRead, LinuxHolds
  <2>3. c \in file.holds.banners
    BY DEF first_known_banner
  <2>4. b = c
    <3> HIDE DEF facts
    <3> QED BY <1>1, <2>1, <2>2, <2>3 DEF Unambiguous
  <2> QED BY <2>2, <2>4
<1>8. ASSUME Whole(facts, "linux")
      PROVE  \E c \in seen : c.text = facts.text
  <2>1. PICK c \in first_known_banner(file.holds, installed) : c.at = facts.at /\ c.text = facts.text
    <3> HIDE DEF facts
    <3> QED BY <1>6, <1>8 DEF LinuxRead, LinuxHolds, Whole
  <2>2. c \in file.holds.banners
    BY DEF first_known_banner
  <2> HIDE DEF facts
  <2> QED BY <1>8, <2>1, <2>2 DEF Confirmed, Whole
<1>9. banners \subseteq first_known_banner(file.holds, installed)
  <2> HIDE DEF seen
  <2> QED BY <1>7
<1>10. banners = {} => first_known_banner(file.holds, installed) = {}
  <2> HIDE DEF seen
  <2> QED OBVIOUS
<1> HIDE DEF facts, seen, banners
<1>11. CASE (installed = {} \/ banners = {}) /\ NotLinux(r, now)
  <2>1. first_known_banner(file.holds, installed) = {}
    <3>1. CASE installed = {}
      BY <3>1 DEF first_known_banner
    <3> QED BY <1>10, <1>11, <3>1
  <2>2. Usable(file.holds, installed) = {}
    BY <2>1 DEF Usable
  <2>3. me.first = FALSE
    BY <1>4, <2>2
  <2> HIDE DEF now, me
  <2> QED BY <1>2, <1>3, <1>4, <1>11, <2>2, <2>3, NotLinuxIsTrue
<1>12. ASSUME NEW b \in banners,
              run' = [run EXCEPT ![r] = [now EXCEPT !.pc = "shift",
                            !.found = [at |-> b.at, sig |-> 0, text |-> b.text]]]
       PROVE  IInv'
  <2> DEFINE m == [now EXCEPT !.pc = "shift", !.found = [at |-> b.at, sig |-> 0, text |-> b.text]]
  <2>1. /\ IsRun(m) /\ m.image = file /\ m.pc = "shift" /\ m.facts = facts /\ m.index = installed
        /\ m.first = me.first /\ m.result = me.result /\ m.known = me.known
        /\ m.searched = now.searched /\ m.found.at = b.at /\ m.found.text = b.text
    <3> HIDE DEF now
    <3> QED BY <1>3 DEF IsRun
  <2>2. b \in first_known_banner(file.holds, installed)
    BY <1>9
  <2>3. Whole(facts, "linux") => facts.text = b.text
    <3>1. SUFFICES ASSUME Whole(facts, "linux") PROVE facts.text = b.text
      OBVIOUS
    <3>2. PICK c \in seen : c.text = facts.text
      BY <1>8, <3>1
    <3>3. c = b
      BY <1>1, <1>7, <2>2, BannerIsOne
    <3> QED BY <3>2, <3>3
  <2>4. me.known.os = "linux" /\ Whole(facts, "linux") => now.searched = {}
    BY <1>3, <1>4, <1>8
  <2> HIDE DEF m, me, now
  <2>5. Begun(m, file.holds, installed)
    BY <1>4, <2>1 DEF Begun
  <2>6. HasNoTables(m, file.holds)
    BY <1>4, <2>1 DEF HasNoTables
  <2>7. HasBanner(m, file.holds, installed)
    BY <1>6, <2>1, <2>2, <2>3, <2>4 DEF HasBanner, SameBanner
  <2>8. RunTrue(m, file.holds, installed)
    BY <2>1, <2>5, <2>6, <2>7 DEF RunTrue, HasTables, HasKernel, HasShift, Concluded, Ended
  <2> QED BY <1>2, <1>12, <2>1, <2>8, QuietStepKeeps DEF m
<1> HIDE DEF now
<1> QED BY <1>2, <1>11, <1>12

\* The shift is the one the image has, and what was measured before is not measured again.
LEMMA LinuxShiftKeeps ==
    ASSUME World, IInv, NEW r \in Runs, LinuxShift(r) PROVE IInv'
<1> DEFINE me == run[r]
           task == TaskOf(file.holds, me.found.text)
           confirmed == TaskAtRecord(file.holds, me.found.text, me.facts)
           tasks == IF confirmed # {} THEN confirmed ELSE {task}
           searched == IF confirmed # {} THEN me.searched ELSE me.searched \cup {"task"}
           now(t) == [me EXCEPT !.shift = t, !.searched = searched]
<1>1. /\ IsRun(me) /\ file \in Files /\ Unambiguous(file.holds) /\ me.image = file
      /\ Begun(me, file.holds, installed) /\ HasNoTables(me, file.holds)
      /\ HasBanner(me, file.holds, installed)
  BY DEF IInv, RunTrue, World
<1>2. /\ file' = file /\ installed' = installed /\ cache' = cache /\ me.pc = "shift"
      /\ \/ (me.found.text \notin me.index \/ me.found.text \in Broken) /\ NotLinux(r, me)
         \/ /\ me.found.text \in me.index \ Broken
            /\ \E t \in tasks :
                 IF me.found.text \in NoPageTable THEN NotLinux(r, now(t))
                 ELSE run' = [run EXCEPT ![r] = [now(t) EXCEPT !.pc = "class"]]
  BY <1>1 DEF LinuxShift
<1>3. /\ NotWindows(file.holds) /\ me.result = NoResult
      /\ me.known.os # "windows"
      /\ me.known.os = "linux" => Usable(file.holds, installed) # {}
      /\ me.first \in BOOLEAN /\ (me.first => me.known.os = "linux")
      /\ first_known_banner(file.holds, me.index) = first_known_banner(file.holds, installed)
      /\ SameBanner(me, file.holds)
      /\ (me.facts.os = "linux" => LinuxRead(file.holds, me.facts, installed))
      /\ (Whole(me.facts, "linux") => me.facts.text = me.found.text)
      /\ (me.known.os = "linux" /\ Whole(me.facts, "linux") => me.searched = {})
  BY <1>1, <1>2 DEF Begun, HasNoTables, HasBanner, Ended
<1>4. PICK b \in first_known_banner(file.holds, me.index) :
        b.at = me.found.at /\ b.text = me.found.text
  BY <1>3 DEF SameBanner
<1>5. me.found.text \in me.index
  BY <1>4 DEF first_known_banner
<1>6. me.found.text \in NoPageTable \cup Broken => Usable(file.holds, me.index) = {} /\ me.first = FALSE
  <2>1. SUFFICES ASSUME me.found.text \in NoPageTable \cup Broken
                 PROVE  Usable(file.holds, me.index) = {} /\ me.first = FALSE
    OBVIOUS
  <2>2. Usable(file.holds, me.index) = {}
    BY <1>1, <1>4, <2>1, BannerIsOne DEF Usable
  <2>3. Usable(file.holds, installed) = Usable(file.holds, me.index)
    BY <1>3 DEF Usable
  <2> HIDE DEF me
  <2> QED BY <1>3, <2>2, <2>3
<1>7. confirmed \subseteq {task} /\ (me.facts.os = "linux" /\ task # NoTask => confirmed # {})
  <2>1. CASE me.facts.os # "linux"
    BY <2>1 DEF TaskAtRecord
  <2>2. CASE me.facts.os = "linux"
    <3>1. PICK text : LinuxHolds(file.holds, me.facts, text, installed)
      <4> HIDE DEF me
      <4> QED BY <1>3, <2>2 DEF LinuxRead
    <3>2. PICK c \in first_known_banner(file.holds, installed) : c.text = text
      BY <3>1 DEF LinuxHolds
    <3>3. text = me.found.text
      BY <1>1, <1>3, <1>4, <3>2, BannerIsOne
    <3>4. task = [at |-> me.facts.task, physical |-> me.facts.physical, virtual |-> me.facts.virtual]
      BY <3>1, <3>3 DEF LinuxHolds
    <3>5. confirmed = IF task = NoTask THEN {} ELSE {task}
      BY <1>1, <2>2, <3>4, TaskIsOne
    <3> HIDE DEF confirmed, task
    <3> QED BY <3>5
  <2> QED BY <2>1, <2>2
<1>8. \A t \in tasks : t = task
  <2> HIDE DEF confirmed, task
  <2> QED BY <1>7
<1>9. /\ IsRun(now(task)) /\ now(task).image = file /\ now(task).shift = task
      /\ now(task).index = me.index /\ now(task).first = me.first
      /\ now(task).result = me.result /\ now(task).known = me.known /\ now(task).found = me.found
      /\ now(task).facts = me.facts /\ now(task).searched = searched
  <2> HIDE DEF task, searched
  <2> QED BY <1>1 DEF IsRun
<1>10. CASE me.found.text \in Broken /\ NotLinux(r, me)
  <2> HIDE DEF me
  <2> QED BY <1>1, <1>2, <1>3, <1>6, <1>10, NotLinuxIsTrue
<1>11. CASE me.found.text \in NoPageTable /\ NotLinux(r, now(task))
  <2> HIDE DEF me, now, task, searched
  <2> QED BY <1>2, <1>3, <1>6, <1>9, <1>11, NotLinuxIsTrue
<1>12. CASE /\ me.found.text \notin NoPageTable \cup Broken
            /\ run' = [run EXCEPT ![r] = [now(task) EXCEPT !.pc = "class"]]
  <2> DEFINE m == [now(task) EXCEPT !.pc = "class"]
  <2>1. /\ IsRun(m) /\ m.image = file /\ m.pc = "class" /\ m.shift = task /\ m.index = me.index
        /\ m.first = me.first /\ m.result = me.result /\ m.known = me.known /\ m.found = me.found
        /\ m.facts = me.facts /\ m.searched = searched
    <3> HIDE DEF now, task, searched
    <3> QED BY <1>9 DEF IsRun
  <2>2. me.known.os = "linux" /\ Whole(me.facts, "linux") =>
          searched \subseteq (IF task = NoTask THEN {"task"} ELSE {})
    <3>1. SUFFICES ASSUME me.known.os = "linux", Whole(me.facts, "linux")
                   PROVE  searched \subseteq (IF task = NoTask THEN {"task"} ELSE {})
      OBVIOUS
    <3>2. me.searched = {}
      BY <1>3, <3>1
    <3>3. task # NoTask => confirmed # {}
      BY <1>7, <3>1 DEF Whole
    <3> HIDE DEF me, task, confirmed
    <3> QED BY <3>2, <3>3
  <2> HIDE DEF now, m, me, task, searched
  <2>3. Begun(m, file.holds, installed)
    BY <1>1, <1>2, <2>1 DEF Begun, Ended
  <2>4. HasNoTables(m, file.holds)
    BY <1>3, <2>1 DEF HasNoTables
  <2>5. HasBanner(m, file.holds, installed)
    BY <1>3, <2>1 DEF HasBanner, SameBanner
  <2>6. HasShift(m, file.holds)
    BY <1>12, <2>1, <2>2 DEF HasShift, task
  <2>7. RunTrue(m, file.holds, installed)
    BY <2>1, <2>3, <2>4, <2>5, <2>6 DEF RunTrue, HasTables, HasKernel, Concluded, Ended
  <2> QED BY <1>2, <1>12, <2>1, <2>7, QuietStepKeeps DEF m
<1> HIDE DEF now, task, me, searched, tasks
<1>13. \/ me.found.text \in Broken /\ NotLinux(r, me)
       \/ me.found.text \in NoPageTable /\ NotLinux(r, now(task))
       \/ /\ me.found.text \notin NoPageTable \cup Broken
          /\ run' = [run EXCEPT ![r] = [now(task) EXCEPT !.pc = "class"]]
  BY <1>2, <1>5, <1>8
<1> QED BY <1>10, <1>11, <1>12, <1>13

\* The class recorded for the banner is the one its note gives.
LEMMA LinuxClassKeeps ==
    ASSUME World, IInv, NEW r \in Runs, LinuxClass(r) PROVE IInv'
<1> DEFINE me == run[r]
           recalled == me.facts.os = "linux" /\ me.facts.text = me.found.text /\ me.facts.class # ""
           m == [me EXCEPT !.pc = "note",
                    !.class = IF recalled THEN me.facts.class ELSE ClassOf(file.holds, me.found.text),
                    !.searched = IF recalled THEN @ ELSE @ \cup {"note"}]
<1>1. /\ IsRun(me) /\ file \in Files /\ me.image = file /\ Unambiguous(file.holds)
      /\ Begun(me, file.holds, installed) /\ HasNoTables(me, file.holds)
      /\ HasBanner(me, file.holds, installed) /\ HasShift(me, file.holds)
  BY DEF IInv, RunTrue, World
<1>2. /\ file' = file /\ installed' = installed /\ cache' = cache /\ me.pc = "class"
      /\ run' = [run EXCEPT ![r] = m]
  BY <1>1 DEF LinuxClass
<1>3. /\ IsRun(m) /\ m.image = file /\ m.pc = "note" /\ m.shift = me.shift /\ m.index = me.index
      /\ m.first = me.first /\ m.result = me.result /\ m.known = me.known /\ m.found = me.found
      /\ m.facts = me.facts
      /\ m.class = (IF recalled THEN me.facts.class ELSE ClassOf(file.holds, me.found.text))
      /\ (recalled => m.searched = me.searched)
  <2> HIDE DEF recalled
  <2> QED BY <1>1 DEF IsRun
<1>4. me.facts.os = "linux" => me.facts.class = ClassOf(file.holds, me.found.text)
  <2>1. SUFFICES ASSUME me.facts.os = "linux"
                 PROVE  me.facts.class = ClassOf(file.holds, me.found.text)
    OBVIOUS
  <2>2. /\ LinuxRead(file.holds, me.facts, installed) /\ SameBanner(me, file.holds)
        /\ first_known_banner(file.holds, me.index) = first_known_banner(file.holds, installed)
    BY <1>1, <1>2, <2>1 DEF HasBanner
  <2>3. PICK text : LinuxHolds(file.holds, me.facts, text, installed)
    <3> HIDE DEF me
    <3> QED BY <2>2 DEF LinuxRead
  <2>4. PICK c \in first_known_banner(file.holds, installed) : c.text = text
    BY <2>3 DEF LinuxHolds
  <2>5. PICK b \in first_known_banner(file.holds, installed) : b.text = me.found.text
    BY <2>2 DEF SameBanner
  <2>6. text = me.found.text
    BY <1>1, <2>4, <2>5, BannerIsOne
  <2> QED BY <2>3, <2>6 DEF LinuxHolds
<1>5. m.class = ClassOf(file.holds, me.found.text)
  <2>1. recalled => me.facts.class = ClassOf(file.holds, me.found.text)
    BY <1>4
  <2> HIDE DEF recalled, m
  <2> QED BY <1>3, <2>1
<1>6. Whole(me.facts, "linux") => recalled
  <2>1. SUFFICES ASSUME Whole(me.facts, "linux") PROVE recalled
    OBVIOUS
  <2>2. me.facts.os = "linux" /\ me.facts.text = me.found.text
    BY <1>1, <1>2, <2>1 DEF HasBanner, Whole
  <2>3. ClassOf(file.holds, me.found.text) # ""
    BY DEF ClassOf
  <2> QED BY <1>4, <2>2, <2>3
<1> HIDE DEF m, me, recalled
<1>7. Begun(m, file.holds, installed)
  BY <1>1, <1>2, <1>3 DEF Begun, Ended
<1>8. HasNoTables(m, file.holds)
  BY <1>1, <1>2, <1>3 DEF HasNoTables
<1>9. HasBanner(m, file.holds, installed)
  BY <1>1, <1>2, <1>3 DEF HasBanner, SameBanner
<1>10. HasShift(m, file.holds)
  BY <1>1, <1>2, <1>3, <1>5, <1>6 DEF HasShift
<1>11. RunTrue(m, file.holds, installed)
  BY <1>3, <1>7, <1>8, <1>9, <1>10 DEF RunTrue, HasTables, HasKernel, Concluded, Ended
<1> QED BY <1>2, <1>3, <1>11, QuietStepKeeps

\* A run that has its answer is done, or begins to write: true facts, under its identity.
LEMMA PutKeeps ==
    ASSUME World, IInv, NEW r \in Runs, NEW already_known, NEW line, NEW result,
           Put(r, already_known, line, result), file' = file, installed' = installed,
           result \in Fresh(file.holds, run[r].index),
           NotSearched([run[r] EXCEPT !.result = result]),
           Written(file.holds, line, installed)
    PROVE  IInv'
<1> DEFINE me == run[r]
           m1 == [me EXCEPT !.pc = "done", !.result = result]
           m2 == [me EXCEPT !.pc = "tab", !.line = line, !.result = result]
           answered == [me EXCEPT !.result = result]
<1>1. IsRun(me) /\ me.image = file /\ DOMAIN run = Runs
  BY DEF IInv
<1>2. \/ run' = [run EXCEPT ![r] = m1] /\ cache' = cache
      \/ cache' = Append(cache, Id(file.id)) /\ run' = [run EXCEPT ![r] = m2]
  BY <1>1 DEF Put, IsRun
<1>3. \A m \in {m1, m2} :
        /\ IsRun(m) /\ m.image = file /\ m.result = result /\ m.index = me.index
        /\ m.known = me.known /\ m.facts = me.facts /\ m.searched = me.searched
        /\ m.pc \in {"tab", "done"}
  BY <1>1 DEF IsRun
<1>4. m2.pc = "tab" /\ m2.line = line /\ m1.pc = "done"
  BY <1>1 DEF IsRun
<1>5. /\ answered.result = result /\ answered.known = me.known /\ answered.facts = me.facts
      /\ answered.searched = me.searched
  BY <1>1 DEF IsRun
<1>6. NotSearched(answered)
  OBVIOUS
<1> HIDE DEF m1, m2, me, answered
<1>7. \A m \in {m1, m2} : NotSearched(m)
  BY <1>3, <1>5, <1>6 DEF NotSearched
<1>8. \A m \in {m1, m2} : Concluded(m, file.holds)
  BY <1>3, <1>7 DEF Concluded, me
<1>9. RunTrue(m1, file.holds, installed) /\ RunTrue(m2, file.holds, installed)
  <2>1. ASSUME NEW m \in {m1, m2}
        PROVE  /\ Begun(m, file.holds, installed)
               /\ HasTables(m, file.holds) /\ HasKernel(m, file.holds)
               /\ HasNoTables(m, file.holds) /\ HasBanner(m, file.holds, installed)
               /\ HasShift(m, file.holds)
    <3>1. m.pc \in {"tab", "done"}
      BY <1>3
    <3> QED BY <3>1 DEF Begun, HasTables, HasKernel, HasNoTables, HasBanner, HasShift, Ended
  <2> QED BY <1>4, <1>8, <2>1 DEF RunTrue
<1>10. CASE run' = [run EXCEPT ![r] = m1] /\ cache' = cache
  BY <1>3, <1>4, <1>9, <1>10, QuietStepKeeps
<1>11. CASE cache' = Append(cache, Id(file.id)) /\ run' = [run EXCEPT ![r] = m2]
  <2>1. /\ IsCache(cache) /\ Len(cache) \in Nat /\ Len(cache') = Len(cache) + 1
        /\ cache'[Len(cache) + 1] = Id(file.id)
    BY <1>11, Appended DEF IInv
  <2>2. Since(cache', Len(cache) + 1, file.id)
    BY <2>1 DEF Since, Id
  <2>3. Writes(m2, cache', file.id)
    <3>1. Len(cache) + 1 \in 1..Len(cache')
      BY <2>1
    <3> QED BY <1>4, <2>2, <3>1 DEF Writes
  <2>4. Fits(cache, Id(file.id), file.id, installed')
    BY DEF Fits, Id
  <2>5. SameBanners(installed', installed)
    BY DEF SameBanners
  <2> QED BY <1>3, <1>9, <1>11, <2>3, <2>4, <2>5, StepKeeps
<1> QED BY <1>2, <1>10, <1>11

\* What is written down is true of this image.
LEMMA LinuxPutKeeps ==
    ASSUME World, IInv, NEW r \in Runs, LinuxPut(r) PROVE IInv'
<1> DEFINE me == run[r]
           already_known == /\ me.facts.os = "linux"
                            /\ me.facts.at = me.found.at /\ me.facts.task = me.shift.at
                            /\ me.facts.physical = me.shift.physical
                            /\ me.facts.virtual = me.shift.virtual
           line == [os |-> "linux", at |-> me.found.at, text |-> me.found.text,
                    task |-> me.shift.at, physical |-> me.shift.physical,
                    virtual |-> me.shift.virtual, kernel |-> 0, dtb |-> 0, class |-> me.class]
           answer == [os |-> "linux", base |-> me.found.at, class |-> me.class,
                      symbols |-> me.found.text, shift |-> me.shift]
           answered == [me EXCEPT !.result = answer]
<1>1. /\ file' = file /\ installed' = installed /\ me.pc = "note"
      /\ Put(r, already_known, line, answer)
  BY DEF LinuxPut
<1>2. /\ IsRun(me) /\ file \in Files /\ Unambiguous(file.holds)
      /\ HasNoTables(me, file.holds)
      /\ HasBanner(me, file.holds, installed) /\ HasShift(me, file.holds)
  BY DEF IInv, RunTrue, World
<1>3. /\ NotWindows(file.holds) /\ me.found.text \notin NoPageTable \cup Broken
      /\ me.shift = TaskOf(file.holds, me.found.text)
      /\ me.class = ClassOf(file.holds, me.found.text)
      /\ (me.known.os = "linux" /\ Whole(me.facts, "linux") =>
              me.searched \subseteq (IF me.shift = NoTask THEN {"task"} ELSE {}))
      /\ first_known_banner(file.holds, me.index) = first_known_banner(file.holds, installed)
      /\ SameBanner(me, file.holds)
  BY <1>1, <1>2 DEF HasNoTables, HasBanner, HasShift
<1>4. PICK b \in first_known_banner(file.holds, me.index) :
        b.at = me.found.at /\ b.text = me.found.text
  BY <1>3 DEF SameBanner
<1>5. me.shift = [at |-> me.shift.at, physical |-> me.shift.physical, virtual |-> me.shift.virtual]
  <2>1. CASE me.shift = NoTask
    <3> HIDE DEF me
    <3> QED BY <2>1 DEF NoTask
  <2>2. CASE me.shift # NoTask
    <3> DEFINE ts == file.holds.tasks[me.found.text]
               S == {ts[i] : i \in DOMAIN ts}
    <3>1. me.found.text \in DOMAIN file.holds.tasks /\ ts # <<>> /\ me.shift = Head(ts)
      BY <1>3, <2>2 DEF TaskOf, TasksOf
    <3>2. /\ ts \in Seq(S)
          /\ \A i \in DOMAIN ts :
               ts[i] = [at |-> ts[i].at, physical |-> ts[i].physical, virtual |-> ts[i].virtual]
      BY <1>2, <3>1 DEF Unambiguous
    <3> HIDE DEF ts, S, me
    <3>3. 1 \in DOMAIN ts /\ Head(ts) = ts[1]
      BY <3>1, <3>2
    <3> QED BY <3>1, <3>2, <3>3
  <2> QED BY <2>1, <2>2
<1>6. Written(file.holds, line, installed)
  <2>1. /\ line.os = "linux" /\ line.at = me.found.at /\ line.text = me.found.text
        /\ line.class = me.class /\ line.task = me.shift.at
        /\ line.physical = me.shift.physical /\ line.virtual = me.shift.virtual
        /\ DOMAIN line = DOMAIN NoFacts
    BY DEF NoFacts
  <2> HIDE DEF line, me
  <2>2. LinuxHolds(file.holds, line, line.text, installed)
    BY <1>3, <1>4, <1>5, <2>1 DEF LinuxHolds
  <2> QED BY <2>1, <2>2 DEF Written
<1>7. answer \in Fresh(file.holds, me.index)
  <2> DEFINE usable == {c \in first_known_banner(file.holds, me.index) : c.text \notin NoPageTable \cup Broken}
             of(c) == [os |-> "linux", base |-> c.at, class |-> ClassOf(file.holds, c.text),
                       symbols |-> c.text, shift |-> TaskOf(file.holds, c.text)]
  <2>1. b \in usable /\ usable # {}
    BY <1>3, <1>4
  <2>2. FreshLinux(file.holds, me.index) = {of(c) : c \in usable}
    BY <2>1 DEF FreshLinux
  <2>3. answer = of(b)
    BY <1>3, <1>4
  <2> HIDE DEF usable, answer, of
  <2>4. answer \in FreshLinux(file.holds, me.index)
    BY <2>1, <2>2, <2>3
  <2> QED BY <1>3, <2>4, LinuxIsFresh
<1>8. NotSearched(answered)
  <2>1. /\ answer.os = "linux" /\ answer.shift = me.shift /\ answer.class = me.class
        /\ answered.result = answer /\ answered.known = me.known /\ answered.facts = me.facts
        /\ answered.searched = me.searched
    BY <1>2 DEF IsRun
  <2>2. me.class # "PAE"
    BY <1>3 DEF ClassOf
  <2> HIDE DEF answered, me, answer
  <2>3. Unconfirmable(answer) = IF me.shift = NoTask THEN {"task"} ELSE {}
    BY <2>1, <2>2 DEF Unconfirmable
  <2> QED BY <1>3, <2>1, <2>3 DEF NotSearched
<1> HIDE DEF line, answer, already_known
<1> QED BY <1>1, <1>6, <1>7, <1>8, PutKeeps

\* A run whose write follows, or is cut short, has its answer already.
LEMMA EndedKeeps ==
    ASSUME World, IInv, NEW r \in Runs, run[r].pc \in Ended,
           NEW pc \in Ended, run' = [run EXCEPT ![r].pc = pc],
           file' = file, installed' = installed,
           pc = "facts" => run[r].pc = "tab", pc # "tab",
           cache' = cache \/ \E x : cache' = Append(cache, x) /\ Fits(cache, x, file.id, installed),
           Writes([run[r] EXCEPT !.pc = pc], cache', file.id)
    PROVE  IInv'
<1> DEFINE me == run[r]
           m == [me EXCEPT !.pc = pc]
<1>1. IsRun(me) /\ me.image = file /\ DOMAIN run = Runs /\ RunTrue(me, file.holds, installed)
  BY DEF IInv
<1>2. run' = [run EXCEPT ![r] = m]
  BY <1>1 DEF IsRun
<1>3. /\ IsRun(m) /\ m.image = file /\ m.pc = pc /\ m.result = me.result /\ m.index = me.index
      /\ m.known = me.known /\ m.facts = me.facts /\ m.searched = me.searched /\ m.line = me.line
  BY <1>1 DEF IsRun
<1> HIDE DEF m, me
<1>4. Concluded(m, file.holds)
  BY <1>1, <1>3 DEF RunTrue, Concluded, NotSearched, me
<1>5. m.pc \in {"tab", "facts"} => Written(file.holds, m.line, installed)
  BY <1>1, <1>3 DEF RunTrue, me
<1>6. RunTrue(m, file.holds, installed')
  BY <1>3, <1>4, <1>5 DEF RunTrue, Begun, HasTables, HasKernel, HasNoTables, HasBanner, HasShift, Ended
<1>7. SameBanners(installed', installed)
  BY DEF SameBanners
<1>8. Writes(m, cache', file.id)
  BY DEF m, me
<1> QED BY <1>2, <1>3, <1>6, <1>7, <1>8, StepKeeps

LEMMA WriteTabKeeps ==
    ASSUME World, IInv, NEW r \in Runs, WriteTab(r) PROVE IInv'
<1>1. /\ run[r].pc = "tab" /\ cache' = Append(cache, Tab) /\ run' = [run EXCEPT ![r].pc = "facts"]
      /\ file' = file /\ installed' = installed
  BY DEF WriteTab, Write
<1>2. /\ IsCache(cache) /\ IsRun(run[r]) /\ Writes(run[r], cache, file.id)
  BY DEF IInv
<1>3. Fits(cache, Tab, file.id, installed)
  BY DEF Fits, Tab
<1>4. PICK u \in 1..Len(cache) : Since(cache, u, file.id)
  BY <1>1, <1>2 DEF Writes
<1>5. Since(cache', u, file.id)
  BY <1>1, <1>2, <1>4, SinceStays DEF Tab
<1>6. /\ Len(cache) + 1 \in 1..Len(cache') /\ u \in 1..Len(cache') /\ u < Len(cache) + 1
      /\ cache'[Len(cache) + 1].kind = "tab"
  BY <1>1, <1>2, Appended DEF Tab
<1>7. [run[r] EXCEPT !.pc = "facts"].pc = "facts"
  BY <1>2 DEF IsRun
<1>8. Writes([run[r] EXCEPT !.pc = "facts"], cache', file.id)
  <2> DEFINE m == [run[r] EXCEPT !.pc = "facts"]
  <2> HIDE DEF m
  <2> SUFFICES Writes(m, cache', file.id)
    BY DEF m
  <2> QED BY <1>5, <1>6, <1>7 DEF Writes, m
<1> QED BY <1>1, <1>3, <1>8, EndedKeeps DEF Ended

LEMMA WriteFactsKeeps ==
    ASSUME World, IInv, NEW r \in Runs, WriteFacts(r) PROVE IInv'
<1> DEFINE line == run[r].line
<1>1. /\ run[r].pc = "facts" /\ cache' = Append(cache, Facts(line))
      /\ run' = [run EXCEPT ![r].pc = "newline"]
      /\ file' = file /\ installed' = installed
  BY DEF WriteFacts, Write
<1>2. /\ IsCache(cache) /\ IsRun(run[r]) /\ Writes(run[r], cache, file.id) /\ file \in Files
      /\ Written(file.holds, line, installed)
  BY <1>1 DEF IInv, RunTrue
<1>3. TrueOf(file.id, line, installed)
  BY <1>2 DEF TrueOf, World, ToldApart
<1> HIDE DEF line
<1>4. Fits(cache, Facts(line), file.id, installed)
  <2>1. Facts(line).kind = "facts" /\ Facts(line).val = line
    BY DEF Facts
  <2>2. \E u, t \in 1..Len(cache) : Since(cache, u, file.id) /\ u < t /\ cache[t].kind = "tab"
    BY <1>1, <1>2 DEF Writes
  <2>3. DOMAIN line = DOMAIN NoFacts
    BY <1>2 DEF Written
  <2> QED BY <1>3, <2>1, <2>2, <2>3 DEF Fits
<1>5. Writes([run[r] EXCEPT !.pc = "newline"], cache', file.id)
  <2>1. [run[r] EXCEPT !.pc = "newline"].pc = "newline"
    BY <1>2 DEF IsRun
  <2> QED BY <2>1 DEF Writes
<1> QED BY <1>1, <1>4, <1>5, EndedKeeps DEF Ended

LEMMA WriteNewlineKeeps ==
    ASSUME World, IInv, NEW r \in Runs, WriteNewline(r) \/ WriteFails(r) PROVE IInv'
<1>1. /\ run[r].pc \in Ended /\ run' = [run EXCEPT ![r].pc = "done"]
      /\ file' = file /\ installed' = installed
      /\ cache' = cache \/ cache' = Append(cache, Newline)
  BY DEF WriteNewline, WriteFails, Write, Ended
<1>2. Fits(cache, Newline, file.id, installed)
  BY DEF Fits, Newline
<1>3. Writes([run[r] EXCEPT !.pc = "done"], cache', file.id)
  <2>1. [run[r] EXCEPT !.pc = "done"].pc = "done"
    BY DEF IInv, IsRun
  <2> QED BY <2>1 DEF Writes
<1> QED BY <1>1, <1>2, <1>3, EndedKeeps DEF Ended

\* A base that still refers to itself is the one the search would find.
LEMMA WindowsBaseKeeps ==
    ASSUME World, IInv, NEW r \in Runs, WindowsBase(r) PROVE IInv'
<1> DEFINE me == run[r]
           facts == Remembered(file, "windows")
           declared == IF facts.dtb = 0 THEN {} ELSE paging_at(file.holds, facts.dtb)
           now == [run[r] EXCEPT !.facts = facts,
                     !.searched = IF declared = {} THEN @ \cup {"base"} ELSE @]
           found == IF declared # {} THEN declared ELSE find_dtb(file.holds)
<1>1. /\ IsRun(me) /\ file \in Files /\ Unambiguous(file.holds) /\ me.image = file
      /\ Begun(me, file.holds, installed)
  BY DEF IInv, RunTrue, World
<1>2. /\ file' = file /\ installed' = installed /\ cache' = cache /\ me.pc = "base"
      /\ \/ found = {} /\ run' = [run EXCEPT ![r] = [now EXCEPT !.pc = "banner"]]
         \/ \E f \in found :
               run' = [run EXCEPT ![r] = [now EXCEPT !.pc = "kernel", !.base = f.base, !.class = f.class]]
  BY <1>1 DEF WindowsBase
<1>3. /\ IsRun(now) /\ now.image = file /\ now.facts = facts /\ now.index = me.index
      /\ now.first = me.first /\ now.result = me.result /\ now.known = me.known
      /\ now.searched = IF declared = {} THEN me.searched \cup {"base"} ELSE me.searched
  <2> HIDE DEF facts, declared
  <2> QED BY <1>1 DEF IsRun
<1>4. /\ me.searched = {} /\ me.known.os # "linux" /\ me.result = NoResult /\ me.index \subseteq installed
      /\ me.known.os = "windows" => ~NotWindows(file.holds)
      /\ me.first \in BOOLEAN /\ (me.first => me.known.os = "linux")
  BY <1>1, <1>2 DEF Begun, Ended
<1>5. facts = NoFacts \/ WindowsRead(file.holds, facts)
  BY RememberedIsTrue
<1>6. ASSUME WindowsRead(file.holds, facts), NEW f \in find_dtb(file.holds)
      PROVE  /\ paging_at(file.holds, facts.dtb) \subseteq {f}
             /\ f.class # "PAE" => declared # {}
  <2>1. PICK g \in find_dtb(file.holds) : g.base = facts.dtb
    <3> HIDE DEF facts
    <3> QED BY <1>6 DEF WindowsRead, WindowsHolds
  <2>2. f.base = facts.dtb
    BY <1>1, <2>1, TablesAreOne
  <2> HIDE DEF facts
  <2> QED BY <1>1, <2>2, PagingIsFound
<1>7. found \subseteq find_dtb(file.holds)
  <2>1. SUFFICES ASSUME declared # {} PROVE declared \subseteq find_dtb(file.holds)
    OBVIOUS
  <2>2. NoFacts.dtb = 0
    BY DEF NoFacts
  <2>3. WindowsRead(file.holds, facts)
    <3>1. facts.dtb # 0
      <4> HIDE DEF facts
      <4> QED BY <2>1
    <3> HIDE DEF facts
    <3> QED BY <1>5, <2>2, <3>1
  <2>4. PICK g \in find_dtb(file.holds) : g.base = facts.dtb
    <3> HIDE DEF facts
    <3> QED BY <2>3 DEF WindowsRead, WindowsHolds
  <2>5. paging_at(file.holds, facts.dtb) \subseteq {g}
    BY <1>6, <2>3
  <2> HIDE DEF facts
  <2> QED BY <2>1, <2>5
<1>8. Whole(facts, "windows") => WindowsRead(file.holds, facts)
  <2>1. NoFacts.os # "windows"
    BY DEF NoFacts
  <2> HIDE DEF facts
  <2> QED BY <1>5, <2>1 DEF Whole
<1> HIDE DEF facts, declared
<1>9. CASE found = {} /\ run' = [run EXCEPT ![r] = [now EXCEPT !.pc = "banner"]]
  <2> DEFINE m == [now EXCEPT !.pc = "banner"]
  <2>1. /\ IsRun(m) /\ m.image = file /\ m.pc = "banner" /\ m.index = me.index /\ m.first = me.first
        /\ m.result = me.result /\ m.known = me.known
    <3> HIDE DEF now
    <3> QED BY <1>3 DEF IsRun
  <2>2. NotWindows(file.holds)
    BY <1>9 DEF NotWindows
  <2> HIDE DEF m, now, found, me
  <2>3. Begun(m, file.holds, installed)
    BY <1>4, <2>1 DEF Begun
  <2>4. HasNoTables(m, file.holds)
    BY <1>4, <2>1, <2>2 DEF HasNoTables
  <2>5. RunTrue(m, file.holds, installed)
    BY <2>1, <2>3, <2>4 DEF RunTrue, HasTables, HasKernel, HasBanner, HasShift, Concluded, Ended
  <2> QED BY <1>2, <1>9, <2>1, <2>5, QuietStepKeeps DEF m
<1>10. ASSUME NEW f \in found,
              run' = [run EXCEPT ![r] = [now EXCEPT !.pc = "kernel", !.base = f.base, !.class = f.class]]
       PROVE  IInv'
  <2> DEFINE m == [now EXCEPT !.pc = "kernel", !.base = f.base, !.class = f.class]
  <2>1. /\ IsRun(m) /\ m.image = file /\ m.pc = "kernel" /\ m.index = me.index /\ m.first = me.first
        /\ m.result = me.result /\ m.known = me.known /\ m.facts = facts
        /\ m.base = f.base /\ m.class = f.class /\ m.searched = now.searched
    <3> HIDE DEF now
    <3> QED BY <1>3 DEF IsRun
  <2>2. f \in find_dtb(file.holds)
    BY <1>7
  <2>3. f = [base |-> f.base, class |-> f.class]
    BY <2>2 DEF find_dtb
  <2>4. Whole(facts, "windows") => now.searched \subseteq (IF f.class = "PAE" THEN {"base"} ELSE {})
    BY <1>3, <1>4, <1>6, <1>8, <2>2
  <2> HIDE DEF m, now, found, me
  <2>5. Begun(m, file.holds, installed)
    BY <1>4, <2>1 DEF Begun
  <2>6. HasTables(m, file.holds)
    BY <1>5, <2>1, <2>2, <2>3, <2>4 DEF HasTables
  <2>7. RunTrue(m, file.holds, installed)
    BY <2>1, <2>5, <2>6 DEF RunTrue, HasKernel, HasNoTables, HasBanner, HasShift, Concluded, Ended
  <2> QED BY <1>2, <1>10, <2>1, <2>7, QuietStepKeeps DEF m
<1> HIDE DEF found, now
<1> QED BY <1>2, <1>9, <1>10

\* The one answer that an image of Windows can end with.
LEMMA WindowsIsFresh ==
    ASSUME NEW image, NEW me, NEW index,
           [base |-> me.base, class |-> me.class] \in find_dtb(image)
    PROVE  /\ find_kernel(image, me.base) = {} => WindowsResult(me, "") \in Fresh(image, index)
           /\ \A k \in find_kernel(image, me.base) :
                /\ k.text \notin Broken => WindowsResult(me, k.text) \in Fresh(image, index)
                /\ k.text \notin index => WindowsResult(me, "") \in Fresh(image, index)
<1> DEFINE f0 == [base |-> me.base, class |-> me.class]
           ks == find_kernel(image, f0.base)
           answer(s) == [os |-> "windows", base |-> f0.base, class |-> f0.class,
                         symbols |-> s, shift |-> NoTask]
           one(j) == (IF j.text \in Broken THEN FreshLinux(image, index) ELSE {answer(j.text)})
                     \cup (IF j.text \in index THEN {} ELSE {answer("")})
<1>1. FreshWindows(image, index, f0) \subseteq Fresh(image, index)
  <2>1. Fresh(image, index) = UNION {FreshWindows(image, index, f) : f \in find_dtb(image)}
    BY DEF Fresh
  <2> HIDE DEF f0
  <2> QED BY <2>1 DEF f0
<1>2. FreshWindows(image, index, f0) = IF ks = {} THEN {answer("")} ELSE UNION {one(j) : j \in ks}
  BY DEF FreshWindows
<1>3. \A s : WindowsResult(me, s) = answer(s)
  BY DEF WindowsResult
<1>4. ks = find_kernel(image, me.base)
  OBVIOUS
<1>5. ASSUME NEW k \in ks
      PROVE  /\ k.text \notin Broken => answer(k.text) \in FreshWindows(image, index, f0)
             /\ k.text \notin index => answer("") \in FreshWindows(image, index, f0)
  <2>1. /\ k.text \notin Broken => answer(k.text) \in one(k)
        /\ k.text \notin index => answer("") \in one(k)
    OBVIOUS
  <2> HIDE DEF one, answer, ks, f0
  <2>2. one(k) \subseteq UNION {one(j) : j \in ks}
    OBVIOUS
  <2> QED BY <1>2, <2>1, <2>2
<1> HIDE DEF one, answer, ks, f0
<1> QED BY <1>1, <1>2, <1>3, <1>4, <1>5

\* The kernel at the place that was recorded is the first that would be found.
LEMMA WindowsKernelKeeps ==
    ASSUME World, IInv, NEW r \in Runs, WindowsKernel(r) PROVE IInv'
<1> DEFINE me == run[r]
           recalled == KernelAtRecord(file.holds, me.base, me.facts)
           now == [me EXCEPT !.searched = IF recalled = {} THEN @ \cup {"kernel"} ELSE @]
           found == IF recalled # {} THEN recalled ELSE find_kernel(file.holds, me.base)
<1>1. /\ IsRun(me) /\ file \in Files /\ Unambiguous(file.holds) /\ me.image = file
      /\ Begun(me, file.holds, installed) /\ HasTables(me, file.holds)
  BY DEF IInv, RunTrue, World
<1>2. /\ file' = file /\ installed' = installed /\ cache' = cache /\ me.pc = "kernel"
      /\ \/ /\ found = {}
            /\ run' = [run EXCEPT ![r] = [now EXCEPT !.pc = "done", !.result = WindowsResult(me, "")]]
         \/ \E k \in found : run' = [run EXCEPT ![r] = [now EXCEPT !.pc = "symbols", !.found = k]]
  BY <1>1 DEF WindowsKernel
<1>3. /\ IsRun(now) /\ now.image = file /\ now.facts = me.facts /\ now.index = me.index
      /\ now.first = me.first /\ now.result = me.result /\ now.known = me.known
      /\ now.base = me.base /\ now.class = me.class
      /\ (recalled # {} => now.searched = me.searched)
  <2> HIDE DEF recalled
  <2> QED BY <1>1 DEF IsRun
<1>4. /\ [base |-> me.base, class |-> me.class] \in find_dtb(file.holds)
      /\ me.facts = NoFacts \/ WindowsRead(file.holds, me.facts)
      /\ Whole(me.facts, "windows") => me.searched \subseteq (IF me.class = "PAE" THEN {"base"} ELSE {})
  BY <1>1, <1>2 DEF HasTables
<1>5. ASSUME WindowsRead(file.holds, me.facts)
      PROVE  \E k \in find_kernel(file.holds, me.base) :
               /\ k.at = me.facts.kernel /\ k.sig = me.facts.at
               /\ me.facts.text \in {k.text, Garbled}
  <2>1. PICK f \in find_dtb(file.holds) : f.base = me.facts.dtb
    BY <1>5 DEF WindowsRead, WindowsHolds
  <2>2. f = [base |-> me.base, class |-> me.class]
    BY <1>1, <1>4, <2>1, TablesAreOne
  <2>3. me.facts.dtb = me.base
    BY <2>1, <2>2
  <2> HIDE DEF me
  <2> QED BY <1>5, <2>3 DEF WindowsRead, WindowsHolds
<1>6. ASSUME NEW k \in found
      PROVE  \E j \in find_kernel(file.holds, me.base) :
               j.at = k.at /\ j.sig = k.sig /\ j.text = k.text
  <2>1. CASE recalled # {}
    <3>1. /\ me.facts.kernel # 0
          /\ k.at = me.facts.kernel /\ k.sig = me.facts.at /\ k.text = me.facts.text
      BY <2>1 DEF KernelAtRecord
    <3>2. NoFacts.kernel = 0
      BY DEF NoFacts
    <3>3. k.text # Garbled
      <4>1. /\ me.base \in DOMAIN file.holds.kernels
            /\ \E i \in DOMAIN file.holds.kernels[me.base] : k = file.holds.kernels[me.base][i]
        BY <2>1 DEF KernelAtRecord
      <4>2. ToldApart(Files) /\ file \in Files
        BY <1>1 DEF World
      <4> HIDE DEF me
      <4> QED BY <4>1, <4>2 DEF ToldApart
    <3> HIDE DEF me
    <3> QED BY <1>4, <1>5, <3>1, <3>2, <3>3
  <2>2. CASE recalled = {}
    BY <2>2
  <2> QED BY <2>1, <2>2
<1>7. Whole(me.facts, "windows") => recalled # {}
  <2>1. SUFFICES ASSUME Whole(me.facts, "windows") PROVE recalled # {}
    OBVIOUS
  <2>2. WindowsRead(file.holds, me.facts) /\ me.facts.text # Garbled
    <3>1. NoFacts.os # "windows"
      BY DEF NoFacts
    <3> HIDE DEF me
    <3> QED BY <1>4, <2>1, <3>1 DEF Whole
  <2>3. PICK k \in find_kernel(file.holds, me.base) :
          k.at = me.facts.kernel /\ k.sig = me.facts.at /\ k.text = me.facts.text
    BY <1>5, <2>2
  <2>4. /\ me.base \in DOMAIN file.holds.kernels /\ k.at # 0 /\ k.sig # 0
        /\ \E i \in DOMAIN file.holds.kernels[me.base] : k = file.holds.kernels[me.base][i]
    BY <1>1, KernelIsShown
  <2>5. k \in recalled
    <3> HIDE DEF me
    <3> QED BY <2>3, <2>4 DEF KernelAtRecord
  <2> QED BY <2>5
<1>8. Whole(me.facts, "windows") => now.searched \subseteq (IF me.class = "PAE" THEN {"base"} ELSE {})
  <2> HIDE DEF recalled, now
  <2> QED BY <1>3, <1>4, <1>7
<1>9. CASE /\ found = {}
           /\ run' = [run EXCEPT ![r] = [now EXCEPT !.pc = "done", !.result = WindowsResult(me, "")]]
  <2> DEFINE m == [now EXCEPT !.pc = "done", !.result = WindowsResult(me, "")]
  <2>1. IsRun(m) /\ m.image = file /\ m.pc = "done" /\ m.result = WindowsResult(me, "")
        /\ m.index = me.index
    <3> HIDE DEF now
    <3> QED BY <1>3 DEF IsRun
  <2>2. find_kernel(file.holds, me.base) = {}
    BY <1>9
  <2>3. WindowsResult(me, "") \in Fresh(file.holds, me.index)
    BY <1>4, <2>2, WindowsIsFresh
  <2>4. WindowsResult(me, "").symbols = ""
    BY DEF WindowsResult
  <2> HIDE DEF m, now, me
  <2>5. Concluded(m, file.holds)
    BY <2>1, <2>3, <2>4 DEF Concluded, NotSearched
  <2>6. RunTrue(m, file.holds, installed)
    BY <2>1, <2>5 DEF RunTrue, Begun, HasTables, HasKernel, HasNoTables, HasBanner, HasShift, Ended
  <2> QED BY <1>2, <1>9, <2>1, <2>6, QuietStepKeeps DEF m
<1>10. ASSUME NEW k \in found,
              run' = [run EXCEPT ![r] = [now EXCEPT !.pc = "symbols", !.found = k]]
       PROVE  IInv'
  <2> DEFINE m == [now EXCEPT !.pc = "symbols", !.found = k]
  <2>1. /\ IsRun(m) /\ m.image = file /\ m.pc = "symbols" /\ m.index = me.index /\ m.first = me.first
        /\ m.result = me.result /\ m.known = me.known /\ m.facts = me.facts
        /\ m.base = me.base /\ m.class = me.class /\ m.searched = now.searched /\ m.found = k
    <3> HIDE DEF now
    <3> QED BY <1>3 DEF IsRun
  <2>2. HasKernel(m, file.holds)
    <3>1. \E j \in find_kernel(file.holds, me.base) :
            j.at = k.at /\ j.sig = k.sig /\ j.text = k.text
      BY <1>6
    <3> HIDE DEF m, me
    <3> QED BY <2>1, <3>1 DEF HasKernel, SameKernel
  <2> HIDE DEF m, now, found, me
  <2>3. Begun(m, file.holds, installed)
    BY <1>1, <1>2, <2>1 DEF Begun, Ended
  <2>4. HasTables(m, file.holds)
    BY <1>4, <1>8, <2>1 DEF HasTables
  <2>5. RunTrue(m, file.holds, installed)
    BY <2>1, <2>2, <2>3, <2>4 DEF RunTrue, HasNoTables, HasBanner, HasShift, Concluded, Ended
  <2> QED BY <1>2, <1>10, <2>1, <2>5, QuietStepKeeps DEF m
<1> HIDE DEF found, now
<1> QED BY <1>2, <1>9, <1>10

\* Symbols of a kernel that are converted and installed are those of no banner.
LEMMA WindowsSymbolsKeeps ==
    ASSUME World, IInv, NEW r \in Runs, WindowsSymbols(r) PROVE IInv'
<1> DEFINE me == run[r]
           next == IF me.found.text \in Broken THEN "banner" ELSE "record"
           go == [me EXCEPT !.pc = next]
           stop == [me EXCEPT !.pc = "done", !.result = WindowsResult(me, "")]
<1>1. /\ IsRun(me) /\ file \in Files /\ Unambiguous(file.holds) /\ DOMAIN run = Runs
      /\ me.image = file
      /\ Begun(me, file.holds, installed) /\ HasTables(me, file.holds)
      /\ HasKernel(me, file.holds)
  BY DEF IInv, RunTrue, World
<1>2. /\ file' = file /\ cache' = cache /\ me.pc = "symbols"
      /\ \/ run' = [run EXCEPT ![r] = go] /\ installed' = installed \cup {me.found.text}
         \/ /\ run' = [run EXCEPT ![r] = stop] /\ installed' = installed
            /\ me.found.text \notin installed
  <2> HIDE DEF next
  <2> QED BY <1>1 DEF WindowsSymbols, IsRun, next
<1>3. PICK k \in find_kernel(file.holds, me.base) :
        k.at = me.found.at /\ k.sig = me.found.sig /\ k.text = me.found.text
  BY <1>1, <1>2 DEF HasKernel, SameKernel
<1>4. installed \subseteq installed' /\ SameBanners(installed', installed)
  <2>1. ASSUME NEW f \in Files, NEW b \in f.holds.banners PROVE b.text # me.found.text
    <3>1. /\ me.base \in DOMAIN file.holds.kernels
          /\ \E i \in DOMAIN file.holds.kernels[me.base] : k = file.holds.kernels[me.base][i]
      BY <1>1, KernelIsShown
    <3>2. ToldApart(Files)
      BY DEF World
    <3> HIDE DEF me
    <3> QED BY <1>1, <1>3, <3>1, <3>2 DEF ToldApart
  <2>2. installed' = installed \/ installed' = installed \cup {me.found.text}
    BY <1>2
  <2>3. ASSUME NEW f \in Files
        PROVE  {b \in f.holds.banners : b.text \in installed'} = {b \in f.holds.banners : b.text \in installed}
    <3> HIDE DEF me
    <3> QED BY <2>1, <2>2
  <2> HIDE DEF me
  <2> QED BY <2>2, <2>3 DEF first_known_banner, SameBanners
<1>5. CASE run' = [run EXCEPT ![r] = go]
  <2>1. /\ IsRun(go) /\ go.image = file /\ go.pc = next /\ go.index = me.index /\ go.first = me.first
        /\ go.result = me.result /\ go.known = me.known /\ go.facts = me.facts
        /\ go.base = me.base /\ go.class = me.class /\ go.searched = me.searched /\ go.found = me.found
    <3> HIDE DEF next
    <3> QED BY <1>1 DEF IsRun
  <2>2. me.known.os # "linux"
    BY <1>1, <1>2 DEF Begun, Ended
  <2>3. Begun(go, file.holds, installed)
    <3> HIDE DEF go, me
    <3> QED BY <1>1, <1>2, <2>1 DEF Begun, Ended
  <2>4. HasTables(go, file.holds) /\ HasKernel(go, file.holds)
    <3> HIDE DEF go, me
    <3> QED BY <1>1, <1>2, <2>1 DEF HasTables, HasKernel, SameKernel
  <2>5. HasNoTables(go, file.holds)
    <3>1. SUFFICES ASSUME go.pc = "banner" PROVE NotWindows(file.holds) /\ go.known.os # "linux"
      BY <2>1 DEF HasNoTables
    <3>2. me.found.text \in Broken
      BY <2>1, <3>1
    <3>3. [base |-> me.base, class |-> me.class] \in find_dtb(file.holds)
      BY <1>1, <1>2 DEF HasTables
    <3>4. ASSUME NEW f \in find_dtb(file.holds)
          PROVE  \E j \in find_kernel(file.holds, f.base) : j.text \in Broken
      <4>1. f = [base |-> me.base, class |-> me.class]
        BY <1>1, <3>3, TablesAreOne
      <4>2. f.base = me.base
        BY <4>1
      <4> HIDE DEF me
      <4> QED BY <1>3, <3>2, <4>2
    <3> QED BY <2>1, <2>2, <3>4 DEF NotWindows
  <2>6. go.pc \in {"banner", "record"}
    BY <2>1
  <2> HIDE DEF go, me, next
  <2>7. RunTrue(go, file.holds, installed)
    BY <2>3, <2>4, <2>5, <2>6 DEF RunTrue, HasBanner, HasShift, Concluded, Ended
  <2>8. RunTrue(go, file.holds, installed')
    BY <1>1, <1>4, <2>7, RunStaysTrue DEF SameBanners
  <2>9. Writes(go, cache', file.id)
    BY <2>6 DEF Writes
  <2> QED BY <1>2, <1>4, <1>5, <2>1, <2>8, <2>9, StepKeeps
<1>6. CASE run' = [run EXCEPT ![r] = stop] /\ installed' = installed /\ me.found.text \notin installed
  <2>1. IsRun(stop) /\ stop.image = file /\ stop.pc = "done" /\ stop.result = WindowsResult(me, "")
        /\ stop.index = me.index
    BY <1>1 DEF IsRun
  <2>2. [base |-> me.base, class |-> me.class] \in find_dtb(file.holds) /\ me.index \subseteq installed
    BY <1>1, <1>2 DEF HasTables, Begun, Ended
  <2>3. k.text \notin me.index
    BY <1>3, <1>6, <2>2
  <2>4. WindowsResult(me, "") \in Fresh(file.holds, me.index)
    <3> HIDE DEF me
    <3> QED BY <2>2, <2>3, WindowsIsFresh
  <2>5. WindowsResult(me, "").symbols = ""
    BY DEF WindowsResult
  <2> HIDE DEF stop, me
  <2>6. Concluded(stop, file.holds)
    BY <2>1, <2>4, <2>5 DEF Concluded, NotSearched
  <2>7. RunTrue(stop, file.holds, installed)
    BY <2>1, <2>6 DEF RunTrue, Begun, HasTables, HasKernel, HasNoTables, HasBanner, HasShift, Ended
  <2> QED BY <1>2, <1>6, <2>1, <2>7, QuietStepKeeps
<1> HIDE DEF go, stop, me
<1> QED BY <1>2, <1>5, <1>6

LEMMA WindowsPutKeeps ==
    ASSUME World, IInv, NEW r \in Runs, WindowsPut(r) PROVE IInv'
<1> DEFINE me == run[r]
           already_known == /\ me.facts.os = "windows"
                            /\ me.facts.kernel = me.found.at /\ me.facts.at = me.found.sig
                            /\ me.facts.dtb = me.base /\ me.facts.text = me.found.text
           line == [NoFacts EXCEPT !.os = "windows", !.at = me.found.sig,
                             !.text = me.found.text, !.kernel = me.found.at, !.dtb = me.base]
           answer == WindowsResult(me, me.found.text)
           answered == [me EXCEPT !.result = answer]
<1>1. /\ file' = file /\ installed' = installed /\ me.pc = "record"
      /\ Put(r, already_known, line, answer)
  BY DEF WindowsPut
<1>2. /\ IsRun(me) /\ file \in Files /\ Unambiguous(file.holds)
      /\ HasTables(me, file.holds) /\ HasKernel(me, file.holds)
  BY DEF IInv, RunTrue, World
<1>3. PICK k \in find_kernel(file.holds, me.base) :
        k.at = me.found.at /\ k.sig = me.found.sig /\ k.text = me.found.text
  BY <1>1, <1>2 DEF HasKernel, SameKernel
<1>4. /\ [base |-> me.base, class |-> me.class] \in find_dtb(file.holds)
      /\ me.found.text \notin Broken
      /\ Whole(me.facts, "windows") => me.searched \subseteq (IF me.class = "PAE" THEN {"base"} ELSE {})
  BY <1>1, <1>2 DEF HasTables, HasKernel
<1>5. Written(file.holds, line, installed)
  <2>1. /\ line.os = "windows" /\ line.at = me.found.sig /\ line.text = me.found.text
        /\ line.kernel = me.found.at /\ line.dtb = me.base /\ DOMAIN line = DOMAIN NoFacts
    BY DEF NoFacts
  <2>2. \E f \in find_dtb(file.holds) : f.base = me.base
    BY <1>4
  <2> HIDE DEF line, me
  <2>3. WindowsHolds(file.holds, line, line.text)
    BY <1>3, <1>4, <2>1, <2>2 DEF WindowsHolds
  <2> QED BY <2>1, <2>3 DEF Written
<1>6. answer \in Fresh(file.holds, me.index)
  <2>1. WindowsResult(me, k.text) \in Fresh(file.holds, me.index)
    <3> HIDE DEF me
    <3> QED BY <1>3, <1>4, WindowsIsFresh
  <2> QED BY <1>3, <2>1
<1>7. NotSearched(answered)
  <2>1. /\ answer.os = "windows" /\ answer.class = me.class
        /\ answered.result = answer /\ answered.facts = me.facts /\ answered.searched = me.searched
    BY <1>2 DEF WindowsResult, IsRun
  <2> HIDE DEF answered, me, answer
  <2>2. Unconfirmable(answer) = IF me.class = "PAE" THEN {"base"} ELSE {}
    BY <2>1 DEF Unconfirmable
  <2> QED BY <1>4, <2>1, <2>2 DEF NotSearched
<1> HIDE DEF line, answer, already_known
<1> QED BY <1>1, <1>5, <1>6, <1>7, PutKeeps

LEMMA IdleIsRun ==
    ASSUME NEW image PROVE IsRun(Idle(image)) /\ Idle(image).image = image /\ Idle(image).pc = "idle"
  BY DEF Idle, IsRun

\* What comes to the path is another capture; what was written about the one before stays.
LEMMA ChangeKeeps == ASSUME World, IInv, Change PROVE IInv'
<1>1. file' \in Files /\ installed' = installed /\ cache' = cache
  BY DEF Change, World, IInv
<1>2. run' = [r \in Runs |-> Idle(file')]
  BY DEF Change, World
<1>3. ASSUME NEW r \in Runs
      PROVE  /\ IsRun(run'[r]) /\ run'[r].image = file'
             /\ RunTrue(run'[r], file'.holds, installed') /\ Writes(run'[r], cache', file'.id)
  <2>1. run'[r] = Idle(file')
    BY <1>2
  <2>2. IsRun(run'[r]) /\ run'[r].image = file' /\ run'[r].pc = "idle"
    BY <2>1, IdleIsRun
  <2> QED BY <2>2 DEF RunTrue, Begun, HasTables, HasKernel, HasNoTables, HasBanner, HasShift,
                      Concluded, Writes, Ended
<1>4. DOMAIN run' = Runs
  BY <1>2
<1>5. IsCache(cache') /\ CacheIsTrue(cache', installed')
  BY <1>1 DEF IInv
<1> QED BY <1>1, <1>3, <1>4, <1>5 DEF IInv

LEMMA NextIInv == ASSUME World PROVE IInv /\ [Next]_vars => IInv'
<1> SUFFICES ASSUME IInv, [Next]_vars PROVE IInv'
  OBVIOUS
<1>1. CASE UNCHANGED vars
  BY <1>1 DEF vars, IInv
<1>2. ASSUME NEW r \in Runs, Open(r) PROVE IInv'
  BY <1>2, OpenKeeps
<1>3. ASSUME NEW r \in Runs, LinuxBanner(r) \/ LinuxShift(r) \/ LinuxClass(r) \/ LinuxPut(r)
      PROVE  IInv'
  BY <1>3, LinuxBannerKeeps, LinuxShiftKeeps, LinuxClassKeeps, LinuxPutKeeps
<1>4. ASSUME NEW r \in Runs, WindowsBase(r) \/ WindowsKernel(r) \/ WindowsSymbols(r) \/ WindowsPut(r)
      PROVE  IInv'
  BY <1>4, WindowsBaseKeeps, WindowsKernelKeeps, WindowsSymbolsKeeps, WindowsPutKeeps
<1>5. ASSUME NEW r \in Runs, WriteTab(r) \/ WriteFacts(r) \/ WriteNewline(r) \/ WriteFails(r)
      PROVE  IInv'
  BY <1>5, WriteTabKeeps, WriteFactsKeeps, WriteNewlineKeeps
<1>6. CASE Change
  BY <1>6, ChangeKeeps
<1> QED BY <1>1, <1>2, <1>3, <1>4, <1>5, <1>6 DEF Next

-----------------------------------------------------------------------------
(* The theorems.                                                           *)

\* image_cache.rs: what can be read in the cache about an image is what would be found
\* in it, however the writes of its runs mix and wherever they are cut short, and every
\* run has what the search would have given it so far.
THEOREM Invariance == ASSUME World PROVE Spec => []IInv
<1>1. Init => IInv
  BY InitIInv
<1>2. IInv /\ [Next]_vars => IInv'
  BY NextIInv
<1> QED BY <1>1, <1>2, PTL DEF Spec

\* image_cache.rs:4, facts are "checked, not trusted": however the runs over a capture
\* overlap, a run ends with what it would have ended with had there been no cache.
THEOREM ConclusionsAreFresh == ASSUME World PROVE Spec => []RunIsFresh
<1>1. IInv => RunIsFresh
  BY DEF IInv, RunTrue, Concluded, RunIsFresh, Ended
<1> QED BY <1>1, Invariance, PTL

\* automagic/mod.rs:72: a run that read a whole line about its image searches for none
\* of the answers that can be confirmed.
THEOREM KnownStaysKnown == ASSUME World PROVE Spec => []KnownIsNotSearched
<1>1. IInv => KnownIsNotSearched
  BY DEF IInv, RunTrue, Concluded, NotSearched, Whole, KnownIsNotSearched, Ended
<1> QED BY <1>1, Invariance, PTL
=============================================================================
