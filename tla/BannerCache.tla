---------------------------- MODULE BannerCache ----------------------------
(***************************************************************************)
(* The cache of kernel banners (banner_cache in symbols/intermed.rs): one  *)
(* append-only file, banners.tsv, shared by every run.  A run reads the    *)
(* whole file once, into a table it keeps in memory, and appends a line    *)
(* for every symbol file it had to open itself.                            *)
(*                                                                         *)
(* writeln! on a file hands every piece of its format string to the        *)
(* operating system in a write of its own, so a line reaches the file as   *)
(* four fragments: the key, a tab, the banner and a newline.  The log is   *)
(* the sequence of the fragments, and reading it puts lines together       *)
(* again, whoever wrote their pieces.                                      *)
(***************************************************************************)
EXTENDS Integers, Sequences, FiniteSets, FiniteSetsExt

CONSTANTS
    Processes,  \* the processes
    Files,      \* the symbol files
    Versions,   \* what a symbol file may hold; a version names its banner
    Plain,      \* the versions that declare no banner
    Shows,      \* Shows[v]: the modification time, in seconds, and the length of version v
    MaxRestarts, \* bound: how many processes are started after the first ones
    MaxChanges, \* bound: how often a symbol file is replaced
    MaxFailures, \* bound: how many calls of the file system fail
    Unknown,    \* the table has no answer
    Garbage     \* a banner put together from pieces of several lines

NoBanner == "none"

ASSUME VersionsAssumption ==
       /\ Plain \subseteq Versions
       /\ DOMAIN Shows = Versions
       /\ MaxRestarts \in Nat /\ MaxChanges \in Nat /\ MaxFailures \in Nat
       /\ Unknown # Garbage /\ {Unknown, Garbage} \cap (Versions \cup {NoBanner}) = {}

VARIABLES
    file,       \* file[f]: the version symbol file f holds now
    changes,    \* how often a symbol file was replaced
    log,        \* banners.tsv, a sequence of fragments
    restarts,   \* how many processes were started
    failures,   \* how many calls of the file system failed
    step,       \* where each run is
    loaded,     \* whether the run has read banners.tsv yet
    table,      \* what the run has in memory: an answer for every key
    asked,      \* the symbol file the run asks about
    key,        \* the stamp the run last took
    banner,     \* the banner the run read out of the symbol file
    answer,     \* what the last call of banner() returned
    steady,     \* the file asked about has not changed since the call began
    said,       \* what each symbol file declared while it looked so: <<file, look, banner>>;
                \* a file that could not be read says nothing
    unlogged    \* the stamps a run had an answer for and could not write down

bannerVars == <<file, changes, log, restarts, failures, step, loaded, table, asked, key, banner,
                answer, steady, said, unlogged>>

Looks == {Shows[v] : v \in Versions}
Keys == Files \X Looks

Tab == [kind |-> "tab"]
Newline == [kind |-> "newline"]
KeyText(k) == [kind |-> "key", val |-> k]
BannerText(b) == [kind |-> "banner", val |-> b]

EmptyTable == [k \in Keys |-> Unknown]

---------------------------------------------------------------------------
(* Reading banners.tsv back.                                               *)

Newlines == {i \in 1..Len(log) : log[i] = Newline}

\* lines(): a line ends at a newline, or at the end of the file.
LineEnds == Newlines \cup ({Len(log) + 1} \ {i + 1 : i \in Newlines \cup {0}})
Line(end) == SubSeq(log, Max({0} \cup {i \in Newlines : i < end}) + 1, end - 1)

\* Four tab-separated fields are the key: the line begins with a key fragment
\* that nothing but a tab follows.
Identifies(line, k) ==
    /\ line # <<>>
    /\ line[1] = KeyText(k)
    /\ Len(line) > 1 => line[2] = Tab

\* The rest of the line is the banner.
Declared(line) ==
    LET rest == SubSeq(line, 3, Len(line)) IN
      IF rest = <<>> THEN NoBanner
      ELSE IF Len(rest) = 1 /\ rest[1].kind = "banner" THEN rest[1].val
      ELSE Garbage

\* Later lines replace earlier ones.
TableOf ==
    [k \in Keys |->
        LET ends == {e \in LineEnds : Identifies(Line(e), k)} IN
          IF ends = {} THEN Unknown ELSE Declared(Line(Max(ends)))]

---------------------------------------------------------------------------

Declares(v) == IF v \in Plain THEN NoBanner ELSE v

\* Mutant of stamp: the name of the file alone.
stamp_of_name(f) == <<f, CHOOSE l \in Looks : TRUE>>

\* stamp: where the file is, and what its metadata show at this moment.  Versions
\* of one length that were written within a second show the same.
stamp(f) == <<f, Shows[file[f]]>>

BannerInit ==
    /\ file \in [Files -> Versions]
    /\ changes = 0
    /\ log = <<>>
    /\ restarts = 0
    /\ failures = 0
    /\ step = [r \in Processes |-> "idle"]
    /\ loaded = [r \in Processes |-> FALSE]
    /\ table = [r \in Processes |-> EmptyTable]
    /\ asked \in [Processes -> Files]
    /\ key = [r \in Processes |-> stamp(asked[r])]
    /\ banner = [r \in Processes |-> NoBanner]
    /\ answer = [r \in Processes |-> Unknown]
    /\ steady = [r \in Processes |-> TRUE]
    /\ said = {<<f, Shows[file[f]], Declares(file[f])>> : f \in Files}
    /\ unlogged = {}

\* A call of the file system fails, or none does.
Fails == failures < MaxFailures /\ failures' = failures + 1
Works == UNCHANGED failures

Goto(r, label) == step' = [step EXCEPT ![r] = label]

Return(r, value) ==
    /\ answer' = [answer EXCEPT ![r] = value]
    /\ Goto(r, "idle")

\* banner() is called: get takes the stamp of the file, or gives up on the table
\* where the metadata cannot be had.
Ask(r) ==
    /\ step[r] = "idle"
    /\ \E f \in Files :
        /\ asked' = [asked EXCEPT ![r] = f]
        /\ \/ Works /\ key' = [key EXCEPT ![r] = stamp(f)] /\ Goto(r, "look")
           \/ Fails /\ UNCHANGED key /\ Goto(r, "read")
    /\ answer' = [answer EXCEPT ![r] = Unknown]
    /\ steady' = [steady EXCEPT ![r] = TRUE]
    /\ UNCHANGED <<file, changes, log, restarts, loaded, table, banner, said, unlogged>>

\* table(): filled from banners.tsv the first time, if that can be read.
Tabled(r, known) ==
    \/ Works /\ known = IF loaded[r] THEN table[r] ELSE TableOf
    \/ Fails /\ ~loaded[r] /\ known = EmptyTable

\* The rest of get: what the table says of the key is believed.
Look(r) ==
    /\ step[r] = "look"
    /\ \E known \in {table[r], TableOf, EmptyTable} :
        /\ Tabled(r, known)
        /\ table' = [table EXCEPT ![r] = known]
        /\ IF known[key[r]] = Unknown
           THEN Goto(r, "read") /\ UNCHANGED answer
           ELSE Return(r, known[key[r]])
    /\ loaded' = [loaded EXCEPT ![r] = TRUE]
    /\ UNCHANGED <<file, changes, log, restarts, asked, key, banner, steady, said, unlogged>>

\* banner_uncached: the symbol file itself is read.  One that cannot be read
\* (raw) is taken for one without a banner.
Read(r) ==
    /\ step[r] = "read"
    /\ \/ /\ Works
          /\ banner' = [banner EXCEPT ![r] = Declares(file[asked[r]])]
          /\ UNCHANGED said
       \/ /\ Fails
          /\ banner' = [banner EXCEPT ![r] = NoBanner]
          /\ said' = said \cup {<<asked[r], Shows[file[asked[r]]], NoBanner>>}
    /\ Goto(r, "stamp")
    /\ UNCHANGED <<file, changes, log, restarts, loaded, table, asked, key, answer, steady,
                   unlogged>>

\* put stamps the file again and records the banner in memory.  A banner the
\* table already has is not appended.
Remember(r) ==
    /\ step[r] = "stamp"
    /\ LET k == stamp(asked[r]) IN
        /\ key' = [key EXCEPT ![r] = k]
        /\ \E known \in {table[r], TableOf, EmptyTable} :
            /\ Tabled(r, known)
            /\ table' = [table EXCEPT ![r] = [known EXCEPT ![k] = banner[r]]]
            /\ IF known[k] = banner[r]
               THEN Return(r, banner[r])
               ELSE Goto(r, "key") /\ UNCHANGED answer
    /\ loaded' = [loaded EXCEPT ![r] = TRUE]
    /\ UNCHANGED <<file, changes, log, restarts, asked, banner, steady, said, unlogged>>

\* Nothing is recorded where the file cannot be stamped for put, or where
\* banners.tsv cannot be opened.
PutFails(r) ==
    /\ step[r] \in {"stamp", "key"}
    /\ Fails
    /\ unlogged' = unlogged \cup {stamp(asked[r])}
    /\ Return(r, banner[r])
    /\ UNCHANGED <<file, changes, log, restarts, loaded, table, asked, key, banner, steady, said>>

\* What no write of a line touches.
unwritten == <<file, changes, restarts, failures, loaded, table, asked, key, banner, steady, said>>

\* The four writes of writeln!.  Writing an empty banner is no write at all.
WriteKey(r) ==
    /\ step[r] = "key"
    /\ log' = Append(log, KeyText(key[r]))
    /\ Goto(r, "tab")
    /\ UNCHANGED <<unwritten, answer, unlogged>>

WriteTab(r) ==
    /\ step[r] = "tab"
    /\ log' = Append(log, Tab)
    /\ Goto(r, IF banner[r] = NoBanner THEN "newline" ELSE "banner")
    /\ UNCHANGED <<unwritten, answer, unlogged>>

WriteBanner(r) ==
    /\ step[r] = "banner"
    /\ log' = Append(log, BannerText(banner[r]))
    /\ Goto(r, "newline")
    /\ UNCHANGED <<unwritten, answer, unlogged>>

\* Mutant of WriteNewline: the line is written with write! and not writeln!.
WriteNoNewline(r) ==
    /\ step[r] = "newline"
    /\ Return(r, banner[r])
    /\ UNCHANGED <<unwritten, log, unlogged>>

WriteNewline(r) ==
    /\ step[r] = "newline"
    /\ log' = Append(log, Newline)
    /\ Return(r, banner[r])
    /\ unlogged' = unlogged \ {key[r]}
    /\ UNCHANGED unwritten

\* A write of the line after the first fails, which writeln!'s caller ignores.
WriteFails(r) ==
    /\ step[r] \in {"tab", "banner", "newline"}
    /\ Fails
    /\ Return(r, banner[r])
    /\ UNCHANGED <<file, changes, log, restarts, loaded, table, asked, key, banner, steady,
                   said, unlogged>>

\* A process ends, or is killed, and another takes its place.
Restart(r) ==
    /\ restarts < MaxRestarts
    /\ restarts' = restarts + 1
    /\ loaded' = [loaded EXCEPT ![r] = FALSE]
    /\ table' = [table EXCEPT ![r] = EmptyTable]
    /\ Goto(r, "idle")
    /\ answer' = [answer EXCEPT ![r] = Unknown]
    /\ UNCHANGED <<file, changes, log, failures, asked, key, banner, steady, said, unlogged>>

Exit(r) == step[r] = "idle" /\ loaded[r] /\ Restart(r)
Kill(r) == step[r] # "idle" /\ Restart(r)

\* Somebody replaces a symbol file.
Replace ==
    /\ changes < MaxChanges
    /\ changes' = changes + 1
    /\ \E f \in Files, v \in Versions :
        /\ v # file[f]
        /\ file' = [file EXCEPT ![f] = v]
        /\ said' = said \cup {<<f, Shows[v], Declares(v)>>}
        /\ steady' = [r \in Processes |-> steady[r] /\ asked[r] # f]
    /\ UNCHANGED <<log, restarts, failures, step, loaded, table, asked, key, banner, answer,
                   unlogged>>

---------------------------------------------------------------------------

Proceed(r) ==
    \/ Look(r) \/ Read(r) \/ Remember(r) \/ PutFails(r)
    \/ WriteKey(r) \/ WriteTab(r) \/ WriteBanner(r) \/ WriteNewline(r)

Others(r) == Processes \ {r}
Quiet(S) == \A r \in S : step[r] = "idle"

\* Processes that take turns, finish the lines they begin, and find the symbol
\* files unchanged while they work.
TurnsNext ==
    \/ \E r \in Processes : Quiet(Others(r)) /\ (Ask(r) \/ Proceed(r) \/ Exit(r))
    \/ Quiet(Processes) /\ Replace

\* Processes that overlap, without a crash or a change.
OverlapNext == \E r \in Processes : Ask(r) \/ Proceed(r) \/ Exit(r)

\* Processes that may be killed anywhere, or leave a line unfinished.
KillNext == OverlapNext \/ \E r \in Processes : Kill(r) \/ WriteFails(r)

\* Symbol files that change at any moment.
ChangeNext == OverlapNext \/ Replace

TurnsSpec == BannerInit /\ [][TurnsNext]_bannerVars
OverlapSpec == BannerInit /\ [][OverlapNext]_bannerVars
KillSpec == BannerInit /\ [][KillNext]_bannerVars
ChangeSpec == BannerInit /\ [][ChangeNext]_bannerVars

---------------------------------------------------------------------------

\* The file said so when it last looked the way it looks now.
Said(f, b) == <<f, Shows[file[f]], b>> \in said

\* intermed.rs:584: "The answer only changes when a file does": a call during which
\* the symbol file does not change returns what that file declared while it had the
\* modification time and the length it has now.
AnswersAreTrue ==
    \A r \in Processes : step[r] = "idle" /\ answer[r] # Unknown /\ steady[r] =>
        Said(asked[r], answer[r])

\* intermed.rs:594: "nothing is trusted from a file that has changed": the call
\* returns what the file declares now, or nothing where it could not be read.
NothingStaleIsTrusted ==
    \A r \in Processes : step[r] = "idle" /\ answer[r] # Unknown /\ steady[r] =>
        answer[r] \in {Declares(file[asked[r]]), NoBanner}

\* What a run that worked undisturbed was told, and could write down, the next
\* process is told without opening the symbol file: the log alone holds an answer,
\* and a true one.
AnswersAreKept ==
    Quiet(Processes) =>
        \A r \in Processes :
            answer[r] # Unknown /\ steady[r] /\ stamp(asked[r]) \notin unlogged =>
                Said(asked[r], TableOf[stamp(asked[r])])

\* intermed.rs:665: "Appended rather than rewritten: a stale line is simply
\* never matched again, and two runs at once cannot lose each other's work."
NoLostWork ==
    Quiet(Processes) =>
        \A r \in Processes : answer[r] # Unknown /\ stamp(asked[r]) \notin unlogged =>
            TableOf[stamp(asked[r])] # Unknown
===========================================================================
