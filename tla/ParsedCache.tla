---------------------------- MODULE ParsedCache ----------------------------
(***************************************************************************)
(* The on-disk cache of parsed symbol files (parsed_cache in               *)
(* symbols/intermed.rs) as several runs of the program share it.  A run    *)
(* asks the cache, parses the symbol file when the cache has no answer,    *)
(* and publishes what it parsed by writing a ".partial" file and renaming  *)
(* it into place.  Runs are separate processes: they interleave between    *)
(* any two file-system calls, they may be killed between any two, and      *)
(* another run may clear the cache at any time.                            *)
(*                                                                         *)
(* A stored file is two blocks, enough to tell a whole one from a          *)
(* truncated one and from one two writers wrote into at once.  Open file   *)
(* descriptors name inodes, so a rename does not disturb a writer that     *)
(* still holds the file open.                                              *)
(***************************************************************************)
EXTENDS Naturals, FiniteSets

CONSTANTS
    Runs,       \* the processes that share the cache directory
    Sources,    \* the paths of the symbol files
    Versions,   \* what a symbol file may contain, one value per content
    Small,      \* the versions too small to be worth storing
    Broken,     \* the versions that do not parse
    Keys,       \* the names path_for can produce
    Key,        \* Key[s][v]: the name for path s while it holds version v
    Inodes,     \* the files of the cache directory
    Sources0,   \* what every path holds at the start
    MaxChanges, \* bound: how often a symbol file is replaced
    None        \* no inode, no block, no answer

ASSUME ConstantsAssumption ==
    /\ Small \subseteq Versions
    /\ Broken \subseteq Versions
    /\ Key \in [Sources -> [Versions -> Keys]]
    /\ Sources0 \in [Sources -> Versions]
    /\ None \notin Versions \cup Inodes
    /\ MaxChanges \in Nat

\* Two installed symbol files with one name hold the same thing.  path_for
\* keeps the file name, the second it was modified and its length, and drops
\* the directory, so this is an assumption about what is installed.
ASSUME DistinctNames ==
    \A s, t \in Sources :
        Key[s][Sources0[s]] = Key[t][Sources0[t]] => Sources0[s] = Sources0[t]

VARIABLES
    source,     \* source[s]: the version path s holds now
    changes,    \* how often a symbol file was replaced
    content,    \* content[i]: the two blocks of inode i
    final,      \* final[k]: the inode named k.bin, or None
    partial,    \* partial[k]: the inode named k.partial, or None
    pc,         \* where each run is
    path,       \* the symbol file the run loads
    key,        \* the cache name the run last computed
    fd,         \* the inode the run writes to, or None
    parsed,     \* what the run parsed, or None
    answer,     \* what load_isf_file returned, or None
    steady      \* the source has not changed since the run started its load

vars == <<source, changes, content, final, partial, pc, path, key, fd,
          parsed, answer, steady>>
disk == <<source, changes, content, final, partial>>

Failed == "failed"    \* load_isf_file returned an error
Garbled == "garbled"  \* a mixture of two versions that happened to decode
Answers == Versions \cup {Failed, Garbled, None}

Blocks == Versions \cup {None}
Content == [head : Blocks, tail : Blocks]
Empty == [head |-> None, tail |-> None]

Labels == {"idle", "get", "parse", "stat", "open", "head", "tail", "rename", "done"}

TypeOK ==
    /\ source \in [Sources -> Versions]
    /\ changes \in 0..MaxChanges
    /\ content \in [Inodes -> Content]
    /\ final \in [Keys -> Inodes \cup {None}]
    /\ partial \in [Keys -> Inodes \cup {None}]
    /\ pc \in [Runs -> Labels]
    /\ path \in [Runs -> Sources]
    /\ key \in [Runs -> Keys]
    /\ fd \in [Runs -> Inodes \cup {None}]
    /\ parsed \in [Runs -> Versions \cup {None}]
    /\ answer \in [Runs -> Answers]
    /\ steady \in [Runs -> BOOLEAN]

Init ==
    /\ source = Sources0
    /\ changes = 0
    /\ content = [i \in Inodes |-> Empty]
    /\ final = [k \in Keys |-> None]
    /\ partial = [k \in Keys |-> None]
    /\ pc = [r \in Runs |-> "idle"]
    /\ path \in [Runs -> Sources]
    /\ key = [r \in Runs |-> Key[path[r]][source[path[r]]]]
    /\ fd = [r \in Runs |-> None]
    /\ parsed = [r \in Runs |-> None]
    /\ answer = [r \in Runs |-> None]
    /\ steady = [r \in Runs |-> TRUE]

---------------------------------------------------------------------------

\* Mutant of path_for: one name for every symbol file.
path_for_shared(s) == CHOOSE k \in Keys : TRUE

\* path_for: the name says what the file looks like at this moment.
path_for(s) == Key[s][source[s]]

Goto(r, label) == pc' = [pc EXCEPT ![r] = label]

Return(r, value) ==
    /\ answer' = [answer EXCEPT ![r] = value]
    /\ Goto(r, "done")

\* Mutant of Decoded: the section lengths are not checked against the data.
DecodedUnchecked(c) ==
    IF c.head = None THEN {None} ELSE IF c.head = c.tail THEN {c.head} ELSE {Garbled}

\* split and section: a block that is missing makes a length or a section
\* undecodable.  Two versions mixed in one file may or may not decode.
Decoded(c) ==
    IF None \in {c.head, c.tail} THEN {None}
    ELSE IF c.head = c.tail THEN {c.head}
    ELSE {None, Garbled}

Unlinked(i) ==
    /\ \A k \in Keys : final[k] # i /\ partial[k] # i
    /\ \A r \in Runs : fd[r] # i

---------------------------------------------------------------------------

\* load_isf_file is called; get stats the symbol file to name the entry.
Start(r) ==
    /\ pc[r] \in {"idle", "done"}
    /\ \E s \in Sources :
        /\ path' = [path EXCEPT ![r] = s]
        /\ key' = [key EXCEPT ![r] = path_for(s)]
    /\ answer' = [answer EXCEPT ![r] = None]
    /\ steady' = [steady EXCEPT ![r] = TRUE]
    /\ Goto(r, "get")
    /\ UNCHANGED <<disk, fd, parsed>>

\* Mutant of Get: a miss leaves the run in a state nothing handles.
GetLost(r) ==
    /\ pc[r] = "get"
    /\ Goto(r, "missed")
    /\ UNCHANGED <<disk, path, key, fd, parsed, answer, steady>>

\* get reads the entry: an answer if it decodes, a parse if it is not there
\* or does not decode.
Get(r) ==
    /\ pc[r] = "get"
    /\ \E found \in (IF final[key[r]] = None THEN {None}
                     ELSE Decoded(content[final[key[r]]])) :
         IF found = None
         THEN Goto(r, "parse") /\ UNCHANGED answer
         ELSE Return(r, found)
    /\ UNCHANGED <<disk, path, key, fd, parsed, steady>>

\* The symbol file itself is read and parsed.  Only a large one is stored.
Parse(r) ==
    /\ pc[r] = "parse"
    /\ LET version == source[path[r]] IN
         IF version \in Broken
         THEN Return(r, Failed) /\ UNCHANGED parsed
         ELSE IF version \in Small
         THEN Return(r, version) /\ UNCHANGED parsed
         ELSE /\ parsed' = [parsed EXCEPT ![r] = version]
              /\ Goto(r, "stat")
              /\ UNCHANGED answer
    /\ UNCHANGED <<disk, path, key, fd, steady>>

\* put names the entry by what the symbol file looks like now.
Stat(r) ==
    /\ pc[r] = "stat"
    /\ key' = [key EXCEPT ![r] = path_for(path[r])]
    /\ Goto(r, "open")
    /\ UNCHANGED <<disk, path, fd, parsed, answer, steady>>

\* fs::write opens k.partial, creating it or truncating the one that is there.
Open(r) ==
    /\ pc[r] = "open"
    /\ \E i \in Inodes :
        /\ IF partial[key[r]] = None THEN Unlinked(i) ELSE i = partial[key[r]]
        /\ partial' = [partial EXCEPT ![key[r]] = i]
        /\ content' = [content EXCEPT ![i] = Empty]
        /\ fd' = [fd EXCEPT ![r] = i]
    /\ Goto(r, "head")
    /\ UNCHANGED <<source, changes, final, path, key, parsed, answer, steady>>

WriteHead(r) ==
    /\ pc[r] = "head"
    /\ content' = [content EXCEPT ![fd[r]] =
                      [head |-> parsed[r], tail |-> content[fd[r]].tail]]
    /\ Goto(r, "tail")
    /\ UNCHANGED <<source, changes, final, partial, path, key, fd, parsed, answer, steady>>

\* The last block is written and the file closed.
WriteTail(r) ==
    /\ pc[r] = "tail"
    /\ content' = [content EXCEPT ![fd[r]] =
                      [head |-> content[fd[r]].head, tail |-> parsed[r]]]
    /\ fd' = [fd EXCEPT ![r] = None]
    /\ Goto(r, "rename")
    /\ UNCHANGED <<source, changes, final, partial, path, key, parsed, answer, steady>>

\* Mutant of Rename: the run insists on a .partial file to move.
RenameWaits(r) ==
    /\ pc[r] = "rename"
    /\ partial[key[r]] # None
    /\ final' = [final EXCEPT ![key[r]] = partial[key[r]]]
    /\ partial' = [partial EXCEPT ![key[r]] = None]
    /\ Return(r, parsed[r])
    /\ parsed' = [parsed EXCEPT ![r] = None]
    /\ UNCHANGED <<source, changes, content, path, key, fd, steady>>

\* rename moves whatever k.partial names now, and fails silently when another
\* run has already moved it away.
Rename(r) ==
    /\ pc[r] = "rename"
    /\ LET k == key[r] IN
         IF partial[k] = None THEN UNCHANGED <<final, partial>>
         ELSE /\ final' = [final EXCEPT ![k] = partial[k]]
              /\ partial' = [partial EXCEPT ![k] = None]
    /\ Return(r, parsed[r])
    /\ parsed' = [parsed EXCEPT ![r] = None]
    /\ UNCHANGED <<source, changes, content, path, key, fd, steady>>

\* fs::write failed (the disk is full): the partial file stays, the load
\* still succeeds.
WriteFails(r) ==
    /\ pc[r] \in {"open", "head", "tail"}
    /\ fd' = [fd EXCEPT ![r] = None]
    /\ Return(r, parsed[r])
    /\ parsed' = [parsed EXCEPT ![r] = None]
    /\ UNCHANGED <<disk, path, key, steady>>

\* The process is killed: its descriptors close, its files stay as they are.
Crash(r) ==
    /\ pc[r] \notin {"idle", "done"}
    /\ fd' = [fd EXCEPT ![r] = None]
    /\ parsed' = [parsed EXCEPT ![r] = None]
    /\ Goto(r, "idle")
    /\ UNCHANGED <<disk, path, key, answer, steady>>

\* Another run was asked to clear the cache: remove_dir_all unlinks the
\* entries one at a time.
ClearEntry ==
    /\ \E k \in Keys :
        \/ /\ final[k] # None
           /\ final' = [final EXCEPT ![k] = None]
           /\ UNCHANGED partial
        \/ /\ partial[k] # None
           /\ partial' = [partial EXCEPT ![k] = None]
           /\ UNCHANGED final
    /\ UNCHANGED <<source, changes, content, pc, path, key, fd, parsed, answer, steady>>

\* Somebody replaces a symbol file by another version.
Replace ==
    /\ changes < MaxChanges
    /\ changes' = changes + 1
    /\ \E s \in Sources, v \in Versions :
        /\ v # source[s]
        /\ source' = [source EXCEPT ![s] = v]
        /\ steady' = [r \in Runs |-> steady[r] /\ path[r] # s]
    /\ UNCHANGED <<content, final, partial, pc, path, key, fd, parsed, answer>>

---------------------------------------------------------------------------

Proceed(r) ==
    \/ Get(r) \/ Parse(r) \/ Stat(r) \/ Open(r)
    \/ WriteHead(r) \/ WriteTail(r) \/ Rename(r)

Run(r) == Start(r) \/ Proceed(r) \/ WriteFails(r) \/ Crash(r)

\* The runs at work while nobody replaces a symbol file.
RunsNext == ClearEntry \/ \E r \in Runs : Run(r)

Next == RunsNext \/ Replace

FixedSpec == Init /\ [][RunsNext]_vars
Spec == Init /\ [][Next]_vars

\* A process that is not killed keeps running.
Fairness == \A r \in Runs : WF_vars(Proceed(r))
LiveSpec == FixedSpec /\ Fairness

---------------------------------------------------------------------------

\* While no symbol file is replaced, a load returns what is in the symbol
\* file, whatever the other runs do to the cache and wherever they are killed:
\* load_isf_file never hands out a truncated or mixed entry.
LoadIsCurrent ==
    \A r \in Runs : pc[r] = "done" =>
        answer[r] = IF source[path[r]] \in Broken THEN Failed ELSE source[path[r]]

\* While no symbol file is replaced, every entry that decodes at all decodes to
\* the symbol file it is named for, so no later run can be misled by it.
EntriesMatchTheirNames ==
    \A s \in Sources : final[path_for(s)] # None =>
        Decoded(content[final[path_for(s)]]) \subseteq {None, source[s]}

\* A load that is not killed returns: no run ever waits for another.
LoadEnds == \A r \in Runs : pc[r] = "get" ~> pc[r] \in {"done", "idle"}

\* intermed.rs:825: "Written beside the target and renamed, so a run that is
\* interrupted leaves no half-written cache for the next one to read."
NoHalfWrittenEntry ==
    \A k \in Keys : final[k] # None =>
        \/ None \notin {content[final[k]].head, content[final[k]].tail}
        \/ \E r \in Runs : fd[r] = final[k]

\* intermed.rs:705: "The name carries what the file looked like when it was
\* parsed, so a changed or replaced symbol file simply misses the cache."  A
\* load during which the symbol file does not change returns what it holds.
ChangedFileMisses ==
    \A r \in Runs : pc[r] = "done" /\ steady[r] =>
        answer[r] = IF source[path[r]] \in Broken THEN Failed ELSE source[path[r]]

===========================================================================
