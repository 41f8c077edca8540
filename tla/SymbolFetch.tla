---------------------------- MODULE SymbolFetch ----------------------------
(***************************************************************************)
(* Getting the symbols of a Windows kernel that nothing describes yet:     *)
(* pdb::fetch keeps the database it downloads in the cache, build_symbols  *)
(* of automagic/windows.rs converts it and keeps the result in a symbol    *)
(* directory, and the run then loads what was written.  Both files are     *)
(* written in place with std::fs::write, which empties the file first.     *)
(*                                                                         *)
(* One kernel, one symbol directory, several processes.  All of them       *)
(* write the same bytes, so a file is its length and the blocks of it that *)
(* are there; a block below the length that nobody wrote yet reads as      *)
(* zeroes.  A file that is there can be read.                              *)
(***************************************************************************)
EXTENDS Integers, FiniteSets

CONSTANTS
    Runs,
    Blocks,     \* how many writes each file takes
    Worlds,     \* what may happen, see world
    MaxStarts(_)\* bound: how many runs are started in a world

ASSUME BoundsAssumption ==
    /\ Blocks \in Nat \ {0}
    /\ Worlds \subseteq [overlap : BOOLEAN, crash : BOOLEAN, reliable : BOOLEAN, full : BOOLEAN]
    /\ \A w \in Worlds : MaxStarts(w) \in Nat

VARIABLES
    world,      \* whether processes run at once (overlap), whether one may end at any moment
                \* (crash), whether the server always answers and files can be created
                \* (reliable), and whether a write may fail half way (full)
    pdb, isf,   \* the two files: [there, length, written]
    pc,         \* where each process is
    at,         \* how many blocks of the file at hand it has written
    whole,      \* whether the database it holds is all there
    starts,
    downloads,  \* how often the database was fetched, and converted
    conversions

vars == <<world, pdb, isf, pc, at, whole, starts, downloads, conversions>>

NoFile == [there |-> FALSE, length |-> 0, written |-> {}]
Empty == [there |-> TRUE, length |-> 0, written |-> {}]
With(f, b) == [f EXCEPT !.length = IF b > @ THEN b ELSE @, !.written = @ \cup {b}]
IsWhole(f) == f.there /\ f.written = 1..Blocks

Ended == {"idle", "loaded", "failed", "refused"}

Init ==
    /\ world \in Worlds
    /\ pdb = NoFile /\ isf = NoFile
    /\ pc = [r \in Runs |-> "idle"]
    /\ at = [r \in Runs |-> 0]
    /\ whole = [r \in Runs |-> FALSE]
    /\ starts = 0 /\ downloads = 0 /\ conversions = 0

Go(r, from, to) == pc[r] = from /\ pc' = [pc EXCEPT ![r] = to]

Start(r) ==
    /\ pc[r] \in Ended
    /\ world.overlap \/ \A o \in Runs : pc[o] \in Ended
    /\ starts < MaxStarts(world)
    /\ starts' = starts + 1
    /\ pc' = [pc EXCEPT ![r] = "find"]
    /\ whole' = [whole EXCEPT ![r] = FALSE]
    /\ UNCHANGED <<world, pdb, isf, at, downloads, conversions>>

\* Mutant of Find: what an earlier run wrote is not looked for.
FindNothing(r) ==
    /\ Go(r, "find", "fetch")
    /\ UNCHANGED <<world, pdb, isf, at, whole, starts, downloads, conversions>>

\* finder.find asks whether the file exists.
Find(r) ==
    /\ Go(r, "find", IF isf.there THEN "load" ELSE "fetch")
    /\ UNCHANGED <<world, pdb, isf, at, whole, starts, downloads, conversions>>

\* fetch takes whatever the cache holds.
FetchCached(r) ==
    /\ pdb.there
    /\ Go(r, "fetch", "convert")
    /\ whole' = [whole EXCEPT ![r] = IsWhole(pdb)]
    /\ UNCHANGED <<world, pdb, isf, at, starts, downloads, conversions>>

FetchMissing(r) ==
    /\ ~pdb.there
    /\ Go(r, "fetch", "download")
    /\ UNCHANGED <<world, pdb, isf, at, whole, starts, downloads, conversions>>

\* The server answers with the whole database, or the run goes on without symbols.
Download(r) ==
    \/ /\ Go(r, "download", "keep")
       /\ whole' = [whole EXCEPT ![r] = TRUE]
       /\ downloads' = downloads + 1
       /\ UNCHANGED <<world, pdb, isf, at, starts, conversions>>
    \/ /\ ~world.reliable
       /\ Go(r, "download", "refused")
       /\ UNCHANGED <<world, pdb, isf, at, whole, starts, downloads, conversions>>

\* std::fs::write opens the file, which empties it, and then writes.  A cache that
\* cannot be written is no error, and neither is one that can only be written in part.
KeepPdb(r) ==
    /\ \/ /\ Go(r, "keep", "writepdb")
          /\ pdb' = Empty
       \/ ~world.reliable /\ Go(r, "keep", "convert") /\ UNCHANGED pdb
    /\ at' = [at EXCEPT ![r] = 0]
    /\ UNCHANGED <<world, isf, whole, starts, downloads, conversions>>

WritePdb(r) ==
    /\ \/ /\ Go(r, "writepdb", IF at[r] + 1 = Blocks THEN "convert" ELSE "writepdb")
          /\ at' = [at EXCEPT ![r] = @ + 1]
          /\ pdb' = With(pdb, at[r] + 1)
       \/ world.full /\ Go(r, "writepdb", "convert") /\ UNCHANGED <<at, pdb>>
    /\ UNCHANGED <<world, isf, whole, starts, downloads, conversions>>

\* A database that is cut short cannot be converted: its directory is missing.
Convert(r) ==
    /\ Go(r, "convert", IF whole[r] THEN "build" ELSE "failed")
    /\ conversions' = conversions + (IF whole[r] THEN 1 ELSE 0)
    /\ UNCHANGED <<world, pdb, isf, at, whole, starts, downloads>>

\* The symbol directory gets the file, if it can be created.
Build(r) ==
    /\ \/ /\ Go(r, "build", "writeisf")
          /\ isf' = Empty
       \/ ~world.reliable /\ Go(r, "build", "refused") /\ UNCHANGED isf
    /\ at' = [at EXCEPT ![r] = 0]
    /\ UNCHANGED <<world, pdb, whole, starts, downloads, conversions>>

\* Mutant of WriteIsf: the writer stops one block early.
WriteIsfShort(r) ==
    /\ \/ /\ Go(r, "writeisf", IF at[r] + 2 >= Blocks THEN "load" ELSE "writeisf")
          /\ at' = [at EXCEPT ![r] = @ + 1]
          /\ isf' = With(isf, at[r] + 1)
       \/ world.full /\ Go(r, "writeisf", "refused") /\ UNCHANGED <<at, isf>>
    /\ UNCHANGED <<world, pdb, whole, starts, downloads, conversions>>

\* A write that fails half way leaves what it wrote, and the run without symbols.
WriteIsf(r) ==
    /\ \/ /\ Go(r, "writeisf", IF at[r] + 1 = Blocks THEN "load" ELSE "writeisf")
          /\ at' = [at EXCEPT ![r] = @ + 1]
          /\ isf' = With(isf, at[r] + 1)
       \/ world.full /\ Go(r, "writeisf", "refused") /\ UNCHANGED <<at, isf>>
    /\ UNCHANGED <<world, pdb, whole, starts, downloads, conversions>>

\* location.load parses the file, and a part of one is not a document.
Load(r) ==
    /\ Go(r, "load", IF IsWhole(isf) THEN "loaded" ELSE "failed")
    /\ UNCHANGED <<world, pdb, isf, at, whole, starts, downloads, conversions>>

Crash(r) ==
    /\ world.crash
    /\ pc[r] \notin Ended
    /\ pc' = [pc EXCEPT ![r] = "idle"]
    /\ UNCHANGED <<world, pdb, isf, at, whole, starts, downloads, conversions>>

Step(r) ==
    \/ Find(r) \/ FetchCached(r) \/ FetchMissing(r) \/ Download(r) \/ KeepPdb(r) \/ WritePdb(r)
    \/ Convert(r) \/ Build(r) \/ WriteIsf(r) \/ Load(r)

Next == \E r \in Runs : Start(r) \/ Step(r) \/ Crash(r)

Spec == Init /\ [][Next]_vars

---------------------------------------------------------------------------

\* Processes take turns, none is cut short, and no write ends half way.
Undisturbed == ~world.overlap /\ ~world.crash /\ ~world.full

\* windows.rs:626: the result "is written into the symbol directory so the work
\* is done only once": where nothing goes wrong, runs that take turns download and
\* convert once.
WorkIsDoneOnce == Undisturbed /\ world.reliable => conversions <= 1 /\ downloads <= 1

\* pdb.rs:65: "a database fetched once is good for every image built from the same
\* binary": once it has been fetched no run ends in an error.
FetchedOnceIsGood == downloads > 0 => \A r \in Runs : pc[r] # "failed"

\* The same of undisturbed processes, whatever the server refuses and whichever
\* files cannot be created.
UndisturbedIsGood == Undisturbed => FetchedOnceIsGood

=============================================================================
