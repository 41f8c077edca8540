---------------------------- MODULE SharedFiles_proofs ----------------------------
(***************************************************************************)
(* Proofs about the three places where processes share files without a     *)
(* lock: the symbols of Windows kernels, which are fetched and converted   *)
(* (SymbolFetch), the files plugins extract (ExtractedFiles), and the log  *)
(* of banners, banners.tsv (BannerCache).  Each module is about files and  *)
(* processes of its own, and none of its theorems is about another's.      *)
(***************************************************************************)
EXTENDS SymbolFetch, ExtractedFiles, BannerCache,
        SequenceTheorems, FiniteSetTheorems, WellFoundedInduction, TLAPS

-----------------------------------------------------------------------------
(***************************************************************************)
(* SymbolFetch: fetching and converting symbols.                           *)
(* For any number of processes that take turns and are not killed, files   *)
(* of any length and writes that do not end half way: no run ends in an    *)
(* error, and where the server answers and files can be created, the work  *)
(* is done once.                                                           *)
(***************************************************************************)

-----------------------------------------------------------------------------
(* The invariant.                                                          *)

File == [there : BOOLEAN, length : Nat, written : SUBSET Nat]
Places == Ended \cup {"find", "fetch", "download", "keep", "writepdb", "convert",
                      "build", "writeisf", "load"}

FetchTypes ==
    /\ world \in [overlap : BOOLEAN, crash : BOOLEAN, reliable : BOOLEAN, full : BOOLEAN]
    /\ pdb \in File /\ isf \in File
    /\ pc \in [Runs -> Places]
    /\ at \in [Runs -> Nat]
    /\ whole \in [Runs -> BOOLEAN]
    /\ downloads \in Nat /\ conversions \in Nat

At(r, S) == pc[r] \in S

\* One run at a time is on its way.
Turns == \A r, o \in Runs : pc[r] \notin Ended /\ pc[o] \notin Ended => r = o

\* Of a file that is being written, what is there is what was written; one that is
\* there and is not being written is whole.
Written(f, label) ==
    /\ \A r \in Runs : pc[r] = label =>
         f.there /\ f.written = 1..at[r] /\ at[r] < Blocks
    /\ f.there => IsWhole(f) \/ \E r \in Runs : pc[r] = label

\* No run fails: what it converts is whole, and so is what it loads.
Sound ==
    /\ Written(pdb, "writepdb")
    /\ Written(isf, "writeisf")
    /\ \A r \in Runs :
         /\ At(r, {"keep", "writepdb", "convert"}) => whole[r]
         /\ pc[r] = "load" => IsWhole(isf)
         /\ pc[r] # "failed"

\* What was fetched is kept before anything else is done, and what was converted is.
Once ==
    /\ downloads <= 1 /\ conversions <= 1
    /\ downloads = 1 => pdb.there \/ \E r \in Runs : pc[r] = "keep"
    /\ conversions = 1 => isf.there \/ \E r \in Runs : pc[r] = "build"
    /\ \A r \in Runs :
         /\ pc[r] = "download" => ~pdb.there
         /\ At(r, {"fetch", "download", "keep", "writepdb", "convert"}) => ~isf.there

FetchInv ==
    /\ FetchTypes
    /\ ~world.overlap => Turns
    /\ Undisturbed => Sound
    /\ Undisturbed /\ world.reliable => Once

\* Nothing has been fetched and nobody has begun.
LEMMA FetchInitially == Init => FetchInv
BY BoundsAssumption
   DEF Init, FetchInv, FetchTypes, File, Places, Ended, NoFile, Turns, Sound, Written, Once, At

-----------------------------------------------------------------------------
(* The parts of the invariant, one after another.                          *)

\* A block that is written is one more of the file.
LEMMA WithIsFile ==
    ASSUME NEW f \in File, NEW b \in Nat
    PROVE  With(f, b) \in File /\ With(f, b).there = f.there /\ With(f, b).written = f.written \cup {b}
BY DEF File, With

LEMMA EmptyIsFile == Empty \in File /\ Empty.there /\ Empty.written = {}
BY DEF File, Empty

\* Variables keep their types.
LEMMA FetchTypesKept == FetchTypes /\ [Next]_vars => FetchTypes'
<1> SUFFICES ASSUME FetchTypes, [Next]_vars PROVE FetchTypes'
  OBVIOUS
<1> USE BoundsAssumption DEF FetchTypes, Go, Places, Ended
<1>1. CASE UNCHANGED vars
  BY <1>1 DEF vars
<1>2. ASSUME NEW r \in Runs, Start(r) \/ Step(r) \/ Crash(r) PROVE FetchTypes'
  <2>1. CASE Start(r)
    BY <2>1 DEF Start
  <2>2. CASE Find(r)
    BY <2>2 DEF Find
  <2>3. CASE FetchCached(r)
    BY <2>3 DEF FetchCached, IsWhole, File
  <2>4. CASE FetchMissing(r)
    BY <2>4 DEF FetchMissing
  <2>5. CASE Download(r)
    <3>1. CASE Go(r, "download", "keep") /\ whole' = [whole EXCEPT ![r] = TRUE] /\ downloads' = downloads + 1
      BY <2>5, <3>1 DEF Download
    <3>2. CASE Go(r, "download", "refused") /\ UNCHANGED <<whole, downloads>>
      BY <2>5, <3>2 DEF Download
    <3> QED BY <2>5, <3>1, <3>2 DEF Download
  <2>6. CASE KeepPdb(r)
    <3>1. pdb' \in File /\ UNCHANGED <<world, isf, whole, downloads, conversions>>
      BY <2>6, EmptyIsFile DEF KeepPdb
    <3>2. pc' \in [Runs -> Places] /\ at' \in [Runs -> Nat]
      BY <2>6 DEF KeepPdb
    <3> QED BY <3>1, <3>2
  <2>7. CASE WritePdb(r)
    <3>1. With(pdb, at[r] + 1) \in File
      <4>1. pdb \in File /\ at[r] + 1 \in Nat
        OBVIOUS
      <4> QED BY <4>1, WithIsFile, Zenon
    <3>2. /\ pdb' \in File /\ at' \in [Runs -> Nat]
          /\ UNCHANGED <<world, isf, whole, downloads, conversions>>
      BY <2>7, <3>1 DEF WritePdb
    <3>3. pc' \in [Runs -> Places]
      BY <2>7 DEF WritePdb
    <3> QED BY <3>2, <3>3
  <2>8. CASE Convert(r)
    BY <2>8 DEF Convert
  <2>9. CASE Build(r)
    <3>1. isf' \in File /\ UNCHANGED <<world, pdb, whole, downloads>>
      BY <2>9, EmptyIsFile DEF Build
    <3>2. pc' \in [Runs -> Places] /\ at' \in [Runs -> Nat] /\ conversions' \in Nat
      BY <2>9 DEF Build
    <3> QED BY <3>1, <3>2
  <2>10. CASE WriteIsf(r)
    <3>1. With(isf, at[r] + 1) \in File
      <4>1. isf \in File /\ at[r] + 1 \in Nat
        OBVIOUS
      <4> QED BY <4>1, WithIsFile, Zenon
    <3>2. /\ isf' \in File /\ at' \in [Runs -> Nat]
          /\ UNCHANGED <<world, pdb, whole, downloads, conversions>>
      BY <2>10, <3>1 DEF WriteIsf
    <3>3. pc' \in [Runs -> Places]
      BY <2>10 DEF WriteIsf
    <3> QED BY <3>2, <3>3
  <2>11. CASE Load(r)
    BY <2>11 DEF Load
  <2>12. CASE Crash(r)
    BY <2>12 DEF Crash
  <2> QED
    BY <1>2, <2>1, <2>2, <2>3, <2>4, <2>5, <2>6, <2>7, <2>8, <2>9, <2>10, <2>11, <2>12 DEF Step
<1> QED
  BY <1>1, <1>2 DEF Next

\* Nobody starts before the others have ended.
LEMMA FetchTurnsKept == FetchTypes /\ ~world.overlap /\ Turns /\ [Next]_vars => Turns'
<1> SUFFICES ASSUME FetchTypes, ~world.overlap, Turns, [Next]_vars PROVE Turns'
  OBVIOUS
<1> USE DEF FetchTypes, Turns
<1>1. CASE UNCHANGED vars
  BY <1>1 DEF vars
<1>2. ASSUME NEW r \in Runs, Start(r) \/ Step(r) \/ Crash(r) PROVE Turns'
  <2>1. CASE Start(r)
    BY <2>1 DEF Start
  <2>2. CASE ~Start(r)
    <3>1. pc[r] \notin Ended /\ \E to : pc' = [pc EXCEPT ![r] = to]
      BY <1>2, <2>2 DEF Step, Find, FetchCached, FetchMissing, Download, KeepPdb, WritePdb,
                        Convert, Build, WriteIsf, Load, Crash, Go, Ended
    <3> QED BY <3>1
  <2> QED BY <2>1, <2>2
<1> QED
  BY <1>1, <1>2 DEF Next

\* What is written block by block is whole in the end.
LEMMA FetchSoundKept ==
    ASSUME FetchTypes, Undisturbed, Turns, Sound, [Next]_vars
    PROVE  Sound'
<1> USE BoundsAssumption DEF FetchTypes, Undisturbed, Go, Ended, Turns, Sound, Written, At, IsWhole
<1>1. CASE UNCHANGED vars
  BY <1>1 DEF vars
<1>3. \A r, o \in Runs : pc[r] \notin Ended /\ o # r => pc[o] \in Ended
  OBVIOUS
<1>2. ASSUME NEW r \in Runs, Start(r) \/ Step(r) \/ Crash(r) PROVE Sound'
  <2>1. CASE Start(r)
    BY <2>1 DEF Start
  <2>2. CASE Find(r)
    BY <2>2 DEF Find
  <2>3. CASE FetchCached(r)
    BY <2>3 DEF FetchCached
  <2>4. CASE FetchMissing(r)
    BY <2>4 DEF FetchMissing
  <2>5. CASE Download(r)
    <3>1. CASE Go(r, "download", "keep") /\ whole' = [whole EXCEPT ![r] = TRUE]
      BY <2>5, <3>1 DEF Download
    <3>2. CASE Go(r, "download", "refused") /\ UNCHANGED whole
      BY <2>5, <3>2 DEF Download
    <3> QED BY <2>5, <3>1, <3>2 DEF Download
  <2>6. CASE KeepPdb(r)
    <3>1. CASE Go(r, "keep", "writepdb") /\ pdb' = Empty
      <4> USE DEF KeepPdb
      <4>1. pc' = [pc EXCEPT ![r] = "writepdb"] /\ at' = [at EXCEPT ![r] = 0] /\ UNCHANGED <<isf, whole>>
        BY <2>6, <3>1
      <4>2. pdb'.there /\ pdb'.written = {} /\ 1..0 = {}
        BY <3>1, EmptyIsFile
      <4>3. Written(pdb, "writepdb")'
        <5>1. pc'[r] = "writepdb" /\ at'[r] = 0 /\ \A o \in Runs : o # r => pc'[o] \in Ended
          BY <4>1, <1>3, <2>6
        <5>2. ASSUME NEW o \in Runs, pc'[o] = "writepdb"
              PROVE  pdb'.there /\ pdb'.written = 1..at'[o] /\ at'[o] < Blocks
          <6>1. o = r
            BY <5>1, <5>2
          <6>2. at'[o] = 0 /\ 0 < Blocks
            BY <5>1, <6>1
          <6> QED BY <4>2, <6>2
        <5> QED BY <4>2, <5>1, <5>2
      <4>4. Written(isf, "writeisf")'
        BY <4>1, <1>3, <2>6
      <4> QED BY <4>1, <4>3, <4>4, <1>3, <2>6
    <3>2. CASE ~world.reliable /\ Go(r, "keep", "convert") /\ UNCHANGED pdb
      BY <2>6, <3>2 DEF KeepPdb
    <3> QED BY <2>6, <3>1, <3>2 DEF KeepPdb
  <2>7. CASE WritePdb(r)
    <3> USE DEF WritePdb
    <3>1. /\ pc' = [pc EXCEPT ![r] = IF at[r] + 1 = Blocks THEN "convert" ELSE "writepdb"]
          /\ pc[r] = "writepdb" /\ at' = [at EXCEPT ![r] = @ + 1] /\ UNCHANGED <<isf, whole>>
      BY <2>7
    <3>2. pdb'.there /\ pdb'.written = 1..(at[r] + 1)
      <4>1. pdb'.there = pdb.there /\ pdb'.written = pdb.written \cup {at[r] + 1}
        <5>1. pdb \in File /\ at[r] + 1 \in Nat /\ pdb' = With(pdb, at[r] + 1)
          BY <2>7
        <5>2. With(pdb, at[r] + 1).there = pdb.there
              /\ With(pdb, at[r] + 1).written = pdb.written \cup {at[r] + 1}
          <6> HIDE DEF FetchTypes, Sound, Turns, WritePdb
          <6> QED BY <5>1, WithIsFile
        <5> QED BY <5>1, <5>2
      <4>2. pdb.there /\ pdb.written = 1..at[r]
        BY <3>1
      <4>3. 1..(at[r] + 1) = (1..at[r]) \cup {at[r] + 1}
        OBVIOUS
      <4> QED BY <4>1, <4>2, <4>3
    <3>3. at[r] < Blocks
      BY <3>1
    <3>4. Written(pdb, "writepdb")'
      BY <3>1, <3>2, <3>3, <1>3
    <3>5. Written(isf, "writeisf")'
      BY <3>1, <1>3
    <3> QED BY <3>1, <3>2, <3>3, <3>4, <3>5, <1>3
  <2>8. CASE Convert(r)
    <3>1. pc' = [pc EXCEPT ![r] = "build"]
      BY <2>8 DEF Convert
    <3> QED BY <2>8, <3>1 DEF Convert
  <2>9. CASE Build(r)
    <3>1. CASE Go(r, "build", "writeisf") /\ isf' = Empty
      <4> USE DEF Build
      <4>1. pc' = [pc EXCEPT ![r] = "writeisf"] /\ at' = [at EXCEPT ![r] = 0] /\ UNCHANGED <<pdb, whole>>
        BY <2>9, <3>1
      <4>2. isf'.there /\ isf'.written = {} /\ 1..0 = {}
        BY <3>1, EmptyIsFile
      <4>3. Written(isf, "writeisf")'
        <5>1. pc'[r] = "writeisf" /\ at'[r] = 0 /\ \A o \in Runs : o # r => pc'[o] \in Ended
          BY <4>1, <1>3, <2>9
        <5>2. ASSUME NEW o \in Runs, pc'[o] = "writeisf"
              PROVE  isf'.there /\ isf'.written = 1..at'[o] /\ at'[o] < Blocks
          <6>1. o = r
            BY <5>1, <5>2
          <6>2. at'[o] = 0 /\ 0 < Blocks
            BY <5>1, <6>1
          <6> QED BY <4>2, <6>2
        <5> QED BY <4>2, <5>1, <5>2
      <4>4. Written(pdb, "writepdb")'
        BY <4>1, <1>3, <2>9
      <4> QED BY <4>1, <4>3, <4>4, <1>3, <2>9
    <3>2. CASE ~world.reliable /\ Go(r, "build", "refused") /\ UNCHANGED isf
      BY <2>9, <3>2 DEF Build
    <3> QED BY <2>9, <3>1, <3>2 DEF Build
  <2>10. CASE WriteIsf(r)
    <3> USE DEF WriteIsf
    <3>1. /\ pc' = [pc EXCEPT ![r] = IF at[r] + 1 = Blocks THEN "load" ELSE "writeisf"]
          /\ pc[r] = "writeisf" /\ at' = [at EXCEPT ![r] = @ + 1] /\ UNCHANGED <<pdb, whole>>
      BY <2>10
    <3>2. isf'.there /\ isf'.written = 1..(at[r] + 1)
      <4>1. isf'.there = isf.there /\ isf'.written = isf.written \cup {at[r] + 1}
        <5>1. isf \in File /\ at[r] + 1 \in Nat /\ isf' = With(isf, at[r] + 1)
          BY <2>10
        <5>2. With(isf, at[r] + 1).there = isf.there
              /\ With(isf, at[r] + 1).written = isf.written \cup {at[r] + 1}
          <6> HIDE DEF FetchTypes, Sound, Turns, WriteIsf
          <6> QED BY <5>1, WithIsFile
        <5> QED BY <5>1, <5>2
      <4>2. isf.there /\ isf.written = 1..at[r]
        BY <3>1
      <4>3. 1..(at[r] + 1) = (1..at[r]) \cup {at[r] + 1}
        OBVIOUS
      <4> QED BY <4>1, <4>2, <4>3
    <3>3. at[r] < Blocks
      BY <3>1
    <3>4. Written(isf, "writeisf")'
      BY <3>1, <3>2, <3>3, <1>3
    <3>5. Written(pdb, "writepdb")'
      BY <3>1, <1>3
    <3> QED BY <3>1, <3>2, <3>3, <3>4, <3>5, <1>3
  <2>11. CASE Load(r)
    BY <2>11 DEF Load
  <2> QED
    BY <1>2, <2>1, <2>2, <2>3, <2>4, <2>5, <2>6, <2>7, <2>8, <2>9, <2>10, <2>11 DEF Step, Crash
<1> QED
  BY <1>1, <1>2 DEF Next

\* Where nothing is refused, what has been done is found by those who come later.
LEMMA FetchOnceKept ==
    ASSUME FetchTypes, Undisturbed, world.reliable, Turns, Sound, Once, [Next]_vars
    PROVE  Once'
<1> USE DEF FetchTypes, Undisturbed, Go, Ended, Turns, Once, At
<1>1. CASE UNCHANGED vars
  BY <1>1 DEF vars
<1>2. ASSUME NEW r \in Runs, Start(r) \/ Step(r) \/ Crash(r) PROVE Once'
  <2>1. CASE Start(r)
    BY <2>1 DEF Start
  <2>2. CASE Find(r)
    BY <2>2 DEF Find
  <2>3. CASE FetchCached(r)
    BY <2>3 DEF FetchCached
  <2>4. CASE FetchMissing(r)
    BY <2>4 DEF FetchMissing
  <2>5. CASE Download(r)
    BY <2>5 DEF Download
  <2>6. CASE KeepPdb(r)
    <3>1. CASE Go(r, "keep", "writepdb") /\ pdb' = Empty
      BY <2>6, <3>1, EmptyIsFile DEF KeepPdb
    <3>2. CASE ~world.reliable /\ Go(r, "keep", "convert") /\ UNCHANGED pdb
      BY <2>6, <3>2 DEF KeepPdb
    <3> QED BY <2>6, <3>1, <3>2 DEF KeepPdb
  <2>7. CASE WritePdb(r)
    <3>1. pdb \in File /\ at[r] + 1 \in Nat /\ pdb' = With(pdb, at[r] + 1)
      BY <2>7 DEF WritePdb
    <3>2. pdb'.there = pdb.there
      BY <3>1, WithIsFile
    <3> QED BY <2>7, <3>2 DEF WritePdb
  <2>8. CASE Convert(r)
    BY <2>8 DEF Convert
  <2>9. CASE Build(r)
    <3>1. CASE Go(r, "build", "writeisf") /\ isf' = Empty
      BY <2>9, <3>1, EmptyIsFile DEF Build
    <3>2. CASE ~world.reliable /\ Go(r, "build", "refused") /\ UNCHANGED isf
      BY <2>9, <3>2 DEF Build
    <3> QED BY <2>9, <3>1, <3>2 DEF Build
  <2>10. CASE WriteIsf(r)
    <3>1. isf \in File /\ at[r] + 1 \in Nat /\ isf' = With(isf, at[r] + 1)
      BY <2>10 DEF WriteIsf
    <3>2. isf'.there = isf.there
      BY <3>1, WithIsFile
    <3> QED BY <2>10, <3>2 DEF WriteIsf
  <2>11. CASE Load(r)
    BY <2>11 DEF Load
  <2> QED
    BY <1>2, <2>1, <2>2, <2>3, <2>4, <2>5, <2>6, <2>7, <2>8, <2>9, <2>10, <2>11 DEF Step, Crash
<1> QED
  BY <1>1, <1>2 DEF Next

\* The world is chosen once.
LEMMA WorldStays == [Next]_vars => UNCHANGED world
BY DEF Next, vars, Start, Step, Find, FetchCached, FetchMissing, Download, KeepPdb, WritePdb,
       Convert, Build, WriteIsf, Load, Crash

\* Every step keeps the invariant.
LEMMA FetchStep == FetchInv /\ [Next]_vars => FetchInv'
BY FetchTypesKept, FetchTurnsKept, FetchSoundKept, FetchOnceKept, WorldStays DEF FetchInv, Undisturbed

\* The invariant holds in every state that is reached.
THEOREM FetchInvariance == Spec => []FetchInv
BY FetchInitially, FetchStep, PTL DEF Spec

\* pdb.rs:65: where runs take turns, none is cut short and no write ends half way, a
\* database fetched once is good for every run after it, whatever the server refuses
\* and whichever files cannot be created.
THEOREM FetchedStaysGood == Spec => []UndisturbedIsGood
<1>1. FetchInv => UndisturbedIsGood
  BY DEF FetchInv, Sound, UndisturbedIsGood, FetchedOnceIsGood
<1> QED
  BY <1>1, FetchInvariance, PTL

\* windows.rs:626: where in addition nothing is refused, at most one run downloads and
\* converts.
THEOREM DoneOnce == Spec => []WorkIsDoneOnce
<1>1. FetchInv => WorkIsDoneOnce
  BY DEF FetchInv, Once, WorkIsDoneOnce
<1> QED
  BY <1>1, FetchInvariance, PTL

-----------------------------------------------------------------------------
(***************************************************************************)
(* ExtractedFiles: the files plugins extract.                              *)
(* For any number of processes, dumps and pieces, and whatever was in the  *)
(* directory: the search for a free name finds one, nothing that was there *)
(* is ever written to, and while processes take turns a finished dump      *)
(* keeps its file.                                                         *)
(***************************************************************************)

-----------------------------------------------------------------------------
(* The name that is found.                                                 *)

\* Min of FiniteSetsExt gives the least member of a set of numbers, if it has any.
LEMMA MinIsLeast ==
    ASSUME NEW S \in SUBSET Nat, S # {}
    PROVE  Min(S) \in S /\ \A y \in S : Min(S) <= y
<1> DEFINE Less == {ss \in Nat \X Nat : ss[1] < ss[2]}
<1>1. IsWellFoundedOn(Less, Nat)
  BY NatLessThanWellFounded DEF OpToRel
<1>2. \E x \in S : \A y \in S : ~ (<<y, x>> \in Less)
  <2> HIDE DEF Less
  <2> QED BY <1>1, WFMin
<1>3. PICK x \in S : \A y \in S : ~ (<<y, x>> \in Less)
  BY <1>2
<1>4. \A y \in S : x <= y
  <2> TAKE y \in S
  <2>1. x \in Nat /\ y \in Nat
    OBVIOUS
  <2>2. ~ (y < x)
    BY <1>3, <2>1
  <2> QED BY <2>1, <2>2
<1> QED
  BY <1>4 DEF Min

\* Different numbers make different names.
LEMMA NumbersDiffer ==
    ASSUME NEW n \in Seq(Nat), NEW j \in Nat, NEW k \in Nat, Numbered(n, j) = Numbered(n, k)
    PROVE  j = k
BY DEF Numbered

\* Of one more number than there are files, one makes a name that is free.
LEMMA SomeNumberIsFree ==
    ASSUME NEW n \in Seq(Nat), NEW T, IsFiniteSet(T)
    PROVE  \E k \in 1..(Cardinality(T) + 1) : Numbered(n, k) \notin T
<1> DEFINE N == Cardinality(T) + 1
           f == [k \in 1..N |-> Numbered(n, k)]
<1>1. Cardinality(T) \in Nat /\ N \in Nat /\ Cardinality(T) < N
  BY FS_CardinalityType
<1>2. IsFiniteSet(1..N) /\ Cardinality(1..N) = N
  <2> HIDE DEF N
  <2> QED BY <1>1, FS_Interval
<1>3. SUFFICES ASSUME \A k \in 1..N : Numbered(n, k) \in T PROVE FALSE
  OBVIOUS
<1>4. f \in [1..N -> T]
  BY <1>3
<1>5. \E x, y \in 1..N : x # y /\ f[x] = f[y]
  <2> HIDE DEF f, N
  <2> QED BY <1>1, <1>2, <1>4, FS_PigeonHole
<1>6. PICK x, y \in 1..N : x # y /\ f[x] = f[y]
  BY <1>5
<1>7. Numbered(n, x) = Numbered(n, y) /\ x \in Nat /\ y \in Nat
  BY <1>6, <1>1
<1> QED
  BY <1>6, <1>7, NumbersDiffer

\* So the search of free_extracted_name ends, with a name nothing has taken.
LEMMA NameIsFree ==
    ASSUME NEW n \in Seq(Nat), IsFiniteSet(DOMAIN files)
    PROVE  /\ ~Exists(free_extracted_name(n))
           /\ free_extracted_name(n) \in Seq(Nat)
<1> DEFINE free == {k \in 1..(Cardinality(DOMAIN files) + 1) : ~Exists(Numbered(n, k))}
<1>1. free # {}
  BY SomeNumberIsFree DEF Exists
<1>2. free \in SUBSET Nat
  BY FS_CardinalityType
<1>3. Min(free) \in free
  BY <1>1, <1>2, MinIsLeast
<1>4. ~Exists(Numbered(n, Min(free))) /\ Min(free) \in Nat
  BY <1>2, <1>3
<1>5. Numbered(n, Min(free)) \in Seq(Nat)
  <2> HIDE DEF free
  <2> QED BY <1>4 DEF Numbered
<1> QED
  BY <1>4, <1>5 DEF free_extracted_name

-----------------------------------------------------------------------------
(* The invariant.                                                          *)

\* A dump writes on until the last piece.
Progress ==
    \A d \in Dumps :
        /\ stage[d] \in {"waiting", "named"} => reached[d] = 0
        /\ stage[d] = "writing" => reached[d] < Pieces

\* No file is ever removed, and no dump has a name that was taken before.
Spared ==
    /\ IsFiniteSet(DOMAIN files)
    /\ Existing \subseteq DOMAIN files
    /\ \A d \in Dumps : Busy(d) => chosen[d] \notin Existing
    /\ OthersAreKept

\* What the dump in progress and the finished ones can rely on in turns.
InTurns ==
    /\ \A d, o \in Dumps : Busy(d) /\ Busy(o) => d = o
    /\ \A d, o \in Dumps : Busy(d) /\ stage[o] = "done" => chosen[d] # chosen[o]
    /\ \A d \in Dumps : stage[d] = "writing" => files[chosen[d]] = [p \in 1..reached[d] |-> d]
    /\ DoneIsKept

ExtractInv ==
    /\ TypeOK
    /\ Progress
    /\ Spared
    /\ ~regime.overlap => InTurns

\* The directory holds what it held, and nobody has begun.
LEMMA ExtractInitially == ExtractInit => ExtractInv
<1> SUFFICES ASSUME ExtractInit PROVE ExtractInv
  OBVIOUS
<1>1. TypeOK
  BY ExtractAssumption DEF ExtractInit, TypeOK, Exists, NoName
<1>2. Progress
  BY DEF ExtractInit, Progress
<1>3. Spared
  BY ExtractAssumption DEF ExtractInit, Spared, Busy, OthersAreKept
<1>4. InTurns
  BY DEF ExtractInit, InTurns, Busy, DoneIsKept
<1> QED
  BY <1>1, <1>2, <1>3, <1>4 DEF ExtractInv

\* Naming: the name is one that nothing has, so neither a file that was there nor
\* one that a finished dump reported.
LEMMA NameKeeps ==
    ASSUME ExtractInv, NEW d \in Dumps, Name(d)
    PROVE  ExtractInv'
<1>1. ~Exists(free_extracted_name(Asked[d])) /\ free_extracted_name(Asked[d]) \in Seq(Nat)
  BY NameIsFree, ExtractAssumption DEF ExtractInv, Spared
<1>2. TypeOK'
  BY <1>1 DEF ExtractInv, TypeOK, Name, Exists
<1>3. Progress'
  BY DEF ExtractInv, TypeOK, Progress, Name
<1>4. Spared'
  BY <1>1 DEF ExtractInv, TypeOK, Spared, Name, Busy, Exists, OthersAreKept
<1>5. ASSUME ~regime.overlap PROVE InTurns'
  <2>1. \A o \in Dumps : ~Busy(o)
    BY <1>5 DEF Name
  <2>2. \A o \in Dumps : Busy(o)' => o = d
    BY <2>1 DEF ExtractInv, TypeOK, Name, Busy
  <2>3. \A o \in Dumps : stage'[o] = "done" => o # d /\ stage[o] = "done" /\ chosen'[o] = chosen[o]
    BY DEF ExtractInv, TypeOK, Name
  <2>4. \A o \in Dumps : stage'[o] = "done" => chosen'[d] # chosen'[o]
    BY <1>1, <2>3 DEF ExtractInv, TypeOK, Name, Exists
  <2>5. \A o \in Dumps : stage'[o] # "writing"
    BY <2>1 DEF ExtractInv, TypeOK, Name, Busy
  <2>6. DoneIsKept'
    BY <1>5, <2>3 DEF ExtractInv, InTurns, DoneIsKept, Name
  <2> QED
    BY <2>2, <2>4, <2>5, <2>6 DEF InTurns
<1> QED
  BY <1>2, <1>3, <1>4, <1>5 DEF ExtractInv, Name

\* Creating: the file is new, or is the one that was named; nobody else is busy in
\* turns, and no finished dump has it.
LEMMA CreateKeeps ==
    ASSUME ExtractInv, NEW d \in Dumps, Create(d)
    PROVE  ExtractInv'
<1>1. TypeOK'
  BY DEF ExtractInv, TypeOK, Create, Exists, Nothing
<1>2. Progress'
  BY ExtractAssumption DEF ExtractInv, TypeOK, Progress, Create
<1>3. IsFiniteSet(DOMAIN files')
  <2>1. DOMAIN files' = DOMAIN files \cup {chosen[d]}
    BY DEF Create
  <2> QED
    BY <2>1, FS_AddElement DEF ExtractInv, Spared
<1>4. Spared'
  <2>1. chosen[d] \notin Existing
    BY DEF ExtractInv, Spared, Create, Busy
  <2>2. \A o \in Dumps : Busy(o)' => Busy(o)
    BY DEF ExtractInv, TypeOK, Create, Busy
  <2> QED
    BY <1>3, <2>1, <2>2 DEF ExtractInv, Spared, Create, OthersAreKept
<1>5. ASSUME ~regime.overlap PROVE InTurns'
  <2>1. InTurns /\ Busy(d)
    BY <1>5 DEF ExtractInv, Create, Busy
  <2>2. \A o \in Dumps : Busy(o)' => o = d
    BY <2>1 DEF ExtractInv, TypeOK, InTurns, Create, Busy
  <2>3. \A o \in Dumps : stage'[o] = "done" => stage[o] = "done"
    BY DEF ExtractInv, TypeOK, Create
  <2>4. reached'[d] = 0 /\ files'[chosen[d]] = [p \in 1..0 |-> d]
    BY DEF ExtractInv, TypeOK, Progress, Create, Nothing
  <2>5. \A o \in Dumps : stage'[o] = "writing" => files'[chosen'[o]] = [p \in 1..reached'[o] |-> o]
    BY <2>2, <2>4 DEF Create, Busy
  <2>6. \A o \in Dumps : stage'[o] = "done" => files'[chosen'[o]] = files[chosen[o]]
    BY <2>1, <2>3 DEF ExtractInv, TypeOK, InTurns, Create, Exists
  <2>7. DoneIsKept'
    BY <2>1, <2>3, <2>6 DEF InTurns, DoneIsKept, Create
  <2>8. \A o, e \in Dumps : Busy(o)' /\ stage'[e] = "done" => chosen'[o] # chosen'[e]
    BY <2>1, <2>2, <2>3 DEF InTurns, Create, Busy
  <2> QED
    BY <2>2, <2>5, <2>7, <2>8 DEF InTurns
<1> QED
  BY <1>1, <1>2, <1>4, <1>5 DEF ExtractInv, Create

\* Writing: one more piece of the file this dump created.
LEMMA PieceKeeps ==
    ASSUME ExtractInv, NEW d \in Dumps, Write(d)
    PROVE  ExtractInv'
<1> DEFINE p == reached[d] + 1
<1>1. p \in 1..Pieces /\ chosen[d] \in DOMAIN files
  BY ExtractAssumption DEF ExtractInv, TypeOK, Progress, Write, Exists
<1>2. files' = [files EXCEPT ![chosen[d]] =
                  [q \in DOMAIN files[chosen[d]] \cup {p} |->
                     IF q = p THEN d ELSE files[chosen[d]][q]]]
  BY DEF Write
<1>3. DOMAIN files' = DOMAIN files
  BY <1>2
<1>4. TypeOK'
  BY <1>1, <1>2, <1>3 DEF ExtractInv, TypeOK, Write, Exists
<1>5. Progress'
  <2>1. reached'[d] = p /\ stage'[d] = (IF p = Pieces THEN "done" ELSE "writing")
    BY DEF ExtractInv, TypeOK, Write
  <2>2. \A o \in Dumps \ {d} : reached'[o] = reached[o] /\ stage'[o] = stage[o]
    BY DEF ExtractInv, TypeOK, Write
  <2>3. p # Pieces => p < Pieces
    BY <1>1, ExtractAssumption
  <2> QED
    BY <2>1, <2>2, <2>3 DEF ExtractInv, Progress
<1>6. Spared'
  <2>1. chosen[d] \notin Existing
    BY DEF ExtractInv, Spared, Write, Busy
  <2>2. \A o \in Dumps : Busy(o)' => Busy(o)
    BY DEF ExtractInv, TypeOK, Write, Busy
  <2> QED
    BY <1>2, <1>3, <2>1, <2>2 DEF ExtractInv, Spared, Write, OthersAreKept
<1>7. ASSUME ~regime.overlap PROVE InTurns'
  <2>1. InTurns /\ Busy(d)
    BY <1>7 DEF ExtractInv, Write, Busy
  <2>2. \A o \in Dumps : Busy(o)' => o = d
    BY <2>1 DEF ExtractInv, TypeOK, InTurns, Write, Busy
  <2>3. \A o \in Dumps : stage'[o] = "done" => o = d \/ stage[o] = "done"
    BY DEF ExtractInv, TypeOK, Write
  <2>4. files'[chosen[d]] = [q \in 1..p |-> d]
    <3>1. files[chosen[d]] = [q \in 1..reached[d] |-> d]
      BY <2>1 DEF InTurns, Write
    <3>2. (1..reached[d]) \cup {p} = 1..p /\ reached[d] \in Nat
      BY <1>1 DEF ExtractInv, TypeOK
    <3> QED
      BY <1>1, <1>2, <3>1, <3>2
  <2>5. reached'[d] = p /\ chosen' = chosen /\ (stage'[d] = "done" => p = Pieces)
    BY DEF ExtractInv, TypeOK, Write
  <2>6. \A o \in Dumps : stage'[o] = "writing" => files'[chosen'[o]] = [q \in 1..reached'[o] |-> o]
    BY <2>2, <2>4, <2>5 DEF Busy
  <2>7. \A o \in Dumps : stage[o] = "done" => files'[chosen[o]] = files[chosen[o]]
    BY <1>2, <2>1 DEF ExtractInv, TypeOK, InTurns, Exists
  <2>8. DoneIsKept'
    BY <2>1, <2>3, <2>4, <2>5, <2>7 DEF InTurns, DoneIsKept
  <2>9. \A o, e \in Dumps : Busy(o)' /\ stage'[e] = "done" => chosen'[o] # chosen'[e]
    BY <2>1, <2>2, <2>3, <2>5 DEF InTurns, Busy
  <2> QED
    BY <2>2, <2>6, <2>8, <2>9 DEF InTurns
<1> QED
  BY <1>4, <1>5, <1>6, <1>7 DEF ExtractInv, Write

\* Stopping: the file stays as it is, and the dump claims nothing of it.
LEMMA StopKeeps ==
    ASSUME ExtractInv, NEW d \in Dumps, Stop(d)
    PROVE  ExtractInv'
<1>1. \A o \in Dumps : stage'[o] = (IF o = d THEN "lost" ELSE stage[o])
  BY DEF ExtractInv, TypeOK, Stop
<1>2. TypeOK'
  BY <1>1 DEF ExtractInv, TypeOK, Stop, Exists
<1>3. Progress'
  BY <1>1 DEF ExtractInv, Progress, Stop
<1>4. Spared'
  BY <1>1 DEF ExtractInv, Spared, Stop, Busy, OthersAreKept
<1>5. ASSUME ~regime.overlap PROVE InTurns'
  <2>1. InTurns /\ files' = files /\ chosen' = chosen /\ reached' = reached
    BY <1>5 DEF ExtractInv, Stop
  <2>2. \A o \in Dumps : Busy(o)' => Busy(o)
    BY <1>1 DEF Busy
  <2>3. \A o \in Dumps : /\ stage'[o] = "done" => stage[o] = "done"
                         /\ stage'[o] = "writing" => stage[o] = "writing"
    BY <1>1
  <2>4. DoneIsKept'
    BY <2>1, <2>3 DEF InTurns, DoneIsKept
  <2> QED
    BY <2>1, <2>2, <2>3, <2>4 DEF InTurns
<1> QED
  BY <1>2, <1>3, <1>4, <1>5 DEF ExtractInv, Stop

LEMMA ExtractStep == ExtractInv /\ [ExtractNext]_extractVars => ExtractInv'
<1>1. ASSUME ExtractInv, ExtractNext PROVE ExtractInv'
  BY <1>1, NameKeeps, CreateKeeps, PieceKeeps, StopKeeps DEF ExtractNext
<1>2. ASSUME ExtractInv, UNCHANGED extractVars PROVE ExtractInv'
  BY <1>2 DEF extractVars, ExtractInv, TypeOK, Exists, Progress, Spared, InTurns, Busy, DoneIsKept,
              OthersAreKept
<1> QED
  BY <1>1, <1>2

THEOREM ExtractInvariance == ExtractSpec => []ExtractInv
  BY ExtractInitially, ExtractStep, PTL DEF ExtractSpec

-----------------------------------------------------------------------------
(* What follows.                                                           *)

\* Every variable keeps its type; a dump that is writing or done has its file.
THEOREM TypeCorrect == ExtractSpec => []TypeOK
<1>1. ExtractInv => TypeOK
  BY DEF ExtractInv
<1> QED
  BY <1>1, ExtractInvariance, PTL

\* However many processes write to the directory at once, and wherever they are cut
\* short, open_extracted never touches a file that was there before.
THEOREM OthersStay == ExtractSpec => []OthersAreKept
<1>1. ExtractInv => OthersAreKept
  BY DEF ExtractInv, Spared
<1> QED
  BY <1>1, ExtractInvariance, PTL

\* While processes take turns, the file a finished dump reported holds that dump.
THEOREM DoneStays == ExtractSpec => []DoneIsKeptInTurns
<1>1. ExtractInv => DoneIsKeptInTurns
  BY DEF ExtractInv, InTurns, DoneIsKeptInTurns
<1> QED
  BY <1>1, ExtractInvariance, PTL

-----------------------------------------------------------------------------
(***************************************************************************)
(* BannerCache: the log of banners.                                        *)
(* For any number of processes that take turns, symbol files, versions and *)
(* restarts, and whatever look versions share: banners.tsv stays a         *)
(* sequence of whole lines, each of which says what the file of its key    *)
(* declared while it had that stamp, so what a call is told was declared   *)
(* by the file while it looked as it does, and the next process is told as *)
(* much from the log alone.                                                *)
(***************************************************************************)

-----------------------------------------------------------------------------
(* banners.tsv, line by line.                                              *)

Answers == Versions \cup {NoBanner}
Fragments == {Tab, Newline} \cup {KeyText(k) : k \in Keys} \cup {BannerText(v) : v \in Versions}

\* A line begins at i: it is the first, or a line has just ended.
StartsIn(lg, i) == i \in 1..Len(lg) /\ (i = 1 \/ lg[i - 1] = Newline)

\* The banner b is true of the key k, S being what the files have said.
TrueOf(k, b, S) == <<k[1], k[2], b>> \in S

\* The line that begins at i is whole, and says b of the key k.
LineOf(lg, i, k, b) ==
    /\ lg[i] = KeyText(k)
    /\ i + 2 <= Len(lg) /\ lg[i + 1] = Tab
    /\ IF b = NoBanner THEN lg[i + 2] = Newline
       ELSE i + 3 <= Len(lg) /\ lg[i + 2] = BannerText(b) /\ lg[i + 3] = Newline

\* It tells the truth about its key.
WholeLine(lg, i, S) == \E k \in Keys, b \in Answers : TrueOf(k, b, S) /\ LineOf(lg, i, k, b)

\* The first n fragments are whole lines.
Whole(lg, n, S) ==
    /\ n \in 0..Len(lg)
    /\ n = 0 \/ lg[n] = Newline
    /\ \A i \in 1..n : StartsIn(lg, i) => WholeLine(lg, i, S)

\* There is a line about the key.
Logged(lg, k) == \E i \in 1..Len(lg) : StartsIn(lg, i) /\ lg[i] = KeyText(k)

\* The kinds of fragment differ, and so do the texts of keys that differ.
LEMMA FragmentsDiffer ==
    /\ Tab # Newline
    /\ \A k : KeyText(k) # Newline /\ KeyText(k) # Tab
    /\ \A b : BannerText(b) # Newline /\ BannerText(b) # Tab
    /\ \A k, m : KeyText(k) = KeyText(m) => k = m
<1>1. /\ Tab.kind = "tab" /\ Newline.kind = "newline"
      /\ \A k : KeyText(k).kind = "key" /\ KeyText(k).val = k
      /\ \A b : BannerText(b).kind = "banner"
  BY DEF Tab, Newline, KeyText, BannerText
<1> QED BY <1>1

\* A greatest member is the Max of FiniteSetsExt.
LEMMA MaxIs ==
    ASSUME NEW S \in SUBSET Int, NEW m \in S, \A x \in S : x <= m
    PROVE  Max(S) = m
<1>1. \E x \in S : \A y \in S : x >= y
  OBVIOUS
<1>2. Max(S) \in S /\ \A y \in S : Max(S) >= y
  BY <1>1 DEF Max
<1>3. Max(S) \in Int /\ m \in Int
  BY <1>2
<1> QED BY <1>2, <1>3

\* More fragments leave whole lines whole, and what is logged logged.
LEMMA AppendKeeps ==
    ASSUME NEW lg \in Seq(Fragments), NEW x \in Fragments, NEW n, NEW S, Whole(lg, n, S)
    PROVE  /\ Append(lg, x) \in Seq(Fragments)
           /\ Len(Append(lg, x)) = Len(lg) + 1
           /\ \A i \in 1..Len(lg) : Append(lg, x)[i] = lg[i]
           /\ Append(lg, x)[Len(lg) + 1] = x
           /\ Whole(Append(lg, x), n, S)
           /\ \A k : Logged(lg, k) => Logged(Append(lg, x), k)
<1> DEFINE more == Append(lg, x)
<1>1. /\ more \in Seq(Fragments) /\ Len(more) = Len(lg) + 1 /\ Len(lg) \in Nat
      /\ \A i \in 1..Len(lg) : more[i] = lg[i]
      /\ more[Len(lg) + 1] = x
  OBVIOUS
<1> HIDE DEF more
<1>2. \A i \in 1..Len(lg) : StartsIn(more, i) <=> StartsIn(lg, i)
  BY <1>1 DEF StartsIn
<1>3. ASSUME NEW i \in 1..Len(lg), WholeLine(lg, i, S) PROVE WholeLine(more, i, S)
  <2>1. PICK k \in Keys, a \in Answers : TrueOf(k, a, S) /\ LineOf(lg, i, k, a)
    BY <1>3 DEF WholeLine
  <2>2. /\ i + 2 <= Len(lg)
        /\ more[i] = lg[i] /\ more[i + 1] = lg[i + 1] /\ more[i + 2] = lg[i + 2]
        /\ i + 3 <= Len(lg) => more[i + 3] = lg[i + 3]
    BY <1>1, <2>1 DEF LineOf
  <2>3. LineOf(more, i, k, a)
    BY <1>1, <2>1, <2>2 DEF LineOf
  <2> QED BY <2>1, <2>3 DEF WholeLine
<1>4. Whole(more, n, S)
  <2>1. n \in 0..Len(lg) /\ (n = 0 \/ lg[n] = Newline)
    BY DEF Whole
  <2>2. n \in 0..Len(more) /\ (n = 0 \/ more[n] = Newline)
    BY <1>1, <2>1
  <2>3. ASSUME NEW i \in 1..n, StartsIn(more, i) PROVE WholeLine(more, i, S)
    <3>1. i \in 1..Len(lg)
      BY <1>1, <2>1
    <3>2. StartsIn(lg, i)
      BY <1>2, <2>3, <3>1
    <3>3. WholeLine(lg, i, S)
      BY <3>2 DEF Whole
    <3> QED BY <1>3, <3>1, <3>3
  <2> QED BY <2>2, <2>3 DEF Whole
<1>5. \A k : Logged(lg, k) => Logged(more, k)
  <2> SUFFICES ASSUME NEW k, Logged(lg, k) PROVE Logged(more, k)
    OBVIOUS
  <2>1. PICK i \in 1..Len(lg) : StartsIn(lg, i) /\ lg[i] = KeyText(k)
    BY DEF Logged
  <2>2. i \in 1..Len(more) /\ StartsIn(more, i) /\ more[i] = KeyText(k)
    BY <1>1, <1>2, <2>1
  <2> QED BY <2>2 DEF Logged
<1> QED BY <1>1, <1>4, <1>5 DEF more

\* A line that has got its newline is whole, and nothing is left over.
LEMMA LineEnded ==
    ASSUME NEW lg \in Seq(Fragments), NEW n, NEW S, Whole(lg, n, S),
           NEW k \in Keys, NEW a \in Answers, TrueOf(k, a, S),
           lg[n + 1] = KeyText(k), lg[n + 2] = Tab,
           IF a = NoBanner THEN Len(lg) = n + 3 /\ lg[n + 3] = Newline
           ELSE Len(lg) = n + 4 /\ lg[n + 3] = BannerText(a) /\ lg[n + 4] = Newline
    PROVE  Whole(lg, Len(lg), S)
<1>1. n \in Nat /\ Len(lg) \in Nat /\ Len(lg) \in {n + 3, n + 4} /\ lg[Len(lg)] = Newline
  BY DEF Whole
<1>2. WholeLine(lg, n + 1, S)
  <2>1. (n + 1) + 1 = n + 2 /\ (n + 1) + 2 = n + 3 /\ (n + 1) + 3 = n + 4
    BY <1>1
  <2>2. (n + 1) + 2 <= Len(lg)
    BY <1>1
  <2>3. LineOf(lg, n + 1, k, a)
    BY <1>1, <2>1, <2>2 DEF LineOf
  <2> QED BY <2>3 DEF WholeLine
<1>3. ASSUME NEW i \in 1..Len(lg), StartsIn(lg, i) PROVE WholeLine(lg, i, S)
  <2>1. CASE i \in 1..n
    BY <1>3, <2>1 DEF Whole
  <2>2. CASE i = n + 1
    BY <1>2, <2>2
  <2>3. i \notin {n + 2, n + 3, n + 4}
    <3>1. lg[i - 1] = Newline \/ i = 1
      BY <1>3 DEF StartsIn
    <3>2. /\ i = n + 2 => i - 1 = n + 1
          /\ i = n + 3 => i - 1 = n + 2
          /\ i = n + 4 => i - 1 = n + 3
      BY <1>1
    <3>3. lg[n + 1] # Newline /\ lg[n + 2] # Newline
      BY FragmentsDiffer
    <3>4. i = n + 4 => lg[n + 3] # Newline
      BY <1>1, FragmentsDiffer
    <3> QED BY <1>1, <3>1, <3>2, <3>3, <3>4
  <2> QED BY <1>1, <2>1, <2>2, <2>3
<1> QED BY <1>1, <1>3 DEF Whole

-----------------------------------------------------------------------------
(* What is read back.                                                      *)

\* Where a line ends, the line that ends there is the one that began last.
LEMMA LineFromStart ==
    ASSUME log \in Seq(Fragments), NEW i, StartsIn(log, i), NEW e \in 1..Len(log), i <= e,
           \A j \in i..(e - 1) : log[j] # Newline
    PROVE  Line(e) = SubSeq(log, i, e - 1)
<1> DEFINE S == {0} \cup {j \in Newlines : j < e}
<1>1. i \in 1..Len(log) /\ Len(log) \in Nat /\ (i = 1 \/ log[i - 1] = Newline)
  BY DEF StartsIn
<1>2. S \in SUBSET Int /\ i - 1 \in S
  BY <1>1 DEF Newlines
<1>3. ASSUME NEW x \in S PROVE x <= i - 1
  <2>1. CASE x = 0
    BY <1>1, <2>1
  <2>2. CASE x \in Newlines /\ x < e
    <3>1. x \in 1..Len(log) /\ log[x] = Newline /\ x < e
      BY <2>2 DEF Newlines
    <3>2. x \notin i..(e - 1)
      BY <3>1
    <3> QED BY <1>1, <3>1, <3>2
  <2> QED BY <2>1, <2>2
<1>4. Max(S) = i - 1
  <2> HIDE DEF S
  <2> QED BY <1>2, <1>3, MaxIs
<1>5. (i - 1) + 1 = i
  BY <1>1
<1> QED BY <1>4, <1>5 DEF Line

\* A line that begins at i and is whole: where it ends, and what it says.
LEMMA LineSays ==
    ASSUME log \in Seq(Fragments), NEW i, StartsIn(log, i), NEW S, WholeLine(log, i, S)
    PROVE  \E e \in Newlines, k \in Keys :
             /\ i <= e /\ \A j \in i..(e - 1) : log[j] # Newline
             /\ log[i] = KeyText(k)
             /\ \A m : Identifies(Line(e), m) <=> m = k
             /\ Declared(Line(e)) \in Answers /\ TrueOf(k, Declared(Line(e)), S)
<1>1. i \in 1..Len(log) /\ Len(log) \in Nat
  BY DEF StartsIn
<1>2. PICK k \in Keys, says \in Answers : TrueOf(k, says, S) /\ LineOf(log, i, k, says)
  BY DEF WholeLine
<1>2a. /\ log[i] = KeyText(k)
       /\ i + 2 <= Len(log) /\ log[i + 1] = Tab
       /\ IF says = NoBanner THEN log[i + 2] = Newline
          ELSE i + 3 <= Len(log) /\ log[i + 2] = BannerText(says) /\ log[i + 3] = Newline
  BY <1>2 DEF LineOf
<1> DEFINE e == IF says = NoBanner THEN i + 2 ELSE i + 3
<1>3. e \in Newlines /\ e \in 1..Len(log) /\ i <= e
  BY <1>1, <1>2a DEF Newlines
<1>4. ASSUME NEW j \in i..(e - 1) PROVE log[j] # Newline
  <2>1. log[i] # Newline /\ log[i + 1] # Newline
    BY <1>2a, FragmentsDiffer
  <2>2. says # NoBanner => log[i + 2] # Newline
    BY <1>2a, FragmentsDiffer
  <2>3. j = i \/ j = i + 1 \/ (says # NoBanner /\ j = i + 2)
    BY <1>1
  <2> QED BY <2>1, <2>2, <2>3
<1>5. Line(e) = SubSeq(log, i, e - 1)
  <2> HIDE DEF e
  <2> QED BY <1>3, <1>4, LineFromStart
<1> DEFINE line == SubSeq(log, i, e - 1)
<1>6. /\ Len(line) = IF says = NoBanner THEN 2 ELSE 3
      /\ line \in Seq(Fragments)
      /\ line[1] = KeyText(k) /\ line[2] = Tab
      /\ says # NoBanner => line[3] = BannerText(says)
  <2>1. CASE says = NoBanner
    <3>1. e - 1 = i + 1 /\ i + 1 <= Len(log)
      BY <1>1, <1>2a, <2>1
    <3>2. Len(line) = 2 /\ line \in Seq(Fragments) /\ line[1] = log[i] /\ line[2] = log[i + 1]
      <4>1. i \in Int /\ i + 1 \in Int /\ \A j \in i..(i + 1) : log[j] \in Fragments
        BY <1>1, <3>1
      <4>2. line = SubSeq(log, i, i + 1)
        BY <3>1
      <4> HIDE DEF line, e
      <4>3. /\ line \in Seq(Fragments) /\ Len(line) = IF i <= i + 1 THEN (i + 1) - i + 1 ELSE 0
            /\ \A j \in 1..((i + 1) - i + 1) : line[j] = log[i + j - 1]
        BY <4>1, <4>2, SubSeqProperties
      <4>4. i <= i + 1 /\ (i + 1) - i + 1 = 2 /\ i + 1 - 1 = i /\ i + 2 - 1 = i + 1
        BY <1>1
      <4>5. 1 \in 1..2 /\ 2 \in 1..2
        OBVIOUS
      <4> QED BY <4>3, <4>4, <4>5
    <3> QED BY <1>2a, <2>1, <3>2
  <2>2. CASE says # NoBanner
    <3>1. e - 1 = i + 2 /\ i + 2 <= Len(log)
      BY <1>1, <1>2a, <2>2
    <3>2. /\ Len(line) = 3 /\ line \in Seq(Fragments)
          /\ line[1] = log[i] /\ line[2] = log[i + 1] /\ line[3] = log[i + 2]
      <4>1. i \in Int /\ i + 2 \in Int /\ \A j \in i..(i + 2) : log[j] \in Fragments
        BY <1>1, <3>1
      <4>2. line = SubSeq(log, i, i + 2)
        BY <3>1
      <4> HIDE DEF line, e
      <4>3. /\ line \in Seq(Fragments) /\ Len(line) = IF i <= i + 2 THEN (i + 2) - i + 1 ELSE 0
            /\ \A j \in 1..((i + 2) - i + 1) : line[j] = log[i + j - 1]
        BY <4>1, <4>2, SubSeqProperties
      <4>4. i <= i + 2 /\ (i + 2) - i + 1 = 3 /\ i + 1 - 1 = i /\ i + 2 - 1 = i + 1
            /\ i + 3 - 1 = i + 2
        BY <1>1
      <4>5. 1 \in 1..3 /\ 2 \in 1..3 /\ 3 \in 1..3
        OBVIOUS
      <4> QED BY <4>3, <4>4, <4>5
    <3> QED BY <1>2a, <2>2, <3>2
  <2> QED BY <2>1, <2>2
<1> HIDE DEF line
<1>7. \A m : Identifies(line, m) <=> m = k
  BY <1>6, FragmentsDiffer DEF Identifies
<1>8. Declared(line) = says
  <2> DEFINE rest == SubSeq(line, 3, Len(line))
  <2>1. CASE says = NoBanner
    <3>1. rest = <<>>
      BY <1>6, <2>1
    <3> QED BY <3>1, <2>1 DEF Declared
  <2>2. CASE says # NoBanner
    <3>1. Len(rest) = 1 /\ rest[1] = line[3]
      BY <1>6, <2>2
    <3>2. line[3] = BannerText(says)
      BY <1>6, <2>2
    <3> HIDE DEF rest
    <3>5. rest # <<>>
      <4>1. Len(<<>>) = 0
        OBVIOUS
      <4>2. 0 # 1
        OBVIOUS
      <4> QED BY <3>1, <4>1, <4>2, Zenon
    <3>4. BannerText(says).kind = "banner" /\ BannerText(says).val = says
      BY DEF BannerText
    <3>3. Declared(line) = IF rest = <<>> THEN NoBanner
              ELSE IF Len(rest) = 1 /\ rest[1].kind = "banner" THEN rest[1].val ELSE Garbage
      BY DEF Declared, rest
    <3> QED BY <3>1, <3>2, <3>3, <3>4, <3>5
  <2> QED BY <2>1, <2>2
<1> HIDE DEF e
<1> QED BY <1>2, <1>2a, <1>3, <1>4, <1>5, <1>7, <1>8 DEF line

\* A set of positions that is not empty has a least one and a Max.
LEMMA LeastPosition ==
    ASSUME NEW n \in Nat, NEW S \in SUBSET (1..n), S # {}
    PROVE  \E m \in S : \A x \in S : m <= x
<1>1. S \in SUBSET Nat
  OBVIOUS
<1> QED BY <1>1, MinIsLeast

LEMMA MaxPosition ==
    ASSUME NEW n \in Nat, NEW S \in SUBSET (1..n), S # {}
    PROVE  Max(S) \in S
<1> DEFINE D == {n + 1 - x : x \in S}
<1>1. D \in SUBSET (1..n) /\ D # {}
  <2>1. ASSUME NEW x \in S PROVE n + 1 - x \in 1..n
    OBVIOUS
  <2> QED BY <2>1
<1>2. PICK d \in D : \A y \in D : d <= y
  <2> HIDE DEF D
  <2> QED BY <1>1, LeastPosition
<1>3. PICK m \in S : d = n + 1 - m
  BY <1>2
<1>4. ASSUME NEW x \in S PROVE x <= m
  <2>1. d <= n + 1 - x
    BY <1>2
  <2> QED BY <1>3, <2>1
<1> QED BY <1>4, MaxIs

\* Every newline ends a line that begins somewhere.
LEMMA LineBegins ==
    ASSUME log \in Seq(Fragments), NEW e \in Newlines
    PROVE  \E i : /\ StartsIn(log, i) /\ i <= e
                  /\ \A j \in i..(e - 1) : log[j] # Newline
<1> DEFINE T == {i \in 1..e : \A j \in i..(e - 1) : log[j] # Newline}
<1>1. e \in 1..Len(log) /\ Len(log) \in Nat
  BY DEF Newlines
<1>2. e \in T
  BY <1>1
<1>3. PICK i \in T : \A x \in T : i <= x
  <2>1. T \in SUBSET (1..e) /\ e \in Nat
    BY <1>1
  <2> HIDE DEF T
  <2> QED BY <1>2, <2>1, LeastPosition
<1>4. i \in 1..e /\ \A j \in i..(e - 1) : log[j] # Newline
  OBVIOUS
<1>5. i = 1 \/ log[i - 1] = Newline
  <2> SUFFICES ASSUME i # 1, log[i - 1] # Newline PROVE FALSE
    OBVIOUS
  <2>1. i - 1 \in 1..e /\ ~(i <= i - 1)
    BY <1>1, <1>4
  <2>2. ASSUME NEW j \in (i - 1)..(e - 1) PROVE log[j] # Newline
    <3>1. j = i - 1 \/ j \in i..(e - 1)
      BY <1>1, <1>4
    <3> QED BY <1>4, <3>1
  <2>3. i - 1 \in T
    BY <2>1, <2>2
  <2> QED BY <1>3, <2>1, <2>3
<1>6. i \in 1..Len(log) /\ i <= e
  BY <1>1, <1>4
<1> HIDE DEF T
<1> QED BY <1>4, <1>5, <1>6 DEF StartsIn

\* A file of whole lines is read back for what its lines say.
LEMMA TableIs ==
    ASSUME log \in Seq(Fragments), NEW S, Whole(log, Len(log), S)
    PROVE  /\ TableOf \in [Keys -> Answers \cup {Unknown}]
           /\ \A k \in Keys : IF Logged(log, k) THEN TrueOf(k, TableOf[k], S) /\ TableOf[k] \in Answers
                             ELSE TableOf[k] = Unknown
<1>1. Len(log) \in Nat /\ Newlines \in SUBSET (1..Len(log)) /\ 0 \notin Newlines
  BY DEF Newlines
<1>2. LineEnds = Newlines
  <2>1. Len(log) = 0 \/ Len(log) \in Newlines
    BY <1>1 DEF Whole, Newlines
  <2>2. Len(log) + 1 \in {i + 1 : i \in Newlines \cup {0}}
    BY <2>1
  <2> QED BY <2>2 DEF LineEnds
<1>3. ASSUME NEW e \in Newlines
      PROVE  \E k \in Keys : /\ Logged(log, k)
                             /\ \A m : Identifies(Line(e), m) <=> m = k
                             /\ Declared(Line(e)) \in Answers /\ TrueOf(k, Declared(Line(e)), S)
  <2>1. PICK i : StartsIn(log, i) /\ i <= e /\ \A j \in i..(e - 1) : log[j] # Newline
    BY LineBegins
  <2>2. i \in 1..Len(log)
    BY <2>1 DEF StartsIn
  <2>3. WholeLine(log, i, S)
    BY <2>1, <2>2 DEF Whole
  <2>4. PICK d \in Newlines, k \in Keys :
             /\ i <= d /\ \A j \in i..(d - 1) : log[j] # Newline
             /\ log[i] = KeyText(k)
             /\ \A m : Identifies(Line(d), m) <=> m = k
             /\ Declared(Line(d)) \in Answers /\ TrueOf(k, Declared(Line(d)), S)
    BY <2>1, <2>3, LineSays
  <2>5. log[d] = Newline /\ log[e] = Newline /\ d \in 1..Len(log) /\ e \in 1..Len(log)
    BY DEF Newlines
  <2>6. d = e
    <3>1. ~(d < e)
      BY <1>1, <2>1, <2>2, <2>4, <2>5
    <3>2. ~(e < d)
      BY <1>1, <2>1, <2>2, <2>4, <2>5
    <3> QED BY <2>5, <3>1, <3>2
  <2>7. Logged(log, k)
    BY <2>1, <2>2, <2>4 DEF Logged
  <2> QED BY <2>4, <2>6, <2>7
<1>4. ASSUME NEW k \in Keys, Logged(log, k) PROVE \E e \in Newlines : Identifies(Line(e), k)
  <2>1. PICK i \in 1..Len(log) : StartsIn(log, i) /\ log[i] = KeyText(k)
    BY <1>4 DEF Logged
  <2>2. WholeLine(log, i, S)
    BY <2>1 DEF Whole
  <2>3. PICK e \in Newlines, m \in Keys :
             /\ log[i] = KeyText(m)
             /\ \A o : Identifies(Line(e), o) <=> o = m
    BY <2>1, <2>2, LineSays
  <2> QED BY <2>1, <2>3, FragmentsDiffer
<1>5. ASSUME NEW k \in Keys
      PROVE  IF Logged(log, k) THEN TrueOf(k, TableOf[k], S) /\ TableOf[k] \in Answers
             ELSE TableOf[k] = Unknown
  <2> DEFINE ends == {e \in Newlines : Identifies(Line(e), k)}
  <2>1. TableOf[k] = IF ends = {} THEN Unknown ELSE Declared(Line(Max(ends)))
    BY <1>2 DEF TableOf
  <2>2. CASE Logged(log, k)
    <3>1. ends # {}
      BY <1>4, <2>2
    <3>2. Max(ends) \in ends
      <4>1. ends \in SUBSET (1..Len(log))
        BY <1>1
      <4> HIDE DEF ends
      <4> QED BY <1>1, <3>1, <4>1, MaxPosition
    <3>3. Max(ends) \in Newlines /\ Identifies(Line(Max(ends)), k)
      BY <3>2
    <3> HIDE DEF ends
    <3>4. Declared(Line(Max(ends))) \in Answers /\ TrueOf(k, Declared(Line(Max(ends))), S)
      BY <1>3, <3>3
    <3> QED BY <2>1, <2>2, <3>1, <3>4
  <2>3. CASE ~Logged(log, k)
    <3>1. ends = {}
      BY <1>3, <2>3
    <3> QED BY <2>1, <2>3, <3>1
  <2> QED BY <2>2, <2>3
<1>6. TableOf = [k \in Keys |-> TableOf[k]]
  BY DEF TableOf
<1>7. \A k \in Keys : TableOf[k] \in Answers \cup {Unknown}
  BY <1>5
<1> QED BY <1>5, <1>6, <1>7

-----------------------------------------------------------------------------
(* The inductive invariant of processes that take turns.                   *)

Steps == {"idle", "look", "read", "stamp", "key", "tab", "banner", "newline"}
Writing == {"tab", "banner", "newline"}

BannerTypes ==
    /\ file \in [Files -> Versions]
    /\ log \in Seq(Fragments)
    /\ step \in [Processes -> Steps]
    /\ loaded \in [Processes -> BOOLEAN]
    /\ table \in [Processes -> [Keys -> Answers \cup {Unknown}]]
    /\ asked \in [Processes -> Files]
    /\ key \in [Processes -> Keys]
    /\ banner \in [Processes -> Answers]
    /\ answer \in [Processes -> Answers \cup {Unknown}]
    /\ steady \in [Processes -> BOOLEAN]

\* Only one process is in a call.
OneAtATime == \A r, o \in Processes : step[r] # "idle" /\ step[o] # "idle" => r = o

\* What a process in the middle of a line has written behind n whole fragments.
Unfinished(r, n) ==
    /\ step[r] \in Writing => log[n + 1] = KeyText(key[r])
    /\ step[r] = "tab" => Len(log) = n + 1
    /\ step[r] = "banner" => Len(log) = n + 2 /\ log[n + 2] = Tab /\ banner[r] # NoBanner
    /\ step[r] = "newline" =>
         /\ log[n + 2] = Tab
         /\ IF banner[r] = NoBanner THEN Len(log) = n + 2
            ELSE Len(log) = n + 3 /\ log[n + 3] = BannerText(banner[r])

\* The file is whole lines, and behind them the line being written.
Pending ==
    \E n : /\ Whole(log, n, said)
           /\ (\A r \in Processes : step[r] \notin Writing) => n = Len(log)
           /\ \A r \in Processes : Unfinished(r, n)

\* What the files declare now they have said.
Current == \A f \in Files : Said(f, Declares(file[f]))

\* There is a line about the key, or the last attempt to write one failed.
Noted(k) == Logged(log, k) \/ k \in unlogged

\* What a process remembers was true of its key once, and is in the file, or about
\* to be written there, if that is possible.
TableIsTrue(r) ==
    \A k \in Keys : table[r][k] # Unknown =>
        /\ TrueOf(k, table[r][k], said)
        /\ Noted(k) \/ (step[r] = "key" /\ key[r] = k)

\* In a call the file asked about stands still, so its stamp does.
CallIsSteady(r) ==
    /\ step[r] # "idle" => steady[r]
    /\ step[r] \notin {"idle", "read", "stamp"} => key[r] = stamp(asked[r])
    /\ step[r] \notin {"idle", "look", "read"} => Said(asked[r], banner[r])

\* An answer is true, and the file has it.
AnswerIsLogged(r) ==
    step[r] = "idle" /\ answer[r] # Unknown /\ steady[r] =>
        Said(asked[r], answer[r]) /\ Noted(stamp(asked[r]))

BannerInv ==
    /\ BannerTypes
    /\ OneAtATime
    /\ Pending
    /\ Current
    /\ \A r \in Processes : TableIsTrue(r) /\ CallIsSteady(r) /\ AnswerIsLogged(r)

\* Types of what the actions compute.
LEMMA DeclaresAnswers ==
    /\ \A v \in Versions : Declares(v) \in Answers
    /\ NoBanner \in Answers /\ Unknown \notin Answers
    /\ BannerTypes => \A f \in Files : stamp(f) \in Keys
    /\ BannerTypes => \A r \in Processes :
           key[r] \in Keys /\ asked[r] \in Files /\ banner[r] \in Answers /\ file[asked[r]] \in Versions
    /\ \A f \in Files : \A b : Said(f, b) <=> TrueOf(stamp(f), b, said)
BY VersionsAssumption DEF Declares, Answers, stamp, Keys, Looks, BannerTypes, Said, TrueOf

\* What a key was true of stays true of it.
LEMMA WholeStays ==
    ASSUME NEW lg, NEW n, NEW S, NEW T, S \subseteq T, Whole(lg, n, S)
    PROVE  Whole(lg, n, T)
BY DEF Whole, WholeLine, TrueOf

\* While nobody writes a line, the whole file stays whole lines.
LEMMA NobodyWrites ==
    ASSUME Pending, \A r \in Processes : step[r] \notin Writing,
           \A r \in Processes : step'[r] \notin Writing, log' = log, said \subseteq said'
    PROVE  Pending'
<1>1. PICK n : Whole(log, n, said) /\ n = Len(log)
  BY DEF Pending
<1>2. \A r \in Processes : Unfinished(r, n)'
  BY DEF Unfinished, Writing
<1>3. Whole(log', n, said') /\ n = Len(log')
  BY <1>1, WholeStays
<1> QED BY <1>2, <1>3 DEF Pending

\* A step of one process: it moves alone, forgets no line, and says nothing false.
Alone(r) ==
    /\ Quiet(Others(r)) /\ UNCHANGED file
    /\ said \subseteq said' /\ \A k \in Keys : Noted(k) => Noted(k)'
    /\ \A o \in Processes \ {r} :
         /\ step'[o] = step[o] /\ table'[o] = table[o] /\ asked'[o] = asked[o]
         /\ answer'[o] = answer[o] /\ steady'[o] = steady[o]

\* What is left to show of such a step are the parts about the process itself.
LEMMA OthersKeep ==
    ASSUME BannerInv, NEW r \in Processes, Alone(r),
           BannerTypes', Pending', TableIsTrue(r)', CallIsSteady(r)', AnswerIsLogged(r)'
    PROVE  BannerInv'
<1> USE DEF Alone
<1>1. \A o \in Processes \ {r} : step[o] = "idle" /\ step'[o] = "idle"
  BY DEF Quiet, Others
<1>2. OneAtATime'
  BY <1>1 DEF OneAtATime
<1>3. Current'
  BY DEF BannerInv, Current, Said
<1>4. ASSUME NEW o \in Processes \ {r}
      PROVE  TableIsTrue(o)' /\ CallIsSteady(o)' /\ AnswerIsLogged(o)'
  <2>1. TableIsTrue(o)'
    <3> SUFFICES ASSUME NEW k \in Keys, table'[o][k] # Unknown
                 PROVE  TrueOf(k, table'[o][k], said') /\ Noted(k)'
      BY DEF TableIsTrue
    <3>1. TrueOf(k, table[o][k], said) /\ Noted(k)
      BY <1>1 DEF BannerInv, TableIsTrue
    <3> QED BY <3>1 DEF TrueOf
  <2>2. CallIsSteady(o)'
    BY <1>1 DEF CallIsSteady
  <2>3. AnswerIsLogged(o)'
    <3> SUFFICES ASSUME answer'[o] # Unknown, steady'[o]
                 PROVE  Said(asked[o], answer[o])' /\ Noted(stamp(asked[o]))'
      BY DEF AnswerIsLogged
    <3>1. Said(asked[o], answer[o]) /\ Noted(stamp(asked[o]))
      BY <1>1 DEF BannerInv, AnswerIsLogged
    <3>2. stamp(asked[o]) \in Keys /\ stamp(asked[o])' = stamp(asked[o])
      BY DeclaresAnswers DEF BannerInv, BannerTypes, stamp
    <3>3. Noted(stamp(asked[o]))'
      <4>1. PICK k \in Keys : k = stamp(asked[o])
        BY <3>2
      <4>2. Noted(k)'
        BY <3>1, <4>1
      <4>3. stamp(asked[o])' = k
        BY <3>2, <4>1
      <4> QED BY <4>2, <4>3 DEF Noted
    <3> QED BY <3>1, <3>3 DEF Said
  <2> QED BY <2>1, <2>2, <2>3
<1> QED BY <1>2, <1>3, <1>4 DEF BannerInv

\* Between calls the file is whole lines.
LEMMA QuietFile ==
    ASSUME BannerInv, \A r \in Processes : step[r] \notin Writing
    PROVE  /\ Whole(log, Len(log), said)
           /\ TableOf \in [Keys -> Answers \cup {Unknown}]
           /\ \A k \in Keys : IF Logged(log, k) THEN TrueOf(k, TableOf[k], said) /\ TableOf[k] \in Answers
                             ELSE TableOf[k] = Unknown
<1>1. Whole(log, Len(log), said)
  BY DEF BannerInv, Pending
<1>2. log \in Seq(Fragments)
  BY DEF BannerInv, BannerTypes
<1> QED BY <1>1, <1>2, TableIs

\* A call begins.
LEMMA AskKeeps ==
    ASSUME BannerInv, NEW r \in Processes, Quiet(Others(r)), Ask(r)
    PROVE  BannerInv'
<1> USE DEF BannerInv
<1>1. PICK f \in Files :
        /\ asked' = [asked EXCEPT ![r] = f]
        /\ \/ key' = [key EXCEPT ![r] = stamp(f)] /\ step' = [step EXCEPT ![r] = "look"]
           \/ UNCHANGED key /\ step' = [step EXCEPT ![r] = "read"]
  BY DEF Ask, Goto
<1>2. /\ answer' = [answer EXCEPT ![r] = Unknown] /\ steady' = [steady EXCEPT ![r] = TRUE]
      /\ step[r] = "idle" /\ UNCHANGED <<file, log, loaded, table, banner, said, unlogged>>
  BY DEF Ask
<1>3. BannerTypes'
  <2>1. key' \in [Processes -> Keys] /\ step' \in [Processes -> Steps]
    <3>1. stamp(f) \in Keys
      BY DeclaresAnswers
    <3> QED BY <1>1, <3>1 DEF BannerTypes, Steps
  <2> QED BY <1>1, <1>2, <2>1 DEF BannerTypes
<1>4. Alone(r)
  BY <1>1, <1>2 DEF Alone, BannerTypes, Noted
<1>5. step'[r] \in {"look", "read"} /\ steady'[r] /\ asked'[r] = f
      /\ (step'[r] = "look" => key'[r] = stamp(f))
  BY <1>1, <1>2 DEF BannerTypes
<1>6. Pending'
  <2>1. \A o \in Processes : step[o] \notin Writing /\ step'[o] \notin Writing
    BY <1>2, <1>4, <1>5 DEF Alone, Quiet, Others, Writing
  <2> QED BY <1>2, <2>1, NobodyWrites
<1>7. TableIsTrue(r)'
  BY <1>2 DEF TableIsTrue, Noted
<1>8. CallIsSteady(r)' /\ AnswerIsLogged(r)'
  BY <1>2, <1>5 DEF CallIsSteady, AnswerIsLogged, stamp
<1> QED BY <1>3, <1>4, <1>6, <1>7, <1>8, OthersKeep

\* What the table is when it is needed: what it was, what banners.tsv says, or nothing.
LEMMA TabledIs ==
    ASSUME BannerInv, NEW r \in Processes, Quiet(Others(r)), step[r] \in {"look", "stamp"},
           NEW known, Tabled(r, known)
    PROVE  /\ known \in [Keys -> Answers \cup {Unknown}]
           /\ \A k \in Keys : known[k] # Unknown => TrueOf(k, known[k], said) /\ Noted(k)
<1> USE DEF BannerInv
<1>1. \A o \in Processes : step[o] \notin Writing \cup {"key"}
  BY DEF Quiet, Others, Writing
<1>2. CASE loaded[r]
  <2>1. known = table[r]
    BY <1>2 DEF Tabled
  <2> QED BY <1>1, <2>1 DEF BannerTypes, TableIsTrue
<1>3. CASE ~loaded[r] /\ known = TableOf
  <2>1. /\ TableOf \in [Keys -> Answers \cup {Unknown}]
        /\ \A k \in Keys : IF Logged(log, k) THEN TrueOf(k, TableOf[k], said)
                           ELSE TableOf[k] = Unknown
    BY <1>1, QuietFile
  <2> QED BY <1>3, <2>1 DEF Noted
<1>4. CASE known = EmptyTable
  BY <1>4 DEF EmptyTable
<1> QED BY <1>2, <1>3, <1>4 DEF Tabled

\* The table answers, or the symbol file has to be read.
LEMMA LookKeeps ==
    ASSUME BannerInv, NEW r \in Processes, Quiet(Others(r)), Look(r)
    PROVE  BannerInv'
<1> USE DEF BannerInv
<1>1. PICK known :
      /\ Tabled(r, known) /\ table' = [table EXCEPT ![r] = known]
      /\ \/ /\ known[key[r]] = Unknown /\ step' = [step EXCEPT ![r] = "read"] /\ answer' = answer
         \/ /\ known[key[r]] # Unknown /\ step' = [step EXCEPT ![r] = "idle"]
            /\ answer' = [answer EXCEPT ![r] = known[key[r]]]
  BY DEF Look, Goto, Return
<1>2. /\ step[r] = "look" /\ loaded' = [loaded EXCEPT ![r] = TRUE]
      /\ UNCHANGED <<file, log, asked, key, banner, steady, said, unlogged>>
  BY DEF Look
<1>3. /\ known \in [Keys -> Answers \cup {Unknown}]
      /\ \A k \in Keys : known[k] # Unknown => TrueOf(k, known[k], said) /\ Noted(k)
  BY <1>1, <1>2, TabledIs
<1>4. key[r] \in Keys /\ key[r] = stamp(asked[r]) /\ asked[r] \in Files /\ steady[r]
  BY <1>2, DeclaresAnswers DEF CallIsSteady
<1>5. BannerTypes'
  BY <1>1, <1>2, <1>3, <1>4 DEF BannerTypes, Steps
<1>6. Alone(r)
  BY <1>1, <1>2 DEF Alone, BannerTypes, Noted
<1>7. table'[r] = known /\ step'[r] \in {"read", "idle"}
      /\ (step'[r] = "idle" => answer'[r] = known[key[r]] /\ known[key[r]] # Unknown)
  BY <1>1, <1>2 DEF BannerTypes
<1>8. Pending'
  <2>1. \A o \in Processes : step[o] \notin Writing /\ step'[o] \notin Writing
    BY <1>2, <1>6, <1>7 DEF Alone, Quiet, Others, Writing
  <2> QED BY <1>2, <2>1, NobodyWrites
<1>9. TableIsTrue(r)'
  BY <1>2, <1>3, <1>7 DEF TableIsTrue, Noted
<1>10. CallIsSteady(r)'
  BY <1>2, <1>4, <1>7 DEF CallIsSteady
<1>11. AnswerIsLogged(r)'
  <2> SUFFICES ASSUME step'[r] = "idle"
               PROVE  Said(asked[r], answer[r])' /\ Noted(stamp(asked[r]))'
    BY DEF AnswerIsLogged
  <2>1. TrueOf(key[r], known[key[r]], said) /\ Noted(key[r])
    BY <1>3, <1>4, <1>7
  <2>2. Said(asked[r], known[key[r]])
    BY <1>4, <2>1, DeclaresAnswers
  <2>3. stamp(asked[r])' = key[r]
    BY <1>2, <1>4 DEF stamp
  <2> QED BY <1>2, <1>7, <2>1, <2>2, <2>3 DEF Said, Noted
<1> QED BY <1>5, <1>6, <1>8, <1>9, <1>10, <1>11, OthersKeep

\* The symbol file is read, or cannot be.
LEMMA ReadKeeps ==
    ASSUME BannerInv, NEW r \in Processes, Quiet(Others(r)), Read(r)
    PROVE  BannerInv'
<1> USE DEF BannerInv
<1>1. /\ step[r] = "read" /\ step' = [step EXCEPT ![r] = "stamp"]
      /\ UNCHANGED <<file, log, loaded, table, asked, key, answer, steady, unlogged>>
      /\ said \subseteq said'
  BY DEF Read, Goto
<1>2. PICK b \in Answers : /\ banner' = [banner EXCEPT ![r] = b]
                           /\ <<asked[r], Shows[file[asked[r]]], b>> \in said'
  <2>1. asked[r] \in Files /\ Declares(file[asked[r]]) \in Answers /\ NoBanner \in Answers
    BY DeclaresAnswers
  <2>2. CASE banner' = [banner EXCEPT ![r] = Declares(file[asked[r]])]
    BY <1>1, <2>1, <2>2 DEF Current, Said
  <2>3. CASE banner' = [banner EXCEPT ![r] = NoBanner]
             /\ said' = said \cup {<<asked[r], Shows[file[asked[r]]], NoBanner>>}
    BY <2>1, <2>3
  <2> QED BY <2>2, <2>3 DEF Read
<1>3. step'[r] = "stamp" /\ banner'[r] = b /\ steady'[r]
  BY <1>1, <1>2 DEF BannerTypes, CallIsSteady
<1>4. BannerTypes'
  BY <1>1, <1>2 DEF BannerTypes, Steps
<1>5. Alone(r)
  BY <1>1 DEF Alone, BannerTypes, Noted
<1>6. \A o \in Processes : step[o] \notin Writing \cup {"key"} /\ step'[o] \notin Writing
  BY <1>1, <1>3, <1>5 DEF Alone, Quiet, Others, Writing
<1>7. Pending'
  BY <1>1, <1>6, NobodyWrites
<1>8. TableIsTrue(r)'
  BY <1>1, <1>6 DEF TableIsTrue, Noted, TrueOf
<1>9. CallIsSteady(r)' /\ AnswerIsLogged(r)'
  BY <1>1, <1>2, <1>3 DEF CallIsSteady, AnswerIsLogged, Said
<1> QED BY <1>4, <1>5, <1>7, <1>8, <1>9, OthersKeep

\* The banner is put in the table.
LEMMA RememberKeeps ==
    ASSUME BannerInv, NEW r \in Processes, Quiet(Others(r)), Remember(r)
    PROVE  BannerInv'
<1> USE DEF BannerInv
<1> DEFINE k == stamp(asked[r])
<1>1. PICK known :
      /\ Tabled(r, known) /\ table' = [table EXCEPT ![r] = [known EXCEPT ![k] = banner[r]]]
      /\ \/ /\ known[k] = banner[r] /\ step' = [step EXCEPT ![r] = "idle"]
            /\ answer' = [answer EXCEPT ![r] = banner[r]]
         \/ step' = [step EXCEPT ![r] = "key"] /\ answer' = answer
  BY DEF Remember, Goto, Return
<1>2. /\ step[r] = "stamp" /\ key' = [key EXCEPT ![r] = k]
      /\ loaded' = [loaded EXCEPT ![r] = TRUE]
      /\ UNCHANGED <<file, log, asked, banner, steady, said, unlogged>>
  BY DEF Remember
<1>3. /\ known \in [Keys -> Answers \cup {Unknown}]
      /\ \A m \in Keys : known[m] # Unknown => TrueOf(m, known[m], said) /\ Noted(m)
  BY <1>1, <1>2, TabledIs
<1>4. /\ k \in Keys /\ banner[r] \in Answers /\ banner[r] # Unknown /\ steady[r]
      /\ Said(asked[r], banner[r]) /\ TrueOf(k, banner[r], said)
  BY <1>2, DeclaresAnswers DEF CallIsSteady
<1>5. k' = k
  BY <1>2 DEF stamp
<1> HIDE DEF k
<1>6. BannerTypes'
  <2>1. table' \in [Processes -> [Keys -> Answers \cup {Unknown}]]
    BY <1>1, <1>3, <1>4 DEF BannerTypes
  <2> QED BY <2>1, <1>1, <1>2, <1>4 DEF BannerTypes, Steps
<1>7. Alone(r)
  BY <1>1, <1>2 DEF Alone, BannerTypes, Noted
<1>8. /\ \A m \in Keys : m # k => table'[r][m] = known[m]
      /\ table'[r][k] = banner[r] /\ key'[r] = k /\ step'[r] \in {"idle", "key"}
      /\ step'[r] = "idle" => known[k] = banner[r] /\ answer'[r] = banner[r]
  BY <1>1, <1>2, <1>3, <1>4 DEF BannerTypes
<1>9. Pending'
  <2>1. \A o \in Processes : step[o] \notin Writing /\ step'[o] \notin Writing
    BY <1>2, <1>7, <1>8 DEF Alone, Quiet, Others, Writing
  <2> QED BY <1>2, <2>1, NobodyWrites
<1>10. step'[r] = "idle" => Noted(k)
  BY <1>3, <1>4, <1>8
<1>11. TableIsTrue(r)'
  <2> SUFFICES ASSUME NEW m \in Keys, table'[r][m] # Unknown
               PROVE  /\ TrueOf(m, table'[r][m], said)
                      /\ Noted(m) \/ (step'[r] = "key" /\ key'[r] = m)
    BY <1>2 DEF TableIsTrue, Noted
  <2>1. CASE m # k
    BY <1>3, <1>8, <2>1
  <2>2. CASE m = k
    BY <1>4, <1>8, <1>10, <2>2
  <2> QED BY <2>1, <2>2
<1>12. CallIsSteady(r)'
  BY <1>2, <1>4, <1>5, <1>8 DEF CallIsSteady, Said, k
<1>13. AnswerIsLogged(r)'
  BY <1>2, <1>4, <1>5, <1>8, <1>10 DEF AnswerIsLogged, Said, Noted, k
<1> QED BY <1>6, <1>7, <1>9, <1>11, <1>12, <1>13, OthersKeep

\* Nothing can be recorded.
LEMMA PutFailsKeeps ==
    ASSUME BannerInv, NEW r \in Processes, Quiet(Others(r)), PutFails(r)
    PROVE  BannerInv'
<1> USE DEF BannerInv
<1> DEFINE k == stamp(asked[r])
<1>1. /\ step[r] \in {"stamp", "key"} /\ step' = [step EXCEPT ![r] = "idle"]
      /\ answer' = [answer EXCEPT ![r] = banner[r]] /\ unlogged' = unlogged \cup {k}
      /\ UNCHANGED <<file, log, loaded, table, asked, key, banner, steady, said>>
  BY DEF PutFails, Return, Goto
<1>2. /\ banner[r] \in Answers /\ steady[r] /\ Said(asked[r], banner[r])
      /\ step[r] = "key" => key[r] = k
  BY <1>1, DeclaresAnswers DEF CallIsSteady
<1>3. step'[r] = "idle" /\ answer'[r] = banner[r] /\ k' = k
  BY <1>1 DEF BannerTypes, stamp
<1> HIDE DEF k
<1>4. BannerTypes'
  BY <1>1, <1>2 DEF BannerTypes, Steps
<1>5. Alone(r)
  BY <1>1 DEF Alone, BannerTypes, Noted
<1>6. Pending'
  <2>1. \A o \in Processes : step[o] \notin Writing /\ step'[o] \notin Writing
    BY <1>1, <1>3, <1>5 DEF Alone, Quiet, Others, Writing
  <2> QED BY <1>1, <2>1, NobodyWrites
<1>7. TableIsTrue(r)'
  <2> SUFFICES ASSUME NEW m \in Keys, table[r][m] # Unknown
               PROVE  TrueOf(m, table[r][m], said) /\ Noted(m)'
    BY <1>1 DEF TableIsTrue
  <2>1. TrueOf(m, table[r][m], said) /\ (Noted(m) \/ (step[r] = "key" /\ key[r] = m))
    BY DEF TableIsTrue
  <2> QED BY <1>1, <1>2, <2>1 DEF Noted
<1>8. CallIsSteady(r)'
  BY <1>3 DEF CallIsSteady
<1>9. AnswerIsLogged(r)'
  BY <1>1, <1>2, <1>3 DEF AnswerIsLogged, Said, Noted, k
<1> QED BY <1>4, <1>5, <1>6, <1>7, <1>8, <1>9, OthersKeep

\* A line that is being written is about the key of its process, which is logged.
LEMMA LineIsLogged ==
    ASSUME NEW lg \in Seq(Fragments), NEW n, NEW S, Whole(lg, n, S), NEW k, lg[n + 1] = KeyText(k),
           Len(lg) >= n + 1
    PROVE  Logged(lg, k)
<1>1. n \in Nat /\ Len(lg) \in Nat /\ n + 1 \in 1..Len(lg) /\ (n + 1) - 1 = n
      /\ (n = 0 \/ lg[n] = Newline)
  BY DEF Whole
<1>2. StartsIn(lg, n + 1)
  BY <1>1 DEF StartsIn
<1> QED BY <1>1, <1>2 DEF Logged

\* What a process in the middle of a line has written, and who it is.
LEMMA WriterTail ==
    ASSUME BannerInv, NEW r \in Processes, Quiet(Others(r)),
           step[r] \in {"key", "tab", "banner", "newline"}
    PROVE  \E n : /\ Whole(log, n, said)
                  /\ step[r] \notin Writing => n = Len(log)
                  /\ Unfinished(r, n)
                  /\ n \in Nat /\ Len(log) \in Nat /\ log \in Seq(Fragments)
                  /\ key[r] \in Keys /\ key[r] = stamp(asked[r]) /\ steady[r]
                  /\ banner[r] \in Answers /\ Said(asked[r], banner[r])
                  /\ TrueOf(key[r], banner[r], said)
<1>1. PICK n : Whole(log, n, said) /\ ((\A o \in Processes : step[o] \notin Writing) => n = Len(log))
               /\ Unfinished(r, n)
  BY DEF BannerInv, Pending
<1>2. \A o \in Processes : o # r => step[o] \notin Writing
  BY DEF Quiet, Others, Writing
<1>3. n \in Nat /\ Len(log) \in Nat /\ log \in Seq(Fragments)
  BY <1>1 DEF Whole, BannerInv, BannerTypes
<1>4. key[r] \in Keys /\ banner[r] \in Answers /\ asked[r] \in Files
  BY DeclaresAnswers DEF BannerInv
<1>5. key[r] = stamp(asked[r]) /\ steady[r] /\ Said(asked[r], banner[r])
  BY DEF BannerInv, CallIsSteady
<1>6. TrueOf(key[r], banner[r], said)
  BY <1>4, <1>5, DeclaresAnswers
<1> QED BY <1>1, <1>2, <1>3, <1>4, <1>5, <1>6

\* A write: what each of the first three does to the parts of the invariant.
LEMMA WriteKeeps ==
    ASSUME BannerInv, NEW r \in Processes, Quiet(Others(r)), NEW x \in Fragments,
           NEW label \in {"tab", "banner", "newline"},
           step[r] \in {"key", "tab", "banner"},
           log' = Append(log, x), step' = [step EXCEPT ![r] = label],
           UNCHANGED <<file, loaded, table, asked, key, banner, answer, steady, said, unlogged>>,
           NEW n, Whole(log, n, said), Unfinished(r, n)', Logged(log', key[r])
    PROVE  BannerInv'
<1> USE DEF BannerInv
<1>1. \A o \in Processes : o # r => step[o] = "idle" /\ step'[o] = "idle"
  BY DEF Quiet, Others, BannerTypes
<1>2. step'[r] = label
  BY DEF BannerTypes
<1>3. log \in Seq(Fragments)
  BY DEF BannerTypes
<1>4. log' \in Seq(Fragments) /\ Whole(log', n, said) /\ \A k : Logged(log, k) => Logged(log', k)
  BY <1>3, AppendKeeps
<1>5. BannerTypes'
  BY <1>4 DEF BannerTypes, Steps
<1>6. Alone(r)
  BY <1>1, <1>4 DEF Alone, Noted
<1>7. Pending'
  <2>1. step'[r] \in Writing
    BY <1>2 DEF Writing
  <2>2. ASSUME NEW o \in Processes PROVE Unfinished(o, n)'
    <3>1. CASE o = r
      BY <3>1
    <3>2. CASE o # r
      BY <1>1, <3>2 DEF Unfinished, Writing
    <3> QED BY <3>1, <3>2
  <2>3. Whole(log, n, said)'
    BY <1>4
  <2> QED BY <2>1, <2>2, <2>3 DEF Pending
<1>8. TableIsTrue(r)'
  <2> SUFFICES ASSUME NEW k \in Keys, table[r][k] # Unknown
               PROVE  TrueOf(k, table[r][k], said) /\ Noted(k)'
    BY DEF TableIsTrue
  <2>1. TrueOf(k, table[r][k], said) /\ (Noted(k) \/ key[r] = k)
    BY DEF TableIsTrue
  <2> QED BY <1>4, <2>1 DEF Noted
<1>9. CallIsSteady(r)' /\ AnswerIsLogged(r)'
  BY <1>2 DEF CallIsSteady, AnswerIsLogged, stamp, Said
<1> QED BY <1>5, <1>6, <1>7, <1>8, <1>9, OthersKeep

\* The key, the first fragment of a line.
LEMMA WriteKeyKeeps ==
    ASSUME BannerInv, NEW r \in Processes, Quiet(Others(r)), WriteKey(r)
    PROVE  BannerInv'
<1>1. /\ step[r] = "key" /\ log' = Append(log, KeyText(key[r])) /\ step' = [step EXCEPT ![r] = "tab"]
      /\ UNCHANGED <<file, loaded, table, asked, key, banner, answer, steady, said, unlogged>>
  BY DEF WriteKey, Goto, unwritten
<1>2. PICK n : /\ Whole(log, n, said) /\ n = Len(log) /\ n \in Nat /\ log \in Seq(Fragments)
               /\ key[r] \in Keys
  BY <1>1, WriterTail DEF Writing
<1>3. KeyText(key[r]) \in Fragments
  BY <1>2 DEF Fragments
<1>4. /\ Whole(log', n, said) /\ log' \in Seq(Fragments) /\ Len(log') = n + 1
      /\ log'[n + 1] = KeyText(key[r])
  BY <1>1, <1>2, <1>3, AppendKeeps
<1>5. step'[r] = "tab"
  BY <1>1 DEF BannerInv, BannerTypes
<1>6. Unfinished(r, n)'
  BY <1>1, <1>4, <1>5 DEF Unfinished
<1>7. Logged(log', key[r])
  BY <1>2, <1>4, LineIsLogged
<1> QED BY <1>1, <1>2, <1>3, <1>6, <1>7, WriteKeeps

\* The tab.
LEMMA WriteTabKeeps ==
    ASSUME BannerInv, NEW r \in Processes, Quiet(Others(r)), WriteTab(r)
    PROVE  BannerInv'
<1> DEFINE label == IF banner[r] = NoBanner THEN "newline" ELSE "banner"
<1>1. /\ step[r] = "tab" /\ log' = Append(log, Tab) /\ step' = [step EXCEPT ![r] = label]
      /\ UNCHANGED <<file, loaded, table, asked, key, banner, answer, steady, said, unlogged>>
  BY DEF WriteTab, Goto, unwritten
<1>2. PICK n : /\ Whole(log, n, said) /\ Unfinished(r, n) /\ n \in Nat /\ log \in Seq(Fragments)
  BY <1>1, WriterTail
<1>3. Len(log) = n + 1 /\ log[n + 1] = KeyText(key[r])
  BY <1>1, <1>2 DEF Unfinished, Writing
<1>4. Tab \in Fragments
  BY DEF Fragments
<1>5. /\ Whole(log', n, said) /\ log' \in Seq(Fragments) /\ Len(log') = n + 2
      /\ log'[n + 1] = KeyText(key[r]) /\ log'[n + 2] = Tab
  <2>1. /\ Whole(log', n, said) /\ log' \in Seq(Fragments) /\ Len(log') = Len(log) + 1
        /\ log'[Len(log) + 1] = Tab /\ \A i \in 1..Len(log) : log'[i] = log[i]
    BY <1>1, <1>2, <1>4, AppendKeeps
  <2>2. n + 1 \in 1..Len(log) /\ Len(log) + 1 = n + 2
    BY <1>2, <1>3
  <2> QED BY <1>3, <2>1, <2>2
<1>6. step'[r] = label
  BY <1>1 DEF BannerInv, BannerTypes
<1>7. Unfinished(r, n)'
  BY <1>1, <1>5, <1>6 DEF Unfinished
<1>8. Logged(log', key[r])
  BY <1>2, <1>5, LineIsLogged
<1>9. label \in {"tab", "banner", "newline"}
  OBVIOUS
<1> HIDE DEF label
<1> QED BY <1>1, <1>2, <1>4, <1>7, <1>8, <1>9, WriteKeeps

\* The banner.
LEMMA WriteBannerKeeps ==
    ASSUME BannerInv, NEW r \in Processes, Quiet(Others(r)), WriteBanner(r)
    PROVE  BannerInv'
<1>1. /\ step[r] = "banner" /\ log' = Append(log, BannerText(banner[r]))
      /\ step' = [step EXCEPT ![r] = "newline"]
      /\ UNCHANGED <<file, loaded, table, asked, key, banner, answer, steady, said, unlogged>>
  BY DEF WriteBanner, Goto, unwritten
<1>2. PICK n : /\ Whole(log, n, said) /\ Unfinished(r, n) /\ n \in Nat /\ log \in Seq(Fragments)
               /\ banner[r] \in Answers
  BY <1>1, WriterTail
<1>3. /\ Len(log) = n + 2 /\ log[n + 1] = KeyText(key[r]) /\ log[n + 2] = Tab
      /\ banner[r] # NoBanner
  BY <1>1, <1>2 DEF Unfinished, Writing
<1>4. BannerText(banner[r]) \in Fragments
  BY <1>2, <1>3 DEF Fragments, Answers
<1>5. /\ Whole(log', n, said) /\ log' \in Seq(Fragments) /\ Len(log') = n + 3
      /\ log'[n + 1] = KeyText(key[r]) /\ log'[n + 2] = Tab
      /\ log'[n + 3] = BannerText(banner[r])
  <2>1. /\ Whole(log', n, said) /\ log' \in Seq(Fragments) /\ Len(log') = Len(log) + 1
        /\ log'[Len(log) + 1] = BannerText(banner[r])
        /\ \A i \in 1..Len(log) : log'[i] = log[i]
    BY <1>1, <1>2, <1>4, AppendKeeps
  <2>2. n + 1 \in 1..Len(log) /\ n + 2 \in 1..Len(log) /\ Len(log) + 1 = n + 3
    BY <1>2, <1>3
  <2> QED BY <1>3, <2>1, <2>2
<1>6. step'[r] = "newline"
  BY <1>1 DEF BannerInv, BannerTypes
<1>7. Unfinished(r, n)'
  BY <1>1, <1>3, <1>5, <1>6 DEF Unfinished
<1>8. Logged(log', key[r])
  BY <1>2, <1>5, LineIsLogged
<1> QED BY <1>1, <1>2, <1>4, <1>7, <1>8, WriteKeeps

\* The newline: the line is whole, and the call returns.
LEMMA WriteNewlineKeeps ==
    ASSUME BannerInv, NEW r \in Processes, Quiet(Others(r)), WriteNewline(r)
    PROVE  BannerInv'
<1>1. /\ step[r] = "newline" /\ log' = Append(log, Newline)
      /\ step' = [step EXCEPT ![r] = "idle"] /\ answer' = [answer EXCEPT ![r] = banner[r]]
      /\ unlogged' = unlogged \ {key[r]}
      /\ UNCHANGED <<file, loaded, table, asked, key, banner, steady, said>>
  BY DEF WriteNewline, Return, Goto, unwritten
<1>2. PICK n : /\ Whole(log, n, said) /\ Unfinished(r, n) /\ n \in Nat /\ log \in Seq(Fragments)
               /\ key[r] \in Keys /\ key[r] = stamp(asked[r])
               /\ banner[r] \in Answers /\ Said(asked[r], banner[r])
               /\ TrueOf(key[r], banner[r], said)
  BY <1>1, WriterTail
<1>3. /\ log[n + 1] = KeyText(key[r]) /\ log[n + 2] = Tab
      /\ IF banner[r] = NoBanner THEN Len(log) = n + 2
         ELSE Len(log) = n + 3 /\ log[n + 3] = BannerText(banner[r])
  BY <1>1, <1>2 DEF Unfinished, Writing
<1>4. Newline \in Fragments
  BY DEF Fragments
<1>5. /\ Whole(log', n, said) /\ log' \in Seq(Fragments) /\ Len(log') = Len(log) + 1
      /\ log'[Len(log) + 1] = Newline
      /\ \A i \in 1..Len(log) : log'[i] = log[i]
      /\ \A k : Logged(log, k) => Logged(log', k)
  BY <1>1, <1>2, <1>4, AppendKeeps
<1>6. n + 1 \in 1..Len(log) /\ n + 2 \in 1..Len(log) /\ Len(log) \in Nat
  BY <1>2, <1>3
<1>7. log'[n + 1] = KeyText(key[r]) /\ log'[n + 2] = Tab
  BY <1>3, <1>5, <1>6
<1>8. IF banner[r] = NoBanner THEN Len(log') = n + 3 /\ log'[n + 3] = Newline
      ELSE Len(log') = n + 4 /\ log'[n + 3] = BannerText(banner[r]) /\ log'[n + 4] = Newline
  <2>1. CASE banner[r] = NoBanner
    <3>1. Len(log) + 1 = n + 3
      BY <1>2, <1>3, <2>1
    <3> QED BY <1>2, <1>5, <2>1, <3>1
  <2>2. CASE banner[r] # NoBanner
    <3>1. Len(log) + 1 = n + 4 /\ n + 3 \in 1..Len(log)
      BY <1>2, <1>3, <2>2
    <3> QED BY <1>2, <1>3, <1>5, <2>2, <3>1
  <2> QED BY <2>1, <2>2
<1>9. Whole(log', Len(log'), said)
  BY <1>2, <1>5, <1>7, <1>8, LineEnded
<1>10. Logged(log', key[r])
  <2>1. Len(log') >= n + 1
    BY <1>2, <1>5, <1>6
  <2> QED BY <1>2, <1>5, <1>7, <2>1, LineIsLogged
<1> USE DEF BannerInv
<1>11. \A o \in Processes : step'[o] = "idle" /\ (o # r => step[o] = "idle" /\ answer'[o] = answer[o])
  BY <1>1 DEF Quiet, Others, BannerTypes
<1>12. answer'[r] = banner[r]
  BY <1>1 DEF BannerTypes
<1>13. BannerTypes'
  BY <1>1, <1>2, <1>5 DEF BannerTypes, Steps
<1>14. \A k : Noted(k) => Noted(k)'
  BY <1>1, <1>5, <1>10 DEF Noted
<1>15. Alone(r)
  BY <1>1, <1>11, <1>14 DEF Alone
<1>16. Pending'
  <2>1. PICK m : m = Len(log')
    OBVIOUS
  <2>2. \A o \in Processes : Unfinished(o, m)'
    BY <1>11 DEF Unfinished, Writing
  <2>3. Whole(log, m, said)'
    BY <1>1, <1>9, <2>1
  <2> QED BY <2>1, <2>2, <2>3 DEF Pending
<1>17. TableIsTrue(r)'
  BY <1>1, <1>14 DEF TableIsTrue
<1>18. CallIsSteady(r)'
  BY <1>11 DEF CallIsSteady
<1>19. AnswerIsLogged(r)'
  <2>1. stamp(asked[r])' = key[r]
    BY <1>1, <1>2 DEF stamp
  <2>2. Noted(key[r])'
    BY <1>1, <1>10 DEF Noted
  <2> QED BY <1>1, <1>2, <1>12, <2>1, <2>2 DEF AnswerIsLogged, Said, Noted
<1> QED BY <1>13, <1>15, <1>16, <1>17, <1>18, <1>19, OthersKeep

\* A process ends between two calls, and another starts with nothing.
LEMMA ExitKeeps ==
    ASSUME BannerInv, NEW r \in Processes, Quiet(Others(r)), Exit(r)
    PROVE  BannerInv'
<1> USE DEF BannerInv
<1>1. /\ step[r] = "idle" /\ step' = [step EXCEPT ![r] = "idle"]
      /\ loaded' = [loaded EXCEPT ![r] = FALSE] /\ table' = [table EXCEPT ![r] = EmptyTable]
      /\ answer' = [answer EXCEPT ![r] = Unknown]
      /\ UNCHANGED <<file, log, asked, key, banner, steady, said, unlogged>>
  BY DEF Exit, Restart, Goto
<1>2. \A o \in Processes : step[o] = "idle" /\ step'[o] = "idle"
  BY <1>1 DEF Quiet, Others, BannerTypes
<1>3. BannerTypes'
  BY <1>1 DEF BannerTypes, Steps, EmptyTable
<1>4. Alone(r)
  BY <1>1 DEF Alone, BannerTypes, Noted
<1>5. Pending'
  BY <1>1, <1>2, NobodyWrites DEF Writing
<1>6. TableIsTrue(r)'
  BY <1>1 DEF TableIsTrue, BannerTypes, EmptyTable
<1>7. CallIsSteady(r)' /\ AnswerIsLogged(r)'
  BY <1>1, <1>2 DEF CallIsSteady, AnswerIsLogged, BannerTypes
<1> QED BY <1>3, <1>4, <1>5, <1>6, <1>7, OthersKeep

\* A symbol file is replaced while nobody works.
LEMMA ReplaceKeeps ==
    ASSUME BannerInv, Quiet(Processes), Replace
    PROVE  BannerInv'
<1> USE DEF BannerInv
<1>1. PICK f \in Files, v \in Versions :
          /\ file' = [file EXCEPT ![f] = v]
          /\ said' = said \cup {<<f, Shows[v], Declares(v)>>}
          /\ steady' = [r \in Processes |-> steady[r] /\ asked[r] # f]
  BY DEF Replace
<1>2. UNCHANGED <<log, step, loaded, table, asked, key, banner, answer, unlogged>>
  BY DEF Replace
<1>3. \A o \in Processes : step[o] = "idle" /\ step'[o] = "idle"
  BY <1>2 DEF Quiet
<1>4. BannerTypes' /\ OneAtATime'
  BY <1>1, <1>2, <1>3 DEF BannerTypes, OneAtATime
<1>5. Pending'
  BY <1>1, <1>2, <1>3, NobodyWrites DEF Writing
<1>6. Current'
  <2> SUFFICES ASSUME NEW g \in Files PROVE <<g, Shows[file'[g]], Declares(file'[g])>> \in said'
    BY DEF Current, Said
  <2>1. CASE g = f
    BY <1>1, <2>1 DEF BannerTypes
  <2>2. CASE g # f
    BY <1>1, <2>2 DEF BannerTypes, Current, Said
  <2> QED BY <2>1, <2>2
<1>7. ASSUME NEW r \in Processes
      PROVE  TableIsTrue(r)' /\ CallIsSteady(r)' /\ AnswerIsLogged(r)'
  <2>1. TableIsTrue(r)'
    BY <1>1, <1>2, <1>3 DEF TableIsTrue, Noted, TrueOf
  <2>2. CallIsSteady(r)'
    BY <1>3 DEF CallIsSteady
  <2>3. AnswerIsLogged(r)'
    <3> SUFFICES ASSUME answer[r] # Unknown, steady'[r]
                 PROVE  Said(asked[r], answer[r])' /\ Noted(stamp(asked[r]))'
      BY <1>2 DEF AnswerIsLogged
    <3>1. steady[r] /\ asked[r] # f
      BY <1>1
    <3>2. file'[asked[r]] = file[asked[r]]
      BY <1>1, <3>1 DEF BannerTypes
    <3>3. Said(asked[r], answer[r]) /\ Noted(stamp(asked[r]))
      BY <1>3, <3>1 DEF AnswerIsLogged
    <3> QED BY <1>1, <1>2, <3>2, <3>3 DEF Said, Noted, stamp
  <2> QED BY <2>1, <2>2, <2>3
<1> QED BY <1>4, <1>5, <1>6, <1>7

LEMMA BannerInitially == BannerInit => BannerInv
<1> SUFFICES ASSUME BannerInit PROVE BannerInv
  OBVIOUS
<1>1. log = <<>> /\ Len(log) = 0 /\ log \in Seq(Fragments)
  BY DEF BannerInit
<1>2. \A r \in Processes : step[r] = "idle" /\ answer[r] = Unknown
  BY DEF BannerInit
<1>3. \A r \in Processes, k \in Keys : table[r][k] = Unknown
  BY DEF BannerInit, EmptyTable
<1>4. BannerTypes
  BY <1>1 DEF BannerInit, BannerTypes, EmptyTable, Steps, Answers, Keys, Looks, stamp
<1>5. Pending
  <2>1. Whole(log, 0, said)
    BY <1>1 DEF Whole
  <2>2. \A r \in Processes : Unfinished(r, 0)
    BY <1>2 DEF Unfinished, Writing
  <2> QED BY <1>1, <2>1, <2>2 DEF Pending
<1>6. Current
  BY DEF BannerInit, Current, Said
<1> QED BY <1>2, <1>3, <1>4, <1>5, <1>6
      DEF BannerInv, OneAtATime, TableIsTrue, CallIsSteady, AnswerIsLogged

\* Processes that take turns keep banners.tsv whole lines, each of which says what
\* the file of its key declared while it had that stamp, and what they remember and
\* answer is in it.
THEOREM BannerInvariance == TurnsSpec => []BannerInv
<1>1. ASSUME BannerInv, TurnsNext PROVE BannerInv'
  <2>1. CASE Quiet(Processes) /\ Replace
    BY <1>1, <2>1, ReplaceKeeps
  <2>2. ASSUME NEW r \in Processes, Quiet(Others(r)), Ask(r) \/ Proceed(r) \/ Exit(r)
        PROVE  BannerInv'
    BY <1>1, <2>2, AskKeeps, LookKeeps, ReadKeeps, RememberKeeps, PutFailsKeeps, WriteKeyKeeps,
       WriteTabKeeps, WriteBannerKeeps, WriteNewlineKeeps, ExitKeeps DEF Proceed
  <2> QED BY <1>1, <2>1, <2>2 DEF TurnsNext
<1>2. ASSUME BannerInv, UNCHANGED bannerVars PROVE BannerInv'
  <2>1. UNCHANGED <<file, log, step, loaded, table, asked, key, banner, answer, steady, said,
                    unlogged>>
    BY <1>2 DEF bannerVars
  <2>2. BannerTypes' /\ OneAtATime' /\ Current'
    BY <1>2, <2>1 DEF BannerInv, BannerTypes, OneAtATime, Current, Said
  <2>3. Pending'
    <3>1. PICK n : /\ Whole(log, n, said)
                   /\ (\A r \in Processes : step[r] \notin Writing) => n = Len(log)
                   /\ \A r \in Processes : Unfinished(r, n)
      BY <1>2 DEF BannerInv, Pending
    <3>2. Whole(log, n, said)' /\ \A r \in Processes : Unfinished(r, n)'
      BY <2>1, <3>1 DEF Unfinished
    <3> QED BY <2>1, <3>1, <3>2 DEF Pending
  <2>4. \A r \in Processes : TableIsTrue(r)' /\ CallIsSteady(r)' /\ AnswerIsLogged(r)'
    BY <1>2, <2>1 DEF BannerInv, TableIsTrue, CallIsSteady, AnswerIsLogged, stamp, Said, Noted
  <2> QED BY <2>2, <2>3, <2>4 DEF BannerInv
<1> QED BY <1>1, <1>2, BannerInitially, PTL DEF TurnsSpec

\* intermed.rs:584: a call during which the symbol file does not change returns what
\* that file declared while it had the modification time and the length it has now,
\* for any number of processes that take turns, and whatever cannot be opened or read.
THEOREM TrueAnswers == TurnsSpec => []AnswersAreTrue
<1>1. BannerInv => AnswersAreTrue
  BY DEF BannerInv, AnswerIsLogged, AnswersAreTrue
<1> QED BY <1>1, BannerInvariance, PTL

\* What one process was told and could write down, the next is told by banners.tsv
\* alone, or something else that was as true.
THEOREM KeptAnswers == TurnsSpec => []AnswersAreKept
<1>1. ASSUME BannerInv, Quiet(Processes),
             NEW r \in Processes, answer[r] # Unknown, steady[r], stamp(asked[r]) \notin unlogged
      PROVE  Said(asked[r], TableOf[stamp(asked[r])])
  <2>1. \A o \in Processes : step[o] = "idle" /\ step[o] \notin Writing
    BY <1>1 DEF Quiet, Writing
  <2>2. \A k \in Keys : Logged(log, k) => TrueOf(k, TableOf[k], said)
    BY <1>1, <2>1, QuietFile
  <2>3. Logged(log, stamp(asked[r]))
    BY <1>1, <2>1 DEF BannerInv, AnswerIsLogged, Noted
  <2>4. stamp(asked[r]) \in Keys /\ asked[r] \in Files
    BY <1>1, DeclaresAnswers DEF BannerInv, BannerTypes
  <2> QED BY <2>2, <2>3, <2>4, DeclaresAnswers
<1>2. BannerInv => AnswersAreKept
  BY <1>1 DEF AnswersAreKept
<1> QED BY <1>2, BannerInvariance, PTL

================================================================================
