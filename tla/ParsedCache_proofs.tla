------------------------- MODULE ParsedCache_proofs -------------------------
(***************************************************************************)
(* Proofs about the shared cache of parsed symbol files.  While no symbol  *)
(* file is replaced, for any number of runs, symbol files and cache names, *)
(* and wherever runs are killed, a load returns what the symbol file       *)
(* holds, although the entries themselves may be half written.             *)
(***************************************************************************)
EXTENDS ParsedCache, TLAPS

\* An inode is known under a cache name through a directory entry or through
\* the descriptor of a run that is storing under that name.
Names(i, k) ==
    \/ final[k] = i
    \/ partial[k] = i
    \/ \E r \in Runs : fd[r] = i /\ key[r] = k

\* What an entry of this name may hold.
Owner(k) == {source[s] : s \in {t \in Sources : path_for(t) = k /\ source[t] \notin Broken}}

OneName ==
    \A i \in Inodes, k, l \in Keys : Names(i, k) /\ Names(i, l) => k = l

BlocksBelong ==
    \A i \in Inodes, k \in Keys : Names(i, k) =>
        /\ content[i].head \in Owner(k) \cup {None}
        /\ content[i].tail \in Owner(k) \cup {None}

\* Where a run is tells what it has in hand.
Progress ==
    \A r \in Runs :
        /\ pc[r] \in {"get", "open", "head", "tail", "rename"} =>
              key[r] = path_for(path[r])
        /\ pc[r] \in {"stat", "open", "head", "tail", "rename"} =>
              parsed[r] = source[path[r]] /\ parsed[r] \notin Broken
        /\ pc[r] \in {"head", "tail"} => fd[r] # None
        /\ fd[r] # None => pc[r] \in {"head", "tail"}

IInv ==
    /\ TypeOK
    /\ source = Sources0
    /\ OneName
    /\ BlocksBelong
    /\ Progress
    /\ LoadIsCurrent

-----------------------------------------------------------------------------

\* The initial state: the cache is empty, so no inode has a name.
LEMMA InitIInv == Init => IInv
<1> SUFFICES ASSUME Init PROVE IInv
  OBVIOUS
<1>1. TypeOK
  BY ConstantsAssumption DEF Init, TypeOK, Content, Empty, Blocks, Labels, Answers
<1>2. \A i \in Inodes, k \in Keys : ~ Names(i, k)
  BY ConstantsAssumption DEF Init, Names
<1>3. Progress
  BY DEF Init, Progress
<1>4. LoadIsCurrent
  BY DEF Init, LoadIsCurrent
<1> QED
  BY <1>1, <1>2, <1>3, <1>4 DEF IInv, OneName, BlocksBelong, Init

\* A step that writes no block and gives no inode a new name keeps the part of
\* the invariant that is about the directory.
LEMMA DirectoryKept ==
    ASSUME OneName, BlocksBelong, UNCHANGED <<source, content>>,
           \A i \in Inodes, k \in Keys : Names(i, k)' => Names(i, k)
    PROVE  OneName' /\ BlocksBelong'
BY DEF OneName, BlocksBelong, Owner, path_for

\* With distinct names, what an entry may hold is what its symbol file holds.
LEMMA OwnerIsSource ==
    ASSUME TypeOK, source = Sources0,
           NEW s \in Sources, NEW v \in Owner(path_for(s))
    PROVE  v = source[s] /\ v \notin Broken
<1>1. PICK t \in Sources : v = source[t] /\ path_for(t) = path_for(s) /\ source[t] \notin Broken
  BY DEF Owner
<1> QED
  BY <1>1, DistinctNames DEF path_for

\* An entry that decodes decodes to what its symbol file holds.
LEMMA DecodedIsCurrent ==
    ASSUME IInv, NEW s \in Sources, final[path_for(s)] # None,
           NEW v \in Decoded(content[final[path_for(s)]]), v # None
    PROVE  v = source[s] /\ v \notin Broken
<1> DEFINE i == final[path_for(s)]
<1>1. path_for(s) \in Keys /\ i \in Inodes
  BY ConstantsAssumption DEF IInv, TypeOK, path_for
<1>2. Names(i, path_for(s))
  BY DEF Names
<1>3. /\ content[i].head \in Owner(path_for(s)) \cup {None}
      /\ content[i].tail \in Owner(path_for(s)) \cup {None}
  BY <1>1, <1>2 DEF IInv, BlocksBelong
<1>4. content[i].head # None /\ content[i].tail # None
  BY DEF Decoded
<1>5. content[i].head = source[s] /\ content[i].tail = source[s] /\ source[s] \notin Broken
  BY <1>3, <1>4, OwnerIsSource DEF IInv
<1> QED
  BY <1>5 DEF Decoded

-----------------------------------------------------------------------------

\* Every step of a run keeps the types.
LEMMA TypePreserved == TypeOK /\ [RunsNext]_vars => TypeOK'
<1> SUFFICES ASSUME TypeOK, [RunsNext]_vars PROVE TypeOK'
  OBVIOUS
<1> USE ConstantsAssumption
<1>1. ASSUME NEW r \in Runs, Start(r) PROVE TypeOK'
  BY <1>1 DEF Start, TypeOK, Goto, path_for, disk, Labels, Answers
<1>2. ASSUME NEW r \in Runs, Get(r) PROVE TypeOK'
  <2>1. PICK found \in (IF final[key[r]] = None THEN {None}
                        ELSE Decoded(content[final[key[r]]])) :
           IF found = None THEN Goto(r, "parse") /\ UNCHANGED answer
           ELSE Return(r, found)
    BY <1>2 DEF Get
  <2>2. found \in Answers
    <3>1. CASE final[key[r]] = None
      BY <2>1, <3>1 DEF Answers
    <3>2. CASE final[key[r]] # None
      <4>1. content[final[key[r]]] \in Content
        BY <3>2 DEF TypeOK
      <4> QED
        BY <2>1, <3>2, <4>1 DEF Decoded, Content, Blocks, Answers
    <3> QED
      BY <3>1, <3>2
  <2>3. answer' \in [Runs -> Answers]
    BY <2>1, <2>2 DEF TypeOK, Goto, Return
  <2>4. pc' \in [Runs -> Labels]
    BY <2>1 DEF TypeOK, Goto, Return, Labels
  <2> QED
    BY <1>2, <2>3, <2>4 DEF Get, TypeOK, disk
<1>3. ASSUME NEW r \in Runs, Parse(r) PROVE TypeOK'
  <2>1. source[path[r]] \in Versions
    BY DEF TypeOK
  <2>2. answer' \in [Runs -> Answers]
    BY <1>3, <2>1 DEF Parse, TypeOK, Goto, Return, Answers
  <2>4. pc' \in [Runs -> Labels]
    BY <1>3 DEF Parse, TypeOK, Goto, Return, Labels
  <2>3. parsed' \in [Runs -> Versions \cup {None}]
    BY <1>3, <2>1 DEF Parse, TypeOK
  <2> QED
    BY <1>3, <2>2, <2>3, <2>4 DEF Parse, TypeOK, disk
<1>4. ASSUME NEW r \in Runs, Stat(r) PROVE TypeOK'
  BY <1>4 DEF Stat, TypeOK, Goto, path_for, disk, Labels
<1>5. ASSUME NEW r \in Runs, Open(r) PROVE TypeOK'
  BY <1>5 DEF Open, TypeOK, Goto, Labels, Empty, Content, Blocks
<1>6. ASSUME NEW r \in Runs, WriteHead(r) PROVE TypeOK'
  BY <1>6 DEF WriteHead, TypeOK, Goto, Labels, Content, Blocks
<1>7. ASSUME NEW r \in Runs, WriteTail(r) PROVE TypeOK'
  BY <1>7 DEF WriteTail, TypeOK, Goto, Labels, Content, Blocks
<1>8. ASSUME NEW r \in Runs, Rename(r) PROVE TypeOK'
  BY <1>8 DEF Rename, TypeOK, Goto, Return, Labels, Answers
<1>9. ASSUME NEW r \in Runs, WriteFails(r) PROVE TypeOK'
  BY <1>9 DEF WriteFails, TypeOK, Goto, Return, disk, Labels, Answers
<1>10. ASSUME NEW r \in Runs, Crash(r) PROVE TypeOK'
  BY <1>10 DEF Crash, TypeOK, Goto, disk, Labels
<1>11. CASE ClearEntry
  BY <1>11 DEF ClearEntry, TypeOK
<1>12. CASE UNCHANGED vars
  BY <1>12 DEF vars, TypeOK
<1> QED
  BY <1>1, <1>2, <1>3, <1>4, <1>5, <1>6, <1>7, <1>8, <1>9, <1>10, <1>11, <1>12
  DEF RunsNext, Run, Proceed

\* Every step of a run keeps the rest of the invariant.  Only Open gives an
\* inode a name, and only WriteHead and WriteTail write a block: they write
\* what the run parsed, under the name of what it parsed.
LEMMA StepIInv == IInv /\ [RunsNext]_vars => IInv'
<1> SUFFICES ASSUME IInv, [RunsNext]_vars PROVE IInv'
  OBVIOUS
<1>t. TypeOK /\ TypeOK'
  BY TypePreserved DEF IInv
<1> USE ConstantsAssumption, <1>t
<1>1. ASSUME NEW r \in Runs, Start(r) PROVE IInv'
  <2> USE <1>1 DEF Start, Goto, disk
  <2>1. Progress'
    BY DEF IInv, Progress, TypeOK, path_for
  <2>2. LoadIsCurrent'
    BY DEF IInv, LoadIsCurrent, TypeOK
  <2>3. \A i \in Inodes, k \in Keys : Names(i, k)' => Names(i, k)
    BY DEF Names, IInv, Progress, TypeOK
  <2> QED
    BY <2>1, <2>2, <2>3, DirectoryKept DEF IInv
<1>2. ASSUME NEW r \in Runs, Get(r) PROVE IInv'
  <2>1. PICK found \in (IF final[key[r]] = None THEN {None}
                        ELSE Decoded(content[final[key[r]]])) :
           IF found = None THEN Goto(r, "parse") /\ UNCHANGED answer
           ELSE Return(r, found)
    BY <1>2 DEF Get
  <2>2. key[r] = path_for(path[r]) /\ path[r] \in Sources
    BY <1>2 DEF Get, IInv, Progress, TypeOK
  <2>3. found # None => found = source[path[r]] /\ found \notin Broken
    BY <2>2, DecodedIsCurrent
  <2> USE <1>2 DEF Get, disk
  <2>4. Progress'
    BY <2>1 DEF IInv, Progress, TypeOK, path_for, Goto, Return
  <2>5. LoadIsCurrent'
    BY <2>1, <2>3 DEF IInv, LoadIsCurrent, TypeOK, Goto, Return
  <2>6. \A i \in Inodes, k \in Keys : Names(i, k)' => Names(i, k)
    BY DEF Names
  <2> QED
    BY <2>4, <2>5, <2>6, DirectoryKept DEF IInv
<1>3. ASSUME NEW r \in Runs, Parse(r) PROVE IInv'
  <2> USE <1>3 DEF Parse, disk
  <2>1. Progress'
    BY DEF IInv, Progress, TypeOK, path_for, Goto, Return
  <2>2. LoadIsCurrent'
    BY DEF IInv, LoadIsCurrent, TypeOK, Goto, Return
  <2>3. \A i \in Inodes, k \in Keys : Names(i, k)' => Names(i, k)
    BY DEF Names
  <2> QED
    BY <2>1, <2>2, <2>3, DirectoryKept DEF IInv
<1>4. ASSUME NEW r \in Runs, Stat(r) PROVE IInv'
  <2> USE <1>4 DEF Stat, disk, Goto
  <2>1. Progress'
    BY DEF IInv, Progress, TypeOK, path_for
  <2>2. LoadIsCurrent'
    BY DEF IInv, LoadIsCurrent, TypeOK
  <2>3. \A i \in Inodes, k \in Keys : Names(i, k)' => Names(i, k)
    BY DEF Names, IInv, Progress, TypeOK
  <2> QED
    BY <2>1, <2>2, <2>3, DirectoryKept DEF IInv
<1>5. ASSUME NEW r \in Runs, Open(r) PROVE IInv'
  <2>1. PICK j \in Inodes :
          /\ IF partial[key[r]] = None THEN Unlinked(j) ELSE j = partial[key[r]]
          /\ partial' = [partial EXCEPT ![key[r]] = j]
          /\ content' = [content EXCEPT ![j] = Empty]
          /\ fd' = [fd EXCEPT ![r] = j]
    BY <1>5 DEF Open
  <2> USE <1>5 DEF Open, Goto
  <2>2. Progress'
    BY <2>1 DEF IInv, Progress, TypeOK, path_for
  <2>3. LoadIsCurrent'
    BY DEF IInv, LoadIsCurrent, TypeOK
  <2>4. \A k \in Keys : Names(j, k) => k = key[r]
    BY <2>1 DEF Unlinked, Names, IInv, OneName, TypeOK
  <2>5. \A i \in Inodes, k \in Keys : Names(i, k)' => Names(i, k) \/ (i = j /\ k = key[r])
    BY <2>1 DEF Names, TypeOK
  <2>6. OneName'
    BY <2>4, <2>5 DEF OneName, IInv
  <2>7. BlocksBelong'
    BY <2>1, <2>4, <2>5 DEF BlocksBelong, IInv, Owner, path_for, Empty, TypeOK
  <2> QED
    BY <2>2, <2>3, <2>6, <2>7 DEF IInv
<1>6. ASSUME NEW r \in Runs, WriteHead(r) PROVE IInv'
  <2> USE <1>6 DEF WriteHead, Goto
  <2>1. Progress'
    BY DEF IInv, Progress, TypeOK, path_for
  <2>2. LoadIsCurrent'
    BY DEF IInv, LoadIsCurrent, TypeOK
  <2>3. fd[r] \in Inodes /\ key[r] \in Keys /\ Names(fd[r], key[r])
    BY DEF IInv, Progress, TypeOK, Names
  <2>4. parsed[r] \in Owner(key[r])
    BY DEF IInv, Progress, Owner, TypeOK
  <2>5. \A i \in Inodes, k \in Keys : Names(i, k)' => Names(i, k)
    BY DEF Names
  <2>6. OneName'
    BY <2>5 DEF OneName, IInv
  <2>7. BlocksBelong'
    BY <2>3, <2>4, <2>5 DEF BlocksBelong, IInv, OneName, Owner, path_for, TypeOK, Content
  <2> QED
    BY <2>1, <2>2, <2>6, <2>7 DEF IInv
<1>7. ASSUME NEW r \in Runs, WriteTail(r) PROVE IInv'
  <2> USE <1>7 DEF WriteTail, Goto
  <2>1. Progress'
    BY DEF IInv, Progress, TypeOK, path_for
  <2>2. LoadIsCurrent'
    BY DEF IInv, LoadIsCurrent, TypeOK
  <2>3. fd[r] \in Inodes /\ key[r] \in Keys /\ Names(fd[r], key[r])
    BY DEF IInv, Progress, TypeOK, Names
  <2>4. parsed[r] \in Owner(key[r])
    BY DEF IInv, Progress, Owner, TypeOK
  <2>5. \A i \in Inodes, k \in Keys : Names(i, k)' => Names(i, k)
    BY DEF Names, TypeOK
  <2>6. OneName'
    BY <2>5 DEF OneName, IInv
  <2>7. BlocksBelong'
    BY <2>3, <2>4, <2>5 DEF BlocksBelong, IInv, OneName, Owner, path_for, TypeOK, Content
  <2> QED
    BY <2>1, <2>2, <2>6, <2>7 DEF IInv
<1>8. ASSUME NEW r \in Runs, Rename(r) PROVE IInv'
  <2> USE <1>8 DEF Rename, Goto, Return
  <2>1. Progress'
    BY DEF IInv, Progress, TypeOK, path_for
  <2>2. LoadIsCurrent'
    BY DEF IInv, LoadIsCurrent, Progress, TypeOK
  <2>3. \A i \in Inodes, k \in Keys : Names(i, k)' => Names(i, k)
    BY DEF Names, TypeOK
  <2> QED
    BY <2>1, <2>2, <2>3, DirectoryKept DEF IInv
<1>9. ASSUME NEW r \in Runs, WriteFails(r) PROVE IInv'
  <2> USE <1>9 DEF WriteFails, Goto, Return, disk
  <2>1. Progress'
    BY DEF IInv, Progress, TypeOK, path_for
  <2>2. LoadIsCurrent'
    BY DEF IInv, LoadIsCurrent, Progress, TypeOK
  <2>3. \A i \in Inodes, k \in Keys : Names(i, k)' => Names(i, k)
    BY DEF Names, TypeOK
  <2> QED
    BY <2>1, <2>2, <2>3, DirectoryKept DEF IInv
<1>10. ASSUME NEW r \in Runs, Crash(r) PROVE IInv'
  <2> USE <1>10 DEF Crash, Goto, disk
  <2>1. Progress'
    BY DEF IInv, Progress, TypeOK, path_for
  <2>2. LoadIsCurrent'
    BY DEF IInv, LoadIsCurrent, TypeOK
  <2>3. \A i \in Inodes, k \in Keys : Names(i, k)' => Names(i, k)
    BY DEF Names, TypeOK
  <2> QED
    BY <2>1, <2>2, <2>3, DirectoryKept DEF IInv
<1>11. CASE ClearEntry
  <2> USE <1>11 DEF ClearEntry
  <2>1. Progress'
    BY DEF IInv, Progress, path_for
  <2>2. LoadIsCurrent'
    BY DEF IInv, LoadIsCurrent
  <2>3. \A i \in Inodes, k \in Keys : Names(i, k)' => Names(i, k)
    BY DEF Names, TypeOK
  <2> QED
    BY <2>1, <2>2, <2>3, DirectoryKept DEF IInv
<1>12. CASE UNCHANGED vars
  BY <1>12 DEF vars, IInv, OneName, BlocksBelong, Names, Owner, path_for,
     Progress, LoadIsCurrent
<1> QED
  BY <1>1, <1>2, <1>3, <1>4, <1>5, <1>6, <1>7, <1>8, <1>9, <1>10, <1>11, <1>12
  DEF RunsNext, Run, Proceed

-----------------------------------------------------------------------------

\* The inductive invariant holds of the runs while no symbol file is replaced.
THEOREM Invariance == FixedSpec => []IInv
<1>1. Init => IInv
  BY InitIInv
<1>2. IInv /\ [RunsNext]_vars => IInv'
  BY StepIInv
<1> QED
  BY <1>1, <1>2, PTL DEF FixedSpec

\* Types are kept (TypeOK).
THEOREM TypeCorrect == FixedSpec => []TypeOK
<1>1. IInv => TypeOK
  BY DEF IInv
<1> QED
  BY <1>1, Invariance, PTL

\* A load returns what the symbol file holds, however many runs share the
\* cache and wherever they are killed (load_isf_file).
THEOREM LoadsAreCurrent == FixedSpec => []LoadIsCurrent
<1>1. IInv => LoadIsCurrent
  BY DEF IInv
<1> QED
  BY <1>1, Invariance, PTL

\* Every entry that decodes decodes to the symbol file it is named for, so no
\* later run is misled by what an earlier one left (get).
THEOREM EntriesAreTrue == FixedSpec => []EntriesMatchTheirNames
<1>1. IInv => EntriesMatchTheirNames
  BY DecodedIsCurrent DEF EntriesMatchTheirNames
<1> QED
  BY <1>1, Invariance, PTL
=============================================================================
