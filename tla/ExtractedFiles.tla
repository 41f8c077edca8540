--------------------------- MODULE ExtractedFiles ---------------------------
(***************************************************************************)
(* The files plugins extract (plugins/mod.rs: free_extracted_name,         *)
(* create_output_file, open_extracted): a name nothing has taken is looked *)
(* for, the file is created under it, and the contents are written a piece *)
(* at a time.  Processes of several runs write to one directory.           *)
(*                                                                         *)
(* A name is its stem, a number for short, and the numbers put after it:   *)
(* "file.dmp" is a stem, "file-1.dmp" the stem and 1, whoever asks for it. *)
(***************************************************************************)
EXTENDS Integers, Sequences, FiniteSets, FiniteSetsExt

CONSTANTS
    Dumps,      \* what is extracted; each knows its process and the name it asks for
    ProcessOf, Asked,
    Pieces,     \* how many writes each takes
    Regimes,    \* what may happen: [overlap, crash], see regime
    Existing    \* what was in the directory before

ASSUME ExtractAssumption ==
    /\ Pieces \in Nat \ {0}
    /\ Regimes \subseteq [overlap : BOOLEAN, crash : BOOLEAN]
    /\ \A d \in Dumps : Asked[d] \in Seq(Nat)
    /\ IsFiniteSet(Existing)

VARIABLES
    regime,     \* whether processes run at once, and whether one may end while it writes
    files,      \* the directory: name -> for each piece, whose it is
    stage, chosen, reached

extractVars == <<regime, files, stage, chosen, reached>>

Other == "other"    \* what was there before
NoName == <<>>
Nothing == [p \in {} |-> Other]

Exists(n) == n \in DOMAIN files

TypeOK ==
    /\ regime \in Regimes
    /\ \A n \in DOMAIN files : DOMAIN files[n] \subseteq 1..Pieces
    /\ stage \in [Dumps -> {"waiting", "named", "writing", "done", "lost"}]
    /\ chosen \in [Dumps -> Seq(Nat)]
    /\ reached \in [Dumps -> 0..Pieces]
    /\ \A d \in Dumps : stage[d] \in {"writing", "done"} => Exists(chosen[d])

ExtractInit ==
    /\ regime \in Regimes
    /\ files = [n \in Existing |-> [p \in 1..Pieces |-> Other]]
    /\ stage = [d \in Dumps |-> "waiting"]
    /\ chosen = [d \in Dumps |-> NoName]
    /\ reached = [d \in Dumps |-> 0]

Busy(d) == stage[d] \in {"named", "writing"}

\* The number goes after the whole stem: "file-1" becomes "file-1-1".
Numbered(n, k) == Append(n, k)

\* Mutant of free_extracted_name: the first number is taken without looking.
free_name_unseen(n) == IF Exists(n) THEN Numbered(n, 1) ELSE n

\* free_extracted_name: the name asked for, or it with the first number that is
\* free.  One more number than there are files is enough to find one.
free_extracted_name(n) ==
    LET free == {k \in 1..(Cardinality(DOMAIN files) + 1) : ~Exists(Numbered(n, k))}
    IN IF Exists(n) THEN Numbered(n, Min(free)) ELSE n

\* A process extracts one file at a time.
Name(d) ==
    /\ stage[d] = "waiting"
    /\ \A o \in Dumps : Busy(o) => regime.overlap /\ ProcessOf[o] # ProcessOf[d]
    /\ chosen' = [chosen EXCEPT ![d] = free_extracted_name(Asked[d])]
    /\ stage' = [stage EXCEPT ![d] = "named"]
    /\ UNCHANGED <<regime, files, reached>>

\* Mutant of Create: the file is created under the name that was asked for.
CreateAsked(d) ==
    /\ stage[d] = "named"
    /\ files' = [n \in DOMAIN files \cup {chosen[d], Asked[d]} |->
                   IF n = Asked[d] THEN Nothing ELSE IF Exists(n) THEN files[n] ELSE Nothing]
    /\ stage' = [stage EXCEPT ![d] = "writing"]
    /\ UNCHANGED <<regime, chosen, reached>>

\* create_output_file: created if it is not there, emptied if it is.
Create(d) ==
    /\ stage[d] = "named"
    /\ files' = [n \in DOMAIN files \cup {chosen[d]} |-> IF n = chosen[d] THEN Nothing ELSE files[n]]
    /\ stage' = [stage EXCEPT ![d] = "writing"]
    /\ UNCHANGED <<regime, chosen, reached>>

\* Mutant of Write: the loop goes on after the last piece.
WriteOn(d) ==
    /\ stage[d] = "writing"
    /\ LET p == reached[d] + 1 IN
       /\ files' = [files EXCEPT ![chosen[d]] =
                      [q \in DOMAIN @ \cup {p} |-> IF q = p THEN d ELSE @[q]]]
       /\ reached' = [reached EXCEPT ![d] = p]
       /\ stage' = [stage EXCEPT ![d] = IF p > Pieces THEN "done" ELSE "writing"]
    /\ UNCHANGED <<regime, chosen>>

\* A piece is written at the place this process has reached.
Write(d) ==
    /\ stage[d] = "writing"
    /\ LET p == reached[d] + 1 IN
       /\ files' = [files EXCEPT ![chosen[d]] =
                      [q \in DOMAIN @ \cup {p} |-> IF q = p THEN d ELSE @[q]]]
       /\ reached' = [reached EXCEPT ![d] = p]
       /\ stage' = [stage EXCEPT ![d] = IF p = Pieces THEN "done" ELSE "writing"]
    /\ UNCHANGED <<regime, chosen>>

\* The process ends, or a page cannot be read: what was written stays.
Stop(d) ==
    /\ regime.crash
    /\ Busy(d)
    /\ stage' = [stage EXCEPT ![d] = "lost"]
    /\ UNCHANGED <<regime, files, chosen, reached>>

ExtractNext == \E d \in Dumps : Name(d) \/ Create(d) \/ Write(d) \/ Stop(d)

ExtractSpec == ExtractInit /\ [][ExtractNext]_extractVars

---------------------------------------------------------------------------

\* mod.rs:528: "under a name nothing has taken".  A dump that is finished is in
\* the file that was reported for it, whole, and no later dump disturbs it.
DoneIsKept ==
    \A d \in Dumps : stage[d] = "done" => files[chosen[d]] = [p \in 1..Pieces |-> d]

\* The same where processes take turns, wherever one of them was cut short.
DoneIsKeptInTurns == ~regime.overlap => DoneIsKept

\* What was in the directory before is never written to.
OthersAreKept == \A n \in Existing : files[n] = [p \in 1..Pieces |-> Other]

=============================================================================
