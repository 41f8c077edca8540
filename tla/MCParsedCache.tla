--------------------------- MODULE MCParsedCache ---------------------------
(***************************************************************************)
(* Instances of ParsedCache for TLC.  Three symbol files: one large enough *)
(* to be stored, one too small and one that does not parse.  A name for    *)
(* every pair of a path and a version, as path_for gives when the          *)
(* modification time or the length differ.                                 *)
(***************************************************************************)
EXTENDS ParsedCache, TLC

CONSTANTS large, tiny, bad, v1, v2, v3, v4

MCSources0 == [s \in Sources |->
                 IF s = large THEN v1 ELSE IF s = tiny THEN v3 ELSE v4]
MCKeys == Sources \X Versions
MCKey == [s \in Sources |-> [v \in Versions |-> <<s, v>>]]

\* Runs and inodes are interchangeable.
Symmetry == Permutations(Runs) \cup Permutations(Inodes)
============================================================================
