--------------------------- MODULE MCSymbolFetch ---------------------------
(***************************************************************************)
(* Instances of SymbolFetch for TLC: files of two writes.                  *)
(***************************************************************************)
EXTENDS SymbolFetch, TLC

World(o, c, r, f) == [overlap |-> o, crash |-> c, reliable |-> r, full |-> f]

\* Everything at once; one process after another with a server and directories
\* that refuse; one after another with nothing wrong.
MCWorlds ==
    {World(TRUE, TRUE, FALSE, TRUE), World(FALSE, FALSE, FALSE, FALSE),
     World(FALSE, FALSE, TRUE, FALSE)}
MCMaxStarts(w) == IF w.overlap THEN 4 ELSE 6

CrashWorlds == {World(FALSE, TRUE, TRUE, FALSE)}
OverlapWorlds == {World(TRUE, FALSE, TRUE, FALSE)}
FullWorlds == {World(FALSE, FALSE, TRUE, TRUE)}

Symmetry == Permutations(Runs)
=============================================================================
