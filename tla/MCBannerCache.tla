--------------------------- MODULE MCBannerCache ---------------------------
(***************************************************************************)
(* Instances of BannerCache for TLC.                                       *)
(***************************************************************************)
EXTENDS BannerCache, TLC

\* The versions that declare a banner show alike, the others differ from them.
MCShows == [v \in Versions |-> IF v \in Plain THEN "short" ELSE "long"]

Symmetry == Permutations(Processes) \cup Permutations(Files) \cup Permutations(Versions \ Plain)
============================================================================
