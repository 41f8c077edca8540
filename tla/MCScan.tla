------------------------------- MODULE MCScan -------------------------------
(***************************************************************************)
(* Instances of Scan for TLC: chunks of three bytes that repeat two, read  *)
(* from a file of twelve by a pool that takes two at a time.               *)
(***************************************************************************)
EXTENDS Scan

piece(o, m, s) == [offset |-> o, mapped |-> m, size |-> s]
whole == [low |-> 0, high |-> 11, runs |-> <<piece(0, 0, 12)>>]

\* The file itself, two runs that swap places, and runs around a hole.
MCLayers ==
    {whole,
     [low |-> 0, high |-> 11, runs |-> <<piece(0, 6, 6), piece(6, 0, 6)>>],
     [low |-> 1, high |-> 12, runs |-> <<piece(1, 0, 4), piece(8, 5, 5)>>]}
\* A run that goes on past the end of the file.
MCTruncated == {[low |-> 0, high |-> 13, runs |-> <<piece(0, 7, 7), piece(7, 0, 7)>>]}

match(a, l) == [at |-> a, len |-> l]
\* Up to two matches, or two that begin together, at the edges of chunks.
MCContents ==
    {{match(a, l), match(b, k)} : a \in {0, 2, 3, 5}, b \in {4, 5, 8, 9}, l, k \in 1..2}
    \cup {{match(a, 1), match(a, 2)} : a \in {3, 4, 7}}
MCNested == {{match(2, 3), match(3, 1)}, {match(8, 3), match(9, 1)}}

MCSections ==
    {<< <<0, 20>> >>, << <<2, 6>> >>, << <<6, 5>>, <<0, 6>> >>, << <<4, 4>>, <<1, 5>> >>,
     << <<8, 4>>, <<0, 3>>, <<3, 2>> >>, << <<30, 4>>, <<5, 1>> >>}
\* A section inside another, with a third after it.
MCNestedSections == {<< <<0, 10>>, <<2, 2>>, <<4, 1>> >>}
MCWhole == {Whole}
=============================================================================
