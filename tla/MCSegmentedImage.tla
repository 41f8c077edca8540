-------------------------- MODULE MCSegmentedImage --------------------------
(***************************************************************************)
(* Instances of SegmentedImage for TLC: small files of the six formats,    *)
(* and the ranges over the memory they describe.                           *)
(***************************************************************************)
EXTENDS SegmentedImage, TLC

UpTo(n, S) == UNION {[1..k -> S] : k \in 0..n}
rec(s, e) == [start |-> s, end |-> e]
head(l, p, m, f) == [load |-> l, paddr |-> p, place |-> m, filesz |-> f]

\* Records that touch, leave holes, overlap, run backwards; three in a row.
MCRecords ==
    UpTo(2, {rec(s, e) : s \in {0, 1, 3}, e \in {0, 2, 4}})
    \cup {<<rec(0, 0), rec(3, 4), rec(s, 6)>> : s \in {2, 4, 5, 6}}
\* Runs out of order, empty ones, three in a row.
MCRuns ==
    UpTo(2, {[page |-> p, count |-> c] : p \in {0, 2}, c \in 0..2})
    \cup {<<[page |-> 2, count |-> 1], [page |-> 0, count |-> 1], [page |-> 1, count |-> c]>> : c \in 0..1}
\* Sizes at, below and above a whole word; bits past the size.
MCBitmaps ==
    {[size |-> n, set |-> s] : n \in {1, 4}, s \in SUBSET (0..3)}
    \cup {[size |-> 5, set |-> s] : s \in {{}, {0, 1}, {0, 3, 4}, {1, 3, 5}, {2, 6, 7}, {7}}}
\* Headers out of order, with and without bytes, over one another.
MCPrograms ==
    UpTo(2, {head(TRUE, p, m, f) : p \in {0, 2}, m \in {2, 5}, f \in {0, 2}} \cup {head(FALSE, 0, 2, 2)})
    \cup {<<head(TRUE, 4, 1, 2), head(TRUE, 0, 3, 2), head(TRUE, 2, 5, 2)>>}
\* A short segment inside a long one.
NestedPrograms == {<<head(TRUE, 0, 0, 6), head(TRUE, 2, 6, 1)>>}

\* Regions in any order, empty ones, one that the snapshot does not tell all of.
region(t, p, m, c) == [told |-> t, ppn |-> p, page |-> m, count |-> c]
MCRegions ==
    UpTo(2, {region(TRUE, p, m, c) : p \in {0, 2}, m \in {0, 1}, c \in 0..2} \cup {region(FALSE, 0, 0, 1)})
\* Frames out of order, absent, numbered 0; with one list, with both, with none.
MCFrames ==
    LET absent == 1000 IN       \* Absent of SegmentFormats
    {[pfn |-> p, p2m |-> q, frames |-> f] : p \in BOOLEAN, q \in BOOLEAN, f \in UpTo(3, {0, 1, 3, absent})}

\* One address, one byte, ranges that begin and end inside pieces and holes, all of it.
MCRequests ==
    {<<a, 0>> : a \in {0, 1, 4, 9}} \cup {<<a, 1>> : a \in {0, 2, 5}}
    \cup {<<0, 3>>, <<1, 3>>, <<2, 2>>, <<3, 4>>, <<0, 5>>, <<0, 8>>, <<5, 3>>}
=============================================================================
