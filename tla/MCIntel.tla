------------------------------ MODULE MCIntel ------------------------------
(***************************************************************************)
(* Instances of Intel for TLC: two levels of two entries each over eight   *)
(* bytes of virtual memory in pages of two bytes.  The root table is in    *)
(* frame 0, two leaf tables in frames 1 and 2, data in frames 3 to 5; a    *)
(* large page is four bytes, frames 4 and 5.                               *)
(***************************************************************************)
EXTENDS Intel, TLC

CONSTANTS w1, w2

MCStructure == <<[span |-> 2, large |-> TRUE], [span |-> 1, large |-> FALSE]>>

Entry(p, t, b, f, place) ==
    [present |-> p, transition |-> t, prototype |-> FALSE, bit7 |-> b,
     frame |-> f, slot |-> 0, place |-> place]

MCRoot == Entry(TRUE, FALSE, FALSE, 0, 0)
Absent == Entry(FALSE, FALSE, FALSE, 3, 0)
At(f) == Entry(TRUE, FALSE, FALSE, f, 0)
Large(f) == Entry(TRUE, FALSE, TRUE, f, 0)
Transition(f) == Entry(FALSE, TRUE, FALSE, f, 0)
Swapped == Entry(FALSE, FALSE, TRUE, 0, 2)
Prototype == [Transition(3) EXCEPT !.prototype = TRUE]

Upper == {Absent, At(1), At(2), Large(4), Large(5)}
Leaf == {Absent, At(3), At(4), At(5)}
WindowsUpper == {At(1), Swapped, Large(5), Transition(2)}
WindowsLeaf == {At(3), Swapped, Transition(4), Prototype}

Image(root, one, two, present) ==
    [tables |-> (0 :> root @@ 1 :> one @@ 2 :> two), present |-> present,
     windows |-> FALSE, swaps |-> <<>>]
OfWindows(image, swap) == [image EXCEPT !.windows = TRUE, !.swaps = <<swap>>]
Tables(S) == [0..1 -> S]
All == 0..5

\* Every pair of tables, with missing frames of data; frames 4 and 5 hold large
\* pages, and the whole or the half of one may be missing.
MCImages ==
    {Image(root, one, two, All \ gone) : root \in Tables(Upper), one \in Tables({Absent, At(3), At(5)}),
        two \in {(0 :> At(4) @@ 1 :> At(5))},
        gone \in {{3}, {4}, {4, 5}}}

\* The same with a swap layer, which holds all that was swapped out, the small pages
\* alone and half of a large one, or nothing.
WindowsImages ==
    {OfWindows(Image(root, one, two, All \ gone), swap) : root \in Tables(WindowsUpper),
        one \in Tables(WindowsLeaf), two \in {(0 :> Swapped @@ 1 :> At(3))}, gone \in {{}, {3}},
        swap \in {All, 0..4, {}}}

\* An image of which two workers share the caches.
SharedImages ==
    {Image(0 :> At(1) @@ 1 :> At(2), 0 :> At(3) @@ 1 :> At(5), 0 :> At(4) @@ 1 :> Absent, All)}

AllRanges == {<<o, l>> \in (0..7) \X (0..8) : o + l <= 8}
AlignedRanges == {<<0, 1>>, <<0, 5>>, <<0, 8>>, <<4, 1>>, <<4, 4>>}
SharedRanges == {<<0, 8>>, <<3, 4>>}

\* Pages of Windows are mapped from where they begin, large ones from their start:
\* a range that begins inside a swapped page is a run of its own.
MCRanges(image) ==
    CASE image \in SharedImages -> SharedRanges
      [] image.windows -> AlignedRanges
      [] OTHER -> {range \in AllRanges : range[1] \in {0, 3, 6} /\ range[2] \in {0, 1, 5, 8}}
AnyRange(image) == AllRanges
MCReaders(image) == IF image \in SharedImages THEN {w1, w2} ELSE {w1}
MCMaxAsks(image) == IF image \in SharedImages THEN 2 ELSE 1

MCAllImages == MCImages \cup WindowsImages \cup SharedImages
============================================================================
