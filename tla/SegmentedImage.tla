--------------------------- MODULE SegmentedImage ---------------------------
(***************************************************************************)
(* An image format and the layer over it: SegmentFormats turns what a file *)
(* declares into a table, and Segmented answers reads through that table.  *)
(* The two meet where the builder of the format calls SegmentedLayer::new. *)
(* What is asked of the pair is said in the terms of the format alone.     *)
(***************************************************************************)
EXTENDS Integers, Sequences, FiniteSets, FiniteSetsExt, SequencesExt

CONSTANTS
    \* of SegmentFormats
    Header, PageSize, WordBits, Records, Runs, Bitmaps, Programs, Regions, Frames,
    Requests,   \* of Segmented
    Cuts        \* how many bytes may be missing at the end of the file

VARIABLES
    format, image, index, place, highest, run, runPlace, table, result,
    segments, size, pc, op, pad, request, current, lenient, entries, output

formatVars == <<format, image, index, place, highest, run, runPlace, table, result>>
layerVars == <<segments, size, pc, op, pad, request, current, lenient, entries, output>>
vars == <<formatVars, layerVars>>

Formats == INSTANCE SegmentFormats WITH segments <- table
Layer == INSTANCE Segmented

ASSUME ConstantsAssumption ==
    /\ Formats!FormatsAssumption
    /\ Layer!RequestsAssumption
    /\ Cuts \subseteq Nat

Init == Formats!Init /\ Layer!Init

\* One turn of the format's loop.
Build == Formats!Next /\ UNCHANGED layerVars

\* The bytes the file would hold if nothing were cut off, the padding of the last
\* page aside.
FileEnd == Max({s.mapped + s.length : s \in ToSet(table)})

\* The finished table becomes a layer.  The file may end inside the last piece:
\* nothing in a header says how long the file is.
Open ==
    /\ result = "built"
    /\ \E cut \in Cuts :
         /\ cut <= Last(table).length
         /\ Layer!Open(table, FileEnd - cut)
    /\ UNCHANGED formatVars

\* One step of an operation on the layer.
Serve == Layer!Next /\ UNCHANGED formatVars

Next == Build \/ Open \/ Serve
Spec == Init /\ [][Next]_vars
\* The loops have nothing to wait for.
LiveSpec == Spec /\ WF_vars(Next)

---------------------------------------------------------------------------
(* What a reader of the image expects, from the format and not the table.  *)

\* A table that was built says what the format says.
TableIsImage == Formats!TableIsImage
\* lime.rs:63, records do not overlap.
RecordsDoNotOverlap == Formats!RecordsDoNotOverlap

from == request[1]
Wanted == from..(from + request[2] - 1)
Places(a) == {b[2] : b \in {c \in Formats!Says : c[1] = a}}
Held(a) == \E m \in Places(a) : m < size
\* No piece the file declares begins inside another one.
Disjoint ==
    \A i, j \in 1..Len(table) : i # j =>
        ~(table[i].offset <= table[j].offset /\ table[j].offset < Layer!EndOf(table[i]))

\* The answer for a range, byte by byte: the byte at the place the format names,
\* a zero where it names none and holes are filled, and nothing at all if one of
\* the bytes is missing.
Expected ==
    IF \A a \in Wanted : Held(a) \/ (pad /\ Places(a) = {})
    THEN [i \in 1..request[2] |->
            IF Places(from + i - 1) = {} THEN Layer!Zero
            ELSE CHOOSE m \in Places(from + i - 1) : TRUE]
    ELSE Layer!Failed

Answered(o) == pc = "done" /\ op = o /\ Wanted # {}

\* A read through the layer gives the bytes the format puts at the addresses asked
\* for, whatever records, runs or headers they come from.  Where the format puts
\* two bytes at one address, no read gives a byte that belongs elsewhere.
ReadIsExact ==
    Answered("read") =>
        IF Disjoint THEN output = Expected
        ELSE output # Layer!Failed =>
               \A i \in 1..request[2] :
                  output[i] \in Places(from + i - 1) \cup (IF pad THEN {Layer!Zero} ELSE {})

\* layers/mod.rs:221, of with_bytes: "so the caller sees no difference beyond the speed."
\* Lending gives what a read would have given.
LendingIsReading == Answered("lend") /\ Disjoint => output = Expected

\* is_valid says yes exactly where a strict read would succeed.
ValidMeansReadable ==
    Answered("valid") /\ Disjoint => (output = Layer!Yes <=> \A a \in Wanted : Held(a))

\* segmented.rs:142, of find_segment: "The segment covering `address`, if any."  So
\* a read fails only over a byte the file does not hold.
FindsTheCovering ==
    Answered("read") /\ output = Layer!Failed => \E a \in Wanted : ~Held(a)

\* Every image is built or refused, and every operation on it ends.
OperationEnds == <>(result = "refused" \/ pc = "done")

=============================================================================
