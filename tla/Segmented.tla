----------------------------- MODULE Segmented -----------------------------
(***************************************************************************)
(* A layer described by a table of segments (layers/segmented.rs) over a   *)
(* file (layers/physical.rs): the loop that maps a range to pieces of the  *)
(* file, and the three operations that read through it.  read stitches the *)
(* pieces together, with_bytes lends the file's own bytes when one piece   *)
(* is the whole range, is_valid asks whether a strict read would succeed.  *)
(*                                                                         *)
(* A byte is known by its place in the file, so an answer is a sequence of *)
(* file offsets; Zero stands for the filling of a hole.                    *)
(***************************************************************************)
EXTENDS Integers, Sequences, FiniteSets, FiniteSetsExt, SequencesExt

CONSTANTS
    Requests    \* the ranges that are asked for: <<offset, length>>

RequestsAssumption == Requests \subseteq Nat \X Nat

VARIABLES
    segments,   \* the table, sorted by offset
    size,       \* how many bytes the file has
    pc,
    op,         \* "read", "lend" or "valid"
    pad,        \* whether holes are to be filled
    request,    \* the range that was asked for
    current,    \* the address the loop has reached
    lenient,    \* ignore_errors of the mapping in progress
    entries,    \* the pieces found so far
    output      \* the bytes stitched so far, or the answer

vars == <<segments, size, pc, op, pad, request, current, lenient, entries, output>>

Zero == -1      \* the filling of a hole
Failed == <<-2>>
Yes == <<-3>>
No == <<-4>>

from == request[1]
to == request[1] + request[2]

Ops == {"read", "lend", "valid"}

---------------------------------------------------------------------------

EndOf(s) == s.offset + s.length

\* SegmentedLayer::new sorts by offset; segments of one offset stay in any order.
SortedByOffset(t) ==
    {s \in {[i \in 1..Len(t) |-> t[p[i]]] : p \in [1..Len(t) -> 1..Len(t)]} :
        /\ ToSet(s) = ToSet(t)
        /\ \A i \in 1..(Len(t) - 1) : s[i].offset <= s[i + 1].offset}

\* find_segment: the last segment that starts at or before the address, if the
\* address is in it.
find_segment(address) ==
    LET before == {i \in 1..Len(segments) : segments[i].offset <= address} IN
      IF before = {} THEN {}
      ELSE {i \in {Max(before)} : address < EndOf(segments[i])}

\* Mutant of IsValidInFile: only the first byte is looked at.
IsValidAtStart(at, length) == at < size

\* The file's is_valid: a length of zero asks about one byte.
IsValidInFile(at, length) == at + Max({length, 1}) - 1 < size

FileBytes(at, length) == [i \in 1..length |-> at + i - 1]
Zeroes(length) == [i \in 1..length |-> Zero]

Init ==
    /\ segments = <<>>
    /\ size = 0
    /\ pc = "closed"
    /\ op = "read" /\ pad = FALSE /\ lenient = FALSE
    /\ request = <<0, 0>> /\ current = 0
    /\ entries = <<>> /\ output = <<>>

\* The layer is built from a table, over a file of so many bytes.
Open(table, bytes) ==
    /\ pc = "closed"
    /\ segments' \in SortedByOffset(table)
    /\ size' = bytes
    /\ pc' = "idle"
    /\ UNCHANGED <<op, pad, request, current, lenient, entries, output>>

\* One of the three operations is called.  A mapping is wanted first, which skips
\* holes only for a padded read.  The layer keeps nothing between operations, so
\* one is all that is asked of it.
Ask ==
    /\ pc = "idle"
    /\ op' \in Ops
    /\ pad' \in BOOLEAN
    /\ request' \in Requests
    /\ lenient' = (pad' /\ (op' = "read" \/ (op' = "lend" /\ request'[2] = 0)))
    /\ pc' = IF request'[2] = 0 THEN "single" ELSE "map"
    /\ current' = request'[1]
    /\ UNCHANGED <<segments, size, entries, output>>

Answer(a) ==
    /\ output' = a
    /\ pc' = "done"

\* A range of length zero translates one address.
MapSingle ==
    /\ pc = "single"
    /\ LET found == find_segment(current)
           place == {segments[i].mapped + (current - segments[i].offset) : i \in found}
       IN Answer(IF op = "valid"
                 THEN IF \E at \in place : IsValidInFile(at, 0) THEN Yes ELSE No
                 ELSE IF found = {} /\ ~lenient THEN Failed ELSE <<>>)
    /\ UNCHANGED <<segments, size, op, pad, request, current, lenient, entries>>

\* The mapping loop: the rest of the segment, as far as it is wanted.
MapSegment ==
    /\ pc = "map"
    /\ current < to
    /\ \E i \in find_segment(current) :
         LET s == segments[i]
             delta == current - s.offset
             chunk == Min({s.length - delta, to - current})
         IN /\ entries' = Append(entries, [offset |-> current, size |-> chunk,
                                           mapped |-> s.mapped + delta])
            /\ current' = current + chunk
    /\ UNCHANGED <<segments, size, pc, op, pad, request, lenient, output>>

\* The starts of the segments after an address.
StartsAfter(address) == {s.offset : s \in {x \in ToSet(segments) : x.offset > address}}

\* Mutant of MapHole: the loop does not move over a hole.
MapHoleStuck ==
    /\ pc = "map"
    /\ current < to
    /\ find_segment(current) = {}
    /\ IF lenient
       THEN UNCHANGED <<pc, current, lenient, entries, output>>
       ELSE Answer(Failed) /\ UNCHANGED <<current, lenient, entries>>
    /\ UNCHANGED <<segments, size, op, pad, request>>

\* A hole: a lenient mapping goes on with the next segment, if it starts within
\* the range, and a strict one is over.  with_bytes then reads as usual.
MapHole ==
    /\ pc = "map"
    /\ current < to
    /\ find_segment(current) = {}
    /\ IF lenient
       THEN /\ current' = Min({to} \cup StartsAfter(current))
            /\ UNCHANGED <<pc, lenient, entries, output>>
       ELSE IF op = "lend" /\ pad
       THEN /\ lenient' = TRUE
            /\ current' = from
            /\ entries' = <<>>
            /\ UNCHANGED <<pc, output>>
       ELSE /\ Answer(IF op = "valid" THEN No ELSE Failed)
            /\ UNCHANGED <<current, lenient, entries>>
    /\ UNCHANGED <<segments, size, op, pad, request>>

\* Mutant of Mapped: any first piece is lent, whole or not.
MappedLendsFirst ==
    /\ pc = "map"
    /\ current >= to
    /\ IF op = "valid"
       THEN Answer(IF \A e \in ToSet(entries) : IsValidInFile(e.mapped, e.size)
                   THEN Yes ELSE No) /\ UNCHANGED current
       ELSE IF op = "lend" /\ entries # <<>>
       THEN LET e == entries[1] IN
              /\ Answer(IF IsValidInFile(e.mapped, e.size)
                        THEN FileBytes(e.mapped, e.size) ELSE Failed)
              /\ UNCHANGED current
       ELSE /\ pc' = "stitch"
            /\ current' = from
            /\ UNCHANGED output
    /\ UNCHANGED <<segments, size, op, pad, request, lenient, entries>>

\* The mapping is complete.  is_valid asks the file about every piece; one piece
\* that is the whole range is lent, and everything else is stitched.
Mapped ==
    /\ pc = "map"
    /\ current >= to
    /\ IF op = "valid"
       THEN Answer(IF \A e \in ToSet(entries) : IsValidInFile(e.mapped, e.size)
                   THEN Yes ELSE No) /\ UNCHANGED current
       ELSE IF op = "lend" /\ ~lenient /\ Len(entries) = 1
       THEN LET e == entries[1] IN
              /\ Answer(IF IsValidInFile(e.mapped, e.size)
                        THEN FileBytes(e.mapped, e.size) ELSE Failed)
              /\ UNCHANGED current
       ELSE /\ pc' = "stitch"
            /\ current' = from
            /\ UNCHANGED output
    /\ UNCHANGED <<segments, size, op, pad, request, lenient, entries>>

\* Mutant of Stitch: a hole in front of a piece is not filled.
StitchUnfilled ==
    /\ pc = "stitch"
    /\ entries # <<>>
    /\ LET e == Head(entries) IN
         IF IsValidInFile(e.mapped, e.size)
         THEN /\ output' = output \o FileBytes(e.mapped, e.size)
              /\ current' = e.offset + e.size
              /\ entries' = Tail(entries)
              /\ UNCHANGED pc
         ELSE Answer(Failed) /\ UNCHANGED <<current, entries>>
    /\ UNCHANGED <<segments, size, op, pad, request, lenient>>

\* read_via_mapping: fill up to the next piece and read it from the file, which
\* refuses to read past its end however it is asked.
Stitch ==
    /\ pc = "stitch"
    /\ entries # <<>>
    /\ LET e == Head(entries) IN
         IF IsValidInFile(e.mapped, e.size)
         THEN /\ output' = output \o Zeroes(e.offset - current) \o FileBytes(e.mapped, e.size)
              /\ current' = e.offset + e.size
              /\ entries' = Tail(entries)
              /\ UNCHANGED pc
         ELSE Answer(Failed) /\ UNCHANGED <<current, entries>>
    /\ UNCHANGED <<segments, size, op, pad, request, lenient>>

\* Whatever the pieces did not cover is zero-filled.
Deliver ==
    /\ pc = "stitch"
    /\ entries = <<>>
    /\ Answer(output \o Zeroes(request[2] - Len(output)))
    /\ UNCHANGED <<segments, size, op, pad, request, current, lenient, entries>>

Next == Ask \/ MapSingle \/ MapSegment \/ MapHole \/ Mapped \/ Stitch \/ Deliver

=============================================================================
