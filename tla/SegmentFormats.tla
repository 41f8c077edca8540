--------------------------- MODULE SegmentFormats ---------------------------
(***************************************************************************)
(* How the image formats that are segments in a file turn into a table:    *)
(* LiME records (layers/lime.rs), the runs of a full crash dump and the    *)
(* bits of a bitmap dump (layers/crash.rs), the program headers of an ELF  *)
(* core (layers/elf.rs), the regions of a VMware snapshot (vmware.rs) and  *)
(* the frames of a Xen dump (xen.rs).  Each is a loop over what the file   *)
(* declares, one action per turn, with a running place in the file.        *)
(*                                                                         *)
(* A page, a header and a byte are the units of the formats; they are the  *)
(* constants PageSize, Header and 1.                                       *)
(***************************************************************************)
EXTENDS Integers, Sequences, FiniteSets, FiniteSetsExt, SequencesExt

CONSTANTS
    Header,     \* HEADER_SIZE of LiME, and where the body of a dump begins
    PageSize,
    WordBits,   \* the bits of one word of a dump's bitmap
    Records,    \* LiME files: sequences of [start, end], the end included
    Runs,       \* full dumps: sequences of [page, count]
    Bitmaps,    \* bitmap dumps: [size, set], the pages covered and the bits set
    Programs,   \* ELF cores: sequences of [load, paddr, place, filesz]
    Regions,    \* VMware: sequences of [told, ppn, page, count], told if all three tags are there
    Frames      \* Xen: [pfn, p2m, frames], which sections there are and what the one lists

FormatsAssumption ==
    /\ Header \in Nat /\ PageSize \in Nat \ {0} /\ WordBits \in Nat \ {0}
    /\ Records \subseteq Seq([start : Nat, end : Nat])
    /\ Runs \subseteq Seq([page : Nat, count : Nat])
    /\ Bitmaps \subseteq [size : Nat \ {0}, set : SUBSET Nat]
    /\ Programs \subseteq Seq([load : BOOLEAN, paddr : Nat, place : Nat, filesz : Nat])
    /\ Regions \subseteq Seq([told : BOOLEAN, ppn : Nat, page : Nat, count : Nat])
    /\ Frames \subseteq [pfn : BOOLEAN, p2m : BOOLEAN, frames : Seq(Nat)]

VARIABLES
    format,     \* which loop runs
    image,      \* what the file declares
    index,      \* the record, run, page or header the loop is at
    place,      \* the place in the file the loop has reached
    highest,    \* the end of the last LiME record
    run,        \* the first page of the open run of a bitmap, or NoRun
    runPlace,   \* where the open run begins in the file
    segments,   \* the table so far
    result      \* "open", "built" or "refused"

vars == <<format, image, index, place, highest, run, runPlace, segments, result>>

NoRun == -1
Absent == 1000  \* what Xen writes for a frame that is not held
linear(o, m, l) == [offset |-> o, mapped |-> m, length |-> l]

\* The bitmap is read in whole words.
Covered(b) == ((b.size + WordBits - 1) \div WordBits) * WordBits
Steps == CASE format = "bitmap" -> Covered(image)
           [] format = "xen" -> IF image.pfn # image.p2m THEN Len(image.frames) ELSE 0
           [] OTHER -> Len(image)

Init ==
    /\ \/ format = "lime" /\ image \in Records /\ place = 0
       \/ format = "full" /\ image \in Runs /\ place = Header
       \/ format = "bitmap" /\ image \in Bitmaps /\ place = Header
       \/ format = "elf" /\ image \in Programs /\ place = 0
       \/ format = "vmware" /\ image \in Regions /\ place = 0
       \/ format = "xen" /\ image \in Frames /\ place = Header
    /\ index = 0
    /\ highest = 0
    /\ run = NoRun
    /\ runPlace = 0
    /\ segments = <<>>
    /\ result = "open"

Turn(f) ==
    /\ format = f
    /\ result = "open"
    /\ index < Steps
    /\ index' = index + 1
    /\ UNCHANGED <<format, image>>

\* Mutant of LimeRecord: the length forgets that the end is included.
LimeRecordShort ==
    /\ Turn("lime")
    /\ LET r == image[index + 1] IN
         IF (r.start < highest /\ segments # <<>>) \/ r.end < r.start
         THEN result' = "refused" /\ UNCHANGED <<segments, highest, place>>
         ELSE LET length == r.end - r.start IN
                /\ segments' = Append(segments, linear(r.start, place + Header, length))
                /\ highest' = r.end
                /\ place' = place + Header + length + 1
                /\ UNCHANGED result
    /\ UNCHANGED <<run, runPlace>>

\* A LiME record, refused unless it starts at or above the end of the last one.
LimeRecord ==
    /\ Turn("lime")
    /\ LET r == image[index + 1] IN
         IF (r.start < highest /\ segments # <<>>) \/ r.end < r.start
         THEN result' = "refused" /\ UNCHANGED <<segments, highest, place>>
         ELSE LET length == r.end - r.start + 1 IN
                /\ segments' = Append(segments, linear(r.start, place + Header, length))
                /\ highest' = r.end
                /\ place' = place + Header + length
                /\ UNCHANGED result
    /\ UNCHANGED <<run, runPlace>>

\* A run of a full dump.  An empty one takes no room.
FullRun ==
    /\ Turn("full")
    /\ LET r == image[index + 1]
           length == r.count * PageSize
       IN IF r.count = 0 THEN UNCHANGED <<segments, place>>
          ELSE /\ segments' = Append(segments, linear(r.page * PageSize, place, length))
               /\ place' = place + length
    /\ UNCHANGED <<highest, run, runPlace, result>>

\* A bit of the bitmap: it opens a run, grows it, closes it, or is in a hole.
BitmapPage ==
    /\ Turn("bitmap")
    /\ LET present == index \in image.set IN
       \/ /\ present /\ run = NoRun
          /\ run' = index
          /\ runPlace' = place
          /\ place' = place + PageSize
          /\ UNCHANGED segments
       \/ /\ present /\ run # NoRun
          /\ place' = place + PageSize
          /\ UNCHANGED <<run, runPlace, segments>>
       \/ /\ ~present /\ run # NoRun
          /\ segments' = Append(segments,
                linear(run * PageSize, runPlace, (index - run) * PageSize))
          /\ run' = NoRun
          /\ UNCHANGED <<runPlace, place>>
       \/ /\ ~present /\ run = NoRun
          /\ UNCHANGED <<run, runPlace, place, segments>>
    /\ UNCHANGED <<highest, result>>

\* A program header: only loadable ones that have bytes in the file count.
ElfHeader ==
    /\ Turn("elf")
    /\ LET h == image[index + 1] IN
         segments' = IF h.load /\ h.filesz # 0
                     THEN Append(segments, linear(h.paddr, h.place, h.filesz))
                     ELSE segments
    /\ UNCHANGED <<place, highest, run, runPlace, result>>

\* A region of a VMware snapshot, if the stream has all its tags.
VmwareRegion ==
    /\ Turn("vmware")
    /\ LET r == image[index + 1] IN
         segments' = IF r.told
                     THEN Append(segments, linear(r.ppn * PageSize, r.page * PageSize,
                                                  r.count * PageSize))
                     ELSE segments
    /\ UNCHANGED <<place, highest, run, runPlace, result>>

\* A frame of a Xen dump: its page is at the same position among the pages.  A list
\* of page frames uses 0 as well for one that is not held.
XenFrame ==
    /\ Turn("xen")
    /\ LET frame == image.frames[index + 1] IN
         segments' = IF frame = Absent \/ (image.pfn /\ frame = 0) THEN segments
                     ELSE Append(segments, linear(frame * PageSize, place, PageSize))
    /\ place' = place + PageSize
    /\ UNCHANGED <<highest, run, runPlace, result>>

\* The loop is over: an open run is closed, and a table without segments refused.
Finish ==
    /\ result = "open"
    /\ index = Steps
    /\ segments' = IF run = NoRun THEN segments
                   ELSE Append(segments, linear(run * PageSize, runPlace,
                                                (index - run) * PageSize))
    /\ run' = NoRun
    /\ result' = IF segments' = <<>> THEN "refused" ELSE "built"
    /\ UNCHANGED <<format, image, index, place, highest, runPlace>>

Next ==
    LimeRecord \/ FullRun \/ BitmapPage \/ ElfHeader \/ VmwareRegion \/ XenFrame \/ Finish

---------------------------------------------------------------------------
(* What the formats say, without the loops: a byte of memory and its place.*)

\* What comes before the i-th of things that follow one another.
SumBefore(rooms, i) ==
    LET sum[j \in 0..Len(rooms)] == IF j = 0 THEN 0 ELSE sum[j - 1] + rooms[j] IN sum[i - 1]
Bytes(o, m, l) == {<<o + d, m + d>> : d \in 0..(l - 1)}

LimeSays ==
    LET length == [i \in 1..Len(image) |-> image[i].end - image[i].start + 1]
        room == [i \in 1..Len(image) |-> Header + length[i]]
    IN UNION {Bytes(image[i].start, SumBefore(room, i) + Header, length[i]) : i \in 1..Len(image)}
FullSays ==
    LET room == [i \in 1..Len(image) |-> image[i].count * PageSize] IN
      UNION {Bytes(image[i].page * PageSize, Header + SumBefore(room, i), room[i]) :
               i \in 1..Len(image)}
HeldBelow(p) == {q \in image.set : q < p}
BitmapSays ==
    UNION {Bytes(p * PageSize, Header + (PageSize * Cardinality(HeldBelow(p))), PageSize) :
             p \in HeldBelow(Covered(image))}
ElfSays ==
    UNION {IF image[i].load THEN Bytes(image[i].paddr, image[i].place, image[i].filesz) ELSE {} :
             i \in 1..Len(image)}
VmwareSays ==
    UNION {IF image[i].told
           THEN Bytes(image[i].ppn * PageSize, image[i].page * PageSize, image[i].count * PageSize)
           ELSE {} : i \in 1..Len(image)}
\* The pages follow one another, held or not; a dump with both lists says nothing.
XenSays ==
    UNION {Bytes(image.frames[i] * PageSize, Header + ((i - 1) * PageSize), PageSize) :
             i \in {j \in 1..Len(image.frames) :
                       /\ image.pfn # image.p2m
                       /\ image.frames[j] # Absent
                       /\ image.pfn => image.frames[j] # 0}}

Says == CASE format = "lime" -> LimeSays
          [] format = "full" -> FullSays
          [] format = "bitmap" -> BitmapSays
          [] format = "elf" -> ElfSays
          [] format = "vmware" -> VmwareSays
          [] format = "xen" -> XenSays

\* A table that was built places every byte where the format says it is, and
\* declares no byte the format does not.
TableIsImage ==
    result = "built" =>
        UNION {Bytes(s.offset, s.mapped, s.length) : s \in ToSet(segments)} = Says

\* lime.rs:63: "Records must be ordered and non-overlapping.  Anything else means
\* the file is truncated or corrupt rather than merely sparse."
RecordsDoNotOverlap ==
    format = "lime" /\ result = "built" =>
        \A i, j \in 1..Len(segments) : i < j =>
            segments[i].offset + segments[i].length <= segments[j].offset

=============================================================================
