------------------------------- MODULE Listing ------------------------------
(***************************************************************************)
(* A plugin at work (Plugin::run of plugins/mod.rs, and the functions of   *)
(* the file it is in), over an image one thing of which is damaged: it     *)
(* cannot be read, or makes no sense.  A thing is known by its name and by *)
(* the item it belongs to; an item by its positions in the lists it is in. *)
(***************************************************************************)
EXTENDS ListingSteps, FiniteSets, SequencesExt, FiniteSetsExt

CONSTANTS
    Plugins,    \* a function from names to sequences of steps
    Hiding,     \* the plugins in which one damaged item hides others
    Dropping,   \* the plugins that drop what they have found on an error
    Many        \* bound: how many items a list has

VARIABLES
    plugin,     \* which one runs
    flags,      \* its options, and the kinds that the image settles
    damage,     \* what is damaged: <<item, name>>
    unwanted,   \* an item that does not pass the tests
    pc,
    item,       \* the positions in the lists under way
    rows,       \* what has been pushed or written: <<pc, item>>
    outcome     \* "running", "whole", "told" or "error"

vars == <<plugin, flags, damage, unwanted, pc, item, rows, outcome>>

Nothing == <<<<>>, "">>     \* no damage
Everyone == <<0>>           \* no item is unwanted

Steps == Plugins[plugin]
---------------------------------------------------------------------------
(* The nesting of the steps.                                               *)

Inside(s, ops, i) == {j \in 1..(i - 1) : s[j].op \in ops /\ i <= j + s[j].skip}

\* The loops around each step of each plugin, outermost first.
LoopsIn(s) == [i \in 1..Len(s) |-> SetToSortSeq(Inside(s, {"each"}, i), <)]
Loops == LET plugins == Plugins IN [p \in DOMAIN plugins |-> LoopsIn(plugins[p])]
Depth(p, i) == Len(Loops[p][i])

\* The loop a continue or a break at step i is about, and the function it gives up.
LoopOf(p, i) == Loops[p][i][Depth(p, i) - Plugins[p][i].out]
TryOf(p, i) == Max(Inside(Plugins[p], {"try"}, i))

\* Everything that can fail as a whole is before step k and everything that is found
\* behind it, and no loop leads back.
Cut(s, k) ==
    \A i \in 1..Len(s) :
      /\ s[i].op = "must" => i <= k
      /\ s[i].op \in {"row", "file"} => i > k
      /\ s[i].op = "next" /\ i > k => i - s[i].skip > k

\* Behind the last step there are no loops.
Around(p, i) == IF i \in 1..Len(Plugins[p]) THEN Loops[p][i] ELSE <<>>
Options(s, i) == Inside(s, {"when", "unless"}, i)

\* Where a step leads that fails or finds an item unwanted, and how many of the loops it
\* is in go on.
Jumps(p, i) ==
    LET s == Plugins[p]
        loop == LoopOf(p, i)
        try == TryOf(p, i)
    IN CASE s[i].op \in {"need", "pick"} -> {<<loop + s[loop].skip, Depth(p, loop) + 1>>}
         [] s[i].op \in {"leave", "link"} -> {<<loop + s[loop].skip + 1, Depth(p, loop)>>}
         [] s[i].op = "give" -> {<<try + s[try].skip + 1, Depth(p, try)>>}
         [] s[i].op = "quit" -> {<<Len(s) + 1, 0>>}
         [] s[i].op = "each" -> {<<i + s[i].skip + 1, Depth(p, i)>>}
         [] OTHER -> {}

\* A body is entered at its first step and left at its last or by a jump out of it.
Nested(p) ==
    LET s == Plugins[p] IN
    \A i \in 1..Len(s) :
      /\ Loops[p][i] \in Seq(Inside(s, {"each"}, i))
      /\ s[i].up \in 0..Depth(p, i) /\ "" \notin s[i].what
      /\ s[i].op = "each" => Around(p, i + 1) = Append(Around(p, i), i)
      /\ s[i].op = "next" =>
           /\ Around(p, i) = Append(Around(p, i + 1), i - s[i].skip - 1)
           /\ Around(p, i - s[i].skip) = Around(p, i)
           /\ s[i - s[i].skip - 1].skip = s[i].skip + 1
           /\ Options(s, i - s[i].skip) \subseteq Options(s, i)
      /\ s[i].op \notin {"each", "next"} => Around(p, i + 1) = Around(p, i)
      /\ s[i].op \in {"when", "unless"} =>
           /\ Around(p, i + s[i].skip + 1) = Around(p, i)
           /\ i + s[i].skip <= Len(s)
           /\ Options(s, i + s[i].skip + 1) \subseteq Options(s, i)
      /\ \A to \in Jumps(p, i) :
           /\ to[1] \in (i + 1)..(Len(s) + 1) /\ to[2] \in 0..Depth(p, i)
           /\ Around(p, to[1]) = SubSeq(Around(p, i), 1, to[2])
           /\ Options(s, to[1]) \subseteq Options(s, i)

\* Two steps can be taken with the same options.
Together(s, i, j) ==
    LET both == Options(s, i) \cup Options(s, j)
        needed == UNION {s[k].what : k \in {k \in both : s[k].op = "when"}}
    IN \A k \in both : s[k].op = "unless" => ~(s[k].what \subseteq needed)

\* Two steps have the n outermost loops in common.
Share(p, i, j, n) ==
    /\ n <= Depth(p, i) /\ n <= Depth(p, j)
    /\ \A m \in 1..n : Loops[p][i][m] = Loops[p][j][m]

LinksOf(s) == UNION {s[i].what : i \in {j \in 1..Len(s) : s[j].op = "link"}}

\* A jump misses the steps between, and further turns of the loops it ends.  What is found
\* there is of the item that the step reads, or if that is a link of one behind it.
Local(p) ==
    LET s == Plugins[p] IN
    \A i \in 1..Len(s) : \A to \in Jumps(p, i) :
      LET own == Depth(p, i) - s[i].up IN
      \A j \in 1..Len(s) : s[j].op \in {"row", "file"} =>
        \/ /\ i < j /\ j < to[1] => Share(p, i, j, own)
           /\ Share(p, i, j, to[2] + 1) =>
                \/ own <= to[2]
                \/ own = to[2] + 1 /\ s[i].op # "pick" /\ s[i].what \subseteq LinksOf(s)
        \/ ~Together(s, i, j)

\* The steps are nested, and only the plugins said to hide or drop rows are made so that
\* they may.
ASSUME ListingAssumption ==
    /\ Many \in Nat \ {0}
    /\ \A p \in DOMAIN Plugins : Len(Plugins[p]) \in Nat
    /\ \A p \in DOMAIN Plugins : \A i \in 1..Len(Plugins[p]) :
         /\ Plugins[p][i].skip \in Nat
         /\ Plugins[p][i].op = "next" => Plugins[p][i].skip < i
         /\ Plugins[p][i].op \in {"need", "leave", "link", "pick"} =>
              LoopOf(p, i) \in Inside(Plugins[p], {"each"}, i)
         /\ Plugins[p][i].op = "give" => TryOf(p, i) \in Inside(Plugins[p], {"try"}, i)
    /\ \A p \in DOMAIN Plugins \ Dropping : \E k \in 0..Len(Plugins[p]) : Cut(Plugins[p], k)
    /\ \A p \in DOMAIN Plugins : Nested(p)
    /\ \A p \in DOMAIN Plugins \ Hiding : Local(p)

\* Whose the thing is that step i reads.
Owner(s, i, at) == SubSeq(at, 1, Len(at) - s[i].up)

\* The items a list at a depth can have, and the things a plugin reads of them.
Items(depth) == [1..depth -> 1..Many]
Depths(i) == Items(Depth(plugin, i) - Steps[i].up)
With(ops) == {i \in 1..Len(Steps) : Steps[i].op \in ops}
Forks == {"when", "unless"}
Things ==
    {Nothing} \cup
    UNION {{<<at, w>> : at \in Depths(i), w \in Steps[i].what} : i \in (1..Len(Steps)) \ With(Forks)}
Unwanted == {Everyone} \cup UNION {Depths(i) : i \in With({"pick"})}
Flags == UNION {Steps[i].what : i \in With(Forks)}

Init ==
    /\ plugin \in DOMAIN Plugins
    /\ flags \in SUBSET Flags
    /\ \/ damage \in Things /\ unwanted = Everyone
       \/ damage = Nothing /\ unwanted \in Unwanted
    /\ pc = 1
    /\ item = <<>>
    /\ rows = {}
    /\ outcome = "running"

---------------------------------------------------------------------------
(* The steps.                                                              *)

Doing(ops) ==
    /\ outcome = "running"
    /\ pc <= Len(Steps)
    /\ Steps[pc].op \in ops
    /\ UNCHANGED <<plugin, flags, damage, unwanted>>

GoTo(i) == pc' = i /\ UNCHANGED outcome
EndWith(o) == outcome' = o /\ UNCHANGED <<pc, item>>

Damaged == damage[1] = Owner(Steps, pc, item) /\ damage[2] \in Steps[pc].what

\* Mutant of Continue: the loop ends at an item that is passed over.
ContinueBehind ==
    LET loop == LoopOf(plugin, pc) IN
      /\ GoTo(loop + Steps[loop].skip + 1)
      /\ item' = SubSeq(item, 1, Depth(plugin, loop))

\* To the end of the body, where the next item is taken.
Continue ==
    LET loop == LoopOf(plugin, pc) IN
      /\ GoTo(loop + Steps[loop].skip)
      /\ item' = SubSeq(item, 1, Depth(plugin, loop) + 1)

\* Behind the loop.
Break ==
    LET loop == LoopOf(plugin, pc) IN
      /\ GoTo(loop + Steps[loop].skip + 1)
      /\ item' = SubSeq(item, 1, Depth(plugin, loop))

\* Behind the function that gives up.
GiveUp ==
    LET try == TryOf(plugin, pc) IN
      /\ GoTo(try + Steps[try].skip + 1)
      /\ item' = SubSeq(item, 1, Depth(plugin, try))

\* Mutant of Read: where the grid should be marked and returned, the error is.
ReadNeverTelling ==
    /\ Doing({"must", "tell", "quit", "need", "leave", "link", "cell", "blank", "give"})
    /\ \/ /\ ~Damaged \/ Steps[pc].op \in {"cell", "blank"}
          /\ GoTo(pc + 1)
          /\ UNCHANGED item
       \/ Damaged /\ Steps[pc].op \in {"must", "tell"} /\ EndWith("error")
       \/ Damaged /\ Steps[pc].op = "quit" /\ EndWith("whole")
       \/ Damaged /\ Steps[pc].op = "need" /\ Continue
       \/ Damaged /\ Steps[pc].op \in {"leave", "link"} /\ Break
       \/ Damaged /\ Steps[pc].op = "give" /\ GiveUp
    /\ UNCHANGED rows

Read ==
    /\ Doing({"must", "tell", "quit", "need", "leave", "link", "cell", "blank", "give"})
    /\ \/ /\ ~Damaged \/ Steps[pc].op \in {"cell", "blank"}
          /\ GoTo(pc + 1)
          /\ UNCHANGED item
       \/ Damaged /\ Steps[pc].op = "must" /\ EndWith("error")
       \/ Damaged /\ Steps[pc].op = "tell" /\ EndWith("told")
       \/ Damaged /\ Steps[pc].op = "quit" /\ EndWith("whole")
       \/ Damaged /\ Steps[pc].op = "need" /\ Continue
       \/ Damaged /\ Steps[pc].op \in {"leave", "link"} /\ Break
       \/ Damaged /\ Steps[pc].op = "give" /\ GiveUp
    /\ UNCHANGED rows

Test ==
    /\ Doing({"pick"})
    /\ IF unwanted = Owner(Steps, pc, item) THEN Continue ELSE GoTo(pc + 1) /\ UNCHANGED item
    /\ UNCHANGED rows

Enter ==
    /\ Doing({"each"})
    /\ IF Damaged
       THEN GoTo(pc + Steps[pc].skip + 1) /\ UNCHANGED item
       ELSE GoTo(pc + 1) /\ item' = Append(item, 1)
    /\ UNCHANGED rows

NextItem ==
    /\ Doing({"next"})
    /\ IF Last(item) < Many
       THEN GoTo(pc - Steps[pc].skip) /\ item' = Append(Front(item), Last(item) + 1)
       ELSE GoTo(pc + 1) /\ item' = Front(item)
    /\ UNCHANGED rows

Choose ==
    /\ Doing({"when", "unless", "try"})
    /\ \/ /\ \/ Steps[pc].op = "try"
             \/ (Steps[pc].op = "when") = (Steps[pc].what \subseteq flags)
          /\ GoTo(pc + 1)
       \/ /\ Steps[pc].op # "try"
          /\ (Steps[pc].op = "when") # (Steps[pc].what \subseteq flags)
          /\ GoTo(pc + Steps[pc].skip + 1)
    /\ UNCHANGED <<item, rows>>

\* The grid keeps the row whatever comes after, unless an error drops the grid.
Push ==
    /\ Doing({"row", "file"})
    /\ rows' = rows \cup {<<pc, item>>}
    /\ GoTo(pc + 1)
    /\ UNCHANGED item

Finish ==
    /\ outcome = "running"
    /\ pc = Len(Steps) + 1
    /\ outcome' = "whole"
    /\ UNCHANGED <<plugin, flags, damage, unwanted, pc, item, rows>>

Next == Read \/ Test \/ Enter \/ NextItem \/ Choose \/ Push \/ Finish

Spec == Init /\ [][Next]_vars

---------------------------------------------------------------------------
(* Correctness.                                                            *)

\* The options under which step i is taken at all.
Chosen(i) ==
    /\ \A j \in Inside(Steps, {"when"}, i) : Steps[j].what \subseteq flags
    /\ \A j \in Inside(Steps, {"unless"}, i) : ~(Steps[j].what \subseteq flags)

\* The rows and files of the image were nothing of it damaged.
Expected ==
    UNION {{<<i, at>> : at \in Items(Depth(plugin, i))} :
             i \in {j \in With({"row", "file"}) : Chosen(j)}}

\* Damage excuses the item it is in and the items in it; damage to the way from one
\* item to the next, the ones behind it.
Links == LinksOf(Steps)
Behind(row) ==
    /\ damage[1] # <<>>
    /\ Len(row[2]) >= Len(damage[1])
    /\ IsPrefix(Front(damage[1]), row[2])
    /\ row[2][Len(damage[1])] > Last(damage[1])
Excused(row) ==
    \/ damage # Nothing /\ IsPrefix(damage[1], row[2])
    \/ damage[2] \in Links /\ Behind(row)
    \/ IsPrefix(unwanted, row[2])

\* A listing that is given as complete has the row of every item that is wanted and
\* sound: what is damaged in one process, module or file hides no other.
DamageIsLocal ==
    outcome = "whole" /\ plugin \notin Hiding =>
      \A row \in Expected : row \in rows \/ Excused(row)

\* An error, which drops the grid, comes before there is anything to drop: what has been
\* found in sound memory is shown whatever else is damaged.
RowsAreKept == outcome = "error" /\ plugin \notin Dropping => rows = {}

=============================================================================
