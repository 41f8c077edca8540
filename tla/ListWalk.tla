------------------------------ MODULE ListWalk ------------------------------
(***************************************************************************)
(* The walks that nearly every plugin stands on: a kernel list in a memory *)
(* image, whose links may be overwritten or unreadable.                    *)
(*   "forward", "backward"  walk_list            objects/utility.rs        *)
(*   "both"                 walk_list_both       objects/utility.rs        *)
(*   "queue"                walk_queue           symbols/mac/mod.rs        *)
(*   "tail"                 walk_iterable_links  symbols/mac/mod.rs        *)
(* An action is one turn of a loop.  A node stands for the structure and   *)
(* for the link inside it: the one is the other less a fixed offset.       *)
(***************************************************************************)
EXTENDS Integers, Sequences, FiniteSets, Functions, SequencesExt

CONSTANTS
    Nodes,
    ListHead,
    Null,
    Unreadable,     \* what reading a link gives that is not in the image
    Images,         \* what is in memory: [ring, link, starts]
    MaxLength,      \* MAX_LIST_LENGTH, one million
    QueueLimit,     \* 4096 in walk_queue
    TailLimit       \* 4096 in walk_iterable_links

Places == Nodes \cup {ListHead}
Ways == {"next", "prev"}
Kinds == {"forward", "backward", "both", "queue", "tail"}
ListKinds == {"forward", "backward", "both"}

\* ring: the list as the kernel had it.  link: what the links hold now.  starts: the
\* nodes whose structure begins at an address that can be read.
ConstantsAssumption ==
    /\ ListHead \notin Nodes /\ Null \notin Places /\ Unreadable \notin Places \cup {Null}
    /\ MaxLength \in Nat /\ QueueLimit \in Nat \ {0} /\ TailLimit \in Nat \ {0}
    /\ \A i \in Images :
          /\ i.ring \in Seq(Nodes) /\ IsInjective(i.ring)
          /\ i.link \in [Ways -> [Places -> Places \cup {Null, Unreadable}]]
          /\ i.starts \subseteq Nodes
ASSUME ConstantsAssumption

VARIABLES
    kind,       \* which walk is asked for
    image,
    way,        \* which link the pass under way follows
    pc,         \* "entering" a pass, "walking", "done" or "failed"
    at,         \* the node looked at; in a tail queue, the one whose link is
    seen,
    results,
    turned      \* how many results there were when the second pass began

vars == <<kind, image, way, pc, at, seen, results, turned>>

Link(n) == image.link[way][n]

TypeOK ==
    /\ kind \in Kinds
    /\ image.link \in [Ways -> [Places -> Places \cup {Null, Unreadable}]]
    /\ way \in Ways
    /\ pc \in {"entering", "walking", "done", "failed"}
    /\ at \in Places \cup {Null}
    /\ seen \subseteq Places
    /\ results \in Seq(Places)
    /\ turned \in 0..Len(results)

Init ==
    /\ kind \in Kinds
    /\ image \in Images
    /\ way = IF kind = "backward" THEN "prev" ELSE "next"
    /\ pc = "entering"
    /\ at = ListHead
    /\ seen = {}
    /\ results = <<>>
    /\ turned = 0

\* Mutant of EndPass: a list that is walked both ways is walked forward only.
EndPassOnce ==
    /\ pc' = "done"
    /\ UNCHANGED <<way, at, turned>>

\* Mutant of EndPass: the way back is followed by the way there.
EndPassTurning ==
    IF kind \in {"both", "queue"}
    THEN /\ pc' = "entering"
         /\ way' = IF way = "next" THEN "prev" ELSE "next"
         /\ turned' = Len(results')
         /\ at' = ListHead
    ELSE pc' = "done" /\ UNCHANGED <<way, at, turned>>

\* The loop ends.  Two of the walks set out once more, the other way.
EndPass ==
    IF kind \in {"both", "queue"} /\ way = "next"
    THEN /\ pc' = "entering"
         /\ way' = "prev"
         /\ turned' = Len(results')
         /\ at' = ListHead
    ELSE pc' = "done" /\ UNCHANGED <<way, at, turned>>

\* Mutant of Advance: every pass follows the forward links.
AdvanceForward(broken) ==
    IF image.link["next"][at] \in broken THEN EndPass
    ELSE at' = image.link["next"][at] /\ pc' = "walking" /\ UNCHANGED <<way, turned>>

\* Mutant of Advance: a link that cannot be read is followed.
AdvanceBlindly(broken) ==
    at' = Link(at) /\ pc' = "walking" /\ UNCHANGED <<way, turned>>

\* Past the node just taken, unless the link out of it is broken.
Advance(broken) ==
    IF Link(at) \in broken THEN EndPass
    ELSE at' = Link(at) /\ pc' = "walking" /\ UNCHANGED <<way, turned>>

---------------------------------------------------------------------------
(* walk_list_into.                                                         *)

\* A head that cannot be read is an error, whatever an earlier pass found.
ListEnter ==
    /\ kind \in ListKinds
    /\ pc = "entering"
    /\ seen' = seen \cup {ListHead}
    /\ IF Link(ListHead) = Unreadable
       THEN pc' = "failed" /\ UNCHANGED at
       ELSE pc' = "walking" /\ at' = Link(ListHead)
    /\ UNCHANGED <<kind, image, way, results, turned>>

\* Mutant of ListMayTake: a node that was walked before is taken again.
ListMayTakeAgain == Len(results) < MaxLength /\ at \in image.starts

\* Mutant of ListMayTake: the walk stops one node short of its limit.
ListMayTakeEarly == at \notin seen /\ Len(results) + 1 < MaxLength /\ at \in image.starts

\* Whether a node is new, within the limit, and starts somewhere readable.
ListMayTake == at \notin seen /\ Len(results) < MaxLength /\ at \in image.starts

\* The node is taken before its link is read.
ListVisit ==
    /\ kind \in ListKinds
    /\ pc = "walking"
    /\ at \in Nodes
    /\ ListMayTake
    /\ seen' = seen \cup {at}
    /\ results' = Append(results, at)
    /\ Advance({Unreadable})
    /\ UNCHANGED <<kind, image>>

\* Back at the head, at a null link, or at a node that may not be taken.
ListStop ==
    /\ kind \in ListKinds
    /\ pc = "walking"
    /\ ~(at \in Nodes /\ ListMayTake)
    /\ seen' = seen \cup ({at} \ {Null})
    /\ UNCHANGED <<kind, image, results>>
    /\ EndPass

---------------------------------------------------------------------------
(* walk_queue.                                                             *)

\* A head whose link is null or unreadable only costs the pass.
QueueEnter ==
    /\ kind = "queue"
    /\ pc = "entering"
    /\ UNCHANGED <<kind, image, seen, results>>
    /\ IF Link(ListHead) \in {Null, Unreadable}
       THEN EndPass
       ELSE pc' = "walking" /\ at' = Link(ListHead) /\ UNCHANGED <<way, turned>>

\* The next node is looked up, this one taken, and the limit is where all ends.
QueueVisit ==
    /\ kind = "queue"
    /\ pc = "walking"
    /\ at \in Nodes \ seen
    /\ seen' = seen \cup {at}
    /\ results' = Append(results, at)
    /\ IF Len(results') = QueueLimit
       THEN pc' = "done" /\ UNCHANGED <<way, at, turned>>
       ELSE Advance({Null, Unreadable})
    /\ UNCHANGED <<kind, image>>

QueueStop ==
    /\ kind = "queue"
    /\ pc = "walking"
    /\ at \notin Nodes \ seen
    /\ UNCHANGED <<kind, image, seen, results>>
    /\ EndPass

---------------------------------------------------------------------------
(* walk_iterable_links: what is remembered is the links, not the nodes.    *)

TailEnter ==
    /\ kind = "tail"
    /\ pc = "entering"
    /\ pc' = "walking"
    /\ UNCHANGED <<kind, image, way, at, seen, results, turned>>

\* Whether a link leads somewhere, is new, and is within the limit.
TailMayFollow ==
    /\ Link(at) \notin {Null, Unreadable}
    /\ at \notin seen
    /\ Cardinality(seen) + 1 < TailLimit

TailVisit ==
    /\ kind = "tail"
    /\ pc = "walking"
    /\ TailMayFollow
    /\ seen' = seen \cup {at}
    /\ results' = Append(results, Link(at))
    /\ at' = Link(at)
    /\ UNCHANGED <<kind, image, way, pc, turned>>

TailStop ==
    /\ kind = "tail"
    /\ pc = "walking"
    /\ ~TailMayFollow
    /\ UNCHANGED <<kind, image, seen, results>>
    /\ EndPass

Next ==
    \/ ListEnter \/ ListVisit \/ ListStop
    \/ QueueEnter \/ QueueVisit \/ QueueStop
    \/ TailEnter \/ TailVisit \/ TailStop

Spec == Init /\ [][Next]_vars
FairSpec == Spec /\ WF_vars(Next)

---------------------------------------------------------------------------
(* Correctness.                                                            *)

\* Every node of r is what a link holds: of the head, where a pass begins, or of the
\* node before it.  The first t were found the way there, the others the way w.
Linked(r, w, t) ==
    \A i \in 1..Len(r) :
        r[i] = image.link[IF i <= t THEN "next" ELSE w]
                         [IF i = t + 1 \/ i = 1 THEN ListHead ELSE r[i - 1]]

\* utility.rs:105 "Each yielded object is the containing structure, found by
\* subtracting the member's offset from the link pointer": nothing is made up, and a
\* list's structures can be read where they start.
OnlyWhatIsLinked ==
    /\ Linked(results, way, turned)
    /\ kind \in ListKinds => \A i \in 1..Len(results) : results[i] \in image.starts

\* utility.rs:118 "the shared seen-set keeps each node to a single appearance", over
\* both passes and whatever the links hold.  A tail queue remembers links and so may
\* give one node twice, at the end, where the list runs back into itself.
EachOnce ==
    \A i, j \in 1..Len(results) :
        i < j /\ results[i] = results[j] => kind = "tail" /\ j = Len(results)

Limit == CASE kind = "queue" -> QueueLimit
           [] kind = "tail" -> TailLimit - 1
           [] OTHER -> MaxLength

\* Whether a pass that went the way w and took the nodes of r after t, up to e, may
\* end there: at a link that leads nowhere, to the head, to a structure that cannot be
\* read, or to what the walk has already.
MayEnd(r, w, t, e) ==
    LET n == image.link[w][IF e = t THEN ListHead ELSE r[e]] IN
      \/ n \in {Null, Unreadable, ListHead}
      \/ kind \in ListKinds /\ n \notin image.starts
      \/ \E i \in 1..e : r[i] = n

\* utility.rs:108 "the walk stops when it returns to the head, revisits a node, or
\* hits an unreadable address": and at nothing else, short of the limit.
StopsOnlyAtAnEnd ==
    pc = "done" /\ Len(results) < Limit =>
        /\ MayEnd(results, way, turned, Len(results))
        /\ kind \in {"both", "queue"} => MayEnd(results, "next", 0, turned)

\* A node is sound if it and its links are as the kernel left them; a broken link is
\* one that leads nowhere.
RingPlace(i) == LET n == Len(image.ring) IN
    IF i \in 1..n THEN image.ring[i] ELSE ListHead
RingIndex(p) == IF p = ListHead THEN 0 ELSE CHOOSE i \in 1..Len(image.ring) : image.ring[i] = p
RingLink(w, p) ==
    IF w = "next" THEN RingPlace(RingIndex(p) + 1)
    ELSE IF p = ListHead THEN RingPlace(Len(image.ring)) ELSE RingPlace(RingIndex(p) - 1)
Sound(p) ==
    /\ p # ListHead => p \in image.starts
    /\ \A w \in Ways : image.link[w][p] = RingLink(w, p)
BrokenOnly(p) ==
    \A w \in Ways : image.link[w][p] \in {RingLink(w, p), Null, Unreadable}

\* utility.rs:116 "A single unreadable node ends a walk, stranding everything beyond
\* it.  Walking forward and then backward from the same head reaches those entries
\* from the other side"; mac/mod.rs:66 says the same of a queue.  With one broken node
\* and a sound head, every sound node is found.
OneBreakLosesNothing ==
    pc \in {"done", "failed"} /\ kind \in {"both", "queue"} =>
        LET nodes == ToSet(image.ring)
            broken == {p \in nodes : ~Sound(p)}
        IN /\ Sound(ListHead)
           /\ Len(image.ring) <= Limit
           /\ Cardinality(broken) <= 1
           /\ \A p \in broken : BrokenOnly(p)
           => nodes \ broken \subseteq ToSet(results)

\* utility.rs:162 "Already walked, either earlier in this pass or by the pass in the
\* other direction.  Either way there is nothing new beyond it": where the way back
\* meets the way there, the next node back is one the walk has.
NothingNewBeyond ==
    pc = "done" /\ kind = "both" =>
        LET met == image.link["prev"][IF Len(results) = turned THEN ListHead ELSE Last(results)]
        IN /\ met \in ToSet(SubSeq(results, 1, turned))
           /\ image.link["prev"][met] \in image.starts
           => image.link["prev"][met] \in ToSet(results)

\* mac/mod.rs:691 "The walk stops at an element it has already passed".
TailOnce == kind = "tail" => IsInjective(results)

\* utility.rs:19 "This stops a plugin hanging on a hostile image."
WalkEnds == <>(pc \in {"done", "failed"})

=============================================================================
