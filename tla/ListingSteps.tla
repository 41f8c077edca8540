---------------------------- MODULE ListingSteps ----------------------------
(***************************************************************************)
(* What a plugin does, as far as damaged memory can change it.  A plugin   *)
(* goes through lists inside lists, reads this and that of each item, and  *)
(* pushes rows; what it is made of is which reads it makes, in what order, *)
(* and what it does when one of them fails.  In the source that is the     *)
(* choice between `?`, continue, break, Value::unreadable(), unwrap_or and *)
(* mark_failed.                                                            *)
(*                                                                         *)
(* A plugin is a sequence of steps.  The loops in it are flat: "each" and  *)
(* "next" hold how far apart they are.                                     *)
(***************************************************************************)
EXTENDS Integers, Sequences

step(op, what, skip) == <<[op |-> op, what |-> what, skip |-> skip, up |-> 0, out |-> 0]>>

(* Reads, named for what a failure leads to.                               *)

\* `?`: the plugin returns the error, and the rows it has are dropped.
Must(what) == step("must", what, 0)
\* The grid is marked as failed or truncated and returned with its rows.
Tell(what) == step("tell", what, 0)
\* The grid is returned as if it were complete.
Quit(what) == step("quit", what, 0)
\* continue: the item is passed over.
Need(what) == step("need", what, 0)
\* break: the loop ends.
Leave(what) == step("leave", what, 0)
\* break, as nothing else leads to what is behind: the next item is found through this.
Link(what) == step("link", what, 0)
\* The cell says that its value could not be read, or that there is none.
Cell(what) == step("cell", what, 0)
\* unwrap_or: a value that was not read takes the place of the one that was.
Blank(what) == step("blank", what, 0)
\* return None, out of the closest Try.
Give(what) == step("give", what, 0)

(* What is not a read.                                                    *)

\* A filter of the user's or a test of the plugin's: some items are not wanted.
Pick == step("pick", {}, 0)
Row == step("row", {}, 0)
\* A file in the output directory.
File == step("file", {}, 0)

\* for item in list.  A list that cannot be read has no items, unless a read before
\* it says otherwise.
Each(list, body) ==
    step("each", {list}, Len(body) + 1) \o body \o step("next", {}, Len(body))
\* Only with this option, or for this kind of kernel or of object.
When(flag, body) == step("when", {flag}, Len(body)) \o body
Unless(flag, body) == step("unless", {flag}, Len(body)) \o body
\* A function that returns an Option, whose caller goes on without it.
Try(body) == step("try", {}, Len(body)) \o body

\* The reads of a body are of an item some loops further out.
Of(loops, body) == [i \in 1..Len(body) |-> [body[i] EXCEPT !.up = loops]]
\* Its failures pass over, or end, a loop further out: continue 'outer.
Out(loops, body) == [i \in 1..Len(body) |-> [body[i] EXCEPT !.out = loops]]

=============================================================================
