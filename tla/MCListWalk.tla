----------------------------- MODULE MCListWalk -----------------------------
(***************************************************************************)
(* Lists of two and three nodes, with a fourth that is not on the list, at *)
(* most two links overwritten with anything, and at most one node whose    *)
(* structure starts where nothing can be read.                             *)
(***************************************************************************)
EXTENDS ListWalk

MCNodes == {"a", "b", "c", "x"}
Lists == {<<"a", "b">>, <<"a", "b", "c">>}

Kept(r) ==
    LET around == <<"head">> \o r \o <<"head">>
        here(p) == CHOOSE i \in 1..Len(around) : around[i] = p
        back(p) == CHOOSE i \in 2..Len(around) : around[i] = p
        on == ToSet(around)
    IN [w \in Ways |-> [p \in Places |->
          IF p \notin on THEN "null"
          ELSE IF w = "next" THEN around[here(p) + 1] ELSE around[back(p) - 1]]]

Damage == [link : Ways \X Places, to : Places \cup {Null, Unreadable}]
Damaged(kept, d, e) ==
    [w \in Ways |-> [p \in Places |->
       IF <<w, p>> = d.link THEN d.to ELSE IF <<w, p>> = e.link THEN e.to ELSE kept[w][p]]]

MCImages ==
    {[ring |-> r, link |-> Damaged(Kept(r), d, e), starts |-> Nodes \ lost] :
        r \in Lists, d \in Damage, e \in Damage,
        lost \in {{}} \cup {{n} : n \in Nodes}}
=============================================================================
