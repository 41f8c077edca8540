--------------------------- MODULE ListWalk_proofs ---------------------------
(***************************************************************************)
(* Proofs about the walks over kernel lists, for any number of nodes and   *)
(* whatever their links hold: a walk gives each node once, gives nothing   *)
(* that is not linked, and stops at nothing but an end; and a walk both    *)
(* ways of a list with one broken node finds all the others.               *)
(***************************************************************************)
EXTENDS ListWalk, FiniteSetTheorems, WellFoundedInduction, TLAPS

-----------------------------------------------------------------------------
(* The invariant.                                                          *)

\* Which way the walk goes, and that only two of the walks turn.
Order ==
    /\ kind \in {"forward", "tail"} => way = "next"
    /\ kind = "backward" => way = "prev"
    /\ kind \notin {"both", "queue"} => turned = 0
    /\ way = "next" => turned = 0
    /\ pc = "entering" => turned = Len(results) /\ at = ListHead

\* What is remembered of a list is in the results, or is the head, or may not be
\* taken.  Of a queue it is the results.
Remembered ==
    /\ kind \in ListKinds =>
          \A n \in seen : \/ n = ListHead
                          \/ n \notin image.starts
                          \/ Len(results) >= MaxLength
                          \/ \E i \in 1..Len(results) : results[i] = n
    /\ kind = "queue" => \A n \in seen : \E i \in 1..Len(results) : results[i] = n
    /\ kind # "tail" => \A i \in 1..Len(results) : results[i] \in seen

\* Of a tail queue it is the places whose links the results are.
RememberedLinks ==
    kind = "tail" =>
        /\ at = IF Len(results) = 0 THEN ListHead ELSE results[Len(results)]
        /\ IsFiniteSet(seen)
        /\ Cardinality(seen) = Len(results)
        /\ \A n \in seen : \E i \in 1..Len(results) :
              n = IF i = 1 THEN ListHead ELSE results[i - 1]
        /\ \A i \in 1..(Len(results) - 1) : results[i] \in seen

\* The node looked at is the one that the last one found is linked to.
Underway ==
    pc = "walking" /\ kind # "tail" =>
        at = image.link[way][IF Len(results) = turned THEN ListHead ELSE results[Len(results)]]

\* A walk that has turned had reached an end.
HasTurned ==
    kind \in {"both", "queue"} /\ way = "prev" /\ turned < Limit =>
        MayEnd(results, "next", 0, turned)

IInv ==
    /\ TypeOK
    /\ Order
    /\ Remembered
    /\ RememberedLinks
    /\ Underway
    /\ HasTurned
    /\ OnlyWhatIsLinked
    /\ EachOnce
    /\ StopsOnlyAtAnEnd

\* No walk has begun.
LEMMA InitIInv == Init => IInv
<1> SUFFICES ASSUME Init PROVE IInv
  OBVIOUS
<1>1. TypeOK
  <2>1. image.link \in [Ways -> [Places -> Places \cup {Null, Unreadable}]]
    BY ConstantsAssumption DEF ConstantsAssumption, Init
  <2>2. way \in Ways /\ at \in Places \cup {Null} /\ kind \in Kinds
    BY DEF Init, Ways, Places
  <2>3. results \in Seq(Places) /\ turned \in 0..Len(results) /\ seen \subseteq Places
    BY DEF Init
  <2> QED
    BY <2>1, <2>2, <2>3 DEF Init, TypeOK
<1>2. Order
  BY DEF Init, Order, Kinds
<1>3. Remembered /\ RememberedLinks
  BY FS_EmptySet DEF Init, Remembered, RememberedLinks
<1>4. Underway /\ HasTurned
  BY DEF Init, Underway, HasTurned
<1>5. OnlyWhatIsLinked /\ EachOnce /\ StopsOnlyAtAnEnd
  BY DEF Init, OnlyWhatIsLinked, Linked, EachOnce, StopsOnlyAtAnEnd
<1> QED
  BY <1>1, <1>2, <1>3, <1>4, <1>5 DEF IInv

-----------------------------------------------------------------------------
(* The steps that the loops share.                                         *)

\* Ending a pass that may end, with what it has found linked and remembered.
LEMMA EndPassKeeps ==
    ASSUME TypeOK, Order, HasTurned, EndPass,
           kind' = kind, image' = image,
           results' \in Seq(Places), seen' \subseteq Places,
           turned <= Len(results'),
           \A i \in 1..turned : results'[i] = results[i],
           Linked(results', way, turned),
           Len(results') < Limit => MayEnd(results', way, turned, Len(results'))
    PROVE  /\ TypeOK' /\ Order' /\ Underway' /\ HasTurned'
           /\ Linked(results, way, turned)' /\ StopsOnlyAtAnEnd'
<1>0. Len(results') \in Nat /\ turned \in Nat /\ Limit' = Limit
  BY DEF TypeOK, Limit
<1>1. CASE kind \in {"both", "queue"} /\ way = "next"
  <2>1. /\ pc' = "entering" /\ way' = "prev" /\ turned' = Len(results') /\ at' = ListHead
        /\ turned = 0
    BY <1>1 DEF EndPass, Order
  <2>2. TypeOK'
    BY <1>0, <2>1 DEF TypeOK, Ways, Places
  <2>3. Order'
    BY <1>1, <2>1 DEF Order
  <2>4. Underway' /\ StopsOnlyAtAnEnd'
    BY <2>1 DEF Underway, StopsOnlyAtAnEnd
  <2>5. HasTurned'
    BY <1>0, <1>1, <2>1 DEF HasTurned, MayEnd
  <2>6. Linked(results, way, turned)'
    BY <1>0, <1>1, <2>1 DEF Linked
  <2> QED
    BY <2>2, <2>3, <2>4, <2>5, <2>6
<1>2. CASE ~(kind \in {"both", "queue"} /\ way = "next")
  <2>1. pc' = "done" /\ way' = way /\ at' = at /\ turned' = turned
    BY <1>2 DEF EndPass
  <2>2. TypeOK'
    BY <1>0, <2>1 DEF TypeOK
  <2>3. Order'
    BY <2>1 DEF Order
  <2>4. Underway'
    BY <2>1 DEF Underway
  <2>5. HasTurned'
    BY <1>0, <2>1 DEF HasTurned, MayEnd
  <2>6. Linked(results, way, turned)'
    BY <2>1 DEF Linked
  <2>7. StopsOnlyAtAnEnd'
    <3>1. SUFFICES ASSUME Len(results') < Limit
                   PROVE  /\ MayEnd(results', way, turned, Len(results'))
                          /\ kind \in {"both", "queue"} => MayEnd(results', "next", 0, turned)
      BY <1>0, <2>1 DEF StopsOnlyAtAnEnd, MayEnd
    <3>2. kind \in {"both", "queue"} => way = "prev" /\ turned < Limit
      <4>1. Limit \in Int
        BY ConstantsAssumption DEF ConstantsAssumption, Limit
      <4> QED BY <1>0, <1>2, <3>1, <4>1 DEF TypeOK, Ways
    <3>3. kind \in {"both", "queue"} => MayEnd(results', "next", 0, turned)
      BY <1>0, <3>2 DEF HasTurned, MayEnd
    <3> QED BY <3>1, <3>3
  <2> QED
    BY <2>2, <2>3, <2>4, <2>5, <2>6, <2>7
<1> QED
  BY <1>1, <1>2

-----------------------------------------------------------------------------
(* walk_list_into.                                                         *)

LEMMA ListEnterKeeps == ASSUME IInv, ListEnter PROVE IInv'
<1>1. ListHead \in Places /\ ListHead \in DOMAIN image.link[way] /\ way \in Ways
  BY DEF IInv, TypeOK, Places, Ways
<1>2. Link(ListHead) \in Places \cup {Null, Unreadable}
  BY <1>1 DEF IInv, TypeOK, Link
<1>3. TypeOK'
  BY <1>1, <1>2 DEF IInv, TypeOK, ListEnter
<1>4. Order'
  BY DEF IInv, Order, ListEnter
<1>5. Remembered' /\ RememberedLinks'
  BY DEF IInv, Remembered, RememberedLinks, ListEnter, ListKinds
<1>6. Underway'
  BY DEF IInv, Order, Underway, ListEnter, Link
<1>7. HasTurned'
  BY DEF IInv, HasTurned, MayEnd, Limit, ListEnter
<1>8. OnlyWhatIsLinked' /\ EachOnce'
  BY DEF IInv, OnlyWhatIsLinked, Linked, EachOnce, ListEnter
<1>9. StopsOnlyAtAnEnd'
  BY DEF StopsOnlyAtAnEnd, ListEnter
<1> QED
  BY <1>3, <1>4, <1>5, <1>6, <1>7, <1>8, <1>9 DEF IInv

\* What taking a node more does to the results of a list or a queue.
LEMMA TakingLinks ==
    ASSUME TypeOK, Order, Underway, Linked(results, way, turned),
           pc = "walking", kind # "tail", at \in Places,
           results' = Append(results, at), image' = image
    PROVE  /\ results' \in Seq(Places) /\ Len(results') = Len(results) + 1
           /\ results'[Len(results')] = at
           /\ \A i \in 1..Len(results) : results'[i] = results[i]
           /\ Linked(results', way, turned)
<1>1. /\ results' \in Seq(Places) /\ Len(results') = Len(results) + 1
      /\ results'[Len(results')] = at
      /\ \A i \in 1..Len(results) : results'[i] = results[i]
      /\ Len(results) \in Nat /\ turned \in 0..Len(results)
  BY DEF TypeOK
<1>2. at = image.link[way][IF Len(results) = turned THEN ListHead ELSE results[Len(results)]]
  BY DEF Underway
<1>3. ASSUME NEW i \in 1..Len(results')
      PROVE  results'[i] = image.link[IF i <= turned THEN "next" ELSE way]
                               [IF i = turned + 1 \/ i = 1 THEN ListHead ELSE results'[i - 1]]
  <2>1. CASE i \in 1..Len(results)
    BY <1>1, <2>1 DEF Linked
  <2>2. CASE i = Len(results) + 1
    <3>1. ~(i <= turned)
      BY <1>1, <2>2
    <3>2. CASE Len(results) = turned
      BY <1>1, <1>2, <2>2, <3>1, <3>2
    <3>3. CASE Len(results) # turned
      <4>1. i # turned + 1 /\ i # 1 /\ results'[i - 1] = results[Len(results)]
        BY <1>1, <2>2, <3>3
      <4> QED BY <1>1, <1>2, <2>2, <3>1, <3>3, <4>1
    <3> QED BY <3>2, <3>3
  <2> QED
    BY <1>1, <2>1, <2>2
<1> QED
  BY <1>1, <1>3 DEF Linked

LEMMA ListVisitKeeps == ASSUME IInv, ListVisit PROVE IInv'
<1>1. /\ at \in Places /\ at \notin seen /\ Len(results) < MaxLength /\ at \in image.starts
      /\ kind \in ListKinds /\ kind # "tail" /\ kind # "queue" /\ pc = "walking"
      /\ results' = Append(results, at) /\ seen' = seen \cup {at}
      /\ kind' = kind /\ image' = image
  BY DEF ListVisit, ListMayTake, Places, ListKinds
<1>2. TypeOK /\ Order /\ Underway /\ HasTurned /\ OnlyWhatIsLinked /\ Linked(results, way, turned)
  BY DEF IInv, OnlyWhatIsLinked
<1>3. /\ results' \in Seq(Places) /\ Len(results') = Len(results) + 1
      /\ results'[Len(results')] = at
      /\ \A i \in 1..Len(results) : results'[i] = results[i]
      /\ Linked(results', way, turned)
  BY <1>1, <1>2, TakingLinks
<1>4. Len(results) \in Nat /\ turned \in 0..Len(results) /\ seen' \subseteq Places
  BY <1>1, <1>2 DEF TypeOK
<1>5. Remembered' /\ RememberedLinks'
  <2>1. MaxLength \in Nat
    BY ConstantsAssumption DEF ConstantsAssumption
  <2>2. \A n \in seen' : \/ n = ListHead
                          \/ n \notin image.starts
                          \/ Len(results') >= MaxLength
                          \/ \E i \in 1..Len(results') : results'[i] = n
    BY <1>1, <1>3, <1>4, <2>1 DEF IInv, Remembered
  <2>3. \A i \in 1..Len(results') : results'[i] \in seen'
    BY <1>1, <1>3, <1>4 DEF IInv, Remembered
  <2> QED
    BY <1>1, <2>2, <2>3 DEF Remembered, RememberedLinks
<1>6. EachOnce'
  <2>1. \A i \in 1..Len(results) : results[i] # at
    BY <1>1 DEF IInv, Remembered
  <2> QED
    BY <1>1, <1>3, <1>4, <2>1 DEF IInv, EachOnce
<1>7. \A i \in 1..Len(results') : results'[i] \in image.starts
  BY <1>1, <1>2, <1>3, <1>4 DEF OnlyWhatIsLinked
<1>8. TypeOK' /\ Order' /\ Underway' /\ HasTurned' /\ Linked(results, way, turned)' /\ StopsOnlyAtAnEnd'
  <2>1. CASE Link(at) = Unreadable
    <3>1. EndPass
      BY <2>1 DEF ListVisit, Advance
    <3>2. MayEnd(results', way, turned, Len(results'))
      BY <1>3, <1>4, <2>1 DEF MayEnd, Link
    <3> QED
      BY <1>1, <1>2, <1>3, <1>4, <3>1, <3>2, EndPassKeeps
  <2>2. CASE Link(at) # Unreadable
    <3>1. at' = Link(at) /\ pc' = "walking" /\ way' = way /\ turned' = turned
      BY <2>2 DEF ListVisit, Advance
    <3>2. Link(at) \in Places \cup {Null}
      BY <1>1, <2>2 DEF IInv, TypeOK, Link
    <3>3. TypeOK'
      BY <1>1, <1>2, <1>3, <1>4, <3>1, <3>2 DEF TypeOK
    <3>4. Order' /\ StopsOnlyAtAnEnd'
      BY <1>1, <1>2, <3>1 DEF Order, StopsOnlyAtAnEnd
    <3>5. Underway'
      BY <1>1, <1>3, <1>4, <3>1 DEF Underway, Link
    <3>6. HasTurned'
      BY <1>1, <1>2, <1>3, <1>4, <3>1 DEF HasTurned, MayEnd, Limit
    <3>7. Linked(results, way, turned)'
      BY <1>1, <1>3, <3>1 DEF Linked
    <3> QED
      BY <3>3, <3>4, <3>5, <3>6, <3>7
  <2> QED
    BY <2>1, <2>2
<1> QED
  BY <1>1, <1>5, <1>6, <1>7, <1>8 DEF IInv, OnlyWhatIsLinked

LEMMA ListStopKeeps == ASSUME IInv, ListStop PROVE IInv'
<1>1. /\ kind \in ListKinds /\ kind # "tail" /\ kind # "queue" /\ pc = "walking"
      /\ kind' = kind /\ image' = image /\ results' = results /\ EndPass
      /\ seen' = seen \cup ({at} \ {Null}) /\ ~(at \in Nodes /\ ListMayTake)
  BY DEF ListStop, ListKinds
<1>2. TypeOK /\ Order /\ Underway /\ HasTurned /\ OnlyWhatIsLinked /\ Linked(results, way, turned)
  BY DEF IInv, OnlyWhatIsLinked
<1>3. MaxLength \in Nat /\ Len(results) \in Nat /\ turned \in 0..Len(results)
  BY <1>2, ConstantsAssumption DEF ConstantsAssumption, TypeOK
<1>4. \/ at \in {Null, ListHead} \/ at \in seen \/ Len(results) >= MaxLength
      \/ at \notin image.starts
  BY <1>1, <1>2, <1>3 DEF TypeOK, Places, ListMayTake
<1>5. \/ at \in {Null, ListHead} \/ at \notin image.starts \/ Len(results) >= MaxLength
      \/ \E i \in 1..Len(results) : results[i] = at
  BY <1>1, <1>4 DEF IInv, Remembered
<1>6. Len(results') < Limit => MayEnd(results', way, turned, Len(results'))
  <2>1. Limit = MaxLength
    BY <1>1 DEF Limit, ListKinds
  <2> QED BY <1>1, <1>2, <1>3, <1>5, <2>1 DEF MayEnd, Underway
<1>7. seen' \subseteq Places
  BY <1>1, <1>2 DEF TypeOK
<1>8. TypeOK' /\ Order' /\ Underway' /\ HasTurned' /\ Linked(results, way, turned)' /\ StopsOnlyAtAnEnd'
  <2>1. results' \in Seq(Places) /\ turned <= Len(results')
    BY <1>1, <1>2, <1>3 DEF TypeOK
  <2>2. Linked(results', way, turned) /\ \A i \in 1..turned : results'[i] = results[i]
    BY <1>1, <1>2
  <2> QED
    BY <1>1, <1>2, <1>6, <1>7, <2>1, <2>2, EndPassKeeps
<1>9. Remembered' /\ RememberedLinks' /\ EachOnce'
  <2>1. \A n \in seen' : \/ n = ListHead
                          \/ n \notin image.starts
                          \/ Len(results) >= MaxLength
                          \/ \E i \in 1..Len(results) : results[i] = n
    BY <1>1, <1>5 DEF IInv, Remembered
  <2> QED
    BY <1>1, <2>1 DEF IInv, Remembered, RememberedLinks, EachOnce
<1> QED
  BY <1>1, <1>2, <1>8, <1>9 DEF IInv, OnlyWhatIsLinked

-----------------------------------------------------------------------------
(* walk_queue.                                                             *)

LEMMA QueueEnterKeeps == ASSUME IInv, QueueEnter PROVE IInv'
<1>1. /\ kind = "queue" /\ pc = "entering" /\ kind' = kind /\ image' = image
      /\ results' = results /\ seen' = seen
  BY DEF QueueEnter
<1>2. TypeOK /\ Order /\ HasTurned /\ OnlyWhatIsLinked /\ Linked(results, way, turned)
  BY DEF IInv, OnlyWhatIsLinked
<1>3. turned = Len(results) /\ Len(results) \in Nat
  BY <1>1, <1>2 DEF Order, TypeOK
<1>4. TypeOK' /\ Order' /\ Underway' /\ HasTurned' /\ Linked(results, way, turned)' /\ StopsOnlyAtAnEnd'
  <2>1. CASE Link(ListHead) \in {Null, Unreadable}
    <3>1. EndPass
      BY <2>1 DEF QueueEnter
    <3>2. MayEnd(results', way, turned, Len(results'))
      BY <1>1, <1>3, <2>1 DEF MayEnd, Link
    <3>3. results' \in Seq(Places) /\ seen' \subseteq Places /\ turned <= Len(results')
      BY <1>1, <1>2, <1>3 DEF TypeOK
    <3>4. Linked(results', way, turned) /\ \A i \in 1..turned : results'[i] = results[i]
      BY <1>1, <1>2
    <3> QED
      BY <1>1, <1>2, <3>1, <3>2, <3>3, <3>4, EndPassKeeps
  <2>2. CASE Link(ListHead) \notin {Null, Unreadable}
    <3>1. at' = Link(ListHead) /\ pc' = "walking" /\ way' = way /\ turned' = turned
      BY <2>2 DEF QueueEnter
    <3>2. Link(ListHead) \in Places
      BY <1>2, <2>2 DEF TypeOK, Link, Places
    <3>3. TypeOK'
      BY <1>1, <1>2, <3>1, <3>2 DEF TypeOK
    <3>4. Order' /\ StopsOnlyAtAnEnd'
      BY <1>1, <1>2, <3>1 DEF Order, StopsOnlyAtAnEnd
    <3>5. Underway'
      BY <1>1, <1>3, <3>1 DEF Underway, Link
    <3>6. HasTurned' /\ Linked(results, way, turned)'
      BY <1>1, <1>2, <3>1 DEF HasTurned, MayEnd, Limit, Linked
    <3> QED
      BY <3>3, <3>4, <3>5, <3>6
  <2> QED
    BY <2>1, <2>2
<1>5. Remembered' /\ RememberedLinks' /\ EachOnce'
  BY <1>1 DEF IInv, Remembered, RememberedLinks, EachOnce
<1> QED
  BY <1>1, <1>2, <1>4, <1>5 DEF IInv, OnlyWhatIsLinked, ListKinds

LEMMA QueueVisitKeeps == ASSUME IInv, QueueVisit PROVE IInv'
<1>1. /\ at \in Places /\ at \notin seen /\ kind \notin ListKinds /\ kind = "queue" /\ pc = "walking"
      /\ results' = Append(results, at) /\ seen' = seen \cup {at}
      /\ kind' = kind /\ image' = image
  BY DEF QueueVisit, Places, ListKinds
<1>2. TypeOK /\ Order /\ Underway /\ HasTurned /\ Linked(results, way, turned)
  BY DEF IInv, OnlyWhatIsLinked
<1>3. /\ results' \in Seq(Places) /\ Len(results') = Len(results) + 1
      /\ results'[Len(results')] = at
      /\ \A i \in 1..Len(results) : results'[i] = results[i]
      /\ Linked(results', way, turned)
  BY <1>1, <1>2, TakingLinks
<1>4. Len(results) \in Nat /\ turned \in 0..Len(results) /\ seen' \subseteq Places
  BY <1>1, <1>2 DEF TypeOK
<1>5. Remembered' /\ RememberedLinks'
  <2>1. \A n \in seen' : \E i \in 1..Len(results') : results'[i] = n
    BY <1>1, <1>3, <1>4 DEF IInv, Remembered
  <2>2. \A i \in 1..Len(results') : results'[i] \in seen'
    BY <1>1, <1>3, <1>4 DEF IInv, Remembered
  <2> QED
    BY <1>1, <2>1, <2>2 DEF Remembered, RememberedLinks
<1>6. EachOnce'
  <2>1. \A i \in 1..Len(results) : results[i] # at
    BY <1>1 DEF IInv, Remembered
  <2> QED
    BY <1>1, <1>3, <1>4, <2>1 DEF IInv, EachOnce
<1>7. QueueLimit \in Nat \ {0} /\ Limit = QueueLimit /\ Limit' = QueueLimit
  BY <1>1, ConstantsAssumption DEF ConstantsAssumption, Limit
<1>8. TypeOK' /\ Order' /\ Underway' /\ HasTurned' /\ Linked(results, way, turned)' /\ StopsOnlyAtAnEnd'
  <2>1. CASE Len(results') = QueueLimit
    <3>1. pc' = "done" /\ way' = way /\ at' = at /\ turned' = turned
      BY <2>1 DEF QueueVisit
    <3>2. TypeOK'
      BY <1>1, <1>2, <1>3, <1>4, <3>1 DEF TypeOK
    <3>3. Order' /\ Underway'
      BY <1>1, <1>2, <3>1 DEF Order, Underway
    <3>4. HasTurned'
      BY <1>1, <1>2, <1>3, <1>4, <3>1 DEF HasTurned, MayEnd, Limit
    <3>5. StopsOnlyAtAnEnd'
      BY <1>3, <1>4, <1>7, <2>1 DEF StopsOnlyAtAnEnd
    <3>6. Linked(results, way, turned)'
      BY <1>1, <1>3, <3>1 DEF Linked
    <3> QED
      BY <3>2, <3>3, <3>4, <3>5, <3>6
  <2>2. CASE Len(results') # QueueLimit /\ Link(at) \in {Null, Unreadable}
    <3>1. EndPass
      BY <2>2 DEF QueueVisit, Advance
    <3>2. MayEnd(results', way, turned, Len(results'))
      BY <1>3, <1>4, <2>2 DEF MayEnd, Link
    <3> QED
      BY <1>1, <1>2, <1>3, <1>4, <3>1, <3>2, EndPassKeeps
  <2>3. CASE Len(results') # QueueLimit /\ Link(at) \notin {Null, Unreadable}
    <3>1. at' = Link(at) /\ pc' = "walking" /\ way' = way /\ turned' = turned
      BY <2>3 DEF QueueVisit, Advance
    <3>2. Link(at) \in Places
      BY <1>1, <1>2, <2>3 DEF TypeOK, Link
    <3>3. TypeOK'
      BY <1>1, <1>2, <1>3, <1>4, <3>1, <3>2 DEF TypeOK
    <3>4. Order' /\ StopsOnlyAtAnEnd'
      BY <1>1, <1>2, <3>1 DEF Order, StopsOnlyAtAnEnd
    <3>5. Underway'
      BY <1>1, <1>3, <1>4, <3>1 DEF Underway, Link
    <3>6. HasTurned'
      BY <1>1, <1>2, <1>3, <1>4, <3>1 DEF HasTurned, MayEnd, Limit
    <3>7. Linked(results, way, turned)'
      BY <1>1, <1>3, <3>1 DEF Linked
    <3> QED
      BY <3>3, <3>4, <3>5, <3>6, <3>7
  <2> QED
    BY <2>1, <2>2, <2>3
<1> QED
  BY <1>1, <1>5, <1>6, <1>8 DEF IInv, OnlyWhatIsLinked

LEMMA QueueStopKeeps == ASSUME IInv, QueueStop PROVE IInv'
<1>1. /\ kind = "queue" /\ kind \notin ListKinds /\ pc = "walking" /\ kind' = kind /\ image' = image
      /\ results' = results /\ seen' = seen /\ EndPass /\ at \notin Nodes \ seen
  BY DEF QueueStop, ListKinds
<1>2. TypeOK /\ Order /\ Underway /\ HasTurned /\ Linked(results, way, turned)
  BY DEF IInv, OnlyWhatIsLinked
<1>3. \/ at \in {Null, ListHead}
      \/ \E i \in 1..Len(results) : results[i] = at
  BY <1>1, <1>2 DEF IInv, TypeOK, Places, Remembered
<1>4. Len(results) \in Nat /\ turned \in 0..Len(results)
  BY <1>2 DEF TypeOK
<1>5. MayEnd(results', way, turned, Len(results'))
  BY <1>1, <1>2, <1>3 DEF MayEnd, Underway
<1>6. results' \in Seq(Places) /\ seen' \subseteq Places /\ turned <= Len(results')
  BY <1>1, <1>2, <1>4 DEF TypeOK
<1>7. Linked(results', way, turned) /\ \A i \in 1..turned : results'[i] = results[i]
  BY <1>1, <1>2
<1>8. TypeOK' /\ Order' /\ Underway' /\ HasTurned' /\ Linked(results, way, turned)' /\ StopsOnlyAtAnEnd'
  BY <1>1, <1>2, <1>5, <1>6, <1>7, EndPassKeeps
<1>9. Remembered' /\ RememberedLinks' /\ EachOnce'
  BY <1>1 DEF IInv, Remembered, RememberedLinks, EachOnce
<1> QED
  BY <1>1, <1>8, <1>9 DEF IInv, OnlyWhatIsLinked

-----------------------------------------------------------------------------
(* walk_iterable_links.                                                    *)

LEMMA TailEnterKeeps == ASSUME IInv, TailEnter PROVE IInv'
BY DEF IInv, TailEnter, TypeOK, Order, Remembered, RememberedLinks, Underway, HasTurned, MayEnd,
       Limit, OnlyWhatIsLinked, Linked, EachOnce, StopsOnlyAtAnEnd

LEMMA TailVisitKeeps == ASSUME IInv, TailVisit PROVE IInv'
<1>1. /\ kind = "tail" /\ kind \notin ListKinds /\ kind' = kind /\ image' = image
      /\ pc = "walking" /\ pc' = pc /\ way' = way /\ turned' = turned /\ at' = Link(at)
      /\ results' = Append(results, Link(at)) /\ seen' = seen \cup {at}
      /\ at \notin seen /\ Link(at) \notin {Null, Unreadable}
  BY DEF TailVisit, TailMayFollow, ListKinds
<1>2. TypeOK /\ Order /\ Linked(results, way, turned) /\ turned = 0
  BY <1>1 DEF IInv, OnlyWhatIsLinked, Order
<1>3. at = IF Len(results) = 0 THEN ListHead ELSE results[Len(results)]
  BY <1>1 DEF IInv, RememberedLinks
<1>4. at \in Places
  BY <1>2, <1>3 DEF TypeOK, Places
<1>5. Link(at) \in Places
  BY <1>1, <1>2, <1>4 DEF TypeOK, Link
<1>6. /\ results' \in Seq(Places) /\ Len(results') = Len(results) + 1 /\ Len(results) \in Nat
      /\ results'[Len(results')] = Link(at)
      /\ \A i \in 1..Len(results) : results'[i] = results[i]
  BY <1>1, <1>2, <1>5 DEF TypeOK
<1>7. TypeOK' /\ Order'
  BY <1>1, <1>2, <1>4, <1>5, <1>6 DEF TypeOK, Order
<1>8. RememberedLinks'
  <2>1. IsFiniteSet(seen') /\ Cardinality(seen') = Len(results')
    BY <1>1, <1>6, FS_AddElement DEF IInv, RememberedLinks
  <2>2. \A n \in seen' : \E i \in 1..Len(results') :
           n = IF i = 1 THEN ListHead ELSE results'[i - 1]
    <3>1. ASSUME NEW n \in seen
          PROVE  \E i \in 1..Len(results') : n = IF i = 1 THEN ListHead ELSE results'[i - 1]
      <4>1. PICK i \in 1..Len(results) : n = IF i = 1 THEN ListHead ELSE results[i - 1]
        BY <1>1 DEF IInv, RememberedLinks
      <4>2. i \in 1..Len(results') /\ (i # 1 => results'[i - 1] = results[i - 1])
        BY <1>6
      <4> QED BY <4>1, <4>2
    <3>2. at = IF Len(results') = 1 THEN ListHead ELSE results'[Len(results') - 1]
      BY <1>3, <1>6
    <3> QED BY <1>1, <1>6, <3>1, <3>2
  <2>3. \A i \in 1..(Len(results') - 1) : results'[i] \in seen'
    <3>1. ASSUME NEW i \in 1..Len(results) PROVE results[i] \in seen'
      <4>1. CASE i = Len(results)
        BY <1>1, <1>3, <4>1
      <4>2. CASE i # Len(results)
        BY <1>1, <1>6, <4>2 DEF IInv, RememberedLinks
      <4> QED BY <4>1, <4>2
    <3> QED BY <1>6, <3>1
  <2>4. at' = results'[Len(results')] /\ Len(results') # 0
    BY <1>1, <1>6
  <2> QED
    BY <2>1, <2>2, <2>3, <2>4 DEF RememberedLinks
<1>9. EachOnce'
  <2>1. ASSUME NEW i \in 1..Len(results), NEW j \in 1..Len(results), i < j
        PROVE  results[i] # results[j]
    <3>1. SUFFICES ASSUME results[i] = results[j] PROVE FALSE
      OBVIOUS
    <3>2. j = Len(results)
      BY <2>1, <3>1 DEF IInv, EachOnce
    <3>3. results[j] = at /\ i \in 1..(Len(results) - 1)
      BY <1>3, <1>6, <2>1, <3>2
    <3>4. results[i] \in seen
      BY <1>1, <3>3 DEF IInv, RememberedLinks
    <3> QED BY <1>1, <3>1, <3>3, <3>4
  <2> QED
    BY <1>1, <1>6, <2>1 DEF EachOnce
<1>10. Linked(results, way, turned)'
  <2>1. ASSUME NEW i \in 1..Len(results')
        PROVE  results'[i] = image.link[way][IF i = 1 THEN ListHead ELSE results'[i - 1]]
    <3>1. CASE i \in 1..Len(results)
      BY <1>2, <1>6, <3>1 DEF Linked
    <3>2. CASE i = Len(results) + 1
      BY <1>3, <1>6, <3>2 DEF Link
    <3> QED BY <1>6, <3>1, <3>2
  <2> QED
    BY <1>1, <1>2, <2>1 DEF Linked
<1>11. Remembered' /\ Underway' /\ HasTurned' /\ StopsOnlyAtAnEnd'
  BY <1>1 DEF Remembered, Underway, HasTurned, StopsOnlyAtAnEnd
<1> QED
  BY <1>1, <1>7, <1>8, <1>9, <1>10, <1>11 DEF IInv, OnlyWhatIsLinked

LEMMA TailStopKeeps == ASSUME IInv, TailStop PROVE IInv'
<1>1. /\ kind = "tail" /\ kind \notin ListKinds /\ kind' = kind /\ image' = image /\ EndPass
      /\ pc = "walking" /\ results' = results /\ seen' = seen /\ ~TailMayFollow
  BY DEF TailStop, ListKinds
<1>2. TypeOK /\ Order /\ HasTurned /\ Linked(results, way, turned) /\ turned = 0 /\ Len(results) \in Nat
  BY <1>1 DEF IInv, OnlyWhatIsLinked, Order, TypeOK
<1>3. /\ at = IF Len(results) = 0 THEN ListHead ELSE results[Len(results)]
      /\ Cardinality(seen) = Len(results)
      /\ \A n \in seen : \E i \in 1..Len(results) :
            n = IF i = 1 THEN ListHead ELSE results[i - 1]
  BY <1>1 DEF IInv, RememberedLinks
<1>4. Limit = TailLimit - 1 /\ TailLimit \in Nat
  BY <1>1, ConstantsAssumption DEF ConstantsAssumption, Limit
<1>5. Len(results) < Limit => MayEnd(results', way, turned, Len(results'))
  <2>1. SUFFICES ASSUME Len(results) < Limit PROVE MayEnd(results', way, turned, Len(results'))
    OBVIOUS
  <2>2. CASE Link(at) \in {Null, Unreadable}
    BY <1>1, <1>2, <1>3, <2>2 DEF MayEnd, Link
  <2>3. CASE at \in seen
    <3>1. PICK i \in 1..Len(results) : at = IF i = 1 THEN ListHead ELSE results[i - 1]
      BY <1>3, <2>3
    <3>2. results[i] = Link(at)
      BY <1>2, <3>1 DEF Linked, Link
    <3> QED BY <1>1, <1>2, <1>3, <3>2 DEF MayEnd, Link
  <2> QED
    BY <1>1, <1>2, <1>3, <1>4, <2>1, <2>2, <2>3 DEF TailMayFollow
<1>6. pc' = "done" /\ way' = way /\ at' = at /\ turned' = turned
  BY <1>1 DEF EndPass
<1>7. TypeOK' /\ Order' /\ Linked(results, way, turned)'
  BY <1>1, <1>2, <1>6 DEF TypeOK, Order, Linked
<1>8. StopsOnlyAtAnEnd'
  BY <1>1, <1>5, <1>6 DEF StopsOnlyAtAnEnd, MayEnd, Limit
<1>9. Remembered' /\ RememberedLinks' /\ EachOnce' /\ Underway' /\ HasTurned'
  BY <1>1, <1>6 DEF IInv, Remembered, RememberedLinks, EachOnce, Underway, HasTurned
<1> QED
  BY <1>1, <1>7, <1>8, <1>9 DEF IInv, OnlyWhatIsLinked

-----------------------------------------------------------------------------
(* The theorems.                                                           *)

\* Every step keeps the invariant.
LEMMA StepKeeps == IInv /\ [Next]_vars => IInv'
<1> SUFFICES ASSUME IInv, [Next]_vars PROVE IInv'
  OBVIOUS
<1>1. CASE UNCHANGED vars
  BY <1>1 DEF vars, IInv, TypeOK, Order, Remembered, RememberedLinks, Underway, HasTurned, MayEnd,
              Limit, OnlyWhatIsLinked, Linked, EachOnce, StopsOnlyAtAnEnd
<1> QED
  BY <1>1, ListEnterKeeps, ListVisitKeeps, ListStopKeeps, QueueEnterKeeps, QueueVisitKeeps,
     QueueStopKeeps, TailEnterKeeps, TailVisitKeeps, TailStopKeeps DEF Next

\* The strengthened invariant holds in every state a walk can reach.
THEOREM Invariance == Spec => []IInv
<1>1. Init => IInv
  BY InitIInv
<1>2. IInv /\ [Next]_vars => IInv'
  BY StepKeeps
<1> QED
  BY <1>1, <1>2, PTL DEF Spec

\* Every variable keeps its type, and what is looked at is a place or null.
THEOREM TypeCorrect == Spec => []TypeOK
<1>1. IInv => TypeOK
  BY DEF IInv
<1> QED
  BY <1>1, Invariance, PTL

\* A list or queue, however its links are overwritten, gives no node twice; a tail
\* queue can only repeat one at its end.
THEOREM NoneTwice == Spec => []EachOnce
<1>1. IInv => EachOnce
  BY DEF IInv
<1> QED
  BY <1>1, Invariance, PTL

\* What a walk gives, some link it followed holds.
THEOREM NothingMadeUp == Spec => []OnlyWhatIsLinked
<1>1. IInv => OnlyWhatIsLinked
  BY DEF IInv
<1> QED
  BY <1>1, Invariance, PTL

\* A walk that is over had come to an end of its list, each way it went, or to the
\* limit.
THEOREM NoEarlyStop == Spec => []StopsOnlyAtAnEnd
<1>1. IInv => StopsOnlyAtAnEnd
  BY DEF IInv
<1> QED
  BY <1>1, Invariance, PTL

-----------------------------------------------------------------------------
(* One broken node.                                                        *)

\* What else is true of a walk: only a head that cannot be read fails it, and a walk
\* both ways that is over short of its limit has been both ways.
Settled ==
    /\ image \in Images
    /\ kind # "tail" => \A i \in 1..Len(results) : results[i] \in Nodes
    /\ pc = "failed" => Link(ListHead) = Unreadable
    /\ pc = "done" /\ kind \in {"both", "queue"} /\ Len(results) < Limit => way = "prev"

\* Ending a pass settles it.
LEMMA EndPassSettles ==
    ASSUME TypeOK, Settled, EndPass, kind' = kind, image' = image, results' = results
    PROVE  Settled'
<1>1. Limit' = Limit
  BY DEF Limit
<1>2. pc' \in {"entering", "done"}
  BY DEF EndPass
<1>3. pc' = "done" /\ kind \in {"both", "queue"} => way' = "prev"
  BY DEF EndPass, TypeOK, Ways
<1> QED
  BY <1>1, <1>2, <1>3 DEF Settled

\* And so does taking a node and ending the pass, or going on.
LEMMA TakingSettles ==
    ASSUME TypeOK, Settled, NEW n \in Nodes, results' = Append(results, n),
           kind' = kind, image' = image,
           \/ EndPass
           \/ pc' = "walking"
           \/ pc' = "done" /\ Len(results') = Limit
    PROVE  Settled'
<1>1. Limit' = Limit
  BY DEF Limit
<1>2. kind # "tail" => \A i \in 1..Len(results') : results'[i] \in Nodes
  BY DEF TypeOK, Settled
<1>3. pc' # "failed"
  BY DEF EndPass
<1>4. pc' = "done" /\ kind \in {"both", "queue"} /\ Len(results') < Limit => way' = "prev"
  <2>1. Limit \in Int /\ Len(results') \in Int
    BY ConstantsAssumption DEF ConstantsAssumption, Limit, TypeOK
  <2> QED BY <2>1 DEF EndPass, TypeOK, Ways
<1> QED
  BY <1>1, <1>2, <1>3, <1>4 DEF Settled

\* Every step leaves the walk settled.
LEMMA NextSettled == TypeOK /\ Settled /\ [Next]_vars => Settled'
<1> SUFFICES ASSUME TypeOK, Settled, [Next]_vars PROVE Settled'
  OBVIOUS
<1>1. CASE ListEnter
  BY <1>1 DEF ListEnter, Settled, Link, Limit
<1>2. CASE ListVisit
  BY <1>2, TakingSettles DEF ListVisit, Advance
<1>3. CASE ListStop
  BY <1>3, EndPassSettles DEF ListStop
<1>4. CASE QueueEnter
  <2>1. CASE EndPass
    BY <1>4, <2>1, EndPassSettles DEF QueueEnter
  <2>2. CASE ~EndPass
    BY <1>4, <2>2 DEF QueueEnter, Settled, Limit
  <2> QED BY <2>1, <2>2
<1>5. CASE QueueVisit
  <2>1. Limit = QueueLimit
    BY <1>5 DEF QueueVisit, Limit
  <2> QED BY <1>5, <2>1, TakingSettles DEF QueueVisit, Advance
<1>6. CASE QueueStop
  BY <1>6, EndPassSettles DEF QueueStop
<1>7. CASE TailEnter
  BY <1>7 DEF TailEnter, Settled, Limit
<1>8. CASE TailVisit
  BY <1>8 DEF TailVisit, Settled, Limit
<1>9. CASE TailStop
  BY <1>9, EndPassSettles DEF TailStop
<1>10. CASE UNCHANGED vars
  BY <1>10 DEF vars, Settled, Limit, Link
<1> QED
  BY <1>1, <1>2, <1>3, <1>4, <1>5, <1>6, <1>7, <1>8, <1>9, <1>10 DEF Next

\* The node that comes nth on the way w round the list as the kernel had it.
Nth(w, n) == IF w = "next" THEN RingPlace(n) ELSE RingPlace(Len(image.ring) + 1 - n)

\* The kernel's links lead from each to the next.
LEMMA RingGoesOn ==
    ASSUME image \in Images, NEW w \in Ways
    PROVE  /\ RingLink(w, ListHead) = Nth(w, 1)
           /\ \A n \in 1..Len(image.ring) :
                /\ Nth(w, n) \in ToSet(image.ring) /\ Nth(w, n) # ListHead
                /\ RingLink(w, Nth(w, n)) = Nth(w, n + 1)
           /\ Nth(w, Len(image.ring) + 1) = ListHead
<1> DEFINE N == Len(image.ring)
           ring == image.ring
<1>1. /\ ring \in Seq(Nodes) /\ N \in Nat /\ DOMAIN ring = 1..N /\ ListHead \notin Nodes
      /\ \A i \in 1..N : ring[i] \in Nodes
      /\ \A i, j \in 1..N : ring[i] = ring[j] => i = j
  BY ConstantsAssumption DEF ConstantsAssumption, IsInjective
<1>2. ASSUME NEW i \in 1..N PROVE RingIndex(ring[i]) = i
  <2>1. ring[i] # ListHead
    BY <1>1
  <2>2. (CHOOSE j \in 1..N : ring[j] = ring[i]) = i
    BY <1>1
  <2> QED BY <2>1, <2>2 DEF RingIndex
<1>3. RingIndex(ListHead) = 0
  BY DEF RingIndex
<1>4. \A i \in 1..N : RingPlace(i) = ring[i] /\ ring[i] # ListHead /\ ring[i] \in ToSet(ring)
  BY <1>1 DEF RingPlace, ToSet
<1>5. RingPlace(0) = ListHead /\ RingPlace(N + 1) = ListHead
  BY <1>1 DEF RingPlace
<1> HIDE DEF N, ring
<1>6. CASE w = "next"
  <2>1. \A n : Nth(w, n) = RingPlace(n)
    BY <1>6 DEF Nth
  <2>2. RingLink(w, ListHead) = RingPlace(1)
    BY <1>3, <1>6 DEF RingLink
  <2>3. \A n \in 1..N : RingLink(w, ring[n]) = RingPlace(n + 1)
    BY <1>2, <1>6 DEF RingLink
  <2> QED BY <2>1, <2>2, <2>3, <1>4, <1>5 DEF N, ring
<1>7. CASE w # "next"
  <2>1. \A n : Nth(w, n) = RingPlace(N + 1 - n)
    BY <1>7 DEF Nth, N
  <2>2. RingLink(w, ListHead) = RingPlace(N)
    BY <1>7 DEF RingLink, N
  <2>3. \A n \in 1..N : RingLink(w, ring[n]) = RingPlace(n - 1)
    BY <1>2, <1>4, <1>7 DEF RingLink
  <2>4. ASSUME NEW n \in 1..N
        PROVE  /\ Nth(w, n) \in ToSet(ring) /\ Nth(w, n) # ListHead
               /\ RingLink(w, Nth(w, n)) = Nth(w, n + 1)
    <3> DEFINE m == N + 1 - n
    <3>0. N \in Nat
      BY <1>1 DEF N
    <3>1. m \in 1..N /\ m - 1 = N + 1 - (n + 1)
      BY <3>0
    <3>2. Nth(w, n) = RingPlace(m) /\ Nth(w, n + 1) = RingPlace(m - 1)
      BY <2>1, <3>1
    <3> HIDE DEF m
    <3>3. RingPlace(m) = ring[m] /\ RingLink(w, ring[m]) = RingPlace(m - 1)
      BY <3>1, <2>3, <1>4
    <3> QED BY <3>1, <3>2, <3>3, <1>4
  <2>5. N + 1 - 1 = N /\ N + 1 - (N + 1) = 0
    BY <1>1 DEF N
  <2> QED BY <2>1, <2>2, <2>4, <2>5, <1>5 DEF N, ring
<1> QED
  BY <1>6, <1>7

\* The links that go the way w are the kernel's or lead nowhere.
Intact(w) ==
    \A p \in ToSet(image.ring) \cup {ListHead} :
        image.link[w][p] \in {RingLink(w, p), Null, Unreadable}

\* The results after t, up to e, are what a pass the way w found; and are the nodes of
\* the list in their order.
Chained(r, w, t, e) ==
    \A i \in (t + 1)..e :
        /\ r[i] \in Nodes
        /\ r[i] = image.link[w][IF i = t + 1 THEN ListHead ELSE r[i - 1]]
InOrder(r, w, t, e) ==
    \A n \in 1..(e - t) : r[t + n] = Nth(w, n) /\ n <= Len(image.ring)

\* A pass over such links finds the list in its order.
LEMMA PassFollowsRing ==
    ASSUME image \in Images, NEW w \in Ways, NEW r, NEW t \in Nat, NEW e \in Nat,
           Intact(w), Chained(r, w, t, e)
    PROVE  InOrder(r, w, t, e)
<1> USE DEF Intact, Chained, InOrder
<1> DEFINE N == Len(image.ring)
           Less == {ss \in Nat \X Nat : ss[1] < ss[2]}
           Good(n) == r[t + n] = Nth(w, n) /\ n <= N
           bad == {n \in 1..(e - t) : ~Good(n)}
<1>0. N \in Nat
  BY ConstantsAssumption DEF ConstantsAssumption
<1>1. IsWellFoundedOn(Less, Nat)
  BY NatLessThanWellFounded DEF OpToRel
<1>2. SUFFICES ASSUME bad # {} PROVE FALSE
  OBVIOUS
<1>3. PICK n \in bad : \A m \in bad : ~ (<<m, n>> \in Less)
  <2>1. bad \in SUBSET Nat
    OBVIOUS
  <2> HIDE DEF Less, bad
  <2> QED BY <1>1, <1>2, <2>1, WFMin
<1>4. n \in 1..(e - t) /\ ~Good(n) /\ \A m \in 1..(e - t) : m < n => Good(m)
  <2> HIDE DEF Good
  <2>1. n \in 1..(e - t) /\ ~Good(n)
    OBVIOUS
  <2>2. ASSUME NEW m \in 1..(e - t), m < n PROVE Good(m)
    <3>1. m \in Nat /\ n \in Nat
      BY <2>1
    <3>2. <<m, n>> \in Less
      BY <2>2, <3>1
    <3> QED BY <1>3, <3>2
  <2> QED BY <2>1, <2>2
<1>5. /\ RingLink(w, ListHead) = Nth(w, 1)
      /\ \A m \in 1..N : /\ Nth(w, m) \in ToSet(image.ring) /\ Nth(w, m) # ListHead
                          /\ RingLink(w, Nth(w, m)) = Nth(w, m + 1)
      /\ Nth(w, N + 1) = ListHead
  BY RingGoesOn
<1>6. /\ t + n \in (t + 1)..e /\ r[t + n] \in Nodes
      /\ r[t + n] = image.link[w][IF n = 1 THEN ListHead ELSE r[t + n - 1]]
  <2>1. t + n \in (t + 1)..e /\ (t + n = t + 1 <=> n = 1)
    BY <1>4
  <2> QED BY <2>1
<1>7. Null \notin Nodes /\ Unreadable \notin Nodes /\ ListHead \notin Nodes
  BY ConstantsAssumption DEF ConstantsAssumption, Places
<1> HIDE DEF N, bad
<1>8. CASE n = 1
  <2>1. r[t + n] = Nth(w, 1)
    BY <1>5, <1>6, <1>7, <1>8
  <2>2. N # 0
    BY <1>5, <1>6, <1>7, <2>1
  <2> QED BY <1>0, <1>4, <1>8, <2>1, <2>2
<1>9. CASE n # 1
  <2> DEFINE m == n - 1
  <2>1. m \in 1..(e - t) /\ m < n /\ t + n - 1 = t + m /\ m + 1 = n
    BY <1>4, <1>9
  <2>2. Good(m)
    BY <1>4, <2>1
  <2>3. m \in 1..N
    BY <1>0, <2>1, <2>2
  <2> HIDE DEF m
  <2>4. r[t + n] = image.link[w][Nth(w, m)]
    BY <1>6, <1>9, <2>1, <2>2
  <2>5. r[t + n] = Nth(w, n)
    BY <1>5, <1>6, <1>7, <2>1, <2>3, <2>4
  <2>6. m # N
    BY <1>5, <1>6, <1>7, <2>1, <2>5
  <2> QED BY <1>0, <1>4, <2>1, <2>3, <2>5, <2>6
<1> QED BY <1>8, <1>9

\* A pass that ended short of the list's end ended at a broken node, or at what the
\* walk had.
LEMMA PassEndsAtBreak ==
    ASSUME image \in Images, NEW w \in Ways, NEW r, NEW t \in Nat, NEW e \in Nat, t <= e,
           e - t < Len(image.ring), Sound(ListHead), MayEnd(r, w, t, e),
           Intact(w), InOrder(r, w, t, e)
    PROVE  \/ t < e /\ ~Sound(Nth(w, e - t))
           \/ ~Sound(Nth(w, e - t + 1))
           \/ \E i \in 1..e : r[i] = Nth(w, e - t + 1)
<1> USE DEF Intact, InOrder
<1> DEFINE N == Len(image.ring)
           m == e - t
           last == IF e = t THEN ListHead ELSE Nth(w, m)
           next == Nth(w, m + 1)
<1>0. N \in Nat /\ m \in Nat /\ m < N /\ m + 1 \in 1..N /\ (e # t => m \in 1..N)
  BY ConstantsAssumption DEF ConstantsAssumption
<1>1. /\ RingLink(w, ListHead) = Nth(w, 1)
      /\ \A n \in 1..N : /\ Nth(w, n) \in ToSet(image.ring) /\ Nth(w, n) # ListHead
                          /\ RingLink(w, Nth(w, n)) = Nth(w, n + 1)
  BY RingGoesOn
<1>2. next \in ToSet(image.ring) /\ next # ListHead
  BY <1>0, <1>1
<1>3. next \notin {Null, Unreadable}
  BY <1>2, ConstantsAssumption DEF ConstantsAssumption, Places, ToSet
<1>4. RingLink(w, last) = next /\ last \in ToSet(image.ring) \cup {ListHead}
  <2>1. CASE e = t
    <3>1. m + 1 = 1
      BY <2>1
    <3> HIDE DEF m
    <3> QED BY <2>1, <3>1, <1>1
  <2>2. CASE e # t
    <3>1. m \in 1..N
      BY <1>0, <2>2
    <3> HIDE DEF m, N
    <3> QED BY <2>2, <3>1, <1>1
  <2> QED BY <2>1, <2>2
<1>5. last = IF e = t THEN ListHead ELSE r[e]
  <2>1. e # t => m \in 1..m /\ t + m = e
    BY <1>0
  <2> QED BY <2>1
<1> HIDE DEF m, N, last, next
<1>6. \/ image.link[w][last] \in {Null, Unreadable, ListHead}
      \/ kind \in ListKinds /\ image.link[w][last] \notin image.starts
      \/ \E i \in 1..e : r[i] = image.link[w][last]
  BY <1>5 DEF MayEnd
<1>7. CASE image.link[w][last] \in {Null, Unreadable}
  <2>1. ~Sound(last)
    BY <1>3, <1>4, <1>7 DEF Sound
  <2>2. e # t
    BY <2>1 DEF last
  <2> QED BY <2>1, <2>2 DEF last, m
<1>8. CASE image.link[w][last] = next
  <2>1. CASE next \notin image.starts
    BY <1>2, <2>1 DEF Sound, next, m
  <2>2. CASE next \in image.starts
    <3>1. \E i \in 1..e : r[i] = next
      BY <1>2, <1>3, <1>6, <1>8, <2>2
    <3> QED BY <3>1 DEF next, m
  <2> QED BY <2>1, <2>2
<1> QED BY <1>4, <1>7, <1>8

\* Two nodes of which both are broken are the same.
LEMMA OneIsBroken ==
    ASSUME NEW ring \in Seq(Nodes), NEW T, T \subseteq ToSet(ring), Cardinality(T) <= 1,
           NEW p \in T, NEW q \in T
    PROVE  p = q
<1>1. IsFiniteSet(ToSet(ring))
  <2>1. Len(ring) \in Nat /\ DOMAIN ring = 1..Len(ring)
    OBVIOUS
  <2>2. IsFiniteSet(1..Len(ring))
    BY <2>1, FS_Interval
  <2>3. ring \in Surjection(1..Len(ring), ToSet(ring))
    BY <2>1 DEF Surjection, ToSet
  <2> QED BY <2>2, <2>3, FS_Surjection
<1>2. IsFiniteSet(T)
  BY <1>1, FS_Subset
<1>3. SUFFICES ASSUME p # q PROVE FALSE
  OBVIOUS
<1> DEFINE one == {p}
           two == one \cup {q}
<1>4. Cardinality(two) = 2
  <2>1. IsFiniteSet(one) /\ Cardinality(one) = 1 /\ q \notin one
    BY <1>3, FS_Singleton
  <2> HIDE DEF one
  <2>2. Cardinality(two) = Cardinality(one) + 1
    BY <2>1, FS_AddElement
  <2> HIDE DEF two
  <2> QED BY <2>1, <2>2
<1>5. Cardinality(two) <= Cardinality(T)
  <2>1. two \in SUBSET T
    OBVIOUS
  <2> HIDE DEF two
  <2> QED BY <1>2, <2>1, FS_Subset
<1> HIDE DEF two
<1>6. Cardinality(T) \in Nat
  BY <1>2, FS_CardinalityType
<1> QED
  BY <1>4, <1>5, <1>6

\* A walk both ways that is over has all of the list but the broken node: the way there
\* ends at it or before it, and so does the way back.
LEMMA SettledFindsAll == ASSUME IInv, Settled PROVE OneBreakLosesNothing
<1> DEFINE ring == image.ring
           N == Len(ring)
           nodes == ToSet(ring)
           broken == {p \in nodes : ~Sound(p)}
           e == Len(results)
           t == turned
<1>1. SUFFICES ASSUME pc \in {"done", "failed"}, kind \in {"both", "queue"},
                      Sound(ListHead), N <= Limit, Cardinality(broken) <= 1,
                      \A p \in broken : BrokenOnly(p),
                      NEW q \in nodes, Sound(q)
               PROVE  q \in ToSet(results)
  BY DEF OneBreakLosesNothing
<1>2. image \in Images /\ ring \in Seq(Nodes) /\ N \in Nat /\ DOMAIN ring = 1..N
  BY ConstantsAssumption DEF ConstantsAssumption, Settled
<1>3. /\ results \in Seq(Places) /\ e \in Nat /\ DOMAIN results = 1..e
      /\ t \in Nat /\ t <= e /\ way \in Ways /\ Limit \in Int
      /\ Linked(results, way, t)
      /\ \A i \in 1..e : results[i] \in Nodes
  <2>1. results \in Seq(Places) /\ t \in 0..e /\ way \in Ways /\ Linked(results, way, t)
    BY DEF IInv, TypeOK, OnlyWhatIsLinked
  <2>2. \A i \in 1..e : results[i] \in Nodes
    BY <1>1 DEF Settled
  <2>3. Limit \in Int
    BY ConstantsAssumption DEF ConstantsAssumption, Limit
  <2> QED BY <2>1, <2>2, <2>3
<1>4. "next" \in Ways /\ "prev" \in Ways /\ Intact("next") /\ Intact("prev")
  BY <1>1 DEF Sound, BrokenOnly, Intact, Ways
<1>5. \A w \in Ways :
        /\ RingLink(w, ListHead) = Nth(w, 1) /\ Nth(w, N + 1) = ListHead
        /\ \A n \in 1..N : Nth(w, n) \in nodes /\ Nth(w, n) # ListHead
  BY <1>2, RingGoesOn
<1>6. \A k \in 1..N : Nth("next", k) = ring[k] /\ Nth("prev", N + 1 - k) = ring[k]
  <2>1. ASSUME NEW k \in 1..N
        PROVE  Nth("next", k) = ring[k] /\ Nth("prev", N + 1 - k) = ring[k]
    <3>1. N + 1 - (N + 1 - k) = k
      BY <1>2
    <3>2. RingPlace(k) = ring[k]
      BY <1>2 DEF RingPlace
    <3> QED BY <3>1, <3>2 DEF Nth
  <2> QED BY <2>1
<1>7. pc = "done"
  <2>1. image.link[way][ListHead] = Nth(way, 1)
    BY <1>1, <1>3, <1>5 DEF Sound
  <2>2. Nth(way, 1) \in nodes \cup {ListHead}
    <3>1. CASE N = 0
      <4>1. N + 1 = 1
        BY <3>1
      <4> HIDE DEF N
      <4> QED BY <4>1, <1>3, <1>5
    <3>2. CASE N # 0
      <4>1. 1 \in 1..N
        BY <3>2, <1>2
      <4> HIDE DEF N
      <4> QED BY <4>1, <1>3, <1>5
    <3> QED BY <3>1, <3>2
  <2>3. Nth(way, 1) # Unreadable
    BY <2>2, <1>2, ConstantsAssumption DEF ConstantsAssumption, Places, ToSet
  <2> QED BY <1>1, <2>1, <2>3 DEF Settled, Link
<1>8. PICK k \in 1..N : q = ring[k]
  BY <1>2 DEF ToSet
<1>9. SUFFICES ASSUME \A i \in 1..e : results[i] # ring[k] PROVE FALSE
  BY <1>3, <1>8 DEF ToSet
<1>10. CASE way # "prev"
  <2>1. way = "next" /\ t = 0 /\ e >= Limit
    BY <1>1, <1>3, <1>7, <1>10 DEF Ways, IInv, Order, Settled
  <2>2. Chained(results, "next", 0, e)
    BY <2>1, <1>3 DEF Linked, Chained
  <2>0. InOrder(results, "next", 0, e)
    <3>1. image \in Images /\ e \in Nat /\ 0 \in Nat
      BY <1>2, <1>3
    <3> HIDE DEF e
    <3> QED BY <2>2, <3>1, <1>4, PassFollowsRing
  <2>3. \A n \in 1..(e - 0) : results[0 + n] = Nth("next", n) /\ n <= N
    BY <2>0 DEF InOrder
  <2>4. k \in 1..e
    BY <1>1, <1>2, <1>3, <2>1
  <2>5. results[k] = Nth("next", k)
    BY <2>3, <2>4, <1>3
  <2> QED BY <2>4, <2>5, <1>6, <1>9
<1>11. CASE way = "prev"
  <2> DEFINE m == e - t
  <2>17. InOrder(results, "next", 0, t)
    <3>1. Chained(results, "next", 0, t)
      BY <1>3 DEF Linked, Chained
    <3>2. image \in Images /\ t \in Nat /\ 0 \in Nat
      BY <1>2, <1>3
    <3> HIDE DEF t
    <3> QED BY <3>1, <3>2, <1>4, PassFollowsRing
  <2>18. InOrder(results, "prev", t, e)
    <3>1. Chained(results, "prev", t, e)
      BY <1>3, <1>11 DEF Linked, Chained
    <3>2. image \in Images /\ t \in Nat /\ e \in Nat
      BY <1>2, <1>3
    <3> HIDE DEF t, e
    <3> QED BY <3>1, <3>2, <1>4, PassFollowsRing
  <2>1. \A n \in 1..t : results[n] = ring[n] /\ n <= N
    <3>2. \A n \in 1..(t - 0) : results[0 + n] = Nth("next", n) /\ n <= N
      BY <2>17 DEF InOrder
    <3> QED BY <3>2, <1>2, <1>3, <1>6
  <2>2. \A n \in 1..m : results[t + n] = Nth("prev", n) /\ n <= N
    BY <2>18 DEF InOrder
  <2> HIDE DEF e, t, N
  <2>3. m \in Nat /\ t + m = e
    BY <1>3
  <2> HIDE DEF m
  <2>4. ~(k <= t)
    BY <2>1, <1>2, <1>3, <1>9
  <2>5. ~(N + 1 - k <= m)
    <3> DEFINE n == N + 1 - k
    <3>1. SUFFICES ASSUME n <= m PROVE FALSE
      OBVIOUS
    <3>2. n \in 1..m /\ t + n \in 1..e
      BY <3>1, <2>3, <1>2, <1>3
    <3>3. Nth("prev", n) = ring[k]
      BY <1>6
    <3> HIDE DEF n
    <3> QED BY <3>2, <3>3, <2>2, <1>9
  <2>6. t < N /\ m < N /\ e < N /\ e < Limit
    BY <2>3, <2>4, <2>5, <1>1, <1>2, <1>3 DEF N
  <2>7. MayEnd(results, "prev", t, e) /\ MayEnd(results, "next", 0, t)
    BY <2>6, <1>1, <1>7, <1>11 DEF IInv, StopsOnlyAtAnEnd, e, t
  <2>8. \A i, j \in 1..N : ring[i] = ring[j] => i = j
    BY <1>2, ConstantsAssumption DEF ConstantsAssumption, IsInjective
  <2>9. (t > 0 /\ ~Sound(ring[t])) \/ ~Sound(ring[t + 1])
    <3>1. \/ 0 < t /\ ~Sound(Nth("next", t - 0))
          \/ ~Sound(Nth("next", t - 0 + 1))
          \/ \E i \in 1..t : results[i] = Nth("next", t - 0 + 1)
      <4>2. t - 0 < Len(image.ring) /\ 0 <= t /\ 0 \in Nat
        BY <2>6, <1>3 DEF N
      <4>3. image \in Images /\ t \in Nat
        BY <1>2, <1>3
      <4> QED BY <4>2, <4>3, <2>7, <2>17, <1>1, <1>4, PassEndsAtBreak
    <3>2. t - 0 = t /\ t + 1 \in 1..N /\ (0 < t => t \in 1..N)
      BY <2>6, <1>2, <1>3
    <3>3. \A i \in 1..t : results[i] # ring[t + 1]
      BY <2>1, <2>8, <3>2, <1>2, <1>3
    <3> QED BY <3>1, <3>2, <3>3, <1>3, <1>6
  <2>10. (m > 0 /\ ~Sound(ring[N + 1 - m])) \/ ~Sound(ring[N - m])
    <3>1. \/ t < e /\ ~Sound(Nth("prev", e - t))
          \/ ~Sound(Nth("prev", e - t + 1))
          \/ \E i \in 1..e : results[i] = Nth("prev", e - t + 1)
      <4>1. e - t = m /\ m < Len(image.ring)
        BY <2>3, <2>6, <1>3 DEF N
      <4>2. e - t < Len(image.ring)
        BY <4>1
      <4>3. image \in Images /\ t \in Nat /\ e \in Nat /\ t <= e
        BY <1>2, <1>3
      <4>4. Sound(ListHead) /\ MayEnd(results, "prev", t, e) /\ Intact("prev") /\ "prev" \in Ways
        BY <2>7, <1>1, <1>4
      <4> QED BY <4>2, <4>3, <4>4, <2>18, PassEndsAtBreak
    <3>2. e - t = m /\ N - m \in 1..N /\ (m > 0 => N + 1 - m \in 1..N) /\ (t < e <=> m > 0)
      BY <2>3, <2>6, <1>2, <1>3
    <3>3. Nth("prev", m + 1) = ring[N - m] /\ (m > 0 => Nth("prev", m) = ring[N + 1 - m])
      <4>1. N + 1 - (N - m) = m + 1 /\ N + 1 - (N + 1 - m) = m
        BY <2>3, <1>2
      <4>2. \A j \in 1..N : Nth("prev", N + 1 - j) = ring[j]
        BY <1>6
      <4>3. Nth("prev", N + 1 - (N - m)) = ring[N - m]
        BY <4>2, <3>2
      <4>4. m > 0 => Nth("prev", N + 1 - (N + 1 - m)) = ring[N + 1 - m]
        BY <4>2, <3>2
      <4> QED BY <4>1, <4>3, <4>4
    <3>4. ASSUME NEW i \in 1..e PROVE results[i] # ring[N - m]
      <4>1. CASE i <= t
        <5>1. i \in 1..t /\ i # N - m
          BY <4>1, <2>3, <2>4, <2>5, <1>2, <1>3
        <5>2. results[i] = ring[i] /\ i \in 1..N
          BY <5>1, <2>1, <1>2, <1>3
        <5> QED BY <5>1, <5>2, <2>8, <3>2
      <4>2. CASE i > t
        <5> DEFINE n == i - t
        <5>1. n \in 1..m /\ t + n = i /\ n \in Nat
          BY <4>2, <2>3, <1>3
        <5> HIDE DEF n
        <5>2. results[i] = Nth("prev", n) /\ n <= N
          BY <2>2, <5>1
        <5>3. N + 1 - n \in 1..N /\ N + 1 - (N + 1 - n) = n /\ N + 1 - n # N - m
          BY <5>1, <5>2, <2>3, <1>2
        <5>4. Nth("prev", N + 1 - (N + 1 - n)) = ring[N + 1 - n]
          BY <5>3, <1>6
        <5>5. results[i] = ring[N + 1 - n]
          BY <5>2, <5>3, <5>4
        <5> QED BY <5>3, <5>5, <2>8, <3>2
      <4> QED BY <4>1, <4>2, <1>3
    <3> QED BY <3>1, <3>2, <3>3, <3>4
  <2>11. \A i, j \in 1..N : ~Sound(ring[i]) /\ ~Sound(ring[j]) => i = j
    <3>1. SUFFICES ASSUME NEW i \in 1..N, NEW j \in 1..N, ~Sound(ring[i]), ~Sound(ring[j])
                   PROVE  ring[i] = ring[j]
      BY <2>8
    <3>2. ring[i] \in broken /\ ring[j] \in broken /\ broken \subseteq ToSet(ring)
      BY <3>1, <1>2 DEF ToSet
    <3> HIDE DEF broken, ring
    <3> QED BY <3>2, <1>1, <1>2, OneIsBroken
  <2>12. Sound(ring[k])
    BY <1>1, <1>8
  <2>13. /\ t + 1 \in 1..N /\ N - m \in 1..N /\ (t > 0 => t \in 1..N)
         /\ (m > 0 => N + 1 - m \in 1..N)
    BY <2>3, <2>6, <1>2, <1>3
  <2> HIDE DEF ring
  <2>14. PICK a \in 1..N : ~Sound(ring[a]) /\ a \in {t, t + 1}
    BY <2>9, <2>13
  <2>15. PICK b \in 1..N : ~Sound(ring[b]) /\ b \in {N + 1 - m, N - m}
    BY <2>10, <2>13
  <2>16. a = b /\ a # k
    BY <2>11, <2>12, <2>14, <2>15
  <2> QED BY <2>3, <2>4, <2>5, <2>14, <2>15, <2>16, <1>2, <1>3
<1> QED BY <1>10, <1>11

\* A walk that is over is settled.
LEMMA AlwaysSettled == Spec => []Settled
<1>1. Init => Settled
  BY DEF Init, Settled
<1>2. IInv /\ Settled /\ [Next]_vars => Settled'
  BY NextSettled DEF IInv
<1> QED
  BY <1>1, <1>2, Invariance, PTL DEF Spec

\* utility.rs:116: of a list whose head is sound and of which one node is broken, a walk
\* both ways finds every other node; and of a queue.
THEOREM OtherSideIsReached == Spec => []OneBreakLosesNothing
BY AlwaysSettled, Invariance, SettledFindsAll, PTL
=============================================================================
