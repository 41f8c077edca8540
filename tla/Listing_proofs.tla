---------------------------- MODULE Listing_proofs ----------------------------
(***************************************************************************)
(* Proofs that a listing keeps what it has found, and that damage to one   *)
(* thing loses nothing of another.  They hold for any plugins whatever,    *)
(* lists of any length and any damage.  The first rests on this: the steps *)
(* that can fail as a whole are before a point (Cut) behind which every    *)
(* row is and from behind which no loop leads back.  The second on this:   *)
(* bodies are entered at their first step and left at their last or by a   *)
(* jump (Nested), and a jump misses only steps whose rows are of the item  *)
(* that was read, or of those behind it if a link was read (Local).  That  *)
(* the plugins of the source are made so is the assumption, which the      *)
(* runs evaluate.                                                          *)
(***************************************************************************)
EXTENDS Listing, SequenceTheorems, WellFoundedInduction, TLAPS

\* A listing that has a row is behind every point that cuts its steps, and one that
\* ended in an error stands at the step that failed.
Behindhand ==
    /\ plugin \in DOMAIN Plugins
    /\ pc \in Nat \ {0}
    /\ \A k \in Nat : Cut(Steps, k) /\ rows # {} => pc > k
    /\ outcome = "error" => pc <= Len(Steps) /\ Steps[pc].op = "must"

\* Wherever a listing goes on, it goes forward, or back to an item behind the same point.
Onward(i) ==
    /\ i \in Nat \ {0}
    /\ \A k \in Nat : Cut(Steps, k) /\ pc > k => i > k

---------------------------------------------------------------------------
(* Where the steps lead.                                                   *)

\* The step that runs is one of the plugin's.
LEMMA StepInRange ==
    ASSUME Behindhand, pc <= Len(Steps)
    PROVE  /\ pc \in 1..Len(Steps)
           /\ Steps[pc].skip \in Nat
BY ListingAssumption DEF Behindhand, Steps

\* A step around another ends no earlier than the other.
LEMMA InsideEndsBehind ==
    ASSUME NEW s, NEW ops, NEW i \in 1..Len(s), NEW j \in Inside(s, ops, i), s[j].skip \in Nat
    PROVE  /\ j \in 1..Len(s)
           /\ j + s[j].skip >= i
BY DEF Inside

\* The next step, and the one behind a body, are onward.
LEMMA ForwardIsOnward ==
    ASSUME NEW i \in Nat, i >= pc, pc \in Nat \ {0}
    PROVE  Onward(i)
BY DEF Onward

\* The loop of a continue or of a break ends no earlier than the step in it.
LEMMA LoopEndsBehind ==
    ASSUME Behindhand, pc <= Len(Steps), Steps[pc].op \in {"need", "leave", "link", "pick"},
           NEW loop, loop = LoopOf(plugin, pc)
    PROVE  /\ loop + Steps[loop].skip \in Nat
           /\ loop + Steps[loop].skip >= pc
<1>1. pc \in 1..Len(Steps) /\ plugin \in DOMAIN Plugins
  BY StepInRange DEF Behindhand
<1>2. loop \in Inside(Steps, {"each"}, pc)
  BY <1>1, ListingAssumption DEF Steps
<1>3. loop \in 1..(pc - 1)
  BY <1>2 DEF Inside
<1>4. Steps[loop].skip \in Nat /\ Len(Steps) \in Nat
  BY <1>1, <1>3, ListingAssumption DEF Steps
<1>5. loop + Steps[loop].skip >= pc
  BY <1>1, <1>2, <1>4, InsideEndsBehind
<1> QED
  BY <1>3, <1>4, <1>5

\* So does the function that gives up.
LEMMA TryEndsBehind ==
    ASSUME Behindhand, pc <= Len(Steps), Steps[pc].op = "give",
           NEW try, try = TryOf(plugin, pc)
    PROVE  /\ try + Steps[try].skip + 1 \in Nat
           /\ try + Steps[try].skip + 1 >= pc
<1>1. pc \in 1..Len(Steps) /\ plugin \in DOMAIN Plugins
  BY StepInRange DEF Behindhand
<1>2. try \in Inside(Steps, {"try"}, pc)
  BY <1>1, ListingAssumption DEF Steps
<1>3. try \in 1..(pc - 1)
  BY <1>2 DEF Inside
<1>4. Steps[try].skip \in Nat /\ Len(Steps) \in Nat
  BY <1>1, <1>3, ListingAssumption DEF Steps
<1>5. try + Steps[try].skip >= pc
  BY <1>1, <1>2, <1>4, InsideEndsBehind
<1> QED
  BY <1>1, <1>3, <1>4, <1>5

\* A loop that begins behind a point takes its next item behind it.
LEMMA NextIsOnward ==
    ASSUME Behindhand, pc <= Len(Steps), Steps[pc].op = "next"
    PROVE  Onward(pc - Steps[pc].skip)
<1>1. pc \in 1..Len(Steps) /\ Steps[pc].skip \in Nat
  BY StepInRange
<1>2. Steps[pc].skip < pc
  BY <1>1, ListingAssumption DEF Behindhand, Steps
<1> QED
  BY <1>1, <1>2 DEF Onward, Cut

---------------------------------------------------------------------------
(* The invariant.                                                          *)

\* A step that goes onward and pushes nothing keeps it.
LEMMA OnwardKeeps ==
    ASSUME Behindhand, outcome = "running", UNCHANGED <<plugin, outcome, rows>>, Onward(pc')
    PROVE  Behindhand'
BY DEF Behindhand, Onward, Steps

\* So does one that ends the listing where it stands.
LEMMA EndingKeeps ==
    ASSUME Behindhand, UNCHANGED <<plugin, pc, rows>>,
           outcome' = "error" => pc <= Len(Steps) /\ Steps[pc].op = "must"
    PROVE  Behindhand'
BY DEF Behindhand, Steps

\* The actions, one by one.
LEMMA ReadKeeps ==
    ASSUME Behindhand, Read
    PROVE  Behindhand'
<1>1. outcome = "running" /\ pc <= Len(Steps) /\ UNCHANGED <<plugin, rows>> /\ pc \in Nat \ {0}
  BY DEF Read, Doing, Behindhand
<1>2. CASE GoTo(pc + 1)
  BY <1>1, <1>2, ForwardIsOnward, OnwardKeeps DEF GoTo
<1>3. CASE Damaged /\ Steps[pc].op = "must" /\ EndWith("error")
  BY <1>1, <1>3, EndingKeeps DEF EndWith
<1>4. CASE EndWith("told") \/ EndWith("whole")
  BY <1>1, <1>4, EndingKeeps DEF EndWith
<1>5. CASE Steps[pc].op = "need" /\ Continue
  <2>1. PICK loop : loop = LoopOf(plugin, pc) /\ GoTo(loop + Steps[loop].skip)
    BY <1>5 DEF Continue
  <2>2. loop + Steps[loop].skip \in Nat /\ loop + Steps[loop].skip >= pc
    BY <1>1, <1>5, <2>1, LoopEndsBehind
  <2> QED
    BY <1>1, <2>1, <2>2, ForwardIsOnward, OnwardKeeps DEF GoTo
<1>6. CASE Steps[pc].op \in {"leave", "link"} /\ Break
  <2>1. PICK loop : loop = LoopOf(plugin, pc) /\ GoTo(loop + Steps[loop].skip + 1)
    BY <1>6 DEF Break
  <2>2. loop + Steps[loop].skip \in Nat /\ loop + Steps[loop].skip >= pc
    BY <1>1, <1>6, <2>1, LoopEndsBehind
  <2> QED
    BY <1>1, <2>1, <2>2, ForwardIsOnward, OnwardKeeps DEF GoTo
<1>7. CASE Steps[pc].op = "give" /\ GiveUp
  <2>1. PICK try : try = TryOf(plugin, pc) /\ GoTo(try + Steps[try].skip + 1)
    BY <1>7 DEF GiveUp
  <2>2. try + Steps[try].skip + 1 \in Nat /\ try + Steps[try].skip + 1 >= pc
    BY <1>1, <1>7, <2>1, TryEndsBehind
  <2> QED
    BY <1>1, <2>1, <2>2, ForwardIsOnward, OnwardKeeps DEF GoTo
<1> QED
  BY <1>2, <1>3, <1>4, <1>5, <1>6, <1>7 DEF Read

LEMMA TestKeeps ==
    ASSUME Behindhand, Test
    PROVE  Behindhand'
<1>1. /\ outcome = "running" /\ pc <= Len(Steps) /\ UNCHANGED <<plugin, rows>>
      /\ pc \in Nat \ {0} /\ Steps[pc].op = "pick"
  BY DEF Test, Doing, Behindhand
<1>2. CASE GoTo(pc + 1)
  BY <1>1, <1>2, ForwardIsOnward, OnwardKeeps DEF GoTo
<1>3. CASE Continue
  <2>1. PICK loop : loop = LoopOf(plugin, pc) /\ GoTo(loop + Steps[loop].skip)
    BY <1>3 DEF Continue
  <2>2. loop + Steps[loop].skip \in Nat /\ loop + Steps[loop].skip >= pc
    BY <1>1, <2>1, LoopEndsBehind
  <2> QED
    BY <1>1, <2>1, <2>2, ForwardIsOnward, OnwardKeeps DEF GoTo
<1> QED
  BY <1>2, <1>3 DEF Test

LEMMA LoopsKeep ==
    ASSUME Behindhand, Enter \/ NextItem \/ Choose
    PROVE  Behindhand'
<1>1. /\ outcome = "running" /\ pc <= Len(Steps) /\ UNCHANGED <<plugin, rows>>
      /\ pc \in Nat \ {0}
  BY DEF Enter, NextItem, Choose, Doing, Behindhand
<1>2. Steps[pc].skip \in Nat
  BY <1>1, StepInRange
<1>3. CASE GoTo(pc + 1) \/ GoTo(pc + Steps[pc].skip + 1)
  BY <1>1, <1>2, <1>3, ForwardIsOnward, OnwardKeeps DEF GoTo
<1>4. CASE Steps[pc].op = "next" /\ GoTo(pc - Steps[pc].skip)
  BY <1>1, <1>4, NextIsOnward, OnwardKeeps DEF GoTo
<1> QED
  BY <1>3, <1>4 DEF Enter, NextItem, Choose, Doing

\* A row is pushed behind every point that cuts the steps.
LEMMA PushKeeps ==
    ASSUME Behindhand, Push
    PROVE  Behindhand'
<1>1. pc \in 1..Len(Steps) /\ Steps[pc].op \in {"row", "file"}
  BY StepInRange DEF Push, Doing
<1>2. \A k \in Nat : Cut(Steps, k) => pc > k
  BY <1>1 DEF Cut
<1> QED
  BY <1>1, <1>2 DEF Behindhand, Push, Doing, GoTo, Steps

LEMMA FinishKeeps ==
    ASSUME Behindhand, Finish
    PROVE  Behindhand'
BY EndingKeeps DEF Finish

\* Every listing is behind what cuts it once it has a row, whatever is damaged.
THEOREM Invariance == Spec => []Behindhand
<1>1. Init => Behindhand
  BY DEF Init, Behindhand
<1>2. Behindhand /\ [Next]_vars => Behindhand'
  <2> SUFFICES ASSUME Behindhand, [Next]_vars PROVE Behindhand'
    OBVIOUS
  <2>1. CASE Read
    BY <2>1, ReadKeeps
  <2>2. CASE Test
    BY <2>2, TestKeeps
  <2>3. CASE Enter \/ NextItem \/ Choose
    BY <2>3, LoopsKeep
  <2>4. CASE Push
    BY <2>4, PushKeeps
  <2>5. CASE Finish
    BY <2>5, FinishKeeps
  <2>6. CASE UNCHANGED vars
    BY <2>6 DEF Behindhand, vars, Steps
  <2> QED
    BY <2>1, <2>2, <2>3, <2>4, <2>5, <2>6 DEF Next
<1> QED
  BY <1>1, <1>2, PTL DEF Spec

\* No listing but those that are known to drops what it has found: an error comes while
\* there is nothing to drop (Plugin::run, plugins/mod.rs).
THEOREM RowsStay == Spec => []RowsAreKept
<1>1. Behindhand => RowsAreKept
  <2> SUFFICES ASSUME Behindhand, outcome = "error", plugin \notin Dropping, rows # {}
               PROVE  FALSE
    BY DEF RowsAreKept
  <2>1. plugin \in DOMAIN Plugins \ Dropping /\ pc \in 1..Len(Steps) /\ Steps[pc].op = "must"
    BY StepInRange DEF Behindhand
  <2>2. PICK k \in 0..Len(Steps) : Cut(Steps, k)
    BY <2>1, ListingAssumption DEF Steps
  <2>3. k \in Nat /\ pc > k
    BY <2>1, <2>2 DEF Behindhand
  <2>4. pc <= k
    BY <2>1, <2>2 DEF Cut
  <2> QED
    BY <2>1, <2>3, <2>4
<1> QED
  BY <1>1, Invariance, PTL

---------------------------------------------------------------------------
(* What a listing has passed.                                              *)

\* Two sequences begin with the same n things.
Agree(q, r, n) == n <= Len(q) /\ n <= Len(r) /\ \A m \in 1..n : q[m] = r[m]

\* At step i, in the loops A and at the items it of them, a step j in the loops B is past
\* for the items at: in an earlier turn of a loop that both are in, or in this one.
Passed(A, i, it, B, j, at) ==
    \/ \E k \in 1..Len(it) : Agree(B, A, k) /\ Agree(at, it, k - 1) /\ at[k] < it[k]
    \/ j < i /\ \A k \in 1..Len(it) : Agree(B, A, k) => at[k] = it[k]

\* The step itself is what the next step of a body has passed besides.
LEMMA PassStep ==
    ASSUME NEW A, NEW B, NEW it, NEW at, NEW i \in Nat, NEW j \in Nat,
           Passed(A, i + 1, it, B, j, at)
    PROVE  \/ Passed(A, i, it, B, j, at)
           \/ j = i /\ \A k \in 1..Len(it) : Agree(B, A, k) => at[k] = it[k]
BY DEF Passed

\* A sequence keeps what it agrees on when something is put behind it.
LEMMA AgreeAppend ==
    ASSUME NEW q \in Seq(Nat), NEW r \in Seq(Nat), NEW x \in Nat, NEW n \in Nat
    PROVE  /\ n <= Len(r) => (Agree(q, Append(r, x), n) <=> Agree(q, r, n))
           /\ Agree(q, Append(r, x), Len(r) + 1) => q[Len(r) + 1] = x
<1>1. Len(Append(r, x)) = Len(r) + 1 /\ Len(r) \in Nat /\ Len(q) \in Nat
  BY AppendProperties, LenProperties
<1>2. \A m \in 1..Len(r) : Append(r, x)[m] = r[m]
  BY AppendProperties
<1>3. Append(r, x)[Len(r) + 1] = x
  BY AppendProperties
<1>4. ASSUME n <= Len(r) PROVE Agree(q, Append(r, x), n) <=> Agree(q, r, n)
  <2>1. \A m \in 1..n : m \in 1..Len(r)
    BY <1>1, <1>4
  <2>2. \A m \in 1..n : Append(r, x)[m] = r[m]
    BY <1>2, <2>1
  <2>3. n <= Len(Append(r, x))
    BY <1>1, <1>4
  <2> QED BY <1>4, <2>2, <2>3 DEF Agree
<1>5. ASSUME Agree(q, Append(r, x), Len(r) + 1) PROVE q[Len(r) + 1] = x
  <2>1. Len(r) + 1 \in 1..(Len(r) + 1)
    BY <1>1
  <2> QED BY <1>3, <1>5, <2>1 DEF Agree
<1> QED
  BY <1>4, <1>5

\* At the first item of a loop nothing of the loop is past.
LEMMA PassEnter ==
    ASSUME NEW A \in Seq(Nat), NEW B \in Seq(Nat), NEW it \in Seq(Nat), NEW at \in Seq(Nat \ {0}),
           Len(it) = Len(A), Len(at) = Len(B), NEW i \in Nat, NEW j \in Nat, i # j,
           Passed(Append(A, i), i + 1, Append(it, 1), B, j, at)
    PROVE  Passed(A, i, it, B, j, at)
<1> DEFINE n == Len(A)
<1>1. n \in Nat /\ at \in Seq(Nat) /\ Len(B) \in Nat
  BY LenProperties, SeqMonotonic
<1>2. Len(Append(it, 1)) = n + 1 /\ Append(it, 1)[n + 1] = 1 /\ \A m \in 1..n : Append(it, 1)[m] = it[m]
  BY AppendProperties
<1>3. \A k \in 1..n : /\ Agree(B, Append(A, i), k) <=> Agree(B, A, k)
                      /\ Agree(at, Append(it, 1), k - 1) <=> Agree(at, it, k - 1)
  <2> SUFFICES ASSUME NEW k \in 1..n
               PROVE  /\ Agree(B, Append(A, i), k) <=> Agree(B, A, k)
                      /\ Agree(at, Append(it, 1), k - 1) <=> Agree(at, it, k - 1)
    OBVIOUS
  <2>1. k \in Nat /\ k - 1 \in Nat /\ k <= Len(A) /\ k - 1 <= Len(it)
    BY <1>1
  <2>2. Agree(B, Append(A, i), k) <=> Agree(B, A, k)
    BY <2>1, AgreeAppend
  <2>3. Agree(at, Append(it, 1), k - 1) <=> Agree(at, it, k - 1)
    BY <1>1, <2>1, AgreeAppend
  <2> QED BY <2>2, <2>3
<1>4. CASE \E k \in 1..(n + 1) :
             Agree(B, Append(A, i), k) /\ Agree(at, Append(it, 1), k - 1) /\ at[k] < Append(it, 1)[k]
  <2>1. PICK k \in 1..(n + 1) :
             Agree(B, Append(A, i), k) /\ Agree(at, Append(it, 1), k - 1) /\ at[k] < Append(it, 1)[k]
    BY <1>4
  <2>2. k \in 1..Len(at)
    BY <1>1, <2>1 DEF Agree
  <2>3. at[k] \in Nat \ {0}
    BY <2>2, ElementOfSeq
  <2>4. k # n + 1
    <3> SUFFICES ASSUME k = n + 1 PROVE FALSE
      OBVIOUS
    <3>1. at[k] < 1
      BY <1>2, <2>1
    <3> HIDE DEF n
    <3> QED BY <2>3, <3>1
  <2>5. k \in 1..n
    <3> HIDE DEF n
    <3> QED BY <1>1, <2>1, <2>4
  <2> QED BY <1>2, <1>3, <2>1, <2>5 DEF Passed
<1>5. CASE j < i + 1 /\ \A k \in 1..(n + 1) : Agree(B, Append(A, i), k) => at[k] = Append(it, 1)[k]
  <2>1. \A k \in 1..n : k \in 1..(n + 1)
    BY <1>1
  <2>2. \A k \in 1..n : Agree(B, A, k) => at[k] = it[k]
    BY <1>2, <1>3, <1>5, <2>1
  <2>3. j < i
    BY <1>5
  <2> QED BY <2>2, <2>3 DEF Passed
<1> QED
  BY <1>2, <1>4, <1>5 DEF Passed

\* Step i ends the body of loop l, at the item x of it: all of the loop at this item is
\* past, when the next is taken or the loop is left behind its last.
LEMMA PassNext ==
    ASSUME NEW A \in Seq(Nat), NEW B \in Seq(Nat), NEW it \in Seq(Nat), NEW at \in Seq(Nat),
           Len(it) = Len(A), Len(at) = Len(B), NEW i \in Nat, NEW j \in Nat, i # j,
           NEW l \in Nat, l < i, NEW x \in Nat,
           Agree(B, Append(A, l), Len(A) + 1) => l < j /\ j <= i,
           \/ Passed(Append(A, l), l + 1, Append(it, x + 1), B, j, at)
           \/ /\ Passed(A, i + 1, it, B, j, at)
              /\ \A k \in 1..Len(at) : at[k] <= x
    PROVE  Passed(Append(A, l), i, Append(it, x), B, j, at)
<1> DEFINE n == Len(A)
           S == Append(A, l)
<1>1. n \in Nat /\ Len(B) \in Nat
  BY LenProperties
<1>2. \A y \in Nat : Len(Append(it, y)) = n + 1 /\ Append(it, y)[n + 1] = y
                       /\ \A m \in 1..n : Append(it, y)[m] = it[m]
  BY AppendProperties
<1>3. \A k \in 1..n : /\ Agree(B, S, k) <=> Agree(B, A, k)
                      /\ \A y \in Nat : Agree(at, Append(it, y), k - 1) <=> Agree(at, it, k - 1)
  <2> SUFFICES ASSUME NEW k \in 1..n, NEW y \in Nat
               PROVE  /\ Agree(B, S, k) <=> Agree(B, A, k)
                      /\ Agree(at, Append(it, y), k - 1) <=> Agree(at, it, k - 1)
    OBVIOUS
  <2>1. k \in Nat /\ k - 1 \in Nat /\ k <= Len(A) /\ k - 1 <= Len(it)
    BY <1>1
  <2>2. Agree(B, S, k) <=> Agree(B, A, k)
    BY <2>1, AgreeAppend
  <2>3. Agree(at, Append(it, y), k - 1) <=> Agree(at, it, k - 1)
    BY <2>1, AgreeAppend
  <2> QED BY <2>2, <2>3
<1>4. \A y \in Nat : Agree(at, Append(it, y), n) <=> Agree(at, it, n)
  BY <1>1, AgreeAppend
<1>5. x + 1 \in Nat
  OBVIOUS
<1> SUFFICES Passed(S, i, Append(it, x), B, j, at)
  OBVIOUS
<1> HIDE DEF S
\* An earlier turn of a loop around this one.
<1>6. ASSUME NEW k \in 1..n, Agree(B, A, k), Agree(at, it, k - 1), at[k] < it[k]
      PROVE  Passed(S, i, Append(it, x), B, j, at)
  <2>1. k \in 1..(n + 1)
    BY <1>1
  <2>2. Agree(B, S, k) /\ Agree(at, Append(it, x), k - 1) /\ at[k] < Append(it, x)[k]
    BY <1>2, <1>3, <1>6
  <2> QED BY <1>2, <2>1, <2>2 DEF Passed
\* This turn of the loops around it: in the loop, or before it.
<1>7. ASSUME \A k \in 1..n : Agree(B, A, k) => at[k] = it[k],
             Agree(B, S, n + 1) => at[n + 1] <= x,
             ~ Agree(B, S, n + 1) => j < i
      PROVE  Passed(S, i, Append(it, x), B, j, at)
  <2>1. CASE ~ Agree(B, S, n + 1)
    <3>1. \A k \in 1..(n + 1) : Agree(B, S, k) => at[k] = Append(it, x)[k]
      <4> SUFFICES ASSUME NEW k \in 1..(n + 1), Agree(B, S, k) PROVE at[k] = Append(it, x)[k]
        OBVIOUS
      <4>1. k \in 1..n
        <5>1. k # n + 1
          BY <2>1
        <5> HIDE DEF n
        <5> QED BY <1>1, <5>1
      <4> QED BY <1>2, <1>3, <1>7, <4>1
    <3> QED BY <1>2, <1>7, <2>1, <3>1 DEF Passed
  <2>2. CASE Agree(B, S, n + 1)
    <3>1. n + 1 <= Len(B) /\ \A m \in 1..(n + 1) : B[m] = S[m]
      BY <2>2 DEF Agree
    <3>2. Len(S) = n + 1 /\ Len(A) = n
      BY AppendProperties DEF S
    <3>3. \A k \in 1..n : Agree(B, S, k)
      <4> SUFFICES ASSUME NEW k \in 1..n PROVE Agree(B, S, k)
        OBVIOUS
      <4>1. k <= Len(B) /\ k <= Len(S) /\ \A m \in 1..k : m \in 1..(n + 1)
        <5>1. n + 1 <= Len(B) /\ Len(S) = n + 1
          BY <3>1, <3>2
        <5> HIDE DEF n
        <5>2. k \in Nat /\ k <= n
          BY <1>1
        <5>3. \A m \in 1..k : m \in 1..(n + 1)
          BY <1>1, <5>2
        <5>4. k <= Len(B) /\ k <= Len(S)
          BY <1>1, <5>1, <5>2
        <5> QED BY <5>3, <5>4
      <4> QED BY <3>1, <4>1 DEF Agree
    <3>4. \A k \in 1..n : at[k] = it[k]
      BY <1>3, <1>7, <3>3
    <3>5. Agree(at, it, n)
      <4>1. n <= Len(at) /\ n <= Len(it)
        BY <1>1, <3>1
      <4> QED BY <3>4, <4>1 DEF Agree
    <3>6. at[n + 1] \in Nat
      <4>1. n + 1 \in 1..Len(at)
        BY <1>1, <3>1
      <4> QED BY <4>1, ElementOfSeq
    <3>7. n + 1 \in 1..(n + 1) /\ (n + 1) - 1 = n
      BY <1>1
    <3>8. CASE at[n + 1] < x
      <4>1. Agree(at, Append(it, x), (n + 1) - 1) /\ at[n + 1] < Append(it, x)[n + 1]
        BY <1>2, <1>4, <3>5, <3>7, <3>8
      <4> QED BY <1>2, <2>2, <3>7, <4>1 DEF Passed
    <3>9. CASE at[n + 1] = x
      <4>1. \A k \in 1..(n + 1) : k \in 1..n \/ k = n + 1
        BY <1>1
      <4>2. \A k \in 1..(n + 1) : at[k] = Append(it, x)[k]
        BY <1>2, <3>4, <3>9, <4>1
      <4>3. j < i
        BY <2>2 DEF S
      <4> QED BY <1>2, <4>2, <4>3 DEF Passed
    <3>10. at[n + 1] < x \/ at[n + 1] = x
      <4> DEFINE y == at[n + 1]
      <4>1. y \in Nat /\ y <= x
        BY <1>7, <2>2, <3>6
      <4> HIDE DEF y
      <4>2. y < x \/ y = x
        BY <4>1
      <4> QED BY <4>2 DEF y
    <3> QED BY <3>8, <3>9, <3>10
  <2> QED BY <2>1, <2>2
<1>8. CASE Passed(S, l + 1, Append(it, x + 1), B, j, at)
  <2>1. CASE \E k \in 1..(n + 1) :
               Agree(B, S, k) /\ Agree(at, Append(it, x + 1), k - 1) /\ at[k] < Append(it, x + 1)[k]
    <3>1. PICK k \in 1..(n + 1) :
               Agree(B, S, k) /\ Agree(at, Append(it, x + 1), k - 1) /\ at[k] < Append(it, x + 1)[k]
      BY <2>1
    <3>2. CASE k \in 1..n
      BY <1>2, <1>3, <1>5, <1>6, <3>1, <3>2
    <3>3. CASE k = n + 1
      <4>1. at[n + 1] < x + 1 /\ Agree(at, it, n) /\ Agree(B, S, n + 1)
        <5>1. k - 1 = n
          BY <1>1, <3>3
        <5> QED BY <1>2, <1>4, <1>5, <3>1, <3>3, <5>1
      <4>2. at[n + 1] \in Nat
        <5>1. n + 1 \in 1..Len(at)
          BY <1>1, <4>1 DEF Agree
        <5> QED BY <5>1, ElementOfSeq
      <4>3. at[n + 1] <= x
        <5> DEFINE y == at[n + 1]
        <5>1. y \in Nat /\ y < x + 1
          BY <4>1, <4>2
        <5> HIDE DEF y
        <5>2. y <= x
          BY <5>1
        <5> QED BY <5>2 DEF y
      <4>4. \A m \in 1..n : at[m] = it[m]
        BY <4>1 DEF Agree
      <4> QED BY <1>7, <4>1, <4>3, <4>4
    <3>4. k \in 1..n \/ k = n + 1
      BY <1>1
    <3> QED BY <3>2, <3>3, <3>4
  <2>2. CASE /\ j < l + 1
             /\ \A k \in 1..(n + 1) : Agree(B, S, k) => at[k] = Append(it, x + 1)[k]
    <3>1. ~ Agree(B, S, n + 1)
      BY <2>2 DEF S
    <3>2. \A k \in 1..n : k \in 1..(n + 1)
      BY <1>1
    <3>3. \A k \in 1..n : Agree(B, A, k) => at[k] = it[k]
      BY <1>2, <1>3, <1>5, <2>2, <3>2
    <3>4. j < i
      BY <2>2
    <3> QED BY <1>7, <3>1, <3>3, <3>4
  <2> QED BY <1>2, <1>5, <1>8, <2>1, <2>2 DEF Passed
<1>9. CASE Passed(A, i + 1, it, B, j, at) /\ \A k \in 1..Len(at) : at[k] <= x
  <2>1. CASE \E k \in 1..n : Agree(B, A, k) /\ Agree(at, it, k - 1) /\ at[k] < it[k]
    BY <1>6, <2>1
  <2>2. CASE j < i + 1 /\ \A k \in 1..n : Agree(B, A, k) => at[k] = it[k]
    <3>1. j < i
      BY <2>2
    <3>2. Agree(B, S, n + 1) => n + 1 \in 1..Len(at)
      BY <1>1 DEF Agree
    <3> QED BY <1>7, <1>9, <2>2, <3>1, <3>2
  <2> QED BY <1>9, <2>1, <2>2 DEF Passed
<1> QED
  BY <1>8, <1>9 DEF S

\* What a jump misses that keeps c of the loops: steps that it goes over, in this turn of
\* the loops that they are both in, and later turns of the loops it ends.
LEMMA PassJump ==
    ASSUME NEW A \in Seq(Nat), NEW B \in Seq(Nat), NEW it \in Seq(Nat), NEW at \in Seq(Nat),
           Len(it) = Len(A), Len(at) = Len(B), NEW i \in Nat, NEW j \in Nat, i # j,
           NEW to \in Nat, NEW c \in 0..Len(A),
           Passed(SubSeq(A, 1, c), to, SubSeq(it, 1, c), B, j, at)
    PROVE  \/ Passed(A, i, it, B, j, at)
           \/ i < j /\ j < to /\ \A k \in 1..Len(it) : Agree(B, A, k) => at[k] = it[k]
           \/ \E k \in (c + 1)..Len(it) : Agree(B, A, k) /\ Agree(at, it, k - 1) /\ at[k] > it[k]
<1> DEFINE n == Len(A)
           C == SubSeq(A, 1, c)
           D == SubSeq(it, 1, c)
<1>1. n \in Nat /\ Len(B) \in Nat /\ c \in Nat /\ c <= n
  BY LenProperties
<1>2. Len(C) = c /\ Len(D) = c /\ \A m \in 1..c : C[m] = A[m] /\ D[m] = it[m]
  <2>1. \A m \in 1..c : m \in 1..Len(A) /\ m \in 1..Len(it)
    BY <1>1
  <2>2. \A m \in 1..c : A[m] \in Nat /\ it[m] \in Nat
    BY <2>1, ElementOfSeq
  <2>3. 1 \in Int /\ c \in Int /\ c - 1 + 1 = c /\ (c = 0 \/ 1 <= c) /\ ~ (1 <= 0)
        /\ \A m \in 1..c : 1 + m - 1 = m
    BY <1>1
  <2>4. /\ Len(C) = (IF 1 <= c THEN c - 1 + 1 ELSE 0)
        /\ \A m \in 1..(c - 1 + 1) : C[m] = A[1 + m - 1]
    BY <2>2, <2>3, SubSeqProperties
  <2>5. /\ Len(D) = (IF 1 <= c THEN c - 1 + 1 ELSE 0)
        /\ \A m \in 1..(c - 1 + 1) : D[m] = it[1 + m - 1]
    BY <2>2, <2>3, SubSeqProperties
  <2> HIDE DEF C, D
  <2> QED BY <2>3, <2>4, <2>5
<1>3. \A k \in 1..c : /\ k \in 1..n
                      /\ Agree(B, C, k) <=> Agree(B, A, k)
                      /\ Agree(at, D, k - 1) <=> Agree(at, it, k - 1)
  <2> HIDE DEF C, D
  <2> SUFFICES ASSUME NEW k \in 1..c
               PROVE  /\ k \in 1..n
                      /\ Agree(B, C, k) <=> Agree(B, A, k)
                      /\ Agree(at, D, k - 1) <=> Agree(at, it, k - 1)
    OBVIOUS
  <2>1. k \in 1..n /\ k <= Len(C) /\ k <= Len(A) /\ k - 1 <= Len(D) /\ k - 1 <= Len(it)
    <3>1. Len(A) = n /\ Len(it) = n
      OBVIOUS
    <3> HIDE DEF n
    <3> QED BY <1>1, <1>2, <3>1
  <2>2. (\A m \in 1..k : m \in 1..c) /\ \A m \in 1..(k - 1) : m \in 1..c
    BY <1>1
  <2>3. (\A m \in 1..k : C[m] = A[m]) /\ \A m \in 1..(k - 1) : D[m] = it[m]
    BY <1>2, <2>2
  <2>4. Agree(B, C, k) <=> Agree(B, A, k)
    BY <2>1, <2>3 DEF Agree
  <2>5. Agree(at, D, k - 1) <=> Agree(at, it, k - 1)
    BY <2>1, <2>3 DEF Agree
  <2> QED BY <2>1, <2>4, <2>5
<1> HIDE DEF C, D
<1>4. CASE \E k \in 1..c : Agree(B, C, k) /\ Agree(at, D, k - 1) /\ at[k] < D[k]
  BY <1>2, <1>3, <1>4 DEF Passed
<1>5. CASE j < to /\ \A k \in 1..c : Agree(B, C, k) => at[k] = D[k]
  <2> DEFINE Apart == {k \in 1..n : Agree(B, A, k) /\ at[k] # it[k]}
  <2>1. CASE Apart = {}
    <3>1. \A k \in 1..n : Agree(B, A, k) => at[k] = it[k]
      BY <2>1
    <3>2. j < i \/ i < j
      OBVIOUS
    <3> QED BY <1>5, <3>1, <3>2 DEF Passed
  <2>2. CASE Apart # {}
    <3>1. Apart \in SUBSET Nat
      BY <1>1
    <3>2. PICK k \in Apart : \A x \in Apart : <<x, k>> \notin OpToRel(<, Nat)
      <4> HIDE DEF Apart
      <4> QED BY <2>2, <3>1, NatLessThanWellFounded, WFMin
    <3>3. k \in 1..n /\ Agree(B, A, k) /\ at[k] # it[k]
      BY <3>2
    <3>4. k <= Len(B) /\ \A m \in 1..k : B[m] = A[m]
      BY <3>3 DEF Agree
    <3>5. ASSUME NEW m \in 1..(k - 1) PROVE at[m] = it[m]
      <4>1. m \in 1..n /\ m \in Nat /\ k \in Nat /\ m < k /\ m <= Len(B) /\ m <= Len(A)
        <5>1. Len(A) = n /\ k <= Len(B) /\ k \in 1..n /\ Len(B) \in Nat
          BY <1>1, <3>3, <3>4
        <5>2. n \in Nat
          BY <1>1
        <5> HIDE DEF n, Apart
        <5>3. k \in Nat /\ 1 <= k /\ k <= n
          BY <5>1, <5>2
        <5>4. m \in Nat /\ 1 <= m /\ m < k
          BY <5>3
        <5>5. m <= n /\ m <= Len(B)
          BY <5>1, <5>2, <5>3, <5>4
        <5> QED BY <5>1, <5>2, <5>3, <5>4, <5>5
      <4>2. \A y \in 1..m : y \in 1..k
        BY <4>1
      <4>3. Agree(B, A, m)
        BY <3>4, <4>1, <4>2 DEF Agree
      <4>4. <<m, k>> \in OpToRel(<, Nat)
        BY <4>1 DEF OpToRel
      <4>5. m \notin Apart
        BY <3>2, <4>4
      <4> QED BY <4>1, <4>3, <4>5
    <3>6. Agree(at, it, k - 1)
      <4>1. k - 1 <= Len(at) /\ k - 1 <= Len(it)
        <5>1. Len(it) = n /\ k <= Len(at) /\ Len(at) \in Nat
          BY <1>1, <3>4
        <5>2. k \in 1..n
          BY <3>3
        <5> HIDE DEF n
        <5> QED BY <1>1, <5>1, <5>2
      <4> QED BY <3>5, <4>1 DEF Agree
    <3>7. k \in (c + 1)..n
      <4>1. ~ (k \in 1..c)
        BY <1>2, <1>3, <1>5, <3>3
      <4> HIDE DEF n
      <4> QED BY <1>1, <3>3, <4>1
    <3>8. at[k] \in Nat /\ it[k] \in Nat
      <4>1. k \in 1..Len(at) /\ k \in 1..Len(it)
        BY <1>1, <3>3, <3>4
      <4> QED BY <4>1, ElementOfSeq
    <3>9. at[k] < it[k] \/ at[k] > it[k]
      <4> DEFINE y == at[k]
                 z == it[k]
      <4>1. y \in Nat /\ z \in Nat /\ y # z
        BY <3>3, <3>8
      <4> HIDE DEF y, z
      <4>2. y < z \/ y > z
        BY <4>1
      <4> QED BY <4>2 DEF y, z
    <3> QED BY <3>3, <3>6, <3>7, <3>9 DEF Passed
  <2> QED BY <2>1, <2>2
<1> QED
  BY <1>2, <1>4, <1>5 DEF Passed, C, D

---------------------------------------------------------------------------
(* The steps of a plugin, as the assumption nests them.                    *)

LEMMA AroundFacts ==
    ASSUME NEW p \in DOMAIN Plugins, NEW i \in 1..Len(Plugins[p])
    PROVE  /\ i \in Nat \ {0} /\ Len(Plugins[p]) \in Nat
           /\ Plugins[p][i].skip \in Nat
           /\ Around(p, i) = Loops[p][i] /\ Depth(p, i) = Len(Around(p, i))
           /\ Around(p, i) \in Seq(Nat) /\ Depth(p, i) \in Nat
           /\ \A m \in 1..Depth(p, i) : Around(p, i)[m] \in Inside(Plugins[p], {"each"}, i)
           /\ Plugins[p][i].up \in 0..Depth(p, i) /\ "" \notin Plugins[p][i].what
<1>1. /\ Nested(p) /\ Len(Plugins[p]) \in Nat /\ Plugins[p][i].skip \in Nat
  BY ListingAssumption
<1>2. Loops[p][i] \in Seq(Inside(Plugins[p], {"each"}, i))
  BY <1>1 DEF Nested
<1>3. i \in Nat \ {0}
  BY <1>1
<1>4. \A x \in Inside(Plugins[p], {"each"}, i) : x \in Nat
  BY <1>3 DEF Inside
<1>5. Loops[p][i] \in Seq(Nat) /\ Len(Loops[p][i]) \in Nat
  BY <1>2, <1>4, SeqMonotonic, LenProperties
<1>6. \A m \in 1..Len(Loops[p][i]) : Loops[p][i][m] \in Inside(Plugins[p], {"each"}, i)
  BY <1>2, ElementOfSeq
<1>7. Plugins[p][i].up \in 0..Depth(p, i) /\ "" \notin Plugins[p][i].what
  BY <1>1 DEF Nested
<1> QED
  BY <1>1, <1>3, <1>5, <1>6, <1>7 DEF Around, Depth

LEMMA AroundIsSeq ==
    ASSUME NEW p \in DOMAIN Plugins, NEW i \in Nat
    PROVE  Around(p, i) \in Seq(Nat) /\ Len(Around(p, i)) \in Nat
<1>1. CASE i \in 1..Len(Plugins[p])
  BY <1>1, AroundFacts
<1>2. CASE i \notin 1..Len(Plugins[p])
  BY <1>2, EmptySeq DEF Around
<1> QED
  BY <1>1, <1>2

\* The rows that are due.
LEMMA RowFacts ==
    ASSUME plugin \in DOMAIN Plugins, NEW row \in Expected
    PROVE  /\ row[1] \in 1..Len(Steps) /\ Steps[row[1]].op \in {"row", "file"} /\ Chosen(row[1])
           /\ row[2] \in Seq(1..Many) /\ Len(row[2]) = Len(Around(plugin, row[1]))
           /\ row[2] \in Seq(Nat \ {0}) /\ row[2] \in Seq(Nat)
           /\ row = <<row[1], row[2]>>
<1>1. PICK i \in With({"row", "file"}) : Chosen(i) /\ row \in {<<i, at>> : at \in Items(Depth(plugin, i))}
  BY DEF Expected
<1>2. PICK at \in Items(Depth(plugin, i)) : row = <<i, at>>
  BY <1>1
<1>3. row[1] = i /\ row[2] = at
  BY <1>2
<1>4. i \in 1..Len(Steps) /\ Steps[i].op \in {"row", "file"}
  BY <1>1 DEF With
<1>5. Depth(plugin, i) \in Nat /\ Depth(plugin, i) = Len(Around(plugin, i))
  BY <1>4, AroundFacts DEF Steps
<1>6. at \in [1..Depth(plugin, i) -> 1..Many]
  BY <1>2 DEF Items
<1>7. at \in Seq(1..Many)
  BY <1>5, <1>6, SeqDef
<1>8. Len(at) = Depth(plugin, i)
  <2>1. DOMAIN at = 1..Depth(plugin, i) /\ DOMAIN at = 1..Len(at) /\ Len(at) \in Nat
    BY <1>6, <1>7, LenProperties
  <2> QED BY <1>5, <2>1
<1>9. Many \in Nat /\ \A x \in 1..Many : x \in Nat \ {0} /\ x \in Nat
  BY ListingAssumption
<1>10. at \in Seq(Nat \ {0}) /\ at \in Seq(Nat)
  BY <1>7, <1>9, SeqMonotonic
<1> QED
  BY <1>1, <1>2, <1>3, <1>4, <1>5, <1>7, <1>8, <1>10

\* Whose item agrees with the one a step reads is of that item.
LEMMA OwnItem ==
    ASSUME NEW it \in Seq(Nat), NEW at \in Seq(Nat), NEW own \in 0..Len(it), Agree(at, it, own)
    PROVE  /\ IsPrefix(SubSeq(it, 1, own), at) /\ Len(SubSeq(it, 1, own)) = own
           /\ \A m \in 1..own : SubSeq(it, 1, own)[m] = it[m]
<1>1. own \in Nat /\ Len(it) \in Nat /\ Len(at) \in Nat /\ own <= Len(it) /\ own <= Len(at)
  BY LenProperties DEF Agree
<1>2. \A m \in 1..own : m \in 1..Len(it) /\ m \in 1..Len(at)
  BY <1>1
<1>3. \A m \in 1..own : it[m] \in Nat /\ at[m] \in Nat
  BY <1>2, ElementOfSeq
<1>4. /\ 1 \in Int /\ own \in Int /\ own - 1 + 1 = own /\ (own = 0 \/ 1 <= own) /\ ~ (1 <= 0)
      /\ \A m \in 1..own : 1 + m - 1 = m
  BY <1>1
<1>5. /\ SubSeq(it, 1, own) \in Seq(Nat) /\ SubSeq(at, 1, own) \in Seq(Nat)
      /\ Len(SubSeq(it, 1, own)) = own /\ Len(SubSeq(at, 1, own)) = own
      /\ \A m \in 1..own : SubSeq(it, 1, own)[m] = it[m] /\ SubSeq(at, 1, own)[m] = at[m]
  <2>1. /\ SubSeq(it, 1, own) \in Seq(Nat)
        /\ Len(SubSeq(it, 1, own)) = (IF 1 <= own THEN own - 1 + 1 ELSE 0)
        /\ \A m \in 1..(own - 1 + 1) : SubSeq(it, 1, own)[m] = it[1 + m - 1]
    BY <1>3, <1>4, SubSeqProperties
  <2>2. /\ SubSeq(at, 1, own) \in Seq(Nat)
        /\ Len(SubSeq(at, 1, own)) = (IF 1 <= own THEN own - 1 + 1 ELSE 0)
        /\ \A m \in 1..(own - 1 + 1) : SubSeq(at, 1, own)[m] = at[1 + m - 1]
    BY <1>3, <1>4, SubSeqProperties
  <2> QED BY <1>4, <2>1, <2>2
<1>6. SubSeq(it, 1, own) = SubSeq(at, 1, own)
  <2>1. \A m \in 1..own : SubSeq(it, 1, own)[m] = SubSeq(at, 1, own)[m]
    BY <1>5 DEF Agree
  <2> QED BY <1>5, <2>1, SeqEqual
<1>7. SubSeq(SubSeq(it, 1, own), 1, own) = SubSeq(it, 1, own)
  BY <1>5, SubSeqFull
<1> QED
  BY <1>1, <1>5, <1>6, <1>7 DEF IsPrefix

---------------------------------------------------------------------------
(* What is missed is excused.                                              *)

\* The step that runs fails, on what is damaged or on an item that is unwanted.
Fails ==
    \/ Damaged /\ Steps[pc].op # "pick"
    \/ Steps[pc].op = "pick" /\ unwanted = Owner(Steps, pc, item)

\* No row is lost that is not excused.
Kept ==
    /\ plugin \in DOMAIN Plugins
    /\ pc \in 1..(Len(Steps) + 1)
    /\ item \in Seq(1..Many) /\ Len(item) = Len(Around(plugin, pc))
    /\ pc <= Len(Steps) => Chosen(pc)
    /\ plugin \notin Hiding /\ outcome = "running" =>
         \A row \in Expected :
           Passed(Around(plugin, pc), pc, item, Around(plugin, row[1]), row[1], row[2]) =>
             row \in rows \/ Excused(row)
    /\ DamageIsLocal

\* The step that runs, and the item it is at.
LEMMA HereFacts ==
    ASSUME Kept, pc <= Len(Steps)
    PROVE  /\ pc \in 1..Len(Steps) /\ pc \in Nat \ {0} /\ Len(Steps) \in Nat
           /\ Nested(plugin) /\ Steps[pc].skip \in Nat
           /\ Around(plugin, pc) \in Seq(Nat) /\ Depth(plugin, pc) = Len(Around(plugin, pc))
           /\ Len(item) = Depth(plugin, pc) /\ Depth(plugin, pc) \in Nat
           /\ item \in Seq(Nat)
           /\ Steps[pc].up \in 0..Depth(plugin, pc) /\ "" \notin Steps[pc].what
<1>1. Len(Steps) \in Nat /\ Nested(plugin)
  BY ListingAssumption DEF Kept, Steps
<1>2. pc \in 1..Len(Steps)
  BY <1>1 DEF Kept
<1>3. Many \in Nat /\ \A x \in 1..Many : x \in Nat
  BY ListingAssumption
<1>4. item \in Seq(Nat)
  BY <1>3, SeqMonotonic DEF Kept
<1> QED
  BY <1>1, <1>2, <1>4, AroundFacts DEF Kept, Steps

\* Two steps that are taken with these options can be taken together.
LEMMA ChosenTogether ==
    ASSUME NEW i \in 1..Len(Steps), NEW j \in 1..Len(Steps), Chosen(i), Chosen(j)
    PROVE  Together(Steps, i, j)
<1> DEFINE both == Options(Steps, i) \cup Options(Steps, j)
           needed == UNION {Steps[k].what : k \in {k \in both : Steps[k].op = "when"}}
<1>1. \A k \in both : /\ Steps[k].op = "when" => Steps[k].what \subseteq flags
                      /\ Steps[k].op = "unless" => ~ (Steps[k].what \subseteq flags)
  BY DEF Chosen, Options, Inside
<1>2. needed \subseteq flags
  BY <1>1
<1>3. \A k \in both : Steps[k].op = "unless" => ~ (Steps[k].what \subseteq needed)
  BY <1>1, <1>2
<1> QED
  BY <1>3 DEF Together

\* A failing step's jump misses only rows of the item that is damaged or unwanted, and
\* where a link is damaged those behind it.
LEMMA MissedIsExcused ==
    ASSUME Kept, outcome = "running", pc <= Len(Steps), plugin \notin Hiding, Fails,
           NEW to \in Jumps(plugin, pc), NEW row \in Expected,
           Passed(Around(plugin, to[1]), to[1], SubSeq(item, 1, to[2]),
                  Around(plugin, row[1]), row[1], row[2])
    PROVE  row \in rows \/ Excused(row)
<1> DEFINE A == Around(plugin, pc)
           B == Around(plugin, row[1])
           j == row[1]
           at == row[2]
           c == to[2]
           own == Depth(plugin, pc) - Steps[pc].up
<1>1. /\ pc \in 1..Len(Steps) /\ pc \in Nat \ {0} /\ Len(Steps) \in Nat
      /\ A \in Seq(Nat) /\ Len(A) = Len(item) /\ Depth(plugin, pc) = Len(A) /\ Len(A) \in Nat
      /\ item \in Seq(Nat)
      /\ Steps[pc].up \in 0..Len(A) /\ "" \notin Steps[pc].what
      /\ Nested(plugin) /\ Local(plugin) /\ plugin \in DOMAIN Plugins
  BY HereFacts, ListingAssumption DEF Kept
<1>2. /\ j \in 1..Len(Steps) /\ Steps[j].op \in {"row", "file"} /\ Chosen(j)
      /\ at \in Seq(Nat) /\ Len(at) = Len(B)
  BY <1>1, RowFacts
<1>3. B \in Seq(Nat) /\ Depth(plugin, j) = Len(B) /\ Len(B) \in Nat /\ B = Loops[plugin][j]
      /\ A = Loops[plugin][pc] /\ j \in Nat
  <2>1. pc \in 1..Len(Plugins[plugin]) /\ j \in 1..Len(Plugins[plugin])
    BY <1>1, <1>2 DEF Steps
  <2>2. A = Loops[plugin][pc]
    BY <1>1, <2>1, AroundFacts
  <2>3. B \in Seq(Nat) /\ Depth(plugin, j) = Len(B) /\ Depth(plugin, j) \in Nat
        /\ B = Loops[plugin][j] /\ j \in Nat
    <3>1. plugin \in DOMAIN Plugins
      BY <1>1
    <3>2. B = Around(plugin, j)
      OBVIOUS
    <3> HIDE DEF j, B
    <3> QED BY <2>1, <3>1, <3>2, AroundFacts
  <2> QED BY <2>2, <2>3
<1>4. /\ to[1] \in (pc + 1)..(Len(Steps) + 1) /\ c \in 0..Len(A)
      /\ Around(plugin, to[1]) = SubSeq(A, 1, c)
  BY <1>1 DEF Nested, Steps
<1>5. own \in 0..Len(item) /\ own \in Nat
  <2> DEFINE u == Steps[pc].up
             n == Len(A)
  <2>1. own = n - u /\ u \in 0..n /\ n \in Nat /\ Len(item) = n
    BY <1>1
  <2> HIDE DEF u, n, own
  <2> QED BY <2>1
<1>18. /\ c \in Nat /\ own \in Nat /\ Len(item) \in Nat /\ Len(A) = Len(item)
       /\ c <= Len(item) /\ own <= Len(item)
  <2> DEFINE n == Len(A)
  <2>1. n \in Nat /\ Len(item) = n /\ c \in 0..n /\ own \in 0..n /\ own \in Nat
    BY <1>1, <1>4, <1>5
  <2>2. c \in Nat /\ c <= n /\ own <= n
    <3> HIDE DEF n, c, own
    <3> QED BY <2>1
  <2> QED BY <2>1, <2>2
<1>6. pc # j
  BY <1>2 DEF Fails, Damaged, Jumps, Steps
<1>7. Together(Steps, pc, j)
  BY <1>1, <1>2, ChosenTogether DEF Kept
<1>8. /\ pc < j /\ j < to[1] => Share(plugin, pc, j, own)
      /\ Share(plugin, pc, j, c + 1) =>
           \/ own <= c
           \/ own = c + 1 /\ Steps[pc].op # "pick" /\ Steps[pc].what \subseteq LinksOf(Steps)
  BY <1>1, <1>2, <1>7 DEF Local, Steps
<1>9. \A n \in Nat : Agree(B, A, n) => Share(plugin, pc, j, n)
  BY <1>1, <1>3 DEF Share, Agree
<1>10. \A n \in Nat : Share(plugin, pc, j, n) => Agree(B, A, n)
  BY <1>1, <1>3 DEF Share, Agree
<1>11. Owner(Steps, pc, item) = SubSeq(item, 1, own)
  BY <1>1 DEF Owner
\* It is the item's own, ...
<1>12. ASSUME Agree(at, item, own) PROVE Excused(row)
  <2>1. IsPrefix(SubSeq(item, 1, own), at)
    BY <1>1, <1>2, <1>5, <1>12, OwnItem
  <2>2. CASE Damaged
    <3>1. damage[1] = SubSeq(item, 1, own) /\ damage[2] # ""
      BY <1>1, <1>11, <2>2 DEF Damaged
    <3>2. damage # Nothing
      <4>1. Nothing[2] = ""
        BY DEF Nothing
      <4> QED BY <3>1, <4>1
    <3> QED BY <2>1, <3>1, <3>2 DEF Excused
  <2>3. CASE unwanted = Owner(Steps, pc, item)
    BY <1>11, <2>1, <2>3 DEF Excused
  <2> QED BY <2>2, <2>3 DEF Fails
\* or it is behind the item in its loop.
<1>13. ASSUME own = c + 1, Damaged, Steps[pc].what \subseteq LinksOf(Steps),
              Agree(at, item, c), own <= Len(at), at[own] > item[own]
       PROVE  Excused(row)
  <2> DEFINE d == SubSeq(item, 1, own)
             f == SubSeq(d, 1, c)
  <2>1. damage[1] = d /\ damage[2] \in LinksOf(Steps)
    BY <1>11, <1>13 DEF Damaged
  <2>2. c \in 0..Len(item) /\ c \in Nat /\ own \in 1..own /\ own - 1 = c
    <3>1. own = c + 1
      BY <1>13
    <3> HIDE DEF own, c, A
    <3> QED BY <1>18, <3>1
  <2>3. \A m \in 1..own : m \in 1..Len(item)
    <3> HIDE DEF own, c, A
    <3> QED BY <1>18
  <2>4. \A m \in 1..own : item[m] \in Nat
    BY <1>1, <2>3, ElementOfSeq
  <2>5. d \in Seq(Nat) /\ Len(d) = own /\ \A m \in 1..own : d[m] = item[m]
    <3>1. /\ 1 \in Int /\ own \in Int /\ own - 1 + 1 = own /\ (own = 0 \/ 1 <= own) /\ ~ (1 <= 0)
          /\ \A m \in 1..own : 1 + m - 1 = m
      <4> HIDE DEF own
      <4> QED BY <1>5
    <3>2. /\ d \in Seq(Nat)
          /\ Len(d) = (IF 1 <= own THEN own - 1 + 1 ELSE 0)
          /\ \A m \in 1..(own - 1 + 1) : d[m] = item[1 + m - 1]
      <4> HIDE DEF own
      <4> QED BY <2>4, <3>1, SubSeqProperties DEF d
    <3> HIDE DEF d, own
    <3> QED BY <3>1, <3>2
  <2> HIDE DEF d
  <2>6. Front(damage[1]) = f /\ Last(damage[1]) = item[own] /\ Len(damage[1]) = own
    BY <2>1, <2>2, <2>5 DEF Front, Last
  <2>7. Agree(at, d, c)
    <3>1. c <= Len(d) /\ \A m \in 1..c : m \in 1..own
      <4> HIDE DEF own, c
      <4> QED BY <1>13, <2>2, <2>5
    <3> QED BY <1>13, <2>5, <3>1 DEF Agree
  <2>8. c \in 0..Len(d)
    <3> HIDE DEF own, c
    <3> QED BY <1>13, <2>2, <2>5
  <2>9. IsPrefix(f, at)
    BY <1>2, <2>5, <2>7, <2>8, OwnItem
  <2>10. damage[1] # <<>>
    <3>1. own # 0
      <4> HIDE DEF own, c
      <4> QED BY <1>13, <2>2
    <3> QED BY <2>6, <3>1, EmptySeq
  <2>11. Len(at) >= own
    BY <1>2, <1>3, <1>5, <1>13
  <2>12. Behind(row)
    BY <1>13, <2>6, <2>9, <2>10, <2>11 DEF Behind
  <2> QED BY <2>1, <2>12 DEF Excused, Links
<1>14. \/ Passed(A, pc, item, B, j, at)
       \/ pc < j /\ j < to[1] /\ \A k \in 1..Len(item) : Agree(B, A, k) => at[k] = item[k]
       \/ \E k \in (c + 1)..Len(item) : Agree(B, A, k) /\ Agree(at, item, k - 1) /\ at[k] > item[k]
  <2>1. to[1] \in Nat /\ Passed(SubSeq(A, 1, c), to[1], SubSeq(item, 1, c), B, j, at)
    <3>1. Passed(SubSeq(A, 1, c), to[1], SubSeq(item, 1, c), B, j, at)
      BY <1>4
    <3>2. pc \in Nat /\ Len(Steps) \in Nat
      BY <1>1
    <3>3. to[1] \in Nat
      BY <1>4, <3>2
    <3> QED BY <3>1, <3>3
  <2> HIDE DEF A, B, c, j, at
  <2> QED BY <1>1, <1>2, <1>3, <1>4, <1>6, <2>1, PassJump
<1>15. CASE Passed(A, pc, item, B, j, at)
  BY <1>15 DEF Kept
<1>16. CASE pc < j /\ j < to[1] /\ \A k \in 1..Len(item) : Agree(B, A, k) => at[k] = item[k]
  <2>1. Agree(B, A, own)
    BY <1>5, <1>8, <1>10, <1>16
  <2>2. own <= Len(at) /\ own <= Len(item)
    BY <1>1, <1>2, <2>1 DEF Agree
  <2>3. ASSUME NEW m \in 1..own PROVE at[m] = item[m]
    <3>1. m \in 1..Len(item) /\ m \in Nat /\ m <= own /\ \A x \in 1..m : x \in 1..own
      <4> HIDE DEF own, c, A
      <4> QED BY <1>18
    <3>2. m <= Len(B) /\ m <= Len(A)
      <4>1. own <= Len(B) /\ own <= Len(A)
        BY <2>1 DEF Agree
      <4>2. m \in Nat /\ m <= own
        BY <3>1
      <4> HIDE DEF own, A, B, c
      <4> QED BY <1>3, <1>18, <4>1, <4>2
    <3>3. Agree(B, A, m)
      BY <2>1, <3>1, <3>2 DEF Agree
    <3> QED BY <1>16, <3>1, <3>3
  <2>4. Agree(at, item, own)
    BY <2>2, <2>3 DEF Agree
  <2> QED BY <1>12, <2>4
<1>17. CASE \E k \in (c + 1)..Len(item) :
              Agree(B, A, k) /\ Agree(at, item, k - 1) /\ at[k] > item[k]
  <2>1. PICK k \in (c + 1)..Len(item) :
              Agree(B, A, k) /\ Agree(at, item, k - 1) /\ at[k] > item[k]
    BY <1>17
  <2>2. k \in Nat /\ c + 1 \in Nat /\ c + 1 <= k /\ k <= Len(item) /\ c \in Nat /\ k >= 1
    <3>1. k \in (c + 1)..Len(item)
      BY <2>1
    <3> HIDE DEF c, A, own
    <3> QED BY <1>18, <3>1
  <2>3. Agree(B, A, c + 1)
    <3>1. k <= Len(B) /\ k <= Len(A) /\ \A m \in 1..k : B[m] = A[m]
      BY <2>1 DEF Agree
    <3>2. c + 1 <= Len(B) /\ c + 1 <= Len(A) /\ \A m \in 1..(c + 1) : m \in 1..k
      <4>1. k <= Len(B) /\ k <= Len(A)
        BY <3>1
      <4>2. Len(B) \in Nat
        BY <1>3
      <4> HIDE DEF c, A, B, own
      <4> QED BY <1>18, <2>2, <4>1, <4>2
    <3> QED BY <3>1, <3>2 DEF Agree
  <2>4. \A n \in 0..(k - 1) : Agree(at, item, n)
    <3> SUFFICES ASSUME NEW n \in 0..(k - 1) PROVE Agree(at, item, n)
      OBVIOUS
    <3>1. k - 1 <= Len(at) /\ k - 1 <= Len(item) /\ \A m \in 1..(k - 1) : at[m] = item[m]
      BY <2>1 DEF Agree
    <3>2. n <= Len(at) /\ n <= Len(item) /\ \A m \in 1..n : m \in 1..(k - 1)
      <4>1. k - 1 <= Len(at) /\ k - 1 <= Len(item) /\ Len(at) \in Nat /\ Len(item) \in Nat
        BY <1>1, <1>2, <1>3, <3>1
      <4> HIDE DEF at
      <4> QED BY <2>2, <4>1
    <3> QED BY <3>1, <3>2 DEF Agree
  <2>5. Share(plugin, pc, j, c + 1)
    BY <1>9, <2>2, <2>3
  <2>6. CASE own <= k - 1
    <3>1. own \in 0..(k - 1)
      <4> HIDE DEF own
      <4> QED BY <1>5, <2>2, <2>6
    <3> QED BY <1>12, <2>4, <3>1
  <2>7. CASE own = c + 1 /\ k = own /\ Steps[pc].op # "pick" /\ Steps[pc].what \subseteq LinksOf(Steps)
    <3>1. c \in 0..(k - 1) /\ own <= Len(at)
      <4>1. k <= Len(at)
        BY <1>2, <2>1 DEF Agree
      <4> HIDE DEF own, c, at
      <4> QED BY <2>2, <2>7, <4>1
    <3>2. Agree(at, item, c)
      BY <2>4, <3>1
    <3>3. Damaged
      BY <2>7 DEF Fails
    <3> QED BY <1>13, <2>1, <2>7, <3>1, <3>2, <3>3
  <2>8. \/ own <= k - 1
        \/ own = c + 1 /\ k = own /\ Steps[pc].op # "pick" /\ Steps[pc].what \subseteq LinksOf(Steps)
    <3>1. \/ own <= c
          \/ own = c + 1 /\ Steps[pc].op # "pick" /\ Steps[pc].what \subseteq LinksOf(Steps)
      BY <1>8, <2>5
    <3>2. own <= c => own <= k - 1
      <4> HIDE DEF own, c
      <4> QED BY <1>5, <2>2
    <3>3. own = c + 1 => own <= k - 1 \/ k = own
      <4> HIDE DEF own, c
      <4> QED BY <1>5, <2>2
    <3> QED BY <3>1, <3>2, <3>3
  <2> QED BY <2>6, <2>7, <2>8
<1> QED
  BY <1>14, <1>15, <1>16, <1>17

---------------------------------------------------------------------------
(* No step loses a row.                                                    *)

\* What is expected and excused is of the plugin, its options and the image.
LEMMA SameImage ==
    ASSUME UNCHANGED <<plugin, flags, damage, unwanted>>
    PROVE  /\ Steps' = Steps /\ Expected' = Expected
           /\ \A i : Chosen(i)' <=> Chosen(i)
           /\ \A row : Excused(row)' <=> Excused(row)
<1>1. Steps' = Steps
  BY DEF Steps
<1>2. \A i : Chosen(i)' <=> Chosen(i)
  BY <1>1 DEF Chosen
<1>3. \A ops : With(ops)' = With(ops)
  BY <1>1 DEF With
<1>4. Expected' = Expected
  BY <1>2, <1>3 DEF Expected
<1>5. Links' = Links
  BY <1>1 DEF Links
<1>6. \A row : Behind(row)' <=> Behind(row)
  BY DEF Behind
<1>7. \A row : Excused(row)' <=> Excused(row)
  BY <1>5, <1>6 DEF Excused
<1> QED
  BY <1>1, <1>2, <1>4, <1>7

\* A listing that goes on keeps Kept if what it has passed then was pushed or is excused.
LEMMA GoingOnKeeps ==
    ASSUME Kept, outcome = "running", UNCHANGED <<plugin, flags, damage, unwanted, outcome>>,
           pc' \in 1..(Len(Steps) + 1),
           item' \in Seq(1..Many), Len(item') = Len(Around(plugin, pc')),
           pc' <= Len(Steps) => Chosen(pc'),
           rows \subseteq rows',
           plugin \notin Hiding =>
             \A row \in Expected :
               Passed(Around(plugin, pc'), pc', item', Around(plugin, row[1]), row[1], row[2]) =>
                 row \in rows' \/ Excused(row)
    PROVE  Kept'
<1>1. outcome' # "whole"
  OBVIOUS
<1>2. DamageIsLocal'
  BY <1>1 DEF DamageIsLocal
<1>3. /\ plugin' \in DOMAIN Plugins
      /\ pc' \in 1..(Len(Steps') + 1)
      /\ Len(item') = Len(Around(plugin', pc'))
      /\ pc' <= Len(Steps') => Chosen(pc')
  BY SameImage DEF Kept
<1>4. pc' <= Len(Steps') => Chosen(pc)'
  <2>1. Chosen(pc)' <=> Chosen(pc')
    BY DEF Chosen, Steps
  <2> QED BY <1>3, <2>1
<1>5. ASSUME plugin' \notin Hiding, NEW row \in Expected',
             Passed(Around(plugin', pc'), pc', item', Around(plugin', row[1]), row[1], row[2])
      PROVE  row \in rows' \/ Excused(row)'
  BY <1>5, SameImage
<1> QED
  BY <1>2, <1>3, <1>4, <1>5 DEF Kept

\* The options of the next step are those of this one, and this one if it is a choice.
LEMMA NextIsChosen ==
    ASSUME Kept, pc <= Len(Steps),
           Steps[pc].op = "when" => Steps[pc].what \subseteq flags,
           Steps[pc].op = "unless" => ~ (Steps[pc].what \subseteq flags)
    PROVE  Chosen(pc + 1)
<1>1. pc \in 1..Len(Steps) /\ pc \in Nat \ {0} /\ Len(Steps) \in Nat /\ Chosen(pc)
  BY HereFacts DEF Kept
<1>2. \A ops : \A k \in Inside(Steps, ops, pc + 1) :
        (k = pc /\ Steps[pc].op \in ops) \/ k \in Inside(Steps, ops, pc)
  <2> SUFFICES ASSUME NEW ops, NEW k \in Inside(Steps, ops, pc + 1)
               PROVE  (k = pc /\ Steps[pc].op \in ops) \/ k \in Inside(Steps, ops, pc)
    OBVIOUS
  <2>1. k \in 1..pc /\ Steps[k].op \in ops /\ pc + 1 <= k + Steps[k].skip
    BY <1>1 DEF Inside
  <2>2. CASE k = pc
    BY <2>1, <2>2
  <2>3. CASE k # pc
    <3>1. k \in 1..(pc - 1)
      BY <1>1, <2>1, <2>3
    <3>2. k \in 1..Len(Steps)
      BY <1>1, <3>1
    <3>3. Steps[k].skip \in Nat
      BY <3>2, ListingAssumption DEF Kept, Steps
    <3>4. pc <= k + Steps[k].skip
      BY <1>1, <2>1, <3>1, <3>3
    <3> QED BY <2>1, <3>1, <3>4 DEF Inside
  <2> QED BY <2>2, <2>3
<1>3. ASSUME NEW k \in Inside(Steps, {"when"}, pc + 1) PROVE Steps[k].what \subseteq flags
  <2>1. CASE k = pc /\ Steps[pc].op \in {"when"}
    BY <2>1
  <2>2. CASE k \in Inside(Steps, {"when"}, pc)
    BY <1>1, <2>2 DEF Chosen
  <2> QED BY <1>2, <2>1, <2>2
<1>4. ASSUME NEW k \in Inside(Steps, {"unless"}, pc + 1) PROVE ~ (Steps[k].what \subseteq flags)
  <2>1. CASE k = pc /\ Steps[pc].op \in {"unless"}
    BY <2>1
  <2>2. CASE k \in Inside(Steps, {"unless"}, pc)
    BY <1>1, <2>2 DEF Chosen
  <2> QED BY <1>2, <2>1, <2>2
<1> QED
  BY <1>3, <1>4 DEF Chosen

\* So are those of a step whose options are among this one's.
LEMMA FewerAreChosen ==
    ASSUME NEW i, NEW to, Chosen(i), Options(Steps, to) \subseteq Options(Steps, i)
    PROVE  Chosen(to)
<1>1. \A k : /\ k \in Inside(Steps, {"when"}, to) => k \in Inside(Steps, {"when"}, i)
             /\ k \in Inside(Steps, {"unless"}, to) => k \in Inside(Steps, {"unless"}, i)
  BY DEF Options, Inside
<1> QED
  BY <1>1 DEF Chosen

\* A step that leads to the next in its body.
LEMMA StraightKeeps ==
    ASSUME Kept, outcome = "running", pc <= Len(Steps), Steps[pc].op \notin {"each", "next"},
           UNCHANGED <<plugin, flags, damage, unwanted, outcome, item>>,
           pc' = pc + 1, rows \subseteq rows',
           Steps[pc].op \in {"row", "file"} => <<pc, item>> \in rows',
           Steps[pc].op = "when" => Steps[pc].what \subseteq flags,
           Steps[pc].op = "unless" => ~ (Steps[pc].what \subseteq flags)
    PROVE  Kept'
<1> DEFINE A == Around(plugin, pc)
<1>1. /\ pc \in 1..Len(Steps) /\ pc \in Nat \ {0} /\ Len(Steps) \in Nat
      /\ Nested(plugin) /\ plugin \in DOMAIN Plugins /\ A \in Seq(Nat)
      /\ item \in Seq(1..Many) /\ Len(item) = Len(A) /\ Len(A) \in Nat
  BY HereFacts DEF Kept
<1>2. Around(plugin, pc + 1) = A
  BY <1>1 DEF Nested, Steps
<1>3. Chosen(pc + 1)
  BY NextIsChosen
<1>4. ASSUME plugin \notin Hiding, NEW row \in Expected,
             Passed(A, pc + 1, item, Around(plugin, row[1]), row[1], row[2])
      PROVE  row \in rows' \/ Excused(row)
  <2> DEFINE j == row[1]
             at == row[2]
             B == Around(plugin, row[1])
  <2>1. /\ j \in 1..Len(Steps) /\ Steps[j].op \in {"row", "file"} /\ at \in Seq(1..Many)
        /\ Len(at) = Len(B) /\ row = <<j, at>> /\ j \in Nat
    BY <1>1, RowFacts
  <2>2. CASE Passed(A, pc, item, B, j, at)
    BY <1>4, <2>2 DEF Kept
  <2>3. CASE j = pc /\ \A k \in 1..Len(item) : Agree(B, A, k) => at[k] = item[k]
    <3>1. \A k \in 1..Len(item) : Agree(A, A, k)
      BY <1>1 DEF Agree
    <3>2. \A k \in 1..Len(item) : at[k] = item[k]
      BY <2>3, <3>1
    <3>3. Len(at) = Len(item)
      BY <1>1, <2>1, <2>3
    <3>4. at = item
      BY <1>1, <2>1, <3>2, <3>3, SeqEqual
    <3> QED BY <2>1, <2>3, <3>4
  <2>4. \/ Passed(A, pc, item, B, j, at)
        \/ j = pc /\ \A k \in 1..Len(item) : Agree(B, A, k) => at[k] = item[k]
    <3>1. pc \in Nat
      BY <1>1
    <3>2. Passed(A, pc + 1, item, B, j, at)
      BY <1>4
    <3> HIDE DEF A, B, j, at
    <3>3. j \in Nat
      BY <2>1
    <3> QED BY <3>1, <3>2, <3>3, PassStep
  <2> QED BY <2>2, <2>3, <2>4
<1>5. pc + 1 \in 1..(Len(Steps) + 1)
  BY <1>1
<1> QED
  BY <1>1, <1>2, <1>3, <1>4, <1>5, GoingOnKeeps

\* A step that fails and goes elsewhere.
LEMMA JumpKeeps ==
    ASSUME Kept, outcome = "running", pc <= Len(Steps), Fails, NEW to \in Jumps(plugin, pc),
           UNCHANGED <<plugin, flags, damage, unwanted, outcome, rows>>,
           pc' = to[1], item' = SubSeq(item, 1, to[2])
    PROVE  Kept'
<1> DEFINE A == Around(plugin, pc)
           c == to[2]
<1>1. /\ pc \in 1..Len(Steps) /\ pc \in Nat \ {0} /\ Len(Steps) \in Nat
      /\ Nested(plugin) /\ plugin \in DOMAIN Plugins /\ A \in Seq(Nat)
      /\ item \in Seq(1..Many) /\ Len(item) = Len(A) /\ Len(A) \in Nat /\ Depth(plugin, pc) = Len(A)
  BY HereFacts DEF Kept
<1>2. /\ to[1] \in (pc + 1)..(Len(Steps) + 1) /\ c \in 0..Len(A)
      /\ Around(plugin, to[1]) = SubSeq(A, 1, c)
      /\ Options(Steps, to[1]) \subseteq Options(Steps, pc)
  BY <1>1 DEF Nested, Steps
<1>3. to[1] \in 1..(Len(Steps) + 1)
  BY <1>1, <1>2
<1>4. Chosen(to[1])
  BY <1>2, FewerAreChosen DEF Kept
<1>5. SubSeq(item, 1, c) \in Seq(1..Many) /\ Len(SubSeq(item, 1, c)) = Len(SubSeq(A, 1, c))
  <2>1. \A m \in 1..c : m \in 1..Len(item) /\ m \in 1..Len(A)
    BY <1>1, <1>2
  <2>2. \A m \in 1..c : item[m] \in 1..Many /\ A[m] \in Nat
    <3> HIDE DEF A, c
    <3> QED BY <1>1, <2>1, ElementOfSeq
  <2>3. 1 \in Int /\ c \in Int
    BY <1>1, <1>2
  <2>4. SubSeq(item, 1, c) \in Seq(1..Many) /\ Len(SubSeq(item, 1, c)) = (IF 1 <= c THEN c - 1 + 1 ELSE 0)
    BY <2>2, <2>3, SubSeqProperties
  <2>5. Len(SubSeq(A, 1, c)) = (IF 1 <= c THEN c - 1 + 1 ELSE 0)
    BY <2>2, <2>3, SubSeqProperties
  <2> QED BY <2>4, <2>5
<1>6. ASSUME plugin \notin Hiding, NEW row \in Expected,
             Passed(Around(plugin, to[1]), to[1], SubSeq(item, 1, c),
                    Around(plugin, row[1]), row[1], row[2])
      PROVE  row \in rows \/ Excused(row)
  BY <1>6, MissedIsExcused
<1> QED
  BY <1>2, <1>3, <1>4, <1>5, <1>6, GoingOnKeeps

\* A listing that ends keeps Kept where it is not given as whole, or has all it owes.
LEMMA EndKeeps ==
    ASSUME Kept, UNCHANGED <<plugin, flags, damage, unwanted, pc, item, rows>>,
           outcome' # "running",
           outcome' = "whole" /\ plugin \notin Hiding =>
             \A row \in Expected : row \in rows \/ Excused(row)
    PROVE  Kept'
<1>1. DamageIsLocal'
  BY SameImage DEF DamageIsLocal
<1>2. Chosen(pc)' <=> Chosen(pc)
  BY DEF Chosen, Steps
<1>3. Steps' = Steps /\ outcome' # "running"
  BY SameImage
<1> QED
  BY <1>1, <1>2, <1>3 DEF Kept

\* All that is expected is passed behind the last step.
LEMMA AllIsPassed ==
    ASSUME plugin \in DOMAIN Plugins, NEW row \in Expected, NEW i, i = Len(Steps) + 1,
           NEW it, Len(it) = 0
    PROVE  Passed(Around(plugin, i), i, it, Around(plugin, row[1]), row[1], row[2])
<1>1. row[1] \in 1..Len(Steps) /\ Len(Steps) \in Nat
  BY RowFacts, ListingAssumption DEF Steps
<1>2. row[1] < i
  BY <1>1
<1> QED
  BY <1>2 DEF Passed

\* Where the failing steps lead.
LEMMA WhereJumpsLead ==
    ASSUME NEW p, NEW i
    PROVE  LET s == Plugins[p] IN
      /\ s[i].op \in {"need", "pick"} =>
           <<LoopOf(p, i) + s[LoopOf(p, i)].skip, Depth(p, LoopOf(p, i)) + 1>> \in Jumps(p, i)
      /\ s[i].op \in {"leave", "link"} =>
           <<LoopOf(p, i) + s[LoopOf(p, i)].skip + 1, Depth(p, LoopOf(p, i))>> \in Jumps(p, i)
      /\ s[i].op = "give" =>
           <<TryOf(p, i) + s[TryOf(p, i)].skip + 1, Depth(p, TryOf(p, i))>> \in Jumps(p, i)
      /\ s[i].op = "quit" => <<Len(s) + 1, 0>> \in Jumps(p, i)
      /\ s[i].op = "each" => <<i + s[i].skip + 1, Depth(p, i)>> \in Jumps(p, i)
BY DEF Jumps

LEMMA ReadLosesNone ==
    ASSUME Kept, Read
    PROVE  Kept'
<1>1. /\ outcome = "running" /\ pc <= Len(Steps)
      /\ UNCHANGED <<plugin, flags, damage, unwanted, rows>>
      /\ Steps[pc].op \in {"must", "tell", "quit", "need", "leave", "link", "cell", "blank", "give"}
  BY DEF Read, Doing
<1>2. CASE GoTo(pc + 1) /\ UNCHANGED item
  BY <1>1, <1>2, StraightKeeps DEF GoTo
<1>3. CASE EndWith("error") \/ EndWith("told")
  BY <1>1, <1>3, EndKeeps DEF EndWith
<1>4. CASE Damaged /\ Steps[pc].op = "quit" /\ EndWith("whole")
  <2>1. <<Len(Steps) + 1, 0>> \in Jumps(plugin, pc)
    BY <1>4, WhereJumpsLead DEF Steps
  <2>2. Fails
    BY <1>4 DEF Fails
  <2>3. Len(SubSeq(item, 1, 0)) = 0 /\ plugin \in DOMAIN Plugins
    BY SubSeqEmpty, EmptySeq DEF Kept
  <2>4. ASSUME plugin \notin Hiding, NEW row \in Expected PROVE row \in rows \/ Excused(row)
    <3> DEFINE to == <<Len(Steps) + 1, 0>>
    <3>1. to[1] = Len(Steps) + 1 /\ to[2] = 0
      OBVIOUS
    <3>2. Passed(Around(plugin, to[1]), to[1], SubSeq(item, 1, to[2]),
                 Around(plugin, row[1]), row[1], row[2])
      BY <2>3, <3>1, AllIsPassed
    <3> HIDE DEF to
    <3>3. to \in Jumps(plugin, pc)
      BY <2>1 DEF to
    <3> QED BY <1>1, <2>2, <2>4, <3>2, <3>3, MissedIsExcused
  <2> QED BY <1>1, <1>4, <2>4, EndKeeps DEF EndWith
<1>5. CASE Damaged /\ Steps[pc].op = "need" /\ Continue
  <2> DEFINE loop == LoopOf(plugin, pc)
             to == <<loop + Steps[loop].skip, Depth(plugin, loop) + 1>>
  <2>1. to \in Jumps(plugin, pc) /\ pc' = to[1] /\ item' = SubSeq(item, 1, to[2])
        /\ UNCHANGED outcome
    BY <1>5, WhereJumpsLead DEF Continue, GoTo, Steps
  <2>2. Fails
    BY <1>5 DEF Fails
  <2> HIDE DEF to
  <2> QED BY <1>1, <2>1, <2>2, JumpKeeps
<1>6. CASE Damaged /\ Steps[pc].op \in {"leave", "link"} /\ Break
  <2> DEFINE loop == LoopOf(plugin, pc)
             to == <<loop + Steps[loop].skip + 1, Depth(plugin, loop)>>
  <2>1. to \in Jumps(plugin, pc) /\ pc' = to[1] /\ item' = SubSeq(item, 1, to[2])
        /\ UNCHANGED outcome
    BY <1>6, WhereJumpsLead DEF Break, GoTo, Steps
  <2>2. Fails
    BY <1>6 DEF Fails
  <2> HIDE DEF to
  <2> QED BY <1>1, <2>1, <2>2, JumpKeeps
<1>7. CASE Damaged /\ Steps[pc].op = "give" /\ GiveUp
  <2> DEFINE try == TryOf(plugin, pc)
             to == <<try + Steps[try].skip + 1, Depth(plugin, try)>>
  <2>1. to \in Jumps(plugin, pc) /\ pc' = to[1] /\ item' = SubSeq(item, 1, to[2])
        /\ UNCHANGED outcome
    BY <1>7, WhereJumpsLead DEF GiveUp, GoTo, Steps
  <2>2. Fails
    BY <1>7 DEF Fails
  <2> HIDE DEF to
  <2> QED BY <1>1, <2>1, <2>2, JumpKeeps
<1> QED
  BY <1>2, <1>3, <1>4, <1>5, <1>6, <1>7 DEF Read

LEMMA TestLosesNone ==
    ASSUME Kept, Test
    PROVE  Kept'
<1>1. /\ outcome = "running" /\ pc <= Len(Steps)
      /\ UNCHANGED <<plugin, flags, damage, unwanted, rows>> /\ Steps[pc].op = "pick"
  BY DEF Test, Doing
<1>2. CASE GoTo(pc + 1) /\ UNCHANGED item
  BY <1>1, <1>2, StraightKeeps DEF GoTo
<1>3. CASE unwanted = Owner(Steps, pc, item) /\ Continue
  <2> DEFINE loop == LoopOf(plugin, pc)
             to == <<loop + Steps[loop].skip, Depth(plugin, loop) + 1>>
  <2>1. to \in Jumps(plugin, pc) /\ pc' = to[1] /\ item' = SubSeq(item, 1, to[2])
        /\ UNCHANGED outcome
    BY <1>1, <1>3, WhereJumpsLead DEF Continue, GoTo, Steps
  <2>2. Fails
    BY <1>1, <1>3 DEF Fails
  <2> HIDE DEF to
  <2> QED BY <1>1, <2>1, <2>2, JumpKeeps
<1> QED
  BY <1>2, <1>3 DEF Test

\* A loop is entered at its first item, or not at all if the list cannot be read.
LEMMA EnterLosesNone ==
    ASSUME Kept, Enter
    PROVE  Kept'
<1> DEFINE A == Around(plugin, pc)
<1>1. /\ outcome = "running" /\ pc <= Len(Steps)
      /\ UNCHANGED <<plugin, flags, damage, unwanted, rows, outcome>> /\ Steps[pc].op = "each"
  BY DEF Enter, Doing, GoTo
<1>2. /\ pc \in 1..Len(Steps) /\ pc \in Nat \ {0} /\ Len(Steps) \in Nat
      /\ Nested(plugin) /\ plugin \in DOMAIN Plugins /\ A \in Seq(Nat) /\ item \in Seq(Nat)
      /\ item \in Seq(1..Many) /\ Len(item) = Len(A) /\ Len(A) \in Nat /\ Depth(plugin, pc) = Len(A)
  BY <1>1, HereFacts DEF Kept
<1>3. CASE Damaged /\ GoTo(pc + Steps[pc].skip + 1) /\ UNCHANGED item
  <2> DEFINE to == <<pc + Steps[pc].skip + 1, Depth(plugin, pc)>>
  <2>1. to \in Jumps(plugin, pc)
    BY <1>1, WhereJumpsLead DEF Steps
  <2>2. pc' = to[1] /\ item' = SubSeq(item, 1, to[2])
    <3>1. SubSeq(item, 1, Depth(plugin, pc)) = item
      BY <1>2, SubSeqFull
    <3> QED BY <1>3, <3>1 DEF GoTo
  <2>3. Fails
    BY <1>1, <1>3 DEF Fails
  <2> HIDE DEF to
  <2> QED BY <1>1, <2>1, <2>2, <2>3, JumpKeeps
<1>4. CASE GoTo(pc + 1) /\ item' = Append(item, 1)
  <2>1. Around(plugin, pc + 1) = Append(A, pc)
    BY <1>1, <1>2 DEF Nested, Steps
  <2>2. Chosen(pc + 1)
    BY <1>1, NextIsChosen
  <2>3. 1 \in 1..Many
    BY ListingAssumption
  <2>4. Append(item, 1) \in Seq(1..Many) /\ Len(Append(item, 1)) = Len(Append(A, pc))
    BY <1>2, <2>3, AppendProperties
  <2>5. ASSUME plugin \notin Hiding, NEW row \in Expected,
               Passed(Append(A, pc), pc + 1, Append(item, 1), Around(plugin, row[1]), row[1], row[2])
        PROVE  row \in rows \/ Excused(row)
    <3> DEFINE j == row[1]
               at == row[2]
               B == Around(plugin, row[1])
    <3>1. /\ j \in 1..Len(Steps) /\ Steps[j].op \in {"row", "file"} /\ at \in Seq(Nat \ {0})
          /\ Len(at) = Len(B) /\ j \in Nat
      BY <1>2, RowFacts
    <3>2. B \in Seq(Nat) /\ j # pc
      BY <1>1, <1>2, <3>1, AroundIsSeq
    <3>3. Passed(Append(A, pc), pc + 1, Append(item, 1), B, j, at)
      BY <2>5
    <3>4. Passed(A, pc, item, B, j, at)
      <4> HIDE DEF A, B, j, at
      <4> QED BY <1>2, <3>1, <3>2, <3>3, PassEnter
    <3> QED BY <1>1, <2>5, <3>4 DEF Kept
  <2>6. pc + 1 \in 1..(Len(Steps) + 1)
    BY <1>2
  <2>7. pc' = pc + 1 /\ item' = Append(item, 1)
    BY <1>4 DEF GoTo
  <2> QED BY <1>1, <2>1, <2>2, <2>4, <2>5, <2>6, <2>7, GoingOnKeeps
<1> QED
  BY <1>3, <1>4 DEF Enter

\* A sequence that is not empty is its front and its last.
LEMMA FrontAndLast ==
    ASSUME NEW S, NEW q \in Seq(S), NEW n \in Nat, Len(q) = n + 1
    PROVE  /\ Front(q) \in Seq(S) /\ Len(Front(q)) = n /\ Last(q) \in S
           /\ q = Append(Front(q), Last(q))
<1>1. /\ Front(q) = SubSeq(q, 1, n) /\ Last(q) = q[n + 1]
  BY DEF Front, Last
<1>2. \A m \in 1..(n + 1) : q[m] \in S
  BY ElementOfSeq
<1>3. /\ 1 \in Int /\ n \in Int /\ n - 1 + 1 = n /\ (n = 0 \/ 1 <= n) /\ ~ (1 <= 0)
      /\ \A m \in 1..n : 1 + m - 1 = m /\ m \in 1..(n + 1)
  OBVIOUS
<1>4. /\ SubSeq(q, 1, n) \in Seq(S)
      /\ Len(SubSeq(q, 1, n)) = (IF 1 <= n THEN n - 1 + 1 ELSE 0)
      /\ \A m \in 1..(n - 1 + 1) : SubSeq(q, 1, n)[m] = q[1 + m - 1]
  BY <1>2, <1>3, SubSeqProperties
<1>5. Front(q) \in Seq(S) /\ Len(Front(q)) = n /\ \A m \in 1..n : Front(q)[m] = q[m]
  BY <1>1, <1>3, <1>4
<1>6. Last(q) \in S
  <2>1. n + 1 \in 1..(n + 1)
    OBVIOUS
  <2> QED BY <1>1, <1>2, <2>1
<1>7. /\ Append(Front(q), Last(q)) \in Seq(S) /\ Len(Append(Front(q), Last(q))) = n + 1
      /\ \A m \in 1..n : Append(Front(q), Last(q))[m] = q[m]
      /\ Append(Front(q), Last(q))[n + 1] = q[n + 1]
  BY <1>1, <1>5, <1>6, AppendProperties
<1>8. \A m \in 1..(n + 1) : Append(Front(q), Last(q))[m] = q[m]
  <2>1. \A m \in 1..(n + 1) : m \in 1..n \/ m = n + 1
    OBVIOUS
  <2> QED BY <1>7, <2>1
<1>9. q = Append(Front(q), Last(q))
  BY <1>7, <1>8, SeqEqual
<1> QED
  BY <1>5, <1>6, <1>9

\* The next item of a loop is taken, or the loop left behind its last.
LEMMA NextLosesNone ==
    ASSUME Kept, NextItem
    PROVE  Kept'
<1> DEFINE A == Around(plugin, pc + 1)
           l == pc - Steps[pc].skip - 1
           it == Front(item)
           x == Last(item)
<1>1. /\ outcome = "running" /\ pc <= Len(Steps)
      /\ UNCHANGED <<plugin, flags, damage, unwanted, rows, outcome>> /\ Steps[pc].op = "next"
  BY DEF NextItem, Doing, GoTo
<1>2. /\ pc \in 1..Len(Steps) /\ pc \in Nat \ {0} /\ Len(Steps) \in Nat
      /\ Nested(plugin) /\ plugin \in DOMAIN Plugins
      /\ Steps[pc].skip \in Nat /\ Steps[pc].skip < pc
      /\ item \in Seq(1..Many) /\ Len(item) = Len(Around(plugin, pc))
  BY <1>1, HereFacts, ListingAssumption DEF Kept, Steps
<1>3. /\ Around(plugin, pc) = Append(A, l)
      /\ Around(plugin, pc - Steps[pc].skip) = Around(plugin, pc)
      /\ Steps[l].skip = Steps[pc].skip + 1
      /\ Options(Steps, pc - Steps[pc].skip) \subseteq Options(Steps, pc)
  BY <1>1, <1>2 DEF Nested, Steps
<1>4. /\ l \in Nat /\ l < pc /\ l + 1 = pc - Steps[pc].skip /\ l + Steps[l].skip = pc
      /\ l + 1 \in 1..(Len(Steps) + 1)
  <2> DEFINE u == Steps[pc].skip
             v == Steps[l].skip
             n == Len(Steps)
  <2>1. u \in Nat /\ u < pc /\ v = u + 1 /\ l = pc - u - 1 /\ pc \in 1..n /\ n \in Nat
    BY <1>2, <1>3
  <2>2. l \in Nat /\ l < pc /\ l + 1 = pc - u /\ l + v = pc /\ l + 1 \in 1..(n + 1)
    <3> HIDE DEF u, v, l, n
    <3> QED BY <2>1
  <2> QED BY <2>2
<1>5. pc + 1 \in Nat /\ pc + 1 \in 1..(Len(Steps) + 1)
  BY <1>2
<1>6. A \in Seq(Nat) /\ Len(A) \in Nat
  BY <1>2, <1>5, AroundIsSeq
<1>7. Len(Append(A, l)) = Len(A) + 1
  <2> HIDE DEF A, l
  <2> QED BY <1>4, <1>6, AppendProperties
<1>8. /\ it \in Seq(1..Many) /\ Len(it) = Len(A) /\ x \in 1..Many /\ item = Append(it, x)
  <2> HIDE DEF A, l
  <2> QED BY <1>2, <1>3, <1>6, <1>7, FrontAndLast
<1>9. Many \in Nat \ {0} /\ x \in Nat /\ it \in Seq(Nat)
  <2>1. Many \in Nat \ {0} /\ \A y \in 1..Many : y \in Nat
    BY ListingAssumption
  <2> HIDE DEF it, x
  <2> QED BY <1>8, <2>1, SeqMonotonic
\* What is passed then is passed here.
<1>10. ASSUME NEW row \in Expected,
              \/ Passed(Append(A, l), l + 1, Append(it, x + 1), Around(plugin, row[1]), row[1], row[2])
              \/ x = Many /\ Passed(A, pc + 1, it, Around(plugin, row[1]), row[1], row[2])
       PROVE  Passed(Append(A, l), pc, Append(it, x), Around(plugin, row[1]), row[1], row[2])
  <2> DEFINE j == row[1]
             at == row[2]
             B == Around(plugin, row[1])
  <2>1. /\ j \in 1..Len(Steps) /\ Steps[j].op \in {"row", "file"} /\ at \in Seq(Nat)
        /\ at \in Seq(1..Many) /\ Len(at) = Len(B) /\ j \in Nat
    BY <1>2, RowFacts
  <2>2. B \in Seq(Nat) /\ Len(B) \in Nat /\ j # pc
    BY <1>1, <1>2, <2>1, AroundIsSeq
  <2>3. Agree(B, Append(A, l), Len(A) + 1) => l < j /\ j <= pc
    <3> SUFFICES ASSUME Agree(B, Append(A, l), Len(A) + 1) PROVE l < j /\ j <= pc
      OBVIOUS
    <3>1. Len(A) + 1 \in 1..(Len(A) + 1) /\ Len(A) + 1 <= Len(B)
      <4> HIDE DEF A, B, l
      <4> QED BY <1>6 DEF Agree
    <3>2. B[Len(A) + 1] = Append(A, l)[Len(A) + 1]
      <4> HIDE DEF A, B, l
      <4> QED BY <3>1 DEF Agree
    <3>3. Append(A, l)[Len(A) + 1] = l
      <4> HIDE DEF A, l
      <4> QED BY <1>4, <1>6, AppendProperties
    <3>4. Len(A) + 1 \in 1..Depth(plugin, j)
      <4>1. Depth(plugin, j) = Len(B)
        BY <1>2, <2>1, AroundFacts DEF Steps
      <4>2. Len(A) + 1 \in 1..Len(B)
        <5> HIDE DEF A, B
        <5> QED BY <1>6, <2>2, <3>1
      <4> QED BY <4>1, <4>2
    <3>5. l \in Inside(Steps, {"each"}, j)
      <4>1. \A m \in 1..Depth(plugin, j) : B[m] \in Inside(Steps, {"each"}, j)
        BY <1>2, <2>1, AroundFacts DEF Steps
      <4>2. B[Len(A) + 1] \in Inside(Steps, {"each"}, j)
        BY <3>4, <4>1
      <4> HIDE DEF l, A, B
      <4> QED BY <3>2, <3>3, <4>2
    <3>6. l \in 1..(j - 1) /\ j <= l + Steps[l].skip
      <4> HIDE DEF l, j
      <4> QED BY <3>5 DEF Inside
    <3>7. l < j
      <4> HIDE DEF l, j
      <4> QED BY <2>1, <3>6
    <3>8. j <= pc
      BY <1>4, <3>6
    <3> QED BY <3>7, <3>8
  <2>4. \A k \in 1..Len(at) : at[k] <= Many
    <3>1. \A k \in 1..Len(at) : at[k] \in 1..Many
      BY <2>1, ElementOfSeq
    <3>2. \A y \in 1..Many : y <= Many
      BY <1>9
    <3> QED BY <3>1, <3>2
  <2>5. \/ Passed(Append(A, l), l + 1, Append(it, x + 1), B, j, at)
        \/ /\ Passed(A, pc + 1, it, B, j, at)
           /\ \A k \in 1..Len(at) : at[k] <= x
    BY <1>10, <2>4
  <2>6. Passed(Append(A, l), pc, Append(it, x), B, j, at)
    <3>1. pc \in Nat /\ pc # j
      BY <1>2, <2>2
    <3>2. j \in Nat /\ at \in Seq(Nat) /\ Len(at) = Len(B)
      BY <2>1
    <3> HIDE DEF A, l, it, x, B, j, at
    <3> QED BY <1>4, <1>6, <1>8, <1>9, <2>2, <2>3, <2>5, <3>1, <3>2, PassNext
  <2> QED BY <2>6
<1>11. ASSUME plugin \notin Hiding, NEW row \in Expected,
              Passed(Append(A, l), pc, Append(it, x), Around(plugin, row[1]), row[1], row[2])
       PROVE  row \in rows \/ Excused(row)
  <2>1. Passed(Around(plugin, pc), pc, item, Around(plugin, row[1]), row[1], row[2])
    BY <1>3, <1>8, <1>11
  <2> QED BY <1>1, <1>11, <2>1 DEF Kept
<1>12. CASE x < Many /\ GoTo(pc - Steps[pc].skip) /\ item' = Append(it, x + 1)
  <2>1. x + 1 \in 1..Many
    <3> HIDE DEF x
    <3> QED BY <1>9, <1>12
  <2>2. /\ Append(it, x + 1) \in Seq(1..Many)
        /\ Len(Append(it, x + 1)) = Len(A) + 1
    <3> HIDE DEF it, x, A
    <3> QED BY <1>8, <2>1, AppendProperties
  <2>3. Chosen(l + 1)
    BY <1>1, <1>3, <1>4, FewerAreChosen DEF Kept
  <2>4. pc' = l + 1 /\ Around(plugin, l + 1) = Append(A, l) /\ item' = Append(it, x + 1)
    BY <1>3, <1>4, <1>12 DEF GoTo
  <2>5. ASSUME plugin \notin Hiding, NEW row \in Expected,
               Passed(Append(A, l), l + 1, Append(it, x + 1), Around(plugin, row[1]), row[1], row[2])
        PROVE  row \in rows \/ Excused(row)
    BY <1>10, <1>11, <2>5
  <2> HIDE DEF A, l, it, x
  <2> QED BY <1>1, <1>4, <1>7, <2>2, <2>3, <2>4, <2>5, GoingOnKeeps
<1>13. CASE ~ (x < Many) /\ GoTo(pc + 1) /\ item' = it
  <2>1. x = Many
    <3> HIDE DEF x
    <3> QED BY <1>8, <1>9, <1>13
  <2>2. Chosen(pc + 1)
    BY <1>1, NextIsChosen
  <2>3. ASSUME plugin \notin Hiding, NEW row \in Expected,
               Passed(A, pc + 1, it, Around(plugin, row[1]), row[1], row[2])
        PROVE  row \in rows \/ Excused(row)
    BY <1>10, <1>11, <2>1, <2>3
  <2>4. pc' = pc + 1 /\ item' = it
    BY <1>13 DEF GoTo
  <2> QED BY <1>1, <1>5, <1>8, <2>2, <2>3, <2>4, GoingOnKeeps
<1> QED
  BY <1>12, <1>13 DEF NextItem

\* What is under an option that is not set is not expected.
LEMMA ChooseLosesNone ==
    ASSUME Kept, Choose
    PROVE  Kept'
<1> DEFINE A == Around(plugin, pc)
           to == pc + Steps[pc].skip + 1
<1>1. /\ outcome = "running" /\ pc <= Len(Steps)
      /\ UNCHANGED <<plugin, flags, damage, unwanted, item, rows, outcome>>
      /\ Steps[pc].op \in {"when", "unless", "try"}
  BY DEF Choose, Doing, GoTo
<1>2. /\ pc \in 1..Len(Steps) /\ pc \in Nat \ {0} /\ Len(Steps) \in Nat
      /\ Nested(plugin) /\ plugin \in DOMAIN Plugins /\ Steps[pc].skip \in Nat
      /\ item \in Seq(1..Many) /\ Len(item) = Len(A)
  BY <1>1, HereFacts DEF Kept
<1>3. CASE /\ Steps[pc].op = "try" \/ (Steps[pc].op = "when") = (Steps[pc].what \subseteq flags)
           /\ GoTo(pc + 1)
  BY <1>1, <1>3, StraightKeeps DEF GoTo
<1>4. CASE /\ Steps[pc].op # "try"
           /\ (Steps[pc].op = "when") # (Steps[pc].what \subseteq flags)
           /\ GoTo(to)
  <2>1. /\ Around(plugin, to) = A /\ pc + Steps[pc].skip <= Len(Steps)
        /\ Options(Steps, to) \subseteq Options(Steps, pc)
    BY <1>1, <1>2, <1>4 DEF Nested, Steps
  <2>2. Chosen(to)
    BY <2>1, <1>1, FewerAreChosen DEF Kept
  <2>3. to \in 1..(Len(Steps) + 1)
    BY <1>2, <2>1
  <2>4. ASSUME plugin \notin Hiding, NEW row \in Expected,
               Passed(A, to, item, Around(plugin, row[1]), row[1], row[2])
        PROVE  row \in rows \/ Excused(row)
    <3> DEFINE j == row[1]
               at == row[2]
               B == Around(plugin, row[1])
    <3>1. /\ j \in 1..Len(Steps) /\ Steps[j].op \in {"row", "file"} /\ Chosen(j)
      BY <1>2, RowFacts
    <3>2. ~ (pc < j /\ j < to)
      <4> SUFFICES ASSUME pc < j, j < to PROVE FALSE
        OBVIOUS
      <4>1. pc \in 1..(j - 1) /\ j <= pc + Steps[pc].skip
        <5> HIDE DEF j
        <5> QED BY <1>2, <3>1
      <4>2. pc \in Inside(Steps, {Steps[pc].op}, j)
        BY <4>1 DEF Inside
      <4>3. CASE Steps[pc].op = "when"
        BY <1>4, <3>1, <4>2, <4>3 DEF Chosen
      <4>4. CASE Steps[pc].op = "unless"
        BY <1>4, <3>1, <4>2, <4>4 DEF Chosen
      <4> QED BY <1>1, <1>4, <4>3, <4>4
    <3>3. pc # j
      BY <1>1, <3>1
    <3>4. j < to => j < pc
      <4> HIDE DEF j
      <4> QED BY <1>2, <3>1, <3>2, <3>3
    <3>5. Passed(A, pc, item, B, j, at)
      <4> HIDE DEF A, B, j, at, to
      <4> QED BY <2>4, <3>4 DEF Passed, A, B, j, at
    <3> QED BY <1>1, <2>4, <3>5 DEF Kept
  <2>5. pc' = to
    BY <1>4 DEF GoTo
  <2> HIDE DEF to
  <2> QED BY <1>1, <1>2, <2>1, <2>2, <2>3, <2>4, <2>5, GoingOnKeeps
<1> QED
  BY <1>3, <1>4 DEF Choose

LEMMA PushLosesNone ==
    ASSUME Kept, Push
    PROVE  Kept'
<1>1. /\ outcome = "running" /\ pc <= Len(Steps) /\ Steps[pc].op \in {"row", "file"}
      /\ UNCHANGED <<plugin, flags, damage, unwanted, outcome, item>> /\ pc' = pc + 1
      /\ rows' = rows \cup {<<pc, item>>}
  BY DEF Push, Doing, GoTo
<1> QED
  BY <1>1, StraightKeeps

LEMMA FinishLosesNone ==
    ASSUME Kept, Finish
    PROVE  Kept'
<1>1. Len(Steps) \in Nat /\ plugin \in DOMAIN Plugins
  BY ListingAssumption DEF Kept, Steps
<1>2. Around(plugin, pc) = <<>>
  BY <1>1 DEF Around, Finish, Steps
<1>3. Len(item) = 0
  BY <1>2, EmptySeq DEF Kept
<1>4. ASSUME plugin \notin Hiding, NEW row \in Expected PROVE row \in rows \/ Excused(row)
  <2>1. Passed(Around(plugin, pc), pc, item, Around(plugin, row[1]), row[1], row[2])
    BY <1>1, <1>3, AllIsPassed DEF Finish
  <2> QED BY <1>4, <2>1 DEF Kept, Finish
<1> QED
  BY <1>4, EndKeeps DEF Finish

\* At the first step nothing is past, and no option is asked for.
LEMMA InitLosesNone ==
    ASSUME Init
    PROVE  Kept
<1>1. plugin \in DOMAIN Plugins /\ pc = 1 /\ item = <<>> /\ outcome = "running"
  BY DEF Init
<1>2. Len(Steps) \in Nat
  BY <1>1, ListingAssumption DEF Steps
<1>3. \A ops : Inside(Steps, ops, 1) = {}
  BY DEF Inside
<1>4. Chosen(1)
  BY <1>3 DEF Chosen
<1>5. Len(Around(plugin, 1)) = 0 /\ Len(item) = 0
  <2>1. CASE 1 \in 1..Len(Plugins[plugin])
    <3>1. \A m \in 1..Depth(plugin, 1) : Around(plugin, 1)[m] \in {}
      BY <1>1, <1>3, <2>1, AroundFacts DEF Steps
    <3>2. Depth(plugin, 1) \in Nat /\ Depth(plugin, 1) = Len(Around(plugin, 1))
      BY <1>1, <2>1, AroundFacts
    <3>3. ~ (1 \in 1..Depth(plugin, 1))
      BY <3>1
    <3> QED BY <1>1, <3>2, <3>3, EmptySeq
  <2>2. CASE ~ (1 \in 1..Len(Plugins[plugin]))
    BY <1>1, <2>2, EmptySeq DEF Around
  <2> QED BY <2>1, <2>2
<1>6. \A row \in Expected : ~ Passed(Around(plugin, 1), 1, item, Around(plugin, row[1]), row[1], row[2])
  <2> SUFFICES ASSUME NEW row \in Expected,
                      Passed(Around(plugin, 1), 1, item, Around(plugin, row[1]), row[1], row[2])
               PROVE  FALSE
    OBVIOUS
  <2>1. row[1] < 1
    BY <1>5 DEF Passed
  <2>2. row[1] \in 1..Len(Steps)
    BY <1>1, RowFacts
  <2> QED BY <2>1, <2>2
<1>7. DamageIsLocal
  BY <1>1 DEF DamageIsLocal
<1>8. item \in Seq(1..Many) /\ 1 \in 1..(Len(Steps) + 1)
  BY <1>1, <1>2, EmptySeq
<1> QED
  BY <1>1, <1>4, <1>5, <1>6, <1>7, <1>8 DEF Kept

\* However long the lists are and whatever is damaged, a listing has what it has passed.
THEOREM KeepsInvariance == Spec => []Kept
<1>1. Init => Kept
  BY InitLosesNone
<1>2. Kept /\ [Next]_vars => Kept'
  <2> SUFFICES ASSUME Kept, [Next]_vars PROVE Kept'
    OBVIOUS
  <2>1. CASE Read
    BY <2>1, ReadLosesNone
  <2>2. CASE Test
    BY <2>2, TestLosesNone
  <2>3. CASE Enter
    BY <2>3, EnterLosesNone
  <2>4. CASE NextItem
    BY <2>4, NextLosesNone
  <2>5. CASE Choose
    BY <2>5, ChooseLosesNone
  <2>6. CASE Push
    BY <2>6, PushLosesNone
  <2>7. CASE Finish
    BY <2>7, FinishLosesNone
  <2>8. CASE UNCHANGED vars
    <3>1. UNCHANGED <<plugin, flags, damage, unwanted, pc, item, rows, outcome>>
      BY <2>8 DEF vars
    <3>2. DamageIsLocal' <=> DamageIsLocal
      BY <3>1, SameImage DEF DamageIsLocal
    <3>3. Chosen(pc)' <=> Chosen(pc)
      BY <3>1 DEF Chosen, Steps
    <3> QED BY <3>1, <3>2, <3>3, SameImage DEF Kept
  <2> QED
    BY <2>1, <2>2, <2>3, <2>4, <2>5, <2>6, <2>7, <2>8 DEF Next
<1> QED
  BY <1>1, <1>2, PTL DEF Spec

\* Damage in one process, module or file hides no other: a listing given as whole has the
\* row of every item that is sound, for lists of any length, in every plugin whose jumps
\* are as Local says (the continue, break, `?` and unwrap_or of Plugin::run).
THEOREM DamageStaysLocal == Spec => []DamageIsLocal
<1>1. Kept => DamageIsLocal
  BY DEF Kept
<1> QED
  BY <1>1, KeepsInvariance, PTL
=============================================================================
