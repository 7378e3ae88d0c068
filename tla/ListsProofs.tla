----------------------------- MODULE ListsProofs -----------------------------
(***************************************************************************)
(* That _nest_list_items puts every item under the nearest item before it  *)
(* with a lower level, for all lists, that what                            *)
(* resolve_list_continuations does afterwards leaves it there, that this   *)
(* attaches a block to the last item of the list before it, and that       *)
(* nothing else is moved or lost.                                          *)
(***************************************************************************)
EXTENDS Lists, SequenceTheorems, WellFoundedInduction, TLAPS

-----------------------------------------------------------------------------
(* The inductive invariant                                                 *)

Levels(b) == doc[b].levels

\* The item that is next, or the first item of a list that may be next.
Place ==
  /\ next = <<next[1], next[2]>>
  /\ next[1] \in 1 .. Len(doc) + 1 /\ next[2] \in Nat \ {0}
  /\ IF next[1] <= Len(doc) /\ IsList(next[1])
       THEN next[2] <= Len(Levels(next[1])) ELSE next[2] = 1

Types ==
  /\ doc \in Seq(Block) /\ i \in 1 .. Len(doc) + 1
  /\ kids \in [Nodes -> Seq(Nodes)]
  /\ resolved \in Seq({<<b, 0>> : b \in 1 .. Len(doc)})

OpenList == [level : Nat, last : Nat \X Nat]

\* The stack has an item of each open list: items that are nested already, of
\* ascending numbers and levels.
OpenLists ==
  /\ stack \in Seq(OpenList)
  /\ \A n \in 1 .. Len(stack) :
       /\ stack[n].last[1] = next[1]
       /\ stack[n].last[2] \in 1 .. next[2] - 1
       /\ stack[n].level = Levels(next[1])[stack[n].last[2]]
  /\ \A m, n \in 1 .. Len(stack) :
       m < n => stack[m].level < stack[n].level /\ stack[m].last[2] < stack[n].last[2]

\* Every item nested so far has one on the stack that is not before it and not
\* deeper.
Covered ==
  \A j \in 1 .. next[2] - 1 : \E n \in 1 .. Len(stack) :
    stack[n].last[2] >= j /\ stack[n].level <= Levels(next[1])[j]

\* j is the nearest item before k of a lower level.
Nearest(b, k, j) == /\ j < k /\ Levels(b)[j] < Levels(b)[k]
                    /\ \A m \in j + 1 .. k - 1 : Levels(b)[m] >= Levels(b)[k]

IsNested(b, k) == b < next[1] \/ (b = next[1] /\ k < next[2])

\* The items that are nested are where they belong, the others nowhere.
Placed ==
  \A b \in 1 .. Len(doc) : IsList(b) =>
    \A k, j \in 1 .. Len(Levels(b)) :
      <<b, k>> \in Range(kids[<<b, j>>]) <=> IsNested(b, k) /\ Nearest(b, k, j)

NestInv == Types /\ Place /\ OpenLists /\ Covered /\ Placed

-----------------------------------------------------------------------------
(* Blocks, nodes and the open lists                                        *)

LEMMA ListFacts ==
  ASSUME doc \in Seq(Block), NEW b \in 1 .. Len(doc), IsList(b)
  PROVE  /\ Levels(b) \in Seq(Nat) /\ Len(Levels(b)) \in Nat \ {0}
         /\ \A k \in 1 .. Len(Levels(b)) : Levels(b)[k] \in Nat /\ <<b, k>> \in Nodes
<1>1. doc[b] \in Block /\ doc[b].kind = "list"
  BY DEF IsList
<1>2. doc[b].levels \in Seq(Nat) \ {<<>>}
  BY <1>1 DEF Block
<1>3. Items(b) = {b} \X (1 .. Len(Levels(b)))
  BY DEF Items, Levels
<1>4. \A k \in 1 .. Len(Levels(b)) : <<b, k>> \in Nodes
  BY <1>3 DEF Nodes
<1> QED BY <1>2, <1>4 DEF Levels

LEMMA BlocksAreNodes == \A b \in 1 .. Len(doc) : <<b, 0>> \in Nodes
BY DEF Nodes

\* A set of numbers up to N has a largest one.
LEMMA Largest ==
  ASSUME NEW N \in Nat, NEW S \in SUBSET (0 .. N), S # {}
  PROVE  Max(S) \in S /\ \A y \in S : y <= Max(S)
<1> DEFINE R == OpToRel(<, Nat)
           T == {N - y : y \in S}
<1>1. \A m, n \in Nat : m < n => <<m, n>> \in R
  BY DEF OpToRel
<1>2. T \in SUBSET Nat /\ T # {}
  <2>1. \A y \in S : N - y \in Nat
    OBVIOUS
  <2> QED BY <2>1
<1>3. IsWellFoundedOn(R, Nat)
  BY NatLessThanWellFounded
<1> HIDE DEF R
<1>4. PICK t \in T : \A u \in T : ~ (<<u, t>> \in R)
  <2> HIDE DEF T
  <2> QED BY <1>2, <1>3, WFMin
<1>5. PICK x \in S : t = N - x
  OBVIOUS
<1>6. \A y \in S : x >= y
  <2> SUFFICES ASSUME NEW y \in S, ~ (x >= y) PROVE FALSE
    OBVIOUS
  <2>1. N - y \in T /\ N - y \in Nat /\ t \in Nat /\ N - y < t
    BY <1>5
  <2> QED BY <1>1, <1>4, <2>1
<1>7. \E z \in S : \A y \in S : z >= y
  BY <1>6
<1>8. Max(S) \in S /\ \A y \in S : Max(S) >= y
  BY <1>7 DEF Max
<1> QED BY <1>8

\* The level of the item that is next, and the lists outside of its own.
Level == Levels(next[1])[next[2]]
Outer == LET open == Open(Level)
         IN  IF open # <<>> /\ Last(open).level = Level THEN Front(open) ELSE open

\* They are the open lists of a lower level.
OuterAre(q) == /\ q \in 0 .. Len(stack) /\ Outer = SubSeq(stack, 1, q)
               /\ \A n \in 1 .. Len(stack) : n <= q <=> stack[n].level < Level

Nesting == next[1] <= Len(doc) /\ IsList(next[1])

LEMMA PlaceFacts ==
  ASSUME NestInv, Nesting
  PROVE  /\ next[1] \in 1 .. Len(doc) /\ next[2] \in 1 .. Len(Levels(next[1]))
         /\ Level \in Nat /\ next \in Nodes /\ next = <<next[1], next[2]>>
         /\ Len(Levels(next[1])) \in Nat
         /\ \A k \in 1 .. Len(Levels(next[1])) : Levels(next[1])[k] \in Nat
<1>1. /\ doc \in Seq(Block) /\ next[1] \in 1 .. Len(doc)
      /\ next[2] \in Nat \ {0} /\ next[2] <= Len(Levels(next[1]))
      /\ next = <<next[1], next[2]>>
  BY DEF NestInv, Types, Place, Nesting
<1>2. /\ Len(Levels(next[1])) \in Nat
      /\ \A k \in 1 .. Len(Levels(next[1])) :
           Levels(next[1])[k] \in Nat /\ <<next[1], k>> \in Nodes
  BY <1>1, ListFacts DEF Nesting
<1>3. next[2] \in 1 .. Len(Levels(next[1]))
  BY <1>1, <1>2
<1> QED BY <1>1, <1>2, <1>3 DEF Level

LEMMA StackFacts ==
  ASSUME NestInv
  PROVE  /\ Len(stack) \in Nat
         /\ \A n \in 1 .. Len(stack) :
              /\ stack[n].level \in Nat /\ stack[n].last = <<next[1], stack[n].last[2]>>
              /\ stack[n].last[2] \in 1 .. next[2] - 1
              /\ stack[n].level = Levels(next[1])[stack[n].last[2]]
<1>1. stack \in Seq(OpenList)
  BY DEF NestInv, OpenLists
<1>2. \A n \in 1 .. Len(stack) : stack[n].level \in Nat /\ stack[n].last \in Nat \X Nat
  <2>1. \A n \in 1 .. Len(stack) : stack[n] \in OpenList
    BY <1>1, ElementOfSeq
  <2> QED BY <2>1 DEF OpenList
<1>3. \A n \in 1 .. Len(stack) : /\ stack[n].last[1] = next[1]
                                 /\ stack[n].last[2] \in 1 .. next[2] - 1
                                 /\ stack[n].level = Levels(next[1])[stack[n].last[2]]
  BY DEF NestInv, OpenLists
<1>4. \A x \in Nat \X Nat : x = <<x[1], x[2]>>
  OBVIOUS
<1>5. \A n \in 1 .. Len(stack) : stack[n].last = <<next[1], stack[n].last[2]>>
  BY <1>2, <1>3, <1>4
<1>6. Len(stack) \in Nat
  BY <1>1
<1> QED BY <1>2, <1>3, <1>5, <1>6

\* t is the first n elements of s.
Begins(t, s, n) == /\ Len(t) = n /\ \A m \in 1 .. n : t[m] = s[m]
                   /\ t = <<>> <=> n = 0
                   /\ n # 0 => Last(t) = s[n] /\ Front(t) = SubSeq(s, 1, n - 1)

LEMMA PrefixFacts ==
  ASSUME NEW S, NEW s \in Seq(S), NEW n \in 0 .. Len(s)
  PROVE  SubSeq(s, 1, n) \in Seq(S) /\ Begins(SubSeq(s, 1, n), s, n)
<1>1. n \in Nat /\ Len(s) \in Nat /\ n <= Len(s)
  OBVIOUS
<1>2. /\ SubSeq(s, 1, n) \in Seq(S) /\ Len(SubSeq(s, 1, n)) = n
      /\ \A m \in 1 .. n : SubSeq(s, 1, n)[m] = s[m]
  BY <1>1
<1>3. n # 0 => n \in 1 .. n
  BY <1>1
<1>4. n # 0 => Last(SubSeq(s, 1, n)) = s[n]
  BY <1>2, <1>3 DEF Last
<1>5. SubSeq(SubSeq(s, 1, n), 1, n - 1) = SubSeq(s, 1, n - 1)
  BY <1>1
<1>6. Front(SubSeq(s, 1, n)) = SubSeq(s, 1, n - 1)
  BY <1>2, <1>5 DEF Front
<1> QED BY <1>1, <1>2, <1>4, <1>6 DEF Begins

\* The last number up to L of an ascending sequence of numbers, and the last
\* one below L.
Ascending(f, N) == f \in [1 .. N -> Nat] /\ \A m, n \in 1 .. N : m < n => f[m] < f[n]

LastTo(f, N, L)   == Max({0} \cup {n \in 1 .. N : f[n] <= L})
UpTo(f, N, L, p)  == p \in 0 .. N /\ \A n \in 1 .. N : n <= p <=> f[n] <= L
Below(f, N, L, q) == q \in 0 .. N /\ \A n \in 1 .. N : n <= q <=> f[n] < L

LEMMA LastUpTo ==
  ASSUME NEW N \in Nat, NEW f, Ascending(f, N), NEW L \in Nat
  PROVE  UpTo(f, N, L, LastTo(f, N, L))
<1> PICK p : p = LastTo(f, N, L)
  OBVIOUS
<1> DEFINE S == {0} \cup {n \in 1 .. N : f[n] <= L}
<1>1. S \in SUBSET (0 .. N) /\ S # {}
  OBVIOUS
<1>2. p \in S /\ \A y \in S : y <= p
  <2>1. p = Max(S)
    BY DEF LastTo
  <2> HIDE DEF S
  <2> QED BY <1>1, <2>1, Largest
<1>3. p \in 0 .. N
  BY <1>1, <1>2
<1> SUFFICES ASSUME NEW n \in 1 .. N PROVE n <= p <=> f[n] <= L
  BY <1>3 DEF UpTo
<1>4. f[n] <= L => n <= p
  BY <1>2
<1>5. ASSUME n <= p PROVE f[n] <= L
  <2>1. p \in 1 .. N /\ f[p] <= L
    BY <1>2, <1>3, <1>5
  <2>2. n = p \/ f[n] < f[p]
    BY <1>3, <1>5, <2>1 DEF Ascending
  <2>3. f[n] \in Nat /\ f[p] \in Nat
    BY <2>1 DEF Ascending
  <2> HIDE DEF S
  <2> QED BY <2>1, <2>2, <2>3
<1> QED BY <1>4, <1>5

LEMMA LastBelow ==
  ASSUME NEW N \in Nat, NEW f, Ascending(f, N), NEW L \in Nat, NEW p \in 0 .. N,
         UpTo(f, N, L, p)
  PROVE  Below(f, N, L, IF p # 0 /\ f[p] = L THEN p - 1 ELSE p)
<1>0. \A n \in 1 .. N : n <= p <=> f[n] <= L
  BY DEF UpTo
<1>1. CASE p # 0 /\ f[p] = L
  <2>1. p \in 1 .. N /\ p - 1 \in 0 .. N
    BY <1>1
  <2>2. ASSUME NEW n \in 1 .. N PROVE n <= p - 1 <=> f[n] < L
    <3>1. f[n] \in Nat /\ f[p] \in Nat
      BY <2>1 DEF Ascending
    <3>2. n < p => f[n] < f[p]
      BY <2>1 DEF Ascending
    <3>3. p < n => f[p] < f[n]
      BY <2>1 DEF Ascending
    <3> QED BY <1>1, <2>1, <3>1, <3>2, <3>3
  <2> QED BY <1>1, <2>1, <2>2 DEF Below
<1>2. CASE ~ (p # 0 /\ f[p] = L)
  <2>1. ASSUME NEW n \in 1 .. N PROVE n <= p <=> f[n] < L
    <3>1. CASE n <= p
      <4>1. p \in 1 .. N /\ f[n] \in Nat /\ f[p] \in Nat
        BY <3>1 DEF Ascending
      <4>2. f[p] < L
        BY <1>0, <1>2, <3>1, <4>1
      <4>3. n = p \/ f[n] < f[p]
        BY <3>1, <4>1 DEF Ascending
      <4> QED BY <3>1, <4>1, <4>2, <4>3
    <3>2. CASE ~ (n <= p)
      <4>1. f[n] \in Nat
        BY DEF Ascending
      <4> QED BY <1>0, <3>2, <4>1
    <3> QED BY <3>1, <3>2
  <2> QED BY <1>2, <2>1 DEF Below
<1> QED BY <1>1, <1>2

LEMMA OuterFacts ==
  ASSUME NestInv, Nesting PROVE \E q : OuterAre(q)
<1> PICK f : f = [n \in 1 .. Len(stack) |-> stack[n].level]
  OBVIOUS
<1> PICK p : p = LastTo(f, Len(stack), Level)
  OBVIOUS
<1> DEFINE q == IF p # 0 /\ f[p] = Level THEN p - 1 ELSE p
<1>1. Len(stack) \in Nat /\ stack \in Seq(OpenList) /\ Level \in Nat
  BY StackFacts, PlaceFacts DEF NestInv, OpenLists
<1>2. \A n \in 1 .. Len(stack) : f[n] = stack[n].level /\ f[n] \in Nat
  BY StackFacts
<1>3. Ascending(f, Len(stack))
  <2>1. f \in [1 .. Len(stack) -> Nat]
    BY <1>2
  <2>2. \A m, n \in 1 .. Len(stack) : m < n => f[m] < f[n]
    BY <1>2 DEF NestInv, OpenLists
  <2> QED BY <2>1, <2>2 DEF Ascending
<1>4. UpTo(f, Len(stack), Level, p) /\ p \in 0 .. Len(stack)
  <2>1. UpTo(f, Len(stack), Level, p)
    BY <1>1, <1>3, LastUpTo
  <2> QED BY <2>1 DEF UpTo
<1>5. Below(f, Len(stack), Level, q)
  BY <1>1, <1>3, <1>4, LastBelow
<1>6. Open(Level) = SubSeq(stack, 1, p)
  <2>1. {n \in 1 .. Len(stack) : stack[n].level <= Level} = {n \in 1 .. Len(stack) : f[n] <= Level}
    BY <1>2
  <2> QED BY <2>1 DEF Open, LastTo
<1>7. /\ Open(Level) = <<>> <=> p = 0
      /\ p # 0 => /\ Last(Open(Level)) = stack[p] /\ stack[p].level = f[p]
                  /\ Front(Open(Level)) = SubSeq(stack, 1, p - 1)
  <2>1. p # 0 => p \in 1 .. Len(stack)
    BY <1>4
  <2>2. Begins(Open(Level), stack, p)
    BY <1>1, <1>4, <1>6, PrefixFacts
  <2> QED BY <1>2, <2>1, <2>2 DEF Begins
<1>8. Outer = SubSeq(stack, 1, q)
  BY <1>6, <1>7 DEF Outer
<1>9. OuterAre(q)
  <2> HIDE DEF q
  <2> QED BY <1>2, <1>5, <1>8 DEF OuterAre, Below
<1> QED BY <1>9

\* The node that the next item goes under: the item of the innermost list that
\* stays open, or else the list itself.
Parent(q) == IF q = 0 THEN <<next[1], 0>> ELSE stack[q].last

LEMMA NestItemFacts ==
  ASSUME NestInv, NestItem
  PROVE  /\ Nesting
         /\ kids' = Under(IF Outer = <<>> THEN <<next[1], 0>> ELSE Last(Outer).last, next)
         /\ next[2] = Len(Levels(next[1])) =>
              next' = <<next[1] + 1, 1>> /\ stack' = <<>>
         /\ next[2] # Len(Levels(next[1])) =>
              /\ next' = <<next[1], next[2] + 1>>
              /\ stack' = Append(Outer, [level |-> Level, last |-> next])
         /\ UNCHANGED <<doc, i, resolved, active>>
BY DEF NestItem, Nesting, Outer, Level, Levels

LEMMA ParentFacts ==
  ASSUME NestInv, NestItem, NEW q, OuterAre(q)
  PROVE  /\ kids' = Under(Parent(q), next)
         /\ Parent(q) \in Nodes
         /\ q = 0 => Parent(q) = <<next[1], 0>>
         /\ q # 0 => Parent(q) = <<next[1], stack[q].last[2]>>
<1>1. Len(stack) \in Nat /\ stack \in Seq(OpenList) /\ q \in 0 .. Len(stack)
  BY StackFacts DEF NestInv, OpenLists, OuterAre
<1>2. /\ Len(Outer) = q /\ (Outer = <<>> <=> q = 0) /\ (q # 0 => Last(Outer) = stack[q])
  <2>1. Begins(Outer, stack, q)
    BY <1>1, PrefixFacts DEF OuterAre
  <2> QED BY <2>1 DEF Begins
<1>3. kids' = Under(Parent(q), next)
  BY <1>2, NestItemFacts DEF Parent
<1>4. q # 0 => Parent(q) = <<next[1], stack[q].last[2]>> /\ stack[q].last[2] \in 1 .. next[2] - 1
  BY <1>1, StackFacts DEF Parent
<1>5. Parent(q) \in Nodes
  <2>1. /\ next[1] \in 1 .. Len(doc) /\ next[2] \in 1 .. Len(Levels(next[1]))
        /\ Len(Levels(next[1])) \in Nat /\ doc \in Seq(Block) /\ IsList(next[1])
    BY NestItemFacts, PlaceFacts DEF NestInv, Types, Nesting
  <2>2. CASE q = 0
    BY <2>1, <2>2, BlocksAreNodes DEF Parent
  <2>3. CASE q # 0
    <3>1. stack[q].last[2] \in 1 .. Len(Levels(next[1]))
      BY <1>4, <2>1, <2>3
    <3> QED BY <1>4, <2>1, <2>3, <3>1, ListFacts
  <2> QED BY <2>2, <2>3
<1> QED BY <1>3, <1>4, <1>5 DEF Parent

\* The item goes under the nearest one before it that has a lower level.
LEMMA ParentIsNearest ==
  ASSUME NestInv, NestItem, NEW q, OuterAre(q),
         NEW j \in 1 .. Len(Levels(next[1]))
  PROVE  <<next[1], j>> = Parent(q) <=> Nearest(next[1], next[2], j)
<1> PICK b, k : b = next[1] /\ k = next[2]
  OBVIOUS
<1>1. /\ k \in 1 .. Len(Levels(b)) /\ Len(Levels(b)) \in Nat /\ Level = Levels(b)[k]
      /\ Level \in Nat /\ \A m \in 1 .. Len(Levels(b)) : Levels(b)[m] \in Nat
  BY NestItemFacts, PlaceFacts DEF Level
<1>2. /\ Len(stack) \in Nat
      /\ \A n \in 1 .. Len(stack) :
           /\ stack[n].level \in Nat /\ stack[n].last[2] \in 1 .. k - 1
           /\ stack[n].level = Levels(b)[stack[n].last[2]]
  BY StackFacts
<1>3. q \in 0 .. Len(stack) /\ \A n \in 1 .. Len(stack) : n <= q <=> stack[n].level < Level
  BY DEF OuterAre
<1>4. \A n \in 1 .. Len(stack) : n <= q => stack[n].last[2] <= stack[q].last[2]
  <2> SUFFICES ASSUME NEW n \in 1 .. Len(stack), n <= q
               PROVE  stack[n].last[2] <= stack[q].last[2]
    OBVIOUS
  <2>1. q \in 1 .. Len(stack) /\ (n = q \/ n < q)
    BY <1>2, <1>3
  <2>2. n < q => stack[n].last[2] < stack[q].last[2]
    BY <2>1 DEF NestInv, OpenLists
  <2>3. stack[n].last[2] \in Nat /\ stack[q].last[2] \in Nat
    BY <1>2, <2>1
  <2> QED BY <2>1, <2>2, <2>3
<1>5. \A m \in 1 .. k - 1 : Levels(b)[m] < Level =>
        q # 0 /\ m <= stack[q].last[2]
  <2> SUFFICES ASSUME NEW m \in 1 .. k - 1, Levels(b)[m] < Level
               PROVE  q # 0 /\ m <= stack[q].last[2]
    OBVIOUS
  <2>1. PICK n \in 1 .. Len(stack) : stack[n].last[2] >= m /\ stack[n].level <= Levels(b)[m]
    BY DEF NestInv, Covered
  <2>2. m \in 1 .. Len(Levels(b)) /\ Levels(b)[m] \in Nat
    BY <1>1
  <2>3. stack[n].level < Level
    BY SMTT(40), <1>1, <1>2, <2>1, <2>2
  <2>4. n <= q /\ q \in 1 .. Len(stack)
    BY SMTT(40), <1>2, <1>3, <2>3
  <2>5. stack[n].last[2] <= stack[q].last[2]
    BY <1>4, <2>4
  <2>6. stack[n].last[2] \in Nat /\ stack[q].last[2] \in Nat
    BY <1>2, <2>4
  <2> QED BY SMTT(30), <2>1, <2>4, <2>5, <2>6
<1>6. CASE q = 0
  <2>1. Parent(q) = <<b, 0>>
    BY <1>6, ParentFacts
  <2>2. ~ Nearest(b, k, j)
    <3>1. j < k => j \in 1 .. k - 1
      BY <1>1
    <3> QED BY <1>1, <1>5, <1>6, <3>1 DEF Nearest
  <2> QED BY <2>1, <2>2
<1>7. CASE q # 0
  <2>1. q \in 1 .. Len(stack)
    BY <1>2, <1>3, <1>7
  <2> PICK p : p = stack[q].last[2]
    OBVIOUS
  <2>2. p \in 1 .. k - 1 /\ Levels(b)[p] < Level /\ Parent(q) = <<b, p>>
    BY <1>2, <1>3, <1>7, <2>1, ParentFacts
  <2>3. \A m \in p + 1 .. k - 1 : Levels(b)[m] >= Level
    <3> SUFFICES ASSUME NEW m \in p + 1 .. k - 1, Levels(b)[m] < Level PROVE FALSE
      <4>1. \A m \in p + 1 .. k - 1 : Levels(b)[m] \in Nat
        BY SMTT(40), <1>1, <2>2
      <4> QED BY <1>1, <4>1
    <3>1. m \in 1 .. k - 1 /\ p < m
      BY <1>1, <2>2
    <3>2. m <= p
      BY <1>5, <3>1
    <3> QED BY <2>2, <3>1, <3>2
  <2>4. Nearest(b, k, p)
    BY <1>1, <2>2, <2>3 DEF Nearest
  <2>5. Nearest(b, k, j) => j = p
    <3> SUFFICES ASSUME Nearest(b, k, j) PROVE j = p
      OBVIOUS
    <3>1. j \in 1 .. k - 1 /\ Levels(b)[j] < Level
      BY <1>1 DEF Nearest
    <3>2. j <= p
      BY <1>5, <3>1
    <3>3. ~ (j < p)
      <4> SUFFICES ASSUME j < p PROVE FALSE
        OBVIOUS
      <4>1. p \in j + 1 .. k - 1
        BY <1>1, <2>2
      <4>2. Levels(b)[p] >= Level /\ Levels(b)[p] \in Nat
        BY <1>1, <2>2, <4>1 DEF Nearest
      <4> QED BY <1>1, <2>2, <4>2
    <3> QED BY <2>2, <3>2, <3>3
  <2> QED BY <2>2, <2>4, <2>5
<1> QED BY <1>6, <1>7

-----------------------------------------------------------------------------
(* The steps of _nest_list_items                                           *)

LEMMA InitNest == Init => NestInv
<1> SUFFICES ASSUME Init PROVE NestInv
  OBVIOUS
<1>1. doc \in Seq(Block) /\ Len(doc) \in Nat
  <2>1. doc \in Seq(Block)
    BY SourceAssumption DEF Init
  <2> QED BY <2>1
<1>2. Types
  BY <1>1 DEF Init, Types
<1>3. next[1] = 1 /\ next[2] = 1 /\ next = <<1, 1>> /\ stack = <<>>
  BY DEF Init
<1>4. Place
  BY <1>1, <1>3, ListFacts DEF Place
<1>5. OpenLists /\ Covered
  BY <1>3 DEF OpenLists, Covered
<1>6. Placed
  <2> SUFFICES ASSUME NEW b \in 1 .. Len(doc), IsList(b), NEW k \in 1 .. Len(Levels(b)),
                      NEW j \in 1 .. Len(Levels(b))
               PROVE  /\ <<b, k>> \notin Range(kids[<<b, j>>])
                      /\ ~ IsNested(b, k)
    BY DEF Placed
  <2>1. <<b, j>> \in Nodes
    BY <1>1, ListFacts
  <2>2. kids[<<b, j>>] = <<>>
    BY <2>1 DEF Init
  <2>3. ~ IsNested(b, k)
    BY <1>1, <1>3 DEF IsNested
  <2> QED BY <2>2, <2>3 DEF Range
<1> QED BY <1>2, <1>4, <1>5, <1>6 DEF NestInv

LEMMA RangeAppend ==
  ASSUME NEW S, NEW s \in Seq(S), NEW e
  PROVE  Range(Append(s, e)) = Range(s) \cup {e}
<1> DEFINE t == Append(s, e)
<1>1. /\ Len(s) \in Nat /\ DOMAIN s = 1 .. Len(s) /\ DOMAIN t = 1 .. Len(s) + 1
      /\ \A n \in 1 .. Len(s) + 1 : t[n] = IF n = Len(s) + 1 THEN e ELSE s[n]
  OBVIOUS
<1> HIDE DEF t
<1>2. ASSUME NEW y \in Range(t) PROVE y \in Range(s) \cup {e}
  <2>1. PICK n \in 1 .. Len(s) + 1 : y = t[n]
    BY <1>1 DEF Range
  <2>2. n = Len(s) + 1 \/ n \in 1 .. Len(s)
    BY <1>1
  <2> QED BY <1>1, <2>1, <2>2 DEF Range
<1>3. ASSUME NEW y \in Range(s) PROVE y \in Range(t)
  <2>1. PICK n \in 1 .. Len(s) : y = s[n]
    BY <1>1 DEF Range
  <2>2. n \in 1 .. Len(s) + 1 /\ t[n] = s[n]
    BY <1>1
  <2> QED BY <1>1, <2>1, <2>2 DEF Range
<1>4. e \in Range(t)
  <2>1. Len(s) + 1 \in 1 .. Len(s) + 1
    BY <1>1
  <2> QED BY <1>1, <2>1 DEF Range
<1>5. Range(t) = Range(s) \cup {e}
  BY <1>2, <1>3, <1>4
<1> QED BY <1>5 DEF t

\* What is under a node after one more is put under another.
Adds(under, x, y) ==
  /\ under \in [Nodes -> Seq(Nodes)]
  /\ \A z \in Nodes : Range(under[z]) =
                      IF z = x THEN Range(kids[z]) \cup {y} ELSE Range(kids[z])

LEMMA UnderFacts ==
  ASSUME kids \in [Nodes -> Seq(Nodes)], NEW x, NEW y \in Nodes
  PROVE  Adds(Under(x, y), x, y)
<1>1. \A z \in Nodes : kids[z] \in Seq(Nodes) /\ Append(kids[z], y) \in Seq(Nodes)
  BY AppendProperties
<1>2. \A z \in Nodes : Under(x, y)[z] = IF z = x THEN Append(kids[z], y) ELSE kids[z]
  BY DEF Under
<1>3. Under(x, y) \in [Nodes -> Seq(Nodes)]
  BY <1>1 DEF Under
<1> QED BY <1>1, <1>2, <1>3, RangeAppend DEF Adds

\* One more item is nested.
LEMMA NestedNext ==
  ASSUME NestInv, NestItem, NEW c \in 1 .. Len(doc), IsList(c),
         NEW m \in 1 .. Len(Levels(c))
  PROVE  IsNested(c, m)' <=> IsNested(c, m) \/ <<c, m>> = next
<1> PICK b, k : b = next[1] /\ k = next[2]
  OBVIOUS
<1>1. /\ b \in 1 .. Len(doc) /\ k \in 1 .. Len(Levels(b)) /\ next = <<b, k>>
      /\ Len(Levels(b)) \in Nat /\ Len(Levels(c)) \in Nat
      /\ Len(doc) \in Nat /\ UNCHANGED doc
  <2>1. doc \in Seq(Block) /\ Len(doc) \in Nat
    BY DEF NestInv, Types
  <2> QED BY <2>1, NestItemFacts, PlaceFacts, ListFacts
<1>2. \/ k = Len(Levels(b)) /\ next' = <<b + 1, 1>>
      \/ next' = <<b, k + 1>>
  BY NestItemFacts
<1>3. <<c, m>> = next <=> c = b /\ m = k
  BY <1>1
<1>4. CASE k = Len(Levels(b)) /\ next' = <<b + 1, 1>>
  BY <1>1, <1>3, <1>4 DEF IsNested
<1>5. CASE next' = <<b, k + 1>>
  BY SMTT(30), <1>1, <1>3, <1>5 DEF IsNested
<1> QED BY <1>2, <1>4, <1>5

LEMMA NestItemStep == NestInv /\ NestItem => NestInv'
<1> SUFFICES ASSUME NestInv, NestItem PROVE NestInv'
  OBVIOUS
<1> PICK q : OuterAre(q)
  BY NestItemFacts, OuterFacts
<1> PICK b, k : b = next[1] /\ k = next[2]
  OBVIOUS
<1> PICK e : e = [level |-> Level, last |-> next]
  OBVIOUS
<1>1. /\ b \in 1 .. Len(doc) /\ k \in 1 .. Len(Levels(b)) /\ Level \in Nat /\ next \in Nodes
      /\ next = <<b, k>> /\ Len(Levels(b)) \in Nat /\ Level = Levels(b)[k] /\ IsList(b)
  BY NestItemFacts, PlaceFacts DEF Level, Nesting
<1>2. /\ doc \in Seq(Block) /\ Len(doc) \in Nat /\ kids \in [Nodes -> Seq(Nodes)]
      /\ UNCHANGED <<doc, i, resolved>>
  BY NestItemFacts DEF NestInv, Types
<1>3. /\ Levels(b)' = Levels(b) /\ Nodes' = Nodes
      /\ \A c : Levels(c)' = Levels(c) /\ (IsList(c)' <=> IsList(c))
  BY <1>2 DEF Levels, Nodes, Items, IsList
<1>4. Adds(kids', Parent(q), next)
  <2>1. kids' = Under(Parent(q), next)
    BY ParentFacts
  <2>2. Adds(Under(Parent(q), next), Parent(q), next)
    BY <1>1, <1>2, UnderFacts
  <2> QED BY <2>1, <2>2
<1>5. Types'
  <2>1. kids' \in [Nodes -> Seq(Nodes)]
    BY <1>4 DEF Adds
  <2> QED BY <1>2, <1>3, <2>1 DEF NestInv, Types
<1>6. \/ k = Len(Levels(b)) /\ next' = <<b + 1, 1>> /\ stack' = <<>>
      \/ k # Len(Levels(b)) /\ next' = <<b, k + 1>> /\ stack' = Append(Outer, e)
  BY NestItemFacts
<1>7. \A c \in 1 .. Len(doc) : IsList(c) => Len(Levels(c)) \in Nat \ {0}
  BY <1>2, ListFacts
<1>8. Place' /\ OpenLists' /\ Covered'
  <2>1. CASE k = Len(Levels(b)) /\ next' = <<b + 1, 1>> /\ stack' = <<>>
    <3>1. next'[1] = b + 1 /\ next'[2] = 1 /\ b + 1 \in 1 .. Len(doc) + 1
      BY <1>1, <1>2, <2>1
    <3>2. Place'
      BY <1>1, <1>2, <1>3, <1>7, <2>1, <3>1 DEF Place
    <3> QED BY <2>1, <3>1, <3>2 DEF OpenLists, Covered
  <2>2. CASE k # Len(Levels(b)) /\ next' = <<b, k + 1>> /\ stack' = Append(Outer, e)
    <3>1. /\ next'[1] = b /\ next'[2] = k + 1 /\ k + 1 \in 1 .. Len(Levels(b))
          /\ 1 .. (k + 1) - 1 = 1 .. k
      BY <1>1, <2>2
    <3>2. Place'
      BY <1>1, <1>2, <1>3, <2>2, <3>1 DEF Place
    <3>3. /\ stack \in Seq(OpenList) /\ Len(stack) \in Nat /\ q \in 0 .. Len(stack)
          /\ Outer \in Seq(OpenList) /\ Len(Outer) = q
          /\ \A n \in 1 .. q : Outer[n] = stack[n]
      <4>1. stack \in Seq(OpenList) /\ Len(stack) \in Nat /\ q \in 0 .. Len(stack)
        BY StackFacts DEF NestInv, OpenLists, OuterAre
      <4>2. Outer = SubSeq(stack, 1, q)
        BY DEF OuterAre
      <4>3. Outer \in Seq(OpenList) /\ Begins(Outer, stack, q)
        BY <4>1, <4>2, PrefixFacts
      <4> QED BY <4>1, <4>3 DEF Begins
    <3>4. e \in OpenList /\ e.level = Level /\ e.last = next /\ e.last[1] = b /\ e.last[2] = k
      <4>1. next \in Nat \X Nat
        BY <1>1, <1>2
      <4> QED BY <1>1, <4>1 DEF OpenList
    <3>5. /\ stack' \in Seq(OpenList) /\ Len(stack') = q + 1
          /\ \A n \in 1 .. q + 1 : stack'[n] = IF n = q + 1 THEN e ELSE stack[n]
      <4>1. /\ Append(Outer, e) \in Seq(OpenList) /\ Len(Append(Outer, e)) = q + 1
            /\ \A n \in 1 .. q + 1 : Append(Outer, e)[n] = IF n = q + 1 THEN e ELSE Outer[n]
        BY <3>3, <3>4
      <4>2. \A n \in 1 .. q + 1 : n # q + 1 => n \in 1 .. q
        BY <3>3
      <4> QED BY <2>2, <3>3, <4>1, <4>2
    <3>6. \A n \in 1 .. q : /\ n \in 1 .. Len(stack) /\ n # q + 1
                            /\ stack[n].last[1] = b /\ stack[n].last[2] \in 1 .. k - 1
                            /\ stack[n].level = Levels(b)[stack[n].last[2]]
                            /\ stack[n].level < Level /\ stack[n].level \in Nat
      <4>1. \A n \in 1 .. q : n \in 1 .. Len(stack) /\ n # q + 1 /\ n <= q
        BY <3>3
      <4>2. \A n \in 1 .. Len(stack) : n <= q <=> stack[n].level < Level
        BY DEF OuterAre
      <4>3. \A n \in 1 .. Len(stack) : stack[n].last[1] = b
        BY DEF NestInv, OpenLists
      <4> QED BY <4>1, <4>2, <4>3, StackFacts
    <3>7. OpenLists'
      <4>1. ASSUME NEW n \in 1 .. q + 1
            PROVE  /\ stack'[n].last[1] = b /\ stack'[n].last[2] \in 1 .. k
                   /\ stack'[n].level = Levels(b)[stack'[n].last[2]]
        <5>1. CASE n = q + 1
          BY <1>1, <3>4, <3>5, <5>1
        <5>2. CASE n # q + 1
          <6>1. n \in 1 .. q /\ stack'[n] = stack[n]
            BY <3>3, <3>5, <5>2
          <6> QED BY SMTT(40), <1>1, <3>6, <6>1
        <5> QED BY <5>1, <5>2
      <4>2. ASSUME NEW m \in 1 .. q + 1, NEW n \in 1 .. q + 1, m < n
            PROVE  /\ stack'[m].level < stack'[n].level
                   /\ stack'[m].last[2] < stack'[n].last[2]
        <5>1. m \in 1 .. q /\ stack'[m] = stack[m]
          BY <3>3, <3>5, <4>2
        <5>2. CASE n = q + 1
          <6>1. stack'[n].level = Level /\ stack'[n].last[2] = k
            BY <3>4, <3>5, <5>2
          <6>2. stack[m].level < Level /\ stack[m].last[2] < k
            BY SMTT(30), <1>1, <3>6, <5>1
          <6> QED BY <5>1, <6>1, <6>2
        <5>3. CASE n # q + 1
          <6>1. n \in 1 .. q /\ stack'[n] = stack[n]
            BY <3>3, <3>5, <5>3
          <6>2. m \in 1 .. Len(stack) /\ n \in 1 .. Len(stack)
            BY <3>6, <5>1, <6>1
          <6> QED BY <4>2, <5>1, <6>1, <6>2 DEF NestInv, OpenLists
        <5> QED BY <5>2, <5>3
      <4> QED BY <1>3, <3>1, <3>5, <4>1, <4>2 DEF OpenLists
    <3>8. Covered'
      <4> SUFFICES ASSUME NEW j \in 1 .. k
                   PROVE  \E n \in 1 .. q + 1 : stack'[n].last[2] >= j
                                                /\ stack'[n].level <= Levels(b)[j]
        BY <1>3, <3>1, <3>5 DEF Covered
      <4>1. /\ q + 1 \in 1 .. q + 1 /\ stack'[q + 1].last[2] = k /\ stack'[q + 1].level = Level
        BY <3>3, <3>4, <3>5
      <4>2. CASE j = k
        BY <1>1, <4>1, <4>2
      <4>3. CASE j # k
        <5>1. j \in 1 .. k - 1 /\ j \in 1 .. Len(Levels(b))
          BY <1>1, <4>3
        <5>2. Levels(b)[j] \in Nat
          BY <1>1, <1>2, <5>1, ListFacts
        <5>3. PICK n \in 1 .. Len(stack) :
                stack[n].last[2] >= j /\ stack[n].level <= Levels(b)[j]
          BY <5>1 DEF NestInv, Covered
        <5>4. CASE n <= q
          <6>1. n \in 1 .. q + 1 /\ stack'[n] = stack[n]
            BY <3>3, <3>5, <5>4
          <6> QED BY <5>3, <6>1
        <5>5. CASE ~ (n <= q)
          <6>1. ~ (stack[n].level < Level) /\ stack[n].level \in Nat
            BY <5>5, StackFacts DEF OuterAre
          <6>2. Level <= Levels(b)[j]
            BY SMTT(40), <1>1, <5>2, <5>3, <6>1
          <6>3. k >= j
            BY <1>1
          <6> QED BY <4>1, <6>2, <6>3
        <5> QED BY <5>4, <5>5
      <4> QED BY <4>2, <4>3
    <3> QED BY <3>2, <3>7, <3>8
  <2> QED BY <1>6, <2>1, <2>2
<1>9. \A c \in 1 .. Len(doc) : IsList(c) => \A m \in 1 .. Len(Levels(c)) :
        IsNested(c, m)' <=> IsNested(c, m) \/ <<c, m>> = next
  BY NestedNext
<1>10. \A c, m, j : Nearest(c, m, j)' <=> Nearest(c, m, j)
  BY <1>3 DEF Nearest
<1>11. Placed'
  <2> SUFFICES ASSUME NEW c \in 1 .. Len(doc), IsList(c), NEW m \in 1 .. Len(Levels(c)),
                      NEW j \in 1 .. Len(Levels(c))
               PROVE  <<c, m>> \in Range(kids'[<<c, j>>])
                        <=> IsNested(c, m)' /\ Nearest(c, m, j)
    BY <1>2, <1>3, <1>10 DEF Placed
  <2>1. <<c, j>> \in Nodes
    BY <1>2, ListFacts
  <2>2. Range(kids'[<<c, j>>]) = IF <<c, j>> = Parent(q) THEN Range(kids[<<c, j>>]) \cup {next}
                                                         ELSE Range(kids[<<c, j>>])
    BY <2>1, <1>4 DEF Adds
  <2>3. <<c, m>> \in Range(kids[<<c, j>>]) <=> IsNested(c, m) /\ Nearest(c, m, j)
    BY DEF NestInv, Placed
  <2>4. CASE <<c, m>> # next
    BY <1>9, <2>2, <2>3, <2>4
  <2>5. CASE <<c, m>> = next
    <3>1. c = b /\ m = k /\ ~ IsNested(c, m)
      <4>1. c = b /\ m = k
        BY <1>1, <2>5
      <4> QED BY <1>1, <1>2, <4>1 DEF IsNested
    <3>2. <<c, j>> = Parent(q) <=> Nearest(c, m, j)
      BY <3>1, ParentIsNearest
    <3>3. IsNested(c, m)'
      BY <1>9, <2>5
    <3> QED BY <2>2, <2>3, <2>5, <3>1, <3>2, <3>3
  <2> QED BY <2>4, <2>5
<1> QED BY <1>5, <1>8, <1>11 DEF NestInv

\* A block that is no list has nothing to nest, and no list is open at it.
LEMMA PassOverStep == NestInv /\ PassOver => NestInv'
<1> SUFFICES ASSUME NestInv, PassOver PROVE NestInv'
  OBVIOUS
<1> PICK b : b = next[1]
  OBVIOUS
<1>1. /\ b \in 1 .. Len(doc) /\ ~ IsList(b) /\ next[2] = 1 /\ doc \in Seq(Block)
      /\ Len(doc) \in Nat /\ next'[1] = b + 1 /\ next'[2] = 1 /\ next' = <<b + 1, 1>>
      /\ UNCHANGED <<doc, stack, i, resolved, kids>>
  BY DEF NestInv, Types, Place, PassOver
<1>2. /\ Nodes' = Nodes
      /\ \A c : Levels(c)' = Levels(c) /\ (IsList(c)' <=> IsList(c))
  BY <1>1 DEF Levels, Nodes, Items, IsList
<1>3. \A c, m, j : Nearest(c, m, j)' <=> Nearest(c, m, j)
  BY <1>2 DEF Nearest
<1>4. \A c \in 1 .. Len(doc) : IsList(c) => Len(Levels(c)) \in Nat \ {0}
  BY <1>1, ListFacts
<1>5. Types'
  BY <1>1, <1>2 DEF NestInv, Types
<1>6. Place'
  BY <1>1, <1>2, <1>4 DEF Place
<1>7. OpenLists'
  <2>1. stack \in Seq(OpenList) /\ \A n \in 1 .. Len(stack) : FALSE
    BY <1>1, StackFacts DEF NestInv, OpenLists
  <2> QED BY <1>1, <2>1 DEF OpenLists
<1>8. Covered'
  BY <1>1 DEF Covered
<1>9. Placed'
  <2> SUFFICES ASSUME NEW c \in 1 .. Len(doc), IsList(c), NEW m \in 1 .. Len(Levels(c)),
                      NEW j \in 1 .. Len(Levels(c))
               PROVE  <<c, m>> \in Range(kids[<<c, j>>])
                        <=> IsNested(c, m)' /\ Nearest(c, m, j)
    BY <1>1, <1>2, <1>3 DEF Placed
  <2>1. c # b /\ m \in Nat \ {0}
    BY <1>1, <1>4
  <2>2. IsNested(c, m)' <=> IsNested(c, m)
    BY <1>1, <2>1 DEF IsNested
  <2> QED BY <2>2 DEF NestInv, Placed
<1> QED BY <1>5, <1>6, <1>7, <1>8, <1>9 DEF NestInv

-----------------------------------------------------------------------------
(* The steps of resolve_list_continuations                                 *)

\* A step that leaves the items of lists under their items, or takes them from
\* nowhere, leaves all of the nesting.
ItemsStay ==
  \A b \in 1 .. Len(doc) : IsList(b) =>
    \A k, j \in 1 .. Len(Levels(b)) :
      <<b, k>> \in Range(kids'[<<b, j>>]) <=> <<b, k>> \in Range(kids[<<b, j>>])

LEMMA NestingStays ==
  ASSUME NestInv, UNCHANGED <<doc, next, stack>>, Types', ItemsStay
  PROVE  NestInv'
<1>1. \A c : Levels(c)' = Levels(c) /\ (IsList(c)' <=> IsList(c))
  BY DEF Levels, IsList
<1>2. \A c, m, j : /\ Nearest(c, m, j)' <=> Nearest(c, m, j)
                   /\ IsNested(c, m)' <=> IsNested(c, m)
  BY <1>1 DEF Nearest, IsNested
<1>3. Place' /\ OpenLists' /\ Covered'
  <2>1. Place'
    BY <1>1 DEF NestInv, Place
  <2>2. OpenLists'
    BY <1>1 DEF NestInv, OpenLists
  <2>3. Covered'
    BY <1>1 DEF NestInv, Covered
  <2> QED BY <2>1, <2>2, <2>3
<1>4. Placed'
  <2> SUFFICES ASSUME NEW b \in 1 .. Len(doc), IsList(b), NEW k \in 1 .. Len(Levels(b)),
                      NEW j \in 1 .. Len(Levels(b))
               PROVE  <<b, k>> \in Range(kids'[<<b, j>>])
                        <=> IsNested(b, k) /\ Nearest(b, k, j)
    BY <1>1, <1>2 DEF Placed
  <2> QED BY DEF NestInv, Placed, ItemsStay
<1> QED BY <1>3, <1>4 DEF NestInv

LEMMA ResolvingFacts ==
  ASSUME NestInv, Resolving
  PROVE  /\ i \in 1 .. Len(doc) /\ Len(doc) \in Nat /\ doc \in Seq(Block)
         /\ kids \in [Nodes -> Seq(Nodes)]
         /\ \A b \in 1 .. Len(doc) : <<b, 0>> \in Nodes
         /\ resolved \in Seq({<<b, 0>> : b \in 1 .. Len(doc)})
         /\ \A b \in 1 .. Len(doc) : IsList(b) =>
              \A k \in 1 .. Len(Levels(b)) : k # 0 /\ <<b, k>> \in Nodes
<1>1. doc \in Seq(Block) /\ Len(doc) \in Nat
  BY DEF NestInv, Types
<1>2. \A b \in 1 .. Len(doc) : IsList(b) => \A k \in 1 .. Len(Levels(b)) : <<b, k>> \in Nodes
  BY <1>1, ListFacts
<1>3. i \in 1 .. Len(doc)
  BY <1>1 DEF NestInv, Types, Resolving
<1> QED BY <1>1, <1>2, <1>3, BlocksAreNodes DEF NestInv, Types

LEMMA SameNodes ==
  ASSUME UNCHANGED doc PROVE Nodes' = Nodes
BY DEF Nodes, Items, IsList

LEMMA ContinueStep == NestInv /\ Continue => NestInv'
<1> SUFFICES ASSUME NestInv, Continue PROVE NestInv'
  OBVIOUS
<1>1. Resolving /\ i < Len(doc) /\ i' = i + 2 /\ UNCHANGED <<doc, next, stack, resolved>>
  BY DEF Continue, Attaches
<1>2. i + 1 \in 1 .. Len(doc) /\ i + 2 \in 1 .. Len(doc) + 1 /\ <<i + 1, 0>> \in Nodes
  <2>1. i + 1 \in 1 .. Len(doc) /\ i + 2 \in 1 .. Len(doc) + 1
    BY <1>1, ResolvingFacts
  <2> QED BY <1>1, <2>1, ResolvingFacts
<1>3. PICK x : kids' = Under(x, <<i + 1, 0>>)
  BY DEF Continue
<1>4. Adds(kids', x, <<i + 1, 0>>)
  BY <1>1, <1>2, <1>3, ResolvingFacts, UnderFacts
<1>5. Types'
  BY <1>1, <1>2, <1>4, SameNodes DEF NestInv, Types, Adds
<1>6. ItemsStay
  <2> SUFFICES ASSUME NEW b \in 1 .. Len(doc), IsList(b), NEW k \in 1 .. Len(Levels(b)),
                      NEW j \in 1 .. Len(Levels(b))
               PROVE  <<b, k>> \in Range(kids'[<<b, j>>]) <=> <<b, k>> \in Range(kids[<<b, j>>])
    BY DEF ItemsStay
  <2>1. <<b, j>> \in Nodes /\ k # 0
    BY <1>1, ResolvingFacts
  <2>2. <<b, k>> # <<i + 1, 0>>
    BY <2>1
  <2>3. Range(kids'[<<b, j>>]) = IF <<b, j>> = x THEN Range(kids[<<b, j>>]) \cup {<<i + 1, 0>>}
                                                 ELSE Range(kids[<<b, j>>])
    BY <1>4, <2>1 DEF Adds
  <2> QED BY <2>2, <2>3
<1> QED BY <1>1, <1>5, <1>6, NestingStays

LEMMA JoinStep == NestInv /\ Join => NestInv'
<1> SUFFICES ASSUME NestInv, Join PROVE NestInv'
  OBVIOUS
<1> PICK x : x = Last(resolved)
  OBVIOUS
<1>1. /\ Resolving /\ i' = i + 1 /\ UNCHANGED <<doc, next, stack, resolved>>
      /\ resolved # <<>>
      /\ kids' = [kids EXCEPT ![x] = @ \o kids[<<i, 0>>], ![<<i, 0>>] = <<>>]
  BY DEF Join, Joins
<1>2. x \in {<<b, 0>> : b \in 1 .. Len(doc)} /\ x[2] = 0
  <2>1. x \in {<<b, 0>> : b \in 1 .. Len(doc)}
    BY <1>1, ResolvingFacts DEF Last
  <2> QED BY <2>1
<1>3. kids' \in [Nodes -> Seq(Nodes)]
  <2>1. x \in Nodes /\ <<i, 0>> \in Nodes
    BY <1>1, <1>2, ResolvingFacts
  <2>2. kids[x] \in Seq(Nodes) /\ kids[<<i, 0>>] \in Seq(Nodes)
    BY <1>1, <2>1, ResolvingFacts
  <2>3. kids[x] \o kids[<<i, 0>>] \in Seq(Nodes) /\ <<>> \in Seq(Nodes)
    BY <2>2
  <2> QED BY <1>1, <2>1, <2>3, ResolvingFacts
<1>4. Types'
  <2>1. i' \in 1 .. Len(doc) + 1
    BY <1>1, ResolvingFacts
  <2> QED BY <1>1, <1>3, <2>1, SameNodes DEF NestInv, Types
<1>5. ItemsStay
  <2> SUFFICES ASSUME NEW b \in 1 .. Len(doc), IsList(b), NEW k \in 1 .. Len(Levels(b)),
                      NEW j \in 1 .. Len(Levels(b))
               PROVE  kids'[<<b, j>>] = kids[<<b, j>>]
    BY DEF ItemsStay
  <2>1. <<b, j>> \in Nodes /\ j # 0
    BY <1>1, ResolvingFacts
  <2>2. <<b, j>> # x /\ <<b, j>> # <<i, 0>>
    BY <1>2, <2>1
  <2> QED BY <1>1, <2>1, <2>2, ResolvingFacts
<1> QED BY <1>1, <1>4, <1>5, NestingStays

LEMMA KeepStep == NestInv /\ Keep => NestInv'
<1> SUFFICES ASSUME NestInv, Keep PROVE NestInv'
  OBVIOUS
<1>1. /\ Resolving /\ i' = i + 1 /\ UNCHANGED <<doc, next, stack, kids>>
      /\ resolved' = Append(resolved, <<i, 0>>)
  BY DEF Keep
<1>2. Types'
  <2>1. i' \in 1 .. Len(doc) + 1 /\ <<i, 0>> \in {<<b, 0>> : b \in 1 .. Len(doc)}
    BY <1>1, ResolvingFacts
  <2>2. resolved' \in Seq({<<b, 0>> : b \in 1 .. Len(doc)})
    BY <1>1, <2>1, ResolvingFacts, AppendProperties
  <2> QED BY <1>1, <2>1, <2>2, SameNodes DEF NestInv, Types
<1>3. ItemsStay
  BY <1>1 DEF ItemsStay
<1> QED BY <1>1, <1>2, <1>3, NestingStays

LEMMA NestStutter == NestInv /\ UNCHANGED vars => NestInv'
<1> SUFFICES ASSUME NestInv, UNCHANGED vars PROVE NestInv'
  OBVIOUS
<1>1. UNCHANGED <<doc, next, stack, i, resolved, kids>>
  BY DEF vars
<1>2. Types' /\ ItemsStay
  BY <1>1, SameNodes DEF NestInv, Types, ItemsStay
<1> QED BY <1>1, <1>2, NestingStays

LEMMA NestHolds == Spec => []NestInv
<1>1. NestInv /\ [Next]_vars => NestInv'
  BY NestItemStep, PassOverStep, ContinueStep, JoinStep, KeepStep, NestStutter DEF Next
<1> QED BY InitNest, <1>1, PTL DEF Spec

-----------------------------------------------------------------------------
(* find_deepest_active_list_item                                           *)

\* The children come after what they are under.
KidsAfter == \A x \in Nodes : \A y \in Range(kids[x]) : Precedes(x, y)

LEMMA NodeFacts ==
  ASSUME doc \in Seq(Block), NEW x \in Nodes
  PROVE  /\ x = <<x[1], x[2]>> /\ x[1] \in 1 .. Len(doc) /\ x[2] \in Nat /\ x # None
         /\ x[2] # 0 => IsList(x[1]) /\ x[2] \in 1 .. Len(Levels(x[1]))
<1>1. PICK b \in 1 .. Len(doc) : x \in {<<b, 0>>} \cup Items(b)
  BY DEF Nodes
<1>2. CASE x = <<b, 0>>
  BY <1>2, NoneAssumption
<1>3. CASE x # <<b, 0>>
  <2>1. x \in {b} \X (1 .. Len(Levels(b))) /\ IsList(b)
    BY <1>1, <1>3 DEF Items, Levels
  <2> QED BY <2>1, NoneAssumption
<1> QED BY <1>2, <1>3

\* Among any nodes there is one that none of them comes after.
LEMMA LastNode ==
  ASSUME doc \in Seq(Block), NEW S \in SUBSET Nodes, S # {}
  PROVE  \E x \in S : \A y \in S : ~ Precedes(x, y)
<1> PICK B : B = {y[1] : y \in S}
  OBVIOUS
<1>1. B \in SUBSET (0 .. Len(doc)) /\ B # {} /\ Len(doc) \in Nat
  BY NodeFacts
<1>2. PICK b \in B : \A c \in B : c <= b
  BY <1>1, Largest
<1> PICK K : K = {y[2] : y \in {z \in S : z[1] = b}}
  OBVIOUS
<1>3. PICK N \in Nat : K \in SUBSET (0 .. N)
  <2>1. CASE IsList(b)
    <3>1. Len(Levels(b)) \in Nat
      BY <1>1, <1>2, <2>1, NodeFacts, ListFacts
    <3>2. K \in SUBSET (0 .. Len(Levels(b)))
      BY <3>1, NodeFacts
    <3> QED BY <3>1, <3>2
  <2>2. CASE ~ IsList(b)
    <3>1. K \in SUBSET (0 .. 0)
      BY <2>2, NodeFacts
    <3> QED BY <3>1
  <2> QED BY <2>1, <2>2
<1>4. K # {}
  BY <1>2
<1>5. PICK k \in K : \A m \in K : m <= k
  BY <1>3, <1>4, Largest
<1>6. PICK x \in S : x[1] = b /\ x[2] = k
  BY <1>5
<1>7. \A y \in S : y[1] \in Nat /\ y[2] \in Nat /\ y[1] <= b /\ (y[1] = b => y[2] <= k)
  BY <1>1, <1>2, <1>5, NodeFacts
<1>8. \A y \in S : ~ Precedes(x, y)
  BY <1>6, <1>7 DEF Precedes
<1> QED BY <1>8

\* What find_deepest_active_list_item makes of y when f is what it finds below.
Down(f, y)  == IF kids[y] = <<>> THEN None ELSE f[Last(kids[y])]
Found(f, y) == IF Down(f, y) = None /\ y[2] > 0 THEN y ELSE Down(f, y)

\* f is what it finds from the nodes in D, which it does not leave.
Finds(D, f) ==
  /\ D \subseteq Nodes /\ f = [y \in D |-> Found(f, y)]
  /\ \A y \in D : kids[y] # <<>> => Last(kids[y]) \in D

LEMMA RangeIs ==
  ASSUME NEW S, NEW s \in Seq(S) PROVE Range(s) = {s[n] : n \in 1 .. Len(s)}
<1>1. DOMAIN s = 1 .. Len(s)
  OBVIOUS
<1> QED BY <1>1 DEF Range

LEMMA LastKid ==
  ASSUME doc \in Seq(Block), kids \in [Nodes -> Seq(Nodes)], KidsAfter,
         NEW x \in Nodes, kids[x] # <<>>
  PROVE  Last(kids[x]) \in Nodes /\ Precedes(x, Last(kids[x])) /\ Last(kids[x]) # x
<1>1. kids[x] \in Seq(Nodes)
  OBVIOUS
<1>2. Len(kids[x]) \in 1 .. Len(kids[x])
  BY <1>1
<1>3. Last(kids[x]) \in Nodes /\ Precedes(x, Last(kids[x]))
  <2>1. Last(kids[x]) \in Nodes /\ Last(kids[x]) \in Range(kids[x])
    BY <1>1, <1>2, RangeIs DEF Last
  <2> QED BY <2>1 DEF KidsAfter
<1>4. ~ Precedes(x, x)
  BY NodeFacts DEF Precedes
<1> QED BY <1>3, <1>4

LEMMA OneFind ==
  ASSUME doc \in Seq(Block), kids \in [Nodes -> Seq(Nodes)], KidsAfter,
         NEW D, NEW f, Finds(D, f), NEW E, NEW g, Finds(E, g), NEW y \in D, y \in E
  PROVE  f[y] = g[y]
<1> PICK Bad : Bad = {z \in D \cap E : f[z] # g[z]}
  OBVIOUS
<1> SUFFICES ASSUME Bad # {} PROVE FALSE
  OBVIOUS
<1>1. Bad \in SUBSET Nodes
  BY DEF Finds
<1>2. PICK x \in Bad : \A z \in Bad : ~ Precedes(x, z)
  BY <1>1, LastNode
<1>3. f[x] = Found(f, x) /\ g[x] = Found(g, x) /\ x \in D /\ x \in E /\ x \in Nodes
  BY <1>1, Zenon DEF Finds
<1>4. Down(f, x) = Down(g, x)
  <2>1. CASE kids[x] = <<>>
    BY <2>1 DEF Down
  <2>2. CASE kids[x] # <<>>
    <3>1. Last(kids[x]) \in D \cap E /\ Precedes(x, Last(kids[x]))
      BY <1>3, <2>2, LastKid DEF Finds
    <3>2. f[Last(kids[x])] = g[Last(kids[x])]
      BY <1>2, <3>1
    <3> QED BY <2>2, <3>2 DEF Down
  <2> QED BY <2>1, <2>2
<1> QED BY <1>3, <1>4 DEF Found

\* Every node is found from.
LEMMA AllFound ==
  ASSUME doc \in Seq(Block), kids \in [Nodes -> Seq(Nodes)], KidsAfter, NEW y \in Nodes
  PROVE  \E D, f : Finds(D, f) /\ y \in D
<1> PICK Bad : Bad = {z \in Nodes : ~ \E D, f : Finds(D, f) /\ z \in D}
  OBVIOUS
<1> SUFFICES ASSUME Bad # {} PROVE FALSE
  OBVIOUS
<1>1. PICK x \in Bad : \A z \in Bad : ~ Precedes(x, z)
  BY LastNode
<1>2. x \in Nodes /\ ~ \E D, f : Finds(D, f) /\ x \in D
  OBVIOUS
<1>3. PICK D, f : Finds(D, f) /\ (kids[x] # <<>> => Last(kids[x]) \in D)
  <2>1. CASE kids[x] = <<>>
    <3>1. Finds({}, [z \in {} |-> z])
      BY DEF Finds
    <3> QED BY <2>1, <3>1
  <2>2. CASE kids[x] # <<>>
    <3>1. Last(kids[x]) \in Nodes \ Bad
      BY <1>1, <1>2, <2>2, LastKid
    <3> QED BY <3>1
  <2> QED BY <2>1, <2>2
<1>4. x \notin D
  BY <1>2, <1>3
<1> PICK E : E = D \cup {x}
  OBVIOUS
<1> PICK g : g = [z \in E |-> IF z = x THEN Found(f, x) ELSE f[z]]
  OBVIOUS
<1>5. \A z \in E : z \in Nodes /\ (kids[z] # <<>> => Last(kids[z]) \in D)
  BY <1>2, <1>3 DEF Finds
<1>6. \A z \in D : g[z] = f[z] /\ f[z] = Found(f, z)
  <2>1. \A z \in D : f[z] = Found(f, z)
    BY <1>3, Zenon DEF Finds
  <2> QED BY <1>4, <2>1
<1>7. \A z \in E : Found(g, z) = Found(f, z)
  <2>1. \A z \in E : Down(g, z) = Down(f, z)
    BY <1>5, <1>6 DEF Down
  <2> QED BY <2>1 DEF Found
<1>8. \A z \in E : g[z] = Found(g, z)
  BY <1>6, <1>7
<1>9. g = [z \in E |-> g[z]]
  OBVIOUS
<1>10. g = [z \in E |-> Found(g, z)]
  BY <1>8, <1>9, Zenon
<1>11. Finds(E, g)
  BY <1>5, <1>10 DEF Finds
<1> QED BY <1>2, <1>11

\* So that the function of find_deepest_active_list_item exists.
LEMMA DeepestIs ==
  ASSUME doc \in Seq(Block), kids \in [Nodes -> Seq(Nodes)], KidsAfter, NEW x \in Nodes
  PROVE  LET down == IF kids[x] = <<>> THEN None ELSE Deepest(Last(kids[x]))
         IN  Deepest(x) = IF down = None /\ x[2] > 0 THEN x ELSE down
<1> PICK g : g = [y \in Nodes |-> CHOOSE v : \E D, f : Finds(D, f) /\ y \in D /\ v = f[y]]
  OBVIOUS
<1>1. \A y \in Nodes : g[y] = Found(g, y)
  <2> SUFFICES ASSUME NEW z \in Nodes PROVE g[z] = Found(g, z)
    OBVIOUS
  <2>1. PICK E, h : Finds(E, h) /\ z \in E
    BY AllFound
  <2>2. h[z] = Found(h, z)
    BY <2>1, Zenon DEF Finds
  <2>3. \A y \in E : g[y] = h[y]
    <3> SUFFICES ASSUME NEW y \in E PROVE g[y] = h[y]
      OBVIOUS
    <3>1. y \in Nodes
      BY <2>1 DEF Finds
    <3>2. \A v : (\E D, f : Finds(D, f) /\ y \in D /\ v = f[y]) => v = h[y]
      BY <2>1, OneFind
    <3>3. \E v : \E D, f : Finds(D, f) /\ y \in D /\ v = f[y]
      BY <2>1
    <3>4. (CHOOSE v : \E D, f : Finds(D, f) /\ y \in D /\ v = f[y]) = h[y]
      BY <3>2, <3>3
    <3> QED BY <3>1, <3>4
  <2>4. Down(g, z) = Down(h, z)
    <3>1. CASE kids[z] = <<>>
      BY <3>1 DEF Down
    <3>2. CASE kids[z] # <<>>
      <4>1. Last(kids[z]) \in E
        BY <2>1, <3>2 DEF Finds
      <4>2. g[Last(kids[z])] = h[Last(kids[z])]
        BY <2>3, <4>1
      <4> QED BY <3>2, <4>2 DEF Down
    <3> QED BY <3>1, <3>2
  <2>5. g[z] = h[z]
    BY <2>1, <2>3
  <2> QED BY <2>2, <2>4, <2>5 DEF Found
<1>2. g = [y \in Nodes |-> g[y]]
  OBVIOUS
<1>3. g = [y \in Nodes |-> Found(g, y)]
  BY <1>1, <1>2, Zenon
<1>4. PICK d : d = CHOOSE f : f = [y \in Nodes |-> Found(f, y)]
  OBVIOUS
<1>5. d = [y \in Nodes |-> Found(d, y)]
  BY <1>3, <1>4, Zenon
<1>6. \A y : Deepest(y) = d[y]
  BY <1>4 DEF Deepest, Found, Down
<1> QED BY <1>5, <1>6, LastKid DEF Found, Down

-----------------------------------------------------------------------------
(* The last item of a list                                                 *)

\* The level of an item, with the list itself above all of them, and the nearest
\* item before k, or else the list, that is above it.
Lev(b, j) == IF j = 0 THEN 0 ELSE Levels(b)[j] + 1
Near(b, k, j) == /\ j < k /\ Lev(b, j) < Lev(b, k)
                 /\ \A m \in j + 1 .. k - 1 : Lev(b, m) >= Lev(b, k)

\* All that comes after j in its list is below it.
Tip(b, j) == \A k \in j + 1 .. Len(Levels(b)) : Lev(b, k) > Lev(b, j)

\* s are items of the list b, in order.
Ordered(s, b) ==
  /\ \A y \in Range(s) : y[1] = b /\ y[2] # 0
  /\ \A m, n \in 1 .. Len(s) : m < n => s[m][2] < s[n][2]

\* The list b is as _nest_list_items left it, all of its items in place.
Whole(b) ==
  \A j \in 0 .. Len(Levels(b)) :
    /\ Ordered(kids[<<b, j>>], b)
    /\ \A k \in 1 .. Len(Levels(b)) : <<b, k>> \in Range(kids[<<b, j>>]) <=> Near(b, k, j)

LastItem(b) == <<b, Len(Levels(b))>>

LEMMA LevFacts ==
  ASSUME doc \in Seq(Block), NEW b \in 1 .. Len(doc), IsList(b)
  PROVE  /\ Len(Levels(b)) \in Nat \ {0} /\ Lev(b, 0) = 0
         /\ \A k \in 0 .. Len(Levels(b)) : Lev(b, k) \in Nat /\ <<b, k>> \in Nodes
         /\ \A k \in 1 .. Len(Levels(b)) : Lev(b, k) = Levels(b)[k] + 1
         /\ \A k \in 1 .. Len(Levels(b)) : Lev(b, k) > 0
<1>1. /\ Len(Levels(b)) \in Nat \ {0}
      /\ \A k \in 1 .. Len(Levels(b)) : Levels(b)[k] \in Nat /\ <<b, k>> \in Nodes
  BY ListFacts
<1>2. Lev(b, 0) = 0 /\ <<b, 0>> \in Nodes
  BY BlocksAreNodes DEF Lev
<1>3. \A k \in 1 .. Len(Levels(b)) : Lev(b, k) = Levels(b)[k] + 1
  BY <1>1 DEF Lev
<1>4. \A k \in 1 .. Len(Levels(b)) : Lev(b, k) \in Nat /\ Lev(b, k) > 0
  <2> SUFFICES ASSUME NEW k \in 1 .. Len(Levels(b)) PROVE Lev(b, k) \in Nat /\ Lev(b, k) > 0
    OBVIOUS
  <2>1. Levels(b)[k] \in Nat /\ Lev(b, k) = Levels(b)[k] + 1
    BY <1>1, <1>3
  <2> QED BY <2>1
<1>5. \A k \in 0 .. Len(Levels(b)) : k = 0 \/ k \in 1 .. Len(Levels(b))
  BY <1>1
<1>6. \A k \in 0 .. Len(Levels(b)) : Lev(b, k) \in Nat /\ <<b, k>> \in Nodes
  BY <1>1, <1>2, <1>4, <1>5
<1> QED BY <1>1, <1>2, <1>3, <1>4, <1>6

\* A set of numbers up to N has a smallest one.
LEMMA Smallest ==
  ASSUME NEW N \in Nat, NEW S \in SUBSET (0 .. N), S # {}
  PROVE  \E x \in S : \A y \in S : x <= y
<1> PICK T : T = {N - y : y \in S}
  OBVIOUS
<1>1. T \in SUBSET (0 .. N) /\ T # {}
  <2>1. \A y \in S : N - y \in 0 .. N
    OBVIOUS
  <2> QED BY <2>1
<1>2. Max(T) \in T /\ \A y \in T : y <= Max(T)
  BY <1>1, Largest
<1>3. PICK t \in T : \A y \in T : y <= t
  BY <1>2
<1>4. PICK x \in S : t = N - x
  OBVIOUS
<1>5. \A y \in S : x <= y
  <2> SUFFICES ASSUME NEW y \in S PROVE x <= y
    OBVIOUS
  <2>1. N - y <= t /\ y \in Nat /\ x \in Nat /\ y <= N /\ x <= N
    BY <1>3
  <2> QED BY <1>4, <2>1
<1> QED BY <1>5

\* What comes next is under such a j, and the last that is under it is one too.
LEMMA NextTip ==
  ASSUME doc \in Seq(Block), NEW b \in 1 .. Len(doc), IsList(b),
         NEW j \in 0 .. Len(Levels(b)), Tip(b, j), j # Len(Levels(b))
  PROVE  Near(b, j + 1, j)
<1>1. j + 1 \in j + 1 .. Len(Levels(b)) /\ Len(Levels(b)) \in Nat
  BY LevFacts
<1>2. Lev(b, j) < Lev(b, j + 1) /\ j < j + 1
  BY <1>1, LevFacts DEF Tip
<1>3. \A m \in j + 1 .. (j + 1) - 1 : FALSE
  OBVIOUS
<1> QED BY <1>2, <1>3 DEF Near

LEMMA TipGoesOn ==
  ASSUME doc \in Seq(Block), NEW b \in 1 .. Len(doc), IsList(b),
         NEW j \in 0 .. Len(Levels(b)), Tip(b, j),
         NEW c \in 1 .. Len(Levels(b)), Near(b, c, j),
         \A k \in 1 .. Len(Levels(b)) : Near(b, k, j) => k <= c
  PROVE  Tip(b, c)
<1> PICK N : N = Len(Levels(b))
  OBVIOUS
<1> PICK S : S = {k \in c + 1 .. N : Lev(b, k) <= Lev(b, c)}
  OBVIOUS
<1>1. N \in Nat /\ \A k \in 0 .. N : Lev(b, k) \in Nat
  BY LevFacts
<1>2. SUFFICES ASSUME S # {} PROVE FALSE
  <2>1. S = {} => \A k \in c + 1 .. N : Lev(b, k) > Lev(b, c)
    BY <1>1
  <2> QED BY <2>1 DEF Tip
<1>3. PICK k \in S : \A y \in S : k <= y
  <2>1. S \in SUBSET (0 .. N)
    BY <1>1
  <2> QED BY <1>1, <1>2, <2>1, Smallest
<1>4. k \in c + 1 .. N /\ Lev(b, k) <= Lev(b, c) /\ j < c /\ k \in j + 1 .. N /\ k \in 1 .. N
  BY <1>1, <1>3 DEF Near
<1>5. Lev(b, j) < Lev(b, k)
  BY <1>1, <1>4 DEF Tip
<1>6. \A m \in j + 1 .. k - 1 : Lev(b, m) >= Lev(b, k)
  <2> SUFFICES ASSUME NEW m \in j + 1 .. k - 1 PROVE Lev(b, m) >= Lev(b, k)
    OBVIOUS
  <2>0. m \in 0 .. N /\ m \in Nat /\ Lev(b, m) \in Nat /\ Lev(b, c) \in Nat /\ Lev(b, k) \in Nat
    BY <1>1, <1>4
  <2>1. CASE m < c
    <3>1. m \in j + 1 .. c - 1
      BY <2>0, <2>1
    <3>2. Lev(b, m) >= Lev(b, c)
      BY <3>1 DEF Near
    <3> QED BY <1>4, <2>0, <3>2
  <2>2. CASE m = c
    BY <1>4, <2>2
  <2>3. CASE m > c
    <3>1. m \in c + 1 .. N /\ m \notin S
      BY <1>1, <1>3, <1>4, <2>0, <2>3
    <3> QED BY <1>4, <2>0, <3>1
  <2> QED BY <2>0, <2>1, <2>2, <2>3
<1>7. Near(b, k, j)
  BY <1>1, <1>4, <1>5, <1>6 DEF Near
<1> QED BY <1>1, <1>4, <1>7

\* The last that is under a node of a whole list.
LEMMA LastUnder ==
  ASSUME doc \in Seq(Block), kids \in [Nodes -> Seq(Nodes)],
         NEW b \in 1 .. Len(doc), IsList(b), Whole(b), NEW j \in 0 .. Len(Levels(b)),
         kids[<<b, j>>] # <<>>
  PROVE  \E c \in 1 .. Len(Levels(b)) :
           /\ Last(kids[<<b, j>>]) = <<b, c>> /\ Near(b, c, j)
           /\ \A k \in 1 .. Len(Levels(b)) : Near(b, k, j) => k <= c
<1> PICK s : s = kids[<<b, j>>]
  OBVIOUS
<1> PICK N : N = Len(Levels(b))
  OBVIOUS
<1> PICK z : z = Last(s)
  OBVIOUS
<1>1. N \in Nat /\ s \in Seq(Nodes) /\ Len(s) \in Nat /\ s # <<>>
  BY LevFacts
<1>2. Len(s) \in 1 .. Len(s) /\ z = s[Len(s)] /\ z \in Nodes
  BY <1>1 DEF Last
<1>3. z \in Range(s)
  BY <1>1, <1>2, RangeIs
<1>4. z[1] = b /\ z[2] # 0
  BY <1>3 DEF Whole, Ordered
<1>5. z = <<b, z[2]>> /\ z[2] \in 1 .. N
  BY <1>2, <1>4, NodeFacts
<1>6. Near(b, z[2], j)
  BY <1>3, <1>5 DEF Whole
<1>7. \A k \in 1 .. N : Near(b, k, j) => k <= z[2]
  <2> SUFFICES ASSUME NEW k \in 1 .. N, Near(b, k, j) PROVE k <= z[2]
    OBVIOUS
  <2>1. <<b, k>> \in Range(s)
    BY DEF Whole
  <2>2. PICK n \in 1 .. Len(s) : s[n] = <<b, k>>
    BY <1>1, <2>1, RangeIs
  <2>3. n < Len(s) => s[n][2] < s[Len(s)][2]
    BY <1>2 DEF Whole, Ordered
  <2>4. s[n][2] = k
    BY <2>2
  <2>5. CASE n = Len(s)
    BY <1>1, <1>2, <1>5, <2>4, <2>5
  <2>6. CASE n # Len(s)
    <3>1. n < Len(s)
      BY <1>1, <2>6
    <3>2. k < z[2] /\ k \in Nat /\ z[2] \in Nat
      BY <1>1, <1>2, <1>5, <2>3, <2>4, <3>1
    <3> QED BY <3>2
  <2> QED BY <2>5, <2>6
<1> QED BY <1>5, <1>6, <1>7

\* find_deepest_active_list_item finds the last item of a list from the list.
LEMMA DeepestOfList ==
  ASSUME doc \in Seq(Block), kids \in [Nodes -> Seq(Nodes)], KidsAfter,
         NEW b \in 1 .. Len(doc), IsList(b), Whole(b)
  PROVE  Deepest(<<b, 0>>) = LastItem(b)
<1> PICK N : N = Len(Levels(b))
  OBVIOUS
<1> PICK Bad : Bad = {j \in 0 .. N : Tip(b, j) /\ Deepest(<<b, j>>) # <<b, N>>}
  OBVIOUS
<1>1. /\ N \in Nat \ {0} /\ Lev(b, 0) = 0
      /\ \A k \in 0 .. N : Lev(b, k) \in Nat /\ <<b, k>> \in Nodes
      /\ \A k \in 1 .. N : Lev(b, k) > 0
  BY LevFacts
<1>2. Tip(b, 0)
  BY <1>1 DEF Tip
<1>3. Bad = {}
  <2> SUFFICES ASSUME Bad # {} PROVE FALSE
    OBVIOUS
  <2>1. PICK j \in Bad : \A m \in Bad : m <= j
    <3>1. Bad \in SUBSET (0 .. N) /\ N \in Nat
      BY <1>1
    <3>2. Max(Bad) \in Bad /\ \A y \in Bad : y <= Max(Bad)
      BY <3>1, Largest
    <3> QED BY <3>2
  <2>2. j \in 0 .. N /\ Tip(b, j) /\ Deepest(<<b, j>>) # <<b, N>>
    OBVIOUS
  <2>3. <<b, j>> \in Nodes /\ <<b, N>> # None
    <3>1. <<b, j>> \in Nodes /\ <<b, N>> \in Nodes
      BY <1>1, <2>2
    <3> QED BY <3>1, NodeFacts
  <2>4. CASE j = N
    <3>1. kids[<<b, j>>] = <<>>
      <4> SUFFICES ASSUME kids[<<b, j>>] # <<>> PROVE FALSE
        OBVIOUS
      <4>1. PICK c \in 1 .. N : Near(b, c, j)
        BY <2>2, LastUnder
      <4> QED BY <1>1, <2>4, <4>1 DEF Near
    <3>2. Deepest(<<b, j>>) = <<b, j>>
      <4>1. Deepest(<<b, j>>) = IF <<b, j>>[2] > 0 THEN <<b, j>> ELSE None
        BY <2>3, <3>1, DeepestIs
      <4> QED BY <1>1, <2>4, <4>1
    <3> QED BY <2>2, <2>4, <3>2
  <2>5. CASE j # N
    <3>1. Near(b, j + 1, j) /\ j + 1 \in 1 .. N
      BY <1>1, <2>2, <2>5, NextTip
    <3>2. kids[<<b, j>>] # <<>>
      <4>1. <<b, j + 1>> \in Range(kids[<<b, j>>])
        BY <2>2, <3>1 DEF Whole
      <4>2. kids[<<b, j>>] \in Seq(Nodes)
        BY <2>3
      <4>3. Range(kids[<<b, j>>]) = {kids[<<b, j>>][n] : n \in 1 .. Len(kids[<<b, j>>])}
        BY <4>2, RangeIs
      <4>4. PICK n \in 1 .. Len(kids[<<b, j>>]) : TRUE
        BY <4>1, <4>3
      <4> QED BY <4>4
    <3>3. PICK c \in 1 .. N : /\ Last(kids[<<b, j>>]) = <<b, c>> /\ Near(b, c, j)
                              /\ \A k \in 1 .. N : Near(b, k, j) => k <= c
      BY <2>2, <3>2, LastUnder
    <3>4. Tip(b, c) /\ c > j /\ c \in 0 .. N
      <4>1. Tip(b, c)
        BY <2>2, <3>3, TipGoesOn
      <4> QED BY <1>1, <2>2, <3>3, <4>1 DEF Near
    <3>5. Deepest(<<b, c>>) = <<b, N>>
      BY <1>1, <2>1, <2>2, <3>4
    <3>6. Deepest(<<b, j>>) = <<b, N>>
      <4>1. Deepest(Last(kids[<<b, j>>])) = <<b, N>>
        BY <3>3, <3>5
      <4> QED BY <2>3, <3>2, <4>1, DeepestIs
    <3> QED BY <2>2, <3>6
  <2> QED BY <2>4, <2>5
<1>4. 0 \in 0 .. N
  BY <1>1
<1> QED BY <1>2, <1>3, <1>4 DEF LastItem

-----------------------------------------------------------------------------
(* The tree while the lists are resolved                                   *)

Phase == i = 1 \/ next[1] > Len(doc)
Bare  == \A b \in 1 .. Len(doc) : ~ IsList(b) => kids[<<b, 0>>] = <<>>

\* The lists that are still to come are as _nest_list_items leaves them.
Fresh ==
  \A b \in i .. Len(doc) : IsList(b) =>
    /\ \A j \in 0 .. Len(Levels(b)) : Ordered(kids[<<b, j>>], b)
    /\ \A k \in 1 .. Len(Levels(b)) :
         <<b, k>> \in Range(kids[<<b, 0>>]) <=> IsNested(b, k) /\ Near(b, k, 0)

TreeInv == KidsAfter /\ Phase /\ Bare /\ Fresh

LEMMA NearIsNearest ==
  ASSUME doc \in Seq(Block), NEW b \in 1 .. Len(doc), IsList(b),
         NEW k \in 1 .. Len(Levels(b)), NEW j \in 1 .. Len(Levels(b))
  PROVE  Near(b, k, j) <=> Nearest(b, k, j)
<1>1. /\ Len(Levels(b)) \in Nat
      /\ \A m \in 1 .. Len(Levels(b)) : Levels(b)[m] \in Nat /\ Lev(b, m) = Levels(b)[m] + 1
  BY ListFacts, LevFacts
<1>2. \A m, n \in 1 .. Len(Levels(b)) :
        /\ Lev(b, m) < Lev(b, n) <=> Levels(b)[m] < Levels(b)[n]
        /\ Lev(b, m) >= Lev(b, n) <=> Levels(b)[m] >= Levels(b)[n]
  <2> SUFFICES ASSUME NEW m \in 1 .. Len(Levels(b)), NEW n \in 1 .. Len(Levels(b))
               PROVE  /\ Lev(b, m) < Lev(b, n) <=> Levels(b)[m] < Levels(b)[n]
                      /\ Lev(b, m) >= Lev(b, n) <=> Levels(b)[m] >= Levels(b)[n]
    OBVIOUS
  <2>1. /\ Levels(b)[m] \in Nat /\ Lev(b, m) = Levels(b)[m] + 1
        /\ Levels(b)[n] \in Nat /\ Lev(b, n) = Levels(b)[n] + 1
    BY <1>1
  <2> QED BY <2>1
<1>3. \A m \in j + 1 .. k - 1 : m \in 1 .. Len(Levels(b))
  BY <1>1
<1> QED BY <1>2, <1>3 DEF Near, Nearest

LEMMA FreshIsWhole ==
  ASSUME NestInv, Fresh, NEW b \in i .. Len(doc), IsList(b), next[1] > Len(doc)
  PROVE  Whole(b)
<1>1. doc \in Seq(Block) /\ Len(doc) \in Nat /\ b \in 1 .. Len(doc) /\ Len(Levels(b)) \in Nat
      /\ b < next[1]
  <2>1. doc \in Seq(Block) /\ Len(doc) \in Nat /\ b \in 1 .. Len(doc) /\ b < next[1]
    BY DEF NestInv, Types, Place
  <2> QED BY <2>1, ListFacts
<1>2. \A k : IsNested(b, k)
  BY <1>1 DEF IsNested
<1>3. \A j \in 0 .. Len(Levels(b)) : Ordered(kids[<<b, j>>], b)
  BY DEF Fresh
<1>4. ASSUME NEW j \in 0 .. Len(Levels(b)), NEW k \in 1 .. Len(Levels(b))
      PROVE  <<b, k>> \in Range(kids[<<b, j>>]) <=> Near(b, k, j)
  <2>1. CASE j = 0
    BY <1>2, <2>1 DEF Fresh
  <2>2. CASE j # 0
    <3>1. j \in 1 .. Len(Levels(b))
      BY <1>1, <2>2
    <3>2. <<b, k>> \in Range(kids[<<b, j>>]) <=> Nearest(b, k, j)
      BY <1>1, <1>2, <3>1 DEF NestInv, Placed
    <3> QED BY <1>1, <3>1, <3>2, NearIsNearest
  <2> QED BY <2>1, <2>2
<1> QED BY <1>3, <1>4 DEF Whole

\* What the kids of a node are after one more is put under x.
LEMMA UnderIs ==
  ASSUME kids \in [Nodes -> Seq(Nodes)], NEW x, NEW y \in Nodes, NEW z \in Nodes
  PROVE  Under(x, y)[z] = IF z = x THEN Append(kids[z], y) ELSE kids[z]
BY DEF Under

LEMMA OrderedAppend ==
  ASSUME NEW s \in Seq(Nodes), NEW b, Ordered(s, b), NEW y, y[1] = b, y[2] # 0,
         \A z \in Range(s) : z[2] < y[2]
  PROVE  Ordered(Append(s, y), b)
<1> PICK t : t = Append(s, y)
  OBVIOUS
<1>1. /\ Len(s) \in Nat /\ Len(t) = Len(s) + 1 /\ t[Len(s) + 1] = y
      /\ \A n \in 1 .. Len(s) : t[n] = s[n] /\ s[n] \in Range(s)
  BY RangeIs
<1>2. \A z \in Range(t) : z[1] = b /\ z[2] # 0
  BY RangeAppend DEF Ordered
<1>3. ASSUME NEW m \in 1 .. Len(t), NEW n \in 1 .. Len(t), m < n
      PROVE  t[m][2] < t[n][2]
  <2>1. m \in 1 .. Len(s)
    BY <1>1, <1>3
  <2>2. CASE n = Len(s) + 1
    BY <1>1, <2>1, <2>2
  <2>3. CASE n # Len(s) + 1
    <3>1. n \in 1 .. Len(s)
      BY <1>1, <2>3
    <3> QED BY <1>1, <1>3, <2>1, <3>1 DEF Ordered
  <2> QED BY <2>2, <2>3
<1> QED BY <1>2, <1>3 DEF Ordered

\* An item goes under the list itself when none before it has a lower level.
LEMMA ParentIsRoot ==
  ASSUME NestInv, NestItem, NEW q, OuterAre(q)
  PROVE  <<next[1], 0>> = Parent(q) <=> Near(next[1], next[2], 0)
<1> PICK b, k : b = next[1] /\ k = next[2]
  OBVIOUS
<1>0. doc \in Seq(Block) /\ b \in 1 .. Len(doc) /\ IsList(b)
  BY NestItemFacts, PlaceFacts DEF NestInv, Types, Nesting
<1>1. /\ k \in 1 .. Len(Levels(b)) /\ Len(Levels(b)) \in Nat /\ Level = Levels(b)[k]
      /\ Level \in Nat /\ \A m \in 1 .. Len(Levels(b)) : Levels(b)[m] \in Nat
  BY NestItemFacts, PlaceFacts DEF Level
<1>2. /\ Lev(b, 0) = 0 /\ Lev(b, k) = Level + 1
      /\ \A m \in 1 .. k - 1 : Lev(b, m) = Levels(b)[m] + 1 /\ Levels(b)[m] \in Nat
  <2>1. \A m \in 1 .. k - 1 : m \in 1 .. Len(Levels(b))
    BY <1>1
  <2> QED BY <1>0, <1>1, <2>1, LevFacts
<1>3. Near(b, k, 0) <=> \A m \in 1 .. k - 1 : Levels(b)[m] >= Level
  <2>1. \A m \in 1 .. k - 1 : Lev(b, m) >= Lev(b, k) <=> Levels(b)[m] >= Level
    <3> SUFFICES ASSUME NEW m \in 1 .. k - 1
                 PROVE  Lev(b, m) >= Lev(b, k) <=> Levels(b)[m] >= Level
      OBVIOUS
    <3>1. Lev(b, m) = Levels(b)[m] + 1 /\ Levels(b)[m] \in Nat
      BY <1>2
    <3> QED BY <1>1, <1>2, <3>1
  <2>2. 0 + 1 = 1 /\ 0 < k /\ Lev(b, 0) < Lev(b, k)
    BY <1>1, <1>2
  <2> QED BY <2>1, <2>2 DEF Near
<1>4. /\ Len(stack) \in Nat
      /\ \A n \in 1 .. Len(stack) :
           /\ stack[n].level \in Nat /\ stack[n].last[2] \in 1 .. k - 1
           /\ stack[n].level = Levels(b)[stack[n].last[2]]
  BY StackFacts
<1>5. q \in 0 .. Len(stack) /\ \A n \in 1 .. Len(stack) : n <= q <=> stack[n].level < Level
  BY DEF OuterAre
<1>6. CASE q = 0
  <2>1. ASSUME NEW m \in 1 .. k - 1 PROVE Levels(b)[m] >= Level
    <3>1. PICK n \in 1 .. Len(stack) : stack[n].level <= Levels(b)[m]
      BY DEF NestInv, Covered
    <3>2. ~ (stack[n].level < Level) /\ stack[n].level \in Nat /\ Levels(b)[m] \in Nat
      BY <1>2, <1>4, <1>5, <1>6
    <3> QED BY <1>1, <3>1, <3>2
  <2> QED BY <1>3, <1>6, <2>1, ParentFacts
<1>7. CASE q # 0
  <2>1. q \in 1 .. Len(stack)
    BY <1>4, <1>5, <1>7
  <2> PICK p : p = stack[q].last[2]
    OBVIOUS
  <2>2. p \in 1 .. k - 1 /\ Levels(b)[p] < Level /\ Parent(q) = <<b, p>>
    BY <1>4, <1>5, <1>7, <2>1, ParentFacts
  <2>3. p # 0 /\ ~ (Levels(b)[p] >= Level)
    BY <1>1, <1>2, <2>2
  <2> QED BY <1>3, <2>2, <2>3
<1> QED BY <1>6, <1>7

LEMMA SameBlocks ==
  ASSUME UNCHANGED doc
  PROVE  /\ Nodes' = Nodes
         /\ \A b : Levels(b)' = Levels(b) /\ (IsList(b)' <=> IsList(b))
         /\ \A b, k, j : Near(b, k, j)' <=> Near(b, k, j)
<1>1. \A b : Levels(b)' = Levels(b) /\ (IsList(b)' <=> IsList(b))
  BY DEF Levels, IsList
<1>2. \A b, j : Lev(b, j)' = Lev(b, j)
  BY <1>1 DEF Lev
<1>3. \A b, k, j : Near(b, k, j)' <=> Near(b, k, j)
  BY <1>2 DEF Near
<1> QED BY <1>1, <1>3, SameNodes

LEMMA KidsAreNodes ==
  ASSUME kids \in [Nodes -> Seq(Nodes)], NEW x \in Nodes
  PROVE  \A y \in Range(kids[x]) : y \in Nodes
<1>1. kids[x] \in Seq(Nodes)
  OBVIOUS
<1>2. Range(kids[x]) = {kids[x][n] : n \in 1 .. Len(kids[x])}
  BY <1>1, RangeIs
<1> QED BY <1>1, <1>2

\* The items under a node of the list that is being nested are before the next.
LEMMA NestedBefore ==
  ASSUME NestInv, TreeInv, Nesting, NEW j \in 0 .. Len(Levels(next[1])),
         NEW y \in Range(kids[<<next[1], j>>])
  PROVE  y[2] < next[2]
<1> PICK b : b = next[1]
  OBVIOUS
<1>1. /\ doc \in Seq(Block) /\ b \in 1 .. Len(doc) /\ IsList(b) /\ Len(doc) \in Nat
      /\ Len(Levels(b)) \in Nat /\ kids \in [Nodes -> Seq(Nodes)] /\ i \in Nat /\ i = 1
  <2>1. /\ doc \in Seq(Block) /\ b \in 1 .. Len(doc) /\ IsList(b) /\ Len(doc) \in Nat
        /\ kids \in [Nodes -> Seq(Nodes)] /\ i \in Nat
    BY PlaceFacts DEF NestInv, Types, Nesting
  <2>2. i = 1
    BY <2>1 DEF TreeInv, Phase
  <2> QED BY <2>1, <2>2, ListFacts
<1>2. /\ j \in 0 .. Len(Levels(b)) /\ <<b, j>> \in Nodes /\ y \in Range(kids[<<b, j>>])
      /\ b \in i .. Len(doc)
  BY <1>1, LevFacts
<1>3. y \in Nodes /\ y[1] = b /\ y[2] # 0
  <2>1. Ordered(kids[<<b, j>>], b)
    BY <1>1, <1>2 DEF TreeInv, Fresh
  <2>2. y[1] = b /\ y[2] # 0
    BY <1>2, <2>1 DEF Ordered
  <2>3. y \in Nodes
    BY <1>1, <1>2, KidsAreNodes
  <2> QED BY <2>2, <2>3
<1>4. y = <<b, y[2]>> /\ y[2] \in 1 .. Len(Levels(b))
  BY <1>1, <1>3, NodeFacts
<1>5. IsNested(b, y[2])
  <2>1. CASE j = 0
    BY <1>1, <1>2, <1>4, <2>1 DEF TreeInv, Fresh
  <2>2. CASE j # 0
    <3>1. j \in 1 .. Len(Levels(b))
      BY <1>1, <1>2, <2>2
    <3> QED BY <1>1, <1>2, <1>4, <3>1 DEF NestInv, Placed
  <2> QED BY <2>1, <2>2
<1> QED BY <1>1, <1>5 DEF IsNested

LEMMA NestItemTree == NestInv /\ TreeInv /\ NestItem => TreeInv'
<1> SUFFICES ASSUME NestInv, TreeInv, NestItem PROVE TreeInv'
  OBVIOUS
<1> PICK q : OuterAre(q)
  BY NestItemFacts, OuterFacts
<1> PICK b, k, p : b = next[1] /\ k = next[2] /\ p = Parent(q)
  OBVIOUS
<1>1. /\ b \in 1 .. Len(doc) /\ k \in 1 .. Len(Levels(b)) /\ next \in Nodes
      /\ next = <<b, k>> /\ IsList(b) /\ Nesting /\ b <= Len(doc)
  BY NestItemFacts, PlaceFacts DEF Nesting
<1>2. /\ doc \in Seq(Block) /\ Len(doc) \in Nat /\ kids \in [Nodes -> Seq(Nodes)]
      /\ UNCHANGED <<doc, i>>
  BY NestItemFacts DEF NestInv, Types
<1>3. i = 1 /\ i' = 1
  BY <1>1, <1>2 DEF TreeInv, Phase
<1>4. /\ Nodes' = Nodes
      /\ \A c : Levels(c)' = Levels(c) /\ (IsList(c)' <=> IsList(c))
      /\ \A c, m, j : Near(c, m, j)' <=> Near(c, m, j)
  BY <1>2, SameBlocks
<1>5. /\ p \in Nodes /\ kids' = Under(p, next)
      /\ \E j \in 0 .. k - 1 : p = <<b, j>>
  <2>1. p \in Nodes /\ kids' = Under(p, next)
    BY ParentFacts
  <2>2. CASE q = 0
    <3>1. 0 \in 0 .. k - 1 /\ p = <<b, 0>>
      BY <1>1, <2>2, ParentFacts
    <3> QED BY <2>1, <3>1
  <2>3. CASE q # 0
    <3>1. q \in 1 .. Len(stack) /\ Len(stack) \in Nat
      BY <2>3, StackFacts DEF OuterAre
    <3>2. stack[q].last[2] \in 0 .. k - 1 /\ p = <<b, stack[q].last[2]>>
      BY <2>3, <3>1, StackFacts, ParentFacts
    <3> QED BY <2>1, <3>2
  <2> QED BY <2>2, <2>3
<1>6. \A z \in Nodes : /\ kids'[z] = IF z = p THEN Append(kids[z], next) ELSE kids[z]
                       /\ Range(kids'[z]) = IF z = p THEN Range(kids[z]) \cup {next}
                                                     ELSE Range(kids[z])
  <2>1. Adds(kids', p, next)
    BY <1>1, <1>2, <1>5, UnderFacts
  <2>2. \A z \in Nodes : kids'[z] = IF z = p THEN Append(kids[z], next) ELSE kids[z]
    <3>1. \A z \in Nodes : Under(p, next)[z] = IF z = p THEN Append(kids[z], next) ELSE kids[z]
      BY <1>1, <1>2, UnderIs
    <3> QED BY <1>5, <3>1
  <2> QED BY <2>1, <2>2 DEF Adds
<1>7. \A c \in 1 .. Len(doc) : IsList(c) => Len(Levels(c)) \in Nat \ {0}
  BY <1>2, ListFacts
<1>8. KidsAfter'
  <2>1. Precedes(p, next)
    BY <1>1, <1>5 DEF Precedes
  <2>2. \A x \in Nodes : \A y \in Range(kids'[x]) : Precedes(x, y)
    BY <1>6, <2>1 DEF TreeInv, KidsAfter
  <2> QED BY <1>4, <2>2 DEF KidsAfter, Precedes
<1>9. Bare'
  <2> SUFFICES ASSUME NEW c \in 1 .. Len(doc), ~ IsList(c) PROVE kids'[<<c, 0>>] = <<>>
    BY <1>2, <1>4 DEF Bare
  <2>1. <<c, 0>> # p /\ <<c, 0>> \in Nodes
    BY <1>1, <1>5, BlocksAreNodes
  <2> QED BY <1>6, <2>1 DEF TreeInv, Bare
<1>10. Fresh'
  <2> SUFFICES ASSUME NEW c \in 1 .. Len(doc), IsList(c)
               PROVE  /\ \A j \in 0 .. Len(Levels(c)) : Ordered(kids'[<<c, j>>], c)
                      /\ \A m \in 1 .. Len(Levels(c)) :
                           <<c, m>> \in Range(kids'[<<c, 0>>]) <=> IsNested(c, m)' /\ Near(c, m, 0)
    BY <1>2, <1>3, <1>4 DEF Fresh
  <2>0. /\ c \in i .. Len(doc) /\ Len(Levels(c)) \in Nat
        /\ \A j \in 0 .. Len(Levels(c)) : <<c, j>> \in Nodes
    BY <1>2, <1>3, LevFacts
  <2>1. ASSUME NEW j \in 0 .. Len(Levels(c)) PROVE Ordered(kids'[<<c, j>>], c)
    <3>1. Ordered(kids[<<c, j>>], c) /\ kids[<<c, j>>] \in Seq(Nodes)
      BY <1>2, <2>0 DEF TreeInv, Fresh
    <3>2. CASE <<c, j>> = p
      <4>1. c = b
        BY <1>5, <3>2
      <4>2. \A z \in Range(kids[<<c, j>>]) : z[2] < k
        BY <1>1, <4>1, NestedBefore
      <4>3. next[1] = c /\ next[2] # 0 /\ \A z \in Range(kids[<<c, j>>]) : z[2] < next[2]
        BY <1>1, <1>7, <4>1, <4>2
      <4>4. Ordered(Append(kids[<<c, j>>], next), c)
        BY <3>1, <4>3, OrderedAppend
      <4> QED BY <1>6, <2>0, <3>2, <4>4
    <3>3. CASE <<c, j>> # p
      BY <1>6, <2>0, <3>1, <3>3
    <3> QED BY <3>2, <3>3
  <2>2. ASSUME NEW m \in 1 .. Len(Levels(c))
        PROVE  <<c, m>> \in Range(kids'[<<c, 0>>]) <=> IsNested(c, m)' /\ Near(c, m, 0)
    <3>1. <<c, m>> \in Range(kids[<<c, 0>>]) <=> IsNested(c, m) /\ Near(c, m, 0)
      BY <2>0 DEF TreeInv, Fresh
    <3>2. <<c, m>> \in Range(kids'[<<c, 0>>])
            <=> <<c, m>> \in Range(kids[<<c, 0>>]) \/ (<<c, m>> = next /\ <<c, 0>> = p)
      <4>1. <<c, 0>> \in Nodes
        BY BlocksAreNodes
      <4>2. Range(kids'[<<c, 0>>]) = IF <<c, 0>> = p THEN Range(kids[<<c, 0>>]) \cup {next}
                                                     ELSE Range(kids[<<c, 0>>])
        BY <1>6, <4>1
      <4> QED BY <4>2
    <3>3. IsNested(c, m)' <=> IsNested(c, m) \/ <<c, m>> = next
      BY NestedNext
    <3>4. <<c, m>> = next => ~ IsNested(c, m) /\ (<<c, 0>> = p <=> Near(c, m, 0))
      <4> SUFFICES ASSUME <<c, m>> = next
                   PROVE  ~ IsNested(c, m) /\ (<<c, 0>> = p <=> Near(c, m, 0))
        OBVIOUS
      <4>1. c = b /\ m = k
        BY <1>1
      <4>2. ~ IsNested(c, m)
        BY <1>1, <1>7, <4>1 DEF IsNested
      <4> QED BY <4>1, <4>2, ParentIsRoot
    <3> QED BY <3>1, <3>2, <3>3, <3>4
  <2> QED BY <2>1, <2>2
<1> QED BY <1>3, <1>8, <1>9, <1>10 DEF TreeInv, Phase

LEMMA PassOverTree == NestInv /\ TreeInv /\ PassOver => TreeInv'
<1> SUFFICES ASSUME NestInv, TreeInv, PassOver PROVE TreeInv'
  OBVIOUS
<1>1. /\ next[1] \in 1 .. Len(doc) /\ ~ IsList(next[1]) /\ next[2] = 1 /\ doc \in Seq(Block)
      /\ Len(doc) \in Nat /\ next'[1] = next[1] + 1 /\ next'[2] = 1 /\ i \in Nat
      /\ UNCHANGED <<doc, i, kids>>
  BY DEF NestInv, Types, Place, PassOver
<1>2. i = 1 /\ i' = 1
  BY <1>1 DEF TreeInv, Phase
<1>3. /\ Nodes' = Nodes
      /\ \A b : Levels(b)' = Levels(b) /\ (IsList(b)' <=> IsList(b))
      /\ \A b, k, j : Near(b, k, j)' <=> Near(b, k, j)
  BY <1>1, SameBlocks
<1>4. KidsAfter' /\ Bare'
  BY <1>1, <1>3 DEF TreeInv, KidsAfter, Bare, Precedes
<1>5. \A c \in 1 .. Len(doc) : IsList(c) => \A m \in 1 .. Len(Levels(c)) :
        IsNested(c, m)' <=> IsNested(c, m)
  <2> SUFFICES ASSUME NEW c \in 1 .. Len(doc), IsList(c), NEW m \in 1 .. Len(Levels(c))
               PROVE  IsNested(c, m)' <=> IsNested(c, m)
    OBVIOUS
  <2>1. c # next[1] /\ m \in Nat \ {0}
    BY <1>1, ListFacts
  <2> QED BY <1>1, <2>1 DEF IsNested
<1>6. Fresh'
  <2> SUFFICES ASSUME NEW c \in 1 .. Len(doc), IsList(c)
               PROVE  /\ \A j \in 0 .. Len(Levels(c)) : Ordered(kids[<<c, j>>], c)
                      /\ \A m \in 1 .. Len(Levels(c)) :
                           <<c, m>> \in Range(kids[<<c, 0>>]) <=> IsNested(c, m)' /\ Near(c, m, 0)
    BY <1>1, <1>2, <1>3 DEF Fresh
  <2>1. c \in i .. Len(doc)
    BY <1>2
  <2> QED BY <1>5, <2>1 DEF TreeInv, Fresh
<1> QED BY <1>2, <1>4, <1>6 DEF TreeInv, Phase

\* A step of resolve_list_continuations leaves what is under the lists to come.
LEMMA TreeStays ==
  ASSUME NestInv, TreeInv, Resolving, UNCHANGED <<doc, next>>,
         i' \in Nat, i' >= i, KidsAfter', Bare',
         \A z \in Nodes : z[1] >= i' => kids'[z] = kids[z]
  PROVE  TreeInv'
<1>1. doc \in Seq(Block) /\ Len(doc) \in Nat /\ i \in Nat /\ next[1] > Len(doc)
  BY DEF NestInv, Types, Resolving
<1>2. /\ Nodes' = Nodes
      /\ \A b : Levels(b)' = Levels(b) /\ (IsList(b)' <=> IsList(b))
      /\ \A b, k, j : Near(b, k, j)' <=> Near(b, k, j)
      /\ \A b, k : IsNested(b, k)' <=> IsNested(b, k)
  BY SameBlocks DEF IsNested
<1>3. Fresh'
  <2> SUFFICES ASSUME NEW c \in i' .. Len(doc), IsList(c)
               PROVE  /\ \A j \in 0 .. Len(Levels(c)) : Ordered(kids'[<<c, j>>], c)
                      /\ \A m \in 1 .. Len(Levels(c)) :
                           <<c, m>> \in Range(kids'[<<c, 0>>]) <=> IsNested(c, m) /\ Near(c, m, 0)
    BY <1>2 DEF Fresh
  <2>1. c \in i .. Len(doc) /\ c \in Nat /\ c >= i'
    BY <1>1
  <2>2. c \in 1 .. Len(doc)
    BY <1>1, <2>1 DEF NestInv, Types
  <2>3. Len(Levels(c)) \in Nat /\ \A j \in 0 .. Len(Levels(c)) : kids'[<<c, j>>] = kids[<<c, j>>]
    BY <1>1, <2>1, <2>2, LevFacts
  <2>4. kids'[<<c, 0>>] = kids[<<c, 0>>]
    BY <2>3
  <2> QED BY <2>1, <2>3, <2>4 DEF TreeInv, Fresh
<1> QED BY <1>1, <1>3 DEF TreeInv, Phase

\* x is an item before i, as the last active item is.
ItemBefore(x) == x \in Nodes /\ x[2] # 0 /\ x[1] < i

LEMMA ContinueTree ==
  ASSUME NestInv, TreeInv, Continue, ItemBefore(Continued)
  PROVE  TreeInv'
<1> PICK x : x = Continued
  OBVIOUS
<1>1. /\ Resolving /\ i < Len(doc) /\ i' = i + 2 /\ UNCHANGED <<doc, next, stack, resolved>>
      /\ kids' = Under(x, <<i + 1, 0>>)
  BY DEF Continue, Attaches
<1>2. /\ i \in 1 .. Len(doc) /\ i + 1 \in 1 .. Len(doc) /\ <<i + 1, 0>> \in Nodes
      /\ kids \in [Nodes -> Seq(Nodes)] /\ doc \in Seq(Block) /\ Len(doc) \in Nat
  <2>1. i + 1 \in 1 .. Len(doc)
    BY <1>1, ResolvingFacts
  <2> QED BY <1>1, <2>1, ResolvingFacts
<1>3. x \in Nodes /\ x[2] # 0 /\ x[1] < i /\ x[1] \in Nat /\ IsList(x[1])
  BY <1>2, NodeFacts DEF ItemBefore
<1>4. \A z \in Nodes : /\ z # x => kids'[z] = kids[z]
                       /\ Range(kids'[z]) = IF z = x THEN Range(kids[z]) \cup {<<i + 1, 0>>}
                                                     ELSE Range(kids[z])
  <2>1. Adds(Under(x, <<i + 1, 0>>), x, <<i + 1, 0>>)
    BY <1>2, UnderFacts
  <2>2. \A z \in Nodes : z # x => Under(x, <<i + 1, 0>>)[z] = kids[z]
    BY <1>2, UnderIs
  <2> QED BY <1>1, <2>1, <2>2 DEF Adds
<1>5. /\ Nodes' = Nodes /\ \A b : IsList(b)' <=> IsList(b)
  BY <1>1, SameBlocks
<1>6. KidsAfter'
  <2>1. Precedes(x, <<i + 1, 0>>)
    BY <1>2, <1>3 DEF Precedes
  <2>2. \A z \in Nodes : \A y \in Range(kids'[z]) : Precedes(z, y)
    BY <1>4, <2>1 DEF TreeInv, KidsAfter
  <2> QED BY <1>5, <2>2 DEF KidsAfter, Precedes
<1>7. Bare'
  <2>1. \A b \in 1 .. Len(doc) : <<b, 0>> \in Nodes /\ <<b, 0>> # x
    <3>1. \A b : <<b, 0>>[2] = 0
      OBVIOUS
    <3>2. \A b : <<b, 0>> # x
      BY <1>3, <3>1
    <3> QED BY <3>2, BlocksAreNodes
  <2>2. \A b \in 1 .. Len(doc) : ~ IsList(b) => kids'[<<b, 0>>] = <<>>
    BY <1>4, <2>1 DEF TreeInv, Bare
  <2> QED BY <1>1, <1>5, <2>2 DEF Bare
<1>8. \A z \in Nodes : z[1] >= i' => kids'[z] = kids[z]
  <2>1. \A z \in Nodes : z[1] >= i' => z # x
    BY <1>1, <1>2, <1>3
  <2> QED BY <1>4, <2>1
<1>9. i' \in Nat /\ i' >= i
  BY <1>1, <1>2
<1> QED BY <1>1, <1>6, <1>7, <1>8, <1>9, TreeStays

LEMMA RangeConcat ==
  ASSUME NEW S, NEW s \in Seq(S), NEW t \in Seq(S)
  PROVE  Range(s \o t) = Range(s) \cup Range(t)
<1> PICK u : u = s \o t
  OBVIOUS
<1>1. /\ Len(s) \in Nat /\ Len(t) \in Nat /\ Len(u) = Len(s) + Len(t)
      /\ \A n \in 1 .. Len(u) : u[n] = IF n <= Len(s) THEN s[n] ELSE t[n - Len(s)]
      /\ u \in Seq(S)
  OBVIOUS
<1>2. /\ Range(u) = {u[n] : n \in 1 .. Len(u)}
      /\ Range(s) = {s[n] : n \in 1 .. Len(s)} /\ Range(t) = {t[n] : n \in 1 .. Len(t)}
  <2>1. \A v \in Seq(S) : Range(v) = {v[n] : n \in 1 .. Len(v)}
    BY RangeIs
  <2> QED BY <1>1, <2>1
<1>3. ASSUME NEW y \in Range(u) PROVE y \in Range(s) \cup Range(t)
  <2>1. PICK n \in 1 .. Len(u) : y = u[n]
    BY <1>2
  <2>2. CASE n <= Len(s)
    <3>1. n \in 1 .. Len(s) /\ y = s[n]
      BY <1>1, <2>1, <2>2
    <3> QED BY <1>2, <3>1
  <2>3. CASE ~ (n <= Len(s))
    <3>1. n - Len(s) \in 1 .. Len(t) /\ y = t[n - Len(s)]
      BY <1>1, <2>1, <2>3
    <3> QED BY <1>2, <3>1
  <2> QED BY <2>2, <2>3
<1>4. ASSUME NEW y \in Range(s) PROVE y \in Range(u)
  <2>1. PICK n \in 1 .. Len(s) : y = s[n]
    BY <1>2
  <2>2. n \in 1 .. Len(u) /\ y = u[n]
    BY <1>1, <2>1
  <2> QED BY <1>2, <2>2
<1>5. ASSUME NEW y \in Range(t) PROVE y \in Range(u)
  <2>1. PICK n \in 1 .. Len(t) : y = t[n]
    BY <1>2
  <2>2. n + Len(s) \in 1 .. Len(u) /\ ~ (n + Len(s) <= Len(s)) /\ (n + Len(s)) - Len(s) = n
    BY <1>1
  <2>3. y = u[n + Len(s)]
    BY <1>1, <2>1, <2>2
  <2> QED BY <1>2, <2>2, <2>3
<1> QED BY <1>3, <1>4, <1>5

LEMMA JoinTree ==
  ASSUME NestInv, TreeInv, Join, Last(resolved)[1] < i
  PROVE  TreeInv'
<1> PICK x : x = Last(resolved)
  OBVIOUS
<1>1. /\ Resolving /\ i' = i + 1 /\ UNCHANGED <<doc, next, stack, resolved>>
      /\ resolved # <<>> /\ IsList(i) /\ IsList(x[1])
      /\ kids' = [kids EXCEPT ![x] = @ \o kids[<<i, 0>>], ![<<i, 0>>] = <<>>]
  BY DEF Join, Joins
<1>2. /\ i \in 1 .. Len(doc) /\ <<i, 0>> \in Nodes /\ Len(doc) \in Nat
      /\ kids \in [Nodes -> Seq(Nodes)] /\ doc \in Seq(Block)
  BY <1>1, ResolvingFacts
<1>3. x \in Nodes /\ x[1] < i /\ x[1] \in Nat /\ x # <<i, 0>>
  <2>1. x \in {<<b, 0>> : b \in 1 .. Len(doc)}
    BY <1>1, ResolvingFacts DEF Last
  <2>2. x \in Nodes
    BY <2>1, BlocksAreNodes
  <2> QED BY <1>2, <2>2, NodeFacts
<1>4. \A z \in Nodes : kids'[z] = IF z = <<i, 0>> THEN <<>>
                                  ELSE IF z = x THEN kids[x] \o kids[<<i, 0>>] ELSE kids[z]
  BY <1>1, <1>2, <1>3
<1>5. /\ Nodes' = Nodes /\ \A b : IsList(b)' <=> IsList(b)
  BY <1>1, SameBlocks
<1>6. KidsAfter'
  <2> SUFFICES ASSUME NEW z \in Nodes, NEW y \in Range(kids'[z]) PROVE Precedes(z, y)
    BY <1>5 DEF KidsAfter, Precedes
  <2>1. kids[x] \in Seq(Nodes) /\ kids[<<i, 0>>] \in Seq(Nodes)
    BY <1>2, <1>3
  <2>2. CASE z = <<i, 0>>
    <3>1. Range(<<>>) = {}
      BY DEF Range
    <3> QED BY <1>4, <2>2, <3>1
  <2>3. CASE z = x
    <3>1. y \in Range(kids[x]) \/ y \in Range(kids[<<i, 0>>])
      BY <1>3, <1>4, <2>1, <2>3, RangeConcat
    <3>2. y \in Nodes
      BY <1>2, <1>3, <3>1, KidsAreNodes
    <3>3. y[1] \in Nat
      BY <1>2, <3>2, NodeFacts
    <3>4. CASE y \in Range(kids[x])
      BY <1>3, <2>3, <3>4 DEF TreeInv, KidsAfter
    <3>5. CASE y \in Range(kids[<<i, 0>>])
      <4>1. Precedes(<<i, 0>>, y)
        BY <1>2, <3>5 DEF TreeInv, KidsAfter
      <4> QED BY <1>2, <1>3, <2>3, <3>3, <4>1 DEF Precedes
    <3> QED BY <3>1, <3>4, <3>5
  <2>4. CASE z # <<i, 0>> /\ z # x
    BY <1>4, <2>4 DEF TreeInv, KidsAfter
  <2> QED BY <2>2, <2>3, <2>4
<1>7. Bare'
  <2> SUFFICES ASSUME NEW b \in 1 .. Len(doc), ~ IsList(b) PROVE kids'[<<b, 0>>] = <<>>
    BY <1>1, <1>5 DEF Bare
  <2>1. <<b, 0>> \in Nodes /\ <<b, 0>> # x
    BY <1>1, BlocksAreNodes
  <2> QED BY <1>4, <2>1 DEF TreeInv, Bare
<1>8. \A z \in Nodes : z[1] >= i' => kids'[z] = kids[z]
  <2>1. \A z \in Nodes : z[1] >= i' => z # x /\ z # <<i, 0>>
    BY <1>1, <1>2, <1>3
  <2> QED BY <1>4, <2>1
<1>9. i' \in Nat /\ i' >= i
  BY <1>1, <1>2
<1> QED BY <1>1, <1>6, <1>7, <1>8, <1>9, TreeStays

LEMMA KeepTree == NestInv /\ TreeInv /\ Keep => TreeInv'
<1> SUFFICES ASSUME NestInv, TreeInv, Keep PROVE TreeInv'
  OBVIOUS
<1>1. Resolving /\ i' = i + 1 /\ UNCHANGED <<doc, next, kids>> /\ i \in Nat
  BY DEF Keep, NestInv, Types
<1>2. /\ Nodes' = Nodes /\ \A b : IsList(b)' <=> IsList(b)
  BY <1>1, SameBlocks
<1>3. KidsAfter' /\ Bare'
  BY <1>1, <1>2 DEF TreeInv, KidsAfter, Bare, Precedes
<1>4. i' \in Nat /\ i' >= i
  BY <1>1
<1> QED BY <1>1, <1>3, <1>4, TreeStays

-----------------------------------------------------------------------------
(* The last active item and what is attached to it                         *)

\* The lists that no "+" attached, and the last of them before b.
Own == {c \in 1 .. Len(doc) : IsList(c) /\ c \notin Attached}
LastOwn(c, b) == c \in Own /\ c < b /\ \A d \in Own : d <= c \/ d >= b

\* The blocks of the result come from before i.
ResolvedBefore == \A n \in 1 .. Len(resolved) : resolved[n][1] < i

\* The last active item is the last one of the last list, of those before i.
ActiveIsLast ==
  IF active = None THEN \A c \in 1 .. i - 1 : ~ IsList(c)
  ELSE \E c \in 1 .. Len(doc) : LastOwn(c, i) /\ active = LastItem(c)

AttachedTo(b) == \E c \in 1 .. Len(doc) :
                   LastOwn(c, b) /\ <<b, 0>> \in Range(kids[LastItem(c)])
AttachedRight == \A b \in Attached : b < i /\ AttachedTo(b)

ListInv == NestInv /\ TreeInv /\ ResolvedBefore /\ ActiveIsLast /\ AttachedRight

LEMMA LastItemFacts ==
  ASSUME doc \in Seq(Block), NEW c \in 1 .. Len(doc), IsList(c)
  PROVE  LastItem(c) \in Nodes /\ LastItem(c)[1] = c /\ LastItem(c)[2] # 0 /\ LastItem(c) # None
<1>1. Len(Levels(c)) \in Nat \ {0} /\ Len(Levels(c)) \in 0 .. Len(Levels(c))
  BY LevFacts
<1>2. <<c, Len(Levels(c))>> \in Nodes
  BY <1>1, LevFacts
<1>3. <<c, Len(Levels(c))>> # None
  BY <1>2, NodeFacts
<1> QED BY <1>1, <1>2, <1>3 DEF LastItem

LEMMA LastResolved ==
  ASSUME ListInv, Resolving, resolved # <<>>
  PROVE  \E b \in 1 .. Len(doc) : Last(resolved) = <<b, 0>> /\ b < i
<1> PICK B : B = {<<b, 0>> : b \in 1 .. Len(doc)}
  OBVIOUS
<1> PICK n : n = Len(resolved)
  OBVIOUS
<1>1. resolved \in Seq(B)
  BY ResolvingFacts DEF ListInv
<1>2. n \in 1 .. Len(resolved) /\ resolved[n] \in B /\ Last(resolved) = resolved[n]
  BY <1>1 DEF Last
<1>3. resolved[n][1] < i
  BY <1>2 DEF ListInv, ResolvedBefore
<1>4. PICK b \in 1 .. Len(doc) : resolved[n] = <<b, 0>>
  BY <1>2
<1>5. resolved[n][1] = b
  BY <1>4
<1> QED BY <1>2, <1>3, <1>4, <1>5

\* What a "+" continues is an item of a list before it, the last one.
LEMMA ContinuedIs ==
  ASSUME ListInv, Continue
  PROVE  Continued = active /\ active # None /\ ItemBefore(active)
<1>1. Resolving /\ Continued # None
  BY DEF Continue, Attaches
<1>2. /\ doc \in Seq(Block) /\ kids \in [Nodes -> Seq(Nodes)] /\ KidsAfter
      /\ i \in 1 .. Len(doc) /\ Len(doc) \in Nat
  BY <1>1, ResolvingFacts DEF ListInv, TreeInv
<1>3. active # None
  <2> SUFFICES ASSUME active = None PROVE FALSE
    OBVIOUS
  <2> PICK x : x = Last(resolved)
    OBVIOUS
  <2>1. resolved # <<>> /\ Continued = Deepest(x)
    BY <1>1 DEF Continued
  <2>2. PICK b \in 1 .. Len(doc) : x = <<b, 0>> /\ b < i
    BY <1>1, <2>1, LastResolved
  <2>3. ~ IsList(b)
    BY <1>2, <2>2 DEF ListInv, ActiveIsLast
  <2>4. x \in Nodes /\ kids[x] = <<>>
    BY <2>2, <2>3, BlocksAreNodes DEF ListInv, TreeInv, Bare
  <2>5. x[2] = 0
    BY <2>2
  <2>6. Deepest(x) = None
    BY <1>2, <2>4, <2>5, DeepestIs
  <2> QED BY <1>1, <2>1, <2>6
<1>4. PICK c \in 1 .. Len(doc) : LastOwn(c, i) /\ active = LastItem(c)
  BY <1>3 DEF ListInv, ActiveIsLast
<1>5. IsList(c) /\ c < i
  BY <1>4 DEF LastOwn, Own
<1>6. ItemBefore(active)
  BY <1>2, <1>4, <1>5, LastItemFacts DEF ItemBefore
<1> QED BY <1>3, <1>6 DEF Continued

\* A step that attaches nothing leaves the lists that are not attached.
AttachesNothing ==
  \A b \in 1 .. Len(doc), x \in Nodes : x[2] > 0 =>
    (<<b, 0>> \in Range(kids'[x]) <=> <<b, 0>> \in Range(kids[x]))

LEMMA AttachmentsStay ==
  ASSUME ListInv, UNCHANGED doc, i' \in Nat, i' >= i, AttachesNothing
  PROVE  /\ Attached' = Attached /\ Own' = Own /\ AttachedRight'
         /\ \A c, b : LastOwn(c, b)' <=> LastOwn(c, b)
<1>1. /\ Nodes' = Nodes
      /\ \A b : Levels(b)' = Levels(b) /\ (IsList(b)' <=> IsList(b))
      /\ doc \in Seq(Block) /\ Len(doc) \in Nat /\ i \in Nat
  BY SameBlocks DEF ListInv, NestInv, Types
<1>2. Attached' = Attached
  <2>1. \A b \in 1 .. Len(doc) :
          (\E x \in Nodes : x[2] > 0 /\ <<b, 0>> \in Range(kids'[x]))
            <=> \E x \in Nodes : x[2] > 0 /\ <<b, 0>> \in Range(kids[x])
    BY DEF AttachesNothing
  <2> QED BY <1>1, <2>1 DEF Attached
<1>3. Own' = Own
  BY <1>1, <1>2 DEF Own
<1>4. \A c, b : LastOwn(c, b)' <=> LastOwn(c, b)
  BY <1>3 DEF LastOwn
<1>5. AttachedRight'
  <2> SUFFICES ASSUME NEW b \in Attached
               PROVE  b < i' /\ \E c \in 1 .. Len(doc) :
                        LastOwn(c, b) /\ <<b, 0>> \in Range(kids'[LastItem(c)])
    BY <1>1, <1>2, <1>4 DEF AttachedRight, AttachedTo, LastItem
  <2>1. b \in 1 .. Len(doc) /\ b < i /\ AttachedTo(b)
    BY DEF Attached, ListInv, AttachedRight
  <2>2. PICK c \in 1 .. Len(doc) : LastOwn(c, b) /\ <<b, 0>> \in Range(kids[LastItem(c)])
    BY <2>1 DEF AttachedTo
  <2>3. IsList(c)
    BY <2>2 DEF LastOwn, Own
  <2>4. LastItem(c) \in Nodes /\ LastItem(c)[2] > 0
    <3>1. Len(Levels(c)) \in Nat
      BY <1>1, <2>3, LevFacts
    <3> QED BY <1>1, <2>3, <3>1, LastItemFacts DEF LastItem
  <2>5. <<b, 0>> \in Range(kids'[LastItem(c)])
    BY <2>1, <2>2, <2>4 DEF AttachesNothing
  <2>6. b < i'
    BY <1>1, <2>1
  <2> QED BY <2>2, <2>5, <2>6
<1> QED BY <1>2, <1>3, <1>4, <1>5

LEMMA ResolvedNumber ==
  ASSUME ListInv, NEW n \in 1 .. Len(resolved) PROVE resolved[n][1] \in Nat
<1> PICK B : B = {<<b, 0>> : b \in 1 .. Len(doc)}
  OBVIOUS
<1>1. resolved \in Seq(B)
  BY DEF ListInv, NestInv, Types
<1>2. resolved[n] \in B
  BY <1>1
<1>3. \A x \in B : x[1] \in Nat
  OBVIOUS
<1> QED BY <1>2, <1>3

LEMMA InitList == Init => ListInv
<1> SUFFICES ASSUME Init PROVE ListInv
  OBVIOUS
<1>1. NestInv
  BY InitNest
<1>2. doc \in Seq(Block) /\ Len(doc) \in Nat /\ i = 1 /\ next = <<1, 1>>
  BY <1>1 DEF Init, NestInv, Types
<1>3. \A x \in Nodes : kids[x] = <<>>
  BY DEF Init
<1>4. Range(<<>>) = {}
  BY DEF Range
<1>5. KidsAfter /\ Phase /\ Bare
  BY <1>2, <1>3, <1>4, BlocksAreNodes DEF KidsAfter, Phase, Bare
<1>6. Fresh
  <2> SUFFICES ASSUME NEW b \in 1 .. Len(doc), IsList(b)
               PROVE  /\ \A j \in 0 .. Len(Levels(b)) : Ordered(kids[<<b, j>>], b)
                      /\ \A k \in 1 .. Len(Levels(b)) :
                           <<b, k>> \in Range(kids[<<b, 0>>]) <=> IsNested(b, k) /\ Near(b, k, 0)
    BY <1>2 DEF Fresh
  <2>1. Ordered(<<>>, b)
    BY <1>4 DEF Ordered
  <2>2. \A j \in 0 .. Len(Levels(b)) : kids[<<b, j>>] = <<>>
    BY <1>2, <1>3, LevFacts
  <2>3. kids[<<b, 0>>] = <<>>
    BY <1>3, BlocksAreNodes
  <2>4. \A k \in 1 .. Len(Levels(b)) : ~ IsNested(b, k)
    <3>1. Len(Levels(b)) \in Nat
      BY <1>2, ListFacts
    <3> QED BY <1>2, <3>1 DEF IsNested
  <2> QED BY <1>4, <2>1, <2>2, <2>3, <2>4
<1>7. ResolvedBefore /\ ActiveIsLast
  BY <1>2 DEF Init, ResolvedBefore, ActiveIsLast
<1>8. Attached = {}
  BY <1>3, <1>4 DEF Attached
<1> QED BY <1>1, <1>5, <1>6, <1>7, <1>8 DEF ListInv, TreeInv, AttachedRight

LEMMA NestItemList == ListInv /\ NestItem => ListInv'
<1> SUFFICES ASSUME ListInv, NestItem PROVE ListInv'
  OBVIOUS
<1>1. NestInv' /\ TreeInv'
  BY NestItemStep, NestItemTree DEF ListInv
<1>2. /\ UNCHANGED <<doc, i, resolved, active>> /\ i \in Nat /\ next \in Nodes
      /\ kids \in [Nodes -> Seq(Nodes)] /\ next[2] # 0 /\ doc \in Seq(Block)
  <2>1. next[2] \in 1 .. Len(Levels(next[1])) /\ next \in Nodes
    BY NestItemFacts, PlaceFacts DEF ListInv
  <2> QED BY <2>1, NestItemFacts DEF ListInv, NestInv, Types
<1>3. AttachesNothing
  <2> SUFFICES ASSUME NEW b \in 1 .. Len(doc), NEW x \in Nodes
               PROVE  <<b, 0>> \in Range(kids'[x]) <=> <<b, 0>> \in Range(kids[x])
    BY DEF AttachesNothing
  <2>1. PICK q : OuterAre(q)
    BY NestItemFacts, OuterFacts DEF ListInv
  <2>2. Adds(kids', Parent(q), next)
    <3>1. kids' = Under(Parent(q), next)
      BY <2>1, ParentFacts DEF ListInv
    <3>2. Adds(Under(Parent(q), next), Parent(q), next)
      BY <1>2, UnderFacts
    <3> QED BY <3>1, <3>2
  <2>3. <<b, 0>> # next
    BY <1>2
  <2> QED BY <2>2, <2>3 DEF Adds
<1>4. /\ AttachedRight' /\ \A c, b : LastOwn(c, b)' <=> LastOwn(c, b)
      /\ i' \in Nat /\ i' >= i
  <2>1. i' \in Nat /\ i' >= i
    BY <1>2
  <2> QED BY <1>2, <1>3, <2>1, AttachmentsStay
<1>5. ResolvedBefore' /\ ActiveIsLast'
  <2>1. \A b : Levels(b)' = Levels(b) /\ (IsList(b)' <=> IsList(b))
    BY <1>2, SameBlocks
  <2> QED BY <1>2, <1>4, <2>1 DEF ListInv, ResolvedBefore, ActiveIsLast, LastItem
<1> QED BY <1>1, <1>4, <1>5 DEF ListInv

LEMMA PassOverList == ListInv /\ PassOver => ListInv'
<1> SUFFICES ASSUME ListInv, PassOver PROVE ListInv'
  OBVIOUS
<1>1. NestInv' /\ TreeInv'
  BY PassOverStep, PassOverTree DEF ListInv
<1>2. UNCHANGED <<doc, i, resolved, kids, active>> /\ i \in Nat
  BY DEF PassOver, ListInv, NestInv, Types
<1>3. AttachesNothing
  BY <1>2 DEF AttachesNothing
<1>4. AttachedRight' /\ \A c, b : LastOwn(c, b)' <=> LastOwn(c, b)
  <2>1. i' \in Nat /\ i' >= i
    BY <1>2
  <2> QED BY <1>2, <1>3, <2>1, AttachmentsStay
<1>5. ResolvedBefore' /\ ActiveIsLast'
  <2>1. \A b : Levels(b)' = Levels(b) /\ (IsList(b)' <=> IsList(b))
    BY <1>2, SameBlocks
  <2> QED BY <1>2, <1>4, <2>1 DEF ListInv, ResolvedBefore, ActiveIsLast, LastItem
<1> QED BY <1>1, <1>4, <1>5 DEF ListInv

\* After a list at i, joined or kept, the active item is the last one of it.
LEMMA ActiveInList ==
  ASSUME ListInv, Resolving, IsList(i), i' = i + 1, UNCHANGED doc, AttachesNothing,
         active' = Deepest(<<i, 0>>)
  PROVE  ActiveIsLast'
<1>1. /\ i \in 1 .. Len(doc) /\ doc \in Seq(Block) /\ kids \in [Nodes -> Seq(Nodes)]
      /\ Len(doc) \in Nat
  BY ResolvingFacts DEF ListInv
<1>2. active' = LastItem(i)
  <2>1. Whole(i)
    BY <1>1, FreshIsWhole DEF ListInv, TreeInv, Resolving
  <2> QED BY <1>1, <2>1, DeepestOfList DEF ListInv, TreeInv
<1>3. active' # None
  BY <1>1, <1>2, LastItemFacts
<1>4. i \notin Attached
  BY <1>1 DEF ListInv, AttachedRight
<1>5. LastOwn(i, i + 1)
  <2>1. i \in Own /\ i < i + 1
    BY <1>1, <1>4 DEF Own
  <2>2. \A d \in Own : d <= i \/ d >= i + 1
    BY <1>1 DEF Own
  <2> QED BY <2>1, <2>2 DEF LastOwn
<1>6. \A c, b : LastOwn(c, b)' <=> LastOwn(c, b)
  <2>1. i' \in Nat /\ i' >= i
    BY <1>1
  <2> QED BY <2>1, AttachmentsStay
<1>7. \A b : LastItem(b)' = LastItem(b)
  BY SameBlocks DEF LastItem
<1> PICK o : o = i
  OBVIOUS
<1>8. \E c \in 1 .. Len(doc) : LastOwn(c, o + 1)' /\ active' = LastItem(c)'
  BY <1>1, <1>2, <1>5, <1>6, <1>7
<1> QED BY <1>3, <1>8 DEF ActiveIsLast

LEMMA JoinList == ListInv /\ Join => ListInv'
<1> SUFFICES ASSUME ListInv, Join PROVE ListInv'
  OBVIOUS
<1>1. /\ Resolving /\ i' = i + 1 /\ UNCHANGED <<doc, next, stack, resolved>>
      /\ resolved # <<>> /\ IsList(i) /\ active' = Deepest(<<i, 0>>)
      /\ kids' = [kids EXCEPT ![Last(resolved)] = @ \o kids[<<i, 0>>], ![<<i, 0>>] = <<>>]
  BY DEF Join, Joins
<1>2. PICK b \in 1 .. Len(doc) : Last(resolved) = <<b, 0>> /\ b < i
  BY <1>1, LastResolved
<1>3. NestInv' /\ TreeInv'
  <2>1. Last(resolved)[1] < i
    BY <1>2
  <2> QED BY <2>1, JoinStep, JoinTree DEF ListInv
<1>4. i \in Nat /\ kids \in [Nodes -> Seq(Nodes)]
  BY DEF ListInv, NestInv, Types
<1>5. AttachesNothing
  <2> SUFFICES ASSUME NEW x \in Nodes, x[2] > 0 PROVE kids'[x] = kids[x]
    BY DEF AttachesNothing
  <2>1. x # <<b, 0>> /\ x # <<i, 0>>
    OBVIOUS
  <2> QED BY <1>1, <1>2, <1>4, <2>1
<1>6. AttachedRight' /\ i' \in Nat /\ i' >= i
  <2>1. i' \in Nat /\ i' >= i
    BY <1>1, <1>4
  <2> QED BY <1>1, <1>5, <2>1, AttachmentsStay
<1>7. ActiveIsLast'
  BY <1>1, <1>5, ActiveInList
<1>8. ResolvedBefore'
  <2> SUFFICES ASSUME NEW n \in 1 .. Len(resolved) PROVE resolved[n][1] < i + 1
    BY <1>1 DEF ResolvedBefore
  <2>1. resolved[n][1] < i /\ resolved[n][1] \in Nat
    BY ResolvedNumber DEF ListInv, ResolvedBefore
  <2> QED BY <1>4, <2>1
<1> QED BY <1>3, <1>6, <1>7, <1>8 DEF ListInv

LEMMA KeepList == ListInv /\ Keep => ListInv'
<1> SUFFICES ASSUME ListInv, Keep PROVE ListInv'
  OBVIOUS
<1>1. /\ Resolving /\ i' = i + 1 /\ UNCHANGED <<doc, next, stack, kids>>
      /\ resolved' = Append(resolved, <<i, 0>>)
      /\ active' = IF IsList(i) THEN Deepest(<<i, 0>>) ELSE active
  BY DEF Keep
<1>2. NestInv' /\ TreeInv'
  BY KeepStep, KeepTree DEF ListInv
<1>3. /\ i \in 1 .. Len(doc) /\ Len(doc) \in Nat /\ AttachesNothing
  BY <1>1, ResolvingFacts DEF ListInv, AttachesNothing
<1>4. AttachedRight' /\ \A c, b : LastOwn(c, b)' <=> LastOwn(c, b)
  <2>1. i' \in Nat /\ i' >= i
    BY <1>1, <1>3
  <2> QED BY <1>1, <1>3, <2>1, AttachmentsStay
<1>5. ActiveIsLast'
  <2>1. CASE IsList(i)
    BY <1>1, <1>3, <2>1, ActiveInList
  <2>2. CASE ~ IsList(i) /\ active = None
    <3>1. \A c \in 1 .. i - 1 : ~ IsList(c)
      BY <2>2 DEF ListInv, ActiveIsLast
    <3>2. \A c \in 1 .. i' - 1 : ~ IsList(c)
      BY <1>1, <1>3, <2>2, <3>1
    <3>3. \A c : IsList(c)' <=> IsList(c)
      BY <1>1, SameBlocks
    <3> QED BY <1>1, <2>2, <3>2, <3>3 DEF ActiveIsLast
  <2>3. CASE ~ IsList(i) /\ active # None
    <3>1. PICK c \in 1 .. Len(doc) : LastOwn(c, i) /\ active = LastItem(c)
      BY <2>3 DEF ListInv, ActiveIsLast
    <3>2. LastOwn(c, i + 1)
      <4>1. c \in Own /\ c < i + 1
        BY <1>3, <3>1 DEF LastOwn
      <4>2. ASSUME NEW d \in Own PROVE d <= c \/ d >= i + 1
        <5>1. d \in 1 .. Len(doc) /\ d # i /\ (d <= c \/ d >= i)
          BY <2>3, <3>1 DEF LastOwn, Own
        <5> QED BY <1>3, <5>1
      <4> QED BY <4>1, <4>2 DEF LastOwn
    <3> PICK o : o = i
      OBVIOUS
    <3>3. LastOwn(c, o + 1)' /\ active' = LastItem(c)' /\ i' = o + 1
      <4>1. LastItem(c)' = LastItem(c)
        BY <1>1, SameBlocks DEF LastItem
      <4> QED BY <1>1, <1>4, <2>3, <3>1, <3>2, <4>1
    <3> QED BY <1>1, <2>3, <3>3 DEF ActiveIsLast
  <2> QED BY <2>1, <2>2, <2>3
<1>6. ResolvedBefore'
  <2> PICK B : B = {<<b, 0>> : b \in 1 .. Len(doc)}
    OBVIOUS
  <2>1. resolved \in Seq(B)
    BY <1>1, ResolvingFacts DEF ListInv
  <2> SUFFICES ASSUME NEW n \in 1 .. Len(resolved') PROVE resolved'[n][1] < i + 1
    BY <1>1 DEF ResolvedBefore
  <2>2. Len(resolved) \in Nat /\ Len(resolved') = Len(resolved) + 1
    BY <1>1, <2>1
  <2>3. CASE n = Len(resolved) + 1
    <3>1. resolved'[n] = <<i, 0>>
      BY <1>1, <2>1, <2>3
    <3> QED BY <1>3, <3>1
  <2>4. CASE n # Len(resolved) + 1
    <3>1. n \in 1 .. Len(resolved) /\ resolved'[n] = resolved[n]
      BY <1>1, <2>1, <2>2, <2>4
    <3>2. resolved[n][1] < i /\ resolved[n][1] \in Nat
      BY <3>1, ResolvedNumber DEF ListInv, ResolvedBefore
    <3> QED BY <1>3, <3>1, <3>2
  <2> QED BY <2>3, <2>4
<1> QED BY <1>2, <1>4, <1>5, <1>6 DEF ListInv

\* What a "+" does: the last own list before it gets one more block.
LEMMA ContinueFacts ==
  ASSUME ListInv, Continue, NEW o, o = i
  PROVE  /\ o \in 1 .. Len(doc) /\ o + 1 \in 1 .. Len(doc) /\ <<o + 1, 0>> \in Nodes
         /\ i' = o + 2 /\ UNCHANGED <<doc, next, stack, resolved>>
         /\ doc[o].kind = "plus" /\ ~ IsList(o)
         /\ Attached' = Attached \cup {o + 1}
         /\ \A d : d \in Own' <=> d \in Own /\ d # o + 1
         /\ \A c, b : b \in Nat /\ LastOwn(c, b) /\ c # o + 1 => LastOwn(c, b)'
         /\ \E c \in 1 .. Len(doc) :
              /\ LastOwn(c, o) /\ LastOwn(c, o + 1)' /\ LastOwn(c, o + 2)'
              /\ active' = LastItem(c) /\ LastItem(c) \in Nodes
              /\ kids' = Under(LastItem(c), <<o + 1, 0>>)
<1> PICK x : x = active
  OBVIOUS
<1>1. /\ Resolving /\ o < Len(doc) /\ i' = o + 2 /\ UNCHANGED <<doc, next, stack, resolved>>
      /\ doc[o].kind = "plus"
  BY DEF Continue, Attaches
<1>2. /\ x # None /\ ItemBefore(Continued) /\ active' = x /\ kids' = Under(x, <<o + 1, 0>>)
      /\ x \in Nodes /\ x[2] # 0
  BY ContinuedIs DEF Continue, ItemBefore
<1>4. /\ o \in 1 .. Len(doc) /\ Len(doc) \in Nat /\ doc \in Seq(Block) /\ ~ IsList(o)
      /\ kids \in [Nodes -> Seq(Nodes)] /\ o + 1 \in 1 .. Len(doc) /\ <<o + 1, 0>> \in Nodes
  <2>1. /\ o \in 1 .. Len(doc) /\ Len(doc) \in Nat /\ doc \in Seq(Block)
        /\ kids \in [Nodes -> Seq(Nodes)]
    BY <1>1, ResolvingFacts DEF ListInv
  <2>2. o + 1 \in 1 .. Len(doc)
    BY <1>1, <2>1
  <2>3. ~ IsList(o)
    BY <1>1 DEF IsList
  <2> QED BY <2>1, <2>2, <2>3, BlocksAreNodes
<1>5. /\ Nodes' = Nodes
      /\ \A b : Levels(b)' = Levels(b) /\ (IsList(b)' <=> IsList(b))
  BY <1>1, SameBlocks
<1>6. \A z \in Nodes : Range(kids'[z]) = IF z = x THEN Range(kids[z]) \cup {<<o + 1, 0>>}
                                                  ELSE Range(kids[z])
  <2>1. Adds(Under(x, <<o + 1, 0>>), x, <<o + 1, 0>>)
    BY <1>4, UnderFacts
  <2> QED BY <1>2, <2>1 DEF Adds
<1>7. Attached' = Attached \cup {o + 1}
  <2>1. x[2] > 0
    BY <1>2, <1>4, NodeFacts
  <2>2. \A b \in 1 .. Len(doc) :
          (\E z \in Nodes : z[2] > 0 /\ <<b, 0>> \in Range(kids'[z]))
            <=> b = o + 1 \/ \E z \in Nodes : z[2] > 0 /\ <<b, 0>> \in Range(kids[z])
    <3> SUFFICES ASSUME NEW b \in 1 .. Len(doc)
                 PROVE  (\E z \in Nodes : z[2] > 0 /\ <<b, 0>> \in Range(kids'[z]))
                          <=> b = o + 1 \/ \E z \in Nodes : z[2] > 0 /\ <<b, 0>> \in Range(kids[z])
      OBVIOUS
    <3>1. <<b, 0>> = <<o + 1, 0>> <=> b = o + 1
      OBVIOUS
    <3>2. \A z \in Nodes : <<b, 0>> \in Range(kids'[z])
                             <=> <<b, 0>> \in Range(kids[z]) \/ (z = x /\ b = o + 1)
      BY <1>6, <3>1
    <3> QED BY <1>2, <2>1, <3>2
  <2> QED BY <1>1, <1>4, <1>5, <2>2 DEF Attached
<1>8. \A d : d \in Own' <=> d \in Own /\ d # o + 1
  BY <1>1, <1>5, <1>7 DEF Own
<1>9. \A c, b : b \in Nat /\ LastOwn(c, b) /\ c # o + 1 => LastOwn(c, b)'
  BY <1>8 DEF LastOwn
<1>10. PICK c \in 1 .. Len(doc) : LastOwn(c, o) /\ x = LastItem(c)
  BY <1>2 DEF ListInv, ActiveIsLast
<1>11. LastOwn(c, o + 1)' /\ LastOwn(c, o + 2)'
  <2>1. c \in Own' /\ c < o + 1 /\ c < o + 2
    BY <1>4, <1>8, <1>10 DEF LastOwn
  <2>2. ASSUME NEW d \in Own' PROVE d <= c \/ d >= o + 2
    <3>1. d \in Own /\ d # o + 1
      BY <1>8
    <3>2. d \in 1 .. Len(doc) /\ d # o /\ (d <= c \/ d >= o)
      BY <1>4, <1>10, <3>1 DEF LastOwn, Own
    <3> QED BY <1>4, <3>1, <3>2
  <2>3. ASSUME NEW d \in Own' PROVE d <= c \/ d >= o + 1
    <3>1. d \in Nat
      BY <1>8 DEF Own
    <3> QED BY <1>4, <2>2, <3>1
  <2> QED BY <2>1, <2>2, <2>3 DEF LastOwn
<1> QED BY <1>1, <1>2, <1>4, <1>7, <1>8, <1>9, <1>10, <1>11

LEMMA ContinueList == ListInv /\ Continue => ListInv'
<1> SUFFICES ASSUME ListInv, Continue PROVE ListInv'
  OBVIOUS
<1> PICK o : o = i
  OBVIOUS
<1>1. /\ o \in 1 .. Len(doc) /\ o + 1 \in 1 .. Len(doc) /\ <<o + 1, 0>> \in Nodes
      /\ i' = o + 2 /\ UNCHANGED <<doc, next, stack, resolved>>
      /\ Attached' = Attached \cup {o + 1}
      /\ \A e, b : b \in Nat /\ LastOwn(e, b) /\ e # o + 1 => LastOwn(e, b)'
  BY ContinueFacts
<1>2. PICK c \in 1 .. Len(doc) :
        /\ LastOwn(c, o) /\ LastOwn(c, o + 1)' /\ LastOwn(c, o + 2)'
        /\ active' = LastItem(c) /\ LastItem(c) \in Nodes
        /\ kids' = Under(LastItem(c), <<o + 1, 0>>)
  BY ContinueFacts
<1> PICK x : x = LastItem(c)
  OBVIOUS
<1>3. NestInv' /\ TreeInv'
  BY ContinuedIs, ContinueStep, ContinueTree DEF ListInv
<1>4. Len(doc) \in Nat /\ doc \in Seq(Block) /\ kids \in [Nodes -> Seq(Nodes)] /\ x # None
  <2>1. Len(doc) \in Nat /\ doc \in Seq(Block) /\ kids \in [Nodes -> Seq(Nodes)]
    BY DEF ListInv, NestInv, Types
  <2> QED BY <1>2, <2>1, NodeFacts
<1>5. /\ Nodes' = Nodes
      /\ \A b : Levels(b)' = Levels(b) /\ (IsList(b)' <=> IsList(b))
  BY <1>1, SameBlocks
<1>6. \A z \in Nodes : Range(kids'[z]) = IF z = x THEN Range(kids[z]) \cup {<<o + 1, 0>>}
                                                  ELSE Range(kids[z])
  <2>1. Adds(Under(x, <<o + 1, 0>>), x, <<o + 1, 0>>)
    BY <1>1, <1>2, <1>4, UnderFacts
  <2> QED BY <1>2, <2>1 DEF Adds
<1>7. ActiveIsLast'
  <2>1. LastItem(c)' = LastItem(c)
    BY <1>5 DEF LastItem
  <2> QED BY <1>1, <1>2, <1>4, <2>1 DEF ActiveIsLast
<1>8. AttachedRight'
  <2> SUFFICES ASSUME NEW b \in Attached \cup {o + 1}
               PROVE  b < o + 2 /\ \E e \in 1 .. Len(doc) :
                        LastOwn(e, b)' /\ <<b, 0>> \in Range(kids'[LastItem(e)])
    BY <1>1, <1>5 DEF AttachedRight, AttachedTo, LastItem
  <2>1. CASE b = o + 1
    <3>1. <<b, 0>> \in Range(kids'[x])
      BY <1>2, <1>6, <2>1
    <3>2. b < o + 2
      BY <1>1, <2>1
    <3> QED BY <1>2, <2>1, <3>1, <3>2
  <2>2. CASE b # o + 1
    <3>1. b \in Attached /\ b \in 1 .. Len(doc) /\ b < o /\ AttachedTo(b)
      BY <2>2 DEF Attached, ListInv, AttachedRight
    <3>2. PICK e \in 1 .. Len(doc) : LastOwn(e, b) /\ <<b, 0>> \in Range(kids[LastItem(e)])
      BY <3>1 DEF AttachedTo
    <3>3. IsList(e) /\ e < b
      BY <3>2 DEF LastOwn, Own
    <3>4. LastItem(e) \in Nodes /\ e # o + 1
      BY <1>1, <1>4, <3>1, <3>3, LastItemFacts
    <3>5. LastOwn(e, b)'
      BY <1>1, <3>1, <3>2, <3>4
    <3>6. <<b, 0>> \in Range(kids'[LastItem(e)])
      BY <1>6, <3>2, <3>4
    <3>7. b < o + 2
      BY <1>1, <3>1
    <3> QED BY <3>5, <3>6, <3>7
  <2> QED BY <2>1, <2>2
<1>9. ResolvedBefore'
  <2> SUFFICES ASSUME NEW n \in 1 .. Len(resolved) PROVE resolved[n][1] < o + 2
    BY <1>1 DEF ResolvedBefore
  <2>1. resolved[n][1] < o /\ resolved[n][1] \in Nat
    BY ResolvedNumber DEF ListInv, ResolvedBefore
  <2> QED BY <1>1, <2>1
<1> QED BY <1>3, <1>7, <1>8, <1>9 DEF ListInv

LEMMA ListStutter == ListInv /\ UNCHANGED vars => ListInv'
<1> SUFFICES ASSUME ListInv, UNCHANGED vars PROVE ListInv'
  OBVIOUS
<1>1. UNCHANGED <<doc, next, stack, i, resolved, kids, active>>
  BY DEF vars
<1>2. NestInv'
  BY NestStutter DEF ListInv
<1>3. /\ Nodes' = Nodes
      /\ \A b : Levels(b)' = Levels(b) /\ (IsList(b)' <=> IsList(b))
      /\ \A b, k, j : Near(b, k, j)' <=> Near(b, k, j)
  BY <1>1, SameBlocks
<1>4. TreeInv'
  BY <1>1, <1>3 DEF ListInv, TreeInv, KidsAfter, Phase, Bare, Fresh, Precedes, IsNested, Ordered
<1>5. AttachedRight' /\ \A c, b : LastOwn(c, b)' <=> LastOwn(c, b)
  <2>1. i' \in Nat /\ i' >= i /\ AttachesNothing
    BY <1>1 DEF ListInv, NestInv, Types, AttachesNothing
  <2> QED BY <1>1, <2>1, AttachmentsStay
<1>6. ResolvedBefore' /\ ActiveIsLast'
  BY <1>1, <1>3, <1>5 DEF ListInv, ResolvedBefore, ActiveIsLast, LastItem
<1> QED BY <1>2, <1>4, <1>5, <1>6 DEF ListInv

LEMMA ListHolds == Spec => []ListInv
<1>1. ListInv /\ [Next]_vars => ListInv'
  BY NestItemList, PassOverList, ContinueList, JoinList, KeepList, ListStutter DEF Next
<1> QED BY InitList, <1>1, PTL DEF Spec

-----------------------------------------------------------------------------
\* However the levels of a list jump, every item of it is under the nearest item
\* before it with a lower level or, if there is none, under no item: as soon as
\* _nest_list_items is through with the list, and after all that
\* resolve_list_continuations attaches and joins.
THEOREM NestedCorrectly == Spec => []NestedUnderNearest
<1>1. NestInv => NestedUnderNearest
  <2> SUFFICES ASSUME NestInv, NEW b \in 1 .. Len(doc), IsList(b), next[1] > b,
                      NEW k \in 1 .. Len(doc[b].levels)
               PROVE  \A j \in 1 .. Len(doc[b].levels) :
                        LET lower == {m \in 1 .. k - 1 : doc[b].levels[m] < doc[b].levels[k]}
                        IN  <<b, k>> \in Range(kids[<<b, j>>])
                              <=> j \in lower /\ \A m \in lower : m <= j
    BY DEF NestedUnderNearest
  <2> PICK lower : lower = {m \in 1 .. k - 1 : Levels(b)[m] < Levels(b)[k]}
    OBVIOUS
  <2> SUFFICES ASSUME NEW j \in 1 .. Len(Levels(b))
               PROVE  <<b, k>> \in Range(kids[<<b, j>>])
                        <=> j \in lower /\ \A m \in lower : m <= j
    BY DEF Levels
  <2>0. k \in 1 .. Len(Levels(b))
    BY DEF Levels
  <2>1. /\ Len(Levels(b)) \in Nat
        /\ \A m \in 1 .. Len(Levels(b)) : Levels(b)[m] \in Nat
    BY ListFacts DEF NestInv, Types
  <2>2. <<b, k>> \in Range(kids[<<b, j>>]) <=> Nearest(b, k, j)
    <3>1. IsNested(b, k)
      BY DEF NestInv, Place, IsNested
    <3> QED BY <2>0, <3>1 DEF NestInv, Placed
  <2>3. ASSUME Nearest(b, k, j) PROVE j \in lower /\ \A m \in lower : m <= j
    <3>1. j \in lower
      BY <2>0, <2>1, <2>3 DEF Nearest
    <3>2. ASSUME NEW m \in lower, ~ (m <= j) PROVE FALSE
      <4>1. m \in j + 1 .. k - 1 /\ Levels(b)[m] < Levels(b)[k] /\ m \in 1 .. Len(Levels(b))
        BY <2>0, <2>1, <3>2
      <4>2. Levels(b)[m] >= Levels(b)[k]
        BY <2>3, <4>1 DEF Nearest
      <4> QED BY <2>0, <2>1, <4>1, <4>2
    <3> QED BY <3>1, <3>2
  <2>4. ASSUME j \in lower, \A m \in lower : m <= j PROVE Nearest(b, k, j)
    <3>1. j < k /\ Levels(b)[j] < Levels(b)[k]
      BY <2>0, <2>1, <2>4
    <3>2. ASSUME NEW m \in j + 1 .. k - 1, ~ (Levels(b)[m] >= Levels(b)[k]) PROVE FALSE
      <4>1. m \in 1 .. k - 1 /\ m \in 1 .. Len(Levels(b)) /\ ~ (m <= j)
        BY <2>0, <2>1
      <4>2. m \in lower
        BY <2>0, <2>1, <3>2, <4>1
      <4> QED BY <2>4, <4>1, <4>2
    <3> QED BY <3>1, <3>2 DEF Nearest
  <2> QED BY <2>2, <2>3, <2>4
<1> QED BY <1>1, NestHolds, PTL

\* Every node is a block or an item of the document, what is directly under one
\* are nodes, nothing is under a block that is not a list, and the last active
\* item is an item (_nest_list_items, resolve_list_continuations).
THEOREM TypeCorrect == Spec => []TypeOK
<1>1. ListInv => TypeOK
  <2> SUFFICES ASSUME ListInv PROVE TypeOK
    OBVIOUS
  <2>1. /\ doc \in Seq(Block) /\ i \in 1 .. Len(doc) + 1 /\ kids \in [Nodes -> Seq(Nodes)]
        /\ resolved \in Seq({<<b, 0>> : b \in 1 .. Len(doc)})
    BY DEF ListInv, NestInv, Types
  <2>2. resolved \in Seq(Nodes)
    <3>1. {<<b, 0>> : b \in 1 .. Len(doc)} \subseteq Nodes
      BY BlocksAreNodes
    <3> QED BY <2>1, <3>1
  <2>3. active \in Nodes \cup {None}
    <3> SUFFICES ASSUME active # None PROVE active \in Nodes
      OBVIOUS
    <3>1. PICK c \in 1 .. Len(doc) : c \in Own /\ active = LastItem(c)
      BY DEF ListInv, ActiveIsLast, LastOwn
    <3>2. IsList(c)
      BY <3>1 DEF Own
    <3> QED BY <2>1, <3>1, <3>2, LastItemFacts
  <2>4. ASSUME NEW x \in Nodes, x[2] = 0, ~ IsList(x[1]) PROVE kids[x] = <<>>
    <3>1. x = <<x[1], 0>> /\ x[1] \in 1 .. Len(doc)
      BY <2>1, <2>4, NodeFacts
    <3>2. kids[<<x[1], 0>>] = <<>>
      BY <2>4, <3>1 DEF ListInv, TreeInv, Bare
    <3> QED BY <3>1, <3>2
  <2>5. \A m, n \in 1 .. Len(stack) : m < n => stack[m].level < stack[n].level
    BY DEF ListInv, NestInv, OpenLists
  <2> QED BY <2>1, <2>2, <2>3, <2>4, <2>5 DEF TypeOK
<1> QED BY <1>1, ListHolds, PTL

\* A block that resolve_list_continuations attaches hangs under the very last item
\* of the last list before it that is not attached itself, whatever was kept, joined
\* or attached between, and stays there.
THEOREM AttachedToLast == Spec => []AttachedToLastItem
<1>1. ListInv => AttachedToLastItem
  <2> SUFFICES ASSUME ListInv, NEW b \in Attached
               PROVE  \E c \in Own : /\ <<b, 0>> \in Range(kids[LastItem(c)])
                                     /\ c < b /\ \A d \in Own : d <= c \/ d > b
    <3>1. Own = {c \in 1 .. Len(doc) : IsList(c) /\ c \notin Attached}
      BY DEF Own
    <3> QED BY <3>1 DEF AttachedToLastItem, LastItem, Levels
  <2>1. PICK c \in 1 .. Len(doc) : LastOwn(c, b) /\ <<b, 0>> \in Range(kids[LastItem(c)])
    BY DEF ListInv, AttachedRight, AttachedTo
  <2>2. c \in Own /\ c < b
    BY <2>1 DEF LastOwn
  <2>3. ASSUME NEW d \in Own PROVE d <= c \/ d > b
    <3>1. d # b /\ d \in 1 .. Len(doc) /\ b \in 1 .. Len(doc) /\ (d <= c \/ d >= b)
      BY <2>1 DEF Own, LastOwn, Attached
    <3> QED BY <3>1
  <2> QED BY <2>1, <2>2, <2>3
<1> QED BY <1>1, ListHolds, PTL

-----------------------------------------------------------------------------
(* Where everything is in the tree                                         *)

\* The items of d, a list before i, may hang in c, as nothing was kept between.
Hosted(c, d) == /\ c < d /\ d < i
                /\ \A n \in 1 .. Len(resolved) : resolved[n][1] <= c \/ resolved[n][1] > d

\* y is an item under what is above it in its list, an item of a list that was
\* joined to x, or a block that was attached to x.
IsSub(x, y)    == y[2] # 0 /\ y[1] = x[1] /\ Near(y[1], y[2], x[2])
IsJoined(x, y) == /\ y[2] # 0 /\ x[2] = 0 /\ x[1] \in Own /\ y[1] \in Own
                  /\ Hosted(x[1], y[1]) /\ Near(y[1], y[2], 0)
IsCarried(x, y) == /\ y[2] = 0 /\ y[1] \in Attached
                   /\ LastOwn(x[1], y[1]) /\ x = LastItem(x[1])

KidsFit ==
  \A x \in Nodes : \A y \in Range(kids[x]) : IsSub(x, y) \/ IsJoined(x, y) \/ IsCarried(x, y)

\* What is under a node, and the result, is in the order it was written.
KidsAscend ==
  \A x \in Nodes : \A m, n \in 1 .. Len(kids[x]) : m < n => Precedes(kids[x][m], kids[x][n])
ResultAscends ==
  /\ \A m, n \in 1 .. Len(resolved) : m < n => resolved[m][1] < resolved[n][1]
  /\ \A n \in 1 .. Len(resolved) : resolved[n][1] \notin Attached

\* No item is lost, and no block but a "+" that attached what follows it.
ItemsThere ==
  \A b \in 1 .. Len(doc) : IsList(b) =>
    \A k \in 1 .. Len(Levels(b)) :
      IsNested(b, k) => \E x \in Nodes : <<b, k>> \in Range(kids[x])
IsThere(b) == \/ <<b, 0>> \in Range(resolved) \/ b \in Attached
              \/ doc[b].kind = "plus" /\ b + 1 \in Attached
              \/ IsList(b) /\ kids[<<b, 0>>] = <<>>
BlocksThere == \A b \in 1 .. i - 1 : IsThere(b)

ShapeInv == KidsFit /\ KidsAscend /\ ResultAscends /\ ItemsThere /\ BlocksThere

Fits(x, y) == IsSub(x, y) \/ IsJoined(x, y) \/ IsCarried(x, y)

\* An item has one before it, or else the list, that is the nearest above it.
LEMMA SomeNear ==
  ASSUME doc \in Seq(Block), NEW b \in 1 .. Len(doc), IsList(b), NEW k \in 1 .. Len(Levels(b))
  PROVE  \E j \in 0 .. Len(Levels(b)) : Near(b, k, j)
<1>1. /\ Len(Levels(b)) \in Nat /\ Lev(b, 0) = 0 /\ Lev(b, k) > 0 /\ k \in Nat
      /\ \A m \in 0 .. Len(Levels(b)) : Lev(b, m) \in Nat
  <2>1. /\ Len(Levels(b)) \in Nat /\ Lev(b, 0) = 0
        /\ \A m \in 0 .. Len(Levels(b)) : Lev(b, m) \in Nat
        /\ \A m \in 1 .. Len(Levels(b)) : Lev(b, m) > 0
    BY LevFacts
  <2> QED BY <2>1
<1> PICK S : S = {j \in 0 .. k - 1 : Lev(b, j) < Lev(b, k)}
  OBVIOUS
<1>2. S \in SUBSET (0 .. k) /\ 0 \in S
  BY <1>1
<1>3. PICK j \in S : \A m \in S : m <= j
  <2>1. Max(S) \in S /\ \A m \in S : m <= Max(S)
    BY <1>1, <1>2, Largest
  <2> QED BY <2>1
<1>4. j \in 0 .. Len(Levels(b)) /\ j < k /\ Lev(b, j) < Lev(b, k)
  BY <1>1
<1>5. ASSUME NEW m \in j + 1 .. k - 1 PROVE Lev(b, m) >= Lev(b, k)
  <2>1. m \in 0 .. k - 1 /\ m \in 0 .. Len(Levels(b)) /\ ~ (m <= j)
    BY <1>1, <1>4
  <2>2. ~ (Lev(b, m) < Lev(b, k))
    BY <1>3, <2>1
  <2>3. Lev(b, m) \in Nat /\ Lev(b, k) \in Nat
    BY <1>1, <2>1
  <2> QED BY <2>2, <2>3
<1> QED BY <1>4, <1>5 DEF Near

\* Before resolve_list_continuations begins the lists are as they were nested.
LEMMA FreshShape == ListInv /\ i = 1 => ShapeInv
<1> SUFFICES ASSUME ListInv, i = 1 PROVE ShapeInv
  OBVIOUS
<1>1. /\ doc \in Seq(Block) /\ Len(doc) \in Nat /\ kids \in [Nodes -> Seq(Nodes)]
      /\ \A b \in 1 .. Len(doc) : IsList(b) => Len(Levels(b)) \in Nat
  <2>1. doc \in Seq(Block) /\ Len(doc) \in Nat /\ kids \in [Nodes -> Seq(Nodes)]
    BY DEF ListInv, NestInv, Types
  <2> QED BY <2>1, ListFacts
<1>2. ASSUME NEW b \in 1 .. Len(doc), IsList(b), NEW j \in 0 .. Len(Levels(b))
      PROVE  /\ Ordered(kids[<<b, j>>], b)
             /\ \A k \in 1 .. Len(Levels(b)) :
                  <<b, k>> \in Range(kids[<<b, j>>]) <=> IsNested(b, k) /\ Near(b, k, j)
  <2>1. /\ \A m \in 0 .. Len(Levels(b)) : Ordered(kids[<<b, m>>], b)
        /\ \A k \in 1 .. Len(Levels(b)) :
             <<b, k>> \in Range(kids[<<b, 0>>]) <=> IsNested(b, k) /\ Near(b, k, 0)
    BY <1>2 DEF ListInv, TreeInv, Fresh
  <2>2. CASE j = 0
    BY <2>1, <2>2
  <2>3. CASE j # 0
    <3>1. j \in 1 .. Len(Levels(b))
      BY <1>1, <1>2, <2>3
    <3>2. ASSUME NEW k \in 1 .. Len(Levels(b))
          PROVE  <<b, k>> \in Range(kids[<<b, j>>]) <=> IsNested(b, k) /\ Near(b, k, j)
      <4>1. Near(b, k, j) <=> Nearest(b, k, j)
        BY <1>1, <1>2, <3>1, NearIsNearest
      <4>2. <<b, k>> \in Range(kids[<<b, j>>]) <=> IsNested(b, k) /\ Nearest(b, k, j)
        BY <1>2, <3>1 DEF ListInv, NestInv, Placed
      <4> QED BY <4>1, <4>2
    <3> QED BY <2>1, <3>2
  <2> QED BY <2>2, <2>3
<1>3. ASSUME NEW x \in Nodes
      PROVE  /\ x = <<x[1], x[2]>> /\ x[1] \in 1 .. Len(doc)
             /\ kids[x] = <<>> \/ (IsList(x[1]) /\ x[2] \in 0 .. Len(Levels(x[1])))
  <2>1. /\ x = <<x[1], x[2]>> /\ x[1] \in 1 .. Len(doc) /\ x[2] \in Nat
        /\ x[2] # 0 => IsList(x[1]) /\ x[2] \in 1 .. Len(Levels(x[1]))
    BY <1>1, NodeFacts
  <2>2. CASE IsList(x[1])
    BY <1>1, <2>1, <2>2
  <2>3. CASE ~ IsList(x[1])
    <3>1. kids[<<x[1], 0>>] = <<>>
      BY <2>1, <2>3 DEF ListInv, TreeInv, Bare
    <3> QED BY <2>1, <2>3, <3>1
  <2> QED BY <2>1, <2>2, <2>3
<1>4. KidsFit
  <2> SUFFICES ASSUME NEW x \in Nodes, NEW y \in Range(kids[x]) PROVE IsSub(x, y)
    BY DEF KidsFit
  <2>1. IsList(x[1]) /\ x[2] \in 0 .. Len(Levels(x[1])) /\ x[1] \in 1 .. Len(doc) /\ x = <<x[1], x[2]>>
    <3>1. kids[x] # <<>>
      BY DEF Range
    <3> QED BY <1>3, <3>1
  <2>2. y[1] = x[1] /\ y[2] # 0
    <3>1. Ordered(kids[x], x[1])
      BY <1>2, <2>1
    <3> QED BY <3>1 DEF Ordered
  <2>3. y = <<x[1], y[2]>> /\ y[2] \in 1 .. Len(Levels(x[1]))
    <3>1. y \in Nodes
      BY <1>1, KidsAreNodes
    <3> QED BY <1>1, <2>2, <3>1, NodeFacts
  <2>4. Near(x[1], y[2], x[2])
    BY <1>2, <2>1, <2>3
  <2> QED BY <2>2, <2>4 DEF IsSub
<1>5. KidsAscend
  <2> SUFFICES ASSUME NEW x \in Nodes, NEW m \in 1 .. Len(kids[x]), NEW n \in 1 .. Len(kids[x]),
                      m < n
               PROVE  Precedes(kids[x][m], kids[x][n])
    BY DEF KidsAscend
  <2>1. kids[x] \in Seq(Nodes)
    BY <1>1
  <2>2. kids[x] # <<>>
    OBVIOUS
  <2>3. Ordered(kids[x], x[1])
    BY <1>2, <1>3, <2>2
  <2>4. kids[x][m] \in Range(kids[x]) /\ kids[x][n] \in Range(kids[x])
    BY <2>1, RangeIs
  <2>5. kids[x][m][1] = x[1] /\ kids[x][n][1] = x[1] /\ kids[x][m][2] < kids[x][n][2]
    BY <2>3, <2>4 DEF Ordered
  <2> QED BY <2>5 DEF Precedes
<1>6. ResultAscends
  <2>1. \A n \in 1 .. Len(resolved) : resolved[n][1] < 1 /\ resolved[n][1] \in 1 .. Len(doc)
    <3> SUFFICES ASSUME NEW n \in 1 .. Len(resolved)
                 PROVE  resolved[n][1] < 1 /\ resolved[n][1] \in 1 .. Len(doc)
      OBVIOUS
    <3> PICK B : B = {<<b, 0>> : b \in 1 .. Len(doc)}
      OBVIOUS
    <3>1. resolved[n] \in B
      BY DEF ListInv, NestInv, Types
    <3>2. resolved[n][1] < 1
      BY DEF ListInv, ResolvedBefore
    <3> QED BY <3>1, <3>2
  <2>2. \A n \in 1 .. Len(resolved) : FALSE
    BY <1>1, <2>1
  <2> QED BY <2>2 DEF ResultAscends
<1>7. ItemsThere
  <2> SUFFICES ASSUME NEW b \in 1 .. Len(doc), IsList(b), NEW k \in 1 .. Len(Levels(b)), IsNested(b, k)
               PROVE  \E x \in Nodes : <<b, k>> \in Range(kids[x])
    BY DEF ItemsThere
  <2>1. PICK j \in 0 .. Len(Levels(b)) : Near(b, k, j)
    BY <1>1, SomeNear
  <2>2. <<b, k>> \in Range(kids[<<b, j>>])
    BY <1>2, <2>1
  <2>3. <<b, j>> \in Nodes
    BY <1>1, LevFacts
  <2> QED BY <2>2, <2>3
<1>8. BlocksThere
  BY DEF BlocksThere
<1> QED BY <1>4, <1>5, <1>6, <1>7, <1>8 DEF ShapeInv

\* Who is under whom stays right in a step that leaves the blocks alone.
LEMMA FitStays ==
  ASSUME UNCHANGED doc, NEW x, NEW y, Fits(x, y),
         IsJoined(x, y) => x[1] \in Own' /\ y[1] \in Own' /\ Hosted(x[1], y[1])',
         IsCarried(x, y) => y[1] \in Attached' /\ LastOwn(x[1], y[1])'
  PROVE  Fits(x, y)'
<1>1. /\ \A b, k, j : Near(b, k, j)' <=> Near(b, k, j)
      /\ \A b : LastItem(b)' = LastItem(b)
  BY SameBlocks DEF LastItem
<1>2. CASE IsSub(x, y)
  BY <1>1, <1>2 DEF IsSub, Fits
<1>3. CASE IsJoined(x, y)
  BY <1>1, <1>3 DEF IsJoined, Fits
<1>4. CASE IsCarried(x, y)
  BY <1>1, <1>4 DEF IsCarried, Fits
<1> QED BY <1>2, <1>3, <1>4 DEF Fits

LEMMA AscendAppend ==
  ASSUME NEW s \in Seq(Nodes), NEW y \in Nodes,
         \A m, n \in 1 .. Len(s) : m < n => Precedes(s[m], s[n]),
         \A z \in Range(s) : Precedes(z, y),
         NEW m \in 1 .. Len(Append(s, y)), NEW n \in 1 .. Len(Append(s, y)), m < n
  PROVE  Precedes(Append(s, y)[m], Append(s, y)[n])
<1> PICK t : t = Append(s, y)
  OBVIOUS
<1>1. /\ Len(s) \in Nat /\ Len(t) = Len(s) + 1 /\ t[Len(s) + 1] = y
      /\ \A k \in 1 .. Len(s) : t[k] = s[k] /\ s[k] \in Range(s)
  BY RangeIs
<1>2. m \in 1 .. Len(s)
  BY <1>1
<1>3. CASE n = Len(s) + 1
  BY <1>1, <1>2, <1>3
<1>4. CASE n # Len(s) + 1
  <2>1. n \in 1 .. Len(s)
    BY <1>1, <1>4
  <2> QED BY <1>1, <1>2, <2>1
<1> QED BY <1>3, <1>4

LEMMA ContinueShape ==
  ASSUME ListInv, ShapeInv, Continue
  PROVE  ShapeInv'
<1> PICK o : o = i
  OBVIOUS
<1>1. /\ o \in 1 .. Len(doc) /\ o + 1 \in 1 .. Len(doc) /\ <<o + 1, 0>> \in Nodes
      /\ i' = o + 2 /\ UNCHANGED <<doc, next, stack, resolved>>
      /\ doc[o].kind = "plus" /\ ~ IsList(o)
      /\ Attached' = Attached \cup {o + 1}
      /\ \A d : d \in Own' <=> d \in Own /\ d # o + 1
      /\ \A c, b : b \in Nat /\ LastOwn(c, b) /\ c # o + 1 => LastOwn(c, b)'
  BY ContinueFacts
<1>2. PICK c \in 1 .. Len(doc) :
        /\ LastOwn(c, o) /\ LastOwn(c, o + 1)' /\ LastItem(c) \in Nodes
        /\ kids' = Under(LastItem(c), <<o + 1, 0>>)
  BY ContinueFacts
<1>3. /\ doc \in Seq(Block) /\ kids \in [Nodes -> Seq(Nodes)] /\ Len(doc) \in Nat
      /\ c < o /\ IsList(c)
  BY <1>2 DEF ListInv, NestInv, Types, LastOwn, Own
<1> PICK x, y : x = LastItem(c) /\ y = <<o + 1, 0>>
  OBVIOUS
<1>4. \A z \in Nodes : /\ kids'[z] = IF z = x THEN Append(kids[z], y) ELSE kids[z]
                       /\ Range(kids'[z]) = IF z = x THEN Range(kids[z]) \cup {y}
                                                     ELSE Range(kids[z])
  <2>1. x \in Nodes /\ y \in Nodes /\ kids' = Under(x, y)
    BY <1>1, <1>2
  <2>2. Adds(Under(x, y), x, y)
    BY <1>3, <2>1, UnderFacts
  <2>3. \A z \in Nodes : Under(x, y)[z] = IF z = x THEN Append(kids[z], y) ELSE kids[z]
    BY <1>3, <2>1, UnderIs
  <2> QED BY <2>1, <2>2, <2>3 DEF Adds
<1>5. /\ Nodes' = Nodes
      /\ \A b : Levels(b)' = Levels(b) /\ (IsList(b)' <=> IsList(b))
      /\ \A b : LastItem(b)' = LastItem(b)
      /\ \A b, k : IsNested(b, k)' <=> IsNested(b, k)
  BY <1>1, SameBlocks DEF LastItem, IsNested
<1>6. \A b \in Attached : b \in 1 .. Len(doc) /\ b < o
  BY DEF Attached, ListInv, AttachedRight
<1>7. KidsFit'
  <2> SUFFICES ASSUME NEW z \in Nodes, NEW w \in Range(kids'[z]) PROVE Fits(z, w)'
    BY <1>5 DEF KidsFit, Fits
  <2>1. CASE w \in Range(kids[z])
    <3>1. Fits(z, w)
      BY <2>1 DEF ShapeInv, KidsFit, Fits
    <3>2. ASSUME IsJoined(z, w)
          PROVE  z[1] \in Own' /\ w[1] \in Own' /\ Hosted(z[1], w[1])'
      <4>1. /\ z[1] \in Own /\ w[1] \in Own /\ z[1] < w[1] /\ w[1] < o
            /\ \A n \in 1 .. Len(resolved) : resolved[n][1] <= z[1] \/ resolved[n][1] > w[1]
        BY <3>2 DEF IsJoined, Hosted
      <4>2. z[1] \in Nat /\ w[1] \in Nat
        BY <4>1 DEF Own
      <4>3. z[1] # o + 1 /\ w[1] # o + 1 /\ w[1] < o + 2
        BY <1>1, <4>1, <4>2
      <4> QED BY <1>1, <4>1, <4>3 DEF Hosted
    <3>3. ASSUME IsCarried(z, w) PROVE w[1] \in Attached' /\ LastOwn(z[1], w[1])'
      <4>1. w[1] \in Attached /\ LastOwn(z[1], w[1])
        BY <3>3 DEF IsCarried
      <4>2. w[1] \in Nat /\ w[1] < o /\ z[1] < w[1] /\ z[1] \in Nat
        BY <1>6, <4>1 DEF LastOwn, Own
      <4>3. z[1] # o + 1
        BY <1>1, <4>2
      <4> QED BY <1>1, <4>1, <4>2, <4>3
    <3> QED BY <1>1, <3>1, <3>2, <3>3, FitStays
  <2>2. CASE w \notin Range(kids[z])
    <3>1. w = <<o + 1, 0>> /\ z = LastItem(c)
      BY <1>4, <2>2
    <3>2. w[2] = 0 /\ w[1] = o + 1 /\ z[1] = c
      BY <3>1 DEF LastItem
    <3> QED BY <1>1, <1>2, <1>5, <3>1, <3>2 DEF Fits, IsCarried
  <2> QED BY <2>1, <2>2
<1>8. KidsAscend'
  <2> SUFFICES ASSUME NEW z \in Nodes, NEW m \in 1 .. Len(kids'[z]), NEW n \in 1 .. Len(kids'[z]),
                      m < n
               PROVE  Precedes(kids'[z][m], kids'[z][n])
    BY <1>5 DEF KidsAscend, Precedes
  <2>1. kids[z] \in Seq(Nodes) /\ \A a, b \in 1 .. Len(kids[z]) : a < b => Precedes(kids[z][a], kids[z][b])
    BY <1>3 DEF ShapeInv, KidsAscend
  <2>2. CASE z # x
    BY <1>4, <2>1, <2>2
  <2>3. CASE z = x
    <3>1. ASSUME NEW w \in Range(kids[z]) PROVE Precedes(w, y)
      <4>1. Fits(z, w) /\ z[1] = c /\ z[2] # 0
        BY <1>3, <2>3, <3>1, LastItemFacts DEF ShapeInv, KidsFit, Fits
      <4>2. w[1] = c \/ w[1] \in Attached
        BY <4>1 DEF Fits, IsSub, IsJoined, IsCarried
      <4>3. w[1] < o /\ w[1] \in Nat
        BY <1>3, <1>6, <4>2
      <4> QED BY <1>1, <4>3 DEF Precedes
    <3>2. y \in Nodes /\ kids'[z] = Append(kids[z], y)
      BY <1>1, <1>4, <2>3
    <3> QED BY <2>1, <3>1, <3>2, AscendAppend
  <2> QED BY <2>2, <2>3
<1>9. ResultAscends'
  <2>1. \A n \in 1 .. Len(resolved) : resolved[n][1] # o + 1
    <3> SUFFICES ASSUME NEW n \in 1 .. Len(resolved) PROVE resolved[n][1] # o + 1
      OBVIOUS
    <3>1. resolved[n][1] < o /\ resolved[n][1] \in Nat
      BY ResolvedNumber DEF ListInv, ResolvedBefore
    <3> QED BY <1>1, <3>1
  <2> QED BY <1>1, <2>1 DEF ShapeInv, ResultAscends
<1>10. ItemsThere'
  <2> SUFFICES ASSUME NEW b \in 1 .. Len(doc), IsList(b), NEW k \in 1 .. Len(Levels(b)), IsNested(b, k)
               PROVE  \E z \in Nodes : <<b, k>> \in Range(kids'[z])
    BY <1>1, <1>5 DEF ItemsThere
  <2>1. PICK z \in Nodes : <<b, k>> \in Range(kids[z])
    BY DEF ShapeInv, ItemsThere
  <2> QED BY <1>4, <2>1
<1>11. BlocksThere'
  <2> SUFFICES ASSUME NEW b \in 1 .. o + 1 PROVE IsThere(b)'
    <3>1. (o + 2) - 1 = o + 1
      BY <1>1
    <3> QED BY <1>1, <3>1 DEF BlocksThere
  <2>1. CASE b = o + 1
    BY <1>1, <2>1 DEF IsThere
  <2>2. CASE b = o
    BY <1>1, <2>2 DEF IsThere
  <2>3. CASE b # o + 1 /\ b # o
    <3>1. b \in 1 .. o - 1 /\ b \in 1 .. Len(doc)
      <4>1. o \in 1 .. Len(doc) /\ Len(doc) \in Nat
        BY <1>1, <1>3
      <4> QED BY <2>3, <4>1
    <3>2. IsThere(b)
      BY <3>1 DEF ShapeInv, BlocksThere
    <3>3. kids'[<<b, 0>>] = kids[<<b, 0>>]
      <4>1. <<b, 0>> # x /\ <<b, 0>> \in Nodes
        BY <1>3, <3>1, LastItemFacts, BlocksAreNodes
      <4> QED BY <1>4, <4>1
    <3> QED BY <1>1, <1>5, <3>2, <3>3 DEF IsThere
  <2> QED BY <2>1, <2>2, <2>3
<1> QED BY <1>7, <1>8, <1>9, <1>10, <1>11 DEF ShapeInv

\* The order in which nodes were written.
Order == {p \in Nodes \X Nodes : Precedes(p[1], p[2])}

\* What comes earlier in s is to what comes later as R says.
Ascends(s, R) == \A m, n \in 1 .. Len(s) : m < n => <<s[m], s[n]>> \in R

LEMMA AscendsConcat ==
  ASSUME NEW S, NEW R, NEW s \in Seq(S), NEW t \in Seq(S), Ascends(s, R), Ascends(t, R),
         \A y \in Range(s) : \A z \in Range(t) : <<y, z>> \in R
  PROVE  Ascends(s \o t, R)
<1> PICK u : u = s \o t
  OBVIOUS
<1> SUFFICES ASSUME NEW m \in 1 .. Len(u), NEW n \in 1 .. Len(u), m < n
             PROVE  <<u[m], u[n]>> \in R
  BY DEF Ascends
<1>1. /\ Len(s) \in Nat /\ Len(t) \in Nat /\ Len(u) = Len(s) + Len(t)
      /\ \A k \in 1 .. Len(u) : u[k] = IF k <= Len(s) THEN s[k] ELSE t[k - Len(s)]
  OBVIOUS
<1>2. \A k \in 1 .. Len(s) : s[k] \in Range(s)
  BY RangeIs
<1>3. \A k \in 1 .. Len(t) : t[k] \in Range(t)
  BY RangeIs
<1>4. CASE n <= Len(s)
  <2>1. m \in 1 .. Len(s) /\ n \in 1 .. Len(s) /\ u[m] = s[m] /\ u[n] = s[n]
    BY <1>1, <1>4
  <2> QED BY <2>1 DEF Ascends
<1>5. CASE m <= Len(s) /\ ~ (n <= Len(s))
  <2>1. m \in 1 .. Len(s) /\ n - Len(s) \in 1 .. Len(t) /\ u[m] = s[m] /\ u[n] = t[n - Len(s)]
    BY <1>1, <1>5
  <2> QED BY <1>2, <1>3, <2>1
<1>6. CASE ~ (m <= Len(s))
  <2> PICK a, b : a = m - Len(s) /\ b = n - Len(s)
    OBVIOUS
  <2>1. a \in 1 .. Len(t) /\ b \in 1 .. Len(t) /\ a < b /\ u[m] = t[a] /\ u[n] = t[b]
    BY <1>1, <1>6
  <2> QED BY <2>1 DEF Ascends
<1> QED BY <1>1, <1>4, <1>5, <1>6

\* What is the same after a list was joined, or anything was kept.
LEMMA OneOn ==
  ASSUME ListInv, Resolving, i' = i + 1, UNCHANGED doc, AttachesNothing
  PROVE  /\ i \in 1 .. Len(doc) /\ doc \in Seq(Block) /\ Len(doc) \in Nat
         /\ kids \in [Nodes -> Seq(Nodes)]
         /\ Nodes' = Nodes
         /\ \A b : Levels(b)' = Levels(b) /\ (IsList(b)' <=> IsList(b))
         /\ Attached' = Attached /\ Own' = Own
         /\ \A c, b : LastOwn(c, b)' <=> LastOwn(c, b)
         /\ i \notin Attached
         /\ IsList(i) => i \in Own
         /\ \A n \in 1 .. Len(resolved) : resolved[n][1] < i /\ resolved[n][1] \in Nat
<1>1. /\ i \in 1 .. Len(doc) /\ doc \in Seq(Block) /\ Len(doc) \in Nat
      /\ kids \in [Nodes -> Seq(Nodes)]
  BY ResolvingFacts DEF ListInv
<1>2. /\ Nodes' = Nodes
      /\ \A b : Levels(b)' = Levels(b) /\ (IsList(b)' <=> IsList(b))
  BY SameBlocks
<1>3. Attached' = Attached /\ Own' = Own /\ \A c, b : LastOwn(c, b)' <=> LastOwn(c, b)
  <2>1. i' \in Nat /\ i' >= i
    BY <1>1
  <2> QED BY <2>1, AttachmentsStay
<1>4. i \notin Attached
  BY <1>1 DEF ListInv, AttachedRight
<1>5. IsList(i) => i \in Own
  BY <1>1, <1>4 DEF Own
<1>6. \A n \in 1 .. Len(resolved) : resolved[n][1] < i /\ resolved[n][1] \in Nat
  BY ResolvedNumber DEF ListInv, ResolvedBefore
<1> QED BY <1>1, <1>2, <1>3, <1>4, <1>5, <1>6

LEMMA KeepShape ==
  ASSUME ListInv, ShapeInv, Keep
  PROVE  ShapeInv'
<1> PICK o : o = i
  OBVIOUS
<1>1. /\ Resolving /\ i' = o + 1 /\ UNCHANGED <<doc, next, stack, kids>>
      /\ resolved' = Append(resolved, <<o, 0>>)
  BY DEF Keep
<1>2. /\ o \in 1 .. Len(doc) /\ doc \in Seq(Block) /\ Len(doc) \in Nat
      /\ Nodes' = Nodes
      /\ \A b : Levels(b)' = Levels(b) /\ (IsList(b)' <=> IsList(b))
      /\ Attached' = Attached /\ Own' = Own
      /\ \A c, b : LastOwn(c, b)' <=> LastOwn(c, b)
      /\ o \notin Attached
      /\ \A n \in 1 .. Len(resolved) : resolved[n][1] < o /\ resolved[n][1] \in Nat
  BY <1>1, OneOn DEF AttachesNothing
<1>3. /\ Len(resolved) \in Nat /\ Len(resolved') = Len(resolved) + 1
      /\ \A n \in 1 .. Len(resolved) : resolved'[n] = resolved[n]
      /\ resolved'[Len(resolved) + 1] = <<o, 0>>
      /\ Range(resolved') = Range(resolved) \cup {<<o, 0>>}
  <2> PICK B : B = {<<b, 0>> : b \in 1 .. Len(doc)}
    OBVIOUS
  <2>1. resolved \in Seq(B) /\ <<o, 0>> \in B
    BY <1>2 DEF ListInv, NestInv, Types
  <2>2. Range(Append(resolved, <<o, 0>>)) = Range(resolved) \cup {<<o, 0>>}
    BY <2>1, RangeAppend
  <2> QED BY <1>1, <2>1, <2>2
<1>4. KidsFit'
  <2> SUFFICES ASSUME NEW z \in Nodes, NEW w \in Range(kids[z]) PROVE Fits(z, w)'
    BY <1>1, <1>2 DEF KidsFit, Fits
  <2>1. Fits(z, w)
    BY DEF ShapeInv, KidsFit, Fits
  <2>2. ASSUME IsJoined(z, w) PROVE z[1] \in Own' /\ w[1] \in Own' /\ Hosted(z[1], w[1])'
    <3>1. /\ z[1] \in Own /\ w[1] \in Own /\ z[1] < w[1] /\ w[1] < o
          /\ \A n \in 1 .. Len(resolved) : resolved[n][1] <= z[1] \/ resolved[n][1] > w[1]
      BY <2>2 DEF IsJoined, Hosted
    <3>2. w[1] < o + 1 /\ w[1] \in Nat
      BY <1>2, <3>1 DEF Own
    <3>3. \A n \in 1 .. Len(resolved') : resolved'[n][1] <= z[1] \/ resolved'[n][1] > w[1]
      <4> SUFFICES ASSUME NEW n \in 1 .. Len(resolved')
                   PROVE  resolved'[n][1] <= z[1] \/ resolved'[n][1] > w[1]
        OBVIOUS
      <4>1. CASE n = Len(resolved) + 1
        BY <1>2, <1>3, <3>1, <3>2, <4>1
      <4>2. CASE n # Len(resolved) + 1
        <5>1. n \in 1 .. Len(resolved)
          BY <1>3, <4>2
        <5> QED BY <1>3, <3>1, <5>1
      <4> QED BY <4>1, <4>2
    <3> QED BY <1>1, <1>2, <3>1, <3>2, <3>3 DEF Hosted
  <2>3. ASSUME IsCarried(z, w) PROVE w[1] \in Attached' /\ LastOwn(z[1], w[1])'
    <3>1. w[1] \in Attached /\ LastOwn(z[1], w[1])
      BY <2>3 DEF IsCarried
    <3> QED BY <1>2, <3>1
  <2> QED BY <1>1, <2>1, <2>2, <2>3, FitStays
<1>5. KidsAscend'
  BY <1>1, <1>2 DEF ShapeInv, KidsAscend, Precedes
<1>6. ResultAscends'
  <2>1. ASSUME NEW m \in 1 .. Len(resolved'), NEW n \in 1 .. Len(resolved'), m < n
        PROVE  resolved'[m][1] < resolved'[n][1]
    <3>1. m \in 1 .. Len(resolved) /\ (n = Len(resolved) + 1 \/ n \in 1 .. Len(resolved))
      BY <1>3, <2>1
    <3>2. CASE n = Len(resolved) + 1
      BY <1>2, <1>3, <3>1, <3>2
    <3>3. CASE n \in 1 .. Len(resolved)
      BY <1>3, <2>1, <3>1, <3>3 DEF ShapeInv, ResultAscends
    <3> QED BY <3>1, <3>2, <3>3
  <2>2. ASSUME NEW n \in 1 .. Len(resolved') PROVE resolved'[n][1] \notin Attached'
    <3>1. n = Len(resolved) + 1 \/ n \in 1 .. Len(resolved)
      BY <1>3
    <3>2. CASE n = Len(resolved) + 1
      BY <1>2, <1>3, <3>2
    <3>3. CASE n \in 1 .. Len(resolved)
      BY <1>2, <1>3, <3>3 DEF ShapeInv, ResultAscends
    <3> QED BY <3>1, <3>2, <3>3
  <2> QED BY <2>1, <2>2 DEF ResultAscends
<1>7. ItemsThere'
  BY <1>1, <1>2 DEF ShapeInv, ItemsThere, IsNested
<1>8. BlocksThere'
  <2> SUFFICES ASSUME NEW b \in 1 .. o PROVE IsThere(b)'
    <3>1. (o + 1) - 1 = o
      BY <1>2
    <3> QED BY <1>1, <3>1 DEF BlocksThere
  <2>1. CASE b = o
    BY <1>3, <2>1 DEF IsThere
  <2>2. CASE b # o
    <3>1. b \in 1 .. o - 1
      BY <1>2, <2>2
    <3>2. IsThere(b)
      BY <3>1 DEF ShapeInv, BlocksThere
    <3> QED BY <1>1, <1>2, <1>3, <3>2 DEF IsThere
  <2> QED BY <2>1, <2>2
<1> QED BY <1>4, <1>5, <1>6, <1>7, <1>8 DEF ShapeInv

\* What a list is joined to is the last of the result, and no attached list.
LEMMA JoinFacts ==
  ASSUME ListInv, ShapeInv, Join, NEW o, o = i
  PROVE  /\ Resolving /\ i' = o + 1 /\ UNCHANGED <<doc, next, stack, resolved>>
         /\ IsList(o) /\ Whole(o) /\ AttachesNothing
         /\ \E c \in Own :
              /\ c < o /\ <<c, 0>> \in Range(resolved)
              /\ \A n \in 1 .. Len(resolved) : resolved[n][1] <= c
              /\ \A z \in Nodes :
                   kids'[z] = IF z = <<c, 0>> THEN kids[z] \o kids[<<o, 0>>]
                              ELSE IF z = <<o, 0>> THEN <<>> ELSE kids[z]
<1>1. /\ Resolving /\ i' = o + 1 /\ UNCHANGED <<doc, next, stack, resolved>>
      /\ resolved # <<>> /\ IsList(o) /\ IsList(Last(resolved)[1])
      /\ kids' = [kids EXCEPT ![Last(resolved)] = @ \o kids[<<o, 0>>], ![<<o, 0>>] = <<>>]
  BY DEF Join, Joins
<1>2. PICK c \in 1 .. Len(doc) : Last(resolved) = <<c, 0>> /\ c < o
  BY <1>1, LastResolved
<1>3. o \in 1 .. Len(doc) /\ kids \in [Nodes -> Seq(Nodes)] /\ Len(doc) \in Nat
  BY <1>1, ResolvingFacts DEF ListInv
<1>4. /\ Len(resolved) \in 1 .. Len(resolved) /\ resolved[Len(resolved)] = <<c, 0>>
      /\ <<c, 0>> \in Range(resolved)
  <2> PICK B : B = {<<b, 0>> : b \in 1 .. Len(doc)}
    OBVIOUS
  <2>1. resolved \in Seq(B)
    BY DEF ListInv, NestInv, Types
  <2>2. Len(resolved) \in 1 .. Len(resolved) /\ resolved[Len(resolved)] = <<c, 0>>
    BY <1>1, <1>2, <2>1 DEF Last
  <2>3. resolved[Len(resolved)] \in Range(resolved)
    BY <2>1, <2>2, RangeIs
  <2> QED BY <2>2, <2>3
<1>5. c \in Own
  <2>1. resolved[Len(resolved)][1] = c
    BY <1>4
  <2>2. c \notin Attached
    BY <1>4, <2>1 DEF ShapeInv, ResultAscends
  <2>3. IsList(c)
    BY <1>1, <1>2
  <2> QED BY <2>2, <2>3 DEF Own
<1>6. \A n \in 1 .. Len(resolved) : resolved[n][1] <= c
  <2> SUFFICES ASSUME NEW n \in 1 .. Len(resolved) PROVE resolved[n][1] <= c
    OBVIOUS
  <2>1. CASE n = Len(resolved)
    BY <1>4, <2>1
  <2>2. CASE n # Len(resolved)
    <3>1. n < Len(resolved)
      BY <1>4, <2>2
    <3>2. resolved[n][1] < resolved[Len(resolved)][1]
      BY <1>4, <3>1 DEF ShapeInv, ResultAscends
    <3>3. resolved[n][1] < c
      BY <1>4, <3>2
    <3>4. resolved[n][1] \in Nat
      BY ResolvedNumber
    <3> QED BY <3>3, <3>4
  <2> QED BY <2>1, <2>2
<1>7. \A z \in Nodes :
        kids'[z] = IF z = <<c, 0>> THEN kids[z] \o kids[<<o, 0>>]
                   ELSE IF z = <<o, 0>> THEN <<>> ELSE kids[z]
  <2>1. <<c, 0>> # <<o, 0>> /\ <<c, 0>> \in Nodes /\ <<o, 0>> \in Nodes
    BY <1>2, <1>3, BlocksAreNodes
  <2> QED BY <1>1, <1>2, <1>3, <2>1
<1>8. Whole(o)
  <2>1. o \in i .. Len(doc) /\ next[1] > Len(doc)
    BY <1>1, <1>3 DEF Resolving
  <2> QED BY <1>1, <2>1, FreshIsWhole DEF ListInv, TreeInv
<1>9. AttachesNothing
  <2> SUFFICES ASSUME NEW x \in Nodes, x[2] > 0 PROVE kids'[x] = kids[x]
    BY DEF AttachesNothing
  <2>1. x # <<c, 0>> /\ x # <<o, 0>>
    OBVIOUS
  <2> QED BY <1>7, <2>1
<1>10. Resolving
  BY DEF Join
<1> QED BY <1>1, <1>2, <1>4, <1>5, <1>6, <1>7, <1>8, <1>9, <1>10

LEMMA JoinShape ==
  ASSUME ListInv, ShapeInv, Join
  PROVE  ShapeInv'
<1> PICK o : o = i
  OBVIOUS
<1>1. /\ Resolving /\ i' = o + 1 /\ UNCHANGED <<doc, next, stack, resolved>>
      /\ IsList(o) /\ Whole(o) /\ AttachesNothing
  BY JoinFacts
<1>2. PICK c \in Own :
        /\ c < o /\ <<c, 0>> \in Range(resolved)
        /\ \A n \in 1 .. Len(resolved) : resolved[n][1] <= c
        /\ \A z \in Nodes : kids'[z] = IF z = <<c, 0>> THEN kids[z] \o kids[<<o, 0>>]
                                       ELSE IF z = <<o, 0>> THEN <<>> ELSE kids[z]
  BY JoinFacts
<1>3. /\ o \in 1 .. Len(doc) /\ doc \in Seq(Block) /\ Len(doc) \in Nat
      /\ kids \in [Nodes -> Seq(Nodes)] /\ Nodes' = Nodes
      /\ \A b : Levels(b)' = Levels(b) /\ (IsList(b)' <=> IsList(b))
      /\ Attached' = Attached /\ Own' = Own
      /\ \A d, b : LastOwn(d, b)' <=> LastOwn(d, b)
      /\ o \in Own
  BY <1>1, OneOn
<1> PICK x, y : x = <<c, 0>> /\ y = <<o, 0>>
  OBVIOUS
<1>4. /\ x \in Nodes /\ y \in Nodes /\ x # y /\ x[1] = c /\ x[2] = 0
      /\ kids[x] \in Seq(Nodes) /\ kids[y] \in Seq(Nodes)
  BY <1>2, <1>3, BlocksAreNodes DEF Own
<1>5. \A z \in Nodes : Range(kids'[z]) = IF z = x THEN Range(kids[x]) \cup Range(kids[y])
                                         ELSE IF z = y THEN {} ELSE Range(kids[z])
  <2>1. Range(kids[x] \o kids[y]) = Range(kids[x]) \cup Range(kids[y])
    BY <1>4, RangeConcat
  <2>2. Range(<<>>) = {}
    BY DEF Range
  <2> QED BY <1>2, <2>1, <2>2
<1>6. \A w \in Range(kids[y]) : w[1] = o /\ w[2] # 0 /\ Near(o, w[2], 0)
  <2> SUFFICES ASSUME NEW w \in Range(kids[y]) PROVE w[1] = o /\ w[2] # 0 /\ Near(o, w[2], 0)
    OBVIOUS
  <2>1. Len(Levels(o)) \in Nat /\ 0 \in 0 .. Len(Levels(o))
    BY <1>1, <1>3, ListFacts
  <2>2. w[1] = o /\ w[2] # 0
    BY <1>1, <2>1 DEF Whole, Ordered
  <2>3. w \in Nodes
    BY <1>3, <1>4, KidsAreNodes
  <2>4. w = <<o, w[2]>> /\ w[2] \in 1 .. Len(Levels(o))
    BY <1>3, <2>2, <2>3, NodeFacts
  <2>5. Near(o, w[2], 0)
    BY <1>1, <2>1, <2>4 DEF Whole
  <2> QED BY <2>2, <2>5
<1>7. KidsFit'
  <2> SUFFICES ASSUME NEW z \in Nodes, NEW w \in Range(kids'[z]) PROVE Fits(z, w)'
    BY <1>3 DEF KidsFit, Fits
  <2>1. CASE w \in Range(kids[z])
    <3>1. Fits(z, w)
      BY <2>1 DEF ShapeInv, KidsFit, Fits
    <3>2. ASSUME IsJoined(z, w) PROVE z[1] \in Own' /\ w[1] \in Own' /\ Hosted(z[1], w[1])'
      <4>1. /\ z[1] \in Own /\ w[1] \in Own /\ z[1] < w[1] /\ w[1] < o
            /\ \A n \in 1 .. Len(resolved) : resolved[n][1] <= z[1] \/ resolved[n][1] > w[1]
        BY <3>2 DEF IsJoined, Hosted
      <4>2. w[1] < o + 1
        BY <1>3, <4>1 DEF Own
      <4> QED BY <1>1, <1>3, <4>1, <4>2 DEF Hosted
    <3>3. ASSUME IsCarried(z, w) PROVE w[1] \in Attached' /\ LastOwn(z[1], w[1])'
      <4>1. w[1] \in Attached /\ LastOwn(z[1], w[1])
        BY <3>3 DEF IsCarried
      <4> QED BY <1>3, <4>1
    <3> QED BY <1>1, <3>1, <3>2, <3>3, FitStays
  <2>2. CASE w \notin Range(kids[z])
    <3>1. z = x /\ w \in Range(kids[y])
      BY <1>5, <2>2
    <3>2. w[1] = o /\ w[2] # 0 /\ Near(o, w[2], 0)'
      BY <1>1, <1>6, <3>1, SameBlocks
    <3>3. Hosted(c, o)'
      <4>1. o < o + 1
        BY <1>3
      <4> QED BY <1>1, <1>2, <4>1 DEF Hosted
    <3> QED BY <1>2, <1>3, <1>4, <3>1, <3>2, <3>3 DEF Fits, IsJoined
  <2> QED BY <2>1, <2>2
<1>8. KidsAscend'
  <2> SUFFICES ASSUME NEW z \in Nodes, NEW m \in 1 .. Len(kids'[z]), NEW n \in 1 .. Len(kids'[z]),
                      m < n
               PROVE  Precedes(kids'[z][m], kids'[z][n])
    BY <1>3 DEF KidsAscend, Precedes
  <2>1. \A v \in Nodes : \A a, b \in 1 .. Len(kids[v]) : a < b => Precedes(kids[v][a], kids[v][b])
    BY DEF ShapeInv, KidsAscend
  <2>2. CASE z # x /\ z # y
    BY <1>2, <2>1, <2>2
  <2>3. CASE z = y
    BY <1>2, <1>4, <2>3
  <2>4. CASE z = x
    <3>1. ASSUME NEW v \in Range(kids[x]), NEW w \in Range(kids[y]) PROVE Precedes(v, w)
      <4>1. Fits(x, v)
        BY <1>4 DEF ShapeInv, KidsFit, Fits
      <4>2. ~ IsCarried(x, v)
        <5>1. LastItem(c)[2] # 0
          BY <1>2, <1>3, LastItemFacts DEF Own
        <5> QED BY <1>4, <5>1 DEF IsCarried
      <4>3. v[1] = c \/ v[1] < o
        BY <1>4, <4>1, <4>2 DEF Fits, IsSub, IsJoined, Hosted
      <4>4. v[1] < o /\ w[1] = o
        BY <1>2, <1>6, <4>3
      <4> QED BY <4>4 DEF Precedes
    <3>a. PICK s, t : s = kids[x] /\ t = kids[y]
      OBVIOUS
    <3>2. kids'[z] = s \o t /\ s \in Seq(Nodes) /\ t \in Seq(Nodes)
      BY <1>2, <1>4, <2>4, <3>a
    <3>3. Ascends(s, Order) /\ Ascends(t, Order)
      <4>1. \A v \in Nodes : Ascends(kids[v], Order)
        <5> SUFFICES ASSUME NEW v \in Nodes, NEW a \in 1 .. Len(kids[v]), NEW b \in 1 .. Len(kids[v]),
                            a < b
                     PROVE  <<kids[v][a], kids[v][b]>> \in Order
          BY DEF Ascends
        <5>1. kids[v] \in Seq(Nodes)
          BY <1>3
        <5>2. kids[v][a] \in Nodes /\ kids[v][b] \in Nodes /\ Precedes(kids[v][a], kids[v][b])
          BY <2>1, <5>1
        <5> QED BY <5>2 DEF Order
      <4> QED BY <1>4, <3>a, <4>1
    <3>4. \A v \in Range(s) : \A w \in Range(t) : <<v, w>> \in Order
      <4>1. \A v \in Range(s) \cup Range(t) : v \in Nodes
        BY <1>3, <1>4, <3>a, KidsAreNodes
      <4> QED BY <3>1, <3>a, <4>1 DEF Order
    <3>5. Ascends(s \o t, Order)
      BY <3>2, <3>3, <3>4, AscendsConcat
    <3>6. <<kids'[z][m], kids'[z][n]>> \in Order
      BY <3>2, <3>5 DEF Ascends
    <3> QED BY <3>6 DEF Order
  <2> QED BY <2>2, <2>3, <2>4
<1>9. ResultAscends'
  BY <1>1, <1>3 DEF ShapeInv, ResultAscends
<1>10. ItemsThere'
  <2> SUFFICES ASSUME NEW b \in 1 .. Len(doc), IsList(b), NEW k \in 1 .. Len(Levels(b)), IsNested(b, k)
               PROVE  \E z \in Nodes : <<b, k>> \in Range(kids'[z])
    BY <1>1, <1>3 DEF ItemsThere, IsNested
  <2>1. PICK z \in Nodes : <<b, k>> \in Range(kids[z])
    BY DEF ShapeInv, ItemsThere
  <2> QED BY <1>4, <1>5, <2>1
<1>11. BlocksThere'
  <2> SUFFICES ASSUME NEW b \in 1 .. o PROVE IsThere(b)'
    <3>1. (o + 1) - 1 = o
      BY <1>3
    <3> QED BY <1>1, <3>1 DEF BlocksThere
  <2>1. CASE b = o
    BY <1>1, <1>2, <1>3, <1>4, <2>1 DEF IsThere
  <2>2. CASE b # o
    <3>1. b \in 1 .. o - 1 /\ b \in 1 .. Len(doc)
      BY <1>3, <2>2
    <3>2. IsThere(b)
      BY <3>1 DEF ShapeInv, BlocksThere
    <3>3. CASE b = c
      BY <1>1, <1>2, <3>3 DEF IsThere
    <3>4. CASE b # c
      <4>1. <<b, 0>> # x /\ <<b, 0>> # y /\ <<b, 0>> \in Nodes
        BY <2>2, <3>1, <3>4, BlocksAreNodes
      <4>2. kids'[<<b, 0>>] = kids[<<b, 0>>]
        BY <1>2, <4>1
      <4> QED BY <1>1, <1>3, <3>2, <4>2 DEF IsThere
    <3> QED BY <3>3, <3>4
  <2> QED BY <2>1, <2>2
<1> QED BY <1>7, <1>8, <1>9, <1>10, <1>11 DEF ShapeInv

LEMMA ShapeStutter ==
  ASSUME ShapeInv, UNCHANGED vars
  PROVE  ShapeInv'
<1>1. UNCHANGED <<doc, next, stack, i, resolved, kids, active>>
  BY DEF vars
<1>2. /\ Nodes' = Nodes
      /\ \A b : Levels(b)' = Levels(b) /\ (IsList(b)' <=> IsList(b))
      /\ \A b : LastItem(b)' = LastItem(b)
      /\ \A b, k, j : Near(b, k, j)' <=> Near(b, k, j)
  BY <1>1, SameBlocks DEF LastItem
<1>3. Attached' = Attached
  BY <1>1, <1>2 DEF Attached
<1>4. Own' = Own
  BY <1>1, <1>2, <1>3 DEF Own
<1>5. \A c, b : LastOwn(c, b)' <=> LastOwn(c, b)
  BY <1>4 DEF LastOwn
<1>6. KidsFit'
  BY <1>1, <1>2, <1>3, <1>4, <1>5 DEF ShapeInv, KidsFit, IsSub, IsJoined, IsCarried, Hosted
<1>7. KidsAscend'
  BY <1>1, <1>2 DEF ShapeInv, KidsAscend, Precedes
<1>8. ResultAscends'
  BY <1>1, <1>3 DEF ShapeInv, ResultAscends
<1>9. ItemsThere'
  BY <1>1, <1>2 DEF ShapeInv, ItemsThere, IsNested
<1>10. BlocksThere'
  BY <1>1, <1>2, <1>3 DEF ShapeInv, BlocksThere, IsThere
<1> QED BY <1>6, <1>7, <1>8, <1>9, <1>10 DEF ShapeInv

LEMMA ShapeHolds == Spec => []ShapeInv
<1>1. Init => ListInv /\ i = 1
  BY InitList DEF Init
<1>2. ListInv /\ ShapeInv /\ [Next]_vars => ShapeInv' \/ (i = 1)'
  <2> SUFFICES ASSUME ListInv, ShapeInv, [Next]_vars PROVE ShapeInv' \/ (i = 1)'
    OBVIOUS
  <2>1. CASE NestItem \/ PassOver
    <3>1. i' = i /\ next[1] <= Len(doc)
      BY <2>1 DEF NestItem, PassOver
    <3>2. i = 1
      BY <3>1 DEF ListInv, TreeInv, Phase, NestInv, Types, Place
    <3> QED BY <3>1, <3>2
  <2>2. CASE Continue
    BY <2>2, ContinueShape
  <2>3. CASE Join
    BY <2>3, JoinShape
  <2>4. CASE Keep
    BY <2>4, KeepShape
  <2>5. CASE UNCHANGED vars
    BY <2>5, ShapeStutter
  <2> QED BY <2>1, <2>2, <2>3, <2>4, <2>5 DEF Next
<1> QED BY <1>1, <1>2, FreshShape, ListHolds, PTL DEF Spec

-----------------------------------------------------------------------------
(* Reading                                                                 *)

\* The first k of the sequences ss as one, when f[k - 1] has those before.
Chained(f, ss, k) == IF k = 1 THEN ss[k] ELSE f[k - 1] \o ss[k]

\* The function by which sequences are joined exists.
LEMMA JoiningIs ==
  ASSUME NEW S, NEW ss \in Seq(Seq(S)), Len(ss) # 0
  PROVE  \E d : /\ FlattenSeq(ss) = d[Len(ss)]
                /\ \A k \in 1 .. Len(ss) : d[k] = Chained(d, ss, k)
<1> PICK N : N = Len(ss)
  OBVIOUS
<1>1. N \in Nat \ {0}
  OBVIOUS
<1>a. PICK Bad : Bad = {n \in 1 .. N : ~ \E f : f = [k \in 1 .. n |-> Chained(f, ss, k)]}
  OBVIOUS
<1>b. Bad \in SUBSET (1 .. N)
  BY <1>a
<1>2. Bad = {}
  <2> SUFFICES ASSUME Bad # {} PROVE FALSE
    OBVIOUS
  <2>1. PICK n \in Bad : \A m \in Bad : n <= m
    <3>1. Bad \in SUBSET (0 .. N)
      BY <1>1, <1>b
    <3> QED BY <1>1, <3>1, Smallest
  <2>2. n \in 1 .. N /\ ~ \E f : f = [k \in 1 .. n |-> Chained(f, ss, k)]
    BY <1>a, Zenon
  <2>3. PICK g : n = 1 \/ g = [k \in 1 .. n - 1 |-> Chained(g, ss, k)]
    <3>1. CASE n = 1
      BY <3>1
    <3>2. CASE n # 1
      <4>1. n - 1 \in 1 .. N /\ n - 1 \notin Bad
        <5>1. n \in Nat /\ n - 1 \in 1 .. N /\ n - 1 < n
          BY <1>1, <1>b, <3>2
        <5> QED BY <2>1, <5>1
      <4>2. \E g : g = [k \in 1 .. n - 1 |-> Chained(g, ss, k)]
        BY <1>a, <4>1, Zenon
      <4> QED BY <4>2, Zenon
    <3> QED BY <3>1, <3>2
  <2>a. PICK f : f = [k \in 1 .. n |-> IF k = n THEN Chained(g, ss, n) ELSE g[k]]
    OBVIOUS
  <2>b. n \in Nat \ {0} /\ \A k \in 1 .. n : f[k] = IF k = n THEN Chained(g, ss, n) ELSE g[k]
    BY <1>1, <1>b, <2>a
  <2>4. ASSUME NEW k \in 1 .. n PROVE f[k] = Chained(f, ss, k)
    <3>1. CASE k = 1 /\ n = 1
      BY <2>b, <3>1 DEF Chained
    <3>2. CASE n # 1 /\ k = n
      <4>1. k - 1 \in 1 .. n /\ k - 1 # n /\ k # 1
        BY <2>b, <3>2
      <4>2. f[k - 1] = g[k - 1] /\ f[k] = Chained(g, ss, k)
        BY <2>b, <3>2, <4>1
      <4> QED BY <4>1, <4>2 DEF Chained
    <3>3. CASE n # 1 /\ k # n
      <4>1. k \in 1 .. n - 1 /\ f[k] = g[k]
        BY <2>b, <3>3
      <4>2. g[k] = Chained(g, ss, k)
        BY <2>3, <3>3, <4>1, Zenon
      <4>3. CASE k = 1
        BY <4>1, <4>2, <4>3 DEF Chained
      <4>4. CASE k # 1
        <5>1. k - 1 \in 1 .. n /\ k - 1 # n
          BY <2>b, <4>1, <4>4
        <5>2. f[k - 1] = g[k - 1]
          BY <2>b, <5>1
        <5> QED BY <4>1, <4>2, <4>4, <5>2 DEF Chained
      <4> QED BY <4>3, <4>4
    <3>4. n = 1 => k = 1
      BY <2>b
    <3> QED BY <3>1, <3>2, <3>3, <3>4
  <2>5. f = [k \in 1 .. n |-> f[k]]
    BY <2>a
  <2>6. f = [k \in 1 .. n |-> Chained(f, ss, k)]
    BY <2>4, <2>5, Zenon
  <2> QED BY <2>2, <2>6, Zenon
<1>3. \E f : f = [k \in 1 .. N |-> Chained(f, ss, k)]
  <2>1. N \in 1 .. N /\ N \notin Bad
    BY <1>1, <1>2
  <2> QED BY <1>a, <2>1, Zenon
<1> PICK d : d = CHOOSE f : f = [k \in 1 .. N |-> Chained(f, ss, k)]
  OBVIOUS
<1>4. d = [k \in 1 .. N |-> Chained(d, ss, k)]
  BY <1>3, Zenon
<1>5. FlattenSeq(ss) = d[N]
  BY <1>1 DEF FlattenSeq, Chained
<1>6. \A k \in 1 .. N : d[k] = Chained(d, ss, k)
  BY <1>4, Zenon
<1> QED BY <1>5, <1>6

\* Sequences that are joined keep what they have, and its order.
LEMMA FlattenFacts ==
  ASSUME NEW S, NEW R, NEW ss \in Seq(Seq(S)),
         \A j \in 1 .. Len(ss) : Ascends(ss[j], R),
         \A j, k \in 1 .. Len(ss) :
           j < k => \A x \in Range(ss[j]) : \A y \in Range(ss[k]) : <<x, y>> \in R
  PROVE  /\ FlattenSeq(ss) \in Seq(S)
         /\ \A x : x \in Range(FlattenSeq(ss)) <=> \E j \in 1 .. Len(ss) : x \in Range(ss[j])
         /\ Ascends(FlattenSeq(ss), R)
<1>1. CASE Len(ss) = 0
  <2>1. ss = <<>>
    BY <1>1
  <2>2. FlattenSeq(ss) = <<>>
    BY <1>1, <2>1 DEF FlattenSeq
  <2>3. Range(<<>>) = {} /\ <<>> \in Seq(S) /\ Ascends(<<>>, R)
    BY DEF Range, Ascends
  <2> QED BY <1>1, <2>2, <2>3
<1>2. CASE Len(ss) # 0
  <2> PICK N : N = Len(ss)
    OBVIOUS
  <2>1. PICK d : /\ FlattenSeq(ss) = d[N]
                 /\ \A k \in 1 .. N : d[k] = Chained(d, ss, k)
    BY <1>2, JoiningIs
  <2> DEFINE Right(n) == /\ d[n] \in Seq(S) /\ Ascends(d[n], R)
                         /\ \A x : x \in Range(d[n]) <=> \E j \in 1 .. n : x \in Range(ss[j])
  <2>a. PICK Bad : Bad = {n \in 1 .. N : ~ Right(n)}
    OBVIOUS
  <2>b. Bad \in SUBSET (1 .. N) /\ \A n \in 1 .. N : n \in Bad <=> ~ Right(n)
    BY <2>a
  <2> HIDE DEF Right
  <2>2. N \in Nat \ {0} /\ \A k \in 1 .. N : ss[k] \in Seq(S)
    BY <1>2
  <2>3. Bad = {}
    <3> SUFFICES ASSUME Bad # {} PROVE FALSE
      OBVIOUS
    <3>1. PICK n \in Bad : \A m \in Bad : n <= m
      <4>1. Bad \in SUBSET (0 .. N)
        BY <2>2, <2>b
      <4> QED BY <2>2, <4>1, Smallest
    <3>2. n \in 1 .. N /\ n \in Nat /\ ~ Right(n)
      BY <2>2, <2>b
    <3>3. CASE n = 1
      <4>1. d[n] = ss[n]
        BY <2>1, <3>2, <3>3 DEF Chained
      <4>2. \A j : j \in 1 .. n <=> j = n
        BY <3>3
      <4>3. d[n] \in Seq(S) /\ Ascends(d[n], R)
        BY <2>2, <3>2, <4>1
      <4>4. \A x : x \in Range(d[n]) <=> \E j \in 1 .. n : x \in Range(ss[j])
        <5>1. ASSUME NEW x
              PROVE  (\E j \in 1 .. n : x \in Range(ss[j])) <=> x \in Range(ss[n])
          BY <4>2
        <5> QED BY <4>1, <5>1
      <4>5. Right(n)
        BY <4>3, <4>4, Zenon DEF Right
      <4> QED BY <3>2, <4>5
    <3>4. CASE n # 1
      <4> PICK m : m = n - 1
        OBVIOUS
      <4>1. m \in 1 .. N /\ m \notin Bad /\ d[n] = d[m] \o ss[n]
        <5>1. m \in 1 .. N /\ m < n
          BY <2>2, <3>2, <3>4
        <5>2. m \notin Bad
          <6>1. m \in Nat /\ ~ (n <= m)
            BY <2>2, <3>2, <5>1
          <6> QED BY <3>1, <6>1
        <5> QED BY <2>1, <3>2, <3>4, <5>1, <5>2 DEF Chained
      <4>2. Right(m)
        BY <2>b, <4>1
      <4>3. d[m] \in Seq(S) /\ ss[n] \in Seq(S) /\ d[n] \in Seq(S)
        BY <2>2, <3>2, <4>1, <4>2 DEF Right
      <4>4. Ascends(d[n], R)
        <5>1. \A x \in Range(d[m]) : \A y \in Range(ss[n]) : <<x, y>> \in R
          <6> SUFFICES ASSUME NEW x \in Range(d[m]), NEW y \in Range(ss[n]) PROVE <<x, y>> \in R
            OBVIOUS
          <6>1. PICK j \in 1 .. m : x \in Range(ss[j])
            BY <4>2 DEF Right
          <6>2. j \in 1 .. Len(ss) /\ n \in 1 .. Len(ss) /\ j < n
            BY <2>2, <3>2
          <6> QED BY <6>1, <6>2
        <5>2. Ascends(ss[n], R)
          BY <3>2
        <5>3. Ascends(d[m], R)
          BY <4>2, Zenon DEF Right
        <5>4. Ascends(d[m] \o ss[n], R)
          BY <4>3, <5>1, <5>2, <5>3, AscendsConcat
        <5> QED BY <4>1, <5>4
      <4>5. ASSUME NEW x
            PROVE  x \in Range(d[n]) <=> \E j \in 1 .. n : x \in Range(ss[j])
        <5>1. Range(d[n]) = Range(d[m]) \cup Range(ss[n])
          BY <4>1, <4>3, RangeConcat
        <5>2. \A j : j \in 1 .. n <=> j \in 1 .. m \/ j = n
          BY <2>2, <3>2, <3>4
        <5> QED BY <4>2, <5>1, <5>2 DEF Right
      <4> QED BY <3>2, <4>3, <4>4, <4>5 DEF Right
    <3> QED BY <3>3, <3>4
  <2>4. Right(N)
    BY <2>2, <2>3, <2>b
  <2> QED BY <2>1, <2>4 DEF Right
<1> QED BY <1>1, <1>2

\* A node and then what is under it, when f reads its children.
KidsRead(f, y) == [k \in 1 .. Len(kids[y]) |-> f[kids[y][k]]]
ReadOf(f, y)   == <<y>> \o FlattenSeq(KidsRead(f, y))
Read           == CHOOSE f : f = [y \in Nodes |-> ReadOf(f, y)]

\* f reads from the nodes in D, which it does not leave.
Reads(D, f) ==
  /\ D \subseteq Nodes /\ f = [y \in D |-> ReadOf(f, y)]
  /\ \A y \in D : Range(kids[y]) \subseteq D

LEMMA SameBelow ==
  ASSUME kids \in [Nodes -> Seq(Nodes)], NEW f, NEW g, NEW y \in Nodes,
         \A z \in Range(kids[y]) : f[z] = g[z]
  PROVE  ReadOf(f, y) = ReadOf(g, y)
<1>1. \A k \in 1 .. Len(kids[y]) : kids[y][k] \in Range(kids[y])
  <2>1. kids[y] \in Seq(Nodes)
    OBVIOUS
  <2> QED BY <2>1, RangeIs
<1>2. \A k \in 1 .. Len(kids[y]) : f[kids[y][k]] = g[kids[y][k]]
  BY <1>1
<1>3. KidsRead(f, y) = KidsRead(g, y)
  BY <1>2 DEF KidsRead
<1> QED BY <1>3 DEF ReadOf

LEMMA OneReading ==
  ASSUME doc \in Seq(Block), kids \in [Nodes -> Seq(Nodes)], KidsAfter,
         NEW D, NEW f, Reads(D, f), NEW E, NEW g, Reads(E, g), NEW y \in D, y \in E
  PROVE  f[y] = g[y]
<1> PICK Bad : Bad = {z \in D \cap E : f[z] # g[z]}
  OBVIOUS
<1> SUFFICES ASSUME Bad # {} PROVE FALSE
  OBVIOUS
<1>1. Bad \in SUBSET Nodes
  BY DEF Reads
<1>2. PICK x \in Bad : \A z \in Bad : ~ Precedes(x, z)
  BY <1>1, LastNode
<1>3. f[x] = ReadOf(f, x) /\ g[x] = ReadOf(g, x) /\ x \in D /\ x \in E /\ x \in Nodes
  BY <1>1, Zenon DEF Reads
<1>4. \A z \in Range(kids[x]) : f[z] = g[z]
  <2> SUFFICES ASSUME NEW z \in Range(kids[x]) PROVE f[z] = g[z]
    OBVIOUS
  <2>1. z \in D \cap E /\ Precedes(x, z)
    BY <1>3 DEF Reads, KidsAfter
  <2> QED BY <1>2, <2>1
<1> QED BY <1>3, <1>4, SameBelow

\* The function by which the text is read exists.
LEMMA ReadIs ==
  ASSUME doc \in Seq(Block), kids \in [Nodes -> Seq(Nodes)], KidsAfter
  PROVE  /\ \A x \in Nodes : Read[x] = ReadOf(Read, x)
         /\ Reading = FlattenSeq([k \in 1 .. Len(resolved) |-> Read[resolved[k]]])
<1>a. PICK Good : Good = {z \in Nodes : \E D, f : Reads(D, f) /\ z \in D}
  OBVIOUS
<1>b. PICK g : g = [y \in Good |-> CHOOSE v : \E D, f : Reads(D, f) /\ y \in D /\ v = f[y]]
  OBVIOUS
<1>1. ASSUME NEW E, NEW h, Reads(E, h), NEW y \in E
      PROVE  y \in Good /\ g[y] = h[y]
  <2>1. y \in Good
    <3>1. y \in Nodes
      BY <1>1 DEF Reads
    <3> QED BY <1>1, <1>a, <3>1
  <2>2. \A v : (\E D, f : Reads(D, f) /\ y \in D /\ v = f[y]) => v = h[y]
    BY <1>1, OneReading
  <2>3. \E v : \E D, f : Reads(D, f) /\ y \in D /\ v = f[y]
    BY <1>1
  <2>4. (CHOOSE v : \E D, f : Reads(D, f) /\ y \in D /\ v = f[y]) = h[y]
    BY <2>2, <2>3
  <2> QED BY <1>b, <2>1, <2>4
<1>2. ASSUME NEW z \in Good PROVE Range(kids[z]) \subseteq Good /\ g[z] = ReadOf(g, z)
  <2>1. PICK E, h : Reads(E, h) /\ z \in E
    BY <1>a
  <2>2. h[z] = ReadOf(h, z) /\ z \in Nodes /\ Range(kids[z]) \subseteq E
    BY <2>1, Zenon DEF Reads
  <2>3. \A y \in E : y \in Good /\ g[y] = h[y]
    BY <1>1, <2>1
  <2>4. ReadOf(g, z) = ReadOf(h, z)
    <3>1. \A w \in Range(kids[z]) : g[w] = h[w]
      BY <2>2, <2>3
    <3> QED BY <2>2, <3>1, SameBelow
  <2> QED BY <2>1, <2>2, <2>3, <2>4
<1>3. Good = Nodes
  <2> PICK Bad : Bad = Nodes \ Good
    OBVIOUS
  <2> SUFFICES ASSUME Bad # {} PROVE FALSE
    BY <1>a
  <2>1. PICK x \in Bad : \A z \in Bad : ~ Precedes(x, z)
    BY LastNode
  <2>2. Range(kids[x]) \subseteq Good
    <3> SUFFICES ASSUME NEW z \in Range(kids[x]) PROVE z \in Good
      OBVIOUS
    <3>1. z \in Nodes /\ Precedes(x, z)
      BY KidsAreNodes DEF KidsAfter
    <3> QED BY <2>1, <3>1
  <2>a. x \in Nodes /\ x \notin Good /\ Good \subseteq Nodes
    BY <1>a
  <2> PICK E : E = Good \cup {x}
    OBVIOUS
  <2>b. PICK h : h = [z \in E |-> IF z = x THEN ReadOf(g, x) ELSE g[z]]
    OBVIOUS
  <2>3. \A z \in E : z \in Nodes /\ Range(kids[z]) \subseteq Good
    BY <1>2, <2>2, <2>a
  <2>4. (\A z \in Good : h[z] = g[z]) /\ h[x] = ReadOf(g, x)
    BY <2>a, <2>b
  <2>5. ASSUME NEW z \in E PROVE h[z] = ReadOf(h, z)
    <3>1. ReadOf(h, z) = ReadOf(g, z)
      <4>1. z \in Nodes /\ \A w \in Range(kids[z]) : h[w] = g[w]
        BY <2>3, <2>4
      <4> QED BY <4>1, SameBelow
    <3>2. h[z] = ReadOf(g, z)
      BY <1>2, <2>4
    <3> QED BY <3>1, <3>2
  <2>6. h = [z \in E |-> h[z]]
    BY <2>b
  <2>7. h = [z \in E |-> ReadOf(h, z)]
    BY <2>5, <2>6, Zenon
  <2>8. Reads(E, h)
    BY <2>3, <2>7 DEF Reads
  <2> QED BY <1>1, <2>8, <2>a
<1>4. g = [y \in Nodes |-> ReadOf(g, y)]
  <2>1. g = [y \in Nodes |-> g[y]]
    BY <1>3, <1>b
  <2> QED BY <1>2, <1>3, <2>1, Zenon
<1>5. Read = [y \in Nodes |-> ReadOf(Read, y)]
  BY <1>4, Zenon DEF Read
<1>6. \A x \in Nodes : Read[x] = ReadOf(Read, x)
  BY <1>5, Zenon
<1>7. Reading = FlattenSeq([k \in 1 .. Len(resolved) |-> Read[resolved[k]]])
  BY Zenon DEF Reading, Read, ReadOf, KidsRead
<1> QED BY <1>6, <1>7

\* Where what is read from x can be: in the items after it that are deeper, and
\* in what is attached to their list if these are all that come; from a list that
\* is not attached, in it, in one that may be joined to it, and in what is
\* attached to either; from any other block, in that block.
InItem(b, j, u) == \/ u[1] = b /\ u[2] >= j /\ \A n \in j + 1 .. u[2] : Lev(b, n) > Lev(b, j)
                   \/ u[1] \in Attached /\ LastOwn(b, u[1]) /\ Tip(b, j)
InList(c, u)    == \E d \in Own : /\ d = c \/ Hosted(c, d)
                                  /\ u[1] = d \/ (u[1] \in Attached /\ LastOwn(d, u[1]))
Within(x, u) == IF x[2] # 0 THEN InItem(x[1], x[2], u)
                ELSE IF x[1] \in Own THEN InList(x[1], u) ELSE u[1] = x[1]

LEMMA OwnFacts ==
  ASSUME doc \in Seq(Block)
  PROVE  /\ \A c \in Own : c \in 1 .. Len(doc) /\ c \in Nat /\ IsList(c) /\ c \notin Attached
         /\ \A b \in Attached : b \in 1 .. Len(doc) /\ b \in Nat
         /\ \A c, b : LastOwn(c, b) => c \in Own /\ c < b /\ \A d \in Own : d <= c \/ d >= b
<1>1. \A c \in Own : c \in 1 .. Len(doc) /\ c \in Nat /\ IsList(c) /\ c \notin Attached
  BY DEF Own
<1>2. \A b \in Attached : b \in 1 .. Len(doc) /\ b \in Nat
  BY DEF Attached
<1>3. \A c, b : LastOwn(c, b) => c \in Own /\ c < b /\ \A d \in Own : d <= c \/ d >= b
  BY DEF LastOwn
<1> QED BY <1>1, <1>2, <1>3

\* What is deeper than what is under j is deeper than j.
LEMMA DeeperStill ==
  ASSUME doc \in Seq(Block), NEW b \in 1 .. Len(doc), IsList(b),
         NEW j \in 0 .. Len(Levels(b)), NEW k \in 1 .. Len(Levels(b)), Near(b, k, j),
         NEW n \in j + 1 .. Len(Levels(b)), n <= k \/ Lev(b, n) > Lev(b, k)
  PROVE  Lev(b, n) > Lev(b, j)
<1>1. /\ Len(Levels(b)) \in Nat /\ n \in 0 .. Len(Levels(b)) /\ k \in 0 .. Len(Levels(b))
      /\ Lev(b, n) \in Nat /\ Lev(b, k) \in Nat /\ Lev(b, j) \in Nat
  <2>1. Len(Levels(b)) \in Nat
    BY LevFacts
  <2>2. n \in 0 .. Len(Levels(b)) /\ k \in 0 .. Len(Levels(b))
    BY <2>1
  <2> QED BY <2>1, <2>2, LevFacts
<1>2. Lev(b, j) < Lev(b, k)
  BY DEF Near
<1>3. n <= k => Lev(b, n) >= Lev(b, k)
  <2>1. CASE n < k
    <3>1. n \in j + 1 .. k - 1
      BY <1>1, <2>1
    <3> QED BY <3>1 DEF Near
  <2>2. CASE n = k
    BY <1>1, <2>2
  <2> QED BY <1>1, <2>1, <2>2
<1> QED BY <1>1, <1>2, <1>3

LEMMA WithinSelf ==
  ASSUME doc \in Seq(Block), NEW x \in Nodes
  PROVE  Within(x, x)
<1>1. x[2] \in Nat
  BY NodeFacts
<1>2. \A n \in x[2] + 1 .. x[2] : FALSE
  BY <1>1
<1>3. InItem(x[1], x[2], x)
  BY <1>1, <1>2 DEF InItem
<1>4. x[1] \in Own => InList(x[1], x)
  BY DEF InList
<1> QED BY <1>3, <1>4 DEF Within

\* What is read from a child is read from its parent.
LEMMA WithinKid ==
  ASSUME doc \in Seq(Block), NEW x \in Nodes, NEW y \in Nodes, NEW u \in Nodes,
         Fits(x, y), Within(y, u)
  PROVE  Within(x, u)
<1>1. /\ x = <<x[1], x[2]>> /\ x[1] \in 1 .. Len(doc) /\ x[2] \in Nat
      /\ y = <<y[1], y[2]>> /\ y[1] \in 1 .. Len(doc) /\ y[2] \in Nat
      /\ u[1] \in 1 .. Len(doc) /\ u[2] \in Nat
      /\ y[2] # 0 => IsList(y[1]) /\ y[2] \in 1 .. Len(Levels(y[1]))
      /\ x[2] # 0 => IsList(x[1]) /\ x[2] \in 1 .. Len(Levels(x[1]))
      /\ u[2] # 0 => IsList(u[1]) /\ u[2] \in 1 .. Len(Levels(u[1]))
  BY NodeFacts
<1>2. CASE IsSub(x, y)
  <2> PICK b, j, k : b = x[1] /\ j = x[2] /\ k = y[2]
    OBVIOUS
  <2>1. /\ k # 0 /\ y[1] = b /\ Near(b, k, j) /\ j < k /\ IsList(b)
        /\ k \in 1 .. Len(Levels(b)) /\ b \in 1 .. Len(doc)
        /\ InItem(b, k, u) /\ Len(Levels(b)) \in Nat /\ j \in 0 .. Len(Levels(b))
    <3>1. /\ k # 0 /\ y[1] = b /\ Near(b, k, j) /\ IsList(b)
          /\ k \in 1 .. Len(Levels(b)) /\ b \in 1 .. Len(doc) /\ InItem(b, k, u)
      BY <1>1, <1>2 DEF IsSub, Within
    <3>2. Len(Levels(b)) \in Nat
      BY <3>1, ListFacts
    <3>3. j < k /\ j \in Nat
      BY <1>1, <3>1 DEF Near
    <3> QED BY <3>1, <3>2, <3>3
  <2>2. CASE j # 0
    <3>1. CASE u[1] = b /\ u[2] >= k /\ \A n \in k + 1 .. u[2] : Lev(b, n) > Lev(b, k)
      <4>1. u[2] >= j /\ u[2] \in 1 .. Len(Levels(b))
        BY <1>1, <2>1, <3>1
      <4>2. ASSUME NEW n \in j + 1 .. u[2] PROVE Lev(b, n) > Lev(b, j)
        <5>1. n \in j + 1 .. Len(Levels(b)) /\ (n <= k \/ n \in k + 1 .. u[2])
          BY <2>1, <4>1
        <5> QED BY <2>1, <3>1, <5>1, DeeperStill
      <4> QED BY <2>2, <3>1, <4>1, <4>2 DEF Within, InItem
    <3>2. CASE u[1] \in Attached /\ LastOwn(b, u[1]) /\ Tip(b, k)
      <4>1. ASSUME NEW n \in j + 1 .. Len(Levels(b)) PROVE Lev(b, n) > Lev(b, j)
        <5>1. n <= k \/ n \in k + 1 .. Len(Levels(b))
          BY <2>1
        <5>2. n <= k \/ Lev(b, n) > Lev(b, k)
          BY <3>2, <5>1 DEF Tip
        <5> QED BY <2>1, <5>2, DeeperStill
      <4>2. Tip(b, j)
        BY <4>1 DEF Tip
      <4> QED BY <2>2, <3>2, <4>2 DEF Within, InItem
    <3> QED BY <2>1, <3>1, <3>2 DEF InItem
  <2>3. CASE j = 0 /\ b \in Own
    <3>1. u[1] = b \/ (u[1] \in Attached /\ LastOwn(b, u[1]))
      BY <2>1 DEF InItem
    <3> QED BY <2>3, <3>1 DEF Within, InList
  <2>4. CASE j = 0 /\ b \notin Own
    <3>1. u[1] = b
      BY <2>1, <2>4 DEF InItem, LastOwn
    <3> QED BY <2>4, <3>1 DEF Within
  <2> QED BY <2>2, <2>3, <2>4
<1>3. CASE IsJoined(x, y)
  <2>1. /\ x[2] = 0 /\ x[1] \in Own /\ y[1] \in Own /\ Hosted(x[1], y[1])
        /\ InItem(y[1], y[2], u)
    BY <1>3 DEF IsJoined, Within
  <2>2. u[1] = y[1] \/ (u[1] \in Attached /\ LastOwn(y[1], u[1]))
    BY <2>1 DEF InItem
  <2> QED BY <2>1, <2>2 DEF Within, InList
<1>4. CASE IsCarried(x, y)
  <2>1. y[2] = 0 /\ y[1] \in Attached /\ LastOwn(x[1], y[1]) /\ x = LastItem(x[1])
    BY <1>4 DEF IsCarried
  <2>2. y[1] \notin Own /\ IsList(x[1])
    BY <2>1, OwnFacts
  <2>3. u[1] = y[1]
    BY <2>1, <2>2 DEF Within
  <2>4. x[2] # 0 /\ x[2] = Len(Levels(x[1])) /\ Len(Levels(x[1])) \in Nat
    <3>1. x[2] = Len(Levels(x[1]))
      BY <2>1 DEF LastItem
    <3> QED BY <1>1, <2>2, <3>1, ListFacts
  <2>5. Tip(x[1], x[2])
    <3>1. \A n \in Len(Levels(x[1])) + 1 .. Len(Levels(x[1])) : FALSE
      BY <2>4
    <3> QED BY <2>4, <3>1 DEF Tip
  <2> QED BY <2>1, <2>3, <2>4, <2>5 DEF Within, InItem
<1> QED BY <1>2, <1>3, <1>4 DEF Fits

\* What is read from a child comes before the next ones.
LEMMA WithinBefore ==
  ASSUME doc \in Seq(Block), NEW x \in Nodes, NEW y \in Nodes, NEW z \in Nodes, NEW u \in Nodes,
         Fits(x, y), Fits(x, z), Precedes(y, z), Within(y, u)
  PROVE  Precedes(u, z)
<1>1. /\ x = <<x[1], x[2]>> /\ x[1] \in 1 .. Len(doc) /\ x[2] \in Nat
      /\ y[1] \in 1 .. Len(doc) /\ y[2] \in Nat /\ z[1] \in 1 .. Len(doc) /\ z[2] \in Nat
      /\ u[1] \in 1 .. Len(doc) /\ u[2] \in Nat
      /\ y[2] # 0 => IsList(y[1]) /\ y[2] \in 1 .. Len(Levels(y[1]))
      /\ z[2] # 0 => IsList(z[1]) /\ z[2] \in 1 .. Len(Levels(z[1]))
  BY NodeFacts
<1>2. y[1] < z[1] \/ (y[1] = z[1] /\ y[2] < z[2])
  BY DEF Precedes
<1>3. \A a, b : LastOwn(a, b) => a \in Own /\ a < b /\ \A d \in Own : d <= a \/ d >= b
  BY OwnFacts
\* Carried blocks are under the last item of a list, which has no items under it.
<1>4. ASSUME NEW v, NEW w, v \in {y, z}, w \in {y, z}, IsCarried(x, w)
      PROVE  ~ IsSub(x, v) /\ ~ IsJoined(x, v)
  <2>1. IsList(x[1]) /\ x[2] = Len(Levels(x[1])) /\ Len(Levels(x[1])) \in Nat \ {0}
    <3>1. LastOwn(x[1], w[1]) /\ x = LastItem(x[1])
      BY <1>4 DEF IsCarried
    <3>2. IsList(x[1]) /\ x[2] = Len(Levels(x[1]))
      BY <3>1, OwnFacts DEF LastItem
    <3> QED BY <1>1, <3>2, ListFacts
  <2>2. ~ IsJoined(x, v)
    BY <2>1 DEF IsJoined
  <2>3. ~ IsSub(x, v)
    <3> SUFFICES ASSUME IsSub(x, v) PROVE FALSE
      OBVIOUS
    <3>1. v[2] # 0 /\ v[1] = x[1] /\ x[2] < v[2]
      BY DEF IsSub, Near
    <3>2. v[2] \in 1 .. Len(Levels(x[1]))
      BY <1>1, <1>4, <3>1
    <3> QED BY <2>1, <3>1, <3>2
  <2> QED BY <2>2, <2>3
<1>5. CASE IsCarried(x, y) \/ IsCarried(x, z)
  <2>1. IsCarried(x, y) /\ IsCarried(x, z)
    BY <1>4, <1>5 DEF Fits
  <2>2. y[2] = 0 /\ y[1] \in Attached /\ z[2] = 0
    BY <2>1 DEF IsCarried
  <2>3. y[1] \notin Own
    BY <2>2, OwnFacts
  <2>4. u[1] = y[1]
    BY <2>2, <2>3 DEF Within
  <2>5. u[1] < z[1]
    BY <1>1, <1>2, <2>2, <2>4
  <2> QED BY <2>5 DEF Precedes
<1>6. CASE (IsSub(x, y) \/ IsJoined(x, y)) /\ (IsSub(x, z) \/ IsJoined(x, z))
  <2> PICK j, k, l : j = x[2] /\ k = y[2] /\ l = z[2]
    OBVIOUS
  <2>1. /\ k # 0 /\ l # 0 /\ Near(y[1], k, j) /\ Near(z[1], l, j) /\ InItem(y[1], k, u)
    BY <1>6 DEF IsSub, IsJoined, Within
  <2>2. CASE y[1] = z[1]
    <3> PICK b : b = y[1]
      OBVIOUS
    <3>1. /\ k < l /\ k \in 1 .. Len(Levels(b)) /\ l \in 1 .. Len(Levels(b))
          /\ IsList(b) /\ b \in 1 .. Len(doc)
      BY <1>1, <1>2, <2>1, <2>2
    <3>2. /\ Len(Levels(b)) \in Nat /\ Lev(b, k) \in Nat /\ Lev(b, l) \in Nat
      <4>1. Len(Levels(b)) \in Nat
        BY <3>1, ListFacts
      <4>2. k \in 0 .. Len(Levels(b)) /\ l \in 0 .. Len(Levels(b))
        BY <3>1, <4>1
      <4> QED BY <3>1, <4>1, <4>2, LevFacts
    <3>3. ~ (Lev(b, l) > Lev(b, k))
      <4>1. k \in j + 1 .. l - 1
        <5>1. j < k /\ j \in Nat
          BY <1>1, <2>1 DEF Near
        <5> QED BY <3>1, <5>1
      <4>2. Lev(b, k) >= Lev(b, l)
        BY <2>1, <2>2, <4>1 DEF Near
      <4> QED BY <3>2, <4>2
    <3>4. CASE u[1] = b /\ u[2] >= k /\ \A n \in k + 1 .. u[2] : Lev(b, n) > Lev(b, k)
      <4>1. ~ (l \in k + 1 .. u[2])
        BY <3>3, <3>4
      <4>2. u[2] < l
        BY <1>1, <3>1, <4>1
      <4> QED BY <2>2, <3>4, <4>2 DEF Precedes
    <3>5. CASE Tip(b, k)
      <4>1. l \in k + 1 .. Len(Levels(b))
        BY <3>1, <3>2
      <4> QED BY <3>3, <3>5, <4>1 DEF Tip
    <3> QED BY <2>1, <3>4, <3>5 DEF InItem
  <2>3. CASE y[1] # z[1]
    <3>1. y[1] < z[1]
      BY <1>2, <2>3
    <3>2. z[1] \in Own
      <4>1. IsSub(x, z) => y[1] >= x[1]
        BY <1>1, <1>6 DEF IsSub, IsJoined, Hosted
      <4>2. ~ IsSub(x, z)
        BY <1>1, <3>1, <4>1 DEF IsSub
      <4> QED BY <1>6, <4>2 DEF IsJoined
    <3>3. CASE u[1] = y[1]
      BY <3>1, <3>3 DEF Precedes
    <3>4. CASE u[1] \in Attached /\ LastOwn(y[1], u[1])
      <4>1. z[1] <= y[1] \/ z[1] >= u[1]
        BY <1>3, <3>2, <3>4
      <4>2. z[1] # u[1]
        BY <3>2, <3>4, OwnFacts
      <4>3. u[1] < z[1]
        BY <1>1, <3>1, <4>1, <4>2
      <4> QED BY <4>3 DEF Precedes
    <3> QED BY <2>1, <3>3, <3>4 DEF InItem
  <2> QED BY <2>2, <2>3
<1> QED BY <1>5, <1>6 DEF Fits

\* What is read from x: nodes in their order, x and what comes after it, with all
\* that is under them.
Told(x) ==
  /\ Read[x] \in Seq(Nodes) /\ x \in Range(Read[x]) /\ Ascends(Read[x], Order)
  /\ \A u \in Range(Read[x]) : /\ Within(x, u) /\ Range(kids[u]) \subseteq Range(Read[x])
                               /\ u = x \/ Precedes(x, u)

LEMMA Transitive ==
  ASSUME doc \in Seq(Block), NEW x \in Nodes, NEW y \in Nodes, NEW z \in Nodes,
         Precedes(x, y), Precedes(y, z)
  PROVE  Precedes(x, z)
<1>1. /\ x[1] \in Nat /\ x[2] \in Nat /\ y[1] \in Nat /\ y[2] \in Nat
      /\ z[1] \in Nat /\ z[2] \in Nat
  BY NodeFacts
<1> QED BY <1>1 DEF Precedes

\* So it is from a node if it is from the nodes under it.
LEMMA ToldOn ==
  ASSUME ListInv, ShapeInv, NEW x \in Nodes, \A y \in Range(kids[x]) : Told(y)
  PROVE  Told(x)
<1>1. /\ doc \in Seq(Block) /\ kids \in [Nodes -> Seq(Nodes)] /\ KidsAfter
      /\ kids[x] \in Seq(Nodes)
  BY DEF ListInv, NestInv, Types, TreeInv
<1> PICK N : N = Len(kids[x])
  OBVIOUS
<1>a. PICK ss : ss = KidsRead(Read, x)
  OBVIOUS
<1>2. N \in Nat /\ Len(ss) = N /\ \A k \in 1 .. N : ss[k] = Read[kids[x][k]]
  BY <1>1, <1>a DEF KidsRead
<1>3. \A k \in 1 .. N : kids[x][k] \in Range(kids[x]) /\ kids[x][k] \in Nodes
  BY <1>1, RangeIs
<1>4. \A k \in 1 .. N : Told(kids[x][k])
  BY <1>3
<1>5. \A k \in 1 .. N : /\ ss[k] \in Seq(Nodes) /\ Ascends(ss[k], Order)
                        /\ \A u \in Range(ss[k]) : u \in Nodes /\ Within(kids[x][k], u)
  <2> SUFFICES ASSUME NEW k \in 1 .. N
               PROVE  /\ ss[k] \in Seq(Nodes) /\ Ascends(ss[k], Order)
                      /\ \A u \in Range(ss[k]) : u \in Nodes /\ Within(kids[x][k], u)
    OBVIOUS
  <2>1. ss[k] \in Seq(Nodes) /\ Ascends(ss[k], Order)
    BY <1>2, <1>4 DEF Told
  <2>2. \A u \in Range(ss[k]) : u \in Nodes
    BY <2>1, RangeIs
  <2>3. \A u \in Range(ss[k]) : Within(kids[x][k], u)
    BY <1>2, <1>4 DEF Told
  <2> QED BY <2>1, <2>2, <2>3
<1>6. ss \in Seq(Seq(Nodes))
  <2>1. ss = [k \in 1 .. N |-> ss[k]]
    BY <1>a DEF KidsRead
  <2>a. PICK Q : Q = Seq(Nodes)
    OBVIOUS
  <2>2. \A k \in 1 .. N : ss[k] \in Q
    BY <1>5, <2>a
  <2>3. ss \in Seq(Q)
    BY <1>2, <2>1, <2>2
  <2> QED BY <2>3, <2>a
<1>7. ASSUME NEW j \in 1 .. N, NEW k \in 1 .. N, j < k,
             NEW u \in Range(ss[j]), NEW w \in Range(ss[k])
      PROVE  <<u, w>> \in Order
  <2> PICK y, z : y = kids[x][j] /\ z = kids[x][k]
    OBVIOUS
  <2>1. y \in Nodes /\ z \in Nodes /\ u \in Nodes /\ w \in Nodes /\ Fits(x, y) /\ Fits(x, z)
    BY <1>3, <1>5 DEF ShapeInv, KidsFit, Fits
  <2>2. Precedes(y, z)
    BY <1>7 DEF ShapeInv, KidsAscend
  <2>3. Within(y, u)
    BY <1>5
  <2>4. Precedes(u, z)
    BY <1>1, <2>1, <2>2, <2>3, WithinBefore
  <2>5. w = z \/ Precedes(z, w)
    <3>1. Told(z) /\ w \in Range(Read[z])
      BY <1>2, <1>4
    <3> QED BY <3>1 DEF Told
  <2>6. Precedes(u, w)
    BY <1>1, <2>1, <2>4, <2>5, Transitive
  <2> QED BY <2>1, <2>6 DEF Order
<1>b. PICK F : F = FlattenSeq(ss)
  OBVIOUS
<1>8. /\ F \in Seq(Nodes) /\ Ascends(F, Order)
      /\ \A u : u \in Range(F) <=> \E k \in 1 .. N : u \in Range(ss[k])
  <2>1. \A j \in 1 .. Len(ss) : Ascends(ss[j], Order)
    BY <1>2, <1>5
  <2>2. \A j, k \in 1 .. Len(ss) :
          j < k => \A u \in Range(ss[j]) : \A w \in Range(ss[k]) : <<u, w>> \in Order
    BY <1>2, <1>7
  <2>3. /\ FlattenSeq(ss) \in Seq(Nodes)
        /\ \A u : u \in Range(FlattenSeq(ss)) <=> \E j \in 1 .. Len(ss) : u \in Range(ss[j])
        /\ Ascends(FlattenSeq(ss), Order)
    BY <1>6, <2>1, <2>2, FlattenFacts
  <2> QED BY <1>2, <1>b, <2>3
<1>c. PICK o : o = <<x>>
  OBVIOUS
<1>9. Read[x] = o \o F
  <2>1. Read[x] = ReadOf(Read, x)
    BY <1>1, ReadIs
  <2> QED BY <1>a, <1>b, <1>c, <2>1 DEF ReadOf
<1>10. ASSUME NEW u \in Range(F)
       PROVE  /\ u \in Nodes /\ Within(x, u) /\ Precedes(x, u)
              /\ Range(kids[u]) \subseteq Range(F)
  <2>1. PICK k \in 1 .. N : u \in Range(ss[k])
    BY <1>8
  <2> PICK y : y = kids[x][k]
    OBVIOUS
  <2>2. /\ y \in Nodes /\ y \in Range(kids[x]) /\ u \in Nodes /\ Within(y, u)
        /\ Told(y) /\ u \in Range(Read[y]) /\ Fits(x, y)
    BY <1>2, <1>3, <1>4, <1>5, <2>1 DEF ShapeInv, KidsFit, Fits
  <2>3. Within(x, u)
    BY <1>1, <2>2, WithinKid
  <2>4. Precedes(x, u)
    <3>1. Precedes(x, y)
      BY <1>1, <2>2 DEF KidsAfter
    <3>2. u = y \/ Precedes(y, u)
      BY <2>2 DEF Told
    <3> QED BY <1>1, <2>2, <3>1, <3>2, Transitive
  <2>5. Range(kids[u]) \subseteq Range(F)
    <3>1. Range(kids[u]) \subseteq Range(ss[k])
      BY <1>2, <2>2 DEF Told
    <3> QED BY <1>8, <3>1
  <2> QED BY <2>2, <2>3, <2>4, <2>5
<1>11. o \in Seq(Nodes) /\ Range(o) = {x} /\ Ascends(o, Order)
  <2>1. o \in Seq(Nodes) /\ Len(o) = 1 /\ o[1] = x
    BY <1>c
  <2>2. Range(o) = {x}
    <3>1. Range(o) = {o[n] : n \in 1 .. Len(o)}
      BY <2>1, RangeIs
    <3>2. 1 .. Len(o) = {1}
      BY <2>1
    <3> QED BY <2>1, <3>1, <3>2
  <2>3. \A m, n \in 1 .. Len(o) : ~ (m < n)
    BY <2>1
  <2> QED BY <2>1, <2>2, <2>3 DEF Ascends
<1>12. Read[x] \in Seq(Nodes) /\ Range(Read[x]) = {x} \cup Range(F)
  <2>1. Range(o \o F) = Range(o) \cup Range(F)
    BY <1>8, <1>11, RangeConcat
  <2>2. o \o F \in Seq(Nodes)
    BY <1>8, <1>11
  <2> QED BY <1>9, <1>11, <2>1, <2>2
<1>13. Ascends(Read[x], Order)
  <2>1. \A y \in Range(o) : \A z \in Range(F) : <<y, z>> \in Order
    BY <1>10, <1>11 DEF Order
  <2> QED BY <1>8, <1>9, <1>11, <2>1, AscendsConcat
<1>14. Range(kids[x]) \subseteq Range(F)
  <2> SUFFICES ASSUME NEW y \in Range(kids[x]) PROVE y \in Range(F)
    OBVIOUS
  <2>1. PICK k \in 1 .. N : y = kids[x][k]
    BY <1>1, RangeIs
  <2>2. y \in Range(ss[k])
    BY <1>2, <1>4, <2>1 DEF Told
  <2> QED BY <1>8, <2>2
<1>15. ASSUME NEW u \in Range(Read[x])
       PROVE  /\ Within(x, u) /\ Range(kids[u]) \subseteq Range(Read[x])
              /\ u = x \/ Precedes(x, u)
  <2>1. CASE u = x
    BY <1>1, <1>12, <1>14, <2>1, WithinSelf
  <2>2. CASE u # x
    BY <1>10, <1>12, <2>2
  <2> QED BY <2>1, <2>2
<1> QED BY <1>12, <1>13, <1>15 DEF Told

LEMMA AllTold ==
  ASSUME ListInv, ShapeInv, NEW x \in Nodes
  PROVE  Told(x)
<1>a. PICK Bad : Bad = {z \in Nodes : ~ Told(z)}
  OBVIOUS
<1> SUFFICES ASSUME Bad # {} PROVE FALSE
  BY <1>a
<1>1. doc \in Seq(Block) /\ kids \in [Nodes -> Seq(Nodes)] /\ KidsAfter
  BY DEF ListInv, NestInv, Types, TreeInv
<1>2. PICK y \in Bad : \A z \in Bad : ~ Precedes(y, z)
  BY <1>1, <1>a, LastNode
<1>3. y \in Nodes /\ ~ Told(y)
  BY <1>a
<1>4. ASSUME NEW z \in Range(kids[y]) PROVE Told(z)
  <2>1. z \in Nodes /\ Precedes(y, z)
    BY <1>1, <1>3, KidsAreNodes DEF KidsAfter
  <2> QED BY <1>2, <1>a, <2>1
<1> QED BY <1>3, <1>4, ToldOn

\* What a later node of the text may be to an earlier one: not the same, and
\* before it only if it was kept and the other carried back over it.
Follows ==
  {p \in Nodes \X Nodes :
     /\ p[1] # p[2]
     /\ Precedes(p[2], p[1]) =>
          p[1][1] \in Attached /\ p[2] \in Range(resolved) /\ ~ IsList(p[2][1])}

LEMMA OrderFollows ==
  ASSUME doc \in Seq(Block), NEW v \in Nodes, NEW w \in Nodes, Precedes(v, w)
  PROVE  <<v, w>> \in Follows
<1>1. v[1] \in Nat /\ v[2] \in Nat /\ w[1] \in Nat /\ w[2] \in Nat
  BY NodeFacts
<1>2. v # w /\ ~ Precedes(w, v)
  BY <1>1 DEF Precedes
<1> QED BY <1>2 DEF Follows

LEMMA ResolvedFacts ==
  ASSUME ListInv, ShapeInv
  PROVE  /\ doc \in Seq(Block) /\ kids \in [Nodes -> Seq(Nodes)] /\ KidsAfter /\ Bare
         /\ Len(resolved) \in Nat
         /\ \A n \in 1 .. Len(resolved) :
              /\ resolved[n] = <<resolved[n][1], 0>> /\ resolved[n] \in Nodes
              /\ resolved[n][1] \in 1 .. Len(doc) /\ resolved[n][1] \notin Attached
              /\ resolved[n] \in Range(resolved)
<1> PICK B : B = {<<b, 0>> : b \in 1 .. Len(doc)}
  OBVIOUS
<1>1. /\ doc \in Seq(Block) /\ kids \in [Nodes -> Seq(Nodes)] /\ KidsAfter /\ Bare
      /\ resolved \in Seq(B)
  BY DEF ListInv, NestInv, Types, TreeInv
<1>2. Len(resolved) \in Nat
  BY <1>1
<1>3. \A n \in 1 .. Len(resolved) :
        /\ resolved[n] = <<resolved[n][1], 0>> /\ resolved[n] \in Nodes
        /\ resolved[n][1] \in 1 .. Len(doc)
  <2> SUFFICES ASSUME NEW n \in 1 .. Len(resolved)
               PROVE  /\ resolved[n] = <<resolved[n][1], 0>> /\ resolved[n] \in Nodes
                      /\ resolved[n][1] \in 1 .. Len(doc)
    OBVIOUS
  <2>1. resolved[n] \in B
    BY <1>1
  <2>2. PICK b \in 1 .. Len(doc) : resolved[n] = <<b, 0>>
    BY <2>1
  <2> QED BY <2>2, BlocksAreNodes
<1>4. \A n \in 1 .. Len(resolved) : resolved[n][1] \notin Attached
  BY DEF ShapeInv, ResultAscends
<1>5. \A n \in 1 .. Len(resolved) : resolved[n] \in Range(resolved)
  BY <1>1, RangeIs
<1> QED BY <1>1, <1>2, <1>3, <1>4, <1>5

\* What is read from a block of the result, and from a later one.
LEMMA BlocksFollow ==
  ASSUME ListInv, ShapeInv, NEW j \in 1 .. Len(resolved), NEW k \in 1 .. Len(resolved), j < k,
         NEW u \in Range(Read[resolved[j]]), NEW w \in Range(Read[resolved[k]])
  PROVE  <<u, w>> \in Follows
<1> PICK c, e : c = resolved[j][1] /\ e = resolved[k][1]
  OBVIOUS
<1> PICK y, z : y = resolved[j] /\ z = resolved[k]
  OBVIOUS
<1>1. /\ doc \in Seq(Block) /\ Bare /\ c \in 1 .. Len(doc) /\ e \in 1 .. Len(doc) /\ c < e
      /\ c \notin Attached /\ e \notin Attached
      /\ y = <<c, 0>> /\ z = <<e, 0>> /\ y \in Nodes /\ z \in Nodes /\ z \in Range(resolved)
  <2>1. c < e
    BY DEF ShapeInv, ResultAscends
  <2> QED BY <2>1, ResolvedFacts
<1>2. Told(y) /\ Told(z) /\ u \in Nodes /\ w \in Nodes
  <2>1. Told(y) /\ Told(z)
    BY <1>1, AllTold
  <2>2. Read[y] \in Seq(Nodes) /\ Read[z] \in Seq(Nodes)
    BY <2>1 DEF Told
  <2> QED BY <2>1, <2>2, RangeIs
<1>3. Within(y, u) /\ Within(z, w) /\ (w = z \/ Precedes(z, w))
  BY <1>2 DEF Told
<1>4. u[1] \in 1 .. Len(doc) /\ u[2] \in Nat /\ w[1] \in 1 .. Len(doc) /\ w[2] \in Nat
  BY <1>1, <1>2, NodeFacts
<1>5. \/ u[1] < e
      \/ u[1] \in Attached /\ \E d \in Own : d < e /\ LastOwn(d, u[1])
  <2>1. CASE c \in Own
    <3>1. PICK d \in Own : /\ d = c \/ Hosted(c, d)
                           /\ u[1] = d \/ (u[1] \in Attached /\ LastOwn(d, u[1]))
      BY <1>1, <1>3, <2>1 DEF Within, InList
    <3>2. d < e
      <4>1. d \in Nat
        BY DEF Own
      <4>2. Hosted(c, d) => e <= c \/ e > d
        BY DEF Hosted
      <4> QED BY <1>1, <3>1, <4>1, <4>2
    <3> QED BY <3>1, <3>2
  <2>2. CASE c \notin Own
    BY <1>1, <1>3, <2>2 DEF Within
  <2> QED BY <2>1, <2>2
<1>6. CASE u[1] < e
  <2>1. Precedes(u, z)
    BY <1>1, <1>6 DEF Precedes
  <2>2. Precedes(u, w)
    BY <1>1, <1>2, <1>3, <2>1, Transitive
  <2> QED BY <1>1, <1>2, <2>2, OrderFollows
<1>7. CASE IsList(e) /\ ~ (u[1] < e)
  <2>1. e \in Own
    BY <1>1, <1>7 DEF Own
  <2>2. PICK d \in Own : d < e /\ LastOwn(d, u[1])
    BY <1>5, <1>7
  <2>3. e <= d \/ e >= u[1]
    BY <2>1, <2>2 DEF LastOwn
  <2>4. u[1] \in Attached /\ d \in Nat
    BY <1>5, <1>7 DEF Own
  <2> QED BY <1>1, <1>4, <1>7, <2>2, <2>3, <2>4
<1>8. CASE ~ IsList(e) /\ ~ (u[1] < e)
  <2>1. e \notin Own
    BY <1>8 DEF Own
  <2>2. w[1] = e
    BY <1>1, <1>3, <2>1 DEF Within
  <2>3. w = z
    BY <1>1, <1>2, <1>8, <2>2, NodeFacts
  <2>4. u[1] \in Attached
    BY <1>5, <1>8
  <2> QED BY <1>1, <1>2, <1>8, <2>2, <2>3, <2>4 DEF Follows
<1> QED BY <1>6, <1>7, <1>8

\* The text is what is read from the blocks of the result, one after the other.
LEMMA TextIs ==
  ASSUME ListInv, ShapeInv
  PROVE  /\ Reading \in Seq(Nodes) /\ Ascends(Reading, Follows)
         /\ \A u : u \in Range(Reading)
                     <=> \E k \in 1 .. Len(resolved) : u \in Range(Read[resolved[k]])
<1>1. /\ doc \in Seq(Block) /\ kids \in [Nodes -> Seq(Nodes)] /\ KidsAfter
      /\ Len(resolved) \in Nat /\ \A k \in 1 .. Len(resolved) : resolved[k] \in Nodes
  BY ResolvedFacts
<1>a. PICK ss : ss = [k \in 1 .. Len(resolved) |-> Read[resolved[k]]]
  OBVIOUS
<1>2. Len(ss) = Len(resolved) /\ \A k \in 1 .. Len(ss) : ss[k] = Read[resolved[k]]
  BY <1>1, <1>a
<1>3. \A k \in 1 .. Len(ss) : Told(resolved[k])
  BY <1>1, <1>2, AllTold
<1>4. \A k \in 1 .. Len(ss) : ss[k] \in Seq(Nodes) /\ Ascends(ss[k], Order)
  BY <1>2, <1>3 DEF Told
<1>5. ss \in Seq(Seq(Nodes))
  <2>a. PICK Q : Q = Seq(Nodes)
    OBVIOUS
  <2>1. \A k \in 1 .. Len(resolved) : ss[k] \in Q
    BY <1>2, <1>4, <2>a
  <2>2. ss = [k \in 1 .. Len(resolved) |-> ss[k]]
    BY <1>a
  <2>3. ss \in Seq(Q)
    BY <1>1, <2>1, <2>2
  <2> QED BY <2>3, <2>a
<1>6. \A k \in 1 .. Len(ss) : Ascends(ss[k], Follows)
  <2> SUFFICES ASSUME NEW k \in 1 .. Len(ss), NEW m \in 1 .. Len(ss[k]), NEW n \in 1 .. Len(ss[k]),
                      m < n
               PROVE  <<ss[k][m], ss[k][n]>> \in Follows
    BY DEF Ascends
  <2>1. <<ss[k][m], ss[k][n]>> \in Order
    BY <1>4 DEF Ascends
  <2>2. ss[k][m] \in Nodes /\ ss[k][n] \in Nodes /\ Precedes(ss[k][m], ss[k][n])
    BY <2>1 DEF Order
  <2> QED BY <1>1, <2>2, OrderFollows
<1>7. \A j, k \in 1 .. Len(ss) :
        j < k => \A u \in Range(ss[j]) : \A w \in Range(ss[k]) : <<u, w>> \in Follows
  BY <1>2, BlocksFollow
<1>8. /\ FlattenSeq(ss) \in Seq(Nodes) /\ Ascends(FlattenSeq(ss), Follows)
      /\ \A u : u \in Range(FlattenSeq(ss)) <=> \E k \in 1 .. Len(ss) : u \in Range(ss[k])
  BY <1>5, <1>6, <1>7, FlattenFacts
<1>9. Reading = FlattenSeq(ss)
  BY <1>1, <1>a, ReadIs
<1> QED BY <1>2, <1>8, <1>9

LEMMA FirstNode ==
  ASSUME doc \in Seq(Block), NEW S \in SUBSET Nodes, S # {}
  PROVE  \E x \in S : \A y \in S : ~ Precedes(y, x)
<1>a. PICK B : B = {y[1] : y \in S}
  OBVIOUS
<1>1. B \in SUBSET (0 .. Len(doc)) /\ B # {} /\ Len(doc) \in Nat
  BY <1>a, NodeFacts
<1>2. PICK b \in B : \A c \in B : b <= c
  BY <1>1, Smallest
<1>b. PICK K : K = {y[2] : y \in {z \in S : z[1] = b}}
  OBVIOUS
<1>3. PICK N \in Nat : K \in SUBSET (0 .. N)
  <2>1. CASE IsList(b)
    <3>1. Len(Levels(b)) \in Nat
      BY <1>a, <1>1, <1>2, <2>1, NodeFacts, ListFacts
    <3>2. K \in SUBSET (0 .. Len(Levels(b)))
      BY <1>b, <3>1, NodeFacts
    <3> QED BY <3>1, <3>2
  <2>2. CASE ~ IsList(b)
    <3>1. K \in SUBSET (0 .. 0)
      BY <1>b, <2>2, NodeFacts
    <3> QED BY <3>1
  <2> QED BY <2>1, <2>2
<1>4. K # {}
  BY <1>a, <1>b, <1>2
<1>5. PICK k \in K : \A m \in K : k <= m
  BY <1>3, <1>4, Smallest
<1>6. PICK x \in S : x[1] = b /\ x[2] = k
  BY <1>b, <1>5
<1>7. \A y \in S : y[1] \in Nat /\ y[2] \in Nat /\ b <= y[1] /\ (y[1] = b => k <= y[2])
  BY <1>a, <1>b, <1>1, <1>2, <1>5, NodeFacts
<1>8. \A y \in S : ~ Precedes(y, x)
  BY <1>6, <1>7 DEF Precedes
<1> QED BY <1>8

\* What need not be in the text: a "+" that attached what follows it, and a list
\* whose items went to another one.
Dropped(x) == \/ doc[x[1]].kind = "plus" /\ x[1] + 1 \in Attached
              \/ IsList(x[1]) /\ x[2] = 0 /\ x \notin Range(resolved)

LEMMA NoneLost ==
  ASSUME ListInv, ShapeInv, Done, NEW x \in Nodes
  PROVE  x \in Range(Reading) \/ Dropped(x)
<1>a. PICK Lost : Lost = {z \in Nodes : ~ (z \in Range(Reading) \/ Dropped(z))}
  OBVIOUS
<1> SUFFICES ASSUME Lost # {} PROVE FALSE
  BY <1>a
<1>1. /\ doc \in Seq(Block) /\ kids \in [Nodes -> Seq(Nodes)] /\ KidsAfter /\ Bare
      /\ \A n \in 1 .. Len(resolved) : resolved[n] \in Nodes
  BY ResolvedFacts
<1>2. PICK y \in Lost : \A z \in Lost : ~ Precedes(z, y)
  <2>1. Lost \in SUBSET Nodes
    BY <1>a
  <2> QED BY <1>1, <2>1, FirstNode
<1>3. y \in Nodes /\ y \notin Range(Reading) /\ ~ Dropped(y)
  BY <1>a
<1>4. /\ y = <<y[1], y[2]>> /\ y[1] \in 1 .. Len(doc) /\ y[2] \in Nat /\ Len(doc) \in Nat
      /\ y[2] # 0 => IsList(y[1]) /\ y[2] \in 1 .. Len(Levels(y[1]))
  BY <1>1, <1>3, NodeFacts
<1>5. ASSUME NEW u \in Range(Reading), NEW w \in Range(kids[u])
      PROVE  w \in Range(Reading)
  <2>1. PICK k \in 1 .. Len(resolved) : u \in Range(Read[resolved[k]])
    BY TextIs
  <2>2. Told(resolved[k])
    BY <1>1, AllTold
  <2>3. w \in Range(Read[resolved[k]])
    BY <2>1, <2>2 DEF Told
  <2> QED BY <2>3, TextIs
<1>6. \A z \in Range(resolved) : z \in Range(Reading)
  <2> SUFFICES ASSUME NEW z \in Range(resolved) PROVE z \in Range(Reading)
    OBVIOUS
  <2>1. PICK k \in 1 .. Len(resolved) : z = resolved[k]
    <3> PICK B : B = {<<b, 0>> : b \in 1 .. Len(doc)}
      OBVIOUS
    <3>1. resolved \in Seq(B)
      BY DEF ListInv, NestInv, Types
    <3> QED BY <3>1, RangeIs
  <2>2. Told(z)
    BY <1>1, <2>1, AllTold
  <2>3. z \in Range(Read[z])
    BY <2>2 DEF Told
  <2> QED BY <2>1, <2>3, TextIs
\* Items are in the text as far as y.
<1>7. ASSUME NEW z \in Nodes, z[2] # 0, Precedes(z, y) PROVE z \in Range(Reading)
  <2>1. IsList(z[1])
    BY <1>1, <1>7, NodeFacts
  <2>2. ~ Dropped(z)
    BY <1>7, <2>1 DEF Dropped, IsList
  <2>3. z \notin Lost
    BY <1>2, <1>7
  <2> QED BY <1>a, <2>2, <2>3
\* So what hangs under one of them is, too.
<1>8. ASSUME NEW b \in Attached, <<b, 0>> = y \/ Precedes(<<b, 0>>, y)
      PROVE  <<b, 0>> \in Range(Reading)
  <2>1. PICK z \in Nodes : z[2] > 0 /\ <<b, 0>> \in Range(kids[z])
    BY DEF Attached
  <2>2. Precedes(z, <<b, 0>>) /\ <<b, 0>> \in Nodes
    BY <1>1, <2>1, KidsAreNodes DEF KidsAfter
  <2>3. Precedes(z, y)
    BY <1>1, <1>3, <1>8, <2>2, Transitive
  <2>4. z[2] # 0
    BY <1>1, <2>1, NodeFacts
  <2> QED BY <1>5, <1>7, <2>1, <2>3, <2>4
<1>9. /\ \A b \in 1 .. Len(doc) : IsThere(b)
      /\ \A b \in 1 .. Len(doc) : \A k : IsNested(b, k)
  <2>1. /\ i > Len(doc) /\ i \in Nat /\ next[1] > Len(doc) /\ next[1] \in Nat
    BY <1>4 DEF Done, ListInv, NestInv, Types, Place
  <2>2. \A b \in 1 .. Len(doc) : b \in 1 .. i - 1 /\ b < next[1]
    BY <1>4, <2>1
  <2> QED BY <2>2 DEF ShapeInv, BlocksThere, IsNested
<1>10. CASE y[2] = 0
  <2> PICK b : b = y[1]
    OBVIOUS
  <2>1. IsThere(b) /\ y = <<b, 0>>
    BY <1>4, <1>9, <1>10
  <2>2. b \notin Attached
    BY <1>3, <1>8, <2>1
  <2>3. y \notin Range(resolved)
    BY <1>3, <1>6
  <2>4. doc[b].kind = "plus" /\ b + 1 \in Attached => Dropped(y)
    BY DEF Dropped
  <2>5. IsList(b) => Dropped(y)
    BY <1>10, <2>3 DEF Dropped
  <2> QED BY <1>3, <2>1, <2>2, <2>3, <2>4, <2>5 DEF IsThere
<1>11. CASE y[2] # 0
  <2>1. PICK p \in Nodes : y \in Range(kids[p])
    BY <1>4, <1>9, <1>11 DEF ShapeInv, ItemsThere
  <2>2. Precedes(p, y) /\ p \notin Range(Reading)
    BY <1>1, <1>3, <1>5, <2>1 DEF KidsAfter
  <2>3. p \notin Lost
    BY <1>2, <2>2
  <2>4. Dropped(p) /\ p[2] = 0
    BY <1>7, <1>a, <2>2, <2>3
  <2>5. p = <<p[1], 0>> /\ p[1] \in 1 .. Len(doc)
    BY <1>1, <2>4, NodeFacts
  <2>6. IsList(p[1])
    <3>1. kids[<<p[1], 0>>] # <<>>
      BY <2>1, <2>5 DEF Range
    <3> QED BY <1>1, <2>5, <3>1 DEF Bare
  <2>7. p \notin Range(resolved) /\ doc[p[1]].kind # "plus"
    BY <2>4, <2>6 DEF Dropped, IsList
  <2>8. p[1] \in Attached
    <3>1. kids[<<p[1], 0>>] # <<>>
      BY <2>1, <2>5 DEF Range
    <3>2. IsThere(p[1])
      BY <1>9, <2>5
    <3> QED BY <2>5, <2>7, <3>1, <3>2 DEF IsThere
  <2>9. p \in Range(Reading)
    BY <1>8, <2>2, <2>5, <2>8
  <2> QED BY <2>2, <2>9
<1> QED BY <1>10, <1>11

\* Nothing but a "+" that attached something is lost by nesting, attaching and
\* joining, and nothing is there twice.  The text comes in the order it was
\* written, but for what a "+" carries back to a list over blocks kept since
\* (_nest_list_items and resolve_list_continuations).
THEOREM TextInOrder == Spec => []OrderKept
<1>1. ListInv /\ ShapeInv => OrderKept
  <2> SUFFICES ASSUME ListInv, ShapeInv, Done
               PROVE  /\ IsInjective(Reading)
                      /\ \A x \in Nodes \ Range(Reading) : Dropped(x)
                      /\ \A m, n \in 1 .. Len(Reading) :
                           m < n /\ Precedes(Reading[n], Reading[m]) =>
                             /\ Reading[m][1] \in Attached /\ Reading[n] \in Range(resolved)
                             /\ ~ IsList(Reading[n][1])
    BY DEF OrderKept, Dropped
  <2> PICK t : t = Reading
    OBVIOUS
  <2>1. t \in Seq(Nodes) /\ Len(t) \in Nat /\ \A m, n \in 1 .. Len(t) : m < n => <<t[m], t[n]>> \in Follows
    BY TextIs DEF Ascends
  <2>2. ASSUME NEW m \in 1 .. Len(t), NEW n \in 1 .. Len(t), m < n
        PROVE  /\ t[m] # t[n]
               /\ Precedes(t[n], t[m]) =>
                    t[m][1] \in Attached /\ t[n] \in Range(resolved) /\ ~ IsList(t[n][1])
    <3>1. <<t[m], t[n]>> \in Follows
      BY <2>1, <2>2
    <3> QED BY <3>1 DEF Follows
  <2>3. IsInjective(t)
    <3> SUFFICES ASSUME NEW m \in 1 .. Len(t), NEW n \in 1 .. Len(t), t[m] = t[n] PROVE m = n
      BY <2>1 DEF IsInjective
    <3>1. ~ (m < n) /\ ~ (n < m)
      BY <2>2
    <3> QED BY <2>1, <3>1
  <2> QED BY <2>2, <2>3, NoneLost
<1> QED BY <1>1, ListHolds, ShapeHolds, PTL

\* Both: what "+" attaches goes to the last item of the last list before it, and
\* nothing else moves (resolve_list_continuations).
THEOREM ListsInOrder == Spec => []AttachedInOrder
<1>1. AttachedToLastItem /\ OrderKept => AttachedInOrder
  BY DEF AttachedInOrder
<1> QED BY <1>1, AttachedToLast, TextInOrder, PTL
=============================================================================
