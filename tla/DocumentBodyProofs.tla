------------------------- MODULE DocumentBodyProofs -------------------------
(***************************************************************************)
(* For every list of blocks, however long, and every set of levels and     *)
(* variants: lists are merged exactly, every block is under the nearest    *)
(* section that can contain it, and the tree reads in the order of the     *)
(* text.                                                                   *)
(***************************************************************************)
EXTENDS DocumentBody, SequenceTheorems, TLAPS

-----------------------------------------------------------------------------
(* Types                                                                   *)

LEMMA InitTypes == Init => TypeOK
  BY BodyAssumption DEF Init, TypeOK

LEMMA PopFacts ==
  ASSUME NEW s \in Seq(Nat), s # <<>>, NEW t, t = SubSeq(s, 1, Len(s) - 1)
  PROVE  /\ t \in Seq(Nat) /\ Len(t) = Len(s) - 1 /\ Len(s) \in Nat \ {0}
         /\ \A a \in 1 .. Len(t) : t[a] = s[a] /\ a \in 1 .. Len(s)
<1>1. Len(s) \in Nat \ {0} /\ \A i \in 1 .. Len(s) - 1 : s[i] \in Nat
  OBVIOUS
<1>2. /\ t \in Seq(Nat)
      /\ Len(t) = IF 1 <= Len(s) - 1 THEN Len(s) - 1 - 1 + 1 ELSE 0
      /\ \A i \in 1 .. Len(s) - 1 - 1 + 1 : t[i] = s[1 + i - 1]
  BY <1>1, SubSeqProperties
<1>3. Len(t) = Len(s) - 1
  <2> DEFINE n == Len(s)
  <2>1. n \in Nat \ {0} /\ Len(t) = IF 1 <= n - 1 THEN n - 1 - 1 + 1 ELSE 0
    BY <1>1, <1>2
  <2> HIDE DEF n
  <2>2. Len(t) = n - 1
    BY <2>1
  <2> QED BY <2>2 DEF n
<1>4. \A a \in 1 .. Len(t) : t[a] = s[a] /\ a \in 1 .. Len(s)
  BY <1>1, <1>2, <1>3
<1> QED BY <1>1, <1>2, <1>3, <1>4

\* How long the lists are.
LEMMA Lengths ==
  ASSUME TypeOK
  PROVE  /\ parent \in Seq(Nat) /\ open \in Seq(Nat) /\ heads \in Seq(Nat)
         /\ Len(parent) \in Nat /\ Len(open) \in Nat /\ Len(heads) \in Nat
         /\ Len(parent) <= Len(heads)
         /\ next \in Nat \ {0}
         /\ Nesting => next \in 1 .. Len(heads) /\ Len(parent) = next - 1
         /\ \A a \in 1 .. Len(open) : open[a] \in 1 .. Len(parent)
<1>1. /\ parent \in Seq(Nat) /\ open \in Seq(Nat) /\ heads \in Seq(Nat)
      /\ next \in Nat \ {0}
      /\ \A a \in 1 .. Len(open) : open[a] \in 1 .. Len(parent)
  BY DEF TypeOK
<1>2. Len(parent) \in Nat /\ Len(open) \in Nat /\ Len(heads) \in Nat
  BY <1>1
<1>3. CASE phase = "merge"
  <2>1. Len(parent) = 0
    BY <1>3 DEF TypeOK
  <2> QED BY <1>1, <1>2, <1>3, <2>1 DEF Nesting
<1>4. CASE phase # "merge"
  <2>1. next <= Len(heads) + 1 /\ Len(parent) = next - 1
    BY <1>4 DEF TypeOK
  <2> QED BY <1>1, <1>2, <2>1 DEF Nesting
<1> QED BY <1>3, <1>4

LEMMA NextTypes == TypeOK /\ [Next]_vars => TypeOK'
<1> SUFFICES ASSUME TypeOK, [Next]_vars PROVE TypeOK'
  OBVIOUS
<1> USE DEF TypeOK
<1>1. CASE Drop \/ Join
  <2>1. PICK n \in Nat : owner' = Append(owner, n)
    BY <1>1 DEF Drop, Join
  <2>2. /\ next \in Nat /\ next <= Len(body) /\ Len(owner) = next - 1 /\ phase = "merge"
        /\ owner' \in Seq(Nat) /\ Len(owner') = next
        /\ UNCHANGED <<body, phase, heads, open, parent>> /\ next' = next + 1
    BY <1>1, <2>1 DEF Drop, Join, Merging
  <2> QED BY <2>2
<1>3. CASE Keep
  <2>1. /\ next \in Nat /\ next <= Len(body) /\ Len(owner) = next - 1 /\ phase = "merge"
        /\ heads' = Append(heads, next) /\ owner' = Append(owner, Len(heads) + 1)
    BY <1>3 DEF Keep, Merging
  <2>2. heads' \in Seq(Nat) /\ owner' \in Seq(Nat) /\ Len(owner') = next
    BY <2>1
  <2>3. \A k \in 1 .. Len(heads') : heads'[k] \in 1 .. Len(owner')
    BY <2>1, <2>2
  <2> QED BY <1>3, <2>1, <2>2, <2>3 DEF Keep
<1>4. CASE Merged
  BY <1>4 DEF Merged
<1>5. CASE Close
  <2>0. open \in Seq(Nat) /\ open # <<>> /\ open' = SubSeq(open, 1, Len(open) - 1)
    BY <1>5 DEF Close, Ends
  <2> HIDE DEF TypeOK
  <2>a. /\ open' \in Seq(Nat)
        /\ \A a \in 1 .. Len(open') : open'[a] = open[a] /\ a \in 1 .. Len(open)
    BY <2>0, PopFacts
  <2>1. open' \in Seq(Nat) /\ \A a \in 1 .. Len(open') : open'[a] \in 1 .. Len(parent)
    BY <2>a DEF TypeOK
  <2>2. UNCHANGED <<body, phase, next, owner, heads, parent>> /\ phase = "nest"
    BY <1>5 DEF Close, Nesting
  <2> QED BY <2>1, <2>2 DEF TypeOK
<1>6. CASE Nest
  <2> DEFINE p == IF open = <<>> THEN 0 ELSE Innermost
  <2>1. /\ next \in Nat /\ Len(parent) = next - 1 /\ next <= Len(heads) /\ phase = "nest"
        /\ parent \in Seq(Nat) /\ open \in Seq(Nat)
        /\ \A a \in 1 .. Len(open) : open[a] \in 1 .. Len(parent)
    BY <1>6 DEF Nest, Nesting
  <2>2. /\ parent' = Append(parent, p) /\ next' = next + 1
        /\ open' = IF IsSection(next) THEN Append(open, next) ELSE open
        /\ UNCHANGED <<body, phase, owner, heads>>
    BY <1>6 DEF Nest
  <2>3. p \in Nat
    BY <2>1 DEF Innermost
  <2> HIDE DEF p, TypeOK
  <2>4. parent' \in Seq(Nat) /\ Len(parent') = next
    BY <2>1, <2>2, <2>3
  <2>5. open' \in Seq(Nat) /\ \A a \in 1 .. Len(open') : open'[a] \in 1 .. Len(parent')
    <3>1. CASE IsSection(next)
      <4>1. open' = Append(open, next)
        BY <2>2, <3>1
      <4> QED BY SMTT(30), <2>1, <2>4, <4>1
    <3>2. CASE ~IsSection(next)
      <4>1. open' = open
        BY <2>2, <3>2
      <4> QED BY <2>1, <2>4, <4>1
    <3> QED BY <3>1, <3>2
  <2>6. next' \in Nat \ {0} /\ next' <= Len(heads) + 1 /\ Len(parent') = next' - 1
    BY <2>1, <2>2, <2>4 DEF TypeOK
  <2>7. /\ body' \in Seq(Block) /\ owner' \in Seq(Nat) /\ heads' \in Seq(Nat)
        /\ phase' = "nest" /\ Len(owner') = Len(body')
        /\ \A k \in 1 .. Len(heads') : heads'[k] \in 1 .. Len(owner')
    BY <2>1, <2>2 DEF TypeOK
  <2>8. heads' = heads
    BY <2>2
  <2> QED BY <2>4, <2>5, <2>6, <2>7, <2>8 DEF TypeOK
<1>7. CASE Finish
  BY <1>7 DEF Finish
<1>8. CASE UNCHANGED vars
  BY <1>8 DEF vars
<1> QED BY <1>1, <1>3, <1>4, <1>5, <1>6, <1>7, <1>8 DEF Next

\* The types hold in every reachable state.
THEOREM TypeCorrect == Spec => []TypeOK
  BY InitTypes, NextTypes, PTL DEF Spec

-----------------------------------------------------------------------------
(* Merging: the code compares a list with the first block of the merged    *)
(* list before it, the property with the neighbour in the text.            *)

SameList(b, c) == /\ b.kind = c.kind
                  /\ b.kind = "list" => b.variant = c.variant

\* Every block is like the head of what it is part of, and the block seen
\* last is part of the last merged block.
OwnerInv ==
  /\ \A i \in 1 .. Len(owner) : owner[i] # 0 =>
       owner[i] <= Len(heads) /\ SameList(body[heads[owner[i]]], body[i])
  /\ \A i \in 1 .. Len(owner) :
       owner[i] # 0 /\ (\A m \in i + 1 .. Len(owner) : owner[m] = 0)
         => owner[i] = Len(heads)

MergeInv == OwnerInv /\ MergedExactly

\* n is the right place for the next block after the last one that was kept.
Follows(n) ==
  \A i \in 1 .. Len(owner) :
    owner[i] # 0 /\ (\A m \in i + 1 .. Len(owner) : owner[m] = 0) /\ n # 0 =>
      /\ OneList(body[i], body[next]) => n = owner[i]
      /\ ~OneList(body[i], body[next]) => n = owner[i] + 1

\* What the three steps have in common: a block joins n, the last merged
\* block, which is old or new, or is dropped when n is 0.
LEMMA MergeStep ==
  ASSUME TypeOK, MergeInv, Merging, NEW n \in Nat, NEW h \in Seq(Nat),
         owner' = Append(owner, n), body' = body, heads' = h,
         Len(heads) <= Len(h), \A k \in 1 .. Len(heads) : h[k] = heads[k],
         n = 0 => h = heads,
         n # 0 => n = Len(h) /\ SameList(body[h[n]], body[next]),
         Follows(n)
  PROVE  MergeInv'
<1>1. /\ next \in Nat \ {0} /\ owner \in Seq(Nat) /\ owner' \in Seq(Nat)
      /\ Len(owner) = next - 1 /\ Len(owner') = next /\ Len(heads) \in Nat
      /\ Len(h) \in Nat
  BY DEF Merging, TypeOK
<1>2. /\ owner'[next] = n
      /\ \A i \in 1 .. next - 1 : owner'[i] = owner[i] /\ owner[i] \in Nat
  BY <1>1
<1>3. OwnerInv'
  <2>1. ASSUME NEW i \in 1 .. next, owner'[i] # 0
        PROVE  owner'[i] <= Len(h) /\ SameList(body[h[owner'[i]]], body[i])
    <3>1. CASE i = next
      BY <1>1, <1>2, <2>1, <3>1
    <3>2. CASE i # next
      <4>1. i \in 1 .. Len(owner) /\ owner'[i] = owner[i] /\ owner[i] # 0 /\ owner[i] \in Nat
        BY <1>1, <1>2, <2>1, <3>2
      <4>2. owner[i] <= Len(heads) /\ SameList(body[heads[owner[i]]], body[i])
        BY <4>1 DEF MergeInv, OwnerInv
      <4>3. h[owner[i]] = heads[owner[i]]
        BY SMTT(30), <1>1, <4>1, <4>2
      <4> QED BY SMTT(30), <1>1, <4>1, <4>2, <4>3
    <3> QED BY <3>1, <3>2
  <2>2. ASSUME NEW i \in 1 .. next, owner'[i] # 0,
               \A m \in i + 1 .. next : owner'[m] = 0
        PROVE  owner'[i] = Len(h)
    <3>1. CASE i = next
      BY <1>1, <1>2, <2>2, <3>1
    <3>2. CASE i # next
      <4>1. i \in 1 .. Len(owner) /\ owner[i] # 0 /\ n = 0 /\ owner'[i] = owner[i]
        BY <1>1, <1>2, <2>2, <3>2
      <4>2. \A m \in i + 1 .. Len(owner) : owner[m] = 0
        BY <1>1, <1>2, <2>2
      <4>3. owner[i] = Len(heads)
        BY <4>1, <4>2 DEF MergeInv, OwnerInv
      <4> QED BY <4>1, <4>3
    <3> QED BY <3>1, <3>2
  <2> QED BY <1>1, <2>1, <2>2 DEF OwnerInv
<1>4. MergedExactly'
  <2> SUFFICES ASSUME NEW j \in 1 .. next, NEW i \in 1 .. j - 1,
                      owner'[i] # 0, owner'[j] # 0,
                      \A m \in i + 1 .. j - 1 : owner'[m] = 0
               PROVE  /\ OneList(body[i], body[j]) => owner'[j] = owner'[i]
                      /\ ~OneList(body[i], body[j]) => owner'[j] = owner'[i] + 1
    BY ZenonT(40), <1>1 DEF MergedExactly, Neighbours
  <2>1. i \in 1 .. Len(owner) /\ owner'[i] = owner[i]
    BY <1>1, <1>2
  <2>2. CASE j = next
    <3>1. \A m \in i + 1 .. Len(owner) : owner[m] = 0
      BY <1>1, <1>2, <2>1, <2>2
    <3> QED BY <1>2, <2>1, <2>2, <3>1 DEF Follows
  <2>3. CASE j # next
    <3>1. j \in 1 .. Len(owner) /\ owner'[j] = owner[j]
      BY <1>1, <1>2, <2>3
    <3>2. \A m \in i + 1 .. j - 1 : owner[m] = 0
      BY <1>1, <1>2, <2>1, <3>1
    <3>3. Neighbours(i, j)
      BY <2>1, <3>1, <3>2 DEF Neighbours
    <3> QED BY <2>1, <3>1, <3>3 DEF MergeInv, MergedExactly
  <2> QED BY <2>2, <2>3
<1> QED BY <1>3, <1>4 DEF MergeInv

LEMMA MergeNext == TypeOK /\ MergeInv /\ [Next]_vars => MergeInv'
<1> SUFFICES ASSUME TypeOK, MergeInv, [Next]_vars PROVE MergeInv'
  OBVIOUS
<1>a. heads \in Seq(Nat) /\ Len(heads) \in Nat /\ owner \in Seq(Nat)
  BY DEF TypeOK
<1>1. CASE Drop
  <2>1. Merging /\ owner' = Append(owner, 0) /\ body' = body /\ heads' = heads
    BY <1>1 DEF Drop
  <2>2. Follows(0)
    BY DEF Follows
  <2> QED BY <1>a, <2>1, <2>2, MergeStep
<1>2. CASE Join
  <2>1. /\ owner' = Append(owner, Len(heads)) /\ heads' = heads /\ body' = body /\ Merging
        /\ heads # <<>> /\ Joins
    BY <1>2 DEF Join, Joins
  <2>2. Len(heads) # 0 /\ SameList(body[heads[Len(heads)]], body[next])
    BY <1>a, <2>1 DEF Joins, SameList
  <2>3. ASSUME NEW i \in 1 .. Len(owner), owner[i] # 0,
               \A m \in i + 1 .. Len(owner) : owner[m] = 0
        PROVE  Len(heads) = owner[i] /\ OneList(body[i], body[next])
    <3>1. owner[i] = Len(heads) /\ SameList(body[heads[Len(heads)]], body[i])
      BY <2>3 DEF MergeInv, OwnerInv
    <3> QED BY <2>1, <3>1 DEF Joins, SameList, OneList
  <2>4. Follows(Len(heads))
    BY <2>3 DEF Follows
  <2> HIDE DEF MergeInv
  <2> QED BY <1>a, <2>1, <2>2, <2>4, MergeStep
<1>3. CASE Keep
  <2>1. /\ owner' = Append(owner, Len(heads) + 1) /\ heads' = Append(heads, next)
        /\ body' = body /\ Merging /\ ~Joins /\ next \in Nat
    BY <1>3 DEF Keep, TypeOK
  <2>2. /\ heads' \in Seq(Nat) /\ Len(heads') = Len(heads) + 1
        /\ heads'[Len(heads) + 1] = next
        /\ \A k \in 1 .. Len(heads) : heads'[k] = heads[k]
    BY <1>a, <2>1
  <2>3. ASSUME NEW i \in 1 .. Len(owner), owner[i] # 0,
               \A m \in i + 1 .. Len(owner) : owner[m] = 0
        PROVE  Len(heads) + 1 = owner[i] + 1 /\ ~OneList(body[i], body[next])
    <3>1. /\ owner[i] = Len(heads) /\ SameList(body[heads[Len(heads)]], body[i])
      BY <2>3 DEF MergeInv, OwnerInv
    <3>2. heads # <<>>
      BY <1>a, <2>3, <3>1
    <3> QED BY <2>1, <3>1, <3>2 DEF Joins, SameList, OneList
  <2>4. SameList(body[heads'[Len(heads) + 1]], body[next])
    BY <2>2 DEF SameList
  <2>5. Len(heads) + 1 \in Nat \ {0} /\ Len(heads) <= Len(heads')
    BY <1>a, <2>2
  <2>6. Follows(Len(heads) + 1)
    BY <2>3 DEF Follows
  <2> QED BY <1>a, <2>1, <2>2, <2>4, <2>5, <2>6, MergeStep
<1>4. CASE Merged \/ Close \/ Nest \/ Finish \/ UNCHANGED vars
  <2>1. UNCHANGED <<body, owner, heads>>
    BY <1>4 DEF Merged, Close, Nest, Finish, vars
  <2> QED BY <2>1 DEF MergeInv, OwnerInv, MergedExactly, Neighbours
<1> QED BY <1>1, <1>2, <1>3, <1>4 DEF Next

LEMMA MergeInit == Init => MergeInv
  BY DEF Init, MergeInv, OwnerInv, MergedExactly

\* Lists are merged exactly when they are neighbours of one variant and the
\* second has no metadata; no block is lost and none changes its place.
THEOREM ListsMergedExactly == Spec => []MergedExactly
<1>1. MergeInv => MergedExactly BY DEF MergeInv
<1> QED BY <1>1, TypeCorrect, MergeInit, MergeNext, PTL DEF Spec
-----------------------------------------------------------------------------
(* Nesting: the stack holds the sections that are not ended yet, in order; *)
(* every other section is ended by one of them that comes after it.        *)

NestInv == OpenInOrder /\ OpenAreSections /\ ClosedCovered /\ NearestOuter

Placing == phase # "merge"

LEMMA NestInit == Init => NestInv
  BY DEF Init, NestInv, OpenInOrder, OpenAreSections, ClosedCovered, NearestOuter

\* In the merge phase nothing is placed, so there is nothing to hold.
LEMMA NestEmpty ==
  ASSUME open = <<>>, parent = <<>>
  PROVE  NestInv
  BY DEF NestInv, OpenInOrder, OpenAreSections, ClosedCovered, NearestOuter

LEMMA SectionLevels ==
  ASSUME TypeOK, NEW k \in 1 .. Len(heads), IsSection(k)
  PROVE  LevelOf(k) \in Nat
<1>1. heads[k] \in 1 .. Len(body) /\ body \in Seq(Block)
  BY SMTT(30) DEF TypeOK
<1>2. body[heads[k]] \in Block
  BY <1>1
<1>3. body[heads[k]].level \in Levels
  BY <1>2 DEF Block, IsSection
<1> QED BY <1>3, BodyAssumption DEF LevelOf

LEMMA CloseNest ==
  ASSUME TypeOK, NestInv, Close
  PROVE  NestInv'
<1>1. /\ Nesting /\ open # <<>> /\ IsSection(next) /\ LevelOf(Innermost) >= LevelOf(next)
      /\ open' = SubSeq(open, 1, Len(open) - 1)
      /\ UNCHANGED <<body, phase, next, owner, heads, parent>>
  BY DEF Close, Ends
<1>2. /\ open \in Seq(Nat) /\ Len(open') = Len(open) - 1 /\ Len(open) \in Nat \ {0}
      /\ \A a \in 1 .. Len(open') : open'[a] = open[a] /\ a \in 1 .. Len(open)
  <2>1. open \in Seq(Nat) /\ open # <<>> /\ open' = SubSeq(open, 1, Len(open) - 1)
    BY <1>1 DEF TypeOK
  <2> QED BY <2>1, PopFacts
<1>3. OpenInOrder' /\ OpenAreSections' /\ NearestOuter'
  BY ZenonT(40), <1>1, <1>2 DEF NestInv, OpenInOrder, OpenAreSections, NearestOuter, CanContain,
                    IsSection, LevelOf
<1>4. ClosedCovered'
  <2> SUFFICES ASSUME NEW j \in 1 .. Len(parent), IsSection(j) PROVE Covered(j)'
    BY <1>1 DEF ClosedCovered, IsSection
  <2>1. Covered(j)
    BY DEF NestInv, ClosedCovered
  <2>2. CASE next <= Len(heads) /\ IsSection(next) /\ LevelOf(next) <= LevelOf(j)
    BY <1>1, <2>2 DEF Covered, IsSection, LevelOf
  <2>3. ASSUME NEW a \in 1 .. Len(open), open[a] >= j, LevelOf(open[a]) <= LevelOf(j)
        PROVE  Covered(j)'
    <3>1. CASE a = Len(open)
      <4>1. /\ next \in 1 .. Len(heads) /\ j \in 1 .. Len(heads)
            /\ open[a] \in 1 .. Len(heads) /\ IsSection(open[a])
        <5>1. next \in 1 .. Len(heads) /\ open[a] \in 1 .. Len(parent)
          BY <1>1, <2>3, Lengths
        <5>2. Len(parent) <= Len(heads) /\ Len(parent) \in Nat /\ Len(heads) \in Nat
          BY Lengths
        <5>3. IsSection(open[a])
          BY DEF NestInv, OpenAreSections
        <5> QED BY <5>1, <5>2, <5>3
      <4>2. LevelOf(next) \in Nat /\ LevelOf(j) \in Nat /\ LevelOf(open[a]) \in Nat
        BY <1>1, <4>1, SectionLevels
      <4>3. LevelOf(next) <= LevelOf(j)
        BY <1>1, <2>3, <3>1, <4>2 DEF Innermost
      <4> QED BY <1>1, <4>1, <4>3 DEF Covered, IsSection, LevelOf
    <3>2. CASE a # Len(open)
      <4>0. Len(open) \in Nat \ {0} /\ Len(open') = Len(open) - 1
        BY <1>2
      <4>1. a \in 1 .. Len(open')
        BY <4>0, <3>2
      <4>2. open'[a] = open[a]
        BY <1>2, <4>1
      <4> QED BY <1>1, <2>3, <4>1, <4>2 DEF Covered, LevelOf
    <3> QED BY <3>1, <3>2
  <2> QED BY <2>1, <2>2, <2>3 DEF Covered
<1> QED BY <1>3, <1>4 DEF NestInv

\* The heart of the matter: whatever can contain the next block is not behind
\* the top of the stack.
LEMMA TopIsNearest ==
  ASSUME TypeOK, NestInv, Nesting, ~Ends,
         NEW j \in 1 .. Len(parent), CanContain(j, next)
  PROVE  open # <<>> /\ j <= Innermost
<1>1. IsSection(j) /\ Covered(j)
  BY DEF CanContain, NestInv, ClosedCovered
<1>2. j \in 1 .. Len(heads) /\ next \in 1 .. Len(heads)
  BY DEF TypeOK, Nesting
<1>3. ~(IsSection(next) /\ LevelOf(next) <= LevelOf(j))
  BY <1>1, <1>2, SectionLevels DEF CanContain
<1>4. PICK a \in 1 .. Len(open) : open[a] >= j
  BY <1>1, <1>3 DEF Covered
<1>5. open \in Seq(Nat) /\ Len(open) \in 1 .. Len(open) /\ open # <<>>
  BY <1>4 DEF TypeOK
<1>6. open[a] <= Innermost /\ open[a] \in Nat /\ Innermost \in Nat
  BY <1>4, <1>5 DEF NestInv, OpenInOrder, Innermost
<1> QED BY <1>4, <1>5, <1>6

LEMMA NestNest ==
  ASSUME TypeOK, NestInv, Nest
  PROVE  NestInv'
<1> DEFINE p == IF open = <<>> THEN 0 ELSE Innermost
<1>1. /\ Nesting /\ ~Ends /\ parent' = Append(parent, p) /\ next' = next + 1
      /\ open' = IF IsSection(next) THEN Append(open, next) ELSE open
      /\ UNCHANGED <<body, phase, owner, heads>>
  BY DEF Nest
<1>2. /\ next \in 1 .. Len(heads) /\ Len(parent) = next - 1
      /\ parent \in Seq(Nat) /\ open \in Seq(Nat) /\ p \in Nat
      /\ \A a \in 1 .. Len(open) : open[a] \in 1 .. next - 1
  <2>1. /\ next \in 1 .. Len(heads) /\ Len(parent) = next - 1
        /\ parent \in Seq(Nat) /\ open \in Seq(Nat) /\ Len(open) \in Nat
        /\ \A a \in 1 .. Len(open) : open[a] \in 1 .. next - 1
    BY <1>1, Lengths
  <2>2. p \in Nat
    BY <2>1 DEF Innermost
  <2> QED BY <2>1, <2>2
<1>3. /\ Len(parent') = next /\ parent'[next] = p
      /\ \A k \in 1 .. next - 1 : parent'[k] = parent[k]
  BY <1>1, <1>2
<1>4. /\ Len(open) \in Nat
      /\ \A a \in 1 .. Len(open) : a \in 1 .. Len(open') /\ open'[a] = open[a]
      /\ IsSection(next) => Len(open) + 1 \in 1 .. Len(open') /\ open'[Len(open) + 1] = next
      /\ \A a \in 1 .. Len(open') :
           a \in 1 .. Len(open) \/ (IsSection(next) /\ a = Len(open) + 1)
  <2>1. CASE IsSection(next)
    <3>1. open' = Append(open, next) /\ open \in Seq(Nat) /\ next \in Nat
      BY <1>1, <1>2, <2>1
    <3>2. /\ Len(open') = Len(open) + 1 /\ Len(open) \in Nat
          /\ open'[Len(open) + 1] = next
          /\ \A a \in 1 .. Len(open) : open'[a] = open[a]
      BY <3>1
    <3> QED BY <2>1, <3>2
  <2>2. CASE ~IsSection(next)
    <3>1. open' = open /\ open \in Seq(Nat)
      BY <1>1, <1>2, <2>2
    <3> QED BY <2>2, <3>1
  <2> QED BY <2>1, <2>2
<1>5. OpenInOrder'
  <2> SUFFICES ASSUME NEW a \in 1 .. Len(open'), NEW b \in 1 .. Len(open'), a < b
               PROVE  open'[a] < open'[b]
    BY DEF OpenInOrder
  <2>1. a \in 1 .. Len(open) /\ open'[a] = open[a] /\ open[a] \in 1 .. next - 1
    <3>1. a \in 1 .. Len(open)
      BY <1>4
    <3> QED BY <1>2, <1>4, <3>1
  <2>2. CASE b \in 1 .. Len(open)
    BY <1>4, <2>1, <2>2 DEF NestInv, OpenInOrder
  <2>3. CASE b \notin 1 .. Len(open)
    <3>1. IsSection(next) /\ b = Len(open) + 1
      BY <1>4, <2>3
    <3>2. open'[b] = next
      BY <1>4, <3>1
    <3>3. next \in Nat /\ open'[a] \in 1 .. next - 1
      BY <1>2, <2>1
    <3> QED BY <3>2, <3>3
  <2> QED BY <2>2, <2>3
<1>6. OpenAreSections'
  <2> SUFFICES ASSUME NEW a \in 1 .. Len(open') PROVE IsSection(open'[a])
    BY <1>1 DEF OpenAreSections, IsSection
  <2>1. CASE a \in 1 .. Len(open)
    BY <1>4, <2>1 DEF NestInv, OpenAreSections
  <2>2. CASE a \notin 1 .. Len(open)
    <3>1. IsSection(next) /\ a = Len(open) + 1 /\ open'[Len(open) + 1] = next
      BY <1>4, <2>2
    <3> QED BY <3>1
  <2> QED BY <2>1, <2>2
<1>7. ClosedCovered'
  <2>0. \A j : IsSection(j)' = IsSection(j) /\ LevelOf(j)' = LevelOf(j)
    BY <1>1 DEF IsSection, LevelOf
  <2> SUFFICES ASSUME NEW j \in 1 .. next, IsSection(j)
               PROVE  \E a \in 1 .. Len(open') :
                        open'[a] >= j /\ LevelOf(open'[a]) <= LevelOf(j)
    BY <1>3, <2>0 DEF ClosedCovered, Covered
  <2>1. j \in 1 .. Len(heads) /\ LevelOf(j) \in Nat
    BY <1>2, SectionLevels
  <2>2. CASE j = next
    BY <1>4, <2>1, <2>2
  <2>3. CASE j # next
    <3>1. Covered(j) /\ j \in 1 .. next - 1
      BY <1>2, <2>3 DEF NestInv, ClosedCovered
    <3>2. CASE IsSection(next) /\ LevelOf(next) <= LevelOf(j)
      <4>1. Len(open) + 1 \in 1 .. Len(open') /\ open'[Len(open) + 1] = next /\ next >= j
        BY <1>2, <1>4, <3>1, <3>2
      <4> QED BY <3>2, <4>1
    <3>3. ASSUME NEW a \in 1 .. Len(open), open[a] >= j, LevelOf(open[a]) <= LevelOf(j)
          PROVE  \E b \in 1 .. Len(open') :
                   open'[b] >= j /\ LevelOf(open'[b]) <= LevelOf(j)
      BY <1>4, <3>3
    <3> QED BY <3>1, <3>2, <3>3 DEF Covered
  <2> QED BY <2>2, <2>3
<1>8. p # 0 => p < next /\ CanContain(p, next)
  <2> SUFFICES ASSUME p # 0 PROVE p < next /\ CanContain(p, next)
    OBVIOUS
  <2>1. /\ open # <<>> /\ p = Innermost /\ Len(open) \in 1 .. Len(open)
        /\ p \in 1 .. next - 1
    BY <1>2, <1>4 DEF Innermost
  <2>2. IsSection(p) /\ p \in 1 .. Len(heads)
    BY <1>2, <2>1 DEF NestInv, OpenAreSections, Innermost
  <2>3. IsSection(next) => LevelOf(p) < LevelOf(next)
    BY <1>1, <1>2, <2>1, <2>2, SectionLevels DEF Ends
  <2> QED BY <1>2, <2>1, <2>2, <2>3 DEF CanContain
<1>9. \A j \in 1 .. next - 1 : CanContain(j, next) => j <= p
  BY <1>1, <1>2, TopIsNearest
<1>10. NearestOuter'
  <2> SUFFICES ASSUME NEW k \in 1 .. next
               PROVE  /\ parent'[k] # 0 => parent'[k] < k /\ CanContain(parent'[k], k)
                      /\ \A j \in 1 .. k - 1 : CanContain(j, k) => j <= parent'[k]
    BY <1>1, <1>3 DEF NearestOuter, CanContain, IsSection, LevelOf
  <2>1. CASE k = next
    BY <1>3, <1>8, <1>9, <2>1
  <2>2. CASE k # next
    <3>1. k \in 1 .. Len(parent) /\ parent'[k] = parent[k]
      BY <1>2, <1>3, <2>2
    <3> QED BY <3>1 DEF NestInv, NearestOuter
  <2> QED BY <2>1, <2>2
<1> QED BY <1>5, <1>6, <1>7, <1>10 DEF NestInv

LEMMA NestNext == TypeOK /\ NestInv /\ [Next]_vars => NestInv'
<1> SUFFICES ASSUME TypeOK, NestInv, [Next]_vars PROVE NestInv'
  OBVIOUS
<1>1. CASE Drop \/ Join \/ Keep \/ Merged
  <2>1. open' = <<>> /\ parent' = <<>>
    BY <1>1 DEF Drop, Join, Keep, Merged, Merging, TypeOK
  <2> QED BY <2>1 DEF NestInv, OpenInOrder, OpenAreSections, ClosedCovered, NearestOuter
<1>2. CASE Close
  BY <1>2, CloseNest
<1>3. CASE Nest
  BY <1>3, NestNest
<1>4. CASE Finish \/ UNCHANGED vars
  <2>1. UNCHANGED <<body, next, heads, open, parent>>
    BY <1>4 DEF Finish, vars
  <2> QED BY <2>1 DEF NestInv, OpenInOrder, OpenAreSections, ClosedCovered, Covered,
                      NearestOuter, CanContain, IsSection, LevelOf
<1> QED BY <1>1, <1>2, <1>3, <1>4 DEF Next

\* Every section is under the nearest section before it of a lower level, every
\* other block under the nearest section before it: _nest_sections computes the
\* previous smaller element.
THEOREM SectionsNearest == Spec => []NearestOuter
<1>1. NestInv => NearestOuter BY DEF NestInv
<1> QED BY <1>1, TypeCorrect, NestInit, NestNext, PTL DEF Spec

-----------------------------------------------------------------------------
(* Reading order is a consequence.                                         *)

LEMMA NearestIsOrdered == TypeOK /\ NearestOuter => ReadingOrder
<1> SUFFICES ASSUME TypeOK, NearestOuter,
                    NEW k \in 1 .. Len(parent), NEW i \in parent[k] + 1 .. k - 1
             PROVE  parent[i] >= parent[k]
  BY DEF ReadingOrder
<1>1. /\ parent \in Seq(Nat) /\ Len(parent) <= Len(heads) /\ Len(parent) \in Nat
      /\ Len(heads) \in Nat
  BY Lengths
<1>2. parent[k] \in Nat /\ i \in 1 .. Len(parent) /\ i < k /\ parent[k] < i
  BY <1>1
<1>3. CASE parent[k] = 0
  BY <1>1, <1>2, <1>3
<1>4. CASE parent[k] # 0
  <2>1. /\ parent[k] \in 1 .. i - 1 /\ IsSection(parent[k])
        /\ IsSection(k) => LevelOf(parent[k]) < LevelOf(k)
    BY <1>1, <1>2, <1>4 DEF NearestOuter, CanContain
  <2>2. CanContain(parent[k], i) => parent[k] <= parent[i]
    BY <1>1, <1>2, <2>1 DEF NearestOuter
  <2>3. ASSUME ~CanContain(parent[k], i) PROVE FALSE
    <3>1. IsSection(i) /\ ~(LevelOf(parent[k]) < LevelOf(i))
      BY <2>1, <2>3 DEF CanContain
    <3>2. ~CanContain(i, k)
      BY <1>1, <1>2 DEF NearestOuter
    <3>3. IsSection(k) /\ ~(LevelOf(i) < LevelOf(k))
      BY <3>1, <3>2 DEF CanContain
    <3>4. /\ LevelOf(i) \in Nat /\ LevelOf(k) \in Nat /\ LevelOf(parent[k]) \in Nat
      BY SMTT(30), <1>1, <1>2, <2>1, <3>1, <3>3, SectionLevels
    <3> QED BY <2>1, <3>1, <3>3, <3>4
  <2> QED BY <1>1, <1>2, <2>2, <2>3
<1> QED BY <1>3, <1>4

\* The tree, read from top to bottom, is the text.
THEOREM TreeInOrder == Spec => []ReadingOrder
  BY TypeCorrect, SectionsNearest, NearestIsOrdered, PTL
=============================================================================
