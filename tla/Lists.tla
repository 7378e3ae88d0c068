-------------------------------- MODULE Lists --------------------------------
(***************************************************************************)
(* From the flat items of lists to the tree: _nest_list_items of           *)
(* block_transformer.py puts the items of a list under each other by their *)
(* levels, and resolve_list_continuations of lark_parser.py then goes      *)
(* through the blocks of a document, section or item once, attaches what   *)
(* follows a "+" to a list item and joins lists that became neighbours.    *)
(*                                                                         *)
(* The lists that an item holds are not kept apart from each other: the    *)
(* children of an item are its sub-items and the blocks attached to it.    *)
(* The blocks inside a block are another collection, treated the same way  *)
(* by resolve_block_internals, and neither one sees the other.             *)
(***************************************************************************)
EXTENDS Naturals, Sequences, FiniteSets, SequencesExt

CONSTANTS
  None,
  Markers,    \* variant and marker of a list
  Sources     \* sequences of blocks, with paragraphs as they are written

Block == [kind : {"list"}, marker : Markers, meta : BOOLEAN, levels : Seq(Nat) \ {<<>>}]
         \cup [kind : {"plus", "other"}]
         \cup [kind : {"joint"}, lines : Seq({"text", "plus"})]

VARIABLES
  doc,        \* the blocks
  next,       \* the block, and the item in it, to be nested next
  stack,      \* levels of the lists that are open, with their last items
  i,          \* the block to be looked at next
  resolved,   \* the blocks of the result
  kids,       \* what is directly under a block or item, in order
  active      \* last_active_item

vars == <<doc, next, stack, i, resolved, kids, active>>

-----------------------------------------------------------------------------
\* A "+" line in a paragraph divides it, unless the line before it did.
Divides(lines) ==
  LET divides[n \in Nat] == n > 0 /\ lines[n] = "plus" /\ ~divides[n - 1]
  IN  {n \in 1 .. Len(lines) : divides[n]}

\* split_continuation_paragraphs.  A "+" that only ends a paragraph is text, and
\* a piece that is nothing but "+" counts as one.
Split(lines) ==
  LET D        == Divides(lines)
      begins(n) == n \notin D /\ (n = 1 \/ n - 1 \in D)
      alone(n)  == begins(n) /\ lines[n] = "plus" /\ (n = Len(lines) \/ n + 1 \in D)
      piece(n)  == IF n \in D \/ alone(n) THEN <<[kind |-> "plus"]>>
                   ELSE IF begins(n) THEN <<[kind |-> "other"]>> ELSE <<>>
  IN  IF lines = <<"plus">> \/ \E n \in 1 .. Len(lines) - 1 : lines[n] = "plus"
        THEN FlattenSeq([n \in 1 .. Len(lines) |-> piece(n)])
        ELSE <<[kind |-> "other"]>>

Expanded(blocks) ==
  FlattenSeq([n \in 1 .. Len(blocks) |->
    IF blocks[n].kind = "joint" THEN Split(blocks[n].lines) ELSE <<blocks[n]>>])

\* The pieces of a divided paragraph are blocks, as all the others are.
ASSUME SourceAssumption == \A source \in Sources : Expanded(source) \in Seq(Block)

\* None is no block and no item.
ASSUME NoneAssumption == None \notin Nat \X Nat

\* A node is a block <<b, 0>> or the k-th item <<b, k>> of a list.
IsList(b) == doc[b].kind = "list"
Items(b)  == IF IsList(b) THEN {b} \X (1 .. Len(doc[b].levels)) ELSE {}
Nodes     == UNION {{<<b, 0>>} \cup Items(b) : b \in 1 .. Len(doc)}

Under(x, y) == [kids EXCEPT ![x] = Append(@, y)]

-----------------------------------------------------------------------------
\* Mutation of Open: no more than one list is closed.
Open_One(level) == IF stack # <<>> /\ level < Last(stack).level THEN Front(stack) ELSE stack

\* What the while loop leaves on the stack, which it pops from the end.
Open(level) ==
  SubSeq(stack, 1, Max({0} \cup {n \in 1 .. Len(stack) : stack[n].level <= level}))

\* One item of _nest_list_items: a list of its own at the root, the first of a
\* list under the last item of the open list, or one more of that list.
NestItem ==
  /\ next[1] <= Len(doc) /\ IsList(next[1])
  /\ LET b     == next[1]
         level == doc[b].levels[next[2]]
         open  == Open(level)
         same  == open # <<>> /\ Last(open).level = level
         outer == IF same THEN Front(open) ELSE open
     IN  /\ kids' = Under(IF outer = <<>> THEN <<b, 0>> ELSE Last(outer).last, next)
         /\ IF next[2] = Len(doc[b].levels)
              THEN next' = <<b + 1, 1>> /\ stack' = <<>>
              ELSE /\ next' = <<b, next[2] + 1>>
                   /\ stack' = Append(outer, [level |-> level, last |-> next])
  /\ UNCHANGED <<doc, i, resolved, active>>

PassOver ==
  /\ next[1] <= Len(doc) /\ ~IsList(next[1])
  /\ next' = <<next[1] + 1, 1>>
  /\ UNCHANGED <<doc, stack, i, resolved, kids, active>>

-----------------------------------------------------------------------------
\* Mutation of Deepest: the first item of a list is taken.
Deepest_First(x) ==
  LET deepest[y \in Nodes] ==
        LET down == IF kids[y] = <<>> THEN None ELSE deepest[Head(kids[y])]
        IN  IF down = None /\ y[2] > 0 THEN y ELSE down
  IN  deepest[x]

\* find_deepest_active_list_item: None for what is neither a list nor an item.
Deepest(x) ==
  LET deepest[y \in Nodes] ==
        LET down == IF kids[y] = <<>> THEN None ELSE deepest[Last(kids[y])]
        IN  IF down = None /\ y[2] > 0 THEN y ELSE down
  IN  deepest[x]

Resolving == next[1] > Len(doc) /\ i <= Len(doc)

\* The item that a "+" continues, if there is one and something follows.
Continued == IF active # None THEN active
             ELSE IF resolved # <<>> THEN Deepest(Last(resolved)) ELSE None

Attaches == doc[i].kind = "plus" /\ i < Len(doc) /\ Continued # None

\* The block after the "+" is attached, whatever it is.
Continue ==
  /\ Resolving /\ Attaches
  /\ kids' = Under(Continued, <<i + 1, 0>>)
  /\ active' = Continued
  /\ i' = i + 2
  /\ UNCHANGED <<doc, next, stack, resolved>>

Joins == /\ IsList(i) /\ ~doc[i].meta
         /\ resolved # <<>> /\ IsList(Last(resolved)[1])
         /\ doc[Last(resolved)[1]].marker = doc[i].marker

\* Its items go to the list that is already in the result.
Join ==
  /\ Resolving /\ ~Attaches /\ Joins
  /\ kids' = [kids EXCEPT ![Last(resolved)] = @ \o kids[<<i, 0>>], ![<<i, 0>>] = <<>>]
  /\ active' = Deepest(<<i, 0>>)
  /\ i' = i + 1
  /\ UNCHANGED <<doc, next, stack, resolved>>

\* Any other block, a "+" that continues nothing among them.
Keep ==
  /\ Resolving /\ ~Attaches /\ ~Joins
  /\ resolved' = Append(resolved, <<i, 0>>)
  /\ active' = IF IsList(i) THEN Deepest(<<i, 0>>) ELSE active
  /\ i' = i + 1
  /\ UNCHANGED <<doc, next, stack, kids>>

Init ==
  /\ \E source \in Sources : doc = Expanded(source)
  /\ next = <<1, 1>> /\ stack = <<>> /\ i = 1 /\ resolved = <<>>
  /\ kids = [x \in Nodes |-> <<>>] /\ active = None

Next == NestItem \/ PassOver \/ Continue \/ Join \/ Keep

Spec == Init /\ [][Next]_vars

-----------------------------------------------------------------------------
Done == next[1] > Len(doc) /\ i > Len(doc)

\* Types; items are only under lists and items, and the open lists ascend.
TypeOK ==
  /\ doc \in Seq(Block) /\ i \in 1 .. Len(doc) + 1 /\ active \in Nodes \cup {None}
  /\ resolved \in Seq(Nodes) /\ kids \in [Nodes -> Seq(Nodes)]
  /\ \A x \in Nodes : x[2] = 0 /\ ~IsList(x[1]) => kids[x] = <<>>
  /\ \A m, n \in 1 .. Len(stack) : m < n => stack[m].level < stack[n].level

\* However the levels of a list jump, an item is under the nearest item before
\* it with a lower level, or directly in the list (_nest_list_items).
NestedUnderNearest ==
  \A b \in 1 .. Len(doc) : IsList(b) /\ next[1] > b =>
    \A k \in 1 .. Len(doc[b].levels) :
      LET lower == {j \in 1 .. k - 1 : doc[b].levels[j] < doc[b].levels[k]}
      IN  \A j \in 1 .. Len(doc[b].levels) :
            <<b, k>> \in Range(kids[<<b, j>>])
              <=> j \in lower /\ \A m \in lower : m <= j

\* A block attached by a "+" hangs under the very last item of the last list
\* before it that is not attached itself, however many blocks and continuations
\* are between, and whether that list was joined to another or not.
Attached == {b \in 1 .. Len(doc) : \E x \in Nodes : x[2] > 0 /\ <<b, 0>> \in Range(kids[x])}
AttachedToLastItem ==
  LET attached == Attached
      own      == {c \in 1 .. Len(doc) : IsList(c) /\ c \notin attached}
  IN  \A b \in attached : \E c \in own :
        /\ <<b, 0>> \in Range(kids[<<c, Len(doc[c].levels)>>])
        /\ c < b /\ \A d \in own : d <= c \/ d > b

\* The text from top to bottom.
Reading ==
  LET read[x \in Nodes] ==
        <<x>> \o FlattenSeq([k \in 1 .. Len(kids[x]) |-> read[kids[x][k]]])
  IN  FlattenSeq([k \in 1 .. Len(resolved) |-> read[resolved[k]]])

Precedes(x, y) == x[1] < y[1] \/ (x[1] = y[1] /\ x[2] < y[2])

\* Nothing but a "+" that attached something is lost, and nothing is there
\* twice.  Text comes in the order it was written, but for what a "+" carries
\* back to a list over the blocks that were kept since, and these are no lists.
OrderKept ==
  Done =>
    LET text     == Reading
        attached == Attached
        kept     == Range(resolved)
    IN  /\ IsInjective(text)
        /\ \A x \in Nodes \ Range(text) :
             \/ doc[x[1]].kind = "plus" /\ x[1] + 1 \in attached
             \/ IsList(x[1]) /\ x[2] = 0 /\ x \notin kept
        /\ \A m, n \in 1 .. Len(text) :
             m < n /\ Precedes(text[n], text[m]) =>
               text[m][1] \in attached /\ text[n] \in kept /\ ~IsList(text[n][1])

\* What "+" attaches goes to the last item, and nothing else moves
\* (lark_parser.py:1279-1345).
AttachedInOrder == AttachedToLastItem /\ OrderKept
=============================================================================
