---------------------------- MODULE DocumentBody ----------------------------
(***************************************************************************)
(* _finalize_document_blocks of lark_parser.py: the flat list of blocks    *)
(* that the grammar delivers becomes the body of a document.  Children     *)
(* that are not blocks are dropped, lists of one variant that follow each  *)
(* other become one list (_merge_consecutive_lists), and every block goes  *)
(* under the section it belongs to (_nest_sections).                       *)
(*                                                                         *)
(* A block is its kind, the level of a section, and the variant of a list  *)
(* with its has_metadata; "description" and "callout" stand for the two    *)
(* list classes that have no variant and merge with their own kind.        *)
(* The trees are never built: owner says which merged block an input block *)
(* is part of, and parent which section a merged block was appended to.    *)
(***************************************************************************)
EXTENDS Naturals, Sequences

CONSTANTS
  Levels,     \* section levels
  Variants,   \* list variants
  Bodies      \* the flat lists of blocks to start from

Block ==
       [kind : {"section"}, level : Levels]
  \cup [kind : {"list"}, variant : Variants, meta : BOOLEAN]
  \cup [kind : {"leaf", "token"}]

ASSUME BodyAssumption == Levels \subseteq Nat /\ Bodies \subseteq Seq(Block)

VARIABLES
  body,     \* the list of blocks
  phase,    \* "merge", "nest" or "done"
  next,     \* the block to be looked at: of body, then of the merged list
  owner,    \* owner[i]: the merged block that body[i] is part of, 0 if dropped
  heads,    \* heads[k]: the first block of merged block k
  open,     \* stack: the sections that blocks can still be appended to
  parent    \* parent[k]: the section of merged block k, 0 for the document

vars == <<body, phase, next, owner, heads, open, parent>>

Init == /\ body \in Bodies
        /\ phase = "merge" /\ next = 1
        /\ owner = <<>> /\ heads = <<>> /\ open = <<>> /\ parent = <<>>

-----------------------------------------------------------------------------
(* Merging                                                                 *)

Merging == phase = "merge" /\ next <= Len(body)

\* A child that is not a BlockNode, as a token or an inline node is not.
Drop == /\ Merging /\ body[next].kind = "token"
        /\ owner' = Append(owner, 0)
        /\ next' = next + 1
        /\ UNCHANGED <<body, phase, heads, open, parent>>

\* Mutation of Joins: a list with attributes or a title of its own is merged.
Joins_IgnoresMeta ==
  /\ body[next].kind = "list" /\ heads # <<>>
  /\ LET previous == body[heads[Len(heads)]]
     IN  previous.kind = "list" /\ previous.variant = body[next].variant

\* A list without metadata, after a list of its variant.
Joins == /\ body[next].kind = "list" /\ ~body[next].meta /\ heads # <<>>
         /\ LET previous == body[heads[Len(heads)]]
            IN  previous.kind = "list" /\ previous.variant = body[next].variant

\* The items go to the previous list, which keeps its own metadata.
Join == /\ Merging /\ body[next].kind # "token" /\ Joins
        /\ owner' = Append(owner, Len(heads))
        /\ next' = next + 1
        /\ UNCHANGED <<body, phase, heads, open, parent>>

Keep == /\ Merging /\ body[next].kind # "token" /\ ~Joins
        /\ owner' = Append(owner, Len(heads) + 1)
        /\ heads' = Append(heads, next)
        /\ next' = next + 1
        /\ UNCHANGED <<body, phase, open, parent>>

Merged == /\ phase = "merge" /\ next = Len(body) + 1
          /\ phase' = "nest" /\ next' = 1
          /\ UNCHANGED <<body, owner, heads, open, parent>>

-----------------------------------------------------------------------------
(* Nesting                                                                 *)

IsSection(k) == body[heads[k]].kind = "section"
LevelOf(k)   == body[heads[k]].level
Innermost    == open[Len(open)]

Nesting == phase = "nest" /\ next <= Len(heads)

\* Mutation of Ends: a section of the same level stays open.
Ends_DeeperOnly == open # <<>> /\ IsSection(next) /\ LevelOf(Innermost) > LevelOf(next)

\* The block is a section that the innermost open section cannot contain.
Ends == open # <<>> /\ IsSection(next) /\ LevelOf(Innermost) >= LevelOf(next)

\* Mutation of Close: the section is lost when it ends another one.
Close_Loses == /\ Nesting /\ Ends
               /\ open' = SubSeq(open, 1, Len(open) - 1)
               /\ next' = next + 1
               /\ UNCHANGED <<body, phase, owner, heads, parent>>

Close == /\ Nesting /\ Ends
         /\ open' = SubSeq(open, 1, Len(open) - 1)
         /\ UNCHANGED <<body, phase, next, owner, heads, parent>>

\* Mutation of Nest: other blocks go to the outermost open section.
Nest_Outermost ==
  /\ Nesting /\ ~Ends
  /\ parent' = Append(parent, IF open = <<>> THEN 0
                              ELSE IF IsSection(next) THEN Innermost ELSE open[1])
  /\ open' = IF IsSection(next) THEN Append(open, next) ELSE open
  /\ next' = next + 1
  /\ UNCHANGED <<body, phase, owner, heads>>

Nest == /\ Nesting /\ ~Ends
        /\ parent' = Append(parent, IF open = <<>> THEN 0 ELSE Innermost)
        /\ open' = IF IsSection(next) THEN Append(open, next) ELSE open
        /\ next' = next + 1
        /\ UNCHANGED <<body, phase, owner, heads>>

Finish == /\ phase = "nest" /\ next = Len(heads) + 1
          /\ phase' = "done"
          /\ UNCHANGED <<body, next, owner, heads, open, parent>>

Next == Drop \/ Join \/ Keep \/ Merged \/ Close \/ Nest \/ Finish

Spec == Init /\ [][Next]_vars

-----------------------------------------------------------------------------
(* Properties                                                              *)

\* The types of the state, and how far each list has come in each phase.
TypeOK ==
  /\ body \in Seq(Block)
  /\ phase \in {"merge", "nest", "done"}
  /\ next \in Nat \ {0}
  /\ owner \in Seq(Nat) /\ heads \in Seq(Nat)
  /\ parent \in Seq(Nat) /\ open \in Seq(Nat)
  /\ phase = "merge" => /\ next <= Len(body) + 1
                        /\ Len(owner) = next - 1 /\ parent = <<>> /\ open = <<>>
  /\ phase # "merge" => /\ next <= Len(heads) + 1
                        /\ Len(owner) = Len(body) /\ Len(parent) = next - 1
  /\ \A k \in 1 .. Len(heads) : heads[k] \in 1 .. Len(owner)
  /\ \A a \in 1 .. Len(open) : open[a] \in 1 .. Len(parent)

\* Two blocks with nothing but dropped children between them are part of one
\* list exactly when both are lists of one variant and the second has no
\* metadata of its own (CHANGELOG, lists with distinct block attributes), and
\* otherwise the second begins the next block: nothing lost, nothing moved.
Neighbours(i, j) == /\ owner[i] # 0 /\ owner[j] # 0
                    /\ \A m \in i + 1 .. j - 1 : owner[m] = 0
OneList(b, c) == /\ b.kind = "list" /\ c.kind = "list" /\ b.variant = c.variant
                 /\ ~c.meta
MergedExactly ==
  \A j \in 1 .. Len(owner) : \A i \in 1 .. j - 1 :
    Neighbours(i, j) =>
      /\ OneList(body[i], body[j]) => owner[j] = owner[i]
      /\ ~OneList(body[i], body[j]) => owner[j] = owner[i] + 1

\* A section goes under the nearest section before it of a lower level, any
\* other block under the nearest section before it.
CanContain(j, k) == IsSection(j) /\ (IsSection(k) => LevelOf(j) < LevelOf(k))
NearestOuter ==
  \A k \in 1 .. Len(parent) :
    /\ parent[k] # 0 => parent[k] < k /\ CanContain(parent[k], k)
    /\ \A j \in 1 .. k - 1 : CanContain(j, k) => j <= parent[k]

\* Reading the tree from top to bottom gives the blocks in their order: what
\* stands between a section and a block of it is in the section as well.
ReadingOrder ==
  \A k \in 1 .. Len(parent) : \A i \in parent[k] + 1 .. k - 1 :
    parent[i] >= parent[k]

-----------------------------------------------------------------------------
(* What makes the stack find the nearest section                           *)

OpenInOrder ==
  \A a, b \in 1 .. Len(open) : a < b => open[a] < open[b]

OpenAreSections == \A a \in 1 .. Len(open) : IsSection(open[a])

\* A section that is closed is behind an open one that ends it, or behind the
\* block that is just closing sections.
Covered(j) ==
  \/ \E a \in 1 .. Len(open) : open[a] >= j /\ LevelOf(open[a]) <= LevelOf(j)
  \/ next <= Len(heads) /\ IsSection(next) /\ LevelOf(next) <= LevelOf(j)

ClosedCovered == \A j \in 1 .. Len(parent) : IsSection(j) => Covered(j)
=============================================================================
