------------------------------ MODULE AstTree ------------------------------
(***************************************************************************)
(* The tree of nodes.py as its visitors meet it: numbered in the order in  *)
(* which a walk comes to the nodes, node 1 the document.  A node has a     *)
(* kind, the node above it, the part of that node it belongs to and what   *)
(* the visitors read of its attributes.  The tree is chosen while it is    *)
(* walked, so that the behaviours of a walk are its runs over every tree   *)
(* that the grammar has a text for.                                        *)
(***************************************************************************)
EXTENDS Naturals, Sequences, FiniteSets, SequencesExt

\* A family is what the documents of a run are made of: the kinds of nodes, how
\* many nodes there are at most, and whether blocks have an anchor of their own.
CONSTANT Families

VARIABLES
  family,     \* the family of this document
  ast         \* the tree, as far as it has been walked

\* The children of these are blocks.
Boxes == {"admonition", "collapsible", "example", "open", "quote", "sidebar", "verse"}

\* Nodes without children that a visitor looks at.
LeafBlocks  == {"listing", "literal", "image", "thematic_break", "toc", "attribute_entry"}
LeafInlines == {"text", "callout"}

ListKinds == {"list", "calloutList", "descriptionList"}
Blocks    == Boxes \cup LeafBlocks \cup ListKinds \cup {"heading", "paragraph", "table"}
Inlines   == LeafInlines \cup {"span", "ref", "indexterm"}
Kinds     == Blocks \cup Inlines \cup
             {"document", "section", "listItem", "calloutListItem", "descriptionListItem",
              "descriptionListTerm", "row", "cell"}

\* The parts of the children of a list and of its items.
ListParts(kind) ==
  CASE kind \in ListKinds                                    -> <<"items">>
    [] kind \in {"listItem", "calloutListItem"}              -> <<"principal", "blocks">>
    [] kind = "descriptionListItem"                          -> <<"terms", "blocks">>
    [] kind = "descriptionListTerm"                          -> <<"inlines">>

TableParts(kind) ==
  CASE kind = "table" -> <<"rows">>
    [] kind = "row"   -> <<"cells">>
    [] kind = "cell"  -> <<"blocks">>

\* The children of a node part by part, in the order the visitors take them.
Parts(kind) ==
  CASE kind \in {"document", "section", "sidebar", "collapsible"} -> <<"title", "blocks">>
    [] kind \in Boxes \ {"sidebar", "collapsible"}                -> <<"blocks">>
    [] kind = "heading"                                           -> <<"title">>
    [] kind \in {"paragraph", "span", "ref", "indexterm"}         -> <<"inlines">>
    [] kind \in {"table", "row", "cell"}                          -> TableParts(kind)
    [] kind \in LeafBlocks \cup LeafInlines                       -> <<>>
    [] OTHER                                                      -> ListParts(kind)

PartNames == {"root", "title", "blocks", "inlines", "items", "principal", "terms", "rows", "cells"}

-----------------------------------------------------------------------------
\* A delimiter: the characters, and how many of them.  No other line looks so.
Mark(kind) ==
  CASE kind \in {"admonition", "collapsible", "example"} -> "="
    [] kind \in {"quote", "verse"}                       -> "_"
    [] kind = "sidebar"                                  -> "*"
    [] kind = "open"                                     -> "--"

\* What else a node has: how long its delimiter was in the text and is in the
\* node (0 is a block without), and a tag.
Opt(was, len, tag) == [was |-> was, len |-> len, tag |-> tag]
Plain == Opt(0, 0, "none")

\* An admonition made of an example by attributed_block, and a collapsible, do
\* not take the delimiter over.
Lengths(kind) ==
  CASE kind = "admonition"  -> {<<0, 0>>, <<5, 5>>, <<5, 4>>}
    [] kind = "collapsible" -> {<<5, 4>>}
    [] kind = "verse"       -> {<<0, 0>>, <<4, 4>>}
    [] OTHER                -> {<<4, 4>>}

\* The style of a cell, the attribution of a quote, the box of an item to check.
Options(kind) ==
  CASE kind = "cell"      -> {Opt(0, 0, s) : s \in {"none", "strong", "emphasis"}}
    [] kind = "listItem"  -> {Plain, Opt(0, 0, "checkbox")}
    [] kind = "quote"     -> {Opt(4, 4, t) : t \in {"none", "attribution"}}
    [] kind \in Boxes \ {"quote"} -> {Opt(l[1], l[2], "none") : l \in Lengths(kind)}
    [] OTHER              -> {Plain}

-----------------------------------------------------------------------------
Nodes     == 1 .. Len(ast)
KindOf(n) == ast[n].kind
Kids(n, part) == SetToSortSeq({m \in Nodes : ast[m].in = n /\ ast[m].part = part}, <)
Has(n, part) == \E m \in Nodes : ast[m].in = n /\ ast[m].part = part

\* Blocks of the document, of a section or attached to an item have metadata,
\* those inside of a delimited block or of a cell do not.
Free(n) == KindOf(n) \in {"document", "section", "listItem"}

\* What a delimited block may hold.
InBoxes == {"paragraph", "listing", "literal", "admonition", "example", "sidebar", "quote"}
           \cup ListKinds

\* The item of a list is of the list's own kind.
ItemKind == [list |-> "listItem", calloutList |-> "calloutListItem",
             descriptionList |-> "descriptionListItem"]

\* What the grammar has in a part of node n.
Fits(kind, n, part) ==
  LET under == KindOf(n) IN
  \/ part \in {"principal", "inlines"} /\ kind \in Inlines
  \/ part = "title"  /\ kind \in Inlines /\ (n > 1 => Free(ast[n].in))
  \/ part = "blocks" /\ kind \in Blocks /\ (Free(n) \/ kind \in InBoxes)
                     /\ under # "calloutListItem"
  \/ part = "blocks" /\ kind = "section" /\ under \in {"document", "section"}
  \/ part = "items"  /\ kind = ItemKind[under]
  \/ part = "terms"  /\ kind = "descriptionListTerm"
  \/ part = "rows"   /\ kind = "row"
  \/ part = "cells"  /\ kind = "cell"

\* A cell with one paragraph, or with nothing, does not end its line.
Short(n) == LET blocks == Kids(n, "blocks")
            IN  blocks = <<>> \/ (Len(blocks) = 1 /\ KindOf(blocks[1]) = "paragraph")

\* A paragraph that became an admonition or a verse is all there is in it; an
\* item has one list or what is attached to it; the first row of a table is on
\* one line, which tells how many cells the others have (block_transformer.py).
Fills(kind, n, part) ==
  LET others == Kids(n, part)
      rows   == Kids(ast[n].in, "rows")
  IN  /\ KindOf(n) \in Boxes /\ ast[n].opt.len = 0 => kind = "paragraph" /\ others = <<>>
      /\ part = "blocks" /\ KindOf(n) = "listItem" =>
           IF kind = "list" THEN others = <<>>
                            ELSE \A i \in DOMAIN others : KindOf(others[i]) # "list"
      /\ kind = "row" /\ others # <<>> =>
           Len(Kids(Last(others), "cells")) = Len(Kids(Head(others), "cells"))
      /\ kind = "cell" => IF Len(rows) > 1 THEN Len(others) < Len(Kids(Head(rows), "cells"))
                                           ELSE \A i \in DOMAIN others : Short(others[i])

\* What attributed_block makes of an example has metadata before it.
Made(opt, n) == opt.was # opt.len => Free(n)

\* A delimiter closes the innermost block that was opened by its like.
Closable(kind, opt, around) ==
  kind \in Boxes => \A n \in around :
    KindOf(n) \in Boxes => <<Mark(KindOf(n)), ast[n].opt.was>> # <<Mark(kind), opt.was>>

\* A list has an item, an item of definitions a term and a definition, a row a
\* cell; and what was a paragraph has its text.
Whole(n, part) ==
  \/ part \in {"items", "terms", "rows", "cells"}
  \/ part = "blocks" /\ KindOf(n) = "descriptionListItem"
  \/ part = "blocks" /\ KindOf(n) \in Boxes /\ ast[n].opt.len = 0
  => Has(n, part)

\* One more child of node n, with the nodes around it.
Grow(kind, opt, n, part, around) ==
  /\ Len(ast) < family.nodes
  /\ kind \in family.kinds /\ opt \in Options(kind)
  /\ Fits(kind, n, part) /\ Fills(kind, n, part) 
  /\ Closable(kind, opt, around) /\ Made(opt, n)
  /\ ast' = Append(ast, [kind |-> kind, in |-> n, part |-> part, opt |-> opt])
  /\ UNCHANGED family

StartTree ==
  /\ family \in Families
  /\ ast = <<[kind |-> "document", in |-> 0, part |-> "root", opt |-> Plain]>>
=============================================================================
