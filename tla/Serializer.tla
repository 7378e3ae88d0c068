----------------------------- MODULE Serializer -----------------------------
(***************************************************************************)
(* AsciiDocSerializerVisitor of serializer.py: the text of a tree, line by *)
(* line.  Inlines are one piece of text, the words of attributes are left  *)
(* out.                                                                    *)
(*                                                                         *)
(* The children of a node come to its visitor as they are written, a       *)
(* sequence of lines for each of them.                                     *)
(***************************************************************************)
EXTENDS AstTree

Fence(n) == <<"fence", Mark(KindOf(n)), ast[n].opt.len>>
Line(what) == <<<<what>>>>
If(condition, lines) == IF condition THEN lines ELSE <<>>

\* The attributes of a block have an id, when the family has anchors.
Anchored(n) ==
  family.named /\ n > 1 /\ Free(ast[n].in) /\ KindOf(n) \in Blocks \cup {"section"}
  /\ KindOf(n) \notin {"thematic_break", "toc", "image", "attribute_entry"}

-----------------------------------------------------------------------------
\* The attribute list of a block, as far as it tells what block this is.
StyleOf(n) ==
  CASE KindOf(n) \in {"verse", "collapsible"}                       -> KindOf(n)
    [] KindOf(n) = "quote" /\ ast[n].opt.tag = "attribution"        -> "quote"
    [] OTHER                                                      -> "none"

\* write_block_metadata: anchor, title, attributes.
Metadata(n) ==
  If(Anchored(n), Line("id")) \o If(Has(n, "title"), Line("title"))
  \o If(StyleOf(n) # "none", <<<<"style", StyleOf(n)>>>>)

\* Mutation of WriteDocument: there is an empty line only after the header.
WriteDocument_Joined(blocks) ==
  If(Has(1, "title"), Line("header") \o Line("blank")) \o FlattenSeq(blocks)

\* visit_document and visit_header.
WriteDocument(blocks) ==
  If(Has(1, "title"), Line("header"))
  \o FlattenSeq([i \in DOMAIN blocks |->
       If(i > 1 \/ Has(1, "title"), Line("blank")) \o blocks[i]])

\* How many sections a section is in, itself among them.
Level == LET level[n \in Nodes] == IF KindOf(n) = "section" THEN level[ast[n].in] + 1 ELSE 0
         IN  level

\* visit_section.  The title of a section is metadata as well.
WriteSection(n, blocks) ==
  Metadata(n) \o <<<<"section", Level[n]>>>>
  \o FlattenSeq([i \in DOMAIN blocks |-> Line("blank") \o blocks[i]])

\* visit_heading.
WriteHeading(n) == If(Anchored(n), Line("id")) \o <<<<"style", "discrete">>>> \o Line("heading")

\* visit_paragraph.
WriteParagraph(n) == Metadata(n) \o Line("text")

\* visit_listing, visit_literal: what is between the delimiters is no matter.
WriteVerbatim(n) == Metadata(n) \o Line("verbatim")

\* The visitors of sidebars, examples, quotes, verses, collapsible and open
\* blocks: the blocks follow each other without an empty line.
WriteBox(n, blocks) ==
  LET inner == FlattenSeq(blocks)
  IN  Metadata(n) \o IF ast[n].opt.len = 0 THEN inner ELSE <<Fence(n)>> \o inner \o <<Fence(n)>>

\* visit_admonition: no metadata.  The text of the first block is on its line.
WriteAdmonition(n, blocks) ==
  IF ast[n].opt.len > 0
    THEN <<<<"style", "admonition">>, Fence(n)>> \o FlattenSeq(blocks) \o <<Fence(n)>>
    ELSE Line("note") \o FlattenSeq([i \in 1 .. Len(blocks) - 1 |-> Line("plus") \o blocks[i + 1]])

\* The level of the list of an item: the marker tells it.
Depth == LET depth[n \in Nodes] ==
               IF KindOf(n) # "listItem" THEN 0 ELSE 1 + depth[ast[ast[n].in].in]
         IN  depth

\* visit_listitem and visit_calloutlistitem: a list in an item follows it, every
\* other block after a "+".
WriteItem(n, blocks) ==
  <<<<"item", Depth[n]>>>>
  \o FlattenSeq([i \in DOMAIN blocks |->
       If(KindOf(Kids(n, "blocks")[i]) # "list", Line("plus")) \o blocks[i]])

\* visit_descriptionlistitem.
WriteDefinition(terms, blocks) ==
  FlattenSeq(terms)
  \o FlattenSeq([i \in DOMAIN blocks |-> If(i > 1, Line("plus")) \o blocks[i]])

\* visit_descriptionlistterm: the definition begins on the next line.
WriteTerm == Line("term")

\* visit_list and the other lists.
WriteList(n, items) == Metadata(n) \o FlattenSeq(items)

\* visit_table.
TableFence == <<"fence", "|", 3>>
WriteTable(n, rows) == Metadata(n) \o <<TableFence>> \o FlattenSeq(rows) \o <<TableFence>>

\* visit_row and visit_cell: blocks are two empty lines apart.
WriteCell(n, blocks) ==
  LET row   == Kids(ast[n].in, "cells")
      first == n = row[1] \/ ~Short(row[CHOOSE i \in DOMAIN row : row[i + 1] = n])
  IN  <<<<"cell", IF first THEN "new line" ELSE "same line">>>>
      \o FlattenSeq([i \in DOMAIN blocks |-> If(i > 1, Line("blank")) \o blocks[i]])

\* The visitors of breaks, attribute entries and block macros: one line, without
\* metadata.
WriteMacro(kind) == Line(kind)

\* visit of NodeVisitor: the visitor of every kind.
Written[n \in Nodes] ==
  LET lines(part) == LET kids == Kids(n, part) IN [i \in DOMAIN kids |-> Written[kids[i]]]
      kind == KindOf(n)
  IN  CASE kind = "document"                        -> WriteDocument(lines("blocks"))
        [] kind = "section"                         -> WriteSection(n, lines("blocks"))
        [] kind = "heading"                         -> WriteHeading(n)
        [] kind = "paragraph"                       -> WriteParagraph(n)
        [] kind \in {"listing", "literal"}          -> WriteVerbatim(n)
        [] kind = "admonition"                      -> WriteAdmonition(n, lines("blocks"))
        [] kind \in Boxes \ {"admonition"}          -> WriteBox(n, lines("blocks"))
        [] kind \in ListKinds                       -> WriteList(n, lines("items"))
        [] kind \in {"listItem", "calloutListItem"} -> WriteItem(n, lines("blocks"))
        [] kind = "descriptionListItem"             -> WriteDefinition(lines("terms"), lines("blocks"))
        [] kind = "descriptionListTerm"             -> WriteTerm
        [] kind = "table"                           -> WriteTable(n, lines("rows"))
        [] kind = "row"                             -> FlattenSeq(lines("cells"))
        [] kind = "cell"                            -> WriteCell(n, lines("blocks"))
        [] OTHER                                    -> WriteMacro(kind)
=============================================================================
