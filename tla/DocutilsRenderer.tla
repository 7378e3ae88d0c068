-------------------------- MODULE DocutilsRenderer --------------------------
(***************************************************************************)
(* DocutilsRenderer of docutils_backend.py: the walk that makes docutils   *)
(* elements of a tree.  Every visitor puts its own element into the        *)
(* variable current_node, visits what is below, hangs the element under    *)
(* the one that was there before and puts that one back; the style of a    *)
(* table cell is handed down the same way in _cell_style.  Footnotes have  *)
(* a module of their own, DocutilsFootnotes.                               *)
(*                                                                         *)
(* An element is a node of the tree and a name, "self" for the element the *)
(* visitor hangs under its caller's.                                       *)
(***************************************************************************)
EXTENDS AstTree

VARIABLES
  calls,        \* the visits under way: node, part, old_parent, old_style
  current_node,
  cell_style,   \* _cell_style
  out           \* what was hung under what, in that order

vars == <<family, ast, calls, current_node, cell_style, out>>

Self(n) == <<n, "self">>
Hang(of, to) == [of |-> of, to |-> to]

Top     == calls[Len(calls)]
KindNow == KindOf(Top.node)
PartNow == Parts(KindNow)[Top.at]

-----------------------------------------------------------------------------
\* The element current while a part of a node is visited, if it has one of its
\* own; outer is current_node when the visitor is called.

\* visit_document: a title makes a section around everything.
InDocument(n, part) ==
  CASE part = "title" -> <<n, "title">>
    [] OTHER -> IF Has(n, "title") THEN <<n, "root section">> ELSE Self(n)

\* visit_section.
InSection(n, part) == IF part = "title" THEN <<n, "title">> ELSE Self(n)

\* visit_heading: the text is directly in the rubric.
InHeading(n) == Self(n)

\* visit_paragraph: the style of the cell makes an element around the text.
InParagraph(n) == IF cell_style # "none" THEN <<n, cell_style>> ELSE Self(n)

\* visit_listitem and visit_calloutlistitem.
InItem(n, part) == IF part = "principal" THEN <<n, "para">> ELSE Self(n)

\* visit_descriptionlistitem: the terms are visited under the list.
InDefinition(n, part, outer) == IF part = "terms" THEN outer ELSE <<n, "definition">>

\* visit_table.
InTable(n) == <<n, "tbody">>

\* visit_span and visit_list; all rows, cells, terms and links are the same.
InElement(n) == Self(n)

\* visit_admonition, visit_quote, visit_verse and visit_open.
InBox(n) == Self(n)

\* Mutation of InTitledBox: the title is still current while the blocks are visited.
InTitledBox_TitleStays(n, part) ==
  IF part = "title" \/ Has(n, "title") THEN <<n, "title">> ELSE Self(n)

\* visit_sidebar and visit_collapsible.
InTitledBox(n, part) == IF part = "title" THEN <<n, "title">> ELSE Self(n)

\* Nodes whose visitor makes no element for what is in them.
Through == {"example", "indexterm"}

TitledBoxes == {"sidebar", "collapsible"}

Inside(kind, n, part, outer) ==
  CASE kind = "document"                        -> InDocument(n, part)
    [] kind = "section"                         -> InSection(n, part)
    [] kind = "heading"                         -> InHeading(n)
    [] kind = "paragraph"                       -> InParagraph(n)
    [] kind \in {"listItem", "calloutListItem"} -> InItem(n, part)
    [] kind = "descriptionListItem"             -> InDefinition(n, part, outer)
    [] kind = "table"                           -> InTable(n)
    [] kind \in Through                         -> outer
    [] kind \in TitledBoxes                     -> InTitledBox(n, part)
    [] kind \in Boxes \ (TitledBoxes \cup Through) -> InBox(n)
    [] OTHER                                    -> InElement(n)

\* _append_attribution: the last thing in a quote.
Attribution(n) ==
  IF ast[n].opt.tag = "attribution" THEN <<Hang(<<n, "attribution">>, Self(n))>> ELSE <<>>

\* What the visitor hangs under its own element when a part is done.
Done(n, part) ==
  LET kind == KindOf(n) IN
  CASE part = "title" /\ kind = "section" -> <<Hang(<<n, "title">>, Self(n))>>
    [] part = "title" /\ kind = "document" /\ Has(n, part) ->
         <<Hang(<<n, "title">>, <<n, "root section">>)>>
    [] part = "title" /\ kind \in Boxes /\ Has(n, part) ->
         <<Hang(<<n, "title">>, Self(n))>>
    [] part = "principal" /\ (Has(n, part) \/ kind = "calloutListItem" \/ ast[n].opt.tag = "checkbox") ->
         <<Hang(<<n, "para">>, Self(n))>>
    [] part = "inlines" /\ kind = "paragraph" /\ InParagraph(n) # Self(n) ->
         <<Hang(InParagraph(n), Self(n))>>
    [] part = "blocks" /\ kind = "descriptionListItem" ->
         <<Hang(<<n, "definition">>, Self(n))>>
    [] part = "blocks" /\ kind = "quote" -> Attribution(n)
    [] OTHER -> <<>>

-----------------------------------------------------------------------------
\* The next child of the node at hand.
Child(kind, opt) ==
  calls # <<>> /\ Grow(kind, opt, Top.node, PartNow, {calls[i].node : i \in 1 .. Len(calls)})

\* A new document.
Init ==
  /\ StartTree
  /\ calls = <<[node |-> 1, at |-> 1, old |-> Self(1), style |-> "none"]>>
  /\ current_node = <<1, "title">> /\ cell_style = "none" /\ out = <<>>

\* What a visitor without children to visit hangs.
LeafInline(n) == <<Hang(Self(n), current_node)>>

\* There is no visitor for literal blocks, whose text goes to the element at
\* hand, and those of attributes and the like do nothing.
Ignored == {"attribute_entry"}
LeafBlock(kind, n) ==
  CASE kind \in Ignored  -> <<>>
    [] kind = "literal"  -> <<Hang(<<n, "text">>, current_node)>>
    [] OTHER             -> <<Hang(Self(n), current_node)>>

VisitLeaf(kind) ==
  /\ kind \in LeafBlocks \cup LeafInlines /\ Child(kind, Plain)
  /\ LET n == Len(ast) + 1
     IN  out' = out \o IF kind \in LeafInlines THEN LeafInline(n) ELSE LeafBlock(kind, n)
  /\ UNCHANGED <<calls, current_node, cell_style>>

\* A visitor is called.  An index term comes before its text.
Enter(kind, opt) ==
  /\ Parts(kind) # <<>> /\ Child(kind, opt)
  /\ LET n == Len(ast) + 1 IN
     /\ calls' = Append(calls, [node |-> n, at |-> 1, old |-> current_node, style |-> cell_style])
     /\ cell_style' = IF kind = "cell" THEN opt.tag ELSE cell_style
     /\ out' = IF kind = "indexterm" THEN Append(out, Hang(Self(n), current_node)) ELSE out
     /\ current_node' = Inside(kind, n, Parts(kind)[1], current_node)

\* The visitor goes on to the next part of its node.
NextPart ==
  /\ calls # <<>> /\ Top.at < Len(Parts(KindNow)) /\ Whole(Top.node, PartNow)
  /\ out' = out \o Done(Top.node, PartNow)
  /\ current_node' = Inside(KindNow, Top.node, Parts(KindNow)[Top.at + 1], Top.old)
  /\ calls' = [calls EXCEPT ![Len(calls)].at = @ + 1]
  /\ UNCHANGED <<family, ast, cell_style>>

\* Mutation of Above: a term hangs under what is current, the list.
Above_Current(n, outer) == outer

\* Where the visitor hangs the element of its node: a term has the item of its
\* list for a parent, everything else the element of the caller.
Above(n, outer) == IF KindOf(n) = "descriptionListTerm" THEN Self(ast[n].in) ELSE outer

\* Example blocks have no visitor and make no element.
Own(n, outer) ==
  IF KindOf(n) \in {"example", "indexterm"} THEN <<>> ELSE <<Hang(Self(n), Above(n, outer))>>

Leaving ==
  /\ Len(calls) > 1 /\ Top.at = Len(Parts(KindNow)) /\ Whole(Top.node, PartNow)
  /\ out' = out \o Done(Top.node, PartNow) \o Own(Top.node, Top.old)
  /\ calls' = SubSeq(calls, 1, Len(calls) - 1)
  /\ UNCHANGED <<family, ast>>

\* Mutation of Leave: the style of a cell is not taken back.
Leave_KeepsStyle ==
  Leaving /\ current_node' = Top.old /\ UNCHANGED cell_style

\* Mutation of Leave: an item leaves its list current only while it is in it.
Leave_ItemStays ==
  /\ Leaving
  /\ current_node' = IF KindNow = "descriptionListItem" THEN Self(Top.node) ELSE Top.old
  /\ cell_style' = IF KindNow = "cell" THEN Top.style ELSE cell_style

\* The visitor returns.
Leave ==
  /\ Leaving
  /\ current_node' = Top.old
  /\ cell_style' = IF KindNow = "cell" THEN Top.style ELSE cell_style

\* visit_document returns: the section around everything is hung last.
Finish ==
  /\ Len(calls) = 1 /\ Top.at = Len(Parts(KindNow))
  /\ out' = IF Has(1, "title") THEN Append(out, Hang(<<1, "root section">>, Self(1))) ELSE out
  /\ current_node' = Top.old
  /\ calls' = <<>>
  /\ UNCHANGED <<family, ast, cell_style>>

Next == \/ \E kind \in Kinds : VisitLeaf(kind)
        \/ \E kind \in Kinds : \E opt \in Options(kind) : Enter(kind, opt)
        \/ NextPart \/ Leave \/ Finish

Spec == Init /\ [][Next]_vars

-----------------------------------------------------------------------------
Styles == {"none", "strong", "emphasis", "literal"}
Elements == Nodes \X {"self", "title", "root section", "para", "definition", "tbody",
                      "attribution", "text", "strong", "emphasis", "literal"}

TypeOK ==
  /\ family \in Families
  /\ ast \in Seq([kind : Kinds, in : Nat, part : PartNames, opt : UNION {Options(k) : k \in Kinds}])
  /\ \A n \in 2 .. Len(ast) : ast[n].in \in 1 .. n - 1
  /\ current_node \in Elements
  /\ current_node[1] \in {1} \cup {calls[i].node : i \in 1 .. Len(calls)}
  /\ cell_style \in Styles
  /\ \A i \in 1 .. Len(out) : out[i].of \in Elements /\ out[i].to \in Elements
  /\ \A i \in 1 .. Len(calls) :
       /\ calls[i].node \in Nodes
       /\ calls[i].at \in 1 .. Len(Parts(ast[calls[i].node].kind))
       /\ calls[i].old \in Elements /\ calls[i].style \in Styles

\* Every element hangs under an element of the node above its own, whichever
\* visitors were called and came back in between.
UnderItsParent ==
  \A i \in 1 .. Len(out) : LET n == out[i].of[1] IN
    out[i].of[2] = "self" /\ n # 1 /\ KindOf(ast[n].in) \notin Through
      => out[i].to[1] = ast[n].in

\* The style of the cell around node n; none outside of tables.
StyleAround[n \in Nodes] ==
  IF n = 1 THEN "none" ELSE IF KindOf(n) = "cell" THEN ast[n].opt.tag ELSE StyleAround[ast[n].in]

\* The element that a reader of the tree expects around what is in a part of p,
\* if the visitor of p makes one.
ElementOf(p, part) ==
  LET k == KindOf(p)
  IN  CASE part = "title" /\ k # "heading"                          -> <<p, "title">>
        [] part = "principal"                                       -> <<p, "para">>
        [] part = "rows"                                            -> <<p, "tbody">>
        [] part = "blocks" /\ k = "descriptionListItem"             -> <<p, "definition">>
        [] part = "blocks" /\ k = "document" /\ Has(p, "title")     -> <<p, "root section">>
        [] part = "inlines" /\ k = "paragraph" /\ StyleAround[p] # "none" -> <<p, StyleAround[p]>>
        [] OTHER                                                    -> Self(p)

\* The element around node n: that of the nearest node above that makes one.
Around[n \in Nodes] ==
  IF n = 1 THEN Self(1)
  ELSE IF KindOf(ast[n].in) \in Through THEN Around[ast[n].in]
  ELSE ElementOf(ast[n].in, ast[n].part)

\* Every element hangs where the tree has its node, whatever lies between the
\* begin and the end of its visitor: current_node is always the caller's again.
HangsWhereWritten ==
  \A i \in 1 .. Len(out) : out[i].of[2] = "self" /\ out[i].of[1] # 1 =>
    out[i].to = Around[out[i].of[1]]

\* What hangs under one element: its title or its text, then the nodes of the
\* tree in their order, then what ends it.
Rank(e) ==
  CASE e[2] \in {"self", "text"} -> 1
    [] e[2] \in {"definition", "attribution", "root section"} -> 2
    [] OTHER -> 0

Before(e, f) == Rank(e) < Rank(f) \/ (Rank(e) = 1 /\ Rank(f) = 1 /\ e[1] < f[1])

HangsInOrder ==
  \A i, j \in 1 .. Len(out) :
    i < j /\ out[i].to = out[j].to => Before(out[i].of, out[j].of)

Silent == {"example", "literal", "attribute_entry"}

\* When the walk is over every node has its element in the tree of elements,
\* once, but those that have no visitor.
NoneLost ==
  calls = <<>> => \A n \in 2 .. Len(ast) :
    Cardinality({i \in 1 .. Len(out) : out[i].of = Self(n)})
      = IF KindOf(n) \in Silent THEN 0 ELSE 1

\* A paragraph is set in the style of the nearest cell around it, however deep
\* in the cell it is and whatever tables and cells came before.
StyleOfNearestCell ==
  calls = <<>> => \A n \in Nodes : KindOf(n) = "paragraph" =>
    \A s \in Styles \ {"none"} :
      (\E i \in 1 .. Len(out) : out[i].of = <<n, s>>) <=> StyleAround[n] = s

RenderedAsWritten == HangsWhereWritten /\ HangsInOrder /\ NoneLost
=============================================================================
