------------------------------ MODULE TextShape ------------------------------
(***************************************************************************)
(* Which block is in which, once read from lines of text the way           *)
(* grammar.lark and block_transformer.py read them, and once from the tree *)
(* the lines were written from.  A shape is a sequence of words: a block   *)
(* without blocks inside is one word, a block with blocks inside a word    *)
(* for its begin and another for its end.                                  *)
(***************************************************************************)
EXTENDS Serializer

Word(what) == <<what, 0>>

\* What has been read: the delimited blocks that are open, each with the item
\* that a "+" continued before it; that item; the line before; an attribute list
\* that is not used yet; the columns of a table and its cells; the shape.
Unread == [open |-> <<>>, item |-> 0, last |-> "none", style |-> "none",
           columns |-> 0, cells |-> 0, shape |-> <<>>]

Says(state, words) == [state EXCEPT !.shape = @ \o words, !.style = "none"]

\* A line of text goes on with the paragraph of the line before it.
ReadText(state) ==
  CASE state.last = "text"   -> state
    [] state.last # "text" /\ state.style = "verse" -> Says(state, <<Word("verse"), Word("paragraph"), Word("end")>>)
    [] OTHER                 -> Says(state, <<Word("paragraph")>>)

\* Which block a delimiter begins depends on the attribute list before it.
BoxOf(mark, style) ==
  CASE mark = "=" -> IF style \in {"admonition", "collapsible"} THEN style ELSE "example"
    [] mark = "_" -> IF style = "verse" THEN style ELSE "quote"
    [] mark = "*" -> "sidebar"
    [] mark = "--" -> "open"
    [] mark = "|" -> "table"

\* A delimiter ends the innermost open block if it is like the one it began
\* with, and begins another if not.
ReadFence(state, mark, len) ==
  IF state.open # <<>> /\ Last(state.open).fence = <<mark, len>>
    THEN Says([state EXCEPT !.item = Last(state.open).item, !.open = Front(@)], <<Word("end")>>)
    ELSE Says([state EXCEPT !.open = Append(@, [fence |-> <<mark, len>>, item |-> state.item]),
                            !.item = 0, !.columns = 0, !.cells = 0],
              <<Word(BoxOf(mark, state.style))>>)

\* The callback table: there are as many columns as cells on the first line.
ReadCell(state, where) ==
  LET begins == state.cells = state.columns /\ (state.cells = 0 \/ where = "same line")
      row    == state.cells = 0 \/ (~begins /\ state.cells % state.columns = 0)
  IN  Says([state EXCEPT !.cells = @ + 1, !.columns = IF begins THEN @ + 1 ELSE @],
           (IF row THEN <<Word("row")>> ELSE <<>>) \o <<Word("cell")>>)

\* resolve_list_continuations: "+" goes on with the item of a list, which an item
\* of a callout list is not.  A line that comes after an attached block goes on
\* with the outermost list, or it begins a list of its own.
ReadItem(state, depth) ==
  CASE depth = 0                         -> Says(state, <<<<"item", 0>>>>)
    [] depth > 1 /\ state.last # "item"  -> Says([state EXCEPT !.item = 1], <<<<"item", 1>>>>)
    [] OTHER                             -> Says([state EXCEPT !.item = depth], <<<<"item", depth>>>>)

ReadLine(state, line) ==
  LET next == CASE line[1] = "text"  -> ReadText(state)
                [] line[1] = "fence" -> ReadFence(state, line[2], line[3])
                [] line[1] = "cell"  -> ReadCell(state, line[2])
                [] line[1] = "style" -> [state EXCEPT !.style = line[2]]
                [] line[1] = "blank" -> state
                [] line[1] = "plus"  -> Says(state, <<<<"attached", state.item>>>>)
                [] line[1] = "note"  -> Says(state, <<Word("admonition"), Word("paragraph"), Word("end")>>)
                [] line[1] = "item"  -> ReadItem(state, line[2])
                [] line[1] = "term"  -> Says([state EXCEPT !.item = 0], <<Word("term")>>)
                [] line[1] = "section" -> Says(state, <<line>>)
                [] line[1] \in {"id", "title"} -> [state EXCEPT !.shape = Append(@, Word(line[1]))]
                [] OTHER -> Says(state, <<Word(line[1])>>)
  IN  [next EXCEPT !.last = line[1]]

Read(lines) == FoldLeft(ReadLine, Unread, lines).shape

-----------------------------------------------------------------------------
\* What stands before a block in the shape of the tree.
Prefix(n) ==
  LET p      == ast[n].in
      kids   == Kids(p, "blocks")
      after  == \/ KindOf(p) = "listItem" /\ KindOf(n) # "list"
                \/ KindOf(p) = "descriptionListItem" /\ n # Head(kids)
  IN  IF n > 1 /\ ast[n].part = "blocks" /\ after THEN <<<<"attached", Depth[p]>>>> ELSE <<>>

Meta(n) == If(Anchored(n), <<Word("id")>>)
           \o If(KindOf(n) \in {"section", "sidebar", "collapsible"} /\ Has(n, "title"),
                 <<Word("title")>>)

Begin(n) ==
  CASE KindOf(n) = "document"              -> If(Has(n, "title"), <<Word("header")>>)
    [] KindOf(n) = "section"               -> <<<<"section", Level[n]>>>>
    [] KindOf(n) \in {"listItem", "calloutListItem"}  -> <<<<"item", Depth[n]>>>>
    [] KindOf(n) = "descriptionListTerm"   -> <<Word("term")>>
    [] KindOf(n) \in {"listing", "literal"} -> <<Word("verbatim")>>
    [] KindOf(n) \in ListKinds \cup {"descriptionListItem"} \cup Inlines -> <<>>
    [] OTHER                               -> <<Word(KindOf(n))>>

\* The shape of the tree from node n on.
Shape[n \in Nodes] ==
  LET kids == SetToSortSeq({m \in Nodes : ast[m].in = n}, <)
  IN  Prefix(n) \o Meta(n) \o Begin(n)
      \o FlattenSeq([i \in DOMAIN kids |-> Shape[kids[i]]])
      \o If(KindOf(n) \in Boxes \cup {"table"}, <<Word("end")>>)

-----------------------------------------------------------------------------
\* What the text of a tree cannot keep apart.  Blocks in a delimited block are
\* not separated: a paragraph joins the one before it, and what follows a list
\* of definitions belongs to it.
Running == {"paragraph", "list", "calloutList", "descriptionList"}
Runs(n) == KindOf(n) \in Running \/ (KindOf(n) \in Boxes /\ ast[n].opt.len = 0)

BlocksApart ==
  \A n \in Nodes : ~Free(n) /\ KindOf(n) # "cell" =>
    LET kids == Kids(n, "blocks")
    IN  \A i \in 1 .. Len(kids) - 1 :
          ~(Runs(kids[i]) /\ Runs(kids[i + 1])) /\ KindOf(kids[i]) # "descriptionList"

\* A delimiter is not used inside of a block that has the same.
FencesApart ==
  LET fences[n \in Nodes] ==
        IF n = 1 THEN {}
        ELSE fences[ast[n].in] \cup (IF KindOf(n) \in Boxes /\ ast[n].opt.len > 0 THEN {Fence(n)} ELSE {})
  IN  \A n \in Nodes \ {1} : KindOf(n) \in Boxes => Fence(n) \notin fences[ast[n].in]

\* A list in an item is a list in an item of a list, or all there is in a
\* definition: a list of definitions in one would have the marker of the outer,
\* and a list of definitions takes the lists that follow it.
ListsInItems ==
  \A n \in Nodes : KindOf(n) \in {"list", "descriptionList"} =>
    LET p == ast[n].in
    IN  KindOf(p) \in {"listItem", "descriptionListItem"} =>
          KindOf(n) = "list" /\ (KindOf(p) = "listItem" \/ Kids(p, "blocks") = <<n>>)

\* Nothing is attached to an item of a list in an item but to the last: the next
\* would begin a list of its own.
AttachedLast ==
  \A n \in Nodes :
    KindOf(n) = "listItem" /\ KindOf(ast[ast[n].in].in) \in {"listItem", "descriptionListItem"} =>
      \A m \in ast[n].in + 1 .. n - 1 : ast[m].part = "blocks" => KindOf(m) = "list"

\* Admonitions have no metadata.
NothingOnAdmonitions == \A n \in Nodes : KindOf(n) = "admonition" => ~Anchored(n)
=============================================================================
