----------------------------- MODULE MCWriters -----------------------------
(***************************************************************************)
(* Trees of up to seven nodes: every family is small enough for all of its *)
(* trees, and large enough for two blocks next to each other inside of two *)
(* others, for a second row, and for an item in an item.                   *)
(***************************************************************************)
EXTENDS Writers

Family(kinds, nodes, named) == [kinds |-> kinds, nodes |-> nodes, named |-> named]

Sections == {"paragraph", "listing", "section", "heading", "text"}
Anchors  == {"paragraph", "example", "admonition", "collapsible", "verse"}
Mixed    == {"paragraph", "quote", "sidebar", "open", "literal", "text"}
Tables   == {"paragraph", "listing", "table", "row", "cell"}
Styled   == {"paragraph", "table", "row", "cell", "indexterm", "text"}
Items    == {"paragraph", "list", "listItem", "text", "example"}
Defined  == {"paragraph", "descriptionList", "descriptionListItem", "descriptionListTerm",
             "calloutList", "calloutListItem", "sidebar"}
Nested   == {"paragraph", "sidebar", "list", "listItem", "descriptionList",
             "descriptionListItem", "descriptionListTerm", "calloutList", "calloutListItem"}
Leaves   == {"image", "thematic_break", "toc", "attribute_entry", "paragraph", "span", "ref",
             "indexterm", "callout", "text"}

AllFamilies ==
  {Family(Sections, 6, FALSE), Family(Anchors, 5, TRUE), Family(Mixed, 5, FALSE),
   Family(Tables, 7, FALSE), Family(Styled, 7, FALSE),
   Family(Items, 7, FALSE), Family(Defined, 6, TRUE),
   Family(Nested, 7, FALSE),
   Family(Leaves, 4, FALSE)}

Sidebars == {Family({"paragraph", "sidebar"}, 4, FALSE)}
=============================================================================
