--------------------------- MODULE RendererProofs ---------------------------
(***************************************************************************)
(* For every tree, of whatever kinds and however large: the visitors of    *)
(* the docutils backend hang every element where the tree has its node, in *)
(* the order of the text, none lost and none twice, and a paragraph in the *)
(* style of the nearest cell, because each of them finds current_node and  *)
(* _cell_style, and leaves them, as the tree has them.                     *)
(***************************************************************************)
EXTENDS DocutilsRenderer, SequenceTheorems, FiniteSetTheorems, WellFoundedInduction, TLAPS

Names == {"self", "title", "root section", "para", "definition", "tbody",
          "attribution", "text", "strong", "emphasis", "literal"}
Element == Nat \X Names
Hung    == [of : Element, to : Element]
Opts    == UNION {Options(k) : k \in Kinds}
NodeRec == [kind : Kinds, in : Nat, part : PartNames, opt : Opts]
Visit   == [node : Nat, at : Nat, old : Element, style : Styles]

\* A visit that is at the terms of a definition.
AtTerms(v) == KindOf(v.node) = "descriptionListItem" /\ v.at = 1

\* An element that may be current in the i-th visit under way: one of the visits
\* around, and of that visit itself where its visitor makes an element.
Suits(e, i) ==
  /\ e \in Element
  /\ e[1] \in {calls[j].node : j \in 1 .. i}
  /\ KindOf(calls[i].node) \notin Through /\ ~AtTerms(calls[i]) => e[1] = calls[i].node

\* What is hung under what is right for good: the tree only grows.
Right(h) ==
  /\ h.of[1] \in Nodes /\ h.to[1] \in Nodes
  /\ h.of[2] = "self" /\ h.of[1] # 1 /\ KindOf(ast[h.of[1]].in) \notin Through
       => h.to[1] = ast[h.of[1]].in

TreeInv ==
  /\ family \in Families
  /\ ast \in Seq(NodeRec) /\ Len(ast) >= 1
  /\ \A n \in 2 .. Len(ast) : ast[n].in \in 1 .. n - 1

\* A visit is one of the node above it on the stack, and what it saved suits that.
VisitInv(i) ==
  /\ calls[i].node \in Nodes
  /\ calls[i].at \in 1 .. Len(Parts(KindOf(calls[i].node)))
  /\ i = 1 => calls[i].node = 1 /\ calls[i].old = Self(1)
  /\ i > 1 => /\ calls[i].node # 1 /\ ast[calls[i].node].in = calls[i - 1].node
              /\ AtTerms(calls[i - 1]) => KindOf(calls[i].node) = "descriptionListTerm"
              /\ Suits(calls[i].old, i - 1)

CallsInv == calls \in Seq(Visit) /\ \A i \in 1 .. Len(calls) : VisitInv(i)

CurrentInv ==
  /\ current_node \in Element /\ cell_style \in Styles
  /\ IF calls = <<>> THEN current_node = Self(1) ELSE Suits(current_node, Len(calls))

RightOnes == {h \in Hung : Right(h)}
OutInv == out \in Seq(RightOnes)

\* What a visitor hangs under its own element.
OwnParts(n) == {h \in Hung : h.of[1] = n /\ h.to[1] = n /\ h.of[2] # "self"}

RInv == TreeInv /\ CallsInv /\ CurrentInv /\ OutInv

-----------------------------------------------------------------------------
(* What the visitors do                                                    *)

\* What a node has besides its children.
LEMMA OptFacts ==
  /\ Plain \in Opts
  /\ \A k \in Kinds : Options(k) \subseteq Opts
  /\ \A opt \in Options("cell") : opt.tag \in Styles
<1>1. \A k \in Kinds : Options(k) \subseteq Opts
  BY DEF Opts
<1>2. "text" \in Kinds /\ Plain \in Options("text")
  BY DEF Kinds, Inlines, LeafInlines, Options, Boxes
<1>3. \A opt \in Options("cell") : opt.tag \in Styles
  BY DEF Options, Opt, Styles
<1> QED BY <1>1, <1>2, <1>3

LEMMA TuplesAreSeqs ==
  ASSUME NEW S, NEW a \in S, NEW b \in S
  PROVE  <<a>> \in Seq(S) /\ <<a, b>> \in Seq(S)
OBVIOUS

\* Parts have names, and only items of definitions have terms, first.
LEMMA PartsFacts ==
  ASSUME NEW k \in Kinds
  PROVE  /\ Parts(k) \in Seq(PartNames)
         /\ Parts("descriptionListItem") = <<"terms", "blocks">>
<1> DEFINE named == {<<"title", "blocks">>, <<"blocks">>, <<"title">>, <<"inlines">>, <<"items">>,
                     <<"rows">>, <<"cells">>, <<"principal", "blocks">>, <<"terms", "blocks">>, <<>>}
<1>1. Parts("descriptionListItem") = <<"terms", "blocks">>
  <2>1. Parts("descriptionListItem") = ListParts("descriptionListItem")
    BY DEF Parts, Boxes, LeafBlocks, LeafInlines
  <2> QED BY <2>1 DEF ListParts, ListKinds
<1>2. Parts(k) \in named
  <2>1. CASE k \in Boxes \cup {"document", "section", "heading", "paragraph", "span", "ref", "indexterm"}
    BY <2>1 DEF Parts, Boxes
  <2>2. CASE k \in LeafBlocks \cup LeafInlines
    BY <2>2 DEF Parts, Boxes, LeafBlocks, LeafInlines
  <2>3. CASE k \in ListKinds \cup {"listItem", "calloutListItem", "descriptionListItem",
                                   "descriptionListTerm"}
    <3>1. Parts(k) = ListParts(k)
      BY <2>3 DEF Parts, Boxes, LeafBlocks, LeafInlines, ListKinds
    <3> QED BY <2>3, <3>1 DEF ListParts, ListKinds
  <2>4. CASE k \in {"table", "row", "cell"}
    <3>1. Parts(k) = TableParts(k)
      BY <2>4 DEF Parts, Boxes, LeafBlocks, LeafInlines, ListKinds
    <3> QED BY <2>4, <3>1 DEF TableParts
  <2> QED BY <2>1, <2>2, <2>3, <2>4 DEF Kinds, Blocks, Inlines
<1>3. \A a, b \in PartNames : <<a>> \in Seq(PartNames) /\ <<a, b>> \in Seq(PartNames)
  BY TuplesAreSeqs
<1>4. <<>> \in Seq(PartNames)
  BY EmptySeq
<1>5. named \subseteq Seq(PartNames)
  BY <1>3, <1>4 DEF PartNames
<1> HIDE DEF named
<1> QED BY <1>1, <1>2, <1>5

\* What is current in a part is an element of the node, or what was current
\* outside where the visitor makes none.
LEMMA InsideFacts ==
  ASSUME NEW kind, NEW n \in Nat, NEW part, NEW outer \in Element, cell_style \in Styles
  PROVE  /\ Inside(kind, n, part, outer) \in Element
         /\ Inside(kind, n, part, outer) = outer \/ Inside(kind, n, part, outer)[1] = n
         /\ kind \notin Through /\ ~(kind = "descriptionListItem" /\ part = "terms")
              => Inside(kind, n, part, outer)[1] = n
<1> DEFINE mine == {<<n, name>> : name \in Names}
<1>1. \A e \in mine : e \in Element /\ e[1] = n
  BY DEF Element
<1>2. /\ InDocument(n, part) \in mine /\ InSection(n, part) \in mine /\ InHeading(n) \in mine
      /\ InItem(n, part) \in mine /\ InTable(n) \in mine /\ InElement(n) \in mine
      /\ InBox(n) \in mine /\ InTitledBox(n, part) \in mine
  BY DEF InDocument, InSection, InHeading, InItem, InTable, InElement, InBox, InTitledBox, Self, Names
<1>3. InParagraph(n) \in mine
  BY DEF InParagraph, Self, Names, Styles
<1>4. IF part = "terms" THEN InDefinition(n, part, outer) = outer
                        ELSE InDefinition(n, part, outer) \in mine
  BY DEF InDefinition, Names
<1> HIDE DEF mine
<1>5. CASE kind \in Through
  <2>1. Inside(kind, n, part, outer) = outer
    BY <1>5 DEF Through, TitledBoxes, Inside
  <2> QED BY <1>5, <2>1
<1>6. CASE kind = "descriptionListItem"
  <2>1. Inside(kind, n, part, outer) = InDefinition(n, part, outer)
    BY <1>6 DEF Inside, Boxes, TitledBoxes, Through
  <2> QED BY <1>1, <1>4, <1>6, <2>1
<1>7. CASE kind \notin Through \cup {"descriptionListItem"}
  <2>1. Inside(kind, n, part, outer) \in mine
    BY <1>2, <1>3, <1>7 DEF Inside
  <2> QED BY <1>1, <2>1
<1> QED BY <1>5, <1>6, <1>7

\* What a visitor hangs between its parts is its own and goes under its own.
LEMMA DoneFacts ==
  ASSUME NEW n \in Nat, NEW part, cell_style \in Styles
  PROVE  Done(n, part) \in Seq(OwnParts(n))
<1> DEFINE mine == {Hang(<<n, name>>, <<n, to>>) : name \in Names \ {"self"}, to \in Names}
<1>1. mine \subseteq OwnParts(n)
  BY DEF Hang, Hung, Element, OwnParts
<1>2. \A name \in Names \ {"self"}, to \in Names : Hang(<<n, name>>, <<n, to>>) \in mine
  OBVIOUS
<1> HIDE DEF mine
<1>3. /\ Hang(<<n, "title">>, Self(n)) \in mine
      /\ Hang(<<n, "title">>, <<n, "root section">>) \in mine
      /\ Hang(<<n, "para">>, Self(n)) \in mine
      /\ Hang(<<n, "definition">>, Self(n)) \in mine
      /\ Hang(<<n, "attribution">>, Self(n)) \in mine
      /\ \A s \in Styles \ {"none"} : Hang(<<n, s>>, Self(n)) \in mine
  BY <1>2 DEF Self, Names, Styles
<1>4. InParagraph(n) # Self(n) => Hang(InParagraph(n), Self(n)) \in mine
  BY <1>3 DEF InParagraph
<1>5. \A h \in mine : <<h>> \in Seq(OwnParts(n))
  BY <1>1, TuplesAreSeqs
<1>6. <<>> \in Seq(OwnParts(n))
  BY EmptySeq
<1> DEFINE good == Seq(OwnParts(n))
<1>7. /\ <<Hang(<<n, "title">>, Self(n))>> \in good
      /\ <<Hang(<<n, "title">>, <<n, "root section">>)>> \in good
      /\ <<Hang(<<n, "para">>, Self(n))>> \in good
      /\ <<Hang(<<n, "definition">>, Self(n))>> \in good
      /\ <<Hang(<<n, "attribution">>, Self(n))>> \in good
      /\ InParagraph(n) # Self(n) => <<Hang(InParagraph(n), Self(n))>> \in good
      /\ <<>> \in good
  BY <1>3, <1>4, <1>5, <1>6
<1> HIDE DEF good
<1>8. Attribution(n) \in good
  BY <1>7 DEF Attribution
<1>9. Done(n, part) \in good
  BY <1>7, <1>8 DEF Done
<1> QED BY <1>9 DEF good

-----------------------------------------------------------------------------
(* The visit at hand                                                       *)

LEMMA TopFacts ==
  ASSUME TreeInv, CallsInv, CurrentInv, calls # <<>>
  PROVE  /\ Len(calls) \in Nat \ {0} /\ Top \in Visit
         /\ Top.node \in Nodes /\ Top.at \in 1 .. Len(Parts(KindNow))
         /\ KindNow \in Kinds /\ PartNow \in PartNames
         /\ AtTerms(Top) <=> KindNow = "descriptionListItem" /\ PartNow = "terms"
         /\ Suits(current_node, Len(calls))
<1>1. Len(calls) \in Nat \ {0} /\ Top \in Visit
  BY DEF CallsInv, Top
<1>2. Top.node \in Nodes /\ Top.at \in 1 .. Len(Parts(KindNow))
  BY <1>1 DEF CallsInv, VisitInv, Top, KindNow
<1>3. KindNow \in Kinds
  <2>1. ast[Top.node] \in NodeRec
    BY <1>2 DEF TreeInv, Nodes
  <2> QED BY <2>1 DEF KindNow, KindOf, NodeRec
<1>4. PartNow \in PartNames
  BY <1>2, <1>3, PartsFacts, ElementOfSeq DEF PartNow
<1>5. AtTerms(Top) <=> KindNow = "descriptionListItem" /\ PartNow = "terms"
  <2>1. CASE KindNow # "descriptionListItem"
    BY <2>1 DEF AtTerms, KindNow
  <2>2. CASE KindNow = "descriptionListItem"
    <3>1. Parts(KindNow) = <<"terms", "blocks">>
      BY <1>3, <2>2, PartsFacts
    <3>2. Top.at \in 1 .. 2
      BY <1>2, <3>1
    <3> QED BY <2>2, <3>1, <3>2 DEF AtTerms, KindNow, PartNow
  <2> QED BY <2>1, <2>2
<1>6. Suits(current_node, Len(calls))
  BY DEF CurrentInv
<1> QED BY <1>1, <1>2, <1>3, <1>4, <1>5, <1>6

\* The tree grows at its end.
LEMMA GrowFacts ==
  ASSUME TreeInv, NEW kind \in Kinds, NEW opt, NEW n \in Nodes, NEW part \in PartNames,
         NEW around, Grow(kind, opt, n, part, around)
  PROVE  /\ TreeInv'
         /\ Len(ast') = Len(ast) + 1 /\ Len(ast) \in Nat \ {0}
         /\ Nodes \subseteq Nodes' /\ Len(ast) + 1 \in Nodes'
         /\ \A m \in Nodes : ast'[m] = ast[m]
         /\ ast'[Len(ast) + 1].kind = kind /\ ast'[Len(ast) + 1].in = n
<1> DEFINE new == [kind |-> kind, in |-> n, part |-> part, opt |-> opt]
<1>1. opt \in Opts
  BY OptFacts DEF Grow
<1>2. new \in NodeRec
  BY <1>1 DEF NodeRec, Nodes
<1>3. ast' = Append(ast, new) /\ family' = family
  BY DEF Grow
<1> HIDE DEF new
<1>4. /\ ast' \in Seq(NodeRec) /\ Len(ast') = Len(ast) + 1 /\ Len(ast) \in Nat \ {0}
      /\ \A m \in 1 .. Len(ast) : ast'[m] = ast[m]
      /\ ast'[Len(ast) + 1] = new
  BY <1>2, <1>3 DEF TreeInv
<1>5. new.in = n
  BY DEF new
<1>6. \A m \in 2 .. Len(ast') : ast'[m].in \in 1 .. m - 1
  BY <1>4, <1>5 DEF TreeInv, Nodes
<1>7. TreeInv'
  BY <1>3, <1>4, <1>6 DEF TreeInv
<1> QED BY <1>4, <1>7 DEF Nodes, new

\* Only terms are among the terms of a definition.
LEMMA TermsFit == \A kind, n : Fits(kind, n, "terms") => kind = "descriptionListTerm"
  BY DEF Fits

\* What suited a visit does as long as the tree only grows and the visits
\* up to it are the same.
LEMMA StillSuits ==
  ASSUME TreeInv, CallsInv, NEW i \in 1 .. Len(calls), NEW e, Suits(e, i),
         \A m \in Nodes : ast'[m] = ast[m],
         \A j \in 1 .. i : calls'[j] = calls[j]
  PROVE  Suits(e, i)'
<1>1. /\ \A j \in 1 .. i : calls[j].node \in Nodes
      /\ i \in 1 .. i
  BY DEF CallsInv, VisitInv
<1>2. KindOf(calls[i].node)' = KindOf(calls[i].node) /\ AtTerms(calls[i])' = AtTerms(calls[i])
  BY <1>1 DEF KindOf, AtTerms
<1>3. {calls[j].node : j \in 1 .. i}' = {calls[j].node : j \in 1 .. i}
  OBVIOUS
<1> QED BY <1>1, <1>2, <1>3 DEF Suits

\* A visit under way stays right when the tree grows and the visits up to it
\* are the same.
LEMMA StillVisited ==
  ASSUME TreeInv, CallsInv, NEW i \in 1 .. Len(calls),
         Nodes \subseteq Nodes', \A m \in Nodes : ast'[m] = ast[m],
         \A j \in 1 .. i : calls'[j] = calls[j]
  PROVE  VisitInv(i)'
<1>1. \A j \in 1 .. Len(calls) : calls[j].node \in Nodes
  BY DEF CallsInv, VisitInv
<1>2. VisitInv(i) /\ calls'[i] = calls[i] /\ Len(calls) \in Nat
  BY DEF CallsInv
<1>3. ast'[calls[i].node] = ast[calls[i].node]
  BY <1>1
<1>4. /\ calls'[i].node \in Nodes'
      /\ calls'[i].at \in 1 .. Len(Parts(ast'[calls[i].node].kind))
      /\ i = 1 => calls'[i].node = 1 /\ calls'[i].old = Self(1)
  BY <1>1, <1>2, <1>3 DEF VisitInv, KindOf
<1>5. CASE i > 1
  <2>1. i - 1 \in 1 .. Len(calls) /\ i - 1 \in 1 .. i
    BY <1>2, <1>5
  <2>2. calls'[i - 1] = calls[i - 1] /\ ast'[calls[i - 1].node] = ast[calls[i - 1].node]
    BY <1>1, <2>1
  <2>3. AtTerms(calls[i - 1])' => KindOf(calls[i].node)' = "descriptionListTerm"
    BY <1>2, <1>3, <1>5, <2>2 DEF VisitInv, AtTerms, KindOf
  <2>4. Suits(calls[i].old, i - 1)
    BY <1>2, <1>5 DEF VisitInv
  <2>5. \A j \in 1 .. i - 1 : calls'[j] = calls[j]
    BY <1>2
  <2>6. Suits(calls[i].old, i - 1)'
    BY <1>2, <2>1, <2>4, <2>5, StillSuits
  <2>7. calls'[i].node # 1 /\ ast'[calls'[i].node].in = calls'[i - 1].node
    BY <1>2, <1>3, <1>5, <2>2 DEF VisitInv
  <2> QED BY <1>2, <1>4, <1>5, <2>3, <2>6, <2>7 DEF VisitInv, KindOf
<1>6. CASE i = 1
  BY <1>2, <1>4, <1>6 DEF VisitInv, KindOf
<1> QED BY <1>5, <1>6

LEMMA CallsStay ==
  ASSUME TreeInv, CallsInv, Nodes \subseteq Nodes', \A m \in Nodes : ast'[m] = ast[m], calls' = calls
  PROVE  CallsInv'
<1>1. \A i \in 1 .. Len(calls) : VisitInv(i)'
  BY StillVisited
<1> QED BY <1>1 DEF CallsInv

\* What was right is right as long as the tree only grows.
LEMMA StillRight ==
  ASSUME TreeInv, Nodes \subseteq Nodes', \A m \in Nodes : ast'[m] = ast[m]
  PROVE  RightOnes \subseteq RightOnes'
<1> SUFFICES ASSUME NEW h \in Hung, Right(h) PROVE Right(h)'
  BY DEF RightOnes
<1>1. h.of[1] \in Nodes /\ h.to[1] \in Nodes
  BY DEF Right
<1>2. CASE h.of[1] # 1
  <2>1. ast[h.of[1]].in \in Nodes
    BY <1>1, <1>2 DEF TreeInv, Nodes
  <2> QED BY <1>1, <2>1 DEF Right, KindOf
<1>3. CASE h.of[1] = 1
  BY <1>1, <1>3 DEF Right
<1> QED BY <1>2, <1>3

\* More of what is right may be hung at any time.
LEMMA OutGrows ==
  ASSUME OutInv, RightOnes \subseteq RightOnes', NEW s \in Seq(RightOnes'), out' = out \o s
  PROVE  OutInv'
<1>1. out \in Seq(RightOnes')
  BY SeqMonotonic DEF OutInv
<1> QED BY <1>1, ConcatProperties DEF OutInv

LEMMA DoneRight ==
  ASSUME RInv, NEW n \in Nodes, NEW part
  PROVE  Done(n, part) \in Seq(RightOnes)
<1>1. n \in Nat /\ cell_style \in Styles
  BY DEF RInv, CurrentInv, Nodes
<1>2. OwnParts(n) \subseteq RightOnes
  BY DEF OwnParts, RightOnes, Right
<1> QED BY <1>1, <1>2, DoneFacts, SeqMonotonic

-----------------------------------------------------------------------------
(* The steps                                                               *)

LEMMA InitInv == Init => RInv
<1> SUFFICES ASSUME Init PROVE RInv
  OBVIOUS
<1> DEFINE root == [kind |-> "document", in |-> 0, part |-> "root", opt |-> Plain]
           first == [node |-> 1, at |-> 1, old |-> Self(1), style |-> "none"]
<1>1. family \in Families /\ ast = <<root>> /\ calls = <<first>>
  BY DEF Init, StartTree
<1>2. root \in NodeRec /\ root.kind = "document"
  BY OptFacts DEF NodeRec, Kinds, PartNames
<1>3. first \in Visit /\ first.node = 1 /\ first.at = 1 /\ first.old = Self(1)
  BY DEF Visit, Element, Names, Self, Styles
<1> HIDE DEF root, first
<1>4. ast \in Seq(NodeRec) /\ Len(ast) = 1 /\ ast[1] = root
  BY <1>1, <1>2, TuplesAreSeqs
<1>5. calls \in Seq(Visit) /\ Len(calls) = 1 /\ calls[1] = first
  BY <1>1, <1>3, TuplesAreSeqs
<1>6. TreeInv
  BY <1>1, <1>4 DEF TreeInv
<1>7. KindOf(1) = "document"
  BY <1>2, <1>4 DEF KindOf
<1>8. Parts("document") = <<"title", "blocks">>
  BY DEF Parts, Boxes, LeafBlocks, LeafInlines
<1>9. CallsInv
  <2>1. 1 \in Nodes /\ 1 \in 1 .. Len(Parts("document"))
    BY <1>4, <1>8 DEF Nodes
  <2>2. calls[1].node \in Nodes /\ calls[1].at \in 1 .. Len(Parts(KindOf(calls[1].node)))
    BY <1>3, <1>5, <1>7, <2>1
  <2> QED BY <1>3, <1>5, <2>2 DEF CallsInv, VisitInv
<1>10. CurrentInv
  <2>1. current_node = <<1, "title">> /\ cell_style = "none"
    BY DEF Init
  <2>2. <<1, "title">> \in Element
    BY DEF Element, Names
  <2>3. Suits(current_node, 1)
    BY <1>3, <1>5, <2>1, <2>2 DEF Suits
  <2> QED BY <1>1, <1>5, <2>1, <2>2, <2>3 DEF CurrentInv, Styles
<1>11. OutInv
  BY EmptySeq DEF OutInv, Init
<1> QED BY <1>6, <1>9, <1>10, <1>11 DEF RInv

\* A new child of the node at hand: what is under way, and what is current,
\* stay as they are for the visits that were there before.
LEMMA ChildFacts ==
  ASSUME RInv, NEW kind \in Kinds, NEW opt, Child(kind, opt)
  PROVE  /\ calls # <<>> /\ Len(calls) \in Nat \ {0}
         /\ TreeInv' /\ Nodes \subseteq Nodes' /\ Len(ast) + 1 \in Nodes' /\ Len(ast) + 1 # 1
         /\ Len(ast) + 1 \in Nat /\ Top.node \in Nodes
         /\ \A m \in Nodes : ast'[m] = ast[m]
         /\ ast'[Len(ast) + 1].kind = kind /\ ast'[Len(ast) + 1].in = Top.node
         /\ AtTerms(Top) => kind = "descriptionListTerm"
         /\ RightOnes \subseteq RightOnes'
<1>1. calls # <<>> /\ TreeInv /\ CallsInv /\ CurrentInv
  BY DEF Child, RInv
<1>2. /\ Len(calls) \in Nat \ {0} /\ Top.node \in Nodes /\ PartNow \in PartNames
      /\ AtTerms(Top) <=> KindNow = "descriptionListItem" /\ PartNow = "terms"
  BY <1>1, TopFacts
<1>3. PICK n \in Nodes, part \in PartNames : n = Top.node /\ part = PartNow
  BY <1>2
<1>4. PICK around : Grow(kind, opt, n, part, around)
  BY <1>3 DEF Child
<1>5. /\ TreeInv'
      /\ Len(ast') = Len(ast) + 1 /\ Len(ast) \in Nat \ {0}
      /\ Nodes \subseteq Nodes' /\ Len(ast) + 1 \in Nodes'
      /\ \A m \in Nodes : ast'[m] = ast[m]
      /\ ast'[Len(ast) + 1].kind = kind /\ ast'[Len(ast) + 1].in = n
  BY <1>1, <1>3, <1>4, GrowFacts
<1>6. AtTerms(Top) => kind = "descriptionListTerm"
  BY <1>2, <1>3, <1>4, TermsFit DEF Grow
<1>7. RightOnes \subseteq RightOnes'
  BY <1>1, <1>5, StillRight
<1> QED BY <1>1, <1>2, <1>3, <1>4, <1>5, <1>6, <1>7

\* What the visitor of a new child hangs under what is current is right.
LEMMA UnderCurrent ==
  ASSUME RInv, NEW kind \in Kinds, NEW opt, Child(kind, opt), kind # "descriptionListTerm",
         NEW name \in Names
  PROVE  Hang(<<Len(ast) + 1, name>>, current_node) \in RightOnes'
<1> SUFFICES ASSUME NEW h, h = Hang(<<Len(ast) + 1, name>>, current_node)
             PROVE  h \in RightOnes'
  OBVIOUS
<1>1. /\ calls # <<>> /\ Nodes \subseteq Nodes' /\ Len(ast) + 1 \in Nodes' /\ Len(ast) + 1 \in Nat
      /\ Top.node \in Nodes /\ ast'[Len(ast) + 1].in = Top.node /\ ~AtTerms(Top)
      /\ \A m \in Nodes : ast'[m] = ast[m]
  BY ChildFacts
<1>2. Suits(current_node, Len(calls)) /\ current_node \in Element
  BY <1>1 DEF RInv, CurrentInv
<1>3. current_node[1] \in Nodes
  BY <1>2 DEF Suits, RInv, CallsInv, VisitInv
<1>4. KindOf(Top.node) \notin Through => current_node[1] = Top.node
  BY <1>1, <1>2 DEF Suits, Top
<1>5. h \in Hung /\ h.of[1] = Len(ast) + 1 /\ h.to = current_node
  BY <1>1, <1>2 DEF Hang, Hung, Element
<1>6. ast'[h.of[1]].in = Top.node /\ ast'[Top.node].kind = KindOf(Top.node)
  BY <1>1, <1>5 DEF KindOf
<1>7. Right(h)'
  BY <1>1, <1>3, <1>4, <1>5, <1>6 DEF Right, KindOf
<1> QED BY <1>5, <1>7 DEF RightOnes

LEMMA VisitLeafInv ==
  ASSUME RInv, NEW kind \in Kinds, VisitLeaf(kind) PROVE RInv'
<1>1. /\ Child(kind, Plain) /\ calls' = calls /\ current_node' = current_node
      /\ cell_style' = cell_style /\ kind # "descriptionListTerm"
  BY DEF VisitLeaf, LeafBlocks, LeafInlines
<1>2. /\ calls # <<>> /\ Len(calls) \in Nat \ {0}
      /\ TreeInv' /\ Nodes \subseteq Nodes' /\ \A m \in Nodes : ast'[m] = ast[m]
      /\ RightOnes \subseteq RightOnes'
  BY <1>1, ChildFacts
<1>3. TreeInv /\ CallsInv /\ CurrentInv /\ OutInv
  BY DEF RInv
<1>4. CallsInv'
  BY <1>1, <1>2, <1>3, CallsStay
<1>5. CurrentInv'
  <2>1. Suits(current_node, Len(calls))'
    BY <1>1, <1>2, <1>3, StillSuits DEF CurrentInv
  <2> QED BY <1>1, <1>2, <1>3, <2>1 DEF CurrentInv
<1>6. OutInv'
  <2> DEFINE n == Len(ast) + 1
             hung == IF kind \in LeafInlines THEN LeafInline(n) ELSE LeafBlock(kind, n)
  <2>1. \A name \in {"self", "text"} : Hang(<<n, name>>, current_node) \in RightOnes'
    BY <1>1, UnderCurrent DEF Names
  <2>2. \A name \in {"self", "text"} : <<Hang(<<n, name>>, current_node)>> \in Seq(RightOnes')
    BY <2>1, TuplesAreSeqs
  <2>3. <<>> \in Seq(RightOnes')
    BY EmptySeq
  <2>4. hung \in Seq(RightOnes')
    BY <2>2, <2>3 DEF LeafInline, LeafBlock, Ignored, Self
  <2>5. out' = out \o hung
    BY DEF VisitLeaf
  <2> HIDE DEF hung
  <2> QED BY <1>2, <1>3, <2>4, <2>5, OutGrows
<1> QED BY <1>2, <1>4, <1>5, <1>6 DEF RInv

LEMMA EnterInv ==
  ASSUME RInv, NEW kind \in Kinds, NEW opt \in Options(kind), Enter(kind, opt) PROVE RInv'
<1>1. PICK L \in Nat \ {0} : L = Len(calls) /\ calls # <<>>
  BY ChildFacts DEF Enter
<1>2. PICK n \in Nat : n = Len(ast) + 1
  BY DEF RInv, TreeInv
<1>3. /\ Child(kind, opt) /\ Parts(kind) # <<>>
      /\ calls' = Append(calls, [node |-> n, at |-> 1, old |-> current_node, style |-> cell_style])
      /\ cell_style' = IF kind = "cell" THEN opt.tag ELSE cell_style
      /\ out' = IF kind = "indexterm" THEN Append(out, Hang(Self(n), current_node)) ELSE out
      /\ current_node' = Inside(kind, n, Parts(kind)[1], current_node)
  BY <1>2 DEF Enter
<1>4. /\ TreeInv' /\ Nodes \subseteq Nodes' /\ n \in Nodes' /\ n # 1
      /\ \A m \in Nodes : ast'[m] = ast[m]
      /\ ast'[n].kind = kind /\ ast'[n].in = Top.node
      /\ AtTerms(Top) => kind = "descriptionListTerm"
      /\ RightOnes \subseteq RightOnes'
  BY <1>2, <1>3, ChildFacts
<1>5. TreeInv /\ CallsInv /\ CurrentInv /\ OutInv
  BY DEF RInv
<1>6. /\ Suits(current_node, L) /\ current_node \in Element /\ cell_style \in Styles
      /\ L \in 1 .. L
  BY <1>1, <1>5 DEF CurrentInv
<1>7. PICK new \in Visit : /\ new.node = n /\ new.at = 1 /\ new.old = current_node
                           /\ calls' = Append(calls, new)
  <2> DEFINE new == [node |-> n, at |-> 1, old |-> current_node, style |-> cell_style]
  <2>1. new \in Visit /\ new.node = n /\ new.at = 1 /\ new.old = current_node
    BY <1>6 DEF Visit
  <2> QED BY <1>3, <2>1
<1>8. /\ calls' # <<>> /\ calls' \in Seq(Visit) /\ Len(calls') = L + 1 /\ calls'[L + 1] = new
      /\ \A j \in 1 .. L : calls'[j] = calls[j]
  BY <1>1, <1>5, <1>7 DEF CallsInv
<1>9. PICK before \in Element : before = current_node
  BY <1>6
<1>10. Suits(before, L)'
  BY <1>1, <1>4, <1>5, <1>6, <1>8, <1>9, StillSuits
<1>11. \A i \in 1 .. L : VisitInv(i)'
  <2> SUFFICES ASSUME NEW i \in 1 .. L PROVE VisitInv(i)'
    OBVIOUS
  <2>1. \A j \in 1 .. i : calls'[j] = calls[j]
    BY <1>8
  <2> QED BY <1>1, <1>4, <1>5, <2>1, StillVisited
<1>12. calls'[L] = Top /\ calls'[L].node = Top.node
  BY <1>1, <1>8 DEF Top
<1>13. VisitInv(L + 1)'
  <2>1. Len(Parts(kind)) >= 1 /\ Len(Parts(kind)) \in Nat
    BY <1>3, PartsFacts
  <2>2. AtTerms(calls[L])' => kind = "descriptionListTerm"
    <3>1. ast'[Top.node] = ast[Top.node]
      BY <1>2, <1>3, <1>4, ChildFacts
    <3> QED BY <1>4, <1>12, <3>1 DEF AtTerms, KindOf
  <2> QED BY <1>4, <1>7, <1>8, <1>9, <1>10, <1>12, <2>1, <2>2 DEF VisitInv, KindOf
<1>14. CallsInv'
  <2>1. \A i \in 1 .. Len(calls') : i \in 1 .. L \/ i = L + 1
    BY <1>8
  <2>2. \A i \in 1 .. Len(calls') : VisitInv(i)'
    BY <1>11, <1>13, <2>1
  <2> QED BY <1>8, <2>2 DEF CallsInv
<1>15. PICK after \in Element :
         /\ after = current_node'
         /\ after = before \/ after[1] = n
         /\ kind \notin Through /\ kind # "descriptionListItem" => after[1] = n
  BY <1>3, <1>6, <1>9, InsideFacts
<1>16. Suits(after, L + 1)'
  <2>1. after[1] \in {calls'[j].node : j \in 1 .. L + 1}
    BY <1>7, <1>8, <1>10, <1>15 DEF Suits
  <2>2. KindOf(calls[L + 1].node)' = kind
    BY <1>4, <1>7, <1>8 DEF KindOf
  <2>3. AtTerms(calls[L + 1])' <=> kind = "descriptionListItem"
    BY <1>7, <1>8, <2>2 DEF AtTerms
  <2> QED BY <1>7, <1>8, <1>15, <2>1, <2>2, <2>3 DEF Suits
<1>17. cell_style' \in Styles
  BY <1>3, <1>6, OptFacts
<1>18. CurrentInv'
  BY <1>8, <1>15, <1>16, <1>17 DEF CurrentInv
<1>19. OutInv'
  <2>1. kind = "indexterm" => Hang(Self(n), current_node) \in RightOnes'
    BY <1>2, <1>3, UnderCurrent DEF Self, Names
  <2>2. out \in Seq(RightOnes')
    BY <1>4, <1>5, SeqMonotonic DEF OutInv
  <2> QED BY <1>3, <2>1, <2>2, AppendProperties DEF OutInv
<1> QED BY <1>4, <1>14, <1>18, <1>19 DEF RInv

\* A visit goes on: the terms of a definition are over, if it was at them.
LEMMA NextPartInv ==
  ASSUME RInv, NextPart PROVE RInv'
<1>1. TreeInv /\ CallsInv /\ CurrentInv /\ OutInv
  BY DEF RInv
<1>2. PICK L \in Nat \ {0} : L = Len(calls) /\ calls # <<>>
  BY <1>1, TopFacts DEF NextPart
<1>3. /\ Top \in Visit /\ Top.node \in Nodes /\ Top.node \in Nat
      /\ KindNow \in Kinds /\ PartNow \in PartNames
      /\ Top.at \in Nat \ {0} /\ Top.at + 1 \in 1 .. Len(Parts(KindNow))
  BY <1>2, <1>1, TopFacts, PartsFacts DEF NextPart, Nodes
<1>4. /\ ast' = ast /\ family' = family /\ cell_style' = cell_style
      /\ out' = out \o Done(Top.node, PartNow)
      /\ current_node' = Inside(KindNow, Top.node, Parts(KindNow)[Top.at + 1], Top.old)
      /\ calls' = [calls EXCEPT ![Len(calls)].at = @ + 1]
  BY DEF NextPart
<1>5. PICK moved \in Visit : /\ moved.node = Top.node /\ moved.at = Top.at + 1 /\ moved.old = Top.old
                             /\ calls' = [calls EXCEPT ![L] = moved]
  <2> DEFINE moved == [Top EXCEPT !.at = @ + 1]
  <2>1. moved \in Visit
    BY <1>3 DEF Visit
  <2>2. moved.node = Top.node /\ moved.at = Top.at + 1 /\ moved.old = Top.old
    BY <1>3 DEF Visit
  <2>3. calls' = [calls EXCEPT ![L] = moved]
    BY <1>2, <1>4 DEF Top
  <2> HIDE DEF moved
  <2> QED BY <2>1, <2>2, <2>3
<1>6. /\ calls' \in Seq(Visit) /\ Len(calls') = L /\ calls'[L] = moved /\ calls' # <<>>
      /\ calls[L] = Top
      /\ \A j \in 1 .. L - 1 : calls'[j] = calls[j]
      /\ \A j \in 1 .. L : calls'[j].node = calls[j].node
  BY <1>2, <1>1, <1>5 DEF CallsInv, Top
<1>7. TreeInv'
  BY <1>1, <1>4 DEF TreeInv
<1>8. Nodes' = Nodes /\ (\A m : KindOf(m)' = KindOf(m)) /\ KindOf(Top.node) = KindNow
  BY <1>4 DEF Nodes, KindOf, KindNow
<1>9. VisitInv(L) /\ L \in 1 .. Len(calls)
  BY <1>2, <1>1 DEF CallsInv
<1>10. PICK outer \in Element : outer = Top.old
  BY <1>3 DEF Visit
<1>11. L > 1 => Suits(outer, L - 1) /\ Suits(outer, L - 1)'
  <2> SUFFICES ASSUME L > 1 PROVE Suits(outer, L - 1) /\ Suits(outer, L - 1)'
    OBVIOUS
  <2>1. Suits(outer, L - 1)
    BY <1>6, <1>9, <1>10 DEF VisitInv
  <2> QED BY SMTT(30), <1>2, <1>1, <1>4, <1>6, <2>1, StillSuits
<1>12. \A i \in 1 .. L - 1 : VisitInv(i)'
  <2> SUFFICES ASSUME NEW i \in 1 .. L - 1 PROVE VisitInv(i)'
    OBVIOUS
  <2>1. i \in 1 .. Len(calls) /\ \A j \in 1 .. i : calls'[j] = calls[j]
    BY <1>2, <1>6
  <2> QED BY <1>1, <1>4, <1>8, <2>1, StillVisited
<1>13. VisitInv(L)'
  <2>1. /\ moved.node \in Nodes /\ moved.at \in 1 .. Len(Parts(KindNow))
        /\ L = 1 => moved.node = 1 /\ moved.old = Self(1)
    BY <1>3, <1>5, <1>6, <1>9 DEF VisitInv
  <2>2. CASE L > 1
    <3>1. /\ moved.node # 1 /\ ast[moved.node].in = calls[L - 1].node
          /\ AtTerms(calls[L - 1]) => KindOf(moved.node) = "descriptionListTerm"
      BY <1>5, <1>6, <1>9, <2>2 DEF VisitInv
    <3>2. calls'[L - 1] = calls[L - 1]
      BY <1>6, <2>2
    <3>3. AtTerms(calls[L - 1])' => KindOf(moved.node) = "descriptionListTerm"
      BY <1>8, <3>1, <3>2 DEF AtTerms
    <3> QED BY <1>4, <1>5, <1>6, <1>8, <1>10, <1>11, <2>1, <2>2, <3>1, <3>2, <3>3 DEF VisitInv
  <2>3. CASE L = 1
    BY <1>6, <1>8, <1>5, <2>1, <2>3 DEF VisitInv
  <2> QED BY <2>2, <2>3
<1>14. CallsInv'
  <2>1. \A i \in 1 .. Len(calls') : i \in 1 .. L - 1 \/ i = L
    BY <1>6
  <2>2. \A i \in 1 .. Len(calls') : VisitInv(i)'
    BY <1>12, <1>13, <2>1
  <2> QED BY <1>6, <2>2 DEF CallsInv
<1>15. PICK after \in Element :
         /\ after = current_node'
         /\ after = outer \/ after[1] = Top.node
         /\ KindNow \notin Through /\ ~(KindNow = "descriptionListItem"
                                        /\ Parts(KindNow)[Top.at + 1] = "terms")
              => after[1] = Top.node
  BY SMTT(30), <1>1, <1>3, <1>4, <1>10, InsideFacts DEF CurrentInv
<1>16. Suits(after, L)'
  <2>1. after[1] \in {calls'[j].node : j \in 1 .. L}
    <3>1. CASE after[1] = Top.node
      BY <1>5, <1>6, <3>1
    <3>2. CASE after = outer
      <4>1. CASE L > 1
        BY <1>11, <3>2, <4>1 DEF Suits
      <4>2. CASE L = 1
        BY <1>5, <1>6, <1>9, <1>10, <3>2, <4>2 DEF VisitInv, Self
      <4> QED BY <4>1, <4>2
    <3> QED BY <1>15, <3>1, <3>2
  <2>2. KindNow = "descriptionListItem" => Parts(KindNow)[Top.at + 1] # "terms"
    <3> SUFFICES ASSUME KindNow = "descriptionListItem" PROVE Parts(KindNow)[Top.at + 1] # "terms"
      OBVIOUS
    <3>1. Parts(KindNow) = <<"terms", "blocks">>
      BY <1>3, PartsFacts
    <3>2. Len(Parts(KindNow)) = 2
      BY <3>1
    <3>3. PICK at \in Nat \ {0} : at = Top.at
      BY <1>3
    <3>4. at + 1 \in 1 .. 2
      BY <1>3, <3>2, <3>3
    <3>5. at + 1 = 2
      BY <3>4
    <3> QED BY <3>1, <3>3, <3>5
  <2>3. KindOf(calls[L].node)' = KindNow
    BY <1>5, <1>6, <1>8
  <2> QED BY <1>5, <1>6, <1>15, <2>1, <2>2, <2>3 DEF Suits
<1>17. CurrentInv'
  BY <1>1, <1>4, <1>6, <1>15, <1>16 DEF CurrentInv
<1>18. OutInv'
  <2>1. Done(Top.node, PartNow) \in Seq(RightOnes)
    BY <1>3, DoneRight
  <2>2. RightOnes' = RightOnes
    BY <1>4 DEF RightOnes, Right, Nodes, KindOf
  <2> QED BY <1>1, <1>4, <2>1, <2>2, OutGrows
<1> QED BY <1>7, <1>18, <1>14, <1>17 DEF RInv

\* A visit comes to its end: what was current outside is current again.
LEMMA LeaveInv ==
  ASSUME RInv, Leave PROVE RInv'
<1>1. TreeInv /\ CallsInv /\ CurrentInv /\ OutInv
  BY DEF RInv
<1>2. PICK L \in Nat : L = Len(calls) /\ L > 1 /\ calls # <<>>
  BY <1>1, EmptySeq DEF Leave, Leaving, CallsInv
<1>3. /\ Top \in Visit /\ Top.node \in Nodes /\ calls[L] = Top /\ VisitInv(L)
      /\ L \in 1 .. Len(calls)
  BY <1>1, <1>2, TopFacts DEF Top, CallsInv
<1>4. /\ ast' = ast /\ family' = family /\ calls' = SubSeq(calls, 1, L - 1)
      /\ current_node' = Top.old
      /\ cell_style' = IF KindNow = "cell" THEN Top.style ELSE cell_style
      /\ out' = out \o Done(Top.node, PartNow) \o Own(Top.node, Top.old)
  BY <1>2 DEF Leave, Leaving
<1>5. /\ calls' \in Seq(Visit) /\ Len(calls') = L - 1 /\ calls' # <<>>
      /\ \A j \in 1 .. L - 1 : calls'[j] = calls[j]
  <2>1. /\ calls \in Seq(Visit) /\ 1 \in 1 .. Len(calls) + 1 /\ L - 1 \in 0 .. Len(calls)
        /\ L - 1 >= 1 /\ (L - 1) - 1 + 1 = L - 1
    BY <1>1, <1>2 DEF CallsInv
  <2>2. /\ calls' \in Seq(Visit) /\ Len(calls') = L - 1
        /\ \A j \in 1 .. L - 1 : calls'[j] = calls[j]
    BY <1>2, <1>4, <2>1, SubSeqProperties
  <2> QED BY <2>1, <2>2
<1>6. TreeInv' /\ Nodes' = Nodes
  BY <1>1, <1>4 DEF TreeInv, Nodes
<1>7. CallsInv'
  <2>1. ASSUME NEW i \in 1 .. L - 1 PROVE VisitInv(i)'
    <3>1. i \in 1 .. Len(calls) /\ \A j \in 1 .. i : calls'[j] = calls[j]
      BY <1>2, <1>5
    <3> QED BY <1>1, <1>4, <1>6, <3>1, StillVisited
  <2> QED BY <1>5, <2>1 DEF CallsInv
<1>8. PICK outer \in Element : outer = Top.old
  BY <1>3 DEF Visit
<1>9. Suits(outer, L - 1) /\ Suits(outer, L - 1)'
  <2>1. Suits(outer, L - 1)
    BY <1>2, <1>3, <1>8 DEF VisitInv
  <2> QED BY <1>1, <1>2, <1>4, <1>5, <2>1, StillSuits
<1>10. CurrentInv'
  <2>1. cell_style' \in Styles
    BY <1>1, <1>3, <1>4 DEF CurrentInv, Visit
  <2> QED BY <1>4, <1>5, <1>8, <1>9, <2>1 DEF CurrentInv
<1>11. PICK n \in Nodes, p \in Nat : n = Top.node /\ p = ast[n].in
  <2>1. ast[Top.node] \in NodeRec
    BY <1>1, <1>3 DEF TreeInv, Nodes
  <2>2. ast[Top.node].in \in Nat
    BY <2>1 DEF NodeRec
  <2> QED BY <1>3, <2>2
<1>12. /\ n # 1 /\ p = calls[L - 1].node /\ n \in Nat
       /\ AtTerms(calls[L - 1]) => KindOf(n) = "descriptionListTerm"
  BY <1>2, <1>3, <1>11 DEF VisitInv, Nodes
<1>13. \A j \in 1 .. L - 1 : calls[j].node \in Nodes
  BY <1>1, <1>2 DEF CallsInv, VisitInv
<1>14. p \in Nodes /\ outer[1] \in Nodes
  <2>1. L - 1 \in 1 .. L - 1
    BY <1>2
  <2>2. outer[1] \in {calls[j].node : j \in 1 .. L - 1}
    BY <1>9 DEF Suits
  <2> QED BY <1>12, <1>13, <2>1, <2>2
<1>15. PICK above \in Element : /\ above = Above(n, outer) /\ above[1] \in Nodes
                                /\ KindOf(p) \notin Through => above[1] = p
  <2>1. CASE KindOf(n) = "descriptionListTerm"
    <3>1. Self(p) \in Element /\ Self(p)[1] = p
      BY DEF Self, Element, Names
    <3> QED BY <1>11, <1>14, <2>1, <3>1 DEF Above
  <2>2. CASE KindOf(n) # "descriptionListTerm"
    <3>1. KindOf(p) \notin Through => outer[1] = p
      BY <1>9, <1>12, <2>2 DEF Suits
    <3> QED BY <1>14, <2>2, <3>1 DEF Above
  <2> QED BY <2>1, <2>2
<1>16. Hang(Self(n), above) \in RightOnes
  <2>1. Self(n) \in Element /\ Self(n)[1] = n /\ Self(n)[2] = "self"
    BY <1>12 DEF Self, Element, Names
  <2> DEFINE h == Hang(Self(n), above)
  <2>2. h \in Hung /\ h.of = Self(n) /\ h.to = above
    BY <2>1 DEF Hung, Hang
  <2> HIDE DEF h
  <2>3. Right(h)
    BY <1>11, <1>15, <2>1, <2>2 DEF Right
  <2> QED BY <2>2, <2>3 DEF RightOnes, h
<1>17. Own(Top.node, Top.old) \in Seq(RightOnes)
  <2>1. <<Hang(Self(n), above)>> \in Seq(RightOnes) /\ <<>> \in Seq(RightOnes)
    BY <1>16, TuplesAreSeqs, EmptySeq
  <2> QED BY <1>8, <1>11, <1>15, <2>1 DEF Own
<1>18. OutInv'
  <2>1. Done(Top.node, PartNow) \in Seq(RightOnes)
    BY <1>3, DoneRight
  <2>2. RightOnes' = RightOnes
    BY <1>4 DEF RightOnes, Right, Nodes, KindOf
  <2>3. out \o Done(Top.node, PartNow) \in Seq(RightOnes)
    BY <1>1, <2>1, ConcatProperties DEF OutInv
  <2> QED BY <1>4, <1>17, <2>2, <2>3, ConcatProperties DEF OutInv
<1> QED BY <1>6, <1>7, <1>10, <1>18 DEF RInv

LEMMA FinishInv ==
  ASSUME RInv, Finish PROVE RInv'
<1>1. TreeInv /\ CallsInv /\ CurrentInv /\ OutInv
  BY DEF RInv
<1>2. /\ Len(calls) = 1 /\ calls' = <<>> /\ current_node' = Top.old
      /\ ast' = ast /\ family' = family /\ cell_style' = cell_style
  BY DEF Finish
<1>3. Top.old = Self(1) /\ 1 \in Nodes
  BY <1>1, <1>2 DEF CallsInv, VisitInv, Top, TreeInv, Nodes
<1>4. TreeInv'
  BY <1>1, <1>2 DEF TreeInv
<1>5. CallsInv'
  BY <1>2, EmptySeq DEF CallsInv
<1>6. CurrentInv'
  <2>1. Self(1) \in Element
    BY DEF Self, Element, Names
  <2> QED BY <1>1, <1>2, <1>3, <2>1 DEF CurrentInv
<1>7. OutInv'
  <2>1. Hang(<<1, "root section">>, Self(1)) \in RightOnes
    BY <1>3 DEF Hang, Self, RightOnes, Right, Hung, Element, Names
  <2>2. RightOnes' = RightOnes
    BY <1>2 DEF RightOnes, Right, Nodes, KindOf
  <2>3. out' = out \/ out' = Append(out, Hang(<<1, "root section">>, Self(1)))
    BY DEF Finish
  <2>4. Append(out, Hang(<<1, "root section">>, Self(1))) \in Seq(RightOnes)
    BY <1>1, <2>1, AppendProperties DEF OutInv
  <2>5. out' \in Seq(RightOnes)
    BY <1>1, <2>3, <2>4 DEF OutInv
  <2> QED BY <2>2, <2>5 DEF OutInv
<1> QED BY <1>4, <1>5, <1>6, <1>7 DEF RInv

LEMMA NextInv ==
  ASSUME RInv, [Next]_vars PROVE RInv'
<1>1. ASSUME NEW kind \in Kinds, VisitLeaf(kind) PROVE RInv'
  BY <1>1, VisitLeafInv
<1>2. ASSUME NEW kind \in Kinds, NEW opt \in Options(kind), Enter(kind, opt) PROVE RInv'
  BY <1>2, EnterInv
<1>3. CASE NextPart
  BY <1>3, NextPartInv
<1>4. CASE Leave
  BY <1>4, LeaveInv
<1>5. CASE Finish
  BY <1>5, FinishInv
<1>6. CASE UNCHANGED vars
  <2>1. UNCHANGED <<family, ast, calls, current_node, cell_style, out>>
    BY <1>6 DEF vars
  <2>2. TreeInv'
    BY <2>1 DEF RInv, TreeInv
  <2>3. \A f, j : Suits(f, j)' <=> Suits(f, j)
    BY <2>1 DEF Suits, AtTerms, KindOf
  <2>4. CallsInv'
    BY <2>1, <2>3 DEF RInv, CallsInv, VisitInv, AtTerms, KindOf, Nodes
  <2>5. CurrentInv'
    BY <2>1, <2>3 DEF RInv, CurrentInv
  <2>6. OutInv'
    BY <2>1 DEF RInv, OutInv, RightOnes, Right, KindOf, Nodes
  <2> QED BY <2>2, <2>4, <2>5, <2>6 DEF RInv
<1> QED BY <1>1, <1>2, <1>3, <1>4, <1>5, <1>6 DEF Next

LEMMA Invariant == Spec => []RInv
BY InitInv, NextInv, PTL DEF Spec

\* The walk has a node of the tree, a name of an element and a style wherever
\* the backend has a docutils node or a style, and is always within its stack.
THEOREM TypeCorrect == Spec => []TypeOK
<1>1. ASSUME RInv PROVE TypeOK
  <2>1. TreeInv /\ CallsInv /\ CurrentInv /\ OutInv
    BY <1>1 DEF RInv
  <2>2. \A e \in Element : e[1] \in Nodes => e \in Elements
    BY DEF Element, Elements, Names
  <2>3. ast \in Seq([kind : Kinds, in : Nat, part : PartNames, opt : UNION {Options(k) : k \in Kinds}])
    BY <2>1 DEF TreeInv, NodeRec, Opts
  <2>4. \A i \in 1 .. Len(calls) : calls[i].node \in Nodes
    BY <2>1 DEF CallsInv, VisitInv
  <2>5. /\ current_node \in Element
        /\ current_node[1] \in {1} \cup {calls[i].node : i \in 1 .. Len(calls)}
    BY <2>1 DEF CurrentInv, Suits, Self
  <2>6. current_node \in Elements
    BY <2>1, <2>2, <2>4, <2>5 DEF TreeInv, Nodes
  <2>7. \A i \in 1 .. Len(out) : out[i].of \in Elements /\ out[i].to \in Elements
    <3> SUFFICES ASSUME NEW i \in 1 .. Len(out)
                 PROVE  out[i].of \in Elements /\ out[i].to \in Elements
      OBVIOUS
    <3>1. out[i] \in RightOnes
      BY <2>1 DEF OutInv
    <3> QED BY <2>2, <3>1 DEF RightOnes, Right, Hung
  <2>8. \A i \in 1 .. Len(calls) :
          /\ calls[i].at \in 1 .. Len(Parts(ast[calls[i].node].kind))
          /\ calls[i].old \in Elements /\ calls[i].style \in Styles
    <3> SUFFICES ASSUME NEW i \in 1 .. Len(calls)
                 PROVE  /\ calls[i].at \in 1 .. Len(Parts(ast[calls[i].node].kind))
                        /\ calls[i].old \in Elements /\ calls[i].style \in Styles
      OBVIOUS
    <3>1. VisitInv(i) /\ calls[i] \in Visit
      BY <2>1 DEF CallsInv
    <3>2. PICK old \in Element : old = calls[i].old
      BY <3>1 DEF Visit
    <3>3. old[1] \in Nodes
      BY <2>1, <2>4, <3>1, <3>2 DEF VisitInv, Suits, Self, TreeInv, Nodes
    <3> QED BY <2>2, <3>1, <3>2, <3>3 DEF VisitInv, KindOf, Visit
  <2> QED BY <2>1, <2>3, <2>4, <2>5, <2>6, <2>7, <2>8 DEF TypeOK, TreeInv, CurrentInv
<1> QED BY <1>1, Invariant, PTL

\* Whatever the tree, and whichever visitors came back in between: an element
\* hangs under an element of the node above its own in the tree.
THEOREM EveryElementUnderItsParent == Spec => []UnderItsParent
<1>1. ASSUME RInv PROVE UnderItsParent
  <2>1. \A i \in 1 .. Len(out) : Right(out[i])
    BY <1>1 DEF RInv, OutInv, RightOnes
  <2> QED BY <2>1 DEF UnderItsParent, Right
<1> QED BY <1>1, Invariant, PTL

-----------------------------------------------------------------------------
(* What a node inherits                                                    *)

LEMMA Least ==
  ASSUME NEW S \in SUBSET Nat, S # {}
  PROVE  \E n \in S : \A m \in S : n <= m
<1> DEFINE R == OpToRel(<, Nat)
<1>1. \A m, n \in Nat : m < n => <<m, n>> \in R
  BY DEF OpToRel
<1>2. IsWellFoundedOn(R, Nat)
  BY NatLessThanWellFounded
<1> HIDE DEF R
<1>3. PICK n \in S : \A m \in S : ~ (<<m, n>> \in R)
  BY <1>2, WFMin
<1>4. \A m \in S : ~ (m < n)
  BY <1>1, <1>3
<1> QED BY <1>3, <1>4

\* The nodes in T, of the first N, have what the node above them has, the others
\* what c says.
Upwards(N, T, up) == \A n \in 1 .. N : n \in T => up[n] \in 1 .. n - 1
Inherits(g, N, T, up, c) == \A n \in 1 .. N : g[n] = IF n \in T THEN g[up[n]] ELSE c[n]
Inheritable(N, T, up, c) == \E g : g = [n \in 1 .. N |-> IF n \in T THEN g[up[n]] ELSE c[n]]

\* There is a function that gives every node what it inherits.
LEMMA Inherited ==
  ASSUME NEW N \in Nat, NEW T, NEW up, NEW c, Upwards(N, T, up)
  PROVE  Inheritable(N, T, up, c)
<1> USE DEF Upwards, Inheritable
<1> DEFINE FillsTo(m) == \E g : g = [n \in 1 .. m |-> IF n \in T THEN g[up[n]] ELSE c[n]]
           Bad == {m \in 0 .. N : ~ FillsTo(m)}
<1> SUFFICES ASSUME Bad # {} PROVE FALSE
  <2>1. N \in 0 .. N
    OBVIOUS
  <2> QED BY <2>1
<1>1. PICK m \in Bad : \A k \in Bad : m <= k
  <2>1. Bad \in SUBSET Nat
    OBVIOUS
  <2> HIDE DEF Bad
  <2> QED BY <2>1, Least
<1>2. m \in 0 .. N /\ ~ FillsTo(m)
  OBVIOUS
<1>3. m # 0
  <2>1. [n \in 1 .. 0 |-> 0] = [n \in 1 .. 0 |-> IF n \in T THEN [i \in 1 .. 0 |-> 0][up[n]] ELSE c[n]]
    OBVIOUS
  <2>2. FillsTo(0)
    BY <2>1
  <2> QED BY <1>2, <2>2
<1>4. FillsTo(m - 1)
  <2>1. m - 1 \in 0 .. N /\ ~ (m <= m - 1)
    BY <1>2, <1>3
  <2> QED BY <1>1, <2>1
<1>5. PICK g : g = [n \in 1 .. m - 1 |-> IF n \in T THEN g[up[n]] ELSE c[n]]
  BY <1>4
<1> PICK h : h = [n \in 1 .. m |-> IF n = m THEN (IF m \in T THEN g[up[m]] ELSE c[m]) ELSE g[n]]
  OBVIOUS
<1>6. \A n \in 1 .. m - 1 : h[n] = g[n] /\ n \in 1 .. m /\ n \in 1 .. N
  BY <1>2
<1>7. \A n \in 1 .. m : h[n] = IF n \in T THEN h[up[n]] ELSE c[n]
  <2> SUFFICES ASSUME NEW n \in 1 .. m PROVE h[n] = IF n \in T THEN h[up[n]] ELSE c[n]
    OBVIOUS
  <2>1. n \in T => up[n] \in 1 .. m - 1
    <3>1. n \in 1 .. N
      BY <1>2
    <3>2. n \in T => up[n] \in 1 .. n - 1
      BY <3>1
    <3> QED BY <1>2, <3>2
  <2>2. n \in T => h[up[n]] = g[up[n]]
    BY <1>6, <2>1
  <2>3. CASE n = m
    BY <2>2, <2>3
  <2>4. CASE n # m
    <3>1. n \in 1 .. m - 1
      BY <1>2, <2>4
    <3>2. h[n] = g[n] /\ g[n] = IF n \in T THEN g[up[n]] ELSE c[n]
      BY <1>5, <1>6, <3>1
    <3> QED BY <2>2, <3>2
  <2> QED BY <2>3, <2>4
<1>8. h = [n \in 1 .. m |-> h[n]]
  OBVIOUS
<1>9. h = [n \in 1 .. m |-> IF n \in T THEN h[up[n]] ELSE c[n]]
  BY <1>7, <1>8, Zenon
<1> QED BY <1>2, <1>9

\* And only one.
LEMMA SameInheritance ==
  ASSUME NEW N \in Nat, NEW T, NEW up, NEW c, Upwards(N, T, up),
         NEW g, Inherits(g, N, T, up, c), NEW h, Inherits(h, N, T, up, c)
  PROVE  \A n \in 1 .. N : g[n] = h[n]
<1> USE DEF Upwards, Inherits
<1> DEFINE Bad == {n \in 1 .. N : g[n] # h[n]}
<1> SUFFICES ASSUME Bad # {} PROVE FALSE
  OBVIOUS
<1>1. PICK m \in Bad : \A k \in Bad : m <= k
  <2>1. Bad \in SUBSET Nat
    OBVIOUS
  <2> HIDE DEF Bad
  <2> QED BY <2>1, Least
<1>2. m \in 1 .. N /\ g[m] # h[m]
  OBVIOUS
<1>3. m \in T => g[up[m]] = h[up[m]]
  <2>1. m \in T => up[m] \in 1 .. m - 1 /\ up[m] \in 1 .. N /\ ~ (m <= up[m])
    BY <1>2
  <2> QED BY <1>1, <2>1
<1> QED BY <1>2, <1>3

\* What StyleAround and Around are for every node of a tree.
StylesAre ==
  \A n \in Nodes : StyleAround[n] =
    IF n = 1 THEN "none" ELSE IF KindOf(n) = "cell" THEN ast[n].opt.tag ELSE StyleAround[ast[n].in]

ElementsAre ==
  \A n \in Nodes : Around[n] =
    IF n = 1 THEN Self(1)
    ELSE IF KindOf(ast[n].in) \in Through THEN Around[ast[n].in]
    ELSE ElementOf(ast[n].in, ast[n].part)

LEMMA StylesDefined == TreeInv => StylesAre
<1> SUFFICES ASSUME TreeInv PROVE StylesAre
  OBVIOUS
<1> PICK T : T = {n \in Nodes : n # 1 /\ KindOf(n) # "cell"}
  OBVIOUS
<1> PICK up : up = [n \in Nodes |-> ast[n].in]
  OBVIOUS
<1> PICK c : c = [n \in Nodes |-> IF n = 1 THEN "none" ELSE ast[n].opt.tag]
  OBVIOUS
<1>1. PICK N \in Nat : N = Len(ast) /\ Nodes = 1 .. N
  BY DEF TreeInv, Nodes
<1>2. Upwards(N, T, up)
  BY <1>1 DEF TreeInv, Upwards
<1>3. PICK g : g = [n \in 1 .. N |-> IF n \in T THEN g[up[n]] ELSE c[n]]
  <2>1. Inheritable(N, T, up, c)
    BY <1>2, Inherited
  <2> QED BY <2>1 DEF Inheritable
<1>4. \A n \in Nodes : (IF n \in T THEN g[up[n]] ELSE c[n]) =
        IF n = 1 THEN "none" ELSE IF KindOf(n) = "cell" THEN ast[n].opt.tag ELSE g[ast[n].in]
  OBVIOUS
<1>5. g = [n \in Nodes |->
        IF n = 1 THEN "none" ELSE IF KindOf(n) = "cell" THEN ast[n].opt.tag ELSE g[ast[n].in]]
  BY <1>1, <1>3, <1>4, Zenon
<1>6. StyleAround = [n \in Nodes |->
        IF n = 1 THEN "none" ELSE IF KindOf(n) = "cell" THEN ast[n].opt.tag ELSE StyleAround[ast[n].in]]
  BY <1>5, Zenon DEF StyleAround
<1> QED BY <1>6, Zenon DEF StylesAre

LEMMA ElementsDefined == TreeInv => ElementsAre
<1> SUFFICES ASSUME TreeInv PROVE ElementsAre
  OBVIOUS
<1> PICK T : T = {n \in Nodes : n # 1 /\ KindOf(ast[n].in) \in Through}
  OBVIOUS
<1> PICK up : up = [n \in Nodes |-> ast[n].in]
  OBVIOUS
<1> PICK c : c = [n \in Nodes |-> IF n = 1 THEN Self(1) ELSE ElementOf(ast[n].in, ast[n].part)]
  OBVIOUS
<1>1. PICK N \in Nat : N = Len(ast) /\ Nodes = 1 .. N
  BY DEF TreeInv, Nodes
<1>2. Upwards(N, T, up)
  BY <1>1 DEF TreeInv, Upwards
<1>3. PICK g : g = [n \in 1 .. N |-> IF n \in T THEN g[up[n]] ELSE c[n]]
  <2>1. Inheritable(N, T, up, c)
    BY <1>2, Inherited
  <2> QED BY <2>1 DEF Inheritable
<1>4. \A n \in Nodes : (IF n \in T THEN g[up[n]] ELSE c[n]) =
        IF n = 1 THEN Self(1)
        ELSE IF KindOf(ast[n].in) \in Through THEN g[ast[n].in]
        ELSE ElementOf(ast[n].in, ast[n].part)
  OBVIOUS
<1>5. g = [n \in Nodes |->
        IF n = 1 THEN Self(1)
        ELSE IF KindOf(ast[n].in) \in Through THEN g[ast[n].in]
        ELSE ElementOf(ast[n].in, ast[n].part)]
  BY <1>1, <1>3, <1>4, Zenon
<1>6. Around = [n \in Nodes |->
        IF n = 1 THEN Self(1)
        ELSE IF KindOf(ast[n].in) \in Through THEN Around[ast[n].in]
        ELSE ElementOf(ast[n].in, ast[n].part)]
  BY <1>5, Zenon DEF Around
<1> QED BY <1>6, Zenon DEF ElementsAre

LEMMA StylesDefinedNext == TreeInv' => StylesAre'
BY StylesDefined, PTL

LEMMA ElementsDefinedNext == TreeInv' => ElementsAre'
BY ElementsDefined, PTL

\* The tree grows at its end: the styles stay as they are.
LEMMA StylesStay ==
  ASSUME TreeInv, TreeInv', Nodes \subseteq Nodes', \A m \in Nodes : ast'[m] = ast[m]
  PROVE  \A n \in Nodes : StyleAround'[n] = StyleAround[n]
<1> PICK T : T = {n \in Nodes : n # 1 /\ KindOf(n) # "cell"}
  OBVIOUS
<1> PICK up : up = [n \in Nodes |-> ast[n].in]
  OBVIOUS
<1> PICK c : c = [n \in Nodes |-> IF n = 1 THEN "none" ELSE ast[n].opt.tag]
  OBVIOUS
<1>1. PICK N \in Nat : N = Len(ast) /\ Nodes = 1 .. N
  BY DEF TreeInv, Nodes
<1>2. Upwards(N, T, up)
  BY <1>1 DEF TreeInv, Upwards
<1>3. Inherits(StyleAround, N, T, up, c)
  BY <1>1, StylesDefined DEF StylesAre, Inherits
<1>4. Inherits(StyleAround', N, T, up, c)
  <2> SUFFICES ASSUME NEW n \in 1 .. N
               PROVE  StyleAround'[n] = IF n \in T THEN StyleAround'[up[n]] ELSE c[n]
    BY DEF Inherits
  <2>1. n \in Nodes /\ n \in Nodes' /\ ast'[n] = ast[n]
    BY <1>1
  <2>2. StyleAround'[n] = IF n = 1 THEN "none" ELSE IF KindOf(n)' = "cell" THEN ast'[n].opt.tag
                          ELSE StyleAround'[ast'[n].in]
    BY <2>1, StylesDefinedNext DEF StylesAre
  <2> QED BY <2>1, <2>2 DEF KindOf
<1> PICK s : s = StyleAround
  OBVIOUS
<1> PICK t : t = StyleAround'
  OBVIOUS
<1>5. \A n \in 1 .. N : s[n] = t[n]
  BY <1>2, <1>3, <1>4, SameInheritance
<1> QED BY <1>1, <1>5

-----------------------------------------------------------------------------
(* Parts and their elements                                                *)

\* The parts of every kind of node.
LEMMA PartsList ==
  ASSUME NEW k
  PROVE  /\ k \in {"document", "section", "sidebar", "collapsible"} => Parts(k) = <<"title", "blocks">>
         /\ k \in Boxes \ {"sidebar", "collapsible"} => Parts(k) = <<"blocks">>
         /\ k = "heading" => Parts(k) = <<"title">>
         /\ k \in {"paragraph", "span", "ref", "indexterm", "descriptionListTerm"} => Parts(k) = <<"inlines">>
         /\ k \in ListKinds => Parts(k) = <<"items">>
         /\ k \in {"listItem", "calloutListItem"} => Parts(k) = <<"principal", "blocks">>
         /\ k = "descriptionListItem" => Parts(k) = <<"terms", "blocks">>
         /\ k = "table" => Parts(k) = <<"rows">>
         /\ k = "row" => Parts(k) = <<"cells">>
         /\ k = "cell" => Parts(k) = <<"blocks">>
         /\ k \in LeafBlocks \cup LeafInlines => Parts(k) = <<>>
<1>1. CASE k \in Boxes \cup {"document", "section", "heading", "paragraph", "span", "ref", "indexterm"}
  BY <1>1 DEF Parts, Boxes, LeafBlocks, LeafInlines, ListKinds
<1>2. CASE k \in LeafBlocks \cup LeafInlines
  BY <1>2 DEF Parts, Boxes, LeafBlocks, LeafInlines, ListKinds
<1>3. CASE k \in ListKinds \cup {"listItem", "calloutListItem", "descriptionListItem",
                                 "descriptionListTerm"}
  <2>1. Parts(k) = ListParts(k)
    BY <1>3 DEF Parts, Boxes, LeafBlocks, LeafInlines, ListKinds
  <2> QED BY <1>3, <2>1 DEF ListParts, ListKinds, Boxes, LeafBlocks, LeafInlines
<1>4. CASE k \in {"table", "row", "cell"}
  <2>1. Parts(k) = TableParts(k)
    BY <1>4 DEF Parts, Boxes, LeafBlocks, LeafInlines, ListKinds
  <2> QED BY <1>4, <2>1 DEF TableParts, Boxes, LeafBlocks, LeafInlines, ListKinds
<1> QED BY <1>1, <1>2, <1>3, <1>4 DEF Boxes, ListKinds

\* What kinds of nodes have a part, and which one it is.
LEMMA PartsAt ==
  ASSUME NEW k \in Kinds, NEW j \in 1 .. Len(Parts(k)), NEW part, part = Parts(k)[j]
  PROVE  /\ part = "title" => j = 1 /\ k \in {"document", "section", "sidebar", "collapsible", "heading"}
         /\ part = "blocks" =>
              /\ j = Len(Parts(k))
              /\ k \in Boxes \cup {"document", "section", "listItem", "calloutListItem",
                                   "descriptionListItem", "cell"}
         /\ part = "principal" => j = 1 /\ k \in {"listItem", "calloutListItem"}
         /\ part = "terms" => j = 1 /\ k = "descriptionListItem"
         /\ part = "inlines" => k \in {"paragraph", "span", "ref", "indexterm", "descriptionListTerm"}
         /\ part = "items" => k \in ListKinds
         /\ part = "rows" => k = "table"
         /\ part = "cells" => k = "row"
         /\ k = "descriptionListItem" => j = 1 \/ part = "blocks"
         /\ part \in {"title", "blocks", "principal", "terms", "inlines", "items", "rows", "cells"}
<1>1. CASE k \in {"document", "section", "sidebar", "collapsible"}
  <2>1. Parts(k) = <<"title", "blocks">>
    BY <1>1, PartsList
  <2> QED BY <1>1, <2>1 DEF Boxes, ListKinds
<1>2. CASE k \in Boxes \ {"sidebar", "collapsible"}
  <2>1. Parts(k) = <<"blocks">>
    BY <1>2, PartsList
  <2> QED BY <1>2, <2>1 DEF Boxes, ListKinds
<1>3. CASE k = "heading"
  <2>1. Parts(k) = <<"title">>
    BY <1>3, PartsList
  <2> QED BY <1>3, <2>1 DEF Boxes, ListKinds
<1>4. CASE k \in {"paragraph", "span", "ref", "indexterm", "descriptionListTerm"}
  <2>1. Parts(k) = <<"inlines">>
    BY <1>4, PartsList
  <2> QED BY <1>4, <2>1 DEF Boxes, ListKinds
<1>5. CASE k \in ListKinds
  <2>1. Parts(k) = <<"items">>
    BY <1>5, PartsList
  <2> QED BY <1>5, <2>1 DEF Boxes, ListKinds
<1>6. CASE k \in {"listItem", "calloutListItem"}
  <2>1. Parts(k) = <<"principal", "blocks">>
    BY <1>6, PartsList
  <2> QED BY <1>6, <2>1 DEF Boxes, ListKinds
<1>7. CASE k = "descriptionListItem"
  <2>1. Parts(k) = <<"terms", "blocks">>
    BY <1>7, PartsList
  <2>2. Len(Parts(k)) = 2 /\ j \in 1 .. 2
    BY <2>1
  <2>3. (j = 1 /\ part = "terms") \/ (j = 2 /\ part = "blocks")
    BY <2>1, <2>2
  <2> QED BY <1>7, <2>2, <2>3
<1>8. CASE k \in {"table", "row", "cell"}
  BY <1>8, PartsList
<1>9. k \notin LeafBlocks \cup LeafInlines
  BY PartsList
<1> QED BY <1>1, <1>2, <1>3, <1>4, <1>5, <1>6, <1>7, <1>8, <1>9 DEF Kinds, Blocks, Inlines

\* The element around what is in a part, from what it depends on.
Elem(k, n, part, style, titled) ==
  CASE part = "title" /\ k # "heading"                     -> <<n, "title">>
    [] part = "principal"                                  -> <<n, "para">>
    [] part = "rows"                                       -> <<n, "tbody">>
    [] part = "blocks" /\ k = "descriptionListItem"        -> <<n, "definition">>
    [] part = "blocks" /\ k = "document" /\ titled         -> <<n, "root section">>
    [] part = "inlines" /\ k = "paragraph" /\ style # "none" -> <<n, style>>
    [] OTHER                                               -> Self(n)

LEMMA ElementIs ==
  \A p, part : ElementOf(p, part) = Elem(KindOf(p), p, part, StyleAround[p], Has(p, "title"))
BY DEF ElementOf, Elem

LEMMA ElementIsNext ==
  \A p, part : ElementOf(p, part)' = Elem(KindOf(p)', p, part, StyleAround'[p], Has(p, "title")')
BY DEF ElementOf, Elem

\* Every visitor makes current what a reader of the tree expects.
LEMMA InsideIs ==
  ASSUME NEW k \in Kinds, NEW j \in 1 .. Len(Parts(k)), NEW part, part = Parts(k)[j],
         ~ (k = "descriptionListItem" /\ j = 1), NEW n, NEW outer
  PROVE  Inside(k, n, part, outer) =
           IF k \in Through THEN outer ELSE Elem(k, n, part, cell_style, Has(n, "title"))
<1>0. /\ part = "title" => k \in {"document", "section", "sidebar", "collapsible", "heading"}
      /\ part = "blocks" => k \in Boxes \cup {"document", "section", "listItem", "calloutListItem",
                                              "descriptionListItem", "cell"}
      /\ part = "principal" => k \in {"listItem", "calloutListItem"}
      /\ part = "terms" => k = "descriptionListItem" /\ j = 1
      /\ part = "inlines" => k \in {"paragraph", "span", "ref", "indexterm", "descriptionListTerm"}
      /\ part = "items" => k \in ListKinds
      /\ part = "rows" => k = "table"
      /\ part = "cells" => k = "row"
      /\ k = "descriptionListItem" => part = "blocks"
      /\ part \in {"title", "blocks", "principal", "terms", "inlines", "items", "rows", "cells"}
  BY PartsAt
<1>1. CASE k = "document"
  BY <1>0, <1>1 DEF Inside, InDocument, Elem, Through, TitledBoxes, Boxes, ListKinds, Self
<1>2. CASE k \in {"section", "heading"}
  BY <1>0, <1>2 DEF Inside, InSection, InHeading, Elem, Through, TitledBoxes, Boxes, ListKinds, Self
<1>3. CASE k = "paragraph"
  BY <1>0, <1>3 DEF Inside, InParagraph, Elem, Through, TitledBoxes, Boxes, ListKinds, Self
<1>4. CASE k \in {"listItem", "calloutListItem"}
  BY <1>0, <1>4 DEF Inside, InItem, Elem, Through, TitledBoxes, Boxes, ListKinds, Self
<1>5. CASE k = "descriptionListItem"
  BY <1>0, <1>5 DEF Inside, InDefinition, Elem, Through, TitledBoxes, Boxes, ListKinds, Self
<1>6. CASE k = "table"
  BY <1>0, <1>6 DEF Inside, InTable, Elem, Through, TitledBoxes, Boxes, ListKinds, Self
<1>7. CASE k \in Through
  BY <1>7 DEF Inside, Through, TitledBoxes
<1>8. CASE k \in TitledBoxes
  BY <1>0, <1>8 DEF Inside, InTitledBox, Elem, Through, TitledBoxes, Boxes, ListKinds, Self
<1>9. CASE k \in Boxes \ (TitledBoxes \cup Through)
  BY <1>0, <1>9 DEF Inside, InBox, Elem, Through, TitledBoxes, Boxes, ListKinds, Self
<1>10. CASE k \in {"span", "ref", "descriptionListTerm", "row", "cell"} \cup ListKinds
  BY <1>0, <1>10 DEF Inside, InElement, Elem, Through, TitledBoxes, Boxes, ListKinds, Self
<1>11. k \notin LeafBlocks \cup LeafInlines
  BY PartsList
<1> QED BY <1>1, <1>2, <1>3, <1>4, <1>5, <1>6, <1>7, <1>8, <1>9, <1>10, <1>11
        DEF Kinds, Blocks, Inlines, Through, TitledBoxes

-----------------------------------------------------------------------------
(* What is current, and where it hangs                                     *)

\* The part that the i-th visit under way is at.
PartAt(i) == Parts(KindOf(calls[i].node))[calls[i].at]

\* Only the root is a document; terms are where terms are.
TermsInv ==
  /\ KindOf(1) = "document"
  /\ \A n \in 2 .. Len(ast) : KindOf(n) = "descriptionListTerm" =>
       ast[n].part = "terms" /\ KindOf(ast[n].in) = "descriptionListItem"

\* As long as a visit is at its first part, its node has children there only.
FirstParts ==
  \A i \in 1 .. Len(calls), n \in 2 .. Len(ast) :
    calls[i].at = 1 /\ ast[n].in = calls[i].node => ast[n].part = PartAt(i)

\* What a visit has saved is what was around its node.
FrameInv(i) ==
  /\ ast[calls[i].node].part = PartAt(i - 1)
  /\ calls[i].style = StyleAround[calls[i - 1].node]
  /\ KindOf(calls[i].node) # "descriptionListTerm" => calls[i].old = Around[calls[i].node]

FramesInv ==
  /\ \A i, j \in 1 .. Len(calls) : i < j => calls[i].node < calls[j].node
  /\ \A i \in 2 .. Len(calls) : FrameInv(i)

\* The element a reader of the tree expects around a child in a part of node n.
Expected(n, part) == IF KindOf(n) \in Through THEN Around[n] ELSE ElementOf(n, part)

\* What is current is right for the next child, except for terms, which do not
\* look at it.
TopInv ==
  calls # <<>> =>
    /\ cell_style = StyleAround[Top.node]
    /\ ~AtTerms(Top) => current_node = Expected(Top.node, PartNow)

SInv == TermsInv /\ FirstParts /\ FramesInv /\ TopInv

\* What the grammar has where.
LEMMA FitsFacts ==
  ASSUME NEW n, NEW k \in Kinds, k = KindOf(n), NEW j \in 1 .. Len(Parts(k)),
         NEW part, part = Parts(k)[j], NEW kind, Fits(kind, n, part)
  PROVE  /\ kind # "document"
         /\ kind = "descriptionListTerm" <=> part = "terms"
         /\ part = "terms" => k = "descriptionListItem" /\ j = 1
<1>1. /\ part = "items" => k \in ListKinds
      /\ part = "terms" => k = "descriptionListItem" /\ j = 1
  BY PartsAt
<1>2. k \in ListKinds => ItemKind[k] \in {"listItem", "calloutListItem", "descriptionListItem"}
  BY DEF ListKinds, ItemKind
<1>3. part = "terms" => kind = "descriptionListTerm"
  BY TermsFit
<1>4. \/ kind \in Inlines \cup Blocks \cup {"section", "row", "cell"}
      \/ kind \in {"listItem", "calloutListItem", "descriptionListItem"}
      \/ kind = "descriptionListTerm" /\ part = "terms"
  BY <1>1, <1>2 DEF Fits
<1>5. {"document", "descriptionListTerm"} \cap (Inlines \cup Blocks) = {}
  BY DEF Inlines, Blocks, LeafInlines, LeafBlocks, Boxes, ListKinds
<1> QED BY <1>1, <1>3, <1>4, <1>5

\* A new child, in full.
NewChild(kind, opt, n, p, part) ==
  /\ n \in Nat /\ n > 1 /\ Len(ast) = n - 1 /\ Len(ast') = n /\ Nodes = 1 .. n - 1 /\ Nodes' = 1 .. n
  /\ p \in Nodes /\ part \in PartNames
  /\ p = Top.node /\ part = PartNow /\ p = calls[Len(calls)].node /\ part = PartAt(Len(calls))
  /\ \A m \in Nodes : ast'[m] = ast[m]
  /\ ast'[n].kind = kind /\ ast'[n].in = p /\ ast'[n].part = part /\ ast'[n].opt = opt
  /\ kind # "document" /\ (kind = "descriptionListTerm" <=> part = "terms")
  /\ AtTerms(Top) <=> part = "terms"
  /\ part = "terms" => KindOf(p) = "descriptionListItem"

LEMMA ChildIs ==
  ASSUME RInv, NEW kind \in Kinds, NEW opt, Child(kind, opt)
  PROVE  \E p, part : NewChild(kind, opt, Len(ast) + 1, p, part)
<1>1. TreeInv /\ CallsInv /\ CurrentInv /\ calls # <<>>
  BY DEF RInv, Child
<1>2. /\ Len(calls) \in Nat \ {0} /\ Top.node \in Nodes /\ PartNow \in PartNames
      /\ Top.at \in 1 .. Len(Parts(KindNow)) /\ KindNow \in Kinds
      /\ AtTerms(Top) <=> KindNow = "descriptionListItem" /\ PartNow = "terms"
  BY <1>1, TopFacts
<1>3. PICK p \in Nodes, part \in PartNames : p = Top.node /\ part = PartNow
  BY <1>2
<1>4. PICK around : Grow(kind, opt, p, part, around)
  BY <1>3 DEF Child
<1>5. Fits(kind, p, part)
  BY <1>4 DEF Grow
<1>6. /\ kind # "document"
      /\ kind = "descriptionListTerm" <=> part = "terms"
      /\ part = "terms" => KindOf(p) = "descriptionListItem"
  <2> PICK k \in Kinds : k = KindNow
    BY <1>2
  <2>1. PICK j \in 1 .. Len(Parts(k)) : j = Top.at
    BY <1>2
  <2>2. k = KindOf(p) /\ part = Parts(k)[j]
    BY <1>3, <2>1 DEF KindNow, PartNow
  <2> QED BY <1>5, <2>2, FitsFacts
<1>7. PICK new : new = [kind |-> kind, in |-> p, part |-> part, opt |-> opt]
  OBVIOUS
<1>8. new.kind = kind /\ new.in = p /\ new.part = part /\ new.opt = opt
  BY <1>7
<1>9. ast' = Append(ast, new)
  BY <1>4, <1>7 DEF Grow
<1>10. /\ Len(ast) \in Nat \ {0} /\ Len(ast') = Len(ast) + 1
       /\ \A m \in 1 .. Len(ast) : ast'[m] = ast[m]
       /\ ast'[Len(ast) + 1] = new
  BY <1>1, <1>9 DEF TreeInv
<1>11. p = calls[Len(calls)].node /\ part = PartAt(Len(calls))
  BY <1>3 DEF Top, PartNow, KindNow, PartAt
<1>12. AtTerms(Top) <=> part = "terms"
  BY <1>2, <1>3, <1>6 DEF KindNow
<1> QED BY <1>3, <1>6, <1>8, <1>10, <1>11, <1>12 DEF NewChild, Nodes

\* What is around a node does not depend on what comes after it.
LEMMA ElementStays ==
  ASSUME TreeInv, TreeInv', Nodes \subseteq Nodes', \A m \in Nodes : ast'[m] = ast[m],
         NEW p \in Nodes, NEW part,
         part = "blocks" /\ KindOf(p) = "document" => (Has(p, "title")' <=> Has(p, "title"))
  PROVE  ElementOf(p, part)' = ElementOf(p, part)
<1>1. StyleAround'[p] = StyleAround[p] /\ KindOf(p)' = KindOf(p)
  BY StylesStay DEF KindOf
<1>2. PICK s : s = StyleAround[p]
  OBVIOUS
<1> PICK k : k = KindOf(p)
  OBVIOUS
<1>3. ElementOf(p, part) = Elem(k, p, part, s, Has(p, "title"))
  BY <1>2, ElementIs
<1>4. ElementOf(p, part)' = Elem(k, p, part, s, Has(p, "title")')
  BY <1>1, <1>2, ElementIsNext
<1> QED BY <1>2, <1>3, <1>4 DEF Elem

\* Where the children of a node, of a part, hang.
Holds(p, part) == \E n \in 2 .. Len(ast) : ast[n].in = p /\ ast[n].part = part

LEMMA AroundStays ==
  ASSUME TreeInv, TreeInv', Nodes \subseteq Nodes', \A m \in Nodes : ast'[m] = ast[m],
         \A p \in Nodes, part \in PartNames :
           Holds(p, part) => ElementOf(p, part)' = ElementOf(p, part)
  PROVE  \A n \in Nodes : Around'[n] = Around[n]
<1> PICK T : T = {n \in Nodes : n # 1 /\ KindOf(ast[n].in) \in Through}
  OBVIOUS
<1> PICK up : up = [n \in Nodes |-> ast[n].in]
  OBVIOUS
<1> PICK c : c = [n \in Nodes |-> IF n = 1 THEN Self(1) ELSE ElementOf(ast[n].in, ast[n].part)]
  OBVIOUS
<1>1. PICK N \in Nat : N = Len(ast) /\ Nodes = 1 .. N
  BY DEF TreeInv, Nodes
<1>2. Upwards(N, T, up)
  BY <1>1 DEF TreeInv, Upwards
<1>3. Inherits(Around, N, T, up, c)
  BY <1>1, ElementsDefined DEF ElementsAre, Inherits
<1>4. Inherits(Around', N, T, up, c)
  <2> SUFFICES ASSUME NEW n \in 1 .. N
               PROVE  Around'[n] = IF n \in T THEN Around'[up[n]] ELSE c[n]
    BY DEF Inherits
  <2>1. n \in Nodes /\ n \in Nodes' /\ ast'[n] = ast[n]
    BY <1>1
  <2>2. Around'[n] = IF n = 1 THEN Self(1)
                     ELSE IF KindOf(ast[n].in)' \in Through THEN Around'[ast'[n].in]
                     ELSE ElementOf(ast[n].in, ast[n].part)'
    BY <2>1, ElementsDefinedNext DEF ElementsAre
  <2>3. CASE n = 1
    BY <2>1, <2>2, <2>3
  <2>4. CASE n # 1
    <3>1. PICK p \in Nodes : p = ast[n].in
      BY <1>1, <2>1, <2>4 DEF TreeInv
    <3>2. PICK part \in PartNames : part = ast[n].part
      <4>1. ast[n] \in NodeRec
        BY <1>1 DEF TreeInv
      <4> QED BY <4>1 DEF NodeRec
    <3>3. ElementOf(p, part)' = ElementOf(p, part)
      BY <1>1, <2>4, <3>1, <3>2 DEF Holds
    <3>4. ast'[n].in = p /\ ast'[n].part = part /\ KindOf(p)' = KindOf(p)
      BY <2>1, <3>1, <3>2 DEF KindOf
    <3>5. Around'[n] = IF KindOf(p) \in Through THEN Around'[p] ELSE ElementOf(p, part)'
      <4>1. Around'[n] = IF KindOf(p)' \in Through THEN Around'[p] ELSE ElementOf(p, part)'
        BY <2>1, <2>4, <3>4, ElementsDefinedNext DEF ElementsAre
      <4> QED BY <3>4, <4>1
    <3> QED BY <2>1, <2>4, <3>1, <3>2, <3>3, <3>5
  <2> QED BY <2>3, <2>4
<1> PICK s : s = Around
  OBVIOUS
<1> PICK t : t = Around'
  OBVIOUS
<1>5. \A n \in 1 .. N : s[n] = t[n]
  BY <1>2, <1>3, <1>4, SameInheritance
<1> QED BY <1>1, <1>5

\* A visit under way has saved what was around its node, for good.
LEMMA StillFramed ==
  ASSUME TreeInv, CallsInv, \A m \in Nodes : ast'[m] = ast[m],
         \A m \in Nodes : StyleAround'[m] = StyleAround[m] /\ Around'[m] = Around[m],
         NEW i \in 1 .. Len(calls), \A j \in 1 .. i : calls'[j] = calls[j]
  PROVE  /\ PartAt(i)' = PartAt(i)
         /\ i > 1 /\ FrameInv(i) => FrameInv(i)'
<1>1. \A j \in 1 .. Len(calls) : calls[j].node \in Nodes
  BY DEF CallsInv, VisitInv
<1>2. \A j \in 1 .. i : PartAt(j)' = PartAt(j)
  <2> SUFFICES ASSUME NEW j \in 1 .. i PROVE PartAt(j)' = PartAt(j)
    OBVIOUS
  <2>1. calls'[j] = calls[j] /\ calls[j].node \in Nodes
    BY <1>1 DEF CallsInv
  <2> QED BY <2>1 DEF PartAt, KindOf
<1>3. ASSUME i > 1, FrameInv(i) PROVE FrameInv(i)'
  <2>1. i - 1 \in 1 .. i /\ i - 1 \in 1 .. Len(calls) /\ i \in 1 .. i
    BY <1>3 DEF CallsInv
  <2>2. calls'[i] = calls[i] /\ calls'[i - 1] = calls[i - 1] /\ PartAt(i - 1)' = PartAt(i - 1)
    BY <1>2, <2>1
  <2>3. calls[i].node \in Nodes /\ calls[i - 1].node \in Nodes
    BY <1>1, <2>1
  <2>4. ast'[calls[i].node] = ast[calls[i].node]
    BY <2>3
  <2>5. KindOf(calls[i].node)' = KindOf(calls[i].node)
    BY <2>2, <2>4 DEF KindOf
  <2> QED BY <1>3, <2>2, <2>3, <2>4, <2>5 DEF FrameInv
<1> QED BY <1>2, <1>3

\* What a new child finds, and what it leaves as it is.
LEMMA ChildStays ==
  ASSUME RInv, TreeInv', SInv, calls # <<>>, NEW kind \in Kinds, NEW opt,
         NEW n, NEW p, NEW part, NewChild(kind, opt, n, p, part)
  PROVE  /\ \A m \in Nodes : StyleAround'[m] = StyleAround[m] /\ Around'[m] = Around[m]
         /\ Expected(p, part)' = Expected(p, part)
         /\ StyleAround'[n] = IF kind = "cell" THEN opt.tag ELSE cell_style
         /\ kind # "descriptionListTerm" => Around'[n] = current_node
         /\ TermsInv'
<1> USE DEF NewChild
<1>1. TreeInv /\ CallsInv /\ TermsInv /\ FirstParts /\ TopInv /\ CurrentInv
  BY DEF RInv, SInv
<1>2. Nodes \subseteq Nodes' /\ n \in Nodes' /\ n # 1
  OBVIOUS
<1>3. PICK L \in Nat \ {0} : L = Len(calls)
  BY <1>1 DEF CallsInv
<1>4. /\ Top.at \in 1 .. Len(Parts(KindNow)) /\ KindNow \in Kinds /\ KindNow = KindOf(p)
  BY <1>1, TopFacts DEF KindNow
<1>5. \A q \in Nodes, name \in PartNames :
        Holds(q, name) \/ (q = p /\ name = part) => ElementOf(q, name)' = ElementOf(q, name)
  <2> SUFFICES ASSUME NEW q \in Nodes, NEW name \in PartNames, Holds(q, name) \/ (q = p /\ name = part),
                      name = "blocks", KindOf(q) = "document"
               PROVE  Has(q, "title")' <=> Has(q, "title")
    BY <1>1, <1>2, ElementStays
  <2>1. ~ (q = p /\ part = "title")
    <3> SUFFICES ASSUME q = p, part = "title" PROVE FALSE
      OBVIOUS
    <3>1. Holds(q, name)
      OBVIOUS
    <3>2. Top.at = 1
      <4> PICK k \in Kinds : k = KindNow
        BY <1>4
      <4>1. PICK at \in 1 .. Len(Parts(k)) : at = Top.at
        BY <1>4
      <4> QED BY <4>1, PartsAt DEF PartNow
    <3>3. calls[L].at = 1 /\ L \in 1 .. Len(calls)
      BY <1>3, <3>2 DEF Top
    <3>4. PICK m \in 2 .. Len(ast) : ast[m].in = q /\ ast[m].part = name
      BY <3>1 DEF Holds
    <3>5. ast[m].part = PartAt(L)
      BY <1>1, <1>3, <3>3, <3>4 DEF FirstParts
    <3> QED BY <1>3, <3>4, <3>5
  <2>2. \A m \in Nodes' : m \in Nodes \/ m = n
    OBVIOUS
  <2> QED BY <1>2, <2>1, <2>2 DEF Has
<1>6. \A m \in Nodes : StyleAround'[m] = StyleAround[m]
  BY <1>1, <1>2, StylesStay
<1>7. \A m \in Nodes : Around'[m] = Around[m]
  BY <1>1, <1>2, <1>5, AroundStays
<1>8. KindOf(p)' = KindOf(p) /\ KindOf(n)' = kind
  BY DEF KindOf
<1>9. Expected(p, part)' = Expected(p, part)
  BY <1>5, <1>7, <1>8 DEF Expected
<1>10. StyleAround'[n] = IF kind = "cell" THEN opt.tag ELSE cell_style
  <2>1. StyleAround'[n] = IF kind = "cell" THEN ast'[n].opt.tag ELSE StyleAround'[ast'[n].in]
    BY <1>2, <1>8, StylesDefinedNext DEF StylesAre
  <2> QED BY <1>1, <1>6, <2>1 DEF TopInv
<1>11. kind # "descriptionListTerm" => Around'[n] = current_node
  <2>1. Around'[n] = IF KindOf(p)' \in Through THEN Around'[p] ELSE ElementOf(p, part)'
    BY <1>2, ElementsDefinedNext DEF ElementsAre
  <2>2. Around'[n] = Expected(p, part)
    BY <1>5, <1>7, <1>8, <2>1 DEF Expected
  <2> QED BY <1>1, <2>2 DEF TopInv
<1>12. TermsInv'
  <2>1. ast'[1].kind = "document"
    BY <1>1 DEF TermsInv, KindOf
  <2>2. ASSUME NEW m \in 2 .. n, ast'[m].kind = "descriptionListTerm"
        PROVE  ast'[m].part = "terms" /\ ast'[ast'[m].in].kind = "descriptionListItem"
    <3>1. CASE m = n
      BY <1>8, <2>2, <3>1 DEF KindOf
    <3>2. CASE m # n
      <4>1. m \in 2 .. Len(ast) /\ m \in Nodes
        BY <3>2
      <4>2. ast[m].in \in Nodes /\ ast'[m] = ast[m] /\ KindOf(m) = "descriptionListTerm"
        <5>1. ast[m].in \in 1 .. m - 1
          BY <1>1, <4>1 DEF TreeInv
        <5>2. ast[m].in \in Nodes
          BY <4>1, <5>1
        <5> QED BY <2>2, <4>1, <5>2 DEF KindOf
      <4>3. ast[m].part = "terms" /\ ast[ast[m].in].kind = "descriptionListItem"
        BY <1>1, <4>1, <4>2 DEF TermsInv, KindOf
      <4> QED BY <4>2, <4>3
    <3> QED BY <3>1, <3>2
  <2> QED BY <2>1, <2>2 DEF TermsInv, KindOf
<1> QED BY <1>6, <1>7, <1>9, <1>10, <1>11, <1>12

\* What is hung where the tree has its node.
Written == {h \in Hung : /\ h.of[1] \in Nodes
                         /\ h.of[2] = "self" /\ h.of[1] # 1 => h.to = Around[h.of[1]]}
WrittenInv == out \in Seq(Written)

WInv == SInv /\ WrittenInv

LEMMA StillWritten ==
  ASSUME Nodes \subseteq Nodes', \A m \in Nodes : Around'[m] = Around[m]
  PROVE  Written \subseteq Written'
BY DEF Written

LEMMA MoreWritten ==
  ASSUME WrittenInv, Written \subseteq Written', NEW s \in Seq(Written'), out' = out \o s
  PROVE  WrittenInv'
<1>1. out \in Seq(Written')
  BY SeqMonotonic DEF WrittenInv
<1> QED BY <1>1, ConcatProperties DEF WrittenInv

LEMMA DoneWritten ==
  ASSUME RInv, NEW n \in Nodes, NEW part
  PROVE  Done(n, part) \in Seq(Written)
<1>1. n \in Nat /\ cell_style \in Styles
  BY DEF RInv, CurrentInv, Nodes
<1>2. OwnParts(n) \subseteq Written
  BY DEF OwnParts, Written
<1> QED BY <1>1, <1>2, DoneFacts, SeqMonotonic

\* The visits that were there before a new child.
LEMMA FirstPartsStay ==
  ASSUME RInv, TreeInv', SInv, calls # <<>>, NEW kind \in Kinds, NEW opt,
         NEW n, NEW p, NEW part, NewChild(kind, opt, n, p, part),
         \A j \in 1 .. Len(calls) : calls'[j] = calls[j]
  PROVE  \A i \in 1 .. Len(calls), m \in 2 .. Len(ast') :
           calls'[i].at = 1 /\ ast'[m].in = calls'[i].node => ast'[m].part = PartAt(i)'
<1>1. TreeInv /\ CallsInv /\ FirstParts /\ FramesInv
  BY DEF RInv, SInv
<1>2. \A m \in Nodes : ast'[m] = ast[m] /\ StyleAround'[m] = StyleAround[m] /\ Around'[m] = Around[m]
  BY ChildStays DEF NewChild
<1>3. \A i \in 1 .. Len(calls) : PartAt(i)' = PartAt(i)
  <2> SUFFICES ASSUME NEW i \in 1 .. Len(calls) PROVE PartAt(i)' = PartAt(i)
    OBVIOUS
  <2>1. \A j \in 1 .. i : calls'[j] = calls[j]
    BY <1>1 DEF CallsInv
  <2> QED BY <1>1, <1>2, <2>1, StillFramed
<1> SUFFICES ASSUME NEW i \in 1 .. Len(calls), NEW m \in 2 .. Len(ast'),
                    calls[i].at = 1, ast'[m].in = calls[i].node
             PROVE  ast'[m].part = PartAt(i)
  BY <1>3
<1>4. CASE m = n
  <2>1. PICK L \in Nat \ {0} : L = Len(calls)
    BY <1>1 DEF CallsInv
  <2>2. calls[i].node = calls[L].node
    BY <1>4, <2>1 DEF NewChild
  <2>3. calls[i].node \in Nat /\ calls[L].node \in Nat
    BY <1>1, <2>1 DEF CallsInv, VisitInv, Nodes
  <2>4. ~ (i < L)
    BY <1>1, <2>1, <2>2, <2>3 DEF FramesInv
  <2>5. i = L
    BY <2>1, <2>4
  <2> QED BY <1>4, <2>1, <2>5 DEF NewChild
<1>5. CASE m # n
  <2>1. m \in Nodes /\ m \in 2 .. Len(ast)
    BY <1>5 DEF NewChild
  <2>2. ast[m].in = calls[i].node /\ ast'[m] = ast[m]
    BY <1>2, <2>1
  <2> QED BY <1>1, <2>1, <2>2 DEF FirstParts
<1> QED BY <1>4, <1>5

LEMMA VisitLeafS ==
  ASSUME RInv, RInv', WInv, NEW kind \in Kinds, VisitLeaf(kind) PROVE WInv'
<1>1. /\ Child(kind, Plain) /\ calls' = calls /\ current_node' = current_node
      /\ cell_style' = cell_style /\ kind # "descriptionListTerm" /\ calls # <<>>
  BY DEF VisitLeaf, LeafBlocks, LeafInlines, Child
<1>2. /\ RInv /\ TreeInv /\ TreeInv' /\ CallsInv /\ SInv
  BY DEF RInv, WInv
<1> PICK n : n = Len(ast) + 1
  OBVIOUS
<1>3. PICK p, part : NewChild(kind, Plain, n, p, part)
  BY <1>1, ChildIs
<1>4. /\ \A m \in Nodes : ast'[m] = ast[m]
      /\ \A m \in Nodes : StyleAround'[m] = StyleAround[m] /\ Around'[m] = Around[m]
      /\ Expected(p, part)' = Expected(p, part)
      /\ Around'[n] = current_node
      /\ TermsInv'
  <2>1. \A m \in Nodes : ast'[m] = ast[m]
    BY <1>3 DEF NewChild
  <2> QED BY <1>1, <1>2, <1>3, <2>1, ChildStays
<1>5. FirstParts'
  <2>1. \A i \in 1 .. Len(calls), m \in 2 .. Len(ast') :
          calls'[i].at = 1 /\ ast'[m].in = calls'[i].node => ast'[m].part = PartAt(i)'
    BY <1>1, <1>2, <1>3, FirstPartsStay
  <2> QED BY <1>1, <2>1 DEF FirstParts
<1>6. FramesInv'
  <2>1. \A i \in 2 .. Len(calls) : FrameInv(i)'
    <3> SUFFICES ASSUME NEW i \in 2 .. Len(calls) PROVE FrameInv(i)'
      OBVIOUS
    <3>1. i \in 1 .. Len(calls) /\ i > 1 /\ \A j \in 1 .. i : calls'[j] = calls[j]
      BY <1>1
    <3>2. FrameInv(i)
      BY <1>2 DEF SInv, FramesInv
    <3> QED BY <1>2, <1>4, <3>1, <3>2, StillFramed
  <2> QED BY <1>1, <1>2, <2>1 DEF SInv, FramesInv
<1>7. TopInv'
  <2>1. /\ p \in Nodes /\ p = Top.node /\ part = PartNow /\ ast'[p] = ast[p]
        /\ Top.node \in Nodes
    BY <1>3, <1>4 DEF NewChild
  <2>2. Top' = Top /\ KindOf(p)' = KindOf(p) /\ KindNow' = KindNow /\ PartNow' = PartNow
    BY <1>1, <2>1 DEF Top, KindOf, KindNow, PartNow
  <2>3. AtTerms(Top)' <=> AtTerms(Top)
    BY <2>1, <2>2 DEF AtTerms, KindOf
  <2>4. Expected(Top.node, PartNow)' = Expected(p, part)'
    BY <2>1, <2>2 DEF Expected, ElementOf, Has, KindOf
  <2> QED BY <1>1, <1>2, <1>4, <2>1, <2>2, <2>3, <2>4 DEF SInv, TopInv
<1>8. WrittenInv'
  <2> DEFINE hung == IF kind \in LeafInlines THEN LeafInline(n) ELSE LeafBlock(kind, n)
  <2>1. n \in Nodes' /\ n \in Nat
    BY <1>3 DEF NewChild
  <2>2. current_node \in Element
    BY DEF RInv, CurrentInv
  <2>3. \A name \in {"self", "text"} : Hang(<<n, name>>, current_node) \in Written'
    BY <1>4, <2>1, <2>2 DEF Written, Hang, Hung, Element, Names
  <2>4. \A name \in {"self", "text"} : <<Hang(<<n, name>>, current_node)>> \in Seq(Written')
    BY <2>3, TuplesAreSeqs
  <2>5. <<>> \in Seq(Written')
    BY EmptySeq
  <2>6. hung \in Seq(Written')
    BY <2>4, <2>5 DEF LeafInline, LeafBlock, Ignored, Self
  <2>7. out' = out \o hung
    BY DEF VisitLeaf
  <2>8. Written \subseteq Written'
    BY <1>3, <1>4, StillWritten DEF NewChild
  <2> HIDE DEF hung
  <2> QED BY <2>6, <2>7, <2>8, MoreWritten DEF WInv
<1> QED BY <1>4, <1>5, <1>6, <1>7, <1>8 DEF WInv, SInv

LEMMA EnterS ==
  ASSUME RInv, RInv', WInv, NEW kind \in Kinds, NEW opt, Enter(kind, opt) PROVE WInv'
<1>1. /\ Child(kind, opt) /\ calls # <<>> /\ Parts(kind) # <<>>
      /\ cell_style' = IF kind = "cell" THEN opt.tag ELSE cell_style
  BY DEF Enter, Child
<1>2. /\ RInv /\ TreeInv /\ TreeInv' /\ CallsInv /\ CallsInv' /\ SInv
  BY DEF RInv, WInv
<1> PICK n : n = Len(ast) + 1
  OBVIOUS
<1>3. PICK p, part : NewChild(kind, opt, n, p, part)
  BY <1>1, ChildIs
<1>4. /\ \A m \in Nodes : ast'[m] = ast[m]
      /\ \A m \in Nodes : StyleAround'[m] = StyleAround[m] /\ Around'[m] = Around[m]
      /\ StyleAround'[n] = IF kind = "cell" THEN opt.tag ELSE cell_style
      /\ kind # "descriptionListTerm" => Around'[n] = current_node
      /\ TermsInv'
  <2>1. \A m \in Nodes : ast'[m] = ast[m]
    BY <1>3 DEF NewChild
  <2> QED BY <1>1, <1>2, <1>3, <2>1, ChildStays
<1>5. PICK L \in Nat \ {0} : L = Len(calls)
  BY <1>1, <1>2 DEF CallsInv
<1>6. PICK new : /\ new.node = n /\ new.at = 1 /\ new.old = current_node /\ new.style = cell_style
                 /\ calls' = Append(calls, new)
  BY DEF Enter
<1>7. /\ calls' # <<>> /\ Len(calls') = L + 1 /\ calls'[L + 1] = new /\ calls'[L] = calls[L]
      /\ \A j \in 1 .. Len(calls) : calls'[j] = calls[j]
  BY <1>2, <1>5, <1>6 DEF CallsInv
<1>8. \A i \in 1 .. Len(calls') : i \in 1 .. L \/ i = L + 1
  BY <1>7
<1>9. \A i \in 1 .. L : PartAt(i)' = PartAt(i) /\ (i > 1 => FrameInv(i)')
  <2> SUFFICES ASSUME NEW i \in 1 .. L PROVE PartAt(i)' = PartAt(i) /\ (i > 1 => FrameInv(i)')
    OBVIOUS
  <2>1. i \in 1 .. Len(calls) /\ \A j \in 1 .. i : calls'[j] = calls[j]
    BY <1>5, <1>7
  <2>2. i > 1 => FrameInv(i)
    BY <1>2, <2>1 DEF SInv, FramesInv
  <2> QED BY <1>2, <1>4, <2>1, <2>2, StillFramed
<1>10. FirstParts'
  <2>1. \A i \in 1 .. L, m \in 2 .. Len(ast') :
          calls'[i].at = 1 /\ ast'[m].in = calls'[i].node => ast'[m].part = PartAt(i)'
    BY <1>1, <1>2, <1>3, <1>5, <1>7, FirstPartsStay
  <2>2. \A m \in 2 .. Len(ast') : ast'[m].in # n
    BY <1>2, <1>3 DEF TreeInv, NewChild
  <2> QED BY <1>6, <1>7, <1>8, <2>1, <2>2 DEF FirstParts
<1>11. FramesInv'
  <2>1. \A i \in 1 .. L : calls[i].node \in Nat /\ calls[i].node < n
    BY <1>2, <1>3, <1>5 DEF CallsInv, VisitInv, NewChild
  <2>2. \A i, j \in 1 .. L : i < j => calls[i].node < calls[j].node
    BY <1>2, <1>5 DEF SInv, FramesInv
  <2>3. \A i, j \in 1 .. L + 1 : i < j => calls'[i].node < calls'[j].node
    <3> SUFFICES ASSUME NEW i \in 1 .. L + 1, NEW j \in 1 .. L + 1, i < j
                 PROVE  calls'[i].node < calls'[j].node
      OBVIOUS
    <3>1. i \in 1 .. L /\ calls'[i] = calls[i]
      BY <1>5, <1>7
    <3>2. CASE j = L + 1
      BY <1>6, <1>7, <2>1, <3>1, <3>2
    <3>3. CASE j # L + 1
      BY <1>5, <1>7, <2>2, <3>1, <3>3
    <3> QED BY <3>2, <3>3
  <2>4. FrameInv(L + 1)'
    <3>1. calls'[L + 1].node = n /\ calls'[L + 1].old = current_node /\ calls'[L + 1].style = cell_style
      BY <1>6, <1>7
    <3>2. ast'[n].part = part /\ ast'[n].kind = kind /\ part = PartAt(L) /\ p = calls[L].node
          /\ p = Top.node /\ p \in Nodes
      BY <1>3, <1>5 DEF NewChild
    <3>3. cell_style = StyleAround'[p]
      BY <1>1, <1>2, <1>4, <3>2 DEF SInv, TopInv
    <3>4. (L + 1) - 1 = L /\ L \in 1 .. L /\ PartAt(L)' = PartAt(L)
      BY <1>9
    <3>5. PartAt((L + 1) - 1)' = PartAt(L) /\ calls'[(L + 1) - 1] = calls[L]
      <4>1. PartAt((L + 1) - 1)' = PartAt(L)'
        BY <3>4 DEF PartAt
      <4> QED BY <1>7, <3>4, <4>1
    <3> QED BY <1>4, <3>1, <3>2, <3>3, <3>5 DEF FrameInv, KindOf
  <2>5. \A i \in 2 .. L + 1 : FrameInv(i)'
    <3> SUFFICES ASSUME NEW i \in 2 .. L + 1 PROVE FrameInv(i)'
      OBVIOUS
    <3>1. (i \in 1 .. L /\ i > 1) \/ i = L + 1
      BY <1>5
    <3> QED BY <1>9, <2>4, <3>1
  <2> QED BY <1>7, <2>3, <2>5 DEF FramesInv
<1>12. TopInv'
  <2>1. Top' = new /\ KindOf(n)' = kind
    BY <1>3, <1>7 DEF Top, NewChild, KindOf
  <2>2. KindNow' = kind /\ PartNow' = Parts(kind)[1] /\ Top.node' = n
    BY <1>6, <2>1 DEF KindNow, PartNow, KindOf
  <2>3. cell_style' = StyleAround'[n]
    BY <1>1, <1>4
  <2>4. ASSUME ~AtTerms(Top)' PROVE current_node' = Expected(n, Parts(kind)[1])'
    <3>1. kind # "descriptionListItem"
      BY <1>6, <2>1, <2>2, <2>4 DEF AtTerms
    <3>2. 1 \in 1 .. Len(Parts(kind))
      BY <1>1, PartsFacts
    <3>3. current_node' = Inside(kind, n, Parts(kind)[1], current_node)
      BY DEF Enter
    <3>4. PICK first : first = Parts(kind)[1]
      OBVIOUS
    <3>5. Inside(kind, n, first, current_node) =
            IF kind \in Through THEN current_node ELSE Elem(kind, n, first, cell_style, Has(n, "title"))
      BY <3>1, <3>2, <3>4, InsideIs
    <3>6. CASE kind \in Through
      <4>1. kind # "descriptionListTerm"
        BY <3>6 DEF Through
      <4> QED BY <1>4, <2>1, <3>3, <3>4, <3>5, <3>6, <4>1 DEF Expected
    <3>7. CASE kind \notin Through
      <4>1. kind # "document"
        BY <1>3 DEF NewChild
      <4>2. kind = "paragraph" => StyleAround'[n] = cell_style
        BY <1>4
      <4>3. Elem(kind, n, first, cell_style, Has(n, "title")) =
              Elem(kind, n, first, StyleAround'[n], Has(n, "title")')
        BY <4>1, <4>2 DEF Elem
      <4>4. ElementOf(n, first)' = Elem(kind, n, first, StyleAround'[n], Has(n, "title")')
        BY <2>1, ElementIsNext
      <4>5. Expected(n, first)' = ElementOf(n, first)'
        BY <2>1, <3>7 DEF Expected
      <4> QED BY <3>3, <3>4, <3>5, <3>7, <4>3, <4>4, <4>5
    <3> QED BY <3>6, <3>7
  <2>5. Expected(Top.node, PartNow)' = Expected(n, Parts(kind)[1])'
    BY <2>1, <2>2 DEF Expected, ElementOf, Has, KindOf
  <2> QED BY <2>2, <2>3, <2>4, <2>5 DEF TopInv
<1>13. WrittenInv'
  <2>1. n \in Nodes' /\ n \in Nat
    BY <1>3 DEF NewChild
  <2>2. current_node \in Element
    BY DEF RInv, CurrentInv
  <2>3. Written \subseteq Written'
    BY <1>3, <1>4, StillWritten DEF NewChild
  <2>4. CASE kind = "indexterm"
    <3>1. Hang(Self(n), current_node) \in Written'
      BY <1>4, <2>1, <2>2, <2>4 DEF Written, Hang, Hung, Element, Names, Self
    <3>2. out' = Append(out, Hang(Self(n), current_node))
      BY <2>4 DEF Enter
    <3>3. out \in Seq(Written')
      BY <2>3, SeqMonotonic DEF WInv, WrittenInv
    <3> QED BY <3>1, <3>2, <3>3, AppendProperties DEF WrittenInv
  <2>5. CASE kind # "indexterm"
    <3>1. out' = out
      BY <2>5 DEF Enter
    <3> QED BY <2>3, <3>1, SeqMonotonic DEF WInv, WrittenInv
  <2> QED BY <2>4, <2>5
<1> QED BY <1>4, <1>10, <1>11, <1>12, <1>13 DEF WInv, SInv

\* While the tree does not grow all of that stays as it is.
LEMMA SameTree ==
  ASSUME TreeInv, TreeInv', ast' = ast
  PROVE  /\ Nodes' = Nodes /\ \A m \in Nodes : ast'[m] = ast[m] /\ KindOf(m)' = KindOf(m)
         /\ \A m \in Nodes : StyleAround'[m] = StyleAround[m] /\ Around'[m] = Around[m]
         /\ \A m \in Nodes : \A part : ElementOf(m, part)' = ElementOf(m, part)
         /\ \A m \in Nodes : \A part : Expected(m, part)' = Expected(m, part)
         /\ TermsInv => TermsInv'
<1>1. Nodes' = Nodes /\ (\A m \in Nodes : ast'[m] = ast[m] /\ KindOf(m)' = KindOf(m))
  BY DEF Nodes, KindOf
<1>2. \A m \in Nodes : StyleAround'[m] = StyleAround[m]
  BY <1>1, StylesStay
<1>3. \A m \in Nodes : \A part : ElementOf(m, part)' = ElementOf(m, part)
  <2>1. \A m : Has(m, "title")' <=> Has(m, "title")
    BY <1>1 DEF Has
  <2> QED BY <1>1, <2>1, ElementStays
<1>4. \A m \in Nodes : Around'[m] = Around[m]
  BY <1>1, <1>3, AroundStays
<1>5. \A m \in Nodes : \A part : Expected(m, part)' = Expected(m, part)
  BY <1>1, <1>3, <1>4 DEF Expected
<1>6. TermsInv => TermsInv'
  BY DEF TermsInv, KindOf
<1> QED BY <1>1, <1>2, <1>3, <1>4, <1>5, <1>6

LEMMA SelfFacts ==
  \A n \in Nodes : n \in Nat /\ Self(n) \in Element /\ Self(n)[1] = n /\ Self(n)[2] = "self"
<1>1. \A n \in Nodes : n \in Nat
  BY DEF Nodes
<1> QED BY <1>1 DEF Self, Element, Names

LEMMA HangFacts ==
  /\ \A e, f : Hang(e, f).of = e /\ Hang(e, f).to = f
  /\ \A e, f \in Element : Hang(e, f) \in Hung
BY DEF Hang, Hung

LEMMA NextPartS ==
  ASSUME RInv, RInv', WInv, NextPart PROVE WInv'
<1>1. /\ calls # <<>> /\ Top.at < Len(Parts(KindNow)) /\ ast' = ast /\ cell_style' = cell_style
      /\ current_node' = Inside(KindNow, Top.node, Parts(KindNow)[Top.at + 1], Top.old)
      /\ out' = out \o Done(Top.node, PartNow)
  BY DEF NextPart
<1>2. RInv /\ TreeInv /\ TreeInv' /\ CallsInv /\ CurrentInv /\ SInv
  BY DEF RInv, WInv
<1>3. PICK L \in Nat \ {0} : L = Len(calls) /\ L \in 1 .. Len(calls)
  BY <1>1, <1>2 DEF CallsInv
<1>4. /\ Top \in Visit /\ Top.node \in Nodes /\ Top.at \in 1 .. Len(Parts(KindNow)) /\ KindNow \in Kinds
      /\ calls[L] = Top
  BY <1>1, <1>2, <1>3, TopFacts DEF Top
<1>5. /\ Nodes' = Nodes /\ (\A m \in Nodes : ast'[m] = ast[m] /\ KindOf(m)' = KindOf(m))
      /\ (\A m \in Nodes : StyleAround'[m] = StyleAround[m] /\ Around'[m] = Around[m])
      /\ (\A m \in Nodes : \A part : Expected(m, part)' = Expected(m, part))
      /\ TermsInv'
  BY <1>1, <1>2, SameTree DEF SInv
<1>6. /\ Len(calls') = L /\ calls'[L].node = Top.node /\ calls'[L].at = Top.at + 1
      /\ calls'[L].old = Top.old /\ calls'[L].style = Top.style
      /\ \A j \in 1 .. L - 1 : calls'[j] = calls[j]
  <2>1. calls' = [calls EXCEPT ![L] = [Top EXCEPT !.at = @ + 1]]
    BY <1>3 DEF NextPart, Top
  <2> DEFINE moved == [Top EXCEPT !.at = @ + 1]
  <2>2. moved.node = Top.node /\ moved.at = Top.at + 1 /\ moved.old = Top.old /\ moved.style = Top.style
    BY <1>4 DEF Visit
  <2> HIDE DEF moved
  <2>3. calls' = [calls EXCEPT ![L] = moved]
    BY <2>1 DEF moved
  <2> QED BY <1>2, <1>3, <2>2, <2>3 DEF CallsInv
<1>7. \A i \in 1 .. L - 1 : i \in 1 .. Len(calls) /\ PartAt(i)' = PartAt(i) /\ (i > 1 => FrameInv(i)')
  <2> SUFFICES ASSUME NEW i \in 1 .. L - 1
               PROVE  i \in 1 .. Len(calls) /\ PartAt(i)' = PartAt(i) /\ (i > 1 => FrameInv(i)')
    OBVIOUS
  <2>1. i \in 1 .. Len(calls) /\ \A j \in 1 .. i : calls'[j] = calls[j]
    BY <1>3, <1>6
  <2>2. i > 1 => FrameInv(i)
    BY <1>2, <2>1 DEF SInv, FramesInv
  <2> QED BY <1>2, <1>5, <2>1, <2>2, StillFramed
<1>8. FirstParts'
  <2>1. ASSUME NEW i \in 1 .. L, NEW m \in 2 .. Len(ast), calls'[i].at = 1, ast[m].in = calls'[i].node
        PROVE  ast[m].part = PartAt(i)'
    <3>1. i \in 1 .. L - 1
      BY <1>3, <1>4, <1>6, <2>1
    <3> QED BY <1>2, <1>6, <1>7, <2>1, <3>1 DEF SInv, FirstParts
  <2> QED BY <1>1, <1>6, <2>1 DEF FirstParts
<1>9. FramesInv'
  <2>1. \A i \in 1 .. L : calls'[i].node = calls[i].node
    <3> SUFFICES ASSUME NEW i \in 1 .. L PROVE calls'[i].node = calls[i].node
      OBVIOUS
    <3>1. i \in 1 .. L - 1 \/ i = L
      BY <1>3
    <3> QED BY <1>4, <1>6, <3>1
  <2>2. \A i, j \in 1 .. L : i < j => calls'[i].node < calls'[j].node
    BY <1>2, <1>3, <2>1 DEF SInv, FramesInv
  <2>3. L > 1 => FrameInv(L)'
    <3> SUFFICES ASSUME L > 1 PROVE FrameInv(L)'
      OBVIOUS
    <3>1. FrameInv(L) /\ L - 1 \in 1 .. L - 1
      BY <1>2, <1>3 DEF SInv, FramesInv
    <3>2. PartAt(L - 1)' = PartAt(L - 1) /\ calls'[L - 1] = calls[L - 1] /\ calls[L - 1].node \in Nodes
      BY <1>2, <1>6, <1>7, <3>1 DEF CallsInv, VisitInv
    <3>3. /\ ast[Top.node].part = PartAt(L - 1) /\ Top.style = StyleAround[calls[L - 1].node]
          /\ KindOf(Top.node) # "descriptionListTerm" => Top.old = Around[Top.node]
      BY <1>4, <3>1 DEF FrameInv
    <3>4. StyleAround'[calls[L - 1].node] = StyleAround[calls[L - 1].node]
          /\ Around'[Top.node] = Around[Top.node] /\ ast'[Top.node] = ast[Top.node]
      BY <1>4, <1>5, <3>2
    <3> QED BY <1>6, <3>2, <3>3, <3>4 DEF FrameInv, KindOf
  <2>4. \A i \in 2 .. L : FrameInv(i)'
    <3> SUFFICES ASSUME NEW i \in 2 .. L PROVE FrameInv(i)'
      OBVIOUS
    <3>1. (i \in 1 .. L - 1 /\ i > 1) \/ (i = L /\ L > 1)
      BY <1>3
    <3> QED BY <1>7, <2>3, <3>1
  <2> QED BY <1>6, <2>2, <2>4 DEF FramesInv
<1>10. TopInv'
  <2>1. Top'.node = Top.node /\ Top'.at = Top.at + 1
    BY <1>6 DEF Top
  <2>2. KindNow' = KindNow /\ PartNow' = Parts(KindNow)[Top.at + 1]
    BY <1>4, <1>5, <2>1 DEF KindNow, PartNow, KindOf
  <2>3. PICK n \in Nodes : n = Top.node
    BY <1>4
  <2> PICK k \in Kinds : k = KindNow
    BY <1>4
  <2>4. PICK j \in 2 .. Len(Parts(k)) : j = Top.at + 1
    <3>1. Len(Parts(k)) \in Nat
      BY PartsFacts
    <3> QED BY <1>1, <1>4, <3>1
  <2> PICK part : part = Parts(k)[j]
    OBVIOUS
  <2>5. k \notin Through
    <3>1. Parts("example") = <<"blocks">> /\ Parts("indexterm") = <<"inlines">>
      BY PartsList DEF Boxes
    <3>2. Len(Parts("example")) = 1 /\ Len(Parts("indexterm")) = 1
      BY <3>1
    <3> QED BY <2>4, <3>2 DEF Through
  <2>6. Inside(k, n, part, Top.old) = Elem(k, n, part, cell_style, Has(n, "title"))
    <3>1. j \in 1 .. Len(Parts(k)) /\ j # 1
      BY <2>4, PartsFacts
    <3> QED BY <2>5, <3>1, InsideIs
  <2>7. cell_style = StyleAround[n]
    BY <1>1, <1>2, <2>3 DEF SInv, TopInv
  <2>8. current_node' = Expected(n, part)
    <3>1. KindOf(n) = k
      BY <2>3 DEF KindNow
    <3>2. ElementOf(n, part) = Elem(k, n, part, StyleAround[n], Has(n, "title"))
      BY <3>1, ElementIs
    <3> QED BY <1>1, <2>3, <2>4, <2>5, <2>6, <2>7, <3>1, <3>2 DEF Expected
  <2>9. Expected(Top.node, PartNow)' = Expected(n, part)'
    BY <2>1, <2>2, <2>3, <2>4 DEF Expected, ElementOf, Has, KindOf
  <2>10. Expected(n, part)' = Expected(n, part) /\ StyleAround'[n] = StyleAround[n]
    BY <1>5, <2>3
  <2>11. cell_style' = StyleAround'[Top'.node]
    BY <1>1, <2>1, <2>3, <2>7, <2>10
  <2> QED BY <2>8, <2>9, <2>10, <2>11 DEF TopInv
<1>11. WrittenInv'
  <2>1. Done(Top.node, PartNow) \in Seq(Written)
    BY <1>2, <1>4, DoneWritten
  <2>2. Written \subseteq Written'
    BY <1>5, StillWritten
  <2>3. Done(Top.node, PartNow) \in Seq(Written')
    BY <2>1, <2>2, SeqMonotonic
  <2> QED BY <1>1, <2>2, <2>3, MoreWritten DEF WInv
<1> QED BY <1>5, <1>8, <1>9, <1>10, <1>11 DEF WInv, SInv

\* Where the visitor at hand hangs its element is what the tree has around its node.
LEMMA AboveIs ==
  ASSUME RInv, WInv, NEW L \in Nat, L = Len(calls), L > 1
  PROVE  /\ Above(Top.node, Top.old) = Expected(calls[L - 1].node, PartAt(L - 1))
         /\ Above(Top.node, Top.old) \in Element
<1>1. TreeInv /\ CallsInv /\ SInv /\ calls # <<>>
  BY EmptySeq DEF RInv, WInv
<1>2. L \in 2 .. Len(calls) /\ L - 1 \in 1 .. Len(calls) /\ calls[L] = Top
  BY DEF Top
<1>3. VisitInv(L) /\ FrameInv(L) /\ VisitInv(L - 1)
  BY <1>1, <1>2 DEF CallsInv, SInv, FramesInv
<1> PICK n : n = Top.node
  OBVIOUS
<1> PICK p : p = calls[L - 1].node
  OBVIOUS
<1> PICK part : part = PartAt(L - 1)
  OBVIOUS
<1>4. /\ n \in Nodes /\ n # 1 /\ p \in Nodes /\ ast[n].in = p /\ ast[n].part = part
      /\ KindOf(n) # "descriptionListTerm" => Top.old = Around[n]
  BY <1>2, <1>3 DEF VisitInv, FrameInv
<1>5. Around[n] = Expected(p, part)
  BY <1>1, <1>4, ElementsDefined DEF ElementsAre, Expected
<1>6. CASE KindOf(n) = "descriptionListTerm"
  <2>1. n \in 2 .. Len(ast)
    BY <1>1, <1>4 DEF TreeInv, Nodes
  <2>2. part = "terms" /\ KindOf(p) = "descriptionListItem"
    BY <1>1, <1>4, <1>6, <2>1 DEF SInv, TermsInv
  <2>3. Expected(p, part) = Self(p)
    BY <2>2 DEF ElementOf, Expected, Through
  <2> QED BY <1>4, <1>6, <2>3, SelfFacts DEF Above
<1>7. CASE KindOf(n) # "descriptionListTerm"
  <2>1. Top \in Visit
    BY <1>1, TopFacts DEF RInv
  <2>2. Top.old \in Element
    BY <2>1 DEF Visit
  <2> QED BY <1>4, <1>5, <1>7, <2>2 DEF Above
<1> QED BY <1>6, <1>7

LEMMA LeaveS ==
  ASSUME RInv, RInv', WInv, Leave PROVE WInv'
<1>1. RInv /\ TreeInv /\ TreeInv' /\ CallsInv /\ CurrentInv /\ SInv
  BY DEF RInv, WInv
<1>2. PICK L \in Nat : L = Len(calls) /\ L > 1 /\ calls # <<>> /\ L \in 1 .. Len(calls)
  BY <1>1, EmptySeq DEF Leave, Leaving, CallsInv
<1>3. /\ Top \in Visit /\ Top.node \in Nodes /\ calls[L] = Top
  BY <1>1, <1>2, TopFacts DEF Top
<1>4. /\ ast' = ast /\ calls' = SubSeq(calls, 1, L - 1) /\ current_node' = Top.old
      /\ cell_style' = IF KindNow = "cell" THEN Top.style ELSE cell_style
      /\ out' = out \o Done(Top.node, PartNow) \o Own(Top.node, Top.old)
  BY <1>2 DEF Leave, Leaving
<1>5. /\ Nodes' = Nodes /\ (\A m \in Nodes : ast'[m] = ast[m] /\ KindOf(m)' = KindOf(m))
      /\ (\A m \in Nodes : StyleAround'[m] = StyleAround[m] /\ Around'[m] = Around[m])
      /\ (\A m \in Nodes : \A part : Expected(m, part)' = Expected(m, part))
      /\ TermsInv'
  BY <1>1, <1>4, SameTree DEF SInv
<1>6. /\ Len(calls') = L - 1 /\ calls' # <<>>
      /\ \A j \in 1 .. L - 1 : calls'[j] = calls[j] /\ j \in 1 .. Len(calls)
  <2>1. /\ calls \in Seq(Visit) /\ 1 \in 1 .. Len(calls) + 1 /\ L - 1 \in 0 .. Len(calls)
        /\ L - 1 >= 1 /\ (L - 1) - 1 + 1 = L - 1
    BY <1>1, <1>2 DEF CallsInv
  <2>2. Len(calls') = L - 1 /\ \A j \in 1 .. L - 1 : calls'[j] = calls[j]
    BY <1>2, <1>4, <2>1, SubSeqProperties
  <2> QED BY <1>2, <2>1, <2>2
<1>7. \A i \in 1 .. L - 1 : PartAt(i)' = PartAt(i) /\ (i > 1 => FrameInv(i)')
  <2> SUFFICES ASSUME NEW i \in 1 .. L - 1
               PROVE  PartAt(i)' = PartAt(i) /\ (i > 1 => FrameInv(i)')
    OBVIOUS
  <2>1. i \in 1 .. Len(calls) /\ \A j \in 1 .. i : calls'[j] = calls[j]
    BY <1>2, <1>6
  <2>2. i > 1 => FrameInv(i)
    BY <1>1, <2>1 DEF SInv, FramesInv
  <2> QED BY <1>1, <1>5, <2>1, <2>2, StillFramed
<1>8. FirstParts'
  BY <1>1, <1>4, <1>6, <1>7 DEF SInv, FirstParts
<1>9. FramesInv'
  <2>1. \A i, j \in 1 .. L - 1 : i < j => calls'[i].node < calls'[j].node
    BY <1>1, <1>6 DEF SInv, FramesInv
  <2> QED BY <1>6, <1>7, <2>1 DEF FramesInv
<1>10. PICK p : p = calls[L - 1].node
  OBVIOUS
<1> PICK part : part = PartAt(L - 1)
  OBVIOUS
<1> PICK n : n = Top.node
  OBVIOUS
<1>11. /\ n \in Nodes /\ n # 1 /\ p \in Nodes /\ ast[n].in = p /\ ast[n].part = part
       /\ Top.style = StyleAround[p]
       /\ KindOf(n) # "descriptionListTerm" => Top.old = Around[n]
       /\ cell_style = StyleAround[n]
       /\ L - 1 \in 1 .. Len(calls) /\ KindOf(n) = KindNow
  <2>1. L - 1 \in 1 .. Len(calls) /\ L \in 2 .. Len(calls)
    BY <1>2
  <2>2. VisitInv(L) /\ FrameInv(L) /\ VisitInv(L - 1)
    BY <1>1, <2>1 DEF CallsInv, SInv, FramesInv
  <2>3. cell_style = StyleAround[n]
    BY <1>1, <1>2 DEF SInv, TopInv
  <2> QED BY <1>2, <1>3, <1>10, <2>1, <2>2, <2>3 DEF VisitInv, FrameInv, KindNow
<1>12. /\ Around[n] = Expected(p, part)
       /\ StyleAround[p] = IF KindNow = "cell" THEN Top.style ELSE cell_style
  <2>1. Around[n] = IF KindOf(p) \in Through THEN Around[p] ELSE ElementOf(p, part)
    BY <1>1, <1>11, ElementsDefined DEF ElementsAre
  <2>2. StyleAround[n] = IF KindOf(n) = "cell" THEN ast[n].opt.tag ELSE StyleAround[p]
    BY <1>1, <1>11, StylesDefined DEF StylesAre
  <2> QED BY <1>11, <2>1, <2>2 DEF Expected
<1>13. TopInv'
  <2>1. Top' = calls[L - 1] /\ L - 1 \in 1 .. L - 1
    BY <1>2, <1>6 DEF Top
  <2>2. Top'.node = p /\ KindNow' = KindOf(p) /\ PartNow' = part
    BY <1>5, <1>10, <1>11, <2>1 DEF KindNow, PartNow, KindOf, PartAt
  <2>3. AtTerms(Top)' <=> AtTerms(calls[L - 1])
    BY <1>5, <1>10, <1>11, <2>1 DEF AtTerms, KindOf
  <2>4. ASSUME ~AtTerms(calls[L - 1]) PROVE KindOf(n) # "descriptionListTerm"
    <3> SUFFICES ASSUME KindOf(n) = "descriptionListTerm" PROVE FALSE
      OBVIOUS
    <3>1. n \in 2 .. Len(ast)
      BY <1>1, <1>11 DEF TreeInv, Nodes
    <3>2. part = "terms" /\ KindOf(p) = "descriptionListItem"
      BY <1>1, <1>11, <3>1 DEF SInv, TermsInv
    <3>3. PICK j \in 1 .. Len(Parts("descriptionListItem")) : j = calls[L - 1].at
      BY <1>1, <1>10, <1>11, <3>2 DEF CallsInv, VisitInv
    <3>4. part = Parts("descriptionListItem")[j]
      BY <1>10, <3>2, <3>3 DEF PartAt
    <3>5. j = 1
      BY <3>2, <3>4, PartsAt DEF Kinds
    <3> QED BY <1>10, <2>4, <3>2, <3>3, <3>5 DEF AtTerms
  <2>5. Expected(Top.node, PartNow)' = Expected(p, part)'
    BY <2>2 DEF Expected, ElementOf, Has, KindOf
  <2>6. Expected(p, part)' = Expected(p, part) /\ StyleAround'[p] = StyleAround[p]
    BY <1>5, <1>11
  <2>7. cell_style' = StyleAround'[Top'.node]
    BY <1>4, <1>12, <2>2, <2>6
  <2>8. ~AtTerms(Top)' => current_node' = Expected(Top.node, PartNow)'
    BY <1>4, <1>11, <1>12, <2>3, <2>4, <2>5, <2>6
  <2> QED BY <2>7, <2>8 DEF TopInv
<1>14. WrittenInv'
  <2>1. Done(Top.node, PartNow) \in Seq(Written)
    BY <1>1, <1>3, DoneWritten
  <2>2. Written \subseteq Written'
    BY <1>5, StillWritten
  <2>3. PICK above \in Element : above = Above(n, Top.old) /\ above = Around[n]
    BY <1>2, <1>10, <1>12, AboveIs
  <2>4. Hang(Self(n), above) \in Written
    <3>1. Self(n) \in Element /\ Self(n)[1] = n
      BY <1>11, SelfFacts
    <3>2. PICK h : h = Hang(Self(n), above)
      OBVIOUS
    <3>3. h \in Hung /\ h.of = Self(n) /\ h.to = above
      BY <3>1, <3>2 DEF Hung, Hang
    <3> QED BY <1>11, <2>3, <3>1, <3>2, <3>3 DEF Written
  <2>5. Own(Top.node, Top.old) \in Seq(Written)
    <3>1. <<Hang(Self(n), above)>> \in Seq(Written) /\ <<>> \in Seq(Written)
      BY <2>4, TuplesAreSeqs, EmptySeq
    <3> QED BY <1>10, <2>3, <3>1 DEF Own
  <2>6. Done(Top.node, PartNow) \in Seq(Written') /\ Own(Top.node, Top.old) \in Seq(Written')
    BY <2>1, <2>2, <2>5, SeqMonotonic
  <2>7. out \o Done(Top.node, PartNow) \in Seq(Written')
    <3>1. out \in Seq(Written')
      BY <2>2, SeqMonotonic DEF WInv, WrittenInv
    <3> QED BY <2>6, <3>1, ConcatProperties
  <2> QED BY <1>4, <2>6, <2>7, ConcatProperties DEF WrittenInv
<1> QED BY <1>5, <1>8, <1>9, <1>13, <1>14 DEF WInv, SInv

LEMMA FinishS ==
  ASSUME RInv, RInv', WInv, Finish PROVE WInv'
<1>1. RInv /\ TreeInv /\ TreeInv' /\ SInv /\ WrittenInv
  BY DEF RInv, WInv
<1>2. Len(calls) = 1 /\ calls' = <<>> /\ ast' = ast
  BY DEF Finish
<1>3. /\ Nodes' = Nodes /\ (\A m \in Nodes : Around'[m] = Around[m]) /\ TermsInv'
  BY <1>1, <1>2, SameTree DEF SInv
<1>4. FirstParts' /\ FramesInv' /\ TopInv'
  BY <1>2 DEF FirstParts, FramesInv, TopInv
<1>5. WrittenInv'
  <2>1. Written \subseteq Written'
    BY <1>3, StillWritten
  <2>2. out \in Seq(Written')
    BY <1>1, <2>1, SeqMonotonic DEF WrittenInv
  <2>3. PICK r \in Written' : r = Hang(<<1, "root section">>, Self(1))
    <3>1. 1 \in Nodes /\ 1 \in Nodes'
      BY <1>1, <1>3 DEF TreeInv, Nodes
    <3>2. Hang(<<1, "root section">>, Self(1)) \in Hung
      BY DEF Hang, Self, Hung, Element, Names
    <3> QED BY <3>1, <3>2 DEF Hang, Written
  <2>4. out' = out \/ out' = Append(out, r)
    BY <2>3 DEF Finish
  <2>5. Append(out, r) \in Seq(Written')
    BY <2>2, AppendProperties
  <2> QED BY <2>2, <2>4, <2>5 DEF WrittenInv
<1> QED BY <1>3, <1>4, <1>5 DEF WInv, SInv

LEMMA StutterS ==
  ASSUME RInv, RInv', WInv, UNCHANGED vars PROVE WInv'
<1>1. RInv /\ TreeInv /\ TreeInv' /\ CallsInv /\ SInv /\ WrittenInv
  BY DEF RInv, WInv
<1>2. ast' = ast /\ calls' = calls /\ current_node' = current_node /\ cell_style' = cell_style /\ out' = out
  BY DEF vars
<1>3. /\ Nodes' = Nodes /\ (\A m \in Nodes : ast'[m] = ast[m] /\ KindOf(m)' = KindOf(m))
      /\ (\A m \in Nodes : StyleAround'[m] = StyleAround[m] /\ Around'[m] = Around[m])
      /\ (\A m \in Nodes : \A part : Expected(m, part)' = Expected(m, part))
      /\ TermsInv'
  BY <1>1, <1>2, SameTree DEF SInv
<1>4. \A i \in 1 .. Len(calls) : PartAt(i)' = PartAt(i)
  BY <1>2 DEF PartAt, KindOf
<1>5. FirstParts'
  BY <1>1, <1>2, <1>4 DEF SInv, FirstParts
<1>6. FramesInv'
  <2>1. \A i \in 2 .. Len(calls) : FrameInv(i)'
    <3> SUFFICES ASSUME NEW i \in 2 .. Len(calls) PROVE FrameInv(i)'
      OBVIOUS
    <3>1. i \in 1 .. Len(calls) /\ i > 1 /\ \A j \in 1 .. i : calls'[j] = calls[j]
      BY <1>2
    <3>2. FrameInv(i)
      BY <1>1 DEF SInv, FramesInv
    <3> QED BY <1>1, <1>3, <3>1, <3>2, StillFramed
  <2> QED BY <1>1, <1>2, <2>1 DEF SInv, FramesInv
<1>7. TopInv'
  <2> SUFFICES ASSUME calls # <<>> PROVE TopInv'
    BY <1>2 DEF TopInv
  <2>1. PICK n \in Nodes : n = Top.node
    BY <1>1, TopFacts DEF RInv
  <2>2. Top' = Top /\ KindNow' = KindNow /\ PartNow' = PartNow /\ (AtTerms(Top)' <=> AtTerms(Top))
    BY <1>2 DEF Top, KindNow, PartNow, KindOf, AtTerms
  <2>3. PICK part : part = PartNow
    OBVIOUS
  <2>4. Expected(Top.node, PartNow)' = Expected(n, part)'
    BY <2>1, <2>2, <2>3 DEF Expected, ElementOf, Has, KindOf
  <2>5. StyleAround'[n] = StyleAround[n] /\ Expected(n, part)' = Expected(n, part)
    BY <1>3
  <2> QED BY <1>1, <1>2, <2>1, <2>2, <2>3, <2>4, <2>5 DEF SInv, TopInv
<1>8. WrittenInv'
  BY <1>1, <1>2, <1>3, StillWritten, SeqMonotonic DEF WrittenInv
<1> QED BY <1>3, <1>5, <1>6, <1>7, <1>8 DEF WInv, SInv

LEMMA InitS ==
  ASSUME Init PROVE WInv
<1> DEFINE root == [kind |-> "document", in |-> 0, part |-> "root", opt |-> Plain]
           first == [node |-> 1, at |-> 1, old |-> Self(1), style |-> "none"]
<1>1. ast = <<root>> /\ calls = <<first>> /\ current_node = <<1, "title">> /\ cell_style = "none"
      /\ out = <<>>
  BY DEF Init, StartTree
<1>2. RInv /\ TreeInv
  BY InitInv DEF RInv
<1>3. Len(ast) = 1 /\ KindOf(1) = "document" /\ Nodes = {1}
  BY <1>1 DEF KindOf, Nodes
<1>4. Len(calls) = 1 /\ Top.node = 1 /\ Top.at = 1 /\ calls[1] = first
  BY <1>1 DEF Top
<1>5. TermsInv /\ FirstParts
  BY <1>3 DEF TermsInv, FirstParts
<1>6. FramesInv
  BY <1>4 DEF FramesInv
<1>7. TopInv
  <2>1. StyleAround[1] = "none"
    BY <1>2, <1>3, StylesDefined DEF StylesAre
  <2>2. Parts("document") = <<"title", "blocks">>
    BY PartsList
  <2>3. PartNow = "title"
    BY <1>3, <1>4, <2>2 DEF PartNow, KindNow
  <2>4. Expected(1, "title") = <<1, "title">>
    BY <1>3 DEF Expected, ElementOf, Through
  <2> QED BY <1>1, <1>4, <2>1, <2>3, <2>4 DEF TopInv
<1>8. WrittenInv
  BY <1>1, EmptySeq DEF WrittenInv
<1> QED BY <1>5, <1>6, <1>7, <1>8 DEF WInv, SInv

LEMMA NextS ==
  ASSUME RInv, RInv', WInv, [Next]_vars PROVE WInv'
<1>1. ASSUME NEW kind \in Kinds, VisitLeaf(kind) PROVE WInv'
  BY <1>1, VisitLeafS
<1>2. ASSUME NEW kind \in Kinds, NEW opt \in Options(kind), Enter(kind, opt) PROVE WInv'
  BY <1>2, EnterS
<1>3. CASE NextPart
  BY <1>3, NextPartS
<1>4. CASE Leave
  BY <1>4, LeaveS
<1>5. CASE Finish
  BY <1>5, FinishS
<1>6. CASE UNCHANGED vars
  BY <1>6, StutterS
<1> QED BY <1>1, <1>2, <1>3, <1>4, <1>5, <1>6 DEF Next

LEMMA WInvariant == Spec => []WInv
<1>1. ASSUME RInv, RInv', WInv, [Next]_vars PROVE WInv'
  BY <1>1, NextS
<1>2. Init => WInv
  BY InitS
<1> QED BY <1>1, <1>2, Invariant, PTL DEF Spec

-----------------------------------------------------------------------------
(* What is hung, and once                                                  *)

Open(n) == \E i \in 1 .. Len(calls) : calls[i].node = n

Ofs(s) == {s[i].of : i \in 1 .. Len(s)}
Once(s, e) == \E i \in 1 .. Len(s) : s[i].of = e /\ \A j \in 1 .. Len(s) : s[j].of = e => j = i

\* A node is hung when its visitor comes back, an index term when it is called;
\* a paragraph has then the style of the cell around it.
HungInv(n) ==
  /\ IF KindOf(n) \in Silent \/ (Open(n) /\ KindOf(n) # "indexterm")
     THEN Self(n) \notin Ofs(out)
     ELSE Once(out, Self(n))
  /\ KindOf(n) = "paragraph" => \A style \in Styles \ {"none"} :
       <<n, style>> \in Ofs(out) <=> ~Open(n) /\ StyleAround[n] = style

HInv == \A n \in 2 .. Len(ast) : HungInv(n)

LEMMA OfsJoined ==
  ASSUME NEW S, NEW s \in Seq(S), NEW t \in Seq(S)
  PROVE  /\ Ofs(s \o t) = Ofs(s) \cup Ofs(t)
         /\ \A e : e \notin Ofs(t) => (Once(s \o t, e) <=> Once(s, e))
         /\ \A e : e \notin Ofs(s) /\ Once(t, e) => Once(s \o t, e)
<1>1. PICK m \in Nat, k \in Nat : m = Len(s) /\ k = Len(t)
  OBVIOUS
<1> PICK st : st = s \o t
  OBVIOUS
<1>2. /\ Len(st) = m + k
      /\ \A i \in 1 .. m : st[i] = s[i]
      /\ \A i \in m + 1 .. m + k : st[i] = t[i - m]
      /\ \A i \in 1 .. k : st[m + i] = t[i]
  BY <1>1
<1>3. Ofs(st) = Ofs(s) \cup Ofs(t)
  <2>1. ASSUME NEW i \in 1 .. m + k PROVE st[i].of \in Ofs(s) \cup Ofs(t)
    <3>1. CASE i \in 1 .. m
      BY <1>1, <1>2, <3>1 DEF Ofs
    <3>2. CASE i \notin 1 .. m
      <4>1. i - m \in 1 .. k /\ i \in m + 1 .. m + k
        BY <3>2
      <4>2. st[i] = t[i - m]
        BY <1>2, <4>1
      <4> QED BY <1>1, <4>1, <4>2 DEF Ofs
    <3> QED BY <3>1, <3>2
  <2>2. ASSUME NEW i \in 1 .. m PROVE s[i].of \in Ofs(st)
    <3>1. i \in 1 .. Len(st) /\ st[i] = s[i]
      BY <1>2
    <3> QED BY <3>1 DEF Ofs
  <2>3. ASSUME NEW i \in 1 .. k PROVE t[i].of \in Ofs(st)
    <3>1. m + i \in 1 .. Len(st) /\ st[m + i] = t[i]
      BY <1>2
    <3> QED BY <3>1 DEF Ofs
  <2>4. Ofs(st) \subseteq Ofs(s) \cup Ofs(t)
    <3> SUFFICES ASSUME NEW x \in Ofs(st) PROVE x \in Ofs(s) \cup Ofs(t)
      OBVIOUS
    <3>1. PICK i \in 1 .. Len(st) : x = st[i].of
      BY DEF Ofs
    <3> QED BY <1>2, <2>1, <3>1
  <2>5. Ofs(s) \subseteq Ofs(st) /\ Ofs(t) \subseteq Ofs(st)
    <3>1. ASSUME NEW x \in Ofs(s) PROVE x \in Ofs(st)
      <4>1. PICK i \in 1 .. Len(s) : x = s[i].of
        BY DEF Ofs
      <4> QED BY <1>1, <2>2, <4>1
    <3>2. ASSUME NEW x \in Ofs(t) PROVE x \in Ofs(st)
      <4>1. PICK i \in 1 .. Len(t) : x = t[i].of
        BY DEF Ofs
      <4> QED BY <1>1, <2>3, <4>1
    <3> QED BY <3>1, <3>2
  <2> QED BY <2>4, <2>5
<1>4. ASSUME NEW e, e \notin Ofs(t) PROVE Once(st, e) <=> Once(s, e)
  <2>1. \A i \in 1 .. m + k : st[i].of = e => i \in 1 .. m /\ s[i].of = e
    <3> SUFFICES ASSUME NEW i \in 1 .. m + k, st[i].of = e PROVE i \in 1 .. m /\ s[i].of = e
      OBVIOUS
    <3>1. i \in 1 .. m
      <4> SUFFICES ASSUME i \notin 1 .. m PROVE FALSE
        OBVIOUS
      <4>1. i - m \in 1 .. k /\ i \in m + 1 .. m + k
        OBVIOUS
      <4>2. st[i] = t[i - m]
        BY <1>2, <4>1
      <4> QED BY <1>1, <1>4, <4>1, <4>2 DEF Ofs
    <3> QED BY <1>2, <3>1
  <2>2. \A i \in 1 .. m : i \in 1 .. m + k /\ st[i] = s[i]
    BY <1>2
  <2> QED BY <1>1, <1>2, <2>1, <2>2 DEF Once
<1>5. ASSUME NEW e, e \notin Ofs(s), Once(t, e) PROVE Once(st, e)
  <2>1. PICK i \in 1 .. k : t[i].of = e /\ \A j \in 1 .. k : t[j].of = e => j = i
    BY <1>1, <1>5 DEF Once
  <2>2. PICK it \in 1 .. Len(st) : it = m + i /\ st[it].of = e
    BY <1>2, <2>1
  <2>3. ASSUME NEW j \in 1 .. m + k, st[j].of = e PROVE j = it
    <3>1. j \notin 1 .. m
      BY <1>1, <1>2, <1>5, <2>3 DEF Ofs
    <3>2. j - m \in 1 .. k /\ j \in m + 1 .. m + k
      BY <3>1
    <3>3. st[j] = t[j - m]
      BY <1>2, <3>2
    <3>4. j - m = i
      BY <2>1, <2>3, <3>2, <3>3
    <3> QED BY <2>2, <3>4
  <2>4. \A j \in 1 .. Len(st) : st[j].of = e => j = it
    BY <1>2, <2>3
  <2> QED BY <2>2, <2>4 DEF Once
<1> QED BY <1>3, <1>4, <1>5

LEMMA OfsOfNone == <<>> \in Seq(Hung) /\ Ofs(<<>>) = {}
<1>1. Len(<<>>) = 0
  OBVIOUS
<1> QED BY <1>1, EmptySeq DEF Ofs

LEMMA OfsOfOne ==
  ASSUME NEW h
  PROVE  Ofs(<<h>>) = {h.of} /\ Ofs(<<>>) = {} /\ Once(<<h>>, h.of)
<1>1. Len(<<h>>) = 1 /\ <<h>>[1] = h /\ Len(<<>>) = 0
  OBVIOUS
<1> QED BY <1>1 DEF Ofs, Once

\* What is hung of other nodes does not matter.
LEMMA StillHung ==
  ASSUME NEW n \in 2 .. Len(ast), HungInv(n), n \in Nodes, ast'[n] = ast[n],
         StyleAround'[n] = StyleAround[n], Open(n)' <=> Open(n),
         out \in Seq(Hung), NEW s \in Seq(Hung), out' = out \o s,
         Self(n) \notin Ofs(s),
         KindOf(n) = "paragraph" => \A e \in Ofs(s) : e[1] # n
  PROVE  HungInv(n)'
<1>1. /\ Ofs(out') = Ofs(out) \cup Ofs(s)
      /\ Once(out', Self(n)) <=> Once(out, Self(n))
  BY OfsJoined
<1>2. KindOf(n)' = KindOf(n)
  BY DEF KindOf
<1>3. KindOf(n) = "paragraph" => \A style : <<n, style>> \notin Ofs(s)
  OBVIOUS
<1>4. Ofs(out)' = Ofs(out') /\ (Once(out, Self(n))' <=> Once(out', Self(n)))
  BY DEF Ofs, Once
<1> QED BY <1>1, <1>2, <1>3, <1>4 DEF HungInv

\* What a visitor hangs between its parts is not what it hangs in the end.
LEMMA DoneOfs ==
  ASSUME RInv, NEW n \in Nodes, NEW part
  PROVE  /\ Done(n, part) \in Seq(Hung)
         /\ \A e \in Ofs(Done(n, part)) : e[1] = n /\ e[2] # "self"
<1>1. Done(n, part) \in Seq(OwnParts(n))
  BY DoneFacts DEF RInv, CurrentInv, Nodes
<1>2. OwnParts(n) \subseteq Hung
  BY DEF OwnParts
<1>3. \A i \in 1 .. Len(Done(n, part)) : Done(n, part)[i] \in OwnParts(n)
  BY <1>1
<1> QED BY <1>1, <1>2, <1>3, SeqMonotonic DEF Ofs, OwnParts

LEMMA OutFacts ==
  ASSUME RInv
  PROVE  /\ out \in Seq(Hung)
         /\ \A e \in Ofs(out) : e[1] \in Nodes
         /\ \A n : Open(n) => n \in Nodes
<1>1. RightOnes \subseteq Hung /\ out \in Seq(RightOnes)
  BY DEF RightOnes, RInv, OutInv
<1>2. out \in Seq(Hung)
  BY <1>1, SeqMonotonic
<1>3. \A i \in 1 .. Len(out) : out[i] \in RightOnes
  BY <1>1
<1>4. \A e \in Ofs(out) : e[1] \in Nodes
  BY <1>3 DEF Ofs, RightOnes, Right
<1>5. \A n : Open(n) => n \in Nodes
  BY DEF Open, RInv, CallsInv, VisitInv
<1> QED BY <1>2, <1>4, <1>5

\* The nodes that were there before a new child.
LEMMA OthersHung ==
  ASSUME RInv, TreeInv', WInv, HInv, calls # <<>>, NEW kind \in Kinds, NEW opt,
         NEW n, NEW p, NEW part, NewChild(kind, opt, n, p, part),
         NEW s \in Seq(Hung), out' = out \o s, \A e \in Ofs(s) : e[1] = n,
         \A m \in Nodes : Open(m)' <=> Open(m)
  PROVE  \A m \in 2 .. Len(ast) : HungInv(m)'
<1>1. /\ \A m \in Nodes : ast'[m] = ast[m]
      /\ \A m \in Nodes : StyleAround'[m] = StyleAround[m]
  <2>1. \A m \in Nodes : ast'[m] = ast[m]
    BY DEF NewChild
  <2> QED BY <2>1, ChildStays DEF WInv
<1>2. out \in Seq(Hung)
  BY OutFacts
<1> SUFFICES ASSUME NEW m \in 2 .. Len(ast) PROVE HungInv(m)'
  OBVIOUS
<1>3. HungInv(m)
  BY DEF HInv
<1>4. m \in Nodes /\ m # n
  BY DEF NewChild
<1>5. Self(m) \notin Ofs(s)
  BY <1>4 DEF Self
<1>6. /\ ast'[m] = ast[m] /\ StyleAround'[m] = StyleAround[m]
      /\ Open(m)' <=> Open(m)
      /\ \A e \in Ofs(s) : e[1] # m
  BY <1>1, <1>4
<1> QED BY <1>2, <1>3, <1>4, <1>5, <1>6, StillHung

LEMMA VisitLeafH ==
  ASSUME RInv, RInv', WInv, HInv, NEW kind \in Kinds, VisitLeaf(kind) PROVE HInv'
<1>1. /\ Child(kind, Plain) /\ calls' = calls /\ calls # <<>> /\ kind \in LeafBlocks \cup LeafInlines
  BY DEF VisitLeaf, Child
<1>2. TreeInv'
  BY DEF RInv
<1> PICK n : n = Len(ast) + 1
  OBVIOUS
<1>3. PICK p, part : NewChild(kind, Plain, n, p, part)
  BY <1>1, ChildIs
<1>4. n \in Nat /\ n \notin Nodes /\ Len(ast') = n /\ KindOf(n)' = kind /\ Len(ast) = n - 1
  BY <1>3 DEF NewChild, KindOf
<1> PICK hung : hung = IF kind \in LeafInlines THEN LeafInline(n) ELSE LeafBlock(kind, n)
  OBVIOUS
<1>5. out' = out \o hung
  BY DEF VisitLeaf
<1>6. /\ hung \in Seq(Hung)
      /\ \A e \in Ofs(hung) : e[1] = n
      /\ IF kind \in Silent THEN Self(n) \notin Ofs(hung) ELSE Once(hung, Self(n))
  <2>1. current_node \in Element
    BY DEF RInv, CurrentInv
  <2>2. \A name \in {"self", "text"} :
          Hang(<<n, name>>, current_node) \in Hung /\ Hang(<<n, name>>, current_node).of = <<n, name>>
    BY <1>4, <2>1 DEF Hang, Hung, Element, Names
  <2>3. Silent \cap (LeafBlocks \cup LeafInlines) = {"literal", "attribute_entry"}
    BY DEF Silent, LeafBlocks, LeafInlines
  <2>4. CASE kind = "attribute_entry"
    <3>1. hung = <<>>
      BY <2>4 DEF LeafInlines, LeafBlock, Ignored
    <3> QED BY <2>3, <2>4, <3>1, EmptySeq, OfsOfOne DEF Silent
  <2>5. CASE kind = "literal"
    <3>1. PICK h \in Hung : h = Hang(<<n, "text">>, current_node) /\ h.of = <<n, "text">>
      BY <2>2
    <3>2. hung = <<h>>
      BY <2>5, <3>1 DEF LeafInlines, LeafBlock, Ignored
    <3>3. Ofs(hung) = {<<n, "text">>} /\ hung \in Seq(Hung)
      BY <3>1, <3>2, OfsOfOne, TuplesAreSeqs
    <3> QED BY <2>5, <3>3 DEF Silent, Self
  <2>6. CASE kind \notin {"literal", "attribute_entry"}
    <3>1. PICK h \in Hung : h = Hang(Self(n), current_node) /\ h.of = Self(n)
      BY <2>2 DEF Self
    <3>2. hung = <<h>>
      BY <2>6, <3>1 DEF LeafInline, LeafBlock, Ignored
    <3>3. Ofs(hung) = {Self(n)} /\ hung \in Seq(Hung) /\ Once(hung, Self(n))
      BY <3>1, <3>2, OfsOfOne, TuplesAreSeqs
    <3>4. kind \notin Silent
      BY <1>1, <2>3, <2>6
    <3> QED BY <3>3, <3>4 DEF Self
  <2> QED BY <2>4, <2>5, <2>6
<1>7. \A m : Open(m)' <=> Open(m)
  BY <1>1 DEF Open
<1>8. \A m \in 2 .. Len(ast) : HungInv(m)'
  BY <1>1, <1>2, <1>3, <1>5, <1>6, <1>7, OthersHung
<1>9. HungInv(n)'
  <2>1. ~Open(n)' /\ kind # "paragraph"
    BY <1>1, <1>4, <1>7, OutFacts DEF LeafBlocks, LeafInlines
  <2>2. Self(n) \notin Ofs(out)
    BY <1>4, OutFacts DEF Self
  <2>3. /\ Ofs(out') = Ofs(out) \cup Ofs(hung)
        /\ Once(hung, Self(n)) => Once(out', Self(n))
    BY <1>5, <1>6, <2>2, OutFacts, OfsJoined
  <2>4. IF kind \in Silent THEN Self(n) \notin Ofs(out') ELSE Once(out', Self(n))
    BY <1>6, <2>2, <2>3
  <2>5. Ofs(out)' = Ofs(out') /\ (Once(out, Self(n))' <=> Once(out', Self(n)))
    BY DEF Ofs, Once
  <2> QED BY <1>4, <2>1, <2>4, <2>5 DEF HungInv
<1>10. \A m \in 2 .. Len(ast') : m \in 2 .. Len(ast) \/ m = n
  BY <1>4
<1> QED BY <1>8, <1>9, <1>10 DEF HInv

LEMMA EnterH ==
  ASSUME RInv, RInv', WInv, HInv, NEW kind \in Kinds, NEW opt, Enter(kind, opt) PROVE HInv'
<1>1. /\ Child(kind, opt) /\ calls # <<>>
  BY DEF Enter, Child
<1>2. TreeInv' /\ CallsInv
  BY DEF RInv
<1> PICK n : n = Len(ast) + 1
  OBVIOUS
<1>3. PICK p, part : NewChild(kind, opt, n, p, part)
  BY <1>1, ChildIs
<1>4. n \in Nat /\ n \notin Nodes /\ Len(ast') = n /\ KindOf(n)' = kind /\ Len(ast) = n - 1
  BY <1>3 DEF NewChild, KindOf
<1> PICK hung : hung = IF kind = "indexterm" THEN <<Hang(Self(n), current_node)>> ELSE <<>>
  OBVIOUS
<1>5. out' = out \o hung
  <2>1. out \in Seq(Hung)
    BY OutFacts
  <2>2. out' = IF kind = "indexterm" THEN Append(out, Hang(Self(n), current_node)) ELSE out
    BY DEF Enter
  <2> PICK h : h = Hang(Self(n), current_node)
    OBVIOUS
  <2>3. out \o <<h>> = Append(out, h) /\ out \o <<>> = out
    BY <2>1
  <2> QED BY <2>2, <2>3
<1>6. /\ hung \in Seq(Hung)
      /\ \A e \in Ofs(hung) : e = Self(n)
      /\ IF kind = "indexterm" THEN Once(hung, Self(n)) ELSE Ofs(hung) = {}
  <2>1. current_node \in Element
    BY DEF RInv, CurrentInv
  <2>2. PICK h \in Hung : h = Hang(Self(n), current_node) /\ h.of = Self(n)
    <3>1. Self(n) \in Element
      BY <1>4 DEF Self, Element, Names
    <3> QED BY <2>1, <3>1, HangFacts
  <2>3. /\ Ofs(<<h>>) = {Self(n)} /\ <<h>> \in Seq(Hung) /\ Once(<<h>>, Self(n))
        /\ Ofs(<<>>) = {} /\ <<>> \in Seq(Hung)
    BY <2>2, OfsOfOne, TuplesAreSeqs, EmptySeq
  <2> QED BY <2>2, <2>3
<1>7. \A m : Open(m)' <=> Open(m) \/ m = n
  <2>1. PICK L \in Nat : L = Len(calls)
    BY <1>2 DEF CallsInv
  <2>2. PICK new : new.node = n /\ calls' = Append(calls, new)
    BY DEF Enter
  <2>3. /\ Len(calls') = L + 1 /\ calls'[L + 1].node = n
        /\ \A j \in 1 .. L : calls'[j] = calls[j]
    BY <1>2, <2>1, <2>2 DEF CallsInv
  <2>4. \A m : (\E i \in 1 .. L + 1 : calls'[i].node = m) <=> (\E i \in 1 .. L : calls[i].node = m) \/ m = n
    <3>1. \A i \in 1 .. L + 1 : i \in 1 .. L \/ i = L + 1
      OBVIOUS
    <3>2. \A i \in 1 .. L : i \in 1 .. L + 1
      OBVIOUS
    <3>3. L + 1 \in 1 .. L + 1
      OBVIOUS
    <3> QED BY <2>3, <3>1, <3>2, <3>3
  <2> QED BY <2>1, <2>3, <2>4 DEF Open
<1>8. \A m \in 2 .. Len(ast) : HungInv(m)'
  <2>1. \A e \in Ofs(hung) : e[1] = n
    BY <1>6 DEF Self
  <2>2. \A m \in Nodes : Open(m)' <=> Open(m)
    BY <1>4, <1>7
  <2> QED BY <1>1, <1>2, <1>3, <1>5, <1>6, <2>1, <2>2, OthersHung
<1>9. HungInv(n)'
  <2>1. Open(n)'
    BY <1>7
  <2>2. \A name : <<n, name>> \notin Ofs(out)
    BY <1>4, OutFacts
  <2>3. Self(n) \notin Ofs(out)
    BY <2>2 DEF Self
  <2>4. /\ Ofs(out') = Ofs(out) \cup Ofs(hung)
        /\ Once(hung, Self(n)) => Once(out', Self(n))
    BY <1>5, <1>6, <2>3, OutFacts, OfsJoined
  <2>5. Ofs(out)' = Ofs(out') /\ (Once(out, Self(n))' <=> Once(out', Self(n)))
    BY DEF Ofs, Once
  <2>6. CASE kind = "indexterm"
    BY <1>4, <1>6, <2>4, <2>5, <2>6 DEF HungInv, Silent
  <2>7. CASE kind # "indexterm"
    BY <1>4, <1>6, <2>1, <2>2, <2>3, <2>4, <2>5, <2>7 DEF HungInv
  <2> QED BY <2>6, <2>7
<1>10. \A m \in 2 .. Len(ast') : m \in 2 .. Len(ast) \/ m = n
  BY <1>4
<1> QED BY <1>8, <1>9, <1>10 DEF HInv

LEMMA NextPartH ==
  ASSUME RInv, RInv', WInv, HInv, NextPart PROVE HInv'
<1>1. /\ calls # <<>> /\ Top.at < Len(Parts(KindNow)) /\ ast' = ast
      /\ out' = out \o Done(Top.node, PartNow)
      /\ calls' = [calls EXCEPT ![Len(calls)].at = @ + 1]
  BY DEF NextPart
<1>2. TreeInv /\ TreeInv' /\ CallsInv /\ CurrentInv
  BY DEF RInv
<1>3. /\ Len(calls) \in Nat \ {0} /\ Top \in Visit /\ Top.node \in Nodes
      /\ Top.at \in 1 .. Len(Parts(KindNow)) /\ KindNow \in Kinds
  BY <1>1, <1>2, TopFacts
<1>4. Nodes' = Nodes /\ \A m \in Nodes : ast'[m] = ast[m] /\ StyleAround'[m] = StyleAround[m]
  BY <1>1, <1>2, SameTree
<1>5. Len(calls') = Len(calls) /\ \A i \in 1 .. Len(calls) : calls'[i].node = calls[i].node
  BY <1>1, <1>2, <1>3 DEF CallsInv, Visit
<1>6. \A m : Open(m)' <=> Open(m)
  BY <1>5 DEF Open
<1>7. PICK n \in Nodes : n = Top.node
  BY <1>3
<1> PICK part : part = PartNow
  OBVIOUS
<1>8. KindOf(n) # "paragraph"
  <2>1. Parts("paragraph") = <<"inlines">>
    BY PartsList
  <2>2. Len(Parts("paragraph")) = 1
    BY <2>1
  <2>3. ASSUME KindNow = "paragraph" PROVE FALSE
    <3>1. Len(Parts(KindNow)) = 1
      BY <2>2, <2>3
    <3>2. PICK at : at = Top.at
      OBVIOUS
    <3>3. at \in 1 .. 1 /\ at < 1
      BY <1>1, <1>3, <3>1, <3>2
    <3> QED BY <3>3
  <2> QED BY <1>7, <2>3 DEF KindNow
<1> PICK s : s = Done(n, part)
  OBVIOUS
<1>9. out' = out \o s /\ s \in Seq(Hung) /\ \A e \in Ofs(s) : e[1] = n /\ e[2] # "self"
  BY <1>1, <1>7, DoneOfs
<1>10. ASSUME NEW m \in 2 .. Len(ast) PROVE HungInv(m)'
  <2>1. HungInv(m) /\ m \in Nodes
    BY DEF HInv, Nodes
  <2>2. Self(m) \notin Ofs(s)
    BY <1>9 DEF Self
  <2>3. KindOf(m) = "paragraph" => \A e \in Ofs(s) : e[1] # m
    BY <1>8, <1>9
  <2>4. out \in Seq(Hung)
    BY OutFacts
  <2> QED BY <1>4, <1>6, <1>9, <2>1, <2>2, <2>3, <2>4, StillHung
<1> QED BY <1>1, <1>10 DEF HInv

LEMMA LeaveH ==
  ASSUME RInv, RInv', WInv, HInv, Leave PROVE HInv'
<1>1. TreeInv /\ TreeInv' /\ CallsInv /\ CurrentInv /\ SInv
  BY DEF RInv, WInv
<1>2. PICK L \in Nat : L = Len(calls) /\ L > 1 /\ calls # <<>> /\ L \in 1 .. Len(calls)
  BY <1>1, EmptySeq DEF Leave, Leaving, CallsInv
<1>3. /\ Top \in Visit /\ Top.node \in Nodes /\ calls[L] = Top /\ Top.at = Len(Parts(KindNow))
      /\ Top.at \in 1 .. Len(Parts(KindNow)) /\ KindNow \in Kinds
  BY <1>1, <1>2, TopFacts DEF Top, Leave, Leaving
<1>4. /\ ast' = ast /\ calls' = SubSeq(calls, 1, L - 1)
      /\ out' = out \o Done(Top.node, PartNow) \o Own(Top.node, Top.old)
  BY <1>2 DEF Leave, Leaving
<1>5. /\ Nodes' = Nodes
      /\ \A m \in Nodes : ast'[m] = ast[m] /\ KindOf(m)' = KindOf(m) /\ StyleAround'[m] = StyleAround[m]
  BY <1>1, <1>4, SameTree
<1>6. /\ Len(calls') = L - 1
      /\ \A j \in 1 .. L - 1 : calls'[j] = calls[j] /\ j \in 1 .. Len(calls)
  <2>1. /\ calls \in Seq(Visit) /\ 1 \in 1 .. Len(calls) + 1 /\ L - 1 \in 0 .. Len(calls)
        /\ L - 1 >= 1 /\ (L - 1) - 1 + 1 = L - 1
    BY <1>1, <1>2 DEF CallsInv
  <2>2. Len(calls') = L - 1 /\ \A j \in 1 .. L - 1 : calls'[j] = calls[j]
    BY <1>2, <1>4, <2>1, SubSeqProperties
  <2> QED BY <1>2, <2>1, <2>2
<1>7. PICK n \in Nodes : n = Top.node /\ KindOf(n) = KindNow
  BY <1>3 DEF KindNow
<1> PICK part : part = PartNow
  OBVIOUS
<1>8. n # 1 /\ n \in 2 .. Len(ast) /\ n \in Nat /\ n = calls[L].node
  <2>1. VisitInv(L)
    BY <1>1, <1>2 DEF CallsInv
  <2>2. n # 1
    BY <1>2, <1>3, <1>7, <2>1 DEF VisitInv
  <2> QED BY <1>1, <1>3, <1>7, <2>2 DEF TreeInv, Nodes
<1>9. /\ Open(n) /\ ~Open(n)'
      /\ \A m : m # n => (Open(m)' <=> Open(m))
  <2>1. ASSUME NEW i \in 1 .. L - 1 PROVE calls[i].node # n
    <3>1. i \in 1 .. Len(calls) /\ L \in 1 .. Len(calls) /\ i < L
      BY <1>2
    <3>2. calls[i].node < calls[L].node
      BY <1>1, <3>1 DEF SInv, FramesInv
    <3>3. calls[i].node \in Nat
      BY <1>1, <3>1 DEF CallsInv, VisitInv, Nodes
    <3> QED BY <1>8, <3>2, <3>3
  <2>2. \A i \in 1 .. L : i \in 1 .. L - 1 \/ i = L
    BY <1>2
  <2>3. \A m : Open(m)' <=> \E i \in 1 .. L - 1 : calls[i].node = m
    BY <1>6 DEF Open
  <2>4. \A m : Open(m) <=> \E i \in 1 .. L : calls[i].node = m
    BY <1>2 DEF Open
  <2> QED BY <1>2, <1>6, <1>8, <2>1, <2>2, <2>3, <2>4
<1> PICK d : d = Done(n, part)
  OBVIOUS
<1> PICK own : own = Own(n, Top.old)
  OBVIOUS
<1>10. d \in Seq(Hung) /\ \A e \in Ofs(d) : e[1] = n /\ e[2] # "self"
  BY DoneOfs
<1>11. /\ own \in Seq(Hung)
       /\ IF KindOf(n) \in Through THEN Ofs(own) = {} ELSE Ofs(own) = {Self(n)} /\ Once(own, Self(n))
  <2>1. CASE KindOf(n) \in Through
    BY <2>1, OfsOfOne, EmptySeq DEF Own, Through
  <2>2. CASE KindOf(n) \notin Through
    <3>1. PICK above : above = Above(n, Top.old)
      OBVIOUS
    <3>2. above \in Element
      <4>1. Top.old \in Element
        BY <1>3 DEF Visit
      <4>2. ast[n].in \in Nodes
        BY <1>1, <1>8 DEF TreeInv, Nodes
      <4> QED BY <3>1, <4>1, <4>2, SelfFacts DEF Above
    <3>3. PICK h \in Hung : h = Hang(Self(n), above) /\ h.of = Self(n)
      BY <3>2, SelfFacts, HangFacts
    <3>4. own = <<h>>
      BY <2>2, <3>1, <3>3 DEF Own, Through
    <3> QED BY <2>2, <3>3, <3>4, OfsOfOne, TuplesAreSeqs
  <2> QED BY <2>1, <2>2
<1>12. PICK s : /\ s = d \o own /\ out' = out \o s /\ out \in Seq(Hung) /\ s \in Seq(Hung)
                /\ Ofs(s) = Ofs(d) \cup Ofs(own) /\ Ofs(out') = Ofs(out) \cup Ofs(s)
  <2>1. out \in Seq(Hung)
    BY OutFacts
  <2>2. out' = (out \o d) \o own
    BY <1>4, <1>7
  <2>3. PICK s : s = d \o own
    OBVIOUS
  <2>4. s \in Seq(Hung) /\ Ofs(s) = Ofs(d) \cup Ofs(own)
    BY <1>10, <1>11, <2>3, OfsJoined, ConcatProperties
  <2>5. out' = out \o s
    <3>1. d \in Seq(Hung) /\ own \in Seq(Hung)
      BY <1>10, <1>11
    <3>2. (out \o d) \o own = out \o (d \o own)
      BY <2>1, <3>1, ConcatAssociative
    <3> QED BY <2>2, <2>3, <3>2
  <2>6. Ofs(out \o s) = Ofs(out) \cup Ofs(s)
    BY <2>1, <2>4, OfsJoined
  <2> QED BY <2>1, <2>3, <2>4, <2>5, <2>6
<1>13. \A e \in Ofs(s) : e[1] = n
  BY <1>10, <1>11, <1>12 DEF Self
<1>14. ASSUME NEW m \in 2 .. Len(ast), m # n PROVE HungInv(m)'
  <2>1. HungInv(m) /\ m \in Nodes
    BY DEF HInv, Nodes
  <2>2. Self(m) \notin Ofs(s) /\ \A e \in Ofs(s) : e[1] # m
    BY <1>13, <1>14 DEF Self
  <2>3. Open(m)' <=> Open(m)
    BY <1>9, <1>14
  <2> QED BY <1>5, <1>12, <2>1, <2>2, <2>3, StillHung
<1>15. HungInv(n)'
  <2>1. HungInv(n)
    BY <1>8 DEF HInv
  <2>2. Ofs(out)' = Ofs(out') /\ (Once(out, Self(n))' <=> Once(out', Self(n)))
    BY DEF Ofs, Once
  <2>3. Ofs(out') = Ofs(out) \cup Ofs(d) \cup Ofs(own)
    <3>1. Ofs(out') = Ofs(out) \cup Ofs(s) /\ Ofs(s) = Ofs(d) \cup Ofs(own)
      BY <1>12
    <3> QED BY <3>1
  <2>4. Self(n) \notin Ofs(d)
    BY <1>10 DEF Self
  <2>5. IF KindOf(n) \in Silent THEN Self(n) \notin Ofs(out') ELSE Once(out', Self(n))
    <3>1. CASE KindOf(n) = "indexterm"
      <4>1. Ofs(own) = {} /\ KindOf(n) \notin Silent
        BY <1>11, <3>1 DEF Through, Silent
      <4>2. Once(out, Self(n))
        BY <2>1, <3>1, <4>1 DEF HungInv
      <4>3. Self(n) \notin Ofs(s)
        BY <1>12, <2>4, <4>1
      <4> QED BY <1>12, <4>1, <4>2, <4>3, OfsJoined
    <3>2. CASE KindOf(n) = "example"
      <4>1. Ofs(own) = {} /\ KindOf(n) \in Silent
        BY <1>11, <3>2 DEF Through, Silent
      <4> QED BY <2>1, <2>3, <2>4, <4>1 DEF HungInv
    <3>3. CASE KindOf(n) \notin {"example", "indexterm"}
      <4>1. KindOf(n) \notin Silent
        <5>1. Parts("literal") = <<>> /\ Parts("attribute_entry") = <<>>
          BY PartsList DEF LeafBlocks
        <5>2. Len(Parts("literal")) = 0 /\ Len(Parts("attribute_entry")) = 0
          BY <5>1
        <5> QED BY <1>3, <1>7, <3>3, <5>2 DEF Silent
      <4>2. Self(n) \notin Ofs(out)
        BY <1>9, <2>1, <3>3, <4>1 DEF HungInv
      <4>3. Once(own, Self(n))
        BY <1>11, <3>3 DEF Through
      <4>4. Once(s, Self(n))
        <5>1. Once(d \o own, Self(n))
          BY <1>10, <1>11, <2>4, <4>3, OfsJoined
        <5> QED BY <1>12, <5>1
      <4> QED BY <1>12, <4>1, <4>2, <4>4, OfsJoined
    <3> QED BY <3>1, <3>2, <3>3
  <2>6. ASSUME KindOf(n) = "paragraph", NEW style \in Styles \ {"none"}
        PROVE  <<n, style>> \in Ofs(out') <=> StyleAround[n] = style
    <3>1. <<n, style>> \notin Ofs(out)
      BY <1>9, <2>1, <2>6 DEF HungInv
    <3>2. <<n, style>> \notin Ofs(own)
      BY <1>11, <2>6 DEF Self, Styles
    <3>3. part = "inlines"
      <4>1. Parts("paragraph") = <<"inlines">>
        BY PartsList
      <4>2. Top.at = 1
        BY <1>3, <1>7, <2>6, <4>1
      <4> QED BY <1>7, <2>6, <4>1, <4>2 DEF PartNow
    <3>4. cell_style = StyleAround[n]
      BY <1>1, <1>2, <1>7 DEF SInv, TopInv
    <3>5. d = IF cell_style # "none" THEN <<Hang(<<n, cell_style>>, Self(n))>> ELSE <<>>
      <4>1. d = IF InParagraph(n) # Self(n) THEN <<Hang(InParagraph(n), Self(n))>> ELSE <<>>
        BY <2>6, <3>3 DEF Done, Boxes
      <4>2. InParagraph(n) = IF cell_style # "none" THEN <<n, cell_style>> ELSE Self(n)
        BY DEF InParagraph
      <4>3. cell_style # "none" => <<n, cell_style>> # Self(n)
        BY <1>1 DEF Self, CurrentInv, Styles
      <4> QED BY <4>1, <4>2, <4>3
    <3>6. Ofs(d) = IF cell_style # "none" THEN {<<n, cell_style>>} ELSE {}
      <4>1. PICK h : h = Hang(<<n, cell_style>>, Self(n))
        OBVIOUS
      <4>2. h.of = <<n, cell_style>>
        BY <4>1, HangFacts
      <4> QED BY <3>5, <4>1, <4>2, OfsOfOne
    <3> QED BY <2>3, <3>1, <3>2, <3>4, <3>6
  <2> QED BY <1>5, <1>9, <2>2, <2>5, <2>6 DEF HungInv
<1>16. \A m \in 2 .. Len(ast) : HungInv(m)'
  BY <1>14, <1>15
<1> QED BY <1>4, <1>16 DEF HInv

LEMMA FinishH ==
  ASSUME RInv, RInv', WInv, HInv, Finish PROVE HInv'
<1>1. TreeInv /\ TreeInv' /\ CallsInv /\ TermsInv
  BY DEF RInv, WInv, SInv
<1>2. Len(calls) = 1 /\ calls' = <<>> /\ ast' = ast
  BY DEF Finish
<1>3. Nodes' = Nodes /\ \A m \in Nodes : ast'[m] = ast[m] /\ StyleAround'[m] = StyleAround[m]
  BY <1>1, <1>2, SameTree
<1>4. \A m : m # 1 => ~Open(m) /\ ~Open(m)'
  BY <1>1, <1>2 DEF Open, CallsInv, VisitInv
<1>5. PICK r \in Hung : r = Hang(<<1, "root section">>, Self(1)) /\ r.of = <<1, "root section">>
  <2>1. <<1, "root section">> \in Element /\ Self(1) \in Element
    BY DEF Self, Element, Names
  <2> QED BY <2>1, HangFacts
<1>6. PICK s \in Seq(Hung) : out' = out \o s /\ \A e \in Ofs(s) : e[1] = 1
  <2>1. out \in Seq(Hung)
    BY OutFacts
  <2>2. CASE out' = out
    <3>1. out \o <<>> = out
      BY <2>1
    <3> QED BY <2>2, <3>1, OfsOfNone
  <2>3. CASE out' = Append(out, r)
    <3>1. out \o <<r>> = Append(out, r) /\ <<r>> \in Seq(Hung)
      BY <2>1, TuplesAreSeqs
    <3>2. Ofs(<<r>>) = {<<1, "root section">>}
      BY <1>5, OfsOfOne
    <3>3. <<1, "root section">>[1] = 1
      OBVIOUS
    <3> QED BY <2>3, <3>1, <3>2, <3>3
  <2>4. out' = out \/ out' = Append(out, r)
    BY <1>5 DEF Finish
  <2> QED BY <2>2, <2>3, <2>4
<1>7. ASSUME NEW m \in 2 .. Len(ast) PROVE HungInv(m)'
  <2>1. HungInv(m) /\ m \in Nodes /\ m # 1
    BY DEF HInv, Nodes
  <2>2. Self(m) \notin Ofs(s) /\ \A e \in Ofs(s) : e[1] # m
    <3>1. \A e \in Ofs(s) : e[1] = 1
      BY <1>6
    <3>2. Self(m)[1] = m
      BY DEF Self
    <3> QED BY <2>1, <3>1, <3>2
  <2>3. Open(m)' <=> Open(m)
    BY <1>4, <2>1
  <2>4. out \in Seq(Hung)
    BY OutFacts
  <2> QED BY <1>3, <1>6, <2>1, <2>2, <2>3, <2>4, StillHung
<1> QED BY <1>2, <1>7 DEF HInv

LEMMA StutterH ==
  ASSUME RInv, RInv', WInv, HInv, UNCHANGED vars PROVE HInv'
<1>1. TreeInv /\ TreeInv'
  BY DEF RInv
<1>2. ast' = ast /\ calls' = calls /\ out' = out
  BY DEF vars
<1>3. Nodes' = Nodes /\ \A m \in Nodes : ast'[m] = ast[m] /\ StyleAround'[m] = StyleAround[m]
  BY <1>1, <1>2, SameTree
<1>4. out \in Seq(Hung) /\ out' = out \o <<>>
  <2>1. out \in Seq(Hung)
    BY OutFacts
  <2>2. out \o <<>> = out
    BY <2>1
  <2> QED BY <1>2, <2>1, <2>2
<1>5. ASSUME NEW m \in 2 .. Len(ast) PROVE HungInv(m)'
  <2>1. HungInv(m) /\ m \in Nodes
    BY DEF HInv, Nodes
  <2>2. Open(m)' <=> Open(m)
    BY <1>2 DEF Open
  <2>3. Self(m) \notin Ofs(<<>>) /\ \A e \in Ofs(<<>>) : e[1] # m
    BY OfsOfNone
  <2> QED BY <1>3, <1>4, <2>1, <2>2, <2>3, OfsOfNone, StillHung
<1> QED BY <1>2, <1>5 DEF HInv

LEMMA InitH ==
  ASSUME Init PROVE HInv
<1>1. Len(ast) = 1
  BY DEF Init, StartTree
<1> QED BY <1>1 DEF HInv

LEMMA NextH ==
  ASSUME RInv, RInv', WInv, HInv, [Next]_vars PROVE HInv'
<1>1. ASSUME NEW kind \in Kinds, VisitLeaf(kind) PROVE HInv'
  BY <1>1, VisitLeafH
<1>2. ASSUME NEW kind \in Kinds, NEW opt \in Options(kind), Enter(kind, opt) PROVE HInv'
  BY <1>2, EnterH
<1>3. CASE NextPart
  BY <1>3, NextPartH
<1>4. CASE Leave
  BY <1>4, LeaveH
<1>5. CASE Finish
  BY <1>5, FinishH
<1>6. CASE UNCHANGED vars
  BY <1>6, StutterH
<1> QED BY <1>1, <1>2, <1>3, <1>4, <1>5, <1>6 DEF Next

LEMMA HInvariant == Spec => []HInv
<1>1. ASSUME RInv, RInv', WInv, HInv, [Next]_vars PROVE HInv'
  BY <1>1, NextH
<1>2. Init => HInv
  BY InitH
<1> QED BY <1>1, <1>2, Invariant, WInvariant, PTL DEF Spec

\* However the cells and tables around it came and went, when visit_document is
\* through a paragraph has the strong, emphasis or literal element of the cell
\* that is nearest around it in the tree, and no other.
THEOREM StyleOfNearest == Spec => []StyleOfNearestCell
<1>1. ASSUME RInv, WInv, HInv PROVE StyleOfNearestCell
  <2> SUFFICES ASSUME calls = <<>>, NEW n \in Nodes, KindOf(n) = "paragraph",
                      NEW style \in Styles \ {"none"}
               PROVE  (\E i \in 1 .. Len(out) : out[i].of = <<n, style>>) <=> StyleAround[n] = style
    BY DEF StyleOfNearestCell
  <2>1. n # 1 /\ n \in 2 .. Len(ast)
    BY <1>1 DEF WInv, SInv, TermsInv, RInv, TreeInv, Nodes
  <2>2. ~Open(n)
    BY DEF Open
  <2>3. <<n, style>> \in Ofs(out) <=> StyleAround[n] = style
    BY <1>1, <2>1, <2>2 DEF HInv, HungInv
  <2> QED BY <2>3 DEF Ofs
<1> QED BY <1>1, Invariant, WInvariant, HInvariant, PTL

\* NoneLost, from what is hung and once.
LEMMA NoneLostHolds ==
  ASSUME RInv, HInv PROVE NoneLost
<1> SUFFICES ASSUME calls = <<>>, NEW n \in 2 .. Len(ast)
             PROVE  Cardinality({i \in 1 .. Len(out) : out[i].of = Self(n)})
                      = IF KindOf(n) \in Silent THEN 0 ELSE 1
  BY DEF NoneLost
<1>1. HungInv(n) /\ ~Open(n)
  BY DEF HInv, Open
<1> DEFINE places == {i \in 1 .. Len(out) : out[i].of = Self(n)}
<1>2. CASE KindOf(n) \in Silent
  <2>1. Self(n) \notin Ofs(out)
    BY <1>1, <1>2 DEF HungInv
  <2>2. places = {}
    BY <2>1 DEF Ofs
  <2> QED BY <1>2, <2>2, FS_EmptySet
<1>3. CASE KindOf(n) \notin Silent
  <2>1. Once(out, Self(n))
    BY <1>1, <1>3 DEF HungInv
  <2>2. PICK i : places = {i}
    BY <2>1 DEF Once
  <2> QED BY <1>3, <2>2, FS_Singleton
<1> QED BY <1>2, <1>3

-----------------------------------------------------------------------------
(* In the order of the text                                                *)

\* HangsInOrder, of any elements hung, and one more that comes after them.
InOrder(s)  == \A i, j \in 1 .. Len(s) : i < j /\ s[i].to = s[j].to => Before(s[i].of, s[j].of)
After(h, s) == \A i \in 1 .. Len(s) : s[i].to = h.to => Before(s[i].of, h.of)

LEMMA Appended ==
  ASSUME NEW S, NEW s \in Seq(S), NEW h \in S, InOrder(s), After(h, s)
  PROVE  s \o <<h>> \in Seq(S) /\ InOrder(s \o <<h>>)
<1> PICK m \in Nat : m = Len(s)
  OBVIOUS
<1> PICK t : t = s \o <<h>>
  OBVIOUS
<1>1. /\ t \in Seq(S) /\ Len(t) = m + 1 /\ t[m + 1] = h
      /\ \A i \in 1 .. m : t[i] = s[i]
  OBVIOUS
<1>2. ASSUME NEW i \in 1 .. m + 1, NEW j \in 1 .. m + 1, i < j, t[i].to = t[j].to
      PROVE  Before(t[i].of, t[j].of)
  <2>1. i \in 1 .. m /\ t[i] = s[i]
    BY <1>1, <1>2
  <2>2. CASE j = m + 1
    BY <1>1, <1>2, <2>1, <2>2 DEF After
  <2>3. CASE j # m + 1
    <3>1. j \in 1 .. m /\ t[j] = s[j]
      BY <1>1, <2>3
    <3> QED BY <1>2, <2>1, <3>1 DEF InOrder
  <2> QED BY <2>2, <2>3
<1> QED BY <1>1, <1>2 DEF InOrder

LEMMA AfterBoth ==
  ASSUME NEW S, NEW s \in Seq(S), NEW h \in S, NEW g, After(g, s),
         h.to = g.to => Before(h.of, g.of)
  PROVE  After(g, s \o <<h>>)
<1> PICK m \in Nat : m = Len(s)
  OBVIOUS
<1> PICK t : t = s \o <<h>>
  OBVIOUS
<1>1. /\ Len(t) = m + 1 /\ t[m + 1] = h
      /\ \A i \in 1 .. m : t[i] = s[i]
  OBVIOUS
<1>2. ASSUME NEW i \in 1 .. m + 1, t[i].to = g.to PROVE Before(t[i].of, g.of)
  <2>1. CASE i = m + 1
    BY <1>1, <1>2, <2>1
  <2>2. CASE i # m + 1
    BY <1>1, <1>2, <2>2 DEF After
  <2> QED BY <2>1, <2>2
<1> QED BY <1>1, <1>2 DEF After

LEMMA RankFacts ==
  ASSUME NEW e
  PROVE  /\ e[2] \in {"self", "text"} => Rank(e) = 1
         /\ e[2] \in {"definition", "attribution", "root section"} => Rank(e) = 2
         /\ e[2] \notin {"self", "text", "definition", "attribution", "root section"} => Rank(e) = 0
         /\ Rank(e) = 0 \/ Rank(e) = 1 \/ Rank(e) = 2
<1>1. CASE e[2] \in {"self", "text"}
  <2>1. Rank(e) = 1
    BY <1>1 DEF Rank
  <2>2. e[2] \notin {"definition", "attribution", "root section"}
    BY <1>1
  <2> QED BY <1>1, <2>1, <2>2, Zenon
<1>2. CASE e[2] \in {"definition", "attribution", "root section"}
  <2>1. e[2] \notin {"self", "text"}
    BY <1>2
  <2>2. Rank(e) = 2
    BY <1>2, <2>1, Zenon DEF Rank
  <2> QED BY <1>2, <2>1, <2>2, Zenon
<1>3. CASE e[2] \notin {"self", "text", "definition", "attribution", "root section"}
  <2>1. Rank(e) = 0
    BY <1>3, Zenon DEF Rank
  <2> QED BY <1>3, <2>1, Zenon
<1> QED BY <1>1, <1>2, <1>3, Zenon

LEMMA ElementOwner == \A p, part : ElementOf(p, part)[1] = p
BY DEF ElementOf, Self

\* What was hung leaves room for what the j-th visit under way is still to hang:
\* nothing has ended its element yet; at its first part nothing but what is in
\* that part hangs under it; and what is in its node hangs there and no further
\* up, if its visitor makes an element.
Ahead(h, j) ==
  /\ Rank(h.of) = 2 => h.to[1] # calls[j].node
  /\ calls[j].at = 1 /\ h.to[1] = calls[j].node => h.to = ElementOf(calls[j].node, PartAt(j))
  /\ KindOf(calls[j].node) \notin Through /\ h.of[1] >= calls[j].node => h.to[1] >= calls[j].node

Settled == {h \in Hung : /\ h.of[1] \in Nodes /\ h.to[1] \in Nodes
                         /\ \A j \in 1 .. Len(calls) : Ahead(h, j)}

OInv == out \in Seq(Settled) /\ InOrder(out)

\* The visit nearest to the m-th, from it on outwards, that makes an element, e.
Near(j, m, e) ==
  /\ e = ElementOf(calls[j].node, PartAt(j)) /\ KindOf(calls[j].node) \notin Through
  /\ \A i \in j + 1 .. m : KindOf(calls[i].node) \in Through

LEMMA Nearest ==
  ASSUME RInv, SInv, NEW m \in 1 .. Len(calls), NEW e, e = Expected(calls[m].node, PartAt(m))
  PROVE  \E j \in 1 .. m : Near(j, m, e)
<1>1. TreeInv /\ CallsInv /\ TermsInv /\ FramesInv /\ Len(calls) \in Nat
  BY DEF RInv, SInv, CallsInv
<1> DEFINE S == {k \in 1 .. m : /\ Expected(calls[k].node, PartAt(k)) = e
                                /\ \A i \in k + 1 .. m : KindOf(calls[i].node) \in Through}
<1>2. S \in SUBSET Nat /\ m \in S
  OBVIOUS
<1>3. \A k \in S : /\ k \in 1 .. m /\ Expected(calls[k].node, PartAt(k)) = e
                   /\ \A i \in k + 1 .. m : KindOf(calls[i].node) \in Through
  OBVIOUS
<1>4. \A k \in 1 .. m : /\ Expected(calls[k].node, PartAt(k)) = e
                        /\ \A i \in k + 1 .. m : KindOf(calls[i].node) \in Through
                        => k \in S
  OBVIOUS
<1> HIDE DEF S
<1>5. PICK j \in S : \A k \in S : j <= k
  <2>1. S # {}
    BY <1>2
  <2> QED BY <1>2, <2>1, Least
<1>6. CASE KindOf(calls[j].node) \notin Through
  BY <1>3, <1>6 DEF Expected, Near
<1>7. CASE KindOf(calls[j].node) \in Through
  <2>1. j \in 1 .. Len(calls) /\ VisitInv(j)
    BY <1>1, <1>3 DEF CallsInv
  <2>2. j # 1
    BY <1>1, <1>7, <2>1 DEF VisitInv, TermsInv, Through
  <2>3. PICK i \in 1 .. m : i = j - 1 /\ j = i + 1
    BY <1>3, <2>2
  <2>4. /\ calls[j].node \in Nodes /\ calls[j].node # 1
        /\ ast[calls[j].node].in = calls[i].node /\ ast[calls[j].node].part = PartAt(i)
    BY <1>1, <2>1, <2>2, <2>3 DEF VisitInv, FramesInv, FrameInv
  <2>5. Around[calls[j].node] = Expected(calls[i].node, PartAt(i))
    BY <1>1, <2>4, ElementsDefined DEF ElementsAre, Expected
  <2>6. Expected(calls[i].node, PartAt(i)) = e
    BY <1>3, <1>7, <2>5 DEF Expected
  <2>7. \A l \in i + 1 .. m : KindOf(calls[l].node) \in Through
    <3> SUFFICES ASSUME NEW l \in i + 1 .. m PROVE KindOf(calls[l].node) \in Through
      OBVIOUS
    <3>1. l = j \/ l \in j + 1 .. m
      BY <2>3
    <3> QED BY <1>3, <1>7, <3>1
  <2>8. i \in S
    BY <1>4, <2>6, <2>7
  <2> QED BY <1>5, <2>3, <2>8
<1> QED BY <1>6, <1>7

\* What is hung under the nearest element leaves room for the visits up to it.
LEMMA NearAhead ==
  ASSUME RInv, SInv, NEW m \in 1 .. Len(calls), NEW j \in 1 .. m, NEW h \in Hung,
         Near(j, m, h.to), Rank(h.of) = 1
  PROVE  /\ h.to[1] = calls[j].node
         /\ \A i \in 1 .. m : Ahead(h, i)
<1>1. CallsInv /\ FramesInv /\ Len(calls) \in Nat
  BY DEF RInv, SInv, CallsInv
<1>2. h.to[1] = calls[j].node
  BY ElementOwner DEF Near
<1>3. \A i, l \in 1 .. m : i < l => calls[i].node < calls[l].node
  BY <1>1 DEF FramesInv
<1>4. \A i \in 1 .. m : calls[i].node \in Nat
  <2>1. \A i \in 1 .. Len(calls) : calls[i].node \in Nodes
    BY <1>1 DEF CallsInv, VisitInv
  <2> QED BY <1>1, <2>1, SelfFacts
<1> SUFFICES ASSUME NEW i \in 1 .. m PROVE Ahead(h, i)
  BY <1>2
<1>5. ASSUME h.to[1] = calls[i].node PROVE h.to = ElementOf(calls[i].node, PartAt(i))
  <2>1. calls[i].node = calls[j].node /\ calls[i].node \in Nat
    BY <1>2, <1>4, <1>5
  <2>2. i = j
    BY <1>3, <2>1
  <2> QED BY <2>2 DEF Near
<1>6. ASSUME KindOf(calls[i].node) \notin Through PROVE h.to[1] >= calls[i].node
  <2>1. i \notin j + 1 .. m
    BY <1>6 DEF Near
  <2>2. i = j \/ i < j
    BY <2>1
  <2> QED BY <1>2, <1>3, <1>4, <2>2
<1> QED BY <1>5, <1>6 DEF Ahead

LEMMA FirstElementsStay ==
  ASSUME TreeInv, TreeInv', CallsInv, Nodes \subseteq Nodes', \A m \in Nodes : ast'[m] = ast[m],
         NEW j \in 1 .. Len(calls), calls[j].at = 1,
         NEW p \in Nodes, p = calls[j].node, NEW part, part = PartAt(j)
  PROVE  ElementOf(p, part)' = ElementOf(p, part)
<1>1. part = Parts(KindOf(p))[1]
  BY DEF PartAt
<1>2. Parts("document")[1] = "title"
  <2>1. Parts("document") = <<"title", "blocks">>
    BY PartsList
  <2> QED BY <2>1
<1>3. ~ (part = "blocks" /\ KindOf(p) = "document")
  BY <1>1, <1>2
<1> QED BY <1>3, ElementStays

\* What left room for a visit does as long as the tree only grows and the visit
\* only goes on.
LEMMA StillAhead ==
  ASSUME TreeInv, TreeInv', CallsInv, Nodes \subseteq Nodes', \A m \in Nodes : ast'[m] = ast[m],
         NEW j \in 1 .. Len(calls), calls'[j].node = calls[j].node,
         calls'[j].at = 1 => calls[j].at = 1, NEW h, Ahead(h, j)
  PROVE  Ahead(h, j)'
<1>1. PICK p \in Nodes : p = calls[j].node
  BY DEF CallsInv, VisitInv
<1>2. KindOf(p)' = KindOf(p)
  BY DEF KindOf
<1>3. KindOf(calls[j].node)' = KindOf(calls[j].node)
  BY <1>1 DEF KindOf
<1>4. ASSUME calls'[j].at = 1, h.to[1] = calls'[j].node
      PROVE  h.to = ElementOf(calls[j].node, PartAt(j))'
  <2> PICK part : part = PartAt(j)
    OBVIOUS
  <2>1. PartAt(j)' = part
    BY <1>3, <1>4 DEF PartAt
  <2>2. h.to = ElementOf(p, part)
    BY <1>1, <1>4 DEF Ahead
  <2>3. ElementOf(p, part)' = ElementOf(p, part)
    BY <1>1, <1>4, FirstElementsStay
  <2>4. ElementOf(calls[j].node, PartAt(j))' = ElementOf(p, part)'
    BY <1>1, <2>1 DEF ElementOf, Has, KindOf
  <2> QED BY <2>2, <2>3, <2>4
<1> QED BY <1>3, <1>4 DEF Ahead

LEMMA StillSettled ==
  ASSUME TreeInv, TreeInv', CallsInv, Nodes \subseteq Nodes', \A m \in Nodes : ast'[m] = ast[m],
         \A j \in 1 .. Len(calls') :
           \/ /\ j \in 1 .. Len(calls) /\ calls'[j].node = calls[j].node
              /\ calls'[j].at = 1 => calls[j].at = 1
           \/ calls'[j].node \in Nat /\ \A m \in Nodes : m < calls'[j].node
  PROVE  Settled \subseteq Settled'
<1> SUFFICES ASSUME NEW h \in Settled PROVE h \in Settled'
  OBVIOUS
<1>1. /\ h \in Hung /\ h.of[1] \in Nodes /\ h.to[1] \in Nodes
      /\ \A j \in 1 .. Len(calls) : Ahead(h, j)
  BY DEF Settled
<1>2. ASSUME NEW j \in 1 .. Len(calls'), j \in 1 .. Len(calls), calls'[j].node = calls[j].node,
             calls'[j].at = 1 => calls[j].at = 1
      PROVE  Ahead(h, j)'
  BY <1>1, <1>2, StillAhead
<1>3. ASSUME NEW j \in 1 .. Len(calls'), calls'[j].node \in Nat, \A m \in Nodes : m < calls'[j].node
      PROVE  Ahead(h, j)'
  <2>1. /\ h.of[1] \in Nat /\ h.to[1] \in Nat
        /\ h.of[1] < calls'[j].node /\ h.to[1] < calls'[j].node
    BY <1>1, <1>3, SelfFacts
  <2>2. h.to[1] # calls'[j].node /\ ~ (h.of[1] >= calls'[j].node)
    BY <1>3, <2>1
  <2> QED BY <2>2 DEF Ahead
<1>4. \A j \in 1 .. Len(calls') : Ahead(h, j)'
  BY <1>2, <1>3
<1> QED BY <1>1, <1>4 DEF Settled

\* What a visitor hangs when a part is done.
Closing(n, part, d) ==
  /\ d \in Hung /\ d.of[1] = n /\ d.to[1] = n
  /\ IF part = "blocks" THEN Rank(d.of) = 2
     ELSE /\ Rank(d.of) = 0 /\ d.to # ElementOf(n, part)
          /\ part \in {"title", "principal"} \/ KindOf(n) = "paragraph"

LEMMA DoneOne ==
  ASSUME NEW n \in Nodes, NEW part, cell_style \in Styles, cell_style = StyleAround[n]
  PROVE  Done(n, part) = <<>> \/ \E d : Done(n, part) = <<d>> /\ Closing(n, part, d)
<1>1. n \in Nat
  BY SelfFacts
<1>2. ASSUME NEW a \in Names, NEW b \in Names
      PROVE  /\ Hang(<<n, a>>, <<n, b>>) \in Hung
             /\ Hang(<<n, a>>, <<n, b>>).of = <<n, a>> /\ Hang(<<n, a>>, <<n, b>>).to = <<n, b>>
  <2>1. <<n, a>> \in Element /\ <<n, b>> \in Element
    BY <1>1, <1>2 DEF Element
  <2> QED BY <2>1, HangFacts
<1>3. /\ \A a : <<n, a>>[1] = n /\ <<n, a>>[2] = a
      /\ \A a, b : a # b => <<n, a>> # <<n, b>>
  OBVIOUS
<1>4. Self(n) = <<n, "self">>
  BY DEF Self
<1>5. ASSUME part = "title", KindOf(n) # "heading", NEW b \in {"self", "root section"},
             Done(n, part) = <<Hang(<<n, "title">>, <<n, b>>)>>
      PROVE  \E d : Done(n, part) = <<d>> /\ Closing(n, part, d)
  <2>1. "title" \in Names /\ b \in Names
    BY <1>5 DEF Names
  <2>2. PICK d \in Hung : d = Hang(<<n, "title">>, <<n, b>>) /\ d.of = <<n, "title">> /\ d.to = <<n, b>>
    BY <1>2, <2>1
  <2>3. Rank(d.of) = 0
    BY <1>3, <2>2, RankFacts
  <2>4. ElementOf(n, part) = <<n, "title">>
    BY <1>5 DEF ElementOf
  <2>5. d.to # ElementOf(n, part)
    <3>1. b # "title"
      BY <1>5
    <3> QED BY <1>3, <2>2, <2>4, <3>1
  <2> QED BY <1>3, <1>5, <2>2, <2>3, <2>5 DEF Closing
<1>6. CASE part = "title"
  <2>1. CASE KindOf(n) = "section"
    BY <1>4, <1>5, <1>6, <2>1 DEF Done
  <2>2. CASE KindOf(n) = "document"
    BY <1>5, <1>6, <2>2 DEF Done, Boxes
  <2>3. CASE KindOf(n) \in Boxes
    <3>1. KindOf(n) \notin {"heading", "section", "document"}
      BY <2>3 DEF Boxes
    <3> QED BY <1>4, <1>5, <1>6, <2>3, <3>1 DEF Done
  <2>4. CASE KindOf(n) \notin Boxes \cup {"section", "document"}
    BY <1>6, <2>4 DEF Done
  <2> QED BY <2>1, <2>2, <2>3, <2>4
<1>7. CASE part = "principal"
  <2>1. "para" \in Names /\ "self" \in Names
    BY DEF Names
  <2>2. PICK d \in Hung : d = Hang(<<n, "para">>, Self(n)) /\ d.of = <<n, "para">> /\ d.to = <<n, "self">>
    BY <1>2, <1>4, <2>1
  <2>3. Rank(d.of) = 0
    BY <1>3, <2>2, RankFacts
  <2>4. ElementOf(n, part) = <<n, "para">>
    BY <1>7 DEF ElementOf
  <2>5. d.to # ElementOf(n, part)
    BY <1>3, <2>2, <2>4
  <2>6. Closing(n, part, d)
    BY <1>3, <1>7, <2>2, <2>3, <2>5 DEF Closing
  <2>7. Done(n, part) = <<>> \/ Done(n, part) = <<d>>
    BY <1>7, <2>2 DEF Done
  <2> QED BY <2>6, <2>7
<1>8. CASE part = "inlines"
  <2>1. CASE KindOf(n) = "paragraph" /\ cell_style # "none"
    <3>1. cell_style \in Names /\ "self" \in Names
          /\ cell_style \notin {"self", "text", "definition", "attribution", "root section"}
      BY <2>1 DEF Names, Styles
    <3>2. InParagraph(n) = <<n, cell_style>>
      BY <2>1 DEF InParagraph
    <3>3. PICK d \in Hung : /\ d = Hang(InParagraph(n), Self(n))
                            /\ d.of = <<n, cell_style>> /\ d.to = <<n, "self">>
      BY <1>2, <1>4, <3>1, <3>2
    <3>4. Rank(d.of) = 0
      <4>1. d.of[2] = cell_style
        BY <1>3, <3>3
      <4>2. d.of[2] \notin {"self", "text", "definition", "attribution", "root section"}
        BY <3>1, <4>1
      <4> QED BY <4>2, RankFacts
    <3>5. ElementOf(n, part) = <<n, cell_style>>
      BY <1>8, <2>1 DEF ElementOf
    <3>6. d.to # ElementOf(n, part) /\ InParagraph(n) # Self(n)
      <4>1. cell_style # "self"
        BY <3>1
      <4>2. <<n, cell_style>> # <<n, "self">>
        BY <1>3, <4>1
      <4> QED BY <1>4, <3>2, <3>3, <3>5, <4>2
    <3>7. Closing(n, part, d)
      BY <1>3, <1>8, <2>1, <3>3, <3>4, <3>6 DEF Closing
    <3>8. Done(n, part) = <<d>>
      BY <1>8, <2>1, <3>3, <3>6 DEF Done
    <3> QED BY <3>7, <3>8
  <2>2. CASE ~ (KindOf(n) = "paragraph" /\ cell_style # "none")
    <3>1. KindOf(n) = "paragraph" => InParagraph(n) = Self(n)
      BY <2>2 DEF InParagraph
    <3> QED BY <1>8, <3>1 DEF Done
  <2> QED BY <2>1, <2>2
<1>9. CASE part = "blocks"
  <2>1. ASSUME NEW a \in {"definition", "attribution"}, Done(n, part) = <<Hang(<<n, a>>, Self(n))>>
        PROVE  \E d : Done(n, part) = <<d>> /\ Closing(n, part, d)
    <3>1. a \in Names /\ "self" \in Names
      BY <2>1 DEF Names
    <3>2. PICK d \in Hung : d = Hang(<<n, a>>, Self(n)) /\ d.of = <<n, a>> /\ d.to = <<n, "self">>
      BY <1>2, <1>4, <3>1
    <3>3. Rank(d.of) = 2
      BY <1>3, <2>1, <3>2, RankFacts
    <3>4. Closing(n, part, d)
      BY <1>3, <1>9, <3>2, <3>3 DEF Closing
    <3> QED BY <2>1, <3>2, <3>4
  <2>2. CASE KindOf(n) = "descriptionListItem"
    BY <1>9, <2>1, <2>2 DEF Done
  <2>3. CASE KindOf(n) = "quote"
    <3>1. Done(n, part) = Attribution(n)
      BY <1>9, <2>3 DEF Done
    <3> QED BY <2>1, <3>1 DEF Attribution
  <2>4. CASE KindOf(n) \notin {"descriptionListItem", "quote"}
    BY <1>9, <2>4 DEF Done
  <2> QED BY <2>2, <2>3, <2>4
<1>10. CASE part \notin {"title", "principal", "inlines", "blocks"}
  BY <1>10 DEF Done
<1> QED BY <1>6, <1>7, <1>8, <1>9, <1>10

LEMMA SameOrder ==
  ASSUME OInv, Settled \subseteq Settled', out' = out
  PROVE  OInv'
<1>1. out \in Seq(Settled')
  BY SeqMonotonic DEF OInv
<1> QED BY <1>1 DEF OInv, InOrder

LEMMA OneMore ==
  ASSUME OInv, Settled \subseteq Settled', NEW h \in Settled', After(h, out), out' = out \o <<h>>
  PROVE  OInv'
<1>1. out \in Seq(Settled') /\ InOrder(out)
  BY SeqMonotonic DEF OInv
<1>2. out' \in Seq(Settled') /\ InOrder(out')
  BY <1>1, Appended
<1>3. InOrder(out)' <=> InOrder(out')
  BY DEF InOrder
<1> QED BY <1>2, <1>3 DEF OInv

\* What is hung in a visit under way comes after what is there.
LEMMA RankOneLast ==
  ASSUME NEW e \in Settled, NEW j \in 1 .. Len(calls), e.to[1] = calls[j].node,
         NEW h, Rank(h.of) = 1, e.of[1] < h.of[1]
  PROVE  Before(e.of, h.of)
<1>1. Rank(e.of) # 2
  BY DEF Settled, Ahead
<1>2. Rank(e.of) = 0 \/ Rank(e.of) = 1
  BY <1>1, RankFacts
<1> QED BY <1>2 DEF Before

LEMMA AtFirst ==
  ASSUME RInv, calls # <<>>, PartNow \in {"title", "principal"} \/ KindNow = "paragraph"
  PROVE  Top.at = 1
<1>1. Top.at \in 1 .. Len(Parts(KindNow)) /\ KindNow \in Kinds
  BY TopFacts DEF RInv
<1> PICK k \in Kinds : k = KindNow
  BY <1>1
<1>2. PICK j \in 1 .. Len(Parts(k)) : j = Top.at
  BY <1>1
<1>3. CASE k = "paragraph"
  <2>1. Parts(k) = <<"inlines">>
    BY <1>3, PartsList
  <2>2. Len(Parts(k)) = 1
    BY <2>1
  <2> QED BY <1>2, <2>2
<1>4. CASE PartNow \in {"title", "principal"}
  BY <1>2, <1>4, PartsAt DEF PartNow
<1> QED BY <1>3, <1>4

LEMMA ClosingLast ==
  ASSUME RInv, calls # <<>>, NEW d, Closing(Top.node, PartNow, d),
         NEW e \in Settled, e.to = d.to
  PROVE  Before(e.of, d.of)
<1>1. PICK L \in 1 .. Len(calls) : L = Len(calls)
  <2>1. Len(calls) \in Nat \ {0}
    BY TopFacts DEF RInv
  <2> QED BY <2>1
<1>2. calls[L] = Top /\ PartAt(L) = PartNow
  BY <1>1 DEF Top, PartAt, PartNow, KindNow
<1>3. Ahead(e, L) /\ e.to[1] = calls[L].node
  BY <1>2 DEF Settled, Closing
<1>4. CASE PartNow = "blocks"
  <2>1. Rank(d.of) = 2
    BY <1>4 DEF Closing
  <2>2. Rank(e.of) # 2
    BY <1>3 DEF Ahead
  <2>3. Rank(e.of) = 0 \/ Rank(e.of) = 1
    BY <2>2, RankFacts
  <2> QED BY <2>1, <2>3 DEF Before
<1>5. CASE PartNow # "blocks"
  <2>1. /\ d.to # ElementOf(Top.node, PartNow)
        /\ PartNow \in {"title", "principal"} \/ KindNow = "paragraph"
    BY <1>5 DEF Closing, KindNow
  <2>2. calls[L].at = 1
    BY <1>2, <2>1, AtFirst
  <2>3. e.to = ElementOf(Top.node, PartNow)
    BY <1>2, <1>3, <2>2 DEF Ahead
  <2> QED BY <2>1, <2>3
<1> QED BY <1>4, <1>5

\* A new node that is hung when its visitor is called.
LEMMA ChildHung ==
  ASSUME RInv, RInv', WInv, OInv, calls # <<>>, NEW kind \in Kinds, NEW opt,
         NEW n, NEW p, NEW part, NewChild(kind, opt, n, p, part), kind # "descriptionListTerm",
         NEW h \in Hung, h.of[1] = n, Rank(h.of) = 1, h.to = current_node, out' = out \o <<h>>,
         \A j \in 1 .. Len(calls') :
           \/ /\ j \in 1 .. Len(calls) /\ calls'[j].node = calls[j].node
              /\ calls'[j].at = 1 => calls[j].at = 1
           \/ calls'[j].node = n /\ kind \in Through
  PROVE  OInv'
<1>1. TreeInv /\ TreeInv' /\ CallsInv /\ SInv /\ out \in Seq(Settled)
  BY DEF RInv, WInv, OInv
<1>2. /\ n \in Nat /\ Nodes \subseteq Nodes' /\ n \in Nodes' /\ KindOf(n)' = kind
      /\ \A m \in Nodes : ast'[m] = ast[m] /\ m \in Nat /\ m < n
  BY DEF NewChild, KindOf
<1>3. PICK L \in 1 .. Len(calls) : L = Len(calls)
  <2>1. Len(calls) \in Nat \ {0}
    BY TopFacts DEF RInv
  <2> QED BY <2>1
<1>4. PICK j \in 1 .. L : Near(j, L, h.to)
  <2>1. ~AtTerms(Top)
    BY DEF NewChild
  <2>2. current_node = Expected(p, part)
    BY <1>1, <2>1 DEF SInv, TopInv, NewChild
  <2>3. h.to = Expected(calls[L].node, PartAt(L))
    BY <1>3, <2>2 DEF NewChild
  <2> QED BY <1>1, <2>3, Nearest
<1>5. h.to[1] = calls[j].node /\ \A i \in 1 .. L : Ahead(h, i)
  BY <1>1, <1>4, NearAhead
<1>6. h.to[1] \in Nodes
  BY <1>1, <1>3, <1>5 DEF CallsInv, VisitInv
<1>7. Settled \subseteq Settled'
  <2>1. \A i \in 1 .. Len(calls') :
           \/ /\ i \in 1 .. Len(calls) /\ calls'[i].node = calls[i].node
              /\ calls'[i].at = 1 => calls[i].at = 1
           \/ calls'[i].node \in Nat /\ \A m \in Nodes : m < calls'[i].node
    BY <1>2
  <2> QED BY <1>1, <1>2, <2>1, StillSettled
<1>8. h \in Settled'
  <2>1. ASSUME NEW i \in 1 .. Len(calls'), i \in 1 .. Len(calls), calls'[i].node = calls[i].node,
               calls'[i].at = 1 => calls[i].at = 1
        PROVE  Ahead(h, i)'
    BY <1>1, <1>2, <1>3, <1>5, <2>1, StillAhead
  <2>2. ASSUME NEW i \in 1 .. Len(calls'), calls'[i].node = n, kind \in Through
        PROVE  Ahead(h, i)'
    <3>1. KindOf(calls[i].node)' \in Through
      BY <1>2, <2>2 DEF KindOf
    <3>2. h.to[1] # calls'[i].node
      BY <1>2, <1>6, <2>2
    <3> QED BY <3>1, <3>2 DEF Ahead
  <2>3. \A i \in 1 .. Len(calls') : Ahead(h, i)'
    BY <2>1, <2>2
  <2> QED BY <1>2, <1>6, <2>3 DEF Settled
<1>9. After(h, out)
  <2> SUFFICES ASSUME NEW i \in 1 .. Len(out), out[i].to = h.to PROVE Before(out[i].of, h.of)
    BY DEF After
  <2>1. PICK e \in Settled : e = out[i]
    BY <1>1
  <2>2. e.of[1] \in Nodes
    BY DEF Settled
  <2>3. e.of[1] < h.of[1] /\ e.to[1] = calls[j].node
    BY <1>2, <1>5, <2>1, <2>2
  <2> QED BY <1>3, <2>1, <2>3, RankOneLast
<1> QED BY <1>7, <1>8, <1>9, OneMore

LEMMA VisitLeafO ==
  ASSUME RInv, RInv', WInv, OInv, NEW kind \in Kinds, VisitLeaf(kind) PROVE OInv'
<1>1. /\ Child(kind, Plain) /\ calls' = calls /\ calls # <<>> /\ kind \in LeafBlocks \cup LeafInlines
  BY DEF VisitLeaf, Child
<1>2. TreeInv /\ TreeInv' /\ CallsInv /\ out \in Seq(Settled)
  BY DEF RInv, OInv
<1> PICK n : n = Len(ast) + 1
  OBVIOUS
<1>3. PICK p, part : NewChild(kind, Plain, n, p, part)
  BY <1>1, ChildIs
<1> PICK hung : hung = IF kind \in LeafInlines THEN LeafInline(n) ELSE LeafBlock(kind, n)
  OBVIOUS
<1>4. out' = out \o hung
  BY DEF VisitLeaf
<1>5. CASE kind = "attribute_entry"
  <2>1. hung = <<>>
    BY <1>5 DEF LeafInlines, LeafBlock, Ignored
  <2>2. out' = out
    BY <1>2, <1>4, <2>1
  <2>3. Settled \subseteq Settled'
    BY <1>1, <1>2, <1>3, StillSettled DEF NewChild
  <2> QED BY <2>2, <2>3, SameOrder
<1>6. CASE kind # "attribute_entry"
  <2>1. PICK name \in {"self", "text"} : hung = <<Hang(<<n, name>>, current_node)>>
    BY <1>6 DEF LeafInline, LeafBlock, Ignored, Self
  <2>2. <<n, name>> \in Element /\ current_node \in Element
    BY <1>3, <2>1 DEF RInv, CurrentInv, NewChild, Element, Names
  <2>3. PICK h \in Hung : h = Hang(<<n, name>>, current_node) /\ h.of = <<n, name>> /\ h.to = current_node
    BY <2>2, HangFacts
  <2>4. h.of[1] = n /\ h.of[2] \in {"self", "text"}
    BY <2>1, <2>3
  <2>5. Rank(h.of) = 1
    BY <2>4, RankFacts
  <2>6. kind # "descriptionListTerm"
    BY <1>1 DEF LeafBlocks, LeafInlines
  <2>7. out' = out \o <<h>>
    BY <1>4, <2>1, <2>3
  <2> QED BY <1>1, <1>3, <2>3, <2>4, <2>5, <2>6, <2>7, ChildHung
<1> QED BY <1>5, <1>6

LEMMA EnterO ==
  ASSUME RInv, RInv', WInv, OInv, NEW kind \in Kinds, NEW opt, Enter(kind, opt) PROVE OInv'
<1>1. Child(kind, opt) /\ calls # <<>>
  BY DEF Enter, Child
<1>2. TreeInv /\ TreeInv' /\ CallsInv /\ out \in Seq(Settled)
  BY DEF RInv, OInv
<1> PICK n : n = Len(ast) + 1
  OBVIOUS
<1>3. PICK p, part : NewChild(kind, opt, n, p, part)
  BY <1>1, ChildIs
<1>4. PICK new : new.node = n /\ calls' = Append(calls, new)
  BY DEF Enter
<1>5. \A j \in 1 .. Len(calls') :
        \/ /\ j \in 1 .. Len(calls) /\ calls'[j].node = calls[j].node
           /\ calls'[j].at = 1 => calls[j].at = 1
        \/ calls'[j].node = n
  <2> SUFFICES ASSUME NEW j \in 1 .. Len(calls')
               PROVE  \/ j \in 1 .. Len(calls) /\ calls'[j] = calls[j]
                      \/ calls'[j] = new
    BY <1>4
  <2>1. /\ Len(calls) \in Nat /\ Len(calls') = Len(calls) + 1 /\ calls'[Len(calls) + 1] = new
        /\ \A i \in 1 .. Len(calls) : calls'[i] = calls[i]
    BY <1>2, <1>4 DEF CallsInv
  <2>2. j \in 1 .. Len(calls) \/ j = Len(calls) + 1
    BY <2>1
  <2> QED BY <2>1, <2>2
<1>6. CASE kind = "indexterm"
  <2>1. Self(n) \in Element /\ Self(n)[1] = n /\ Self(n)[2] = "self" /\ current_node \in Element
    BY <1>3 DEF RInv, CurrentInv, NewChild, Element, Names, Self
  <2>2. PICK h \in Hung : h = Hang(Self(n), current_node) /\ h.of = Self(n) /\ h.to = current_node
    BY <2>1, HangFacts
  <2>3. Rank(h.of) = 1
    BY <2>1, <2>2, RankFacts
  <2>4. out' = out \o <<h>>
    <3>1. out' = Append(out, h)
      BY <1>6, <2>2 DEF Enter
    <3>2. h \in Hung /\ out \in Seq(Hung)
      BY OutFacts
    <3> QED BY <3>1, <3>2, AppendIsConcat
  <2>5. kind \in Through /\ kind # "descriptionListTerm"
    BY <1>6 DEF Through
  <2> QED BY <1>1, <1>3, <1>5, <2>1, <2>2, <2>3, <2>4, <2>5, ChildHung
<1>7. CASE kind # "indexterm"
  <2>1. out' = out
    BY <1>7 DEF Enter
  <2>2. n \in Nat /\ (\A m \in Nodes : m < n) /\ Nodes \subseteq Nodes' /\ \A m \in Nodes : ast'[m] = ast[m]
    BY <1>3 DEF NewChild
  <2>3. \A j \in 1 .. Len(calls') :
          \/ /\ j \in 1 .. Len(calls) /\ calls'[j].node = calls[j].node
             /\ calls'[j].at = 1 => calls[j].at = 1
          \/ calls'[j].node \in Nat /\ \A m \in Nodes : m < calls'[j].node
    BY <1>5, <2>2
  <2>4. Settled \subseteq Settled'
    BY <1>2, <2>2, <2>3, StillSettled
  <2> QED BY <2>1, <2>4, SameOrder
<1> QED BY <1>6, <1>7

\* What a visitor hangs under its own element does not concern the visits around.
LEMMA OwnAhead ==
  ASSUME RInv, WInv, NEW h, h.to[1] = calls[Len(calls)].node,
         NEW i \in 1 .. Len(calls) - 1
  PROVE  Ahead(h, i)
<1>1. PICK L \in Nat : L = Len(calls) /\ i \in 1 .. L /\ L \in 1 .. L /\ i < L
  BY DEF RInv, CallsInv
<1>2. calls[i].node < calls[L].node
  BY <1>1 DEF WInv, SInv, FramesInv
<1>3. calls[i].node \in Nat /\ calls[L].node \in Nat
  <2>1. calls[i].node \in Nodes /\ calls[L].node \in Nodes
    BY <1>1 DEF RInv, CallsInv, VisitInv
  <2> QED BY <2>1, SelfFacts
<1>4. h.to[1] # calls[i].node /\ h.to[1] >= calls[i].node
  BY <1>1, <1>2, <1>3
<1> QED BY <1>4 DEF Ahead

LEMMA NextPartO ==
  ASSUME RInv, RInv', WInv, OInv, NextPart PROVE OInv'
<1>1. /\ calls # <<>> /\ Top.at < Len(Parts(KindNow)) /\ ast' = ast
      /\ out' = out \o Done(Top.node, PartNow)
  BY DEF NextPart
<1>2. TreeInv /\ TreeInv' /\ CallsInv /\ CurrentInv /\ SInv /\ out \in Seq(Settled)
  BY DEF RInv, WInv, OInv
<1>3. PICK L \in Nat \ {0} : L = Len(calls) /\ L \in 1 .. Len(calls)
  BY <1>1, <1>2 DEF CallsInv
<1>4. /\ Top \in Visit /\ Top.node \in Nodes /\ Top.at \in 1 .. Len(Parts(KindNow)) /\ KindNow \in Kinds
      /\ calls[L] = Top
  BY <1>1, <1>2, <1>3, TopFacts DEF Top
<1>5. Nodes' = Nodes /\ (\A m \in Nodes : ast'[m] = ast[m] /\ KindOf(m)' = KindOf(m))
  BY <1>1, <1>2, SameTree
<1>6. /\ Len(calls') = L /\ calls'[L].node = Top.node /\ calls'[L].at = Top.at + 1
      /\ \A j \in 1 .. L - 1 : calls'[j] = calls[j]
  <2>1. calls' = [calls EXCEPT ![L] = [Top EXCEPT !.at = @ + 1]]
    BY <1>3 DEF NextPart, Top
  <2> DEFINE moved == [Top EXCEPT !.at = @ + 1]
  <2>2. moved.node = Top.node /\ moved.at = Top.at + 1
    BY <1>4 DEF Visit
  <2> HIDE DEF moved
  <2>3. calls' = [calls EXCEPT ![L] = moved]
    BY <2>1 DEF moved
  <2> QED BY <1>2, <1>3, <2>2, <2>3 DEF CallsInv
<1>7. \A i \in 1 .. L : i \in 1 .. L - 1 \/ i = L
  BY <1>3
<1>8. calls'[L].at # 1
  BY <1>4, <1>6
<1>9. \A i \in 1 .. L : calls'[i].node = calls[i].node /\ (calls'[i].at = 1 => i \in 1 .. L - 1 /\ calls[i].at = 1)
  BY <1>4, <1>6, <1>7, <1>8
<1>10. Settled \subseteq Settled'
  BY <1>2, <1>3, <1>5, <1>6, <1>9, StillSettled
<1>11. CASE Done(Top.node, PartNow) = <<>>
  <2>1. out' = out
    BY <1>1, <1>2, <1>11
  <2> QED BY <1>10, <2>1, SameOrder
<1>12. ASSUME NEW d, Done(Top.node, PartNow) = <<d>>, Closing(Top.node, PartNow, d) PROVE OInv'
  <2>1. PartNow # "blocks"
    <3> PICK k \in Kinds : k = KindNow
      BY <1>4
    <3>1. PICK j \in 1 .. Len(Parts(k)) : j = Top.at
      BY <1>4
    <3>2. j # Len(Parts(k))
      BY <1>1, <1>4, <3>1, PartsFacts
    <3> QED BY <3>1, <3>2, PartsAt DEF PartNow
  <2>2. /\ d \in Hung /\ d.of[1] = Top.node /\ d.to[1] = Top.node /\ Rank(d.of) = 0
    BY <2>1, <1>12 DEF Closing
  <2>3. ASSUME NEW i \in 1 .. L PROVE Ahead(d, i)'
    <3>1. CASE i \in 1 .. L - 1
      <4>1. Ahead(d, i)
        BY <1>3, <1>4, <2>2, <3>1, OwnAhead
      <4> QED BY <1>2, <1>3, <1>5, <1>9, <4>1, StillAhead
    <3>2. CASE i = L
      <4>1. calls'[i].node = Top.node /\ calls'[i].at # 1 /\ Top.node \in Nat
        BY <1>4, <1>6, <1>8, <3>2, SelfFacts
      <4>2. d.to[1] >= calls'[i].node
        BY <2>2, <4>1
      <4> QED BY <2>2, <4>1, <4>2 DEF Ahead
    <3> QED BY <1>7, <3>1, <3>2
  <2>4. d \in Settled'
    BY <1>4, <1>5, <1>6, <2>2, <2>3 DEF Settled
  <2>5. After(d, out)
    <3> SUFFICES ASSUME NEW i \in 1 .. Len(out), out[i].to = d.to PROVE Before(out[i].of, d.of)
      BY DEF After
    <3>1. out[i] \in Settled
      BY <1>2
    <3> QED BY <1>1, <1>12, <3>1, ClosingLast
  <2> QED BY <1>1, <1>10, <1>12, <2>4, <2>5, OneMore
<1>13. cell_style \in Styles /\ cell_style = StyleAround[Top.node]
  BY <1>1, <1>2 DEF CurrentInv, SInv, TopInv
<1> QED BY <1>4, <1>11, <1>12, <1>13, DoneOne

LEMMA LeaveO ==
  ASSUME RInv, RInv', WInv, OInv, Leave PROVE OInv'
<1>1. TreeInv /\ TreeInv' /\ CallsInv /\ CurrentInv /\ SInv /\ out \in Seq(Settled)
  BY DEF RInv, WInv, OInv
<1>2. PICK L \in Nat : L = Len(calls) /\ L > 1 /\ calls # <<>> /\ L \in 1 .. Len(calls)
  BY <1>1, EmptySeq DEF Leave, Leaving, CallsInv
<1>3. Top \in Visit /\ Top.node \in Nodes /\ calls[L] = Top
  BY <1>1, <1>2, TopFacts DEF Top
<1>4. /\ ast' = ast /\ calls' = SubSeq(calls, 1, L - 1)
      /\ out' = out \o Done(Top.node, PartNow) \o Own(Top.node, Top.old)
  BY <1>2 DEF Leave, Leaving
<1>5. Nodes' = Nodes /\ \A m \in Nodes : ast'[m] = ast[m]
  BY <1>1, <1>4, SameTree
<1>6. /\ Len(calls') = L - 1 /\ L - 1 \in 1 .. Len(calls)
      /\ \A j \in 1 .. L - 1 : calls'[j] = calls[j] /\ j \in 1 .. Len(calls)
  <2>1. /\ calls \in Seq(Visit) /\ 1 \in 1 .. Len(calls) + 1 /\ L - 1 \in 0 .. Len(calls)
        /\ L - 1 >= 1 /\ (L - 1) - 1 + 1 = L - 1
    BY <1>1, <1>2 DEF CallsInv
  <2>2. Len(calls') = L - 1 /\ \A j \in 1 .. L - 1 : calls'[j] = calls[j]
    BY <1>2, <1>4, <2>1, SubSeqProperties
  <2> QED BY <1>2, <2>1, <2>2
<1>7. Settled \subseteq Settled'
  BY <1>1, <1>5, <1>6, StillSettled
<1>8. \A h, i : i \in 1 .. L - 1 /\ Ahead(h, i) => Ahead(h, i)'
  BY <1>1, <1>5, <1>6, StillAhead
<1>9. out \in Seq(Settled') /\ InOrder(out)
  BY <1>7, SeqMonotonic DEF OInv
<1> PICK n \in Nodes : n = Top.node
  BY <1>3
<1>10. n \in Nat /\ \A i \in 1 .. L - 1 : calls[i].node \in Nat /\ calls[i].node < n
  <2>1. \A i \in 1 .. Len(calls) : calls[i].node \in Nodes
    BY <1>1 DEF CallsInv, VisitInv
  <2>2. \A i \in 1 .. L - 1 : calls[i].node < calls[L].node
    BY <1>1, <1>2 DEF SInv, FramesInv
  <2> QED BY <1>3, <1>6, <2>1, <2>2, SelfFacts
\* What the visitor hangs when its last part is done.
<1>11. PICK t : /\ t = out \o Done(n, PartNow) /\ t \in Seq(Settled') /\ InOrder(t)
                /\ \A h : After(h, out) /\ h.to[1] # n => After(h, t)
  <2>1. CASE Done(n, PartNow) = <<>>
    <3>1. out \o Done(n, PartNow) = out
      BY <1>1, <2>1
    <3> QED BY <1>9, <3>1
  <2>2. ASSUME NEW d, Done(n, PartNow) = <<d>>, Closing(n, PartNow, d)
        PROVE  /\ out \o <<d>> \in Seq(Settled') /\ InOrder(out \o <<d>>)
               /\ \A h : After(h, out) /\ h.to[1] # n => After(h, out \o <<d>>)
    <3>1. d \in Hung /\ d.of[1] = n /\ d.to[1] = n
      BY <2>2 DEF Closing
    <3>2. \A i \in 1 .. L - 1 : Ahead(d, i)'
      BY <1>2, <1>3, <1>8, <3>1, OwnAhead
    <3>3. d \in Settled'
      BY <1>5, <1>6, <3>1, <3>2 DEF Settled
    <3>4. After(d, out)
      <4> SUFFICES ASSUME NEW i \in 1 .. Len(out), out[i].to = d.to PROVE Before(out[i].of, d.of)
        BY DEF After
      <4>1. out[i] \in Settled
        BY <1>1
      <4> QED BY <1>2, <2>2, <4>1, ClosingLast
    <3>5. out \o <<d>> \in Seq(Settled') /\ InOrder(out \o <<d>>)
      BY <1>9, <3>3, <3>4, Appended
    <3>6. ASSUME NEW h, After(h, out), h.to[1] # n PROVE After(h, out \o <<d>>)
      <4>1. d.to # h.to
        BY <3>1, <3>6
      <4> QED BY <1>9, <3>3, <3>6, <4>1, AfterBoth
    <3> QED BY <3>5, <3>6
  <2>3. cell_style \in Styles /\ cell_style = StyleAround[n]
    BY <1>1, <1>2 DEF CurrentInv, SInv, TopInv
  <2>4. Done(n, PartNow) = <<>> \/ \E d : Done(n, PartNow) = <<d>> /\ Closing(n, PartNow, d)
    BY <2>3, DoneOne
  <2> QED BY <2>1, <2>2, <2>4
<1>12. out' = t \o Own(n, Top.old)
  BY <1>4, <1>11
<1>13. InOrder(out)' <=> InOrder(out')
  BY DEF InOrder
\* Its own element.
<1>14. CASE KindOf(n) \in Through
  <2>1. Own(n, Top.old) = <<>>
    BY <1>14 DEF Own, Through
  <2>2. out' = t
    BY <1>11, <1>12, <2>1
  <2>3. out' \in Seq(Settled') /\ InOrder(out')
    BY <1>11, <2>2
  <2> QED BY <1>13, <2>3 DEF OInv
<1>15. CASE KindOf(n) \notin Through
  <2>1. PICK h \in Hung : h = Hang(Self(n), Above(n, Top.old)) /\ h.of = Self(n) /\ h.to = Above(n, Top.old)
    BY <1>2, AboveIs, SelfFacts, HangFacts
  <2>2. h.of[1] = n /\ Rank(h.of) = 1
    <3>1. h.of[1] = n /\ h.of[2] = "self"
      BY <2>1, SelfFacts
    <3> QED BY <3>1, RankFacts
  <2>3. h.to = Expected(calls[L - 1].node, PartAt(L - 1))
    BY <1>2, <2>1, AboveIs
  <2>4. PICK j \in 1 .. L - 1 : Near(j, L - 1, h.to)
    BY <1>1, <1>6, <2>3, Nearest
  <2>5. h.to[1] = calls[j].node /\ \A i \in 1 .. L - 1 : Ahead(h, i)
    BY <1>1, <1>6, <2>2, <2>4, NearAhead
  <2>6. h.to[1] \in Nodes /\ h.to[1] < n /\ h.to[1] \in Nat /\ j \in 1 .. Len(calls)
    <3>1. j \in 1 .. Len(calls) /\ calls[j].node \in Nodes
      BY <1>1, <1>6 DEF CallsInv, VisitInv
    <3> QED BY <1>10, <2>5, <3>1
  <2>7. h \in Settled'
    <3>1. \A i \in 1 .. Len(calls') : Ahead(h, i)'
      BY <1>6, <1>8, <2>5
    <3> QED BY <1>5, <2>2, <2>6, <3>1 DEF Settled
  <2>8. After(h, out)
    <3> SUFFICES ASSUME NEW i \in 1 .. Len(out), out[i].to = h.to PROVE Before(out[i].of, h.of)
      BY DEF After
    <3>1. PICK e \in Settled : e = out[i]
      BY <1>1
    <3>2. e.of[1] \in Nat /\ Ahead(e, L)
      BY <1>2, SelfFacts DEF Settled
    <3>3. ~ (e.of[1] >= n)
      BY <1>3, <1>10, <1>15, <2>6, <3>1, <3>2 DEF Ahead
    <3>4. e.of[1] < h.of[1] /\ e.to[1] = calls[j].node
      BY <1>10, <2>2, <2>5, <3>1, <3>2, <3>3
    <3> QED BY <2>2, <2>6, <3>1, <3>4, RankOneLast
  <2>9. h.to[1] # n
    BY <1>10, <2>6
  <2>10. out' = t \o <<h>>
    BY <1>12, <1>15, <2>1 DEF Own, Through
  <2>11. out' \in Seq(Settled') /\ InOrder(out')
    BY <1>11, <2>7, <2>8, <2>9, <2>10, Appended
  <2> QED BY <1>13, <2>11 DEF OInv
<1> QED BY <1>14, <1>15

LEMMA FinishO ==
  ASSUME RInv, RInv', WInv, OInv, Finish PROVE OInv'
<1>1. TreeInv /\ TreeInv' /\ CallsInv /\ out \in Seq(Settled)
  BY DEF RInv, OInv
<1>2. Len(calls) = 1 /\ calls' = <<>> /\ Len(calls') = 0 /\ ast' = ast
  BY DEF Finish
<1>3. Nodes' = Nodes /\ \A m \in Nodes : ast'[m] = ast[m]
  BY <1>1, <1>2, SameTree
<1>4. Settled \subseteq Settled'
  BY <1>1, <1>2, <1>3, StillSettled
<1>5. 1 \in 1 .. Len(calls) /\ calls[1].node = 1 /\ 1 \in Nodes
  BY <1>1, <1>2 DEF CallsInv, VisitInv, TreeInv, Nodes
<1>6. PICK e \in Element, f \in Element :
        /\ e = <<1, "root section">> /\ e[1] = 1 /\ e[2] = "root section"
        /\ f = Self(1) /\ f[1] = 1
  <2>1. <<1, "root section">> \in Element
    BY DEF Element, Names
  <2>2. <<1, "root section">>[1] = 1 /\ <<1, "root section">>[2] = "root section"
    OBVIOUS
  <2> QED BY <1>5, <2>1, <2>2, SelfFacts
<1>7. PICK h \in Hung : h = Hang(e, f) /\ h.of[1] = 1 /\ h.to[1] = 1 /\ Rank(h.of) = 2
  <2>1. Rank(e) = 2
    BY <1>6, RankFacts
  <2>2. PICK h \in Hung : h = Hang(e, f) /\ h.of = e /\ h.to = f
    BY HangFacts
  <2>3. h.of[1] = 1 /\ h.to[1] = 1 /\ Rank(h.of) = 2
    BY <1>6, <2>1, <2>2
  <2> QED BY <2>2, <2>3
<1>8. h \in Settled'
  BY <1>2, <1>3, <1>5, <1>7 DEF Settled
<1>9. After(h, out)
  <2> SUFFICES ASSUME NEW i \in 1 .. Len(out), out[i].to = h.to PROVE Before(out[i].of, h.of)
    BY DEF After
  <2>1. out[i] \in Settled
    BY <1>1
  <2>2. Rank(out[i].of) # 2
    BY <1>5, <1>7, <2>1 DEF Settled, Ahead
  <2>3. Rank(out[i].of) = 0 \/ Rank(out[i].of) = 1
    BY <2>2, RankFacts
  <2> QED BY <1>7, <2>3 DEF Before
<1>10. out' = out \/ out' = Append(out, h)
  BY <1>6, <1>7 DEF Finish
<1>11. CASE out' = Append(out, h)
  <2>1. h \in Hung /\ out \in Seq(Hung)
    BY OutFacts
  <2>2. out' = out \o <<h>>
    BY <1>11, <2>1, AppendIsConcat
  <2> QED BY <1>4, <1>8, <1>9, <2>2, OneMore
<1> QED BY <1>4, <1>10, <1>11, SameOrder

LEMMA StutterO ==
  ASSUME RInv, RInv', OInv, UNCHANGED vars PROVE OInv'
<1>1. TreeInv /\ TreeInv' /\ CallsInv
  BY DEF RInv
<1>2. ast' = ast /\ calls' = calls /\ out' = out
  BY DEF vars
<1>3. Nodes' = Nodes /\ \A m \in Nodes : ast'[m] = ast[m]
  BY <1>1, <1>2, SameTree
<1>4. Settled \subseteq Settled'
  BY <1>1, <1>2, <1>3, StillSettled
<1> QED BY <1>2, <1>4, SameOrder

LEMMA NextO ==
  ASSUME RInv, RInv', WInv, OInv, [Next]_vars PROVE OInv'
<1>1. ASSUME NEW kind \in Kinds, VisitLeaf(kind) PROVE OInv'
  BY <1>1, VisitLeafO
<1>2. ASSUME NEW kind \in Kinds, NEW opt \in Options(kind), Enter(kind, opt) PROVE OInv'
  BY <1>2, EnterO
<1>3. CASE NextPart
  BY <1>3, NextPartO
<1>4. CASE Leave
  BY <1>4, LeaveO
<1>5. CASE Finish
  BY <1>5, FinishO
<1>6. CASE UNCHANGED vars
  BY <1>6, StutterO
<1> QED BY <1>1, <1>2, <1>3, <1>4, <1>5, <1>6 DEF Next

LEMMA OInvariant == Spec => []OInv
<1>1. ASSUME RInv, RInv', WInv, OInv, [Next]_vars PROVE OInv'
  BY <1>1, NextO
<1>2. ASSUME Init PROVE OInv
  <2>1. out = <<>> /\ Len(out) = 0
    BY <1>2 DEF Init
  <2> QED BY <2>1, EmptySeq DEF OInv, InOrder
<1> QED BY <1>1, <1>2, Invariant, WInvariant, PTL DEF Spec

\* Whatever the tree, the visitors of the docutils backend give every node that
\* has a visitor its element, once, hang it where the tree has the node, and
\* hang what is under one element in the order of the text.
THEOREM Rendered == Spec => []RenderedAsWritten
<1>1. ASSUME RInv, WInv, HInv, OInv PROVE RenderedAsWritten
  <2>1. HangsWhereWritten
    <3> SUFFICES ASSUME NEW i \in 1 .. Len(out), out[i].of[2] = "self", out[i].of[1] # 1
                 PROVE  out[i].to = Around[out[i].of[1]]
      BY DEF HangsWhereWritten
    <3>1. out[i] \in Written
      BY <1>1 DEF WInv, WrittenInv
    <3> QED BY <3>1 DEF Written
  <2>2. HangsInOrder
    BY <1>1 DEF OInv, InOrder, HangsInOrder
  <2>3. NoneLost
    BY <1>1, NoneLostHolds
  <2> QED BY <2>1, <2>2, <2>3 DEF RenderedAsWritten
<1> QED BY <1>1, Invariant, WInvariant, HInvariant, OInvariant, PTL
=============================================================================
