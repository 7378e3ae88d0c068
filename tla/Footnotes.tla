----------------------------- MODULE Footnotes -----------------------------
(***************************************************************************)
(* The resolver and the docutils renderer walk the same document, one      *)
(* after the other in the code and side by side here, as neither touches   *)
(* what the other keeps.  A token is met by both, but only the renderer    *)
(* meets those in titles, and only the resolver those in what is raw.      *)
(***************************************************************************)
EXTENDS FootnoteText

VARIABLES
  footnote_counter, footnotes, footnote_by_id, index, walking,
  label_counter, footnote_by_custom_id, bodies, current_node, calls, reference,
  rendering

Resolver == INSTANCE ResolverFootnotes
Renderer == INSTANCE DocutilsFootnotes
              WITH footnote_counter <- label_counter, footnotes <- bodies

vars == <<text, open, footnote_counter, footnotes, footnote_by_id, index, walking,
          label_counter, footnote_by_custom_id, bodies, current_node, calls,
          reference, rendering>>

Init == Resolver!Init /\ Renderer!Init

Start   == Resolver!Resolve /\ Renderer!VisitDocument
InFlow  == Resolver!Take /\ Renderer!Take
InTitle == Resolver!SkipTitle /\ Renderer!Take
InRaw   == Resolver!Take /\ Renderer!SkipRaw
Finish  == Resolver!Finish /\ Renderer!Finish

Next == Start \/ InFlow \/ InTitle \/ InRaw \/ Finish

Spec == Init /\ [][Next]_vars

-----------------------------------------------------------------------------
\* The types of the state of both.
TypeOK == Resolver!TypeOK /\ Renderer!TypeOK

\* In the ASG the catalog has the numbers from 1 without gaps, an id and a
\* number belong together, and an entry has the text of the definition that
\* ended first (resolver.py:284-289, 511-548).
CatalogOfTheText ==
  Resolver!Sequential /\ Resolver!SameIdSameNumber /\ Resolver!FirstTextKept

\* In the docutils tree no reference dangles, the labels are those of the
\* bodies, once each, and a reference stands where its macro stood
\* (docutils_backend.py:99-102, 521-584).
ReferencesLeadHome ==
  Renderer!RefersToBody /\ Renderer!EveryLabelOnce /\ Renderer!ReferenceInPlace

\* The ASG and the docutils tree show the same number for every macro up to the
\* first in a title or in what is raw, if none of them stands inside another and
\* no id is defined after it was used: resolver.py:523 numbers a footnote when
\* its text ends, docutils_backend.py:521 when it begins, and only the former
\* asks a definition whether its id has a number already.
FlowUpTo(n) == \A k \in 1 .. n : text[k].part = "end" \/ text[k].within = "flow"
Common      == {m \in DOMAIN index \cap DOMAIN reference : FlowUpTo(m)}
Flat        == \A m \in Common : Renderer!Around(m) = {}
DefinedLate == \E m, n \in Common :
                 m < n /\ text[n].part = "begin" /\ IdAt(m) = IdAt(n) /\ IdAt(n) # None
SameNumbers == \A m \in Common : index[m] = reference[m].label
AgreeWhenFlat == ~walking /\ Flat /\ ~DefinedLate => SameNumbers
=============================================================================
