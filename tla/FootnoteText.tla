---------------------------- MODULE FootnoteText ----------------------------
(***************************************************************************)
(* What the walks over a document meet of its footnotes, in the order of   *)
(* the text: "begin" and "end" of a macro with a text, in which there may  *)
(* be others, and "ref" for footnoteref:[id].  footnote:[text] has no id,  *)
(* and neither has footnoteref without one.  Most stand in the flow of the *)
(* text, that of a discrete heading too; others in the title of a          *)
(* document, a section, a sidebar or a collapsible block, and others in    *)
(* what is raw for docutils: a paragraph made a stem block, or the entries *)
(* of a toctree.                                                           *)
(***************************************************************************)
EXTENDS Naturals, Sequences, FiniteSets

CONSTANTS
  Ids,      \* custom ids; one that is a numeral is that number
  None,     \* no id
  MaxText   \* bound: the longest text

ASSUME FootnoteAssumption == None \notin Ids \cup Nat /\ MaxText \in Nat

Within == {"flow", "title", "raw"}

Token == [part : {"begin"}, id : Ids \cup {None}, within : Within]
    \cup [part : {"end"}]
    \cup [part : {"ref"}, id : Ids, within : Within]

VARIABLES
  text,   \* the tokens met so far
  open    \* where the macros began that have not ended, innermost last

Here      == Len(text) + 1
Innermost == open[Len(open)]
IdAt(m)   == text[m].id

\* Where the macro that began at m ended.
Balanced(m, e) == Cardinality({k \in m .. e : text[k].part = "begin"})
                    = Cardinality({k \in m .. e : text[k].part = "end"})
EndOf(m) == CHOOSE e \in m .. Len(text) :
              Balanced(m, e) /\ \A k \in m .. e - 1 : ~Balanced(m, k)
HasEnded(m) == \E e \in m .. Len(text) : Balanced(m, e)

\* What stands inside a macro stands where the macro does.
MayStand(within) == open # <<>> => within = text[Innermost].within

ReadBegin(id, within) ==
  /\ Len(text) + Len(open) + 1 < MaxText /\ MayStand(within)
  /\ text' = Append(text, [part |-> "begin", id |-> id, within |-> within])
  /\ open' = Append(open, Here)
ReadEnd(within) ==
  /\ open # <<>> /\ MayStand(within)
  /\ text' = Append(text, [part |-> "end"])
  /\ open' = SubSeq(open, 1, Len(open) - 1)
ReadRef(id, within) ==
  /\ Len(text) + Len(open) < MaxText /\ MayStand(within)
  /\ text' = Append(text, [part |-> "ref", id |-> id, within |-> within])
  /\ UNCHANGED open

\* A token that is in the document but not on the way of a walk.
PassOver(within) == \/ \E id \in Ids \cup {None} : ReadBegin(id, within)
                    \/ ReadEnd(within)
                    \/ \E id \in Ids : ReadRef(id, within)
=============================================================================
