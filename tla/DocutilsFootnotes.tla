------------------------- MODULE DocutilsFootnotes -------------------------
(***************************************************************************)
(* Footnotes in docutils_backend.py: DocutilsRenderer.visit_ref numbers a  *)
(* macro before it renders the text inside, and collects the body after.   *)
(* current_node is where nodes are added; around the text of a footnote it *)
(* is the paragraph of its body, here named by the macro.  Titles are      *)
(* rendered like the rest.                                                 *)
(***************************************************************************)
EXTENDS FootnoteText

VARIABLES
  footnote_counter,
  footnote_by_custom_id,  \* the label an id was given last
  footnotes,              \* the bodies: [docid, label, by], by 0 for an empty one
  current_node,           \* the macro whose text is rendered, 0 outside of one
  calls,                  \* the calls of visit_ref under way: [label, old_parent]
  reference,              \* what stands for a macro: [refid, label, parent]
  rendering

vars == <<text, open, footnote_counter, footnote_by_custom_id, footnotes,
          current_node, calls, reference, rendering>>

Init == /\ text = <<>> /\ open = <<>>
        /\ footnote_counter = 0 /\ footnote_by_custom_id = <<>> /\ footnotes = <<>>
        /\ current_node = 0 /\ calls = <<>> /\ reference = <<>> /\ rendering = FALSE

Put(f, key, value) == [k \in DOMAIN f \cup {key} |-> IF k = key THEN value ELSE f[k]]

\* fn-<id>, or fn-<number> for a footnote without one.
DocId(id, label) == IF id = None THEN label ELSE id

\* visit_document: the tables are emptied.
VisitDocument ==
  /\ ~rendering /\ rendering' = TRUE
  /\ text' = <<>> /\ open' = <<>>
  /\ footnote_counter' = 0 /\ footnote_by_custom_id' = <<>> /\ footnotes' = <<>>
  /\ reference' = <<>> /\ UNCHANGED <<current_node, calls>>

\* visit_stem and the toctree of visit_open take the text that is there.
Rendered == Within \ {"raw"}

SkipRaw ==
  /\ rendering /\ PassOver("raw")
  /\ UNCHANGED <<footnote_counter, footnote_by_custom_id, footnotes, current_node,
                 calls, reference, rendering>>

Number(id) ==
  /\ footnote_counter' = footnote_counter + 1
  /\ footnote_by_custom_id' = IF id = None THEN footnote_by_custom_id
                              ELSE Put(footnote_by_custom_id, id, footnote_counter + 1)

\* A definition gets a number of its own, also when its id has one.
Begin ==
  /\ rendering
  /\ \E id \in Ids \cup {None}, w \in Rendered : ReadBegin(id, w) /\ Number(id)
  /\ calls' = Append(calls, [label |-> footnote_counter + 1, old_parent |-> current_node])
  /\ current_node' = Here
  /\ UNCHANGED <<footnotes, reference, rendering>>

Call == calls[Len(calls)]

\* Mutation of End: the reference goes to where the text went.
End_KeepsParent ==
  /\ rendering /\ \E w \in Rendered : ReadEnd(w)
  /\ LET docid == DocId(IdAt(Innermost), Call.label)
     IN  /\ footnotes' = Append(footnotes,
                           [docid |-> docid, label |-> Call.label, by |-> Innermost])
         /\ reference' = Put(reference, Innermost,
                           [refid |-> docid, label |-> Call.label, parent |-> current_node])
  /\ current_node' = Call.old_parent
  /\ calls' = SubSeq(calls, 1, Len(calls) - 1)
  /\ UNCHANGED <<footnote_counter, footnote_by_custom_id, rendering>>

\* The text is rendered: the body is collected, the reference added outside.
End ==
  /\ rendering /\ \E w \in Rendered : ReadEnd(w)
  /\ LET docid == DocId(IdAt(Innermost), Call.label)
     IN  /\ footnotes' = Append(footnotes,
                           [docid |-> docid, label |-> Call.label, by |-> Innermost])
         /\ reference' = Put(reference, Innermost,
                           [refid |-> docid, label |-> Call.label, parent |-> Call.old_parent])
  /\ current_node' = Call.old_parent
  /\ calls' = SubSeq(calls, 1, Len(calls) - 1)
  /\ UNCHANGED <<footnote_counter, footnote_by_custom_id, rendering>>

Known(id) == id \in DOMAIN footnote_by_custom_id

\* Mutation of RefKnown: the reference uses up a number.
RefKnown_Counts ==
  /\ rendering
  /\ \E id \in Ids, w \in Rendered :
       /\ ReadRef(id, w) /\ Known(id)
       /\ footnote_counter' = footnote_counter + 1
       /\ reference' = Put(reference, Here,
            [refid |-> id, label |-> footnote_by_custom_id[id], parent |-> current_node])
  /\ UNCHANGED <<footnote_by_custom_id, footnotes, current_node, calls, rendering>>

RefKnown ==
  /\ rendering
  /\ \E id \in Ids, w \in Rendered :
       /\ ReadRef(id, w) /\ Known(id)
       /\ reference' = Put(reference, Here,
            [refid |-> id, label |-> footnote_by_custom_id[id], parent |-> current_node])
  /\ UNCHANGED <<footnote_counter, footnote_by_custom_id, footnotes, current_node,
                 calls, rendering>>

\* An id not met yet gets a number and a body without a text.
RefNew ==
  /\ rendering
  /\ \E id \in Ids, w \in Rendered :
       /\ ReadRef(id, w) /\ ~Known(id) /\ Number(id)
       /\ footnotes' = Append(footnotes,
            [docid |-> id, label |-> footnote_counter + 1, by |-> 0])
       /\ reference' = Put(reference, Here,
            [refid |-> id, label |-> footnote_counter + 1, parent |-> current_node])
  /\ UNCHANGED <<current_node, calls, rendering>>

\* The end of visit_document: the bodies are put at the bottom.
Finish == /\ rendering /\ open = <<>> /\ rendering' = FALSE
          /\ UNCHANGED <<text, open, footnote_counter, footnote_by_custom_id, footnotes,
                         current_node, calls, reference>>

Take == Begin \/ End \/ RefKnown \/ RefNew

Next == VisitDocument \/ Take \/ SkipRaw \/ Finish

Spec == Init /\ [][Next]_vars

-----------------------------------------------------------------------------
\* The types of the state.
TypeOK ==
  /\ text \in Seq(Token) /\ open \in Seq(Nat) /\ Len(calls) \in {0, Len(open)}
  /\ footnote_counter \in Nat /\ current_node \in Nat /\ rendering \in BOOLEAN
  /\ \A i \in 1 .. Len(footnotes) : footnotes[i].label \in Nat /\ footnotes[i].by \in Nat
  /\ \A id \in DOMAIN footnote_by_custom_id : footnote_by_custom_id[id] \in Nat
  /\ \A m \in DOMAIN reference : reference[m].label \in Nat /\ reference[m].parent \in Nat

\* In a rendered document every reference leads to a body with its label and
\* id, also from within the text of a footnote to one that encloses it.
RefersToBody ==
  ~rendering =>
    \A m \in DOMAIN reference :
      \E i \in 1 .. Len(footnotes) : /\ footnotes[i].docid = reference[m].refid
                                     /\ footnotes[i].label = reference[m].label

\* Every label from 1 on is on one body, though inner footnotes are collected
\* before those they stand in.
EveryLabelOnce ==
  ~rendering => /\ {footnotes[i].label : i \in 1 .. Len(footnotes)} = 1 .. Len(footnotes)
                /\ footnote_counter = Len(footnotes)

\* A reference is added to the text in which its macro stands: that of the
\* innermost footnote around it, or of the document.
Around(m) == {b \in 1 .. m - 1 : text[b].part = "begin" /\ (HasEnded(b) => EndOf(b) > m)}
ReferenceInPlace ==
  \A m \in DOMAIN reference :
    IF Around(m) = {} THEN reference[m].parent = 0
    ELSE reference[m].parent \in Around(m) /\ \A b \in Around(m) : b <= reference[m].parent
=============================================================================
