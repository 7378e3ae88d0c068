------------------------- MODULE ResolverFootnotes -------------------------
(***************************************************************************)
(* Footnotes in resolver.py: ASGResolver.visit_ref numbers a macro after   *)
(* it has visited the text inside (generic_visit), and keeps one entry for *)
(* every footnote without an id and for every id.  No title is visited.    *)
(***************************************************************************)
EXTENDS FootnoteText

VARIABLES
  footnote_counter,
  footnotes,        \* the catalog: entries [id, index, defined by]
  footnote_by_id,   \* the position in the catalog of the entry of an id
  index,            \* the number given to the macro that began at a place
  walking           \* resolve() is under way

vars == <<text, open, footnote_counter, footnotes, footnote_by_id, index, walking>>

Init == /\ text = <<>> /\ open = <<>>
        /\ footnote_counter = 0 /\ footnotes = <<>> /\ footnote_by_id = <<>>
        /\ index = <<>> /\ walking = FALSE

\* generic_visit follows get_child_collections, which names no title but that of
\* a discrete heading.
Visited == Within \ {"title"}

SkipTitle ==
  /\ walking /\ PassOver("title")
  /\ UNCHANGED <<footnote_counter, footnotes, footnote_by_id, index, walking>>

Put(f, key, value) == [k \in DOMAIN f \cup {key} |-> IF k = key THEN value ELSE f[k]]

\* resolve(): a document is walked from a clean state.
Resolve ==
  /\ ~walking /\ walking' = TRUE
  /\ text' = <<>> /\ open' = <<>> /\ index' = <<>>
  /\ footnote_counter' = 0 /\ footnotes' = <<>> /\ footnote_by_id' = <<>>

\* The text of a footnote is visited before the footnote itself.
Begin == /\ walking
         /\ \E id \in Ids \cup {None}, w \in Visited : ReadBegin(id, w)
         /\ UNCHANGED <<footnote_counter, footnotes, footnote_by_id, index, walking>>

\* Mutation of NewEntry: the position in the catalog is one too far.
NewEntry_OffByOne(m, id, by) ==
  /\ footnote_counter' = footnote_counter + 1
  /\ index' = Put(index, m, footnote_counter + 1)
  /\ footnotes' = Append(footnotes, [id |-> id, index |-> footnote_counter + 1, by |-> by])
  /\ footnote_by_id' = IF id = None THEN footnote_by_id
                       ELSE Put(footnote_by_id, id, Len(footnotes) + 2)

\* Macro m gets the next number and an entry, which by defines, or nothing yet.
NewEntry(m, id, by) ==
  /\ footnote_counter' = footnote_counter + 1
  /\ index' = Put(index, m, footnote_counter + 1)
  /\ footnotes' = Append(footnotes, [id |-> id, index |-> footnote_counter + 1, by |-> by])
  /\ footnote_by_id' = IF id = None THEN footnote_by_id
                       ELSE Put(footnote_by_id, id, Len(footnotes) + 1)

Known(id) == id \in DOMAIN footnote_by_id
Entry(id) == footnotes[footnote_by_id[id]]

EndNew == /\ walking /\ \E w \in Visited : ReadEnd(w)
          /\ ~Known(IdAt(Innermost))
          /\ NewEntry(Innermost, IdAt(Innermost), Innermost)
          /\ UNCHANGED walking

\* Mutation of EndKnown: the last definition counts, not the first.
EndKnown_Overwrites ==
  /\ walking /\ \E w \in Visited : ReadEnd(w)
  /\ Known(IdAt(Innermost))
  /\ index' = Put(index, Innermost, Entry(IdAt(Innermost)).index)
  /\ footnotes' = [footnotes EXCEPT ![footnote_by_id[IdAt(Innermost)]].by = Innermost]
  /\ UNCHANGED <<footnote_counter, footnote_by_id, walking>>

\* The id has an entry: it takes the text if it has none.
EndKnown ==
  /\ walking /\ \E w \in Visited : ReadEnd(w)
  /\ Known(IdAt(Innermost))
  /\ index' = Put(index, Innermost, Entry(IdAt(Innermost)).index)
  /\ footnotes' = IF Entry(IdAt(Innermost)).by # 0 THEN footnotes
                  ELSE [footnotes EXCEPT ![footnote_by_id[IdAt(Innermost)]].by = Innermost]
  /\ UNCHANGED <<footnote_counter, footnote_by_id, walking>>

RefKnown == /\ walking
            /\ \E id \in Ids, w \in Visited :
                 /\ ReadRef(id, w) /\ Known(id)
                 /\ index' = Put(index, Here, Entry(id).index)
            /\ UNCHANGED <<footnote_counter, footnotes, footnote_by_id, walking>>

\* A reference before any definition: an entry without a text.
RefNew == /\ walking
          /\ \E id \in Ids, w \in Visited :
               ReadRef(id, w) /\ ~Known(id) /\ NewEntry(Here, id, 0)
          /\ UNCHANGED walking

\* The document has been walked to its end.
Finish == /\ walking /\ open = <<>> /\ walking' = FALSE
          /\ UNCHANGED <<text, open, footnote_counter, footnotes, footnote_by_id, index>>

Take == Begin \/ EndNew \/ EndKnown \/ RefKnown \/ RefNew

Next == Resolve \/ Take \/ SkipTitle \/ Finish

Spec == Init /\ [][Next]_vars

-----------------------------------------------------------------------------
\* The types of the state.
TypeOK ==
  /\ text \in Seq(Token) /\ open \in Seq(Nat)
  /\ footnote_counter \in Nat
  /\ footnotes \in Seq([id : Ids \cup {None}, index : Nat, by : Nat])
  /\ DOMAIN footnote_by_id \subseteq Ids
  /\ \A id \in DOMAIN footnote_by_id : footnote_by_id[id] \in 1 .. Len(footnotes)
  /\ \A m \in DOMAIN index : m \in 1 .. Len(text) /\ index[m] \in Nat
  /\ walking \in BOOLEAN

\* The catalog of a document (CHANGELOG.adoc: sequential, 1-based) is numbered
\* without gaps, whatever was resolved before.
Sequential == /\ footnote_counter = Len(footnotes)
              /\ \A i \in 1 .. Len(footnotes) : footnotes[i].index = i

\* Macros show the same number exactly when they have the same id, whether they
\* define it or refer to it, and in which order; others have one of their own.
SameIdSameNumber ==
  \A m, n \in DOMAIN index :
    m # n => (index[m] = index[n] <=> IdAt(m) = IdAt(n) /\ IdAt(m) # None)

\* An entry has the text of the definition of its id that ended first, also when
\* a reference came before it; it has none only if none has ended.
Defining(id) == {m \in DOMAIN index : text[m].part = "begin" /\ IdAt(m) = id}
FirstTextKept ==
  \A i \in 1 .. Len(footnotes) :
    LET id == footnotes[i].id
    IN  id # None =>
          /\ footnotes[i].by = 0 <=> Defining(id) = {}
          /\ \A m \in Defining(id) :
               /\ footnotes[i].by \in Defining(id)
               /\ EndOf(footnotes[i].by) <= EndOf(m)
=============================================================================
