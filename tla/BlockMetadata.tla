---------------------------- MODULE BlockMetadata ----------------------------
(***************************************************************************)
(* attributed_block of lark_parser.py, with _apply_list_attributes: the    *)
(* title and attribute lines above a block are applied to it one entry at  *)
(* a time, in the order they are written.  A style may turn the block into *)
(* one of another class, and then the entries that follow go to the new    *)
(* block, while those before it were put on the old one.                   *)
(*                                                                         *)
(* The dictionary of an attribute line is the sequence of its entries: the *)
(* named attributes and shorthands, the style, the positional attributes,  *)
(* which is the order attribute_list fills it in.                          *)
(***************************************************************************)
EXTENDS Integers, Sequences, FiniteSets

CONSTANTS
  Names,     \* what titles, ids, roles and attributions are told apart by
  None,
  Invalid,   \* a value that int() refuses
  Inputs     \* pairs: the class of a block, the entries above it

\* The classes a block can have, after a conversion and before one.  A listing
\* stands for all that no style makes another of: [NOTE] alone above an example
\* is in the grammar, and the block an admonition from the start.
Converted == {"Admonition", "Verse", "Stem", "DiscreteHeading", "Collapsible"}
Given     == {"Paragraph", "Example", "Open", "Quote", "Passthrough", "Section",
              "List", "Listing", "Table"}
ListStyles == {"arabic", "reversed"}
Styles     == ListStyles \cup {"note", "source", "verse", "quote", "discrete",
                               "stem", "collapsible"}

\* cols: "3*", "3*^", "3", none, and all the others ("<", "20%", "1a").
ColSpec == [form : {"times", "timesStyled", "width", "blank", "styled"}, n : Nat \ {0}]

Entry ==
       [key : {"title", "id", "role", "attribution"}, value : Names]
  \cup [key : {"style"}, value : Styles]
  \cup [key : {"options"}, value : SUBSET {"collapsible", "reversed", "header"}]
  \cup [key : {"start", "level"}, value : Int \cup {Invalid}]
  \cup [key : {"reversed"}, value : {""}]
  \cup [key : {"positional"}, value : Names \cup {None}]
  \cup [key : {"cols"}, value : Seq(ColSpec) \ {<<>>}]

ASSUME InputAssumption ==
  /\ Inputs \subseteq Given \X Seq(Entry)
  /\ None \notin Names \cup Int \cup ListStyles /\ Invalid \notin Int

VARIABLES
  strict,    \* the parser's flag
  entries,   \* the entries above the block
  pos,       \* the entry to be applied next
  block,     \* the block as it is now
  wrapped,   \* the paragraph a quote or verse was put around, and at which entry
  since,     \* history: the entries up to here were put on a block given up
  status     \* "open", "done" or "error"

vars == <<strict, entries, pos, block, wrapped, since, status>>

\* attributes is a partial function.  heading is the title a section came with.
Fresh(class) ==
  [class |-> class, title |-> None, attributes |-> <<>>, absolute |-> None,
   heading |-> class = "Section", start |-> None, numeration |-> None,
   reversed |-> FALSE, attribution |-> None]

Put(f, key, value) == [k \in DOMAIN f \cup {key} |-> IF k = key THEN value ELSE f[k]]

Largest(S) == CHOOSE m \in S : \A n \in S : n <= m

\* The places of the entries with a key, and the value at the last of some.
At(es, key) == {i \in 1 .. Len(es) : es[i].key = key}
LastOf(es, places) == IF places = {} THEN None ELSE es[Largest(places)].value

\* _apply_list_attributes has gone through all the entries before the others
\* are applied: the last valid start, the last numeration, any reversed.
ListAttributes(b, es) ==
  IF b.class # "List" THEN b
  ELSE [b EXCEPT !.start = LastOf(es, {i \in At(es, "start") : es[i].value # Invalid}),
                 !.numeration = LastOf(es, {i \in At(es, "style") : es[i].value = "arabic"}),
                 !.reversed = \/ At(es, "reversed") # {}
                              \/ \E i \in At(es, "style") : es[i].value = "reversed"
                              \/ \E i \in At(es, "options") : "reversed" \in es[i].value]

Init == \E input \in Inputs :
          /\ strict \in BOOLEAN /\ entries = input[2] /\ pos = 1
          /\ block = ListAttributes(Fresh(input[1]), input[2])
          /\ wrapped = None /\ since = 0 /\ status = "open"

-----------------------------------------------------------------------------
Entered == entries[pos]
Applying(key) == /\ status = "open" /\ pos <= Len(entries) /\ Entered.key = key
                 /\ pos' = pos + 1

SetAttribute(key, value) ==
  block' = [block EXCEPT !.attributes = Put(@, key, value)]

Title == /\ Applying("title")
         /\ block' = [block EXCEPT !.title = Entered.value, !.heading = FALSE]
         /\ UNCHANGED <<strict, entries, wrapped, since, status>>

\* Roles add up.
Role == /\ Applying("role")
        /\ SetAttribute("role",
             IF "role" \in DOMAIN block.attributes
               THEN Append(block.attributes["role"], Entered.value)
               ELSE <<Entered.value>>)
        /\ UNCHANGED <<strict, entries, wrapped, since, status>>

\* Mutation of ForList: every option is left out, not the reversed one alone.
ForList_AnyOption ==
  /\ block.class = "List"
  /\ \/ Entered.key \in {"start", "reversed", "positional", "options"}
     \/ Entered.key = "style" /\ Entered.value \in ListStyles

\* What the loop leaves out for a list, _apply_list_attributes has dealt with.
ForList == /\ block.class = "List"
           /\ \/ Entered.key \in {"start", "reversed", "positional"}
              \/ Entered.key = "style" /\ Entered.value \in ListStyles
              \/ Entered.key = "options" /\ Entered.value \subseteq {"reversed"}

SkipForList == /\ \E key \in {"start", "reversed", "positional", "style", "options"} :
                    Applying(key)
               /\ ForList
               /\ UNCHANGED <<strict, entries, block, wrapped, since, status>>

Plain == /\ \E key \in {"id", "attribution", "options", "start", "reversed",
                       "positional", "cols"} : Applying(key)
         /\ ~ForList
         /\ SetAttribute(Entered.key,
              IF Entered.key = "options" /\ block.class = "List"
                THEN Entered.value \ {"reversed"} ELSE Entered.value)
         /\ UNCHANGED <<strict, entries, wrapped, since, status>>

\* Mutation of Clamp: only from above.
Clamp_Above(n) == IF n > 6 THEN 6 ELSE n

Clamp(n) == IF n < 1 THEN 1 ELSE IF n > 6 THEN 6 ELSE n

\* absolute-level, on headings.  What is not a number counts as 1, and what is
\* out of range as the nearest level, unless the parser is strict.
Absolute ==
  /\ Applying("level")
  /\ IF block.class \notin {"Section", "DiscreteHeading"}
       THEN SetAttribute("level", Entered.value) /\ UNCHANGED status
       ELSE IF strict /\ Entered.value \notin 1 .. 6
              THEN status' = "error" /\ UNCHANGED block
              ELSE /\ block' = [block EXCEPT !.absolute =
                        IF Entered.value = Invalid THEN 1 ELSE Clamp(Entered.value)]
                   /\ UNCHANGED status
  /\ UNCHANGED <<strict, entries, wrapped, since>>

\* The styles that make another block of the one above which they stand.
Conversions ==
       {<<"note", "Example", "Admonition">>}
  \cup {"verse"} \X {"Paragraph", "Quote", "Example", "Open"} \X {"Verse"}
  \cup {"quote"} \X {"Paragraph", "Example", "Open"} \X {"Quote"}
  \cup {"stem"}  \X {"Passthrough", "Paragraph"} \X {"Stem"}

Converts == \E c \in Conversions : c[1] = Entered.value /\ c[2] = block.class

\* A new block is made around the content.  A paragraph becomes the content of
\* a quote or verse with all that it was given; other blocks are given up.
Convert ==
  /\ Applying("style") /\ Converts
  /\ \E c \in Conversions :
       /\ c[1] = Entered.value /\ c[2] = block.class
       /\ block' = Fresh(c[3])
       /\ wrapped' = IF block.class = "Paragraph" /\ c[3] # "Stem"
                       THEN [block |-> block, at |-> pos] ELSE wrapped
  /\ since' = pos
  /\ UNCHANGED <<strict, entries, status>>

\* [discrete] on a section: all that it was given is carried over.
Detach ==
  /\ Applying("style") /\ Entered.value = "discrete" /\ block.class = "Section"
  /\ block' = [block EXCEPT !.class = "DiscreteHeading"]
  /\ UNCHANGED <<strict, entries, wrapped, since, status>>

Style ==
  /\ Applying("style") /\ ~Converts /\ ~ForList
  /\ ~(Entered.value = "discrete" /\ block.class = "Section")
  /\ SetAttribute("style", Entered.value)
  /\ UNCHANGED <<strict, entries, wrapped, since, status>>

Attribute(b, key) == IF key \in DOMAIN b.attributes THEN b.attributes[key] ELSE None

Collapses(b) == /\ b.class \in {"Example", "Open"}
                /\ \/ Attribute(b, "style") = "collapsible"
                   \/ "options" \in DOMAIN b.attributes
                      /\ "collapsible" \in b.attributes["options"]

\* When all entries are applied: collapsible blocks, and the attribution of
\* quotes and verses, by name or else by position.
Finish ==
  /\ status = "open" /\ pos = Len(entries) + 1
  /\ status' = "done"
  /\ block' =
       IF Collapses(block) THEN [block EXCEPT !.class = "Collapsible"]
       ELSE IF block.class \in {"Quote", "Verse"}
         THEN [block EXCEPT !.attribution =
                 IF Attribute(block, "attribution") # None
                   THEN Attribute(block, "attribution")
                   ELSE Attribute(block, "positional")]
         ELSE block
  /\ UNCHANGED <<strict, entries, pos, wrapped, since>>

\* BlockNode.has_metadata and List.has_metadata, which keep lists apart.
HasMetadata(b) == \/ DOMAIN b.attributes # {} \/ b.title # None
                  \/ b.numeration # None \/ b.start # None \/ b.reversed

Next == \/ Title \/ Role \/ SkipForList \/ Plain \/ Absolute
        \/ Convert \/ Detach \/ Style \/ Finish

Spec == Init /\ [][Next]_vars

-----------------------------------------------------------------------------
\* The types of the state; a level is one of the six that renderers know.
TypeOK ==
  /\ strict \in BOOLEAN /\ pos \in 1 .. Len(entries) + 1 /\ since \in 0 .. pos - 1
  /\ block.class \in Given \cup Converted
  /\ block.title \in Names \cup {None}
  /\ block.absolute \in 1 .. 6 \cup {None}
  /\ block.attribution \in Names \cup {None}
  /\ wrapped # None => wrapped.block.class = "Paragraph" /\ wrapped.at \in 1 .. since
  /\ status \in {"open", "done", "error"}

\* b has what the given entries say of its title, id and roles, and no more:
\* its roles are those of the entries, one after the other.
Keeps(b, given) ==
  LET roles == At(given, "role")
  IN  /\ b.title = LastOf(given, At(given, "title"))
      /\ Attribute(b, "id") = LastOf(given, At(given, "id"))
      /\ IF roles = {} THEN Attribute(b, "role") = None
         ELSE /\ DOMAIN Attribute(b, "role") = 1 .. Cardinality(roles)
              /\ \A i \in roles :
                   Attribute(b, "role")[Cardinality(roles \cap (1 .. i))] = given[i].value

\* Through any order of lines and conversions (attributed_block), the block has
\* the last title and id and every role given since it was made, and a quoted
\* paragraph has those given before the quote was put around it.
EachKeepsItsOwn ==
  /\ Keeps(block, SubSeq(entries, since + 1, pos - 1))
  /\ wrapped # None => Keeps(wrapped.block, SubSeq(entries, 1, wrapped.at - 1))

\* A list that was given anything that counts is one that has_metadata keeps
\* apart from its neighbour, though the loop leaves out of its attributes what
\* _apply_list_attributes has already applied.
Counts(e) == /\ e.key # "positional"
             /\ e.key = "start" => e.value # Invalid
             /\ e.key = "options" => e.value # {}
ListStaysApart ==
  status = "done" /\ block.class = "List" /\ (\E i \in 1 .. Len(entries) : Counts(entries[i]))
    => HasMetadata(block)

\* What is written above a block, below the last style that made another block of
\* it, ends on it, and nothing else does; a list is kept apart by it
\* (lark_parser.py:408-532).  TitleAttached is about what is written higher up.
MetadataKept == EachKeepsItsOwn /\ ListStaysApart

\* CHANGELOG.adoc:79: the .Title line above a block is attached to that block, be
\* it a listing, an admonition or an example.  Or to the paragraph that is in it.
TitleAttached ==
  status = "done" /\ At(entries, "title") # {} =>
    LET title == LastOf(entries, At(entries, "title"))
    IN  \/ block.title = title
        \/ wrapped # None /\ wrapped.block.title = title
=============================================================================
