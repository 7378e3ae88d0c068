--------------------------- MODULE AttributedBlock ---------------------------
(***************************************************************************)
(* A block with the lines above it, tables included: the callback of the   *)
(* table groups its cells, attributed_block applies the attributes and     *)
(* groups them again if they declare the columns, and visit_table of       *)
(* resolver.py makes the columns of the ASG out of the same attribute.     *)
(*                                                                         *)
(* The value of cols is the sequence of its column specifications.  Widths *)
(* and alignments are left out but for what tells the readings apart.      *)
(***************************************************************************)
EXTENDS BlockMetadata, TableGrid, SequencesExt

CONSTANT Tables   \* the cells of tables, as they are written

VARIABLES
  regrouped,   \* attributed_block has grouped the cells again
  columns      \* how many columns visit_table has made, or None

allVars == <<vars, gridVars, regrouped, columns>>

Total(s) == LET sum[i \in 0 .. Len(s)] == IF i = 0 THEN 0 ELSE sum[i - 1] + s[i]
            IN  sum[Len(s)]

\* Multiplied cells become so many cells, which have no location.
Expanded(raw) ==
  FlattenSeq([i \in 1 .. Len(raw) |->
    [j \in 1 .. raw[i].mult |->
       [line |-> IF raw[i].mult > 1 THEN 0 ELSE raw[i].line,
        colspan |-> raw[i].colspan, rowspan |-> raw[i].rowspan]]])

\* num_cols of the table callback: the cells on the line of the first.
FirstLine(cs) == IF cs = <<>> \/ cs[1].line = 0 THEN 1 ELSE cs[1].line
OnLine(cs, line) == Cardinality({i \in 1 .. Len(cs) : cs[i].line = line})
Inferred(cs) ==
  IF OnLine(cs, FirstLine(cs)) = 0 THEN 1 ELSE OnLine(cs, FirstLine(cs))

ASSUME GridAssumption ==
  /\ Spanned \notin Nat
  /\ \A raw \in Tables : Expanded(raw) \in Seq(Cell)
  /\ <<>> \in Tables

\* num_cols of attributed_block: "n*", else the commas, else a number; 0 for
\* what int() refuses.
Declared(specs) ==
  IF Last(specs).form = "times" THEN IF Len(specs) = 1 THEN specs[1].n ELSE 0
  ELSE IF Len(specs) > 1 THEN Len(specs)
  ELSE IF specs[1].form = "width" THEN specs[1].n ELSE 0

\* parse_cols of columns.py reads the same value in its own way; 0 when there
\* is nothing in it.
Parsed(specs) ==
  Total([i \in 1 .. Len(specs) |->
           IF specs[i].form \in {"times", "timesStyled"} THEN specs[i].n
           ELSE IF specs[i].form = "blank" THEN 0 ELSE 1])

RowWidth(r) ==
  Total([c \in 1 .. cols |-> IF <<r, c>> \in Held THEN cells[grid[<<r, c>>]].colspan ELSE 0])

\* The rows that become TableRow nodes have a cell.
Rows == {s[1] : s \in Held}

AInit ==
  /\ Init
  /\ \E raw \in IF block.class = "Table" THEN Tables ELSE {<<>>} :
       LET cs == Expanded(raw) IN Start(cs, Inferred(cs))
  /\ regrouped = FALSE /\ columns = None

Grouped == DOMAIN left = {}

Group == Place /\ UNCHANGED <<vars, regrouped, columns>>

\* After the last attribute, before anything else that ends the handler.
DeclaresColumns ==
  /\ status = "open" /\ pos = Len(entries) + 1 /\ ~regrouped
  /\ block.class = "Table" /\ "cols" \in DOMAIN block.attributes
  /\ Declared(block.attributes["cols"]) \in Positive

GroupAgain == /\ Grouped /\ DeclaresColumns
              /\ Regroup(Declared(block.attributes["cols"]))
              /\ regrouped' = TRUE
              /\ UNCHANGED <<vars, columns>>

Apply == /\ Grouped /\ ~DeclaresColumns
         /\ Next
         /\ UNCHANGED <<gridVars, regrouped, columns>>

\* What the attribute says, or else the widest row.
ColumnsOf(attributes) ==
  IF "cols" \in DOMAIN attributes /\ Parsed(attributes["cols"]) > 0
    THEN Parsed(attributes["cols"])
    ELSE Largest({RowWidth(r) : r \in Rows} \cup {0})

\* visit_table of the resolver, which has the finished block.
ResolveColumns ==
  /\ status = "done" /\ block.class = "Table" /\ columns = None
  /\ columns' = ColumnsOf(block.attributes)
  /\ UNCHANGED <<vars, gridVars, regrouped>>

ANext == Group \/ GroupAgain \/ Apply \/ ResolveColumns

ASpec == AInit /\ [][ANext]_allVars

-----------------------------------------------------------------------------
\* When both readings of cols agree, or there is none, the rows fit into the
\* columns of the ASG, whatever the lines of the text suggested at first;
\* unless a cell spans over the edge.
ColumnsHoldRows ==
  /\ columns # None
  /\ "cols" \in DOMAIN block.attributes =>
       Declared(block.attributes["cols"]) = Parsed(block.attributes["cols"])
  /\ \A s \in Held : s[2] + cells[grid[s]].colspan - 1 <= cols
  => \A r \in Rows : RowWidth(r) <= columns

\* Rows are as wide as the grid laid them, and the columns of the ASG hold them
\* (lark_parser.py:583-660, resolver.py:476-497).
ColumnsFit == RowsFit /\ ColumnsHoldRows
=============================================================================
