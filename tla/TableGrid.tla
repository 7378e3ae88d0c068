------------------------------ MODULE TableGrid ------------------------------
(***************************************************************************)
(* The grid in which the cells of a table are grouped into rows: first in  *)
(* the table callback of block_transformer.py, with a number of columns    *)
(* inferred from the text, and again in attributed_block of lark_parser.py *)
(* when the attributes declare another number.  Both loops are the same: a *)
(* cell goes to the first free slot, and the slots it spans are marked.    *)
(***************************************************************************)
EXTENDS Naturals, Sequences

CONSTANT Spanned     \* what marks a slot that a cell spans

Positive == Nat \ {0}

\* line is where the cell was found, 0 when it has no location.
Cell == [line : Nat, colspan : Positive, rowspan : Positive]

VARIABLES
  cells,     \* the cells of the table, as they are written
  cols,      \* num_cols
  height,    \* the number of rows the grid has
  grid,      \* slot -> index of the cell put there, or Spanned
  left       \* the cells still to be put, by their place in what is read

gridVars == <<cells, cols, height, grid, left>>

\* A slot is a row and a column.  Rows are read from left to right, the first
\* row first.
Before(s, t) == \/ s[1] < t[1]
                \/ s[1] = t[1] /\ s[2] < t[2]

First(S, p) == p \in S /\ \A q \in S : q = p \/ Before(p, q)

\* The slots that are None, and those of the row that would be appended.
Free == ((1 .. height + 1) \X (1 .. cols)) \ DOMAIN grid

\* Mutation of Covered: what is over the right edge goes on at the left one.
Covered_Wraps(s, cell) ==
  {<<r, ((c - 1) % cols) + 1>> : r \in s[1] .. s[1] + cell.rowspan - 1,
                                 c \in s[2] .. s[2] + cell.colspan - 1}

\* The slots of a cell at slot s, without what is over the right edge.
Covered(s, cell) ==
  {t \in (s[1] .. s[1] + cell.rowspan - 1) \X (s[2] .. s[2] + cell.colspan - 1) :
     t[2] <= cols}

Without(f, p) == [q \in DOMAIN f \ {p} |-> f[q]]

\* Later slots are overwritten, whatever they hold.
Fill(s, id) ==
  [t \in DOMAIN grid \cup Covered(s, cells[id]) |->
     IF t = s THEN id ELSE IF t \in Covered(s, cells[id]) THEN Spanned ELSE grid[t]]

Start(cs, n) ==
  /\ cells = cs /\ cols = n /\ height = 0 /\ grid = <<>>
  /\ left = [p \in {1} \X (1 .. Len(cs)) |-> p[2]]

\* One round of the loop: the next cell that is read goes to the first free slot.
Place ==
  \E p \in DOMAIN left : \E s \in Free :
    /\ First(DOMAIN left, p) /\ First(Free, s)
    /\ grid' = Fill(s, left[p])
    /\ left' = Without(left, p)
    /\ LET bottom == s[1] + cells[left[p]].rowspan - 1
       IN  height' = IF bottom > height THEN bottom ELSE height
    /\ UNCHANGED <<cells, cols>>

Held == {s \in DOMAIN grid : grid[s] # Spanned}

\* Mutation of Regroup: the inferred number of columns is kept.
Regroup_SameColumns(n) ==
  /\ DOMAIN left = {}
  /\ height' = 0 /\ grid' = <<>>
  /\ left' = [s \in Held |-> grid[s]]
  /\ UNCHANGED <<cells, cols>>

\* The cells of all the rows, one row after the other, are put in a new grid.
Regroup(n) ==
  /\ DOMAIN left = {}
  /\ cols' = n /\ height' = 0 /\ grid' = <<>>
  /\ left' = [s \in Held |-> grid[s]]
  /\ UNCHANGED cells

-----------------------------------------------------------------------------
\* No span wipes out a cell, and the rows, read one after the other, have the
\* cells in the order they are written, after either loop: the later text of a
\* table never comes before the earlier.
InOrder == \A s, t \in Held : grid[s] < grid[t] <=> Before(s, t)
NoneLost == \A i \in 1 .. Len(cells) :
              \/ \E s \in Held : grid[s] = i
              \/ \E p \in DOMAIN left : left[p] = i
CellsInOrder == InOrder /\ NoneLost

\* In a row, a cell begins where the ones before it have ended, so that the
\* row is as wide as the table at most, unless its last cell is over the edge.
RowsFit == \A s, t \in Held :
             s[1] = t[1] /\ s[2] < t[2] => s[2] + cells[grid[s]].colspan <= t[2]
=============================================================================
