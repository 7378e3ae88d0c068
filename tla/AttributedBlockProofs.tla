------------------------ MODULE AttributedBlockProofs ---------------------------
(***************************************************************************)
(* For every block and every sequence of lines above it: what is written   *)
(* there ends on the block.  For every table, whatever its spans and its   *)
(* number of columns: grouping the cells, and grouping them again, loses   *)
(* none and keeps their order, and the columns of the ASG hold the rows.   *)
(* The grid comes first, then the block, then the two together.            *)
(***************************************************************************)
EXTENDS AttributedBlock, SequenceTheorems, FiniteSetTheorems,
        WellFoundedInduction, TLAPS

\* The grid by itself: any cells, any numbers of columns, grouped any number
\* of times.
GridInit == \E cs \in Seq(Cell), n \in Positive : Start(cs, n)
GridNext == Place \/ \E n \in Positive : Regroup(n)
GridSpec == GridInit /\ [][GridNext]_gridVars

Slot == Positive \X Positive
Ids  == 1 .. Len(cells)

\* Types: both the grid and what is left are partial functions of slots.
GridTypeOK ==
  /\ cells \in Seq(Cell) /\ cols \in Positive /\ height \in Nat
  /\ DOMAIN grid \subseteq Slot /\ DOMAIN left \subseteq Slot
  /\ \A s \in DOMAIN grid : grid[s] \in Ids \cup {Spanned}
  /\ \A p \in DOMAIN left : left[p] \in Ids
  /\ \A s \in DOMAIN grid : s[1] <= height

\* What is left is in order, and comes after all that is in the grid.
LeftInOrder ==
  /\ \A p, q \in DOMAIN left : Before(p, q) => left[p] < left[q]
  /\ \A s \in Held, p \in DOMAIN left : grid[s] < left[p]

\* No slot is free before a slot that holds a cell.
Filled == \A s \in Held : /\ s[2] <= cols
                          /\ \A t \in Slot : t[2] <= cols /\ Before(t, s) => t \in DOMAIN grid

HeldInOrder == \A s, t \in Held : Before(s, t) => grid[s] < grid[t]

\* What a cell covers of the grid is taken.
Reach == \A s \in Held : Covered(s, cells[grid[s]]) \subseteq DOMAIN grid

GridInv == /\ GridTypeOK /\ LeftInOrder /\ Filled /\ HeldInOrder /\ NoneLost
           /\ Reach /\ RowsFit

\* Slots are read one before the other.
LEMMA BeforeTotal ==
  /\ \A s, t \in Slot : s = t \/ Before(s, t) \/ Before(t, s)
  /\ \A s, t \in Slot : ~(Before(s, t) /\ Before(t, s)) /\ ~Before(s, s)
  /\ \A s, t, u \in Slot : Before(s, t) /\ Before(t, u) => Before(s, u)
BY DEF Slot, Positive, Before

\* Cells that are in order one way are so both ways.
LEMMA OrderBothWays == Spanned \notin Nat /\ GridInv => CellsInOrder
<1> SUFFICES ASSUME Spanned \notin Nat, GridInv PROVE InOrder /\ NoneLost
  BY DEF CellsInOrder
<1>1. ASSUME NEW s \in Held, NEW t \in Held PROVE grid[s] < grid[t] <=> Before(s, t)
  <2>1. s \in Slot /\ t \in Slot BY DEF GridInv, GridTypeOK, Held
  <2>2. grid[s] \in Nat /\ grid[t] \in Nat
    BY DEF GridInv, GridTypeOK, Held, Ids
  <2>3. Before(s, t) => grid[s] < grid[t] BY DEF GridInv, HeldInOrder
  <2>4. Before(t, s) => grid[t] < grid[s] BY DEF GridInv, HeldInOrder
  <2>5. s = t \/ Before(s, t) \/ Before(t, s) BY <2>1, BeforeTotal
  <2>6. ~Before(s, s) BY <2>1, BeforeTotal
  <2> QED BY <2>2, <2>3, <2>4, <2>5, <2>6
<1> QED BY <1>1 DEF InOrder, GridInv

LEMMA InitInv == Spanned \notin Nat /\ GridInit => GridInv
<1> SUFFICES ASSUME Spanned \notin Nat, NEW cs \in Seq(Cell), NEW n \in Positive, Start(cs, n)
             PROVE GridInv
  BY DEF GridInit
<1> USE DEF Start
<1>1. DOMAIN grid = {} /\ Held = {} BY DEF Held
<1>2. DOMAIN left = {1} \X (1 .. Len(cells)) OBVIOUS
<1>3. ASSUME NEW p \in DOMAIN left PROVE p[1] = 1 /\ p[2] \in Ids /\ left[p] = p[2] /\ p \in Slot
  BY <1>2 DEF Ids, Slot, Positive
<1>4. GridTypeOK BY <1>1, <1>3 DEF GridTypeOK, Positive
<1>5. LeftInOrder BY <1>1, <1>3 DEF LeftInOrder, Before
<1>6. Filled /\ HeldInOrder BY <1>1 DEF Filled, HeldInOrder
<1>7. ASSUME NEW i \in 1 .. Len(cells) PROVE \E p \in DOMAIN left : left[p] = i
  <2>1. <<1, i>> \in DOMAIN left BY <1>2
  <2> QED BY <2>1, <1>3
<1>8. Reach /\ RowsFit BY <1>1 DEF Reach, RowsFit
<1> QED BY <1>4, <1>5, <1>6, <1>7, <1>8 DEF GridInv, NoneLost

\* The slots of a cell that goes to slot s, and what is known of s.
LEMMA PlaceFacts ==
  ASSUME Spanned \notin Nat, GridInv,
         NEW p \in DOMAIN left, NEW s \in Free, First(Free, s), First(DOMAIN left, p),
         grid' = Fill(s, left[p]), left' = Without(left, p), UNCHANGED <<cells, cols>>
  PROVE  /\ s \in Slot /\ s[2] <= cols /\ s \notin DOMAIN grid
         /\ \A h \in Held : Before(h, s)
         /\ \A t \in Slot : t[2] <= cols /\ Before(t, s) => t \in DOMAIN grid
         /\ DOMAIN grid' \subseteq Slot /\ DOMAIN grid \subseteq DOMAIN grid'
         /\ Held' = Held \cup {s}
         /\ \A h \in Held : grid'[h] = grid[h]
         /\ grid'[s] = left[p]
         /\ \A u \in DOMAIN grid' : u \in DOMAIN grid \/ u[1] <= s[1] + cells[left[p]].rowspan - 1
<1> DEFINE id   == left[p]
           C    == Covered(s, cells[id])
           down == s[1] + cells[id].rowspan - 1
<1>0. /\ cols \in Positive /\ height \in Nat /\ id \in Ids /\ id \in Nat
      /\ DOMAIN grid \subseteq Slot
  BY DEF GridInv, GridTypeOK, Ids
<1>1. cells[id].rowspan \in Positive /\ cells[id].colspan \in Positive
  <2>1. \A i \in 1 .. Len(cells) : cells[i] \in Cell BY DEF GridInv, GridTypeOK
  <2>2. cells[id] \in Cell BY <1>0, <2>1 DEF Ids
  <2> QED BY <2>2 DEF Cell
<1>2. s \in Slot /\ s[2] <= cols /\ s \notin DOMAIN grid /\ s[1] <= height + 1
  BY <1>0 DEF Free, Slot, Positive
<1>3. ASSUME NEW h \in Held PROVE Before(h, s)
  <2>1. h \in Slot /\ h \in DOMAIN grid BY <1>0 DEF Held
  <2>2. h # s BY <1>2, <2>1
  <2>3. ~Before(s, h) BY <1>2 DEF GridInv, Filled
  <2> QED BY <1>2, <2>1, <2>2, <2>3, BeforeTotal
<1>4. ASSUME NEW t \in Slot, t[2] <= cols, Before(t, s) PROVE t \in DOMAIN grid
  <2>1. t[1] <= height + 1 BY <1>0, <1>2, <1>4 DEF Slot, Positive, Before
  <2>2. t \in (1 .. height + 1) \X (1 .. cols) BY <1>0, <1>4, <2>1 DEF Slot, Positive
  <2>3. ~(t = s \/ Before(s, t)) BY <1>2, <1>4, BeforeTotal
  <2> QED BY <2>2, <2>3 DEF Free, First
<1>5. ASSUME NEW u \in C PROVE u \in Slot /\ (u = s \/ Before(s, u)) /\ u[1] <= down
  <2>1. u \in (s[1] .. down) \X (s[2] .. s[2] + cells[id].colspan - 1)
    BY DEF Covered
  <2>2. u[1] \in s[1] .. down /\ u[2] \in Nat /\ u[2] >= s[2] /\ u = <<u[1], u[2]>>
    BY <2>1, <1>1, <1>2 DEF Slot, Positive
  <2>3. u \in Slot /\ u[1] <= down BY <2>2, <1>1, <1>2 DEF Slot, Positive
  <2>4. u = s \/ Before(s, u)
    BY <2>2, <1>1, <1>2 DEF Slot, Positive, Before
  <2> QED BY <2>3, <2>4
<1>6. s \in C BY <1>1, <1>2 DEF Covered, Slot, Positive
<1>7. DOMAIN grid' = DOMAIN grid \cup C BY DEF Fill
<1>8. ASSUME NEW t \in DOMAIN grid'
      PROVE grid'[t] = IF t = s THEN id ELSE IF t \in C THEN Spanned ELSE grid[t]
  BY <1>7, <1>8 DEF Fill
<1>9. Held' = {t \in DOMAIN grid' : grid'[t] # Spanned} BY DEF Held
<1>10. ASSUME NEW h \in Held PROVE h \in DOMAIN grid /\ h \notin C /\ h # s
  <2>1. h \in DOMAIN grid /\ h \in Slot BY <1>0 DEF Held
  <2>2. h # s /\ ~Before(s, h) BY <1>2, <1>3, <2>1, BeforeTotal
  <2> QED BY <2>1, <2>2, <1>5
<1>11. \A h \in Held : grid'[h] = grid[h] BY <1>7, <1>8, <1>10
<1>12. grid'[s] = id /\ s \in Held' BY <1>0, <1>6, <1>7, <1>8, <1>9
<1>13. Held' = Held \cup {s}
  <2>1. ASSUME NEW h \in Held PROVE h \in Held'
    BY <1>7, <1>9, <1>10, <1>11 DEF Held
  <2>2. ASSUME NEW t \in Held', t # s PROVE t \in Held
    <3>1. t \in DOMAIN grid' /\ grid'[t] # Spanned BY <1>9
    <3>2. t \notin C /\ grid'[t] = grid[t] BY <1>8, <2>2, <3>1
    <3> QED BY <1>7, <3>1, <3>2 DEF Held
  <2> QED BY <2>1, <2>2, <1>12
<1>14. DOMAIN grid' \subseteq Slot BY <1>0, <1>5, <1>7
<1>15. \A u \in DOMAIN grid' : u \in DOMAIN grid \/ u[1] <= down BY <1>5, <1>7
<1> QED BY <1>2, <1>3, <1>4, <1>7, <1>11, <1>12, <1>13, <1>14, <1>15

\* A cell is put where none of those before it in its row reaches.
LEMMA PlaceFits ==
  ASSUME Spanned \notin Nat, GridInv,
         NEW p \in DOMAIN left, NEW s \in Free, First(Free, s), First(DOMAIN left, p),
         grid' = Fill(s, left[p]), left' = Without(left, p), UNCHANGED <<cells, cols>>
  PROVE  Reach' /\ RowsFit'
<1>1. /\ s \in Slot /\ s[2] <= cols /\ s \notin DOMAIN grid
      /\ \A h \in Held : Before(h, s)
      /\ DOMAIN grid \subseteq DOMAIN grid'
      /\ Held' = Held \cup {s}
      /\ \A h \in Held : grid'[h] = grid[h]
      /\ grid'[s] = left[p]
  BY PlaceFacts
<1>2. Covered(s, cells[left[p]]) \subseteq DOMAIN grid'
  BY DEF Fill
<1>3. \A h \in Held : /\ h \in Slot /\ h \in DOMAIN grid
                      /\ cells[grid[h]].colspan \in Positive /\ cells[grid[h]].rowspan \in Positive
  <2> SUFFICES ASSUME NEW h \in Held
               PROVE /\ h \in Slot /\ h \in DOMAIN grid
                     /\ cells[grid[h]].colspan \in Positive /\ cells[grid[h]].rowspan \in Positive
    OBVIOUS
  <2>1. h \in DOMAIN grid /\ h \in Slot /\ grid[h] \in Ids
    BY DEF Held, GridInv, GridTypeOK
  <2>2. cells \in Seq(Cell) BY DEF GridInv, GridTypeOK
  <2>3. cells[grid[h]] \in Cell BY <2>1, <2>2 DEF Ids
  <2> QED BY <2>1, <2>3 DEF Cell
<1>4. Reach'
  <2>1. ASSUME NEW h \in Held' PROVE Covered(h, cells[grid'[h]]) \subseteq DOMAIN grid'
    <3>1. CASE h = s BY <1>1, <1>2, <3>1
    <3>2. CASE h \in Held
      <4>1. Covered(h, cells[grid[h]]) \subseteq DOMAIN grid BY <3>2 DEF GridInv, Reach
      <4> QED BY <1>1, <3>2, <4>1
    <3> QED BY <1>1, <3>1, <3>2
  <2> QED BY <2>1 DEF Reach, Covered
<1>5. ASSUME NEW h \in Held, h[1] = s[1], h[2] < s[2]
      PROVE  h[2] + cells[grid[h]].colspan <= s[2]
  <2>1. s \notin Covered(h, cells[grid[h]]) BY <1>1 DEF GridInv, Reach
  <2>2. /\ h[1] \in Nat /\ h[2] \in Nat /\ s[1] \in Nat /\ s[2] \in Nat /\ s = <<s[1], s[2]>>
    BY <1>1, <1>3 DEF Slot, Positive
  <2>3. PICK w \in Positive : w = cells[grid[h]].colspan BY <1>3
  <2>4. PICK d \in Positive : d = cells[grid[h]].rowspan BY <1>3
  <2>5. s \notin (h[1] .. h[1] + d - 1) \X (h[2] .. h[2] + w - 1)
    BY <1>1, <2>1, <2>3, <2>4 DEF Covered
  <2>6. s[1] \in h[1] .. h[1] + d - 1 BY <1>5, <2>2 DEF Positive
  <2>7. s[2] \notin h[2] .. h[2] + w - 1 BY <2>2, <2>5, <2>6
  <2> QED BY <1>5, <2>2, <2>3, <2>7 DEF Positive
<1>6. RowsFit'
  <2>1. ASSUME NEW h \in Held', NEW t \in Held', h[1] = t[1], h[2] < t[2]
        PROVE  h[2] + cells[grid'[h]].colspan <= t[2]
    <3>1. h \in Slot /\ t \in Slot BY <1>1, <1>3
    <3>2. CASE h \in Held /\ t \in Held
      BY <1>1, <2>1, <3>2 DEF GridInv, RowsFit
    <3>3. CASE h \in Held /\ t = s BY <1>1, <1>5, <2>1, <3>3
    <3>4. CASE h = s
      <4>1. t # s BY <2>1, <3>1, <3>4 DEF Slot, Positive
      <4>2. Before(t, s) BY <1>1, <4>1
      <4> QED BY <2>1, <3>1, <3>4, <4>2 DEF Before, Slot, Positive
    <3> QED BY <1>1, <3>2, <3>3, <3>4
  <2> QED BY <2>1 DEF RowsFit
<1> QED BY <1>4, <1>6

LEMMA PlaceInv == Spanned \notin Nat /\ GridInv /\ Place => GridInv'
<1> SUFFICES ASSUME Spanned \notin Nat, GridInv,
                    NEW p \in DOMAIN left, NEW s \in Free,
                    First(DOMAIN left, p), First(Free, s),
                    grid' = Fill(s, left[p]), left' = Without(left, p),
                    height' = IF s[1] + cells[left[p]].rowspan - 1 > height
                                THEN s[1] + cells[left[p]].rowspan - 1 ELSE height,
                    UNCHANGED <<cells, cols>>
             PROVE GridInv'
  BY DEF Place
<1> DEFINE id   == left[p]
           down == s[1] + cells[id].rowspan - 1
<1>1. /\ s \in Slot /\ s[2] <= cols /\ s \notin DOMAIN grid
      /\ \A h \in Held : Before(h, s)
      /\ \A t \in Slot : t[2] <= cols /\ Before(t, s) => t \in DOMAIN grid
      /\ DOMAIN grid' \subseteq Slot /\ DOMAIN grid \subseteq DOMAIN grid'
      /\ Held' = Held \cup {s}
      /\ \A h \in Held : grid'[h] = grid[h]
      /\ grid'[s] = id
      /\ \A u \in DOMAIN grid' : u \in DOMAIN grid \/ u[1] <= down
  BY PlaceFacts
<1>2. DOMAIN left' = DOMAIN left \ {p} /\ \A q \in DOMAIN left' : left'[q] = left[q]
  BY DEF Without
<1>3. /\ cells' = cells /\ cols' = cols /\ Ids' = Ids
      /\ id \in Ids /\ Ids \subseteq Nat
      /\ DOMAIN left \subseteq Slot /\ \A q \in DOMAIN left : left[q] \in Ids
  BY DEF GridInv, GridTypeOK, Ids
<1>4. down \in Nat
  <2>1. \A i \in 1 .. Len(cells) : cells[i] \in Cell BY DEF GridInv, GridTypeOK
  <2>2. cells[id] \in Cell BY <1>3, <2>1 DEF Ids
  <2>3. cells[id].rowspan \in Positive BY <2>2 DEF Cell
  <2> QED BY <1>1, <2>3 DEF Slot, Positive
<1>5. GridTypeOK'
  <2>1. height' \in Nat /\ height <= height' /\ down <= height'
    BY <1>4 DEF GridInv, GridTypeOK
  <2>2. \A u \in DOMAIN grid' : u[1] <= height'
    <3>1. ASSUME NEW u \in DOMAIN grid' PROVE u[1] <= height'
      <4>1. u[1] \in Nat BY <1>1 DEF Slot, Positive
      <4>2. CASE u \in DOMAIN grid
        <5>1. u[1] <= height BY <4>2 DEF GridInv, GridTypeOK
        <5> QED BY <4>1, <5>1, <2>1 DEF GridInv, GridTypeOK
      <4>3. CASE u[1] <= down BY <4>1, <4>3, <1>4, <2>1
      <4> QED BY <4>2, <4>3, <1>1
    <3> QED BY <3>1
  <2>3. \A u \in DOMAIN grid' : grid'[u] \in Ids \cup {Spanned}
    <3>1. ASSUME NEW u \in DOMAIN grid', grid'[u] # Spanned PROVE grid'[u] \in Ids
      <4>1. u \in Held' BY <3>1 DEF Held
      <4>2. CASE u = s BY <4>2, <1>1, <1>3
      <4>3. CASE u \in Held
        <5>1. grid[u] \in Ids BY <4>3 DEF Held, GridInv, GridTypeOK
        <5> QED BY <5>1, <4>3, <1>1
      <4> QED BY <4>1, <4>2, <4>3, <1>1
    <3> QED BY <3>1
  <2>4. cells' \in Seq(Cell) /\ cols' \in Positive BY <1>3 DEF GridInv, GridTypeOK
  <2>5. DOMAIN left' \subseteq Slot /\ \A q \in DOMAIN left' : left'[q] \in Ids
    BY <1>2, <1>3
  <2> QED BY <1>1, <1>3, <2>1, <2>2, <2>3, <2>4, <2>5 DEF GridTypeOK
<1>6. LeftInOrder'
  <2>1. ASSUME NEW q \in DOMAIN left', NEW r \in DOMAIN left', Before(q, r)
        PROVE left'[q] < left'[r]
    BY <1>2, <2>1 DEF GridInv, LeftInOrder
  <2>2. ASSUME NEW h \in Held', NEW q \in DOMAIN left' PROVE grid'[h] < left'[q]
    <3>1. q \in DOMAIN left /\ q # p /\ left'[q] = left[q] BY <1>2
    <3>2. CASE h = s
      <4>1. Before(p, q) BY <3>1 DEF First
      <4>2. id < left[q] BY <3>1, <4>1 DEF GridInv, LeftInOrder
      <4> QED BY <3>1, <3>2, <4>2, <1>1
    <3>3. CASE h \in Held
      <4>1. grid[h] < left[q] BY <3>1, <3>3 DEF GridInv, LeftInOrder
      <4> QED BY <3>1, <3>3, <4>1, <1>1
    <3> QED BY <3>2, <3>3, <1>1
  <2>3. \A q, r \in DOMAIN left' : Before(q, r)' = Before(q, r) BY DEF Before
  <2> QED BY <2>1, <2>2 DEF LeftInOrder, Before
<1>7. Filled'
  <2>1. ASSUME NEW h \in Held' PROVE h[2] <= cols
    BY <1>1 DEF GridInv, Filled
  <2>2. ASSUME NEW h \in Held', NEW t \in Slot, t[2] <= cols, Before(t, h)
        PROVE t \in DOMAIN grid'
    <3>1. CASE h = s BY <2>2, <3>1, <1>1
    <3>2. CASE h \in Held BY <2>2, <3>2, <1>1 DEF GridInv, Filled
    <3> QED BY <3>1, <3>2, <1>1
  <2> QED BY <2>1, <2>2, <1>3 DEF Filled, Before
<1>8. HeldInOrder'
  <2>1. ASSUME NEW h \in Held', NEW t \in Held', Before(h, t) PROVE grid'[h] < grid'[t]
    <3>1. h \in Slot /\ t \in Slot BY <1>1 DEF Held
    <3>2. CASE h \in Held /\ t \in Held
      BY <3>2, <2>1, <1>1 DEF GridInv, HeldInOrder
    <3>3. CASE h \in Held /\ t = s
      <4>1. grid[h] < id BY <3>3 DEF GridInv, LeftInOrder
      <4> QED BY <4>1, <3>3, <1>1
    <3>4. CASE h = s
      <4>1. ~Before(s, s) /\ \A u \in Held : ~Before(s, u)
        <5>1. ~Before(s, s) BY <1>1, BeforeTotal
        <5>2. ASSUME NEW u \in Held PROVE ~Before(s, u)
          <6>1. u \in Slot /\ Before(u, s) BY <1>1 DEF Held, GridInv, GridTypeOK
          <6> QED BY <6>1, <1>1, BeforeTotal
        <5> QED BY <5>1, <5>2
      <4> QED BY <4>1, <3>4, <2>1, <1>1
    <3> QED BY <3>2, <3>3, <3>4, <1>1
  <2> QED BY <2>1 DEF HeldInOrder, Before
<1>9. NoneLost'
  <2>1. ASSUME NEW i \in 1 .. Len(cells)
        PROVE (\E h \in Held' : grid'[h] = i) \/ (\E q \in DOMAIN left' : left'[q] = i)
    <3>1. CASE \E h \in Held : grid[h] = i BY <3>1, <1>1
    <3>2. CASE \E q \in DOMAIN left : left[q] = i
      <4>1. PICK q \in DOMAIN left : left[q] = i BY <3>2
      <4>2. CASE q = p BY <4>1, <4>2, <1>1
      <4>3. CASE q # p BY <4>1, <4>3, <1>2
      <4> QED BY <4>2, <4>3
    <3> QED BY <3>1, <3>2 DEF GridInv, NoneLost
  <2> QED BY <2>1, <1>3 DEF NoneLost
<1>10. Reach' /\ RowsFit' BY PlaceFits
<1> QED BY <1>5, <1>6, <1>7, <1>8, <1>9, <1>10 DEF GridInv

LEMMA RegroupInv ==
  ASSUME Spanned \notin Nat, GridInv, NEW n \in Positive, Regroup(n)
  PROVE  GridInv'
<1> USE DEF Regroup
<1>1. DOMAIN grid' = {} /\ Held' = {} BY DEF Held
<1>2. DOMAIN left' = Held /\ (\A s \in Held : left'[s] = grid[s]) /\ Ids' = Ids
  BY DEF Ids
<1>3. \A s \in Held : s \in Slot /\ grid[s] \in Ids
  BY DEF Held, GridInv, GridTypeOK
<1>4. GridTypeOK' BY <1>1, <1>2, <1>3 DEF GridInv, GridTypeOK
<1>5. LeftInOrder'
  <2>1. \A s, t \in DOMAIN left' : Before(s, t) => left'[s] < left'[t]
    BY <1>2 DEF GridInv, HeldInOrder
  <2> QED BY <1>1, <2>1 DEF LeftInOrder, Before
<1>6. Filled' /\ HeldInOrder' BY <1>1 DEF Filled, HeldInOrder
<1>7. NoneLost' BY <1>2 DEF GridInv, NoneLost
<1>8. Reach' /\ RowsFit' BY <1>1 DEF Reach, RowsFit
<1> QED BY <1>4, <1>5, <1>6, <1>7, <1>8 DEF GridInv

LEMMA GridInvariant ==
  ASSUME Spanned \notin Nat PROVE GridSpec => []GridInv
<1>1. GridInv /\ [GridNext]_gridVars => GridInv'
  <2>1. ASSUME GridInv, UNCHANGED gridVars PROVE GridInv'
    <3> USE <2>1 DEF gridVars
    <3>1. Held' = Held /\ Ids' = Ids BY DEF Held, Ids
    <3>2. GridTypeOK' BY <3>1 DEF GridInv, GridTypeOK
    <3>3. LeftInOrder' /\ Filled' /\ HeldInOrder'
      BY <3>1 DEF GridInv, LeftInOrder, Filled, HeldInOrder, Before
    <3>4. NoneLost' BY <3>1 DEF GridInv, NoneLost
    <3>5. Reach' /\ RowsFit' BY <3>1 DEF GridInv, Reach, RowsFit, Covered
    <3> QED BY <3>2, <3>3, <3>4, <3>5 DEF GridInv
  <2> QED BY <2>1, PlaceInv, RegroupInv DEF GridNext
<1>2. GridInit => GridInv BY InitInv
<1> QED BY <1>1, <1>2, PTL DEF GridSpec

\* Whatever the cells of a table span, and whatever numbers of columns it is
\* grouped with (table and attributed_block), none is lost and the rows have
\* them in the order they are written.
THEOREM GridKeepsOrder ==
  ASSUME Spanned \notin Nat PROVE GridSpec => []CellsInOrder
<1>1. GridInv => CellsInOrder BY OrderBothWays
<1> QED BY <1>1, GridInvariant, PTL

LEMMA InferredType == \A cs \in Seq(Cell) : Inferred(cs) \in Positive
<1>1. ASSUME NEW cs \in Seq(Cell), NEW line PROVE OnLine(cs, line) \in Nat
  <2>1. IsFiniteSet(1 .. Len(cs)) BY FS_Interval
  <2>2. IsFiniteSet({i \in 1 .. Len(cs) : cs[i].line = line}) BY <2>1, FS_Subset
  <2> QED BY <2>2, FS_CardinalityType DEF OnLine
<1> QED BY <1>1 DEF Inferred, Positive

-----------------------------------------------------------------------------
(* How wide a row is                                                        *)

\* A set of numbers has a least one.
LEMMA Least ==
  ASSUME NEW S \in SUBSET Nat, S # {}
  PROVE  \E n \in S : \A m \in S : n <= m
<1> DEFINE R == OpToRel(<, Nat)
<1>1. \A m, n \in Nat : m < n => <<m, n>> \in R
  BY DEF OpToRel
<1>2. IsWellFoundedOn(R, Nat)
  BY NatLessThanWellFounded
<1> HIDE DEF R
<1>3. PICK n \in S : \A m \in S : ~ (<<m, n>> \in R)
  BY <1>2, WFMin
<1>4. \A m \in S : ~ (m < n)
  BY <1>1, <1>3
<1> QED BY <1>3, <1>4

\* A property of numbers that 0 has, and each from the one before it, is one
\* that all of the first n have.
LEMMA Upwards ==
  ASSUME NEW n \in Nat, NEW Good, 0 \in Good,
         \A i \in 1 .. n : i - 1 \in Good => i \in Good
  PROVE  0 .. n \subseteq Good
<1> DEFINE Bad == {i \in 0 .. n : i \notin Good}
<1> SUFFICES ASSUME Bad # {} PROVE FALSE
  OBVIOUS
<1>1. Bad \in SUBSET Nat
  OBVIOUS
<1>2. PICK m \in Bad : \A i \in Bad : m <= i
  <2> HIDE DEF Bad
  <2> QED BY <1>1, Least
<1>3. m \in 1 .. n /\ m \notin Good
  BY <1>2
<1>4. m - 1 \in 0 .. n /\ ~ (m <= m - 1)
  BY <1>3
<1>5. m - 1 \notin Bad
  BY <1>2, <1>4
<1> QED BY <1>3, <1>4, <1>5

\* The sums of the first i numbers of s.
Summed(f, s) == f = [i \in 0 .. Len(s) |-> IF i = 0 THEN 0 ELSE f[i - 1] + s[i]]

\* There are such sums, and Total is the last of them.
LEMMA TotalSums ==
  ASSUME NEW s, Len(s) \in Nat
  PROVE  \E f : Summed(f, s) /\ Total(s) = f[Len(s)]
<1> DEFINE n == Len(s)
           To(m) == \E f : f = [i \in 0 .. m |-> IF i = 0 THEN 0 ELSE f[i - 1] + s[i]]
           Good == {m \in 0 .. n : To(m)}
<1>1. To(0)
  <2>1. [i \in 0 .. 0 |-> 0] = [i \in 0 .. 0 |-> IF i = 0 THEN 0 ELSE [j \in 0 .. 0 |-> 0][i - 1] + s[i]]
    OBVIOUS
  <2> QED BY <2>1
<1>2. ASSUME NEW m \in 1 .. n, To(m - 1) PROVE To(m)
  <2>1. PICK f : f = [i \in 0 .. m - 1 |-> IF i = 0 THEN 0 ELSE f[i - 1] + s[i]]
    BY <1>2
  <2> PICK h : h = [i \in 0 .. m |-> IF i = m THEN f[m - 1] + s[m] ELSE f[i]]
    OBVIOUS
  <2>2. \A i \in 0 .. m - 1 : h[i] = f[i]
    OBVIOUS
  <2>3. \A i \in 0 .. m : h[i] = IF i = 0 THEN 0 ELSE h[i - 1] + s[i]
    <3> SUFFICES ASSUME NEW i \in 0 .. m PROVE h[i] = IF i = 0 THEN 0 ELSE h[i - 1] + s[i]
      OBVIOUS
    <3>1. i # 0 => i - 1 \in 0 .. m - 1
      OBVIOUS
    <3>2. CASE i = m
      BY <2>2, <3>1, <3>2
    <3>3. CASE i # m
      <4>1. i \in 0 .. m - 1
        BY <3>3
      <4>2. h[i] = f[i] /\ f[i] = IF i = 0 THEN 0 ELSE f[i - 1] + s[i]
        BY <2>1, <2>2, <4>1
      <4>3. i # 0 => h[i - 1] = f[i - 1]
        BY <2>2, <3>1
      <4> QED BY <4>2, <4>3
    <3> QED BY <3>2, <3>3
  <2>4. h = [i \in 0 .. m |-> h[i]]
    OBVIOUS
  <2>5. h = [i \in 0 .. m |-> IF i = 0 THEN 0 ELSE h[i - 1] + s[i]]
    BY <2>3, <2>4, Zenon
  <2> QED BY <2>5
<1>3. 0 .. n \subseteq Good
  <2>1. 0 \in Good
    BY <1>1
  <2>2. \A m \in 1 .. n : m - 1 \in Good => m \in Good
    BY <1>2
  <2> HIDE DEF Good
  <2> QED BY <2>1, <2>2, Upwards
<1>4. To(n)
  <2>1. n \in 0 .. n
    OBVIOUS
  <2> QED BY <1>3, <2>1
<1> DEFINE sum == CHOOSE f : f = [i \in 0 .. Len(s) |-> IF i = 0 THEN 0 ELSE f[i - 1] + s[i]]
<1>5. sum = [i \in 0 .. Len(s) |-> IF i = 0 THEN 0 ELSE sum[i - 1] + s[i]]
  BY <1>4
<1>6. Total(s) = sum[Len(s)]
  BY DEF Total
<1> QED BY <1>5, <1>6 DEF Summed

\* Sums of numbers are numbers.
LEMMA TotalType ==
  ASSUME NEW s, Len(s) \in Nat, \A i \in 1 .. Len(s) : s[i] \in Nat
  PROVE  Total(s) \in Nat
<1>1. PICK f : Summed(f, s) /\ Total(s) = f[Len(s)]
  BY TotalSums
<1> DEFINE Good == {i \in 0 .. Len(s) : f[i] \in Nat}
<1>2. 0 \in Good
  BY <1>1 DEF Summed
<1>3. \A i \in 1 .. Len(s) : i - 1 \in Good => i \in Good
  <2> SUFFICES ASSUME NEW i \in 1 .. Len(s), i - 1 \in Good PROVE i \in Good
    OBVIOUS
  <2>1. f[i] = f[i - 1] + s[i]
    BY <1>1 DEF Summed
  <2>2. f[i - 1] \in Nat /\ s[i] \in Nat
    OBVIOUS
  <2> QED BY <2>1, <2>2
<1>4. 0 .. Len(s) \subseteq Good
  <2> HIDE DEF Good
  <2> QED BY <1>2, <1>3, Upwards
<1>5. Len(s) \in 0 .. Len(s)
  OBVIOUS
<1> QED BY <1>1, <1>4, <1>5

LEMMA EndsBefore ==
  ASSUME NEW a \in Nat, NEW b \in Nat, NEW i \in Nat, NEW n \in Nat, a < i, i + b - 1 <= n
  PROVE  /\ a + b \in Nat /\ a + b <= n
         /\ \A d \in Nat : i + b <= d => a + b < d
OBVIOUS

\* What lies side by side on n places is not wider than n.
LEMMA SideBySide ==
  ASSUME NEW n \in Nat, NEW w \in [1 .. n -> Nat],
         \A c \in 1 .. n : c + w[c] - 1 <= n,
         \A c, d \in 1 .. n : c < d /\ w[d] # 0 => c + w[c] <= d
  PROVE  Total(w) \in Nat /\ Total(w) <= n
<1>0. Len(w) = n
  OBVIOUS
<1>1. PICK f : Summed(f, w) /\ Total(w) = f[Len(w)]
  BY <1>0, TotalSums
<1>2. /\ f[0] = 0
      /\ \A i \in 1 .. n : f[i] = f[i - 1] + w[i]
  BY <1>0, <1>1 DEF Summed
<1> DEFINE Good == {i \in 0 .. n : /\ f[i] \in Nat /\ f[i] <= n
                                   /\ \A d \in 1 .. n : i < d /\ w[d] # 0 => f[i] < d}
<1>3. 0 \in Good
  BY <1>2
<1>4. ASSUME NEW i \in 1 .. n, i - 1 \in Good PROVE i \in Good
  <2>1. /\ f[i - 1] \in Nat /\ f[i - 1] <= n /\ f[i] = f[i - 1] + w[i] /\ w[i] \in Nat
        /\ i + w[i] - 1 <= n
    BY <1>2, <1>4
  <2>2. \A d \in 1 .. n : i - 1 < d /\ w[d] # 0 => f[i - 1] < d
    BY <1>4
  <2>3. CASE w[i] = 0
    <3>1. f[i] = f[i - 1]
      BY <2>1, <2>3
    <3>2. \A d \in 1 .. n : i < d => i - 1 < d
      OBVIOUS
    <3>3. \A d \in 1 .. n : i < d /\ w[d] # 0 => f[i] < d
      BY <2>2, <3>1, <3>2
    <3>4. f[i] \in Nat /\ f[i] <= n
      BY <2>1, <3>1
    <3> QED BY <3>3, <3>4
  <2>4. CASE w[i] # 0
    <3>1. f[i - 1] < i
      BY <2>2, <2>4
    <3> PICK a \in Nat, b \in Nat : a = f[i - 1] /\ b = w[i]
      BY <2>1
    <3>2. f[i] = a + b /\ a < i /\ i + b - 1 <= n /\ i \in Nat
      BY <2>1, <3>1
    <3>3. /\ a + b \in Nat /\ a + b <= n
          /\ \A d \in Nat : i + b <= d => a + b < d
      BY <3>2, EndsBefore, Zenon
    <3>4. \A d \in 1 .. n : i < d /\ w[d] # 0 => f[i] < d
      <4> SUFFICES ASSUME NEW d \in 1 .. n, i < d, w[d] # 0 PROVE f[i] < d
        OBVIOUS
      <4>1. i + b <= d
        OBVIOUS
      <4>2. d \in Nat
        OBVIOUS
      <4> QED BY <3>2, <3>3, <4>1, <4>2, Zenon
    <3>5. f[i] \in Nat /\ f[i] <= n
      BY <3>2, <3>3, Zenon
    <3> QED BY <3>4, <3>5
  <2> QED BY <2>3, <2>4
<1>5. 0 .. n \subseteq Good
  <2> HIDE DEF Good
  <2> QED BY <1>3, <1>4, Upwards
<1>6. n \in 0 .. n
  OBVIOUS
<1> QED BY <1>0, <1>1, <1>5, <1>6

LEMMA HeldCells ==
  ASSUME Spanned \notin Nat, GridInv, NEW s \in Held
  PROVE  s \in Slot /\ s[2] \in 1 .. cols /\ cells[grid[s]].colspan \in Positive
<1>1. s \in Slot /\ grid[s] \in Ids
  BY DEF Held, GridInv, GridTypeOK
<1>2. cells \in Seq(Cell) /\ cols \in Positive
  BY DEF GridInv, GridTypeOK
<1>3. cells[grid[s]] \in Cell
  BY <1>1, <1>2 DEF Ids
<1>4. s[2] <= cols
  BY DEF GridInv, Filled
<1>5. cells[grid[s]].colspan \in Positive
  BY <1>3 DEF Cell
<1>6. s[2] \in 1 .. cols
  BY <1>1, <1>2, <1>4 DEF Slot, Positive
<1> QED BY <1>1, <1>5, <1>6

\* A row has a width, and it is no wider than the grid unless a cell of it is
\* over the edge.
LEMMA RowWithin ==
  ASSUME Spanned \notin Nat, GridInv, NEW r
  PROVE  /\ RowWidth(r) \in Nat
         /\ (\A s \in Held : s[2] + cells[grid[s]].colspan - 1 <= cols) => RowWidth(r) <= cols
<1> PICK w : w = [c \in 1 .. cols |-> IF <<r, c>> \in Held THEN cells[grid[<<r, c>>]].colspan ELSE 0]
  OBVIOUS
<1>1. RowWidth(r) = Total(w)
  BY DEF RowWidth
<1>2. cols \in Nat
  BY DEF GridInv, GridTypeOK, Positive
<1>3. \A c \in 1 .. cols : <<r, c>> \in Held =>
         w[c] = cells[grid[<<r, c>>]].colspan /\ w[c] \in Positive
  BY HeldCells
<1>4. \A c \in 1 .. cols : <<r, c>> \notin Held => w[c] = 0
  OBVIOUS
<1>5. w \in [1 .. cols -> Nat]
  BY <1>3 DEF Positive
<1>6. RowWidth(r) \in Nat
  <2>1. Len(w) = cols
    BY <1>2, <1>5
  <2> QED BY <1>1, <1>2, <1>5, <2>1, TotalType
<1>7. ASSUME \A s \in Held : s[2] + cells[grid[s]].colspan - 1 <= cols
      PROVE  RowWidth(r) <= cols
  <2>1. ASSUME NEW c \in 1 .. cols PROVE c + w[c] - 1 <= cols
    <3>1. CASE <<r, c>> \in Held
      <4>1. <<r, c>>[2] + cells[grid[<<r, c>>]].colspan - 1 <= cols
        BY <1>7, <3>1
      <4> QED BY <1>3, <3>1, <4>1
    <3>2. CASE <<r, c>> \notin Held
      BY <1>2, <1>4, <3>2
    <3> QED BY <3>1, <3>2
  <2>2. ASSUME NEW c \in 1 .. cols, NEW d \in 1 .. cols, c < d, w[d] # 0
        PROVE  c + w[c] <= d
    <3>1. <<r, d>> \in Held
      BY <1>4, <2>2
    <3>2. CASE <<r, c>> \in Held
      <4>1. <<r, c>>[1] = <<r, d>>[1] /\ <<r, c>>[2] < <<r, d>>[2]
        BY <2>2
      <4>2. <<r, c>>[2] + cells[grid[<<r, c>>]].colspan <= <<r, d>>[2]
        BY <3>1, <3>2, <4>1 DEF GridInv, RowsFit
      <4> QED BY <1>3, <3>2, <4>2
    <3>3. CASE <<r, c>> \notin Held
      BY <1>2, <1>4, <2>2, <3>3
    <3> QED BY <3>2, <3>3
  <2> HIDE DEF RowWidth
  <2> QED BY <1>1, <1>2, <1>5, <2>1, <2>2, SideBySide
<1> QED BY <1>6, <1>7

-----------------------------------------------------------------------------
(* What is written above a block                                            *)

\* A set of numbers up to n has a greatest one.
LEMMA Greatest ==
  ASSUME NEW n \in Nat, NEW S \in SUBSET (0 .. n), S # {}
  PROVE  Largest(S) \in S /\ \A m \in S : m <= Largest(S)
<1> DEFINE Above == {k \in Nat : \A m \in S : m <= k}
<1>1. n \in Above
  OBVIOUS
<1>2. PICK k \in Above : \A j \in Above : k <= j
  <2>1. Above \in SUBSET Nat /\ Above # {}
    BY <1>1
  <2> HIDE DEF Above
  <2> QED BY <2>1, Least
<1>3. \A m \in S : m <= k /\ m \in Nat
  BY <1>2
<1>4. k \in S
  <2> SUFFICES ASSUME k \notin S PROVE FALSE
    OBVIOUS
  <2>1. PICK m \in S : TRUE
    OBVIOUS
  <2>2. k # 0
    BY <1>3, <2>1
  <2>3. k - 1 \in Nat /\ ~ (k <= k - 1)
    BY <1>2, <2>2
  <2>4. \A i \in S : i <= k - 1
    BY <1>2, <1>3
  <2> QED BY <1>2, <2>3, <2>4
<1> QED BY <1>3, <1>4 DEF Largest

\* It is the only one.
LEMMA LargestIs ==
  ASSUME NEW S \in SUBSET Nat, NEW m \in S, \A n \in S : n <= m
  PROVE  Largest(S) = m
<1>1. \A k \in S : (\A n \in S : n <= k) => k = m
  OBVIOUS
<1> QED BY <1>1 DEF Largest

\* The places of a key when there is one more entry.
LEMMA AtAppend ==
  ASSUME NEW es \in Seq(Entry), NEW e \in Entry, NEW key
  PROVE  /\ At(es, key) \subseteq 1 .. Len(es)
         /\ At(Append(es, e), key) =
              IF e.key = key THEN At(es, key) \cup {Len(es) + 1} ELSE At(es, key)
         /\ \A i \in 1 .. Len(es) : Append(es, e)[i] = es[i]
         /\ Append(es, e)[Len(es) + 1] = e
         /\ Len(es) \in Nat
<1>1. /\ Len(Append(es, e)) = Len(es) + 1 /\ Len(es) \in Nat
      /\ \A i \in 1 .. Len(es) : Append(es, e)[i] = es[i]
      /\ Append(es, e)[Len(es) + 1] = e
  OBVIOUS
<1>2. 1 .. Len(es) + 1 = (1 .. Len(es)) \cup {Len(es) + 1}
  BY <1>1
<1> QED BY <1>1, <1>2 DEF At

\* What the last entry of a key says when there is one more.
LEMMA LastAppend ==
  ASSUME NEW es \in Seq(Entry), NEW e \in Entry, NEW key
  PROVE  LastOf(Append(es, e), At(Append(es, e), key)) =
           IF e.key = key THEN e.value ELSE LastOf(es, At(es, key))
<1> DEFINE S == At(es, key)
           more == Append(es, e)
           n == Len(es)
<1>1. /\ S \subseteq 1 .. n /\ n \in Nat
      /\ At(more, key) = IF e.key = key THEN S \cup {n + 1} ELSE S
      /\ \A i \in 1 .. n : more[i] = es[i]
      /\ more[n + 1] = e
  BY AtAppend
<1> HIDE DEF S, more, n
<1>2. CASE e.key = key
  <2>1. Largest(S \cup {n + 1}) = n + 1
    <3>1. S \cup {n + 1} \in SUBSET Nat /\ n + 1 \in S \cup {n + 1}
      BY <1>1
    <3>2. \A m \in S \cup {n + 1} : m <= n + 1
      BY <1>1
    <3> QED BY <3>1, <3>2, LargestIs
  <2> QED BY <1>1, <1>2, <2>1 DEF LastOf, S, more
<1>3. CASE e.key # key /\ S # {}
  <2>1. Largest(S) \in S
    <3>1. S \in SUBSET (0 .. n)
      BY <1>1
    <3> QED BY <1>1, <1>3, <3>1, Greatest
  <2>2. more[Largest(S)] = es[Largest(S)]
    BY <1>1, <2>1
  <2> QED BY <1>1, <1>3, <2>2 DEF LastOf, S, more
<1>4. CASE e.key # key /\ S = {}
  BY <1>1, <1>4 DEF LastOf, S, more
<1> QED BY <1>2, <1>3, <1>4

\* The values an entry can have.
LEMMA EntryValues ==
  ASSUME NEW e \in Entry
  PROVE  /\ e.key \in {"title", "id", "role", "attribution"} => e.value \in Names
         /\ e.key = "style" => e.value \in Styles
         /\ e.key = "options" => e.value \subseteq {"collapsible", "reversed", "header"}
         /\ e.key \in {"start", "level"} => e.value \in Int \cup {Invalid}
         /\ e.key = "positional" => e.value \in Names \cup {None}
         /\ e.key = "cols" => e.value \in Seq(ColSpec) \ {<<>>}
         /\ e.key \in {"title", "id", "role", "attribution", "style", "options", "start",
                       "level", "reversed", "positional", "cols"}
<1>1. CASE e \in [key : {"title", "id", "role", "attribution"}, value : Names]
  BY <1>1
<1>2. CASE e \in [key : {"style"}, value : Styles]
  BY <1>2
<1>3. CASE e \in [key : {"options"}, value : SUBSET {"collapsible", "reversed", "header"}]
  BY <1>3
<1>4. CASE e \in [key : {"start", "level"}, value : Int \cup {Invalid}]
  BY <1>4
<1>5. CASE e \in [key : {"reversed"}, value : {""}]
  BY <1>5
<1>6. CASE e \in [key : {"positional"}, value : Names \cup {None}]
  BY <1>6
<1>7. CASE e \in [key : {"cols"}, value : Seq(ColSpec) \ {<<>>}]
  BY <1>7
<1> QED BY <1>1, <1>2, <1>3, <1>4, <1>5, <1>6, <1>7 DEF Entry

\* The title, id and roles of b are those that es gives.
Tells(b, es) == /\ Keeps(b, es)
                /\ "role" \in DOMAIN b.attributes <=> At(es, "role") # {}
                /\ "role" \in DOMAIN b.attributes => b.attributes["role"] \in Seq(Names)

\* It stays so when an entry is applied that b shows in the way of its key.
LEMMA TellsMore ==
  ASSUME NEW es \in Seq(Entry), NEW e \in Entry, NEW b, NEW c, Tells(b, es),
         c.title = IF e.key = "title" THEN e.value ELSE b.title,
         Attribute(c, "id") = IF e.key = "id" THEN e.value ELSE Attribute(b, "id"),
         "role" \in DOMAIN c.attributes <=> e.key = "role" \/ "role" \in DOMAIN b.attributes,
         e.key # "role" /\ "role" \in DOMAIN b.attributes
           => c.attributes["role"] = b.attributes["role"],
         e.key = "role" => c.attributes["role"] =
           IF "role" \in DOMAIN b.attributes THEN Append(b.attributes["role"], e.value)
                                             ELSE <<e.value>>
  PROVE  Tells(c, Append(es, e))
<1> DEFINE more == Append(es, e)
           S == At(es, "role")
           n == Len(es)
<1>1. c.title = LastOf(more, At(more, "title"))
  BY LastAppend DEF Tells, Keeps
<1>2. Attribute(c, "id") = LastOf(more, At(more, "id"))
  BY LastAppend DEF Tells, Keeps
<1>3. /\ S \subseteq 1 .. n /\ n \in Nat
      /\ At(more, "role") = IF e.key = "role" THEN S \cup {n + 1} ELSE S
      /\ \A i \in 1 .. n : more[i] = es[i]
      /\ more[n + 1] = e
  BY AtAppend
<1>4. /\ "role" \in DOMAIN b.attributes <=> S # {}
      /\ S # {} => /\ b.attributes["role"] \in Seq(Names)
                   /\ DOMAIN b.attributes["role"] = 1 .. Cardinality(S)
                   /\ \A i \in S : b.attributes["role"][Cardinality(S \cap (1 .. i))] = es[i].value
  BY DEF Tells, Keeps, Attribute
<1>5. IsFiniteSet(S)
  <2>1. IsFiniteSet(1 .. n)
    BY <1>3, FS_Interval
  <2> QED BY <1>3, <2>1, FS_Subset
<1> HIDE DEF more, S, n
<1>6. CASE e.key # "role"
  <2>1. At(more, "role") = S /\ \A i \in S : more[i] = es[i]
    BY <1>3, <1>6
  <2>2. "role" \in DOMAIN c.attributes <=> S # {}
    BY <1>4, <1>6
  <2>3. S # {} => c.attributes["role"] = b.attributes["role"]
    BY <1>4, <1>6
  <2>4. S # {} => /\ c.attributes["role"] \in Seq(Names)
                  /\ DOMAIN c.attributes["role"] = 1 .. Cardinality(S)
                  /\ \A i \in S : c.attributes["role"][Cardinality(S \cap (1 .. i))] = more[i].value
    BY <1>4, <2>1, <2>3
  <2>5. IF S = {} THEN Attribute(c, "role") = None
        ELSE /\ DOMAIN Attribute(c, "role") = 1 .. Cardinality(S)
             /\ \A i \in S : Attribute(c, "role")[Cardinality(S \cap (1 .. i))] = more[i].value
    BY <2>2, <2>4 DEF Attribute
  <2>6. Keeps(c, more)
    BY <1>1, <1>2, <2>1, <2>5, Zenon DEF Keeps
  <2> QED BY <2>1, <2>2, <2>4, <2>6, Zenon DEF Tells, more
<1>7. CASE e.key = "role"
  <2>1. At(more, "role") = S \cup {n + 1} /\ n + 1 \notin S
    BY <1>3, <1>7
  <2>2. Cardinality(S \cup {n + 1}) = Cardinality(S) + 1 /\ Cardinality(S) \in Nat
    BY <1>5, <2>1, FS_AddElement, FS_CardinalityType
  <2>3. "role" \in DOMAIN c.attributes
    BY <1>7
  <2> PICK roles : roles = c.attributes["role"]
    OBVIOUS
  <2>4. e.value \in Names
    BY <1>7, EntryValues
  <2>5. \A i \in S : /\ (S \cup {n + 1}) \cap (1 .. i) = S \cap (1 .. i)
                     /\ Cardinality(S \cap (1 .. i)) \in 1 .. Cardinality(S)
    <3> SUFFICES ASSUME NEW i \in S
                 PROVE /\ (S \cup {n + 1}) \cap (1 .. i) = S \cap (1 .. i)
                       /\ Cardinality(S \cap (1 .. i)) \in 1 .. Cardinality(S)
      OBVIOUS
    <3>1. (S \cup {n + 1}) \cap (1 .. i) = S \cap (1 .. i)
      BY <1>3
    <3>2. i \in S \cap (1 .. i)
      BY <1>3
    <3>3. /\ IsFiniteSet(S \cap (1 .. i))
          /\ Cardinality(S \cap (1 .. i)) <= Cardinality(S)
      BY <1>5, FS_Subset
    <3>4. Cardinality(S \cap (1 .. i)) \in Nat /\ Cardinality(S \cap (1 .. i)) # 0
      BY <3>2, <3>3, FS_CardinalityType, FS_EmptySet
    <3> QED BY <2>2, <3>1, <3>3, <3>4
  <2>6. (S \cup {n + 1}) \cap (1 .. n + 1) = S \cup {n + 1}
    <3>1. \A i \in 1 .. n : i \in 1 .. n + 1
      BY <1>3
    <3>2. n + 1 \in 1 .. n + 1
      BY <1>3
    <3> QED BY <1>3, <3>1, <3>2
  <2>7. /\ roles \in Seq(Names) /\ DOMAIN roles = 1 .. Cardinality(S) + 1
        /\ roles[Cardinality(S) + 1] = e.value
        /\ \A i \in S : roles[Cardinality(S \cap (1 .. i))] = es[i].value
    <3>1. CASE S = {}
      <4>1. roles = <<e.value>>
        BY <1>4, <1>7, <3>1
      <4>2. Cardinality(S) = 0
        BY <3>1, FS_EmptySet
      <4> QED BY <2>4, <3>1, <4>1, <4>2
    <3>2. CASE S # {}
      <4> PICK old : old = b.attributes["role"]
        OBVIOUS
      <4>1. /\ old \in Seq(Names) /\ DOMAIN old = 1 .. Cardinality(S)
            /\ \A i \in S : old[Cardinality(S \cap (1 .. i))] = es[i].value
        BY <1>4, <3>2
      <4>2. roles = Append(old, e.value)
        BY <1>4, <1>7, <3>2
      <4>3. Len(old) = Cardinality(S)
        BY <2>2, <4>1
      <4>4. /\ roles \in Seq(Names) /\ DOMAIN roles = 1 .. Cardinality(S) + 1
            /\ roles[Cardinality(S) + 1] = e.value
            /\ \A k \in 1 .. Cardinality(S) : roles[k] = old[k]
        BY <2>2, <2>4, <4>1, <4>2, <4>3
      <4> QED BY <2>5, <4>1, <4>4
    <3> QED BY <3>1, <3>2
  <2> DEFINE T == S \cup {n + 1}
  <2>8. \A i \in T : roles[Cardinality(T \cap (1 .. i))] = more[i].value
    <3>1. ASSUME NEW i \in S PROVE roles[Cardinality(T \cap (1 .. i))] = more[i].value
      <4>1. T \cap (1 .. i) = S \cap (1 .. i) /\ more[i] = es[i]
        BY <1>3, <2>5
      <4> QED BY <2>7, <4>1
    <3>2. roles[Cardinality(T \cap (1 .. n + 1))] = more[n + 1].value
      BY <1>3, <2>2, <2>6, <2>7
    <3> QED BY <3>1, <3>2
  <2>9. DOMAIN roles = 1 .. Cardinality(T) /\ T # {}
    BY <2>2, <2>7
  <2> HIDE DEF T
  <2>10. Attribute(c, "role") = roles
    BY <2>3 DEF Attribute
  <2>11. At(more, "role") = T
    BY <2>1 DEF T
  <2>12. Keeps(c, more)
    BY <1>1, <1>2, <2>8, <2>9, <2>10, <2>11, Zenon DEF Keeps
  <2> QED BY <2>3, <2>7, <2>9, <2>11, <2>12, Zenon DEF Tells, more
<1> QED BY <1>6, <1>7

\* The fields of a block; what the values of some of its attributes can be.
Fields == {"class", "title", "attributes", "absolute", "heading", "start", "numeration",
           "reversed", "attribution"}
AttributeTypeOK ==
  /\ "id" \in DOMAIN block.attributes => block.attributes["id"] \in Names
  /\ "attribution" \in DOMAIN block.attributes => block.attributes["attribution"] \in Names
  /\ "positional" \in DOMAIN block.attributes =>
       block.attributes["positional"] \in Names \cup {None}
  /\ "cols" \in DOMAIN block.attributes =>
       block.attributes["cols"] \in Seq(ColSpec) \ {<<>>}
BlockTypeOK == /\ entries \in Seq(Entry) /\ DOMAIN block = Fields
               /\ AttributeTypeOK /\ TypeOK

\* The entries that have been applied to the block as it is now.
Window == SubSeq(entries, since + 1, pos - 1)

\* No style makes a paragraph, a list or a table; and a quoted paragraph has
\* what it was given.
WrappedTells == wrapped # None => Tells(wrapped.block, SubSeq(entries, 1, wrapped.at - 1))
AsGiven == block.class \in {"Paragraph", "List", "Table"} => since = 0

\* What _apply_list_attributes has put on a list stays, and what the loop has
\* applied to it shows.
Reversing(es) == \/ At(es, "reversed") # {}
                 \/ \E i \in At(es, "style") : es[i].value = "reversed"
                 \/ \E i \in At(es, "options") : "reversed" \in es[i].value
Shows(b, e) ==
  /\ e.key = "title" => b.title # None
  /\ e.key \in {"role", "id", "attribution", "level", "cols"} => e.key \in DOMAIN b.attributes
  /\ e.key = "style" /\ e.value \notin ListStyles => "style" \in DOMAIN b.attributes
  /\ e.key = "options" /\ ~(e.value \subseteq {"reversed"}) => "options" \in DOMAIN b.attributes
ListShows ==
  block.class = "List" =>
    /\ block.start = LastOf(entries, {i \in At(entries, "start") : entries[i].value # Invalid})
    /\ block.numeration = LastOf(entries, {i \in At(entries, "style") : entries[i].value = "arabic"})
    /\ block.reversed = Reversing(entries)
    /\ \A i \in 1 .. pos - 1 : Shows(block, entries[i])

BlockInv == /\ BlockTypeOK /\ Tells(block, Window) /\ WrappedTells /\ AsGiven /\ ListShows
            /\ status = "done" => pos = Len(entries) + 1

\* The elements of a sequence after the first m up to the n-th.
LEMMA Stretch ==
  ASSUME NEW S, NEW s \in Seq(S), NEW n \in 0 .. Len(s), NEW m \in 0 .. n
  PROVE  /\ SubSeq(s, m + 1, n) \in Seq(S) /\ Len(SubSeq(s, m + 1, n)) = n - m
         /\ \A i \in 1 .. n - m : SubSeq(s, m + 1, n)[i] = s[m + i]
<1>1. m + 1 \in Int /\ n \in Int /\ \A i \in m + 1 .. n : s[i] \in S
  OBVIOUS
<1> PICK t : t = SubSeq(s, m + 1, n)
  OBVIOUS
<1>2. /\ t \in Seq(S)
      /\ Len(t) = IF m + 1 <= n THEN n - (m + 1) + 1 ELSE 0
      /\ \A i \in 1 .. n - (m + 1) + 1 : t[i] = s[(m + 1) + i - 1]
  BY <1>1, SubSeqProperties
<1>3. n - (m + 1) + 1 = n - m /\ \A i \in 1 .. n - m : (m + 1) + i - 1 = m + i
  OBVIOUS
<1> QED BY <1>2, <1>3

\* The entry to be applied, and the entries applied when it has been.
LEMMA EntryFacts ==
  ASSUME BlockInv, status = "open", pos <= Len(entries)
  PROVE  /\ entries[pos] \in Entry /\ Window \in Seq(Entry)
         /\ SubSeq(entries, since + 1, pos) = Append(Window, entries[pos])
         /\ pos \in 1 .. Len(entries) /\ Len(entries) \in Nat
<1>1. /\ entries \in Seq(Entry) /\ pos \in 1 .. Len(entries) /\ since \in 0 .. pos - 1
      /\ Len(entries) \in Nat
  BY DEF BlockInv, BlockTypeOK, TypeOK
<1> PICK n : n = Len(entries)
  OBVIOUS
<1> PICK es : es = entries
  OBVIOUS
<1>2. es \in Seq(Entry) /\ Len(es) = n /\ n \in Nat /\ pos \in 1 .. n /\ since \in 0 .. pos - 1
  BY <1>1
<1>3. /\ SubSeq(es, since + 1, pos - 1) \in Seq(Entry)
      /\ Len(SubSeq(es, since + 1, pos - 1)) = pos - 1 - since
      /\ \A i \in 1 .. pos - 1 - since : SubSeq(es, since + 1, pos - 1)[i] = es[since + i]
  <2>1. pos - 1 \in 0 .. Len(es)
    BY <1>2
  <2> QED BY <1>2, <2>1, Stretch
<1>4. /\ SubSeq(es, since + 1, pos) \in Seq(Entry)
      /\ Len(SubSeq(es, since + 1, pos)) = pos - since
      /\ \A i \in 1 .. pos - since : SubSeq(es, since + 1, pos)[i] = es[since + i]
  <2>1. pos \in 0 .. Len(es) /\ since \in 0 .. pos
    BY <1>2
  <2> QED BY <1>2, <2>1, Stretch
<1> PICK w : w = SubSeq(es, since + 1, pos - 1)
  OBVIOUS
<1> PICK more : more = SubSeq(es, since + 1, pos)
  OBVIOUS
<1>5. /\ w \in Seq(Entry) /\ Len(w) = pos - 1 - since /\ more \in Seq(Entry)
      /\ Len(more) = pos - since
      /\ \A i \in 1 .. pos - 1 - since : w[i] = es[since + i]
      /\ \A i \in 1 .. pos - since : more[i] = es[since + i]
  BY <1>3, <1>4
<1>6. more = Append(w, es[pos])
  <2>1. es[pos] \in Entry
    BY <1>2
  <2>2. Append(w, es[pos]) \in Seq(Entry) /\ Len(Append(w, es[pos])) = pos - since
    BY <1>2, <1>5, <2>1
  <2>3. ASSUME NEW i \in 1 .. pos - since PROVE more[i] = Append(w, es[pos])[i]
    <3>1. CASE i = pos - since
      BY <1>2, <1>5, <3>1
    <3>2. CASE i # pos - since
      <4>1. i \in 1 .. Len(w)
        BY <1>2, <1>5, <3>2
      <4> QED BY <1>5, <4>1
    <3> QED BY <3>1, <3>2
  <2> QED BY <1>5, <2>2, <2>3, SeqEqual
<1>7. es[pos] \in Entry
  BY <1>2
<1> QED BY <1>1, <1>5, <1>6, <1>7 DEF Window

LEMMA WindowNext ==
  ASSUME pos \in Nat, pos' = pos + 1, entries' = entries, since' = since
  PROVE  Window' = SubSeq(entries, since + 1, pos)
<1>1. pos' - 1 = pos
  OBVIOUS
<1> QED BY <1>1 DEF Window

\* What is left of the invariant when an entry has been applied to the block.
LEMMA OneMore ==
  ASSUME BlockInv, status = "open", pos <= Len(entries), pos' = pos + 1,
         UNCHANGED <<entries, wrapped, since>>, status' # "done",
         NEW e, e = entries[pos],
         block'.title = IF e.key = "title" THEN e.value ELSE block.title,
         Attribute(block', "id") = IF e.key = "id" THEN e.value ELSE Attribute(block, "id"),
         "role" \in DOMAIN block'.attributes <=> e.key = "role" \/ "role" \in DOMAIN block.attributes,
         e.key # "role" /\ "role" \in DOMAIN block.attributes
           => block'.attributes["role"] = block.attributes["role"],
         e.key = "role" => block'.attributes["role"] =
           IF "role" \in DOMAIN block.attributes THEN Append(block.attributes["role"], e.value)
                                                 ELSE <<e.value>>,
         DOMAIN block.attributes \subseteq DOMAIN block'.attributes,
         block'.class \in {"Paragraph", "List", "Table"} => block'.class = block.class,
         block'.class = "List" => /\ block'.start = block.start
                                  /\ block'.numeration = block.numeration
                                  /\ block'.reversed = block.reversed
                                  /\ Shows(block', e)
  PROVE  Tells(block, Window)' /\ WrappedTells' /\ AsGiven' /\ ListShows'
<1>1. /\ e \in Entry /\ Window \in Seq(Entry) /\ SubSeq(entries, since + 1, pos) = Append(Window, e)
      /\ pos \in 1 .. Len(entries) /\ Len(entries) \in Nat
  BY EntryFacts
<1>2. Window' = Append(Window, e)
  <2>1. Window' = SubSeq(entries, since + 1, pos)
    BY <1>1, WindowNext
  <2> QED BY <1>1, <2>1
<1>3. Tells(block', Append(Window, e))
  <2> PICK w : w = Window
    OBVIOUS
  <2>1. w \in Seq(Entry) /\ Tells(block, w)
    BY <1>1 DEF BlockInv
  <2>2. Tells(block', Append(w, e))
    BY <1>1, <2>1, TellsMore
  <2> QED BY <2>2
<1>4. Tells(block, Window)'
  <2>1. Tells(block, Window)' <=> Tells(block', Window')
    BY DEF Tells, Keeps, At, LastOf, Attribute
  <2> QED BY <1>2, <1>3, <2>1
<1>5. WrappedTells'
  <2>1. WrappedTells' <=> WrappedTells
    BY DEF WrappedTells, Tells, Keeps, At, LastOf, Attribute
  <2> QED BY <2>1 DEF BlockInv
<1>6. AsGiven'
  BY DEF AsGiven, BlockInv
<1>7. ListShows'
  <2> SUFFICES ASSUME block'.class = "List" PROVE ListShows'
    BY DEF ListShows
  <2>1. block.class = "List"
    OBVIOUS
  <2>2. /\ block.start = LastOf(entries, {i \in At(entries, "start") : entries[i].value # Invalid})
        /\ block.numeration = LastOf(entries, {i \in At(entries, "style") : entries[i].value = "arabic"})
        /\ block.reversed = Reversing(entries)
        /\ \A i \in 1 .. pos - 1 : Shows(block, entries[i])
    BY <2>1 DEF BlockInv, ListShows
  <2>3. block.title # None => block'.title # None
    BY <1>1, EntryValues, InputAssumption
  <2>4. \A d : Shows(block, d) => Shows(block', d)
    BY <2>3 DEF Shows
  <2>5. \A i \in 1 .. pos : Shows(block', entries[i])
    <3> SUFFICES ASSUME NEW i \in 1 .. pos PROVE Shows(block', entries[i])
      OBVIOUS
    <3>1. i = pos \/ i \in 1 .. pos - 1
      BY <1>1
    <3> QED BY <2>2, <2>4, <3>1
  <2>6. pos' - 1 = pos
    BY <1>1
  <2>7. \A i \in 1 .. pos' - 1 : Shows(block, entries[i])'
    <3> SUFFICES ASSUME NEW i \in 1 .. pos' - 1 PROVE Shows(block, entries[i])'
      OBVIOUS
    <3>1. Shows(block', entries[i])
      BY <2>5, <2>6
    <3> QED BY <3>1 DEF Shows
  <2>8. block'.start = LastOf(entries, {i \in At(entries, "start") : entries[i].value # Invalid})'
    BY <2>2 DEF LastOf, At
  <2>9. block'.numeration = LastOf(entries, {i \in At(entries, "style") : entries[i].value = "arabic"})'
    BY <2>2 DEF LastOf, At
  <2>10. block'.reversed = Reversing(entries)'
    BY <2>2 DEF Reversing, At
  <2> QED BY <2>7, <2>8, <2>9, <2>10 DEF ListShows
<1> QED BY <1>4, <1>5, <1>6, <1>7

LEMMA SetFacts ==
  ASSUME NEW key, NEW value, DOMAIN block = Fields, SetAttribute(key, value)
  PROVE  /\ DOMAIN block' = Fields
         /\ block'.class = block.class /\ block'.title = block.title
         /\ block'.absolute = block.absolute /\ block'.start = block.start
         /\ block'.numeration = block.numeration /\ block'.reversed = block.reversed
         /\ block'.attribution = block.attribution
         /\ DOMAIN block'.attributes = DOMAIN block.attributes \cup {key}
         /\ block'.attributes[key] = value
         /\ \A k \in DOMAIN block.attributes : k # key => block'.attributes[k] = block.attributes[k]
         /\ \A k : Attribute(block', k) = IF k = key THEN value ELSE Attribute(block, k)
<1>1. block'.attributes = Put(block.attributes, key, value)
  BY DEF SetAttribute, Fields
<1>2. /\ DOMAIN block'.attributes = DOMAIN block.attributes \cup {key}
      /\ block'.attributes[key] = value
      /\ \A k \in DOMAIN block.attributes : k # key => block'.attributes[k] = block.attributes[k]
  BY <1>1 DEF Put
<1>3. \A k : Attribute(block', k) = IF k = key THEN value ELSE Attribute(block, k)
  BY <1>2 DEF Attribute
<1>4. /\ DOMAIN block' = Fields
      /\ block'.class = block.class /\ block'.title = block.title
      /\ block'.absolute = block.absolute /\ block'.start = block.start
      /\ block'.numeration = block.numeration /\ block'.reversed = block.reversed
      /\ block'.attribution = block.attribution
  BY DEF SetAttribute, Fields
<1> QED BY <1>2, <1>3, <1>4

\* An entry that becomes an attribute of the block.
LEMMA SetInv ==
  ASSUME BlockInv, status = "open", pos <= Len(entries), pos' = pos + 1,
         UNCHANGED <<strict, entries, wrapped, since, status>>,
         NEW e, e = entries[pos], NEW key, NEW value, SetAttribute(key, value),
         e.key # "title", key = e.key,
         key \in {"id", "attribution", "positional", "cols"} => value = e.value,
         key = "role" => value = IF "role" \in DOMAIN block.attributes
                                   THEN Append(block.attributes["role"], e.value) ELSE <<e.value>>
  PROVE  BlockInv'
<1>1. e \in Entry /\ pos \in 1 .. Len(entries) /\ Len(entries) \in Nat
  BY EntryFacts
<1>2. DOMAIN block = Fields
  BY DEF BlockInv, BlockTypeOK
<1>3. /\ DOMAIN block' = Fields
      /\ block'.class = block.class /\ block'.title = block.title
      /\ block'.absolute = block.absolute /\ block'.start = block.start
      /\ block'.numeration = block.numeration /\ block'.reversed = block.reversed
      /\ block'.attribution = block.attribution
      /\ DOMAIN block'.attributes = DOMAIN block.attributes \cup {key}
      /\ block'.attributes[key] = value
      /\ \A k \in DOMAIN block.attributes : k # key => block'.attributes[k] = block.attributes[k]
      /\ \A k : Attribute(block', k) = IF k = key THEN value ELSE Attribute(block, k)
  BY <1>2, SetFacts
<1>4. AttributeTypeOK'
  <2>1. AttributeTypeOK
    BY DEF BlockInv, BlockTypeOK
  <2>2. key = "id" \/ key = "attribution" => value \in Names
    BY <1>1, EntryValues
  <2>3. key = "positional" => value \in Names \cup {None}
    BY <1>1, EntryValues
  <2>4. key = "cols" => value \in Seq(ColSpec) \ {<<>>}
    BY <1>1, EntryValues
  <2> QED BY <1>3, <2>1, <2>2, <2>3, <2>4 DEF AttributeTypeOK
<1>5. TypeOK'
  BY <1>1, <1>3 DEF BlockInv, BlockTypeOK, TypeOK
<1>6. BlockTypeOK'
  BY <1>3, <1>4, <1>5 DEF BlockInv, BlockTypeOK
<1>7. Shows(block', e)
  BY <1>1, <1>3, EntryValues DEF Shows
<1>8. /\ block'.title = IF e.key = "title" THEN e.value ELSE block.title
      /\ Attribute(block', "id") = IF e.key = "id" THEN e.value ELSE Attribute(block, "id")
  BY <1>3
<1>9. /\ "role" \in DOMAIN block'.attributes <=> e.key = "role" \/ "role" \in DOMAIN block.attributes
      /\ e.key # "role" /\ "role" \in DOMAIN block.attributes
           => block'.attributes["role"] = block.attributes["role"]
  BY <1>3
<1>10. e.key = "role" => block'.attributes["role"] =
         IF "role" \in DOMAIN block.attributes THEN Append(block.attributes["role"], e.value)
                                               ELSE <<e.value>>
  BY <1>3
<1>11. DOMAIN block.attributes \subseteq DOMAIN block'.attributes
  BY <1>3
<1>12. /\ block'.class \in {"Paragraph", "List", "Table"} => block'.class = block.class
       /\ block'.class = "List" => /\ block'.start = block.start
                                   /\ block'.numeration = block.numeration
                                   /\ block'.reversed = block.reversed
                                   /\ Shows(block', e)
  BY <1>3, <1>7
<1>13. status' # "done"
  OBVIOUS
<1>14. Tells(block, Window)' /\ WrappedTells' /\ AsGiven' /\ ListShows'
  BY <1>8, <1>9, <1>10, <1>11, <1>12, <1>13, OneMore
<1> QED BY <1>6, <1>14 DEF BlockInv

\* An entry that leaves title and attributes of the block as they are.
LEMMA KeptInv ==
  ASSUME BlockInv, status = "open", pos <= Len(entries), pos' = pos + 1,
         UNCHANGED <<strict, entries, wrapped, since>>, status' \in {"open", "error"},
         NEW e, e = entries[pos], e.key \notin {"title", "id", "role"},
         DOMAIN block' = Fields, block'.title = block.title,
         block'.attributes = block.attributes, block'.attribution = block.attribution,
         block'.absolute \in 1 .. 6 \cup {None},
         block'.class \in Given \cup Converted,
         block'.class \in {"Paragraph", "List", "Table"} => block'.class = block.class,
         block'.class = "List" => block' = block /\ Shows(block, e)
  PROVE  BlockInv'
<1>1. pos \in 1 .. Len(entries) /\ Len(entries) \in Nat
  BY EntryFacts
<1>2. AttributeTypeOK'
  BY DEF BlockInv, BlockTypeOK, AttributeTypeOK
<1>3. TypeOK'
  BY <1>1 DEF BlockInv, BlockTypeOK, TypeOK
<1>4. BlockTypeOK'
  BY <1>2, <1>3 DEF BlockInv, BlockTypeOK
<1>5. Attribute(block', "id") = Attribute(block, "id")
  BY DEF Attribute
<1>6. block'.class = "List" => Shows(block', e)
  OBVIOUS
<1>7. Tells(block, Window)' /\ WrappedTells' /\ AsGiven' /\ ListShows'
  BY <1>5, <1>6, OneMore
<1> QED BY <1>4, <1>7 DEF BlockInv

\* A block that has just been made has nothing, and nothing has been given it.
LEMMA NothingToTell ==
  ASSUME NEW b, b.title = None, b.attributes = <<>>
  PROVE  Tells(b, <<>>)
<1>1. \A key : At(<<>>, key) = {}
  BY DEF At
<1>2. DOMAIN b.attributes = {}
  OBVIOUS
<1>3. LastOf(<<>>, {}) = None
  BY DEF LastOf
<1>4. Keeps(b, <<>>)
  BY <1>1, <1>2, <1>3 DEF Keeps, Attribute
<1> QED BY <1>1, <1>2, <1>4 DEF Tells

LEMMA FreshFacts ==
  ASSUME NEW class
  PROVE  /\ DOMAIN Fresh(class) = Fields /\ Fresh(class).class = class
         /\ Fresh(class).title = None /\ Fresh(class).attributes = <<>>
         /\ Fresh(class).absolute = None /\ Fresh(class).attribution = None
BY DEF Fresh, Fields

LEMMA BlockInit == Init => BlockInv
<1> SUFFICES ASSUME Init PROVE BlockInv
  OBVIOUS
<1>1. PICK input \in Inputs :
        /\ strict \in BOOLEAN /\ entries = input[2] /\ pos = 1
        /\ block = ListAttributes(Fresh(input[1]), input[2])
        /\ wrapped = None /\ since = 0 /\ status = "open"
  BY DEF Init
<1> PICK class, es : class = input[1] /\ es = input[2]
  OBVIOUS
<1>2. class \in Given /\ es \in Seq(Entry) /\ Len(es) \in Nat /\ es = entries
  BY <1>1, InputAssumption
<1>3. block = ListAttributes(Fresh(class), es)
  BY <1>1
<1>4. /\ DOMAIN block = Fields /\ block.class = class /\ block.title = None
      /\ block.attributes = <<>> /\ block.absolute = None /\ block.attribution = None
  BY <1>3, FreshFacts DEF ListAttributes, Fields
<1>5. Window = <<>>
  BY <1>1, <1>2 DEF Window
<1>6. Tells(block, Window)
  BY <1>4, <1>5, NothingToTell
<1>7. AttributeTypeOK
  BY <1>4 DEF AttributeTypeOK
<1>8. TypeOK
  BY <1>1, <1>2, <1>4 DEF TypeOK
<1>9. WrappedTells /\ AsGiven
  BY <1>1 DEF WrappedTells, AsGiven
<1>10. ListShows
  <2> SUFFICES ASSUME block.class = "List" PROVE ListShows
    BY DEF ListShows
  <2>1. /\ block.start = LastOf(es, {i \in At(es, "start") : es[i].value # Invalid})
        /\ block.numeration = LastOf(es, {i \in At(es, "style") : es[i].value = "arabic"})
        /\ block.reversed = Reversing(es)
    <3>1. Fresh(class).class = "List"
      BY <1>4, FreshFacts
    <3> PICK b : b = Fresh(class)
      OBVIOUS
    <3>2. DOMAIN b = Fields
      BY FreshFacts
    <3>3. block = ListAttributes(b, es) /\ b.class = "List"
      BY <1>3, <3>1
    <3> QED BY <3>2, <3>3 DEF ListAttributes, Reversing, Fields
  <2>2. 1 .. pos - 1 = {}
    BY <1>1
  <2> QED BY <1>2, <2>1, <2>2 DEF ListShows
<1> QED BY <1>1, <1>2, <1>4, <1>6, <1>7, <1>8, <1>9, <1>10 DEF BlockInv, BlockTypeOK

LEMMA TitleInv == BlockInv /\ Title => BlockInv'
<1> SUFFICES ASSUME BlockInv, Title PROVE BlockInv'
  OBVIOUS
<1> PICK e : e = entries[pos]
  OBVIOUS
<1>1. /\ status = "open" /\ pos <= Len(entries) /\ e.key = "title" /\ pos' = pos + 1
      /\ block' = [block EXCEPT !.title = e.value, !.heading = FALSE]
      /\ UNCHANGED <<strict, entries, wrapped, since, status>>
  BY DEF Title, Applying, Entered
<1>2. e \in Entry /\ pos \in 1 .. Len(entries) /\ Len(entries) \in Nat
  BY <1>1, EntryFacts
<1>3. DOMAIN block = Fields
  BY DEF BlockInv, BlockTypeOK
<1>4. /\ DOMAIN block' = Fields /\ block'.title = e.value /\ block'.class = block.class
      /\ block'.attributes = block.attributes /\ block'.absolute = block.absolute
      /\ block'.start = block.start /\ block'.numeration = block.numeration
      /\ block'.reversed = block.reversed /\ block'.attribution = block.attribution
  BY <1>1, <1>3 DEF Fields
<1>5. e.value \in Names
  BY <1>1, <1>2, EntryValues
<1>6. AttributeTypeOK'
  BY <1>4 DEF BlockInv, BlockTypeOK, AttributeTypeOK
<1>7. TypeOK'
  BY <1>1, <1>2, <1>4, <1>5 DEF BlockInv, BlockTypeOK, TypeOK
<1>8. BlockTypeOK'
  BY <1>1, <1>4, <1>6, <1>7 DEF BlockInv, BlockTypeOK
<1>9. Shows(block', e)
  BY <1>1, <1>4, <1>5, InputAssumption DEF Shows
<1>10. Attribute(block', "id") = Attribute(block, "id")
  BY <1>4 DEF Attribute
<1>11. Tells(block, Window)' /\ WrappedTells' /\ AsGiven' /\ ListShows'
  BY <1>1, <1>4, <1>9, <1>10, OneMore
<1> QED BY <1>1, <1>8, <1>11 DEF BlockInv

LEMMA RoleInv == BlockInv /\ Role => BlockInv'
<1> SUFFICES ASSUME BlockInv, Role PROVE BlockInv'
  OBVIOUS
<1> PICK e : e = entries[pos]
  OBVIOUS
<1> PICK value : value = IF "role" \in DOMAIN block.attributes
                           THEN Append(block.attributes["role"], e.value) ELSE <<e.value>>
  OBVIOUS
<1>1. /\ status = "open" /\ pos <= Len(entries) /\ e.key = "role" /\ pos' = pos + 1
      /\ SetAttribute("role", value)
      /\ UNCHANGED <<strict, entries, wrapped, since, status>>
  BY DEF Role, Applying, Entered
<1> QED BY <1>1, SetInv

LEMMA PlainInv == BlockInv /\ Plain => BlockInv'
<1> SUFFICES ASSUME BlockInv, Plain PROVE BlockInv'
  OBVIOUS
<1> PICK e : e = entries[pos]
  OBVIOUS
<1> PICK value : value = IF e.key = "options" /\ block.class = "List"
                           THEN e.value \ {"reversed"} ELSE e.value
  OBVIOUS
<1>1. /\ status = "open" /\ pos <= Len(entries) /\ pos' = pos + 1
      /\ e.key \in {"id", "attribution", "options", "start", "reversed", "positional", "cols"}
      /\ SetAttribute(e.key, value)
      /\ UNCHANGED <<strict, entries, wrapped, since, status>>
  BY DEF Plain, Applying, Entered
<1>2. e.key \in {"id", "attribution", "positional", "cols"} => value = e.value
  OBVIOUS
<1> QED BY <1>1, <1>2, SetInv

LEMMA SkipInv == BlockInv /\ SkipForList => BlockInv'
<1> SUFFICES ASSUME BlockInv, SkipForList PROVE BlockInv'
  OBVIOUS
<1> PICK e : e = entries[pos]
  OBVIOUS
<1>1. /\ status = "open" /\ pos <= Len(entries) /\ pos' = pos + 1
      /\ e.key \in {"start", "reversed", "positional", "style", "options"}
      /\ UNCHANGED <<strict, entries, block, wrapped, since, status>>
      /\ \/ e.key \in {"start", "reversed", "positional"}
         \/ e.key = "style" /\ e.value \in ListStyles
         \/ e.key = "options" /\ e.value \subseteq {"reversed"}
  BY DEF SkipForList, ForList, Applying, Entered
<1>2. Shows(block, e)
  BY <1>1 DEF Shows
<1>3. /\ DOMAIN block = Fields /\ block.class \in Given \cup Converted
      /\ block.absolute \in 1 .. 6 \cup {None}
  BY DEF BlockInv, BlockTypeOK, TypeOK
<1> QED BY <1>1, <1>2, <1>3, KeptInv

LEMMA AbsoluteInv == BlockInv /\ Absolute => BlockInv'
<1> SUFFICES ASSUME BlockInv, Absolute PROVE BlockInv'
  OBVIOUS
<1> PICK e : e = entries[pos]
  OBVIOUS
<1>1. /\ status = "open" /\ pos <= Len(entries) /\ pos' = pos + 1 /\ e.key = "level"
      /\ UNCHANGED <<strict, entries, wrapped, since>>
  BY DEF Absolute, Applying, Entered
<1>2. /\ DOMAIN block = Fields /\ block.class \in Given \cup Converted
      /\ block.absolute \in 1 .. 6 \cup {None}
  BY DEF BlockInv, BlockTypeOK, TypeOK
<1>3. CASE block.class \notin {"Section", "DiscreteHeading"}
  <2>1. SetAttribute("level", e.value) /\ UNCHANGED status
    BY <1>3 DEF Absolute, Entered
  <2> QED BY <1>1, <2>1, SetInv
<1>4. CASE block.class \in {"Section", "DiscreteHeading"} /\ strict /\ e.value \notin 1 .. 6
  <2>1. status' = "error" /\ UNCHANGED block
    BY <1>4 DEF Absolute, Entered
  <2> QED BY <1>1, <1>2, <1>4, <2>1, KeptInv
<1>5. CASE block.class \in {"Section", "DiscreteHeading"} /\ ~(strict /\ e.value \notin 1 .. 6)
  <2> PICK level : level = IF e.value = Invalid THEN 1 ELSE Clamp(e.value)
    OBVIOUS
  <2>1. block' = [block EXCEPT !.absolute = level] /\ UNCHANGED status
    BY <1>5 DEF Absolute, Entered
  <2>2. level \in 1 .. 6
    <3>1. e.value \in Int \cup {Invalid}
      BY <1>1, EntryFacts, EntryValues
    <3> QED BY <3>1 DEF Clamp
  <2>3. /\ DOMAIN block' = Fields /\ block'.title = block.title /\ block'.class = block.class
        /\ block'.attributes = block.attributes /\ block'.absolute = level
        /\ block'.attribution = block.attribution
    BY <1>2, <2>1 DEF Fields
  <2> QED BY <1>1, <1>2, <1>5, <2>1, <2>2, <2>3, KeptInv
<1> QED BY <1>3, <1>4, <1>5

LEMMA DetachInv == BlockInv /\ Detach => BlockInv'
<1> SUFFICES ASSUME BlockInv, Detach PROVE BlockInv'
  OBVIOUS
<1> PICK e : e = entries[pos]
  OBVIOUS
<1>1. /\ status = "open" /\ pos <= Len(entries) /\ pos' = pos + 1 /\ e.key = "style"
      /\ block' = [block EXCEPT !.class = "DiscreteHeading"]
      /\ UNCHANGED <<strict, entries, wrapped, since, status>>
  BY DEF Detach, Applying, Entered
<1>2. DOMAIN block = Fields /\ block.absolute \in 1 .. 6 \cup {None}
  BY DEF BlockInv, BlockTypeOK, TypeOK
<1>3. /\ DOMAIN block' = Fields /\ block'.title = block.title
      /\ block'.class = "DiscreteHeading" /\ block'.attributes = block.attributes
      /\ block'.absolute = block.absolute /\ block'.attribution = block.attribution
  BY <1>1, <1>2 DEF Fields
<1>4. "DiscreteHeading" \in Converted
  BY DEF Converted
<1> QED BY <1>1, <1>2, <1>3, <1>4, KeptInv

LEMMA StyleInv == BlockInv /\ Style => BlockInv'
<1> SUFFICES ASSUME BlockInv, Style PROVE BlockInv'
  OBVIOUS
<1> PICK e : e = entries[pos]
  OBVIOUS
<1>1. /\ status = "open" /\ pos <= Len(entries) /\ pos' = pos + 1 /\ e.key = "style"
      /\ SetAttribute("style", e.value)
      /\ UNCHANGED <<strict, entries, wrapped, since, status>>
  BY DEF Style, Applying, Entered
<1> QED BY <1>1, SetInv

\* A new block has been given nothing yet, and a quoted paragraph keeps what it
\* was given.
LEMMA ConvertInv == BlockInv /\ Convert => BlockInv'
<1> SUFFICES ASSUME BlockInv, Convert PROVE BlockInv'
  OBVIOUS
<1>1. PICK c \in Conversions :
        /\ block' = Fresh(c[3])
        /\ wrapped' = IF block.class = "Paragraph" /\ c[3] # "Stem"
                        THEN [block |-> block, at |-> pos] ELSE wrapped
  BY DEF Convert
<1> PICK class : class = c[3]
  OBVIOUS
<1>2. class \in {"Admonition", "Verse", "Quote", "Stem"}
  BY DEF Conversions
<1>3. /\ status = "open" /\ pos <= Len(entries) /\ pos' = pos + 1 /\ since' = pos
      /\ UNCHANGED <<strict, entries, status>>
  BY DEF Convert, Applying
<1>4. pos \in 1 .. Len(entries) /\ Len(entries) \in Nat /\ since \in 0 .. pos - 1
  BY <1>3, EntryFacts DEF BlockInv, BlockTypeOK, TypeOK
<1>5. /\ DOMAIN block' = Fields /\ block'.class = class /\ block'.title = None
      /\ block'.attributes = <<>> /\ block'.absolute = None /\ block'.attribution = None
  BY <1>1, FreshFacts
<1>6. AttributeTypeOK'
  BY <1>5 DEF AttributeTypeOK
<1>7. TypeOK'
  <2>1. class \in Given \cup Converted
    BY <1>2 DEF Given, Converted
  <2>2. pos' \in 1 .. Len(entries') + 1 /\ since' \in 0 .. pos' - 1
    BY <1>3, <1>4
  <2>3. wrapped' # None => wrapped'.block.class = "Paragraph" /\ wrapped'.at \in 1 .. since'
    <3>1. CASE block.class = "Paragraph" /\ c[3] # "Stem"
      <4>1. wrapped' = [block |-> block, at |-> pos]
        BY <1>1, <3>1
      <4> QED BY <1>3, <1>4, <3>1, <4>1
    <3>2. CASE ~(block.class = "Paragraph" /\ c[3] # "Stem")
      <4>1. wrapped' = wrapped
        BY <1>1, <3>2
      <4>2. wrapped # None => wrapped.block.class = "Paragraph" /\ wrapped.at \in 1 .. since
        BY DEF BlockInv, BlockTypeOK, TypeOK
      <4> QED BY <1>3, <1>4, <4>1, <4>2
    <3> QED BY <3>1, <3>2
  <2> QED BY <1>3, <1>5, <2>1, <2>2, <2>3 DEF BlockInv, BlockTypeOK, TypeOK
<1>8. BlockTypeOK'
  BY <1>3, <1>5, <1>6, <1>7 DEF BlockInv, BlockTypeOK
<1>9. Tells(block, Window)'
  <2>1. Window' = <<>>
    <3>1. SubSeq(entries, pos + 1, pos) = <<>>
      BY <1>4 DEF BlockInv, BlockTypeOK
    <3>2. pos' - 1 = pos
      BY <1>3, <1>4
    <3> QED BY <1>3, <3>1, <3>2 DEF Window
  <2>2. Tells(block', <<>>)
    BY <1>5, NothingToTell
  <2>3. Tells(block, Window)' <=> Tells(block', Window')
    BY DEF Tells, Keeps, At, LastOf, Attribute
  <2> QED BY <2>1, <2>2, <2>3
<1>10. WrappedTells'
  <2>1. CASE block.class = "Paragraph" /\ c[3] # "Stem"
    <3>1. wrapped' = [block |-> block, at |-> pos]
      BY <1>1, <2>1
    <3>2. since = 0
      BY <2>1 DEF BlockInv, AsGiven
    <3>3. Tells(block, SubSeq(entries, 1, pos - 1))
      <4>1. Window = SubSeq(entries, 1, pos - 1)
        BY <3>2 DEF Window
      <4> QED BY <4>1 DEF BlockInv
    <3>4. wrapped'.block = block /\ wrapped'.at = pos /\ entries' = entries
      BY <1>3, <3>1
    <3>5. Tells(wrapped.block, SubSeq(entries, 1, wrapped.at - 1))'
            <=> Tells(wrapped'.block, SubSeq(entries', 1, wrapped'.at - 1))
      BY DEF Tells, Keeps, At, LastOf, Attribute
    <3> QED BY <3>3, <3>4, <3>5 DEF WrappedTells
  <2>2. CASE ~(block.class = "Paragraph" /\ c[3] # "Stem")
    <3>1. wrapped' = wrapped
      BY <1>1, <2>2
    <3>2. WrappedTells' <=> WrappedTells
      BY <1>3, <3>1 DEF WrappedTells, Tells, Keeps, At, LastOf, Attribute
    <3> QED BY <3>2 DEF BlockInv
  <2> QED BY <2>1, <2>2
<1>11. AsGiven' /\ ListShows'
  BY <1>2, <1>5 DEF AsGiven, ListShows
<1> QED BY <1>3, <1>8, <1>9, <1>10, <1>11 DEF BlockInv

LEMMA SameList ==
  ASSUME block' = block, entries' = entries, pos' = pos
  PROVE  ListShows' <=> ListShows
BY DEF ListShows, LastOf, At, Reversing, Shows

\* The invariant says nothing of a block but its class, its title and its
\* attributes, and what is special to lists.
LEMMA FinishInv == BlockInv /\ Finish => BlockInv'
<1> SUFFICES ASSUME BlockInv, Finish PROVE BlockInv'
  OBVIOUS
<1>1. /\ status = "open" /\ pos = Len(entries) + 1 /\ status' = "done"
      /\ UNCHANGED <<strict, entries, pos, wrapped, since>>
  BY DEF Finish
<1>2. /\ DOMAIN block = Fields /\ block.attribution \in Names \cup {None}
      /\ block.class \in Given \cup Converted
  BY DEF BlockInv, BlockTypeOK, TypeOK
<1>3. /\ DOMAIN block' = Fields /\ block'.title = block.title
      /\ block'.attributes = block.attributes /\ block'.absolute = block.absolute
      /\ block'.attribution \in Names \cup {None} /\ block'.class \in Given \cup Converted
      /\ block'.class \in {"Paragraph", "List", "Table"} => block' = block
  <2>1. CASE Collapses(block)
    <3>1. block' = [block EXCEPT !.class = "Collapsible"]
      BY <2>1 DEF Finish
    <3> QED BY <1>2, <3>1 DEF Fields, Converted
  <2>2. CASE ~Collapses(block) /\ block.class \in {"Quote", "Verse"}
    <3> PICK a : a = IF Attribute(block, "attribution") # None
                       THEN Attribute(block, "attribution") ELSE Attribute(block, "positional")
      OBVIOUS
    <3>1. block' = [block EXCEPT !.attribution = a]
      BY <2>2 DEF Finish
    <3>2. AttributeTypeOK
      BY DEF BlockInv, BlockTypeOK
    <3>3. /\ Attribute(block, "attribution") \in Names \cup {None}
          /\ Attribute(block, "positional") \in Names \cup {None}
      BY <3>2 DEF AttributeTypeOK, Attribute
    <3>4. a \in Names \cup {None}
      BY <3>3
    <3> QED BY <1>2, <2>2, <3>1, <3>4 DEF Fields
  <2>3. CASE ~Collapses(block) /\ block.class \notin {"Quote", "Verse"}
    <3>1. block' = block
      BY <2>3 DEF Finish
    <3> QED BY <1>2, <3>1
  <2> QED BY <2>1, <2>2, <2>3
<1>4. AttributeTypeOK'
  BY <1>3 DEF BlockInv, BlockTypeOK, AttributeTypeOK
<1>5. TypeOK'
  BY <1>1, <1>3 DEF BlockInv, BlockTypeOK, TypeOK
<1>6. Tells(block, Window)'
  <2>1. Tells(block, Window)
    BY DEF BlockInv
  <2>2. Window' = Window
    BY <1>1 DEF Window
  <2>3. Tells(block', Window)
    BY <1>3, <2>1 DEF Tells, Keeps, Attribute
  <2>4. Tells(block, Window)' <=> Tells(block', Window')
    BY DEF Tells, Keeps, At, LastOf, Attribute
  <2> QED BY <2>2, <2>3, <2>4
<1>7. WrappedTells'
  <2>1. WrappedTells' <=> WrappedTells
    BY <1>1 DEF WrappedTells, Tells, Keeps, At, LastOf, Attribute
  <2> QED BY <2>1 DEF BlockInv
<1>8. AsGiven'
  BY <1>1, <1>3 DEF BlockInv, AsGiven
<1>9. ListShows'
  <2> SUFFICES ASSUME block'.class = "List" PROVE ListShows'
    BY DEF ListShows
  <2>1. block' = block
    BY <1>3
  <2>2. ListShows' <=> ListShows
    BY <1>1, <2>1, SameList
  <2> QED BY <2>2 DEF BlockInv
<1> QED BY <1>1, <1>3, <1>4, <1>5, <1>6, <1>7, <1>8, <1>9 DEF BlockInv, BlockTypeOK

LEMMA BlockStutter ==
  ASSUME BlockInv, UNCHANGED vars PROVE BlockInv'
<1>0. /\ strict' = strict /\ entries' = entries /\ pos' = pos /\ block' = block
      /\ wrapped' = wrapped /\ since' = since /\ status' = status
  BY DEF vars
<1>1. BlockTypeOK' /\ AsGiven'
  BY <1>0 DEF BlockInv, BlockTypeOK, AttributeTypeOK, TypeOK, AsGiven
<1>2. Tells(block, Window)' <=> Tells(block, Window)
  BY <1>0 DEF Tells, Keeps, At, LastOf, Attribute, Window
<1>3. WrappedTells' <=> WrappedTells
  BY <1>0 DEF WrappedTells, Tells, Keeps, At, LastOf, Attribute
<1>4. ListShows' <=> ListShows
  BY <1>0, SameList
<1> QED BY <1>0, <1>1, <1>2, <1>3, <1>4 DEF BlockInv

LEMMA BlockStep == BlockInv /\ [Next]_vars => BlockInv'
BY BlockStutter, TitleInv, RoleInv, SkipInv, PlainInv, AbsoluteInv, ConvertInv, DetachInv,
   StyleInv, FinishInv DEF Next

\* A list that was given what counts has something to show for it.
LEMMA StaysApart == BlockInv => ListStaysApart
<1> SUFFICES ASSUME BlockInv, status = "done", block.class = "List",
                    NEW i \in 1 .. Len(entries), Counts(entries[i])
             PROVE  HasMetadata(block)
  BY DEF ListStaysApart
<1> PICK e : e = entries[i]
  OBVIOUS
<1>1. entries \in Seq(Entry) /\ Len(entries) \in Nat /\ pos = Len(entries) + 1
  BY DEF BlockInv, BlockTypeOK
<1>2. e \in Entry /\ i \in 1 .. pos - 1
  BY <1>1
<1>3. /\ block.start = LastOf(entries, {j \in At(entries, "start") : entries[j].value # Invalid})
      /\ block.numeration = LastOf(entries, {j \in At(entries, "style") : entries[j].value = "arabic"})
      /\ block.reversed = Reversing(entries)
      /\ Shows(block, e)
  BY <1>2 DEF BlockInv, ListShows
<1>4. CASE e.key \in {"title", "role", "id", "attribution", "level", "cols"}
  BY <1>3, <1>4 DEF Shows, HasMetadata
<1>5. CASE e.key = "reversed"
  <2>1. i \in At(entries, "reversed")
    BY <1>5 DEF At
  <2> QED BY <1>3, <2>1 DEF Reversing, HasMetadata
<1>6. CASE e.key = "options"
  <2>1. i \in At(entries, "options")
    BY <1>6 DEF At
  <2>2. CASE "reversed" \in e.value
    BY <1>3, <2>1, <2>2 DEF Reversing, HasMetadata
  <2>3. CASE "reversed" \notin e.value
    <3>1. e.value # {}
      BY <1>6 DEF Counts
    <3>2. ~(e.value \subseteq {"reversed"})
      BY <2>3, <3>1
    <3> QED BY <1>3, <1>6, <3>2 DEF Shows, HasMetadata
  <2> QED BY <2>2, <2>3
<1>7. CASE e.key = "start"
  <2> PICK S : S = {j \in At(entries, "start") : entries[j].value # Invalid}
    OBVIOUS
  <2>1. i \in S /\ S \in SUBSET (0 .. Len(entries))
    BY <1>1, <1>7 DEF At, Counts
  <2>2. Largest(S) \in S
    BY <1>1, <2>1, Greatest
  <2> PICK last : last = Largest(S)
    OBVIOUS
  <2>3. last \in 1 .. Len(entries) /\ entries[last].key = "start" /\ entries[last].value # Invalid
    BY <2>2 DEF At
  <2>4. entries[last] \in Entry
    BY <1>1, <2>3
  <2>5. entries[last].value \in Int
    BY <2>3, <2>4, EntryValues
  <2>6. block.start = entries[last].value
    BY <1>3, <2>1 DEF LastOf
  <2>7. block.start # None
    BY <2>5, <2>6, InputAssumption
  <2> QED BY <2>7 DEF HasMetadata
<1>8. CASE e.key = "style"
  <2>1. i \in At(entries, "style")
    BY <1>8 DEF At
  <2>2. CASE e.value \notin ListStyles
    BY <1>3, <1>8, <2>2 DEF Shows, HasMetadata
  <2>3. CASE e.value = "reversed"
    BY <1>3, <2>1, <2>3 DEF Reversing, HasMetadata
  <2>4. CASE e.value = "arabic"
    <3> PICK S : S = {j \in At(entries, "style") : entries[j].value = "arabic"}
      OBVIOUS
    <3>1. i \in S /\ S \in SUBSET (0 .. Len(entries))
      BY <1>1, <2>1, <2>4 DEF At
    <3>2. Largest(S) \in S
      BY <1>1, <3>1, Greatest
    <3>3. entries[Largest(S)].value = "arabic"
      BY <3>2
    <3>4. block.numeration = "arabic"
      BY <1>3, <3>1, <3>3 DEF LastOf
    <3>5. "arabic" # None
      BY InputAssumption DEF ListStyles
    <3> QED BY <3>4, <3>5 DEF HasMetadata
  <2> QED BY <2>2, <2>3, <2>4 DEF ListStyles
<1>9. e.key \in {"title", "id", "role", "attribution", "style", "options", "start",
                 "level", "reversed", "cols"}
  BY <1>2, EntryValues DEF Counts
<1> QED BY <1>4, <1>5, <1>6, <1>7, <1>8, <1>9

LEMMA BlockIsKept == BlockInv => TypeOK /\ MetadataKept
<1>1. BlockInv => EachKeepsItsOwn
  BY DEF BlockInv, EachKeepsItsOwn, WrappedTells, Tells, Window
<1> QED BY <1>1, StaysApart DEF BlockInv, BlockTypeOK, MetadataKept

-----------------------------------------------------------------------------
(* A table with the lines above it                                          *)

\* The cells are put in a grid of the declared number of columns before the
\* block is finished, and the grid stays as it is from then on.
RegroupedInv ==
  /\ status = "done" => Grouped
  /\ regrouped => /\ pos = Len(entries) + 1 /\ block.class = "Table"
                  /\ "cols" \in DOMAIN block.attributes
                  /\ cols = Declared(block.attributes["cols"])
  /\ status = "done" /\ block.class = "Table" /\ "cols" \in DOMAIN block.attributes
       /\ Declared(block.attributes["cols"]) \in Positive => regrouped
  /\ columns # None => /\ status = "done" /\ block.class = "Table"
                       /\ columns = ColumnsOf(block.attributes)

TableInv == BlockInv /\ GridInv /\ RegroupedInv

LEMMA ParsedType ==
  ASSUME NEW specs \in Seq(ColSpec) PROVE Parsed(specs) \in Nat
<1> PICK s : s = [i \in 1 .. Len(specs) |->
           IF specs[i].form \in {"times", "timesStyled"} THEN specs[i].n
           ELSE IF specs[i].form = "blank" THEN 0 ELSE 1]
  OBVIOUS
<1>1. Len(specs) \in Nat /\ \A i \in 1 .. Len(specs) : specs[i].n \in Nat
  <2>1. Len(specs) \in Nat /\ \A i \in 1 .. Len(specs) : specs[i] \in ColSpec
    OBVIOUS
  <2>2. \A c \in ColSpec : c.n \in Nat
    BY DEF ColSpec
  <2> QED BY <2>1, <2>2
<1>2. Len(s) = Len(specs) /\ \A i \in 1 .. Len(s) : s[i] \in Nat
  BY <1>1
<1>3. Total(s) \in Nat
  BY <1>1, <1>2, TotalType
<1> QED BY <1>3 DEF Parsed

\* No row is wider than the widest.
LEMMA Widest ==
  ASSUME Spanned \notin Nat, GridInv,
         \A s \in Held : s[2] + cells[grid[s]].colspan - 1 <= cols,
         NEW r \in Rows
  PROVE  RowWidth(r) <= Largest({RowWidth(q) : q \in Rows} \cup {0})
<1> DEFINE S == {RowWidth(q) : q \in Rows} \cup {0}
<1>1. cols \in Nat
  BY DEF GridInv, GridTypeOK, Positive
<1>2. \A q : RowWidth(q) \in Nat /\ RowWidth(q) <= cols
  BY RowWithin
<1> HIDE DEF Rows
<1>3. S \in SUBSET (0 .. cols) /\ S # {} /\ RowWidth(r) \in S
  BY <1>1, <1>2
<1> HIDE DEF S
<1>4. RowWidth(r) <= Largest(S)
  BY <1>1, <1>3, Greatest
<1> QED BY <1>4 DEF S

LEMMA ColumnsHold == Spanned \notin Nat /\ TableInv => ColumnsHoldRows
<1> SUFFICES ASSUME Spanned \notin Nat, TableInv, columns # None,
                    "cols" \in DOMAIN block.attributes =>
                      Declared(block.attributes["cols"]) = Parsed(block.attributes["cols"]),
                    \A s \in Held : s[2] + cells[grid[s]].colspan - 1 <= cols,
                    NEW r \in Rows
             PROVE  RowWidth(r) <= columns
  BY DEF ColumnsHoldRows
<1>1. BlockInv /\ GridInv /\ RegroupedInv
  BY DEF TableInv
<1>2. /\ status = "done" /\ block.class = "Table" /\ columns = ColumnsOf(block.attributes)
      /\ regrouped => cols = Declared(block.attributes["cols"])
      /\ "cols" \in DOMAIN block.attributes
           /\ Declared(block.attributes["cols"]) \in Positive => regrouped
  BY <1>1 DEF RegroupedInv
<1>3. CASE "cols" \in DOMAIN block.attributes /\ Parsed(block.attributes["cols"]) > 0
  <2> PICK specs : specs = block.attributes["cols"]
    OBVIOUS
  <2>1. specs \in Seq(ColSpec)
    BY <1>1, <1>3 DEF BlockInv, BlockTypeOK, AttributeTypeOK
  <2>2. Parsed(specs) \in Positive
    BY <1>3, <2>1, ParsedType DEF Positive
  <2>3. cols = Parsed(specs) /\ columns = Parsed(specs)
    BY <1>2, <1>3, <2>2 DEF ColumnsOf
  <2>4. RowWidth(r) <= cols
    BY <1>1, RowWithin
  <2> QED BY <2>3, <2>4
<1>4. CASE ~("cols" \in DOMAIN block.attributes /\ Parsed(block.attributes["cols"]) > 0)
  <2>1. columns = Largest({RowWidth(q) : q \in Rows} \cup {0})
    BY <1>2, <1>4 DEF ColumnsOf
  <2> QED BY <1>1, <2>1, Widest
<1> QED BY <1>3, <1>4

\* What the grid and the columns are made of is the same after a step that
\* leaves the grid alone.
LEMMA SameGrid ==
  ASSUME UNCHANGED gridVars
  PROVE  /\ GridInv => GridInv'
         /\ Grouped' <=> Grouped
         /\ {RowWidth(r) : r \in Rows}' = {RowWidth(r) : r \in Rows}
<1> USE DEF gridVars
<1>1. Held' = Held /\ Ids' = Ids
  BY DEF Held, Ids
<1>2. ASSUME GridInv PROVE GridInv'
  <2>1. GridTypeOK' BY <1>1, <1>2 DEF GridInv, GridTypeOK
  <2>2. LeftInOrder' /\ Filled' /\ HeldInOrder'
    BY <1>1, <1>2 DEF GridInv, LeftInOrder, Filled, HeldInOrder, Before
  <2>3. NoneLost' BY <1>1, <1>2 DEF GridInv, NoneLost
  <2>4. Reach' /\ RowsFit' BY <1>1, <1>2 DEF GridInv, Reach, RowsFit, Covered
  <2> QED BY <2>1, <2>2, <2>3, <2>4 DEF GridInv
<1>3. \A r : RowWidth(r)' = RowWidth(r)
  BY <1>1 DEF RowWidth, Total
<1>4. Rows' = Rows
  BY <1>1 DEF Rows
<1>5. {RowWidth(r) : r \in Rows}' = {RowWidth(r) : r \in Rows}
  BY <1>3, <1>4
<1> QED BY <1>2, <1>5 DEF Grouped

LEMMA TableInit == Spanned \notin Nat /\ AInit => TableInv
<1> SUFFICES ASSUME Spanned \notin Nat, AInit PROVE TableInv
  OBVIOUS
<1>1. BlockInv
  BY BlockInit DEF AInit
<1>2. GridInv
  <2>1. PICK raw \in Tables : Start(Expanded(raw), Inferred(Expanded(raw)))
    BY GridAssumption DEF AInit
  <2>2. Expanded(raw) \in Seq(Cell)
    BY GridAssumption
  <2>3. GridInit
    BY <2>1, <2>2, InferredType DEF GridInit
  <2> QED BY <2>3, InitInv
<1>3. status = "open" /\ regrouped = FALSE /\ columns = None
  BY DEF AInit, Init
<1> QED BY <1>1, <1>2, <1>3 DEF TableInv, RegroupedInv

LEMMA TableStep == Spanned \notin Nat /\ TableInv /\ [ANext]_allVars => TableInv'
<1> SUFFICES ASSUME Spanned \notin Nat, TableInv, [ANext]_allVars PROVE TableInv'
  OBVIOUS
<1>0. BlockInv /\ GridInv /\ RegroupedInv
  BY DEF TableInv
<1>1. CASE Group
  <2>1. Place /\ UNCHANGED vars /\ UNCHANGED <<regrouped, columns>>
    BY <1>1 DEF Group
  <2>2. BlockInv'
    BY <1>0, <2>1, BlockStutter
  <2>3. GridInv'
    BY <1>0, <2>1, PlaceInv
  <2>4. status # "done"
    BY <1>0, <2>1 DEF Place, RegroupedInv, Grouped
  <2>5. RegroupedInv'
    <3>1. /\ UNCHANGED <<status, pos, entries, block, regrouped, columns, cols>>
      BY <2>1 DEF Place, vars
    <3>2. Declared(block.attributes["cols"])' = Declared(block.attributes["cols"])
      BY <3>1 DEF Declared
    <3> QED BY <1>0, <2>4, <3>1, <3>2 DEF RegroupedInv
  <2> QED BY <2>2, <2>3, <2>5 DEF TableInv
<1>2. CASE GroupAgain
  <2> PICK n : n = Declared(block.attributes["cols"])
    OBVIOUS
  <2>1. /\ n \in Positive /\ Regroup(n) /\ regrouped' = TRUE
        /\ UNCHANGED vars /\ UNCHANGED columns
        /\ status = "open" /\ pos = Len(entries) + 1
        /\ block.class = "Table" /\ "cols" \in DOMAIN block.attributes
    BY <1>2 DEF GroupAgain, DeclaresColumns
  <2>2. BlockInv'
    BY <1>0, <2>1, BlockStutter
  <2>3. GridInv'
    BY <1>0, <2>1, RegroupInv
  <2>4. RegroupedInv'
    <3>1. UNCHANGED <<status, pos, entries, block, columns>> /\ cols' = n
      BY <2>1 DEF Regroup, vars
    <3>2. Declared(block.attributes["cols"])' = n
      BY <3>1 DEF Declared
    <3>3. columns' = None
      BY <1>0, <2>1, <3>1 DEF RegroupedInv
    <3> QED BY <2>1, <3>1, <3>2, <3>3 DEF RegroupedInv
  <2> QED BY <2>2, <2>3, <2>4 DEF TableInv
<1>3. CASE Apply
  <2>1. /\ Grouped /\ ~DeclaresColumns /\ Next
        /\ UNCHANGED gridVars /\ UNCHANGED <<regrouped, columns>>
    BY <1>3 DEF Apply
  <2>2. BlockInv'
    BY <1>0, <2>1, BlockStep
  <2>3. GridInv' /\ Grouped'
    BY <1>0, <2>1, SameGrid
  <2>4. status = "open"
    BY <2>1 DEF Next, Title, Role, SkipForList, Plain, Absolute, Convert, Detach, Style,
                Finish, Applying
  <2>5. columns' = None
    BY <1>0, <2>1, <2>4 DEF RegroupedInv
  <2>6. ASSUME Finish PROVE RegroupedInv'
    <3>1. /\ pos = Len(entries) + 1 /\ pos' = pos /\ entries' = entries /\ cols' = cols
          /\ regrouped' = regrouped
      BY <2>1, <2>6 DEF Finish, gridVars
    <3>2. block'.class = "Table" => block' = block
      <4>1. DOMAIN block = Fields
        BY <1>0 DEF BlockInv, BlockTypeOK
      <4> QED BY <2>6, <4>1 DEF Finish, Fields
    <3>3. block.class = "Table" => block' = block
      BY <2>6 DEF Finish, Collapses
    <3>4. block' = block =>
            Declared(block.attributes["cols"])' = Declared(block.attributes["cols"])
      BY DEF Declared
    <3>5. block.class = "Table" /\ "cols" \in DOMAIN block.attributes
            /\ Declared(block.attributes["cols"]) \in Positive => regrouped
      BY <2>1, <2>4, <3>1 DEF DeclaresColumns
    <3>6. regrouped => /\ pos = Len(entries) + 1 /\ block.class = "Table"
                       /\ "cols" \in DOMAIN block.attributes
                       /\ cols = Declared(block.attributes["cols"])
      BY <1>0 DEF RegroupedInv
    <3> QED BY <2>3, <2>5, <3>1, <3>2, <3>3, <3>4, <3>5, <3>6 DEF RegroupedInv
  <2>7. ASSUME ~Finish PROVE RegroupedInv'
    <3>1. pos <= Len(entries) /\ status' # "done"
      BY <2>1, <2>4, <2>7 DEF Next, Title, Role, SkipForList, Plain, Absolute, Convert,
                              Detach, Style, Applying
    <3>2. Len(entries) \in Nat /\ pos \in Nat
      BY <1>0 DEF BlockInv, BlockTypeOK, TypeOK
    <3>3. ~regrouped
      BY <1>0, <3>1, <3>2 DEF RegroupedInv
    <3>4. ~regrouped'
      BY <2>1, <3>3
    <3> QED BY <2>5, <3>1, <3>4 DEF RegroupedInv
  <2>8. RegroupedInv'
    BY <2>6, <2>7
  <2> QED BY <2>2, <2>3, <2>8 DEF TableInv
<1>4. CASE ResolveColumns
  <2>1. /\ status = "done" /\ block.class = "Table" /\ columns' = ColumnsOf(block.attributes)
        /\ UNCHANGED vars /\ UNCHANGED gridVars /\ UNCHANGED regrouped
    BY <1>4 DEF ResolveColumns
  <2>2. BlockInv'
    BY <1>0, <2>1, BlockStutter
  <2>3. /\ GridInv' /\ (Grouped' <=> Grouped)
        /\ {RowWidth(r) : r \in Rows}' = {RowWidth(r) : r \in Rows}
    BY <1>0, <2>1, SameGrid
  <2>4. UNCHANGED <<status, pos, entries, block, cols>>
    BY <2>1 DEF vars, gridVars
  <2>5. ColumnsOf(block.attributes)' = ColumnsOf(block.attributes)
    BY <2>3, <2>4 DEF ColumnsOf
  <2>6. Declared(block.attributes["cols"])' = Declared(block.attributes["cols"])
    BY <2>4 DEF Declared
  <2> QED BY <1>0, <2>1, <2>2, <2>3, <2>4, <2>5, <2>6 DEF RegroupedInv, TableInv
<1>5. CASE UNCHANGED allVars
  <2>1. UNCHANGED vars /\ UNCHANGED gridVars /\ UNCHANGED <<regrouped, columns>>
    BY <1>5 DEF allVars
  <2>2. BlockInv'
    BY <1>0, <2>1, BlockStutter
  <2>3. /\ GridInv' /\ (Grouped' <=> Grouped)
        /\ {RowWidth(r) : r \in Rows}' = {RowWidth(r) : r \in Rows}
    BY <1>0, <2>1, SameGrid
  <2>4. UNCHANGED <<status, pos, entries, block, cols>>
    BY <2>1 DEF vars, gridVars
  <2>5. ColumnsOf(block.attributes)' = ColumnsOf(block.attributes)
    BY <2>3, <2>4 DEF ColumnsOf
  <2>6. Declared(block.attributes["cols"])' = Declared(block.attributes["cols"])
    BY <2>4 DEF Declared
  <2> QED BY <1>0, <2>1, <2>2, <2>3, <2>4, <2>5, <2>6 DEF RegroupedInv, TableInv
<1> QED BY <1>1, <1>2, <1>3, <1>4, <1>5 DEF ANext

\* The types of a block while its attributes are applied (attributed_block);
\* a heading's level is always one of the six (set_absolute_level).
THEOREM BlocksAreTyped == ASpec => []TypeOK
<1>1. Spanned \notin Nat BY GridAssumption
<1>2. AInit => TableInv BY <1>1, TableInit
<1>3. TableInv /\ [ANext]_allVars => TableInv' BY <1>1, TableStep
<1>4. TableInv => TypeOK BY BlockIsKept DEF TableInv
<1> QED BY <1>2, <1>3, <1>4, PTL DEF ASpec

\* Through any sequence of lines and conversions, what is written above a block,
\* below the last style that made another block of it, ends on it, and a list
\* that was given anything that counts is kept apart from its neighbour
\* (attributed_block, has_metadata).
THEOREM LinesAboveAreKept == ASpec => []MetadataKept
<1>1. Spanned \notin Nat BY GridAssumption
<1>2. AInit => TableInv BY <1>1, TableInit
<1>3. TableInv /\ [ANext]_allVars => TableInv' BY <1>1, TableStep
<1>4. TableInv => MetadataKept BY BlockIsKept DEF TableInv
<1> QED BY <1>2, <1>3, <1>4, PTL DEF ASpec

\* The cells of every table are in its rows, in the order they are written,
\* after either loop: attributed_block touches the grid only by grouping the
\* cells again.
THEOREM TablesKeepOrder == ASpec => []CellsInOrder
<1>1. Spanned \notin Nat BY GridAssumption
<1>2. AInit => TableInv BY <1>1, TableInit
<1>3. TableInv /\ [ANext]_allVars => TableInv' BY <1>1, TableStep
<1>4. TableInv => CellsInOrder BY <1>1, OrderBothWays DEF TableInv
<1> QED BY <1>2, <1>3, <1>4, PTL DEF ASpec

\* In every row a cell begins where the ones before it have ended, and the
\* columns that visit_table makes hold every row, if both readings of cols
\* agree and no cell is over the edge.
THEOREM RowsHaveColumns == ASpec => []ColumnsFit
<1>1. Spanned \notin Nat BY GridAssumption
<1>2. AInit => TableInv BY <1>1, TableInit
<1>3. TableInv /\ [ANext]_allVars => TableInv' BY <1>1, TableStep
<1>4. TableInv => ColumnsFit BY <1>1, ColumnsHold DEF TableInv, GridInv, ColumnsFit
<1> QED BY <1>2, <1>3, <1>4, PTL DEF ASpec
=============================================================================
