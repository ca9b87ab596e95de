------------------------------- MODULE Board -------------------------------
(***************************************************************************)
(* The playfield of tetris-core as the set of its filled cells.  The       *)
(* colour of a cell is left out: no rule reads it.                         *)
(***************************************************************************)
EXTENDS Pieces, FiniteSets

CONSTANTS W,   \* BOARD_WIDTH
          H    \* BOARD_HEIGHT

ASSUME BoardAssumption == W \in Nat \ {0} /\ H \in Nat \ {0}

Columns == 0 .. W-1
Rows    == 0 .. H-1
Cells   == Columns \X Rows

\* A piece position is valid when each of its cells is on the board and empty.
Fits(b, p) == \A m \in Shape(p.kind, p.rotation) :
                 <<p.x + m[1], p.y + m[2]>> \in Cells \ b

\* Some mino has no free cell right below it.
Grounded(b, p) == ~ Fits(b, Shifted(p, 0, 1))

\* How far the drop loops of hard_drop and ghost_y get: they stop at the first
\* distance whose next row is blocked.
DropDistance(b, p) ==
  CHOOSE d \in 0..H : /\ \A k \in 1..d : Fits(b, Shifted(p, 0, k))
                      /\ ~ Fits(b, Shifted(p, 0, d + 1))

RowFull(b, y) == \A x \in Columns : <<x, y>> \in b
FullRows(b)   == {y \in Rows : RowFull(b, y)}

FullRowsBelow(b, y) == {r \in FullRows(b) : r > y}

\* Slip: the loop stops after one row.
ClearFullRowsOnce(b) ==
  IF FullRows(b) = {} THEN b
  ELSE LET low == CHOOSE r \in FullRows(b) : \A s \in FullRows(b) : s <= r
       IN  {c \in b : c[2] > low} \cup
           {<<c[1], c[2] + 1>> : c \in {d \in b : d[2] < low}}

\* Full rows disappear and every other row falls by the number of full rows
\* below it: what the loop of clear_row calls over the full rows computes
\* (module ClearRows runs that loop).
ClearFullRows(b) ==
  {<<c[1], c[2] + Cardinality(FullRowsBelow(b, c[2]))>> :
      c \in {d \in b : d[2] \notin FullRows(b)}}
-----------------------------------------------------------------------------
(* T-spin detection of game_state.rs, on the board after the lock. *)

Corners == {<<0,0>>, <<2,0>>, <<0,2>>, <<2,2>>}

\* The corners a T points at, by rotation.
FrontCorners == << {<<0,0>>, <<2,0>>}, {<<2,0>>, <<2,2>>},
                   {<<0,2>>, <<2,2>>}, {<<0,0>>, <<0,2>>} >>

Blocked(b, p, corners) == {c \in corners : <<p.x + c[1], p.y + c[2]>> \notin Cells \ b}

\* Slip: the corners the T points at are not looked at.
TSpinKindCountOnly(rotated, b, p) ==
  IF rotated /\ Cardinality(Blocked(b, p, Corners)) >= 3
  THEN "Mini" ELSE "None"

TSpinKind(rotated, b, p) ==
  IF ~ rotated \/ Cardinality(Blocked(b, p, Corners)) < 3 THEN "None"
  ELSE IF Blocked(b, p, FrontCorners[p.rotation + 1]) = FrontCorners[p.rotation + 1]
       THEN "Full" ELSE "Mini"
=============================================================================
