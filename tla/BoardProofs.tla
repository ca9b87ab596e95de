---------------------------- MODULE BoardProofs ----------------------------
(***************************************************************************)
(* Facts about the playfield for every width and height: where a drop      *)
(* ends, that clearing rows leaves a board without full rows, and how many *)
(* cells a piece fills and a clear removes.                                *)
(***************************************************************************)
EXTENDS Board, FiniteSetTheorems, WellFoundedInduction, TLAPS

\* A piece of any kind, at any place.
AnyPiece == [kind : AllKinds, rotation : Rotations, x : Int, y : Int]

\* What a table of four rotations holds: sets of minoes in a box of four by four.
Boxes == [1..4 -> SUBSET ((0..3) \X (0..3))]

\* Every shape lies in its box and, but for I, covers the cell (1, 1) of it.
LEMMA TablesOK ==
  /\ IShape \in Boxes /\ \A i \in 1..4 : IShape[i] # {}
  /\ OShape \in Boxes /\ \A i \in 1..4 : <<1,1>> \in OShape[i]
  /\ TShape \in Boxes /\ \A i \in 1..4 : <<1,1>> \in TShape[i]
  /\ SShape \in Boxes /\ \A i \in 1..4 : <<1,1>> \in SShape[i]
  /\ ZShape \in Boxes /\ \A i \in 1..4 : <<1,1>> \in ZShape[i]
  /\ JShape \in Boxes /\ \A i \in 1..4 : <<1,1>> \in JShape[i]
  /\ LShape \in Boxes /\ \A i \in 1..4 : <<1,1>> \in LShape[i]
<1>1. IShape \in Boxes
  BY DEF IShape, Boxes
<1>2. IShape[1] # {} /\ IShape[2] # {} /\ IShape[3] # {} /\ IShape[4] # {}
  BY DEF IShape
<1>3. OShape \in Boxes
  BY DEF OShape, Boxes
<1>4. \A i \in 1..4 : <<1,1>> \in OShape[i]
  BY DEF OShape
<1>5. TShape \in Boxes
  BY DEF TShape, Boxes
<1>6. \A i \in 1..4 : <<1,1>> \in TShape[i]
  BY DEF TShape
<1>7. SShape \in Boxes
  BY DEF SShape, Boxes
<1>8. \A i \in 1..4 : <<1,1>> \in SShape[i]
  BY DEF SShape
<1>9. ZShape \in Boxes
  BY DEF ZShape, Boxes
<1>10. \A i \in 1..4 : <<1,1>> \in ZShape[i]
  BY DEF ZShape
<1>11. JShape \in Boxes
  BY DEF JShape, Boxes
<1>12. \A i \in 1..4 : <<1,1>> \in JShape[i]
  BY DEF JShape
<1>13. LShape \in Boxes
  BY DEF LShape, Boxes
<1>14. \A i \in 1..4 : <<1,1>> \in LShape[i]
  BY DEF LShape
<1> QED
  BY <1>1, <1>2, <1>3, <1>4, <1>5, <1>6, <1>7, <1>8, <1>9, <1>10, <1>11, <1>12, <1>13, <1>14

\* Every kind has minoes in every rotation, inside its box.
LEMMA ShapesOK ==
  ASSUME NEW k \in AllKinds, NEW r \in Rotations
  PROVE  /\ Shape(k, r) # {}
         /\ \A m \in Shape(k, r) : m[1] \in 0..3 /\ m[2] \in 0..3
<1>1. r + 1 \in 1..4
  BY DEF Rotations
<1>2. Shapes[k] \in Boxes
  BY TablesOK DEF Shapes, AllKinds
<1>3. Shape(k, r) \subseteq (0..3) \X (0..3)
  BY <1>1, <1>2 DEF Shape, Boxes
<1>4. CASE k = "I"
  BY <1>1, <1>3, <1>4, TablesOK DEF Shape, Shapes
<1>5. CASE k # "I"
  <2>1. <<1,1>> \in Shape(k, r)
    BY <1>1, <1>5, TablesOK DEF Shape, Shapes, AllKinds
  <2> QED BY <1>3, <2>1
<1> QED BY <1>4, <1>5

\* A kick moves the box by whole cells.
LEMMA KicksOK ==
  ASSUME NEW k \in AllKinds, NEW r \in Rotations, NEW cw \in BOOLEAN, NEW i \in 1..5
  PROVE  Kicks(k, r, cw)[i] \in Int \X Int
<1>1. IKicksCw \in [1..4 -> [1..5 -> Int \X Int]]
  BY DEF IKicksCw
<1>2. IKicksCcw \in [1..4 -> [1..5 -> Int \X Int]]
  BY DEF IKicksCcw
<1>3. JLSTZKicksCw \in [1..4 -> [1..5 -> Int \X Int]]
  BY DEF JLSTZKicksCw
<1>4. JLSTZKicksCcw \in [1..4 -> [1..5 -> Int \X Int]]
  BY DEF JLSTZKicksCcw
<1> QED BY <1>1, <1>2, <1>3, <1>4 DEF Kicks, Rotations

\* Moving or turning a piece gives a piece of the same kind.
LEMMA ShiftedOK ==
  ASSUME NEW p \in AnyPiece, NEW dx \in Int, NEW dy \in Int
  PROVE  /\ Shifted(p, dx, dy) \in AnyPiece
         /\ Shifted(p, dx, dy).kind = p.kind
         /\ Shifted(p, dx, dy).rotation = p.rotation
         /\ Shifted(p, dx, dy).x = p.x + dx
         /\ Shifted(p, dx, dy).y = p.y + dy
<1> DEFINE x == p.x + dx
           y == p.y + dy
<1>1. x \in Int /\ y \in Int
  BY DEF AnyPiece
<1>2. Shifted(p, dx, dy) = [p EXCEPT !.x = x, !.y = y]
  BY DEF Shifted
<1>3. DOMAIN p = {"kind", "rotation", "x", "y"}
  BY DEF AnyPiece
<1>4. Shifted(p, dx, dy).x = x /\ Shifted(p, dx, dy).y = y
  BY <1>2, <1>3
<1> HIDE DEF x, y
<1>5. Shifted(p, dx, dy) \in AnyPiece
  BY <1>1, <1>2 DEF AnyPiece
<1>6. Shifted(p, dx, dy).kind = p.kind /\ Shifted(p, dx, dy).rotation = p.rotation
  BY <1>2, <1>3
<1> QED BY <1>4, <1>5, <1>6 DEF x, y

LEMMA KickedOK ==
  ASSUME NEW p \in AnyPiece, NEW cw \in BOOLEAN, NEW i \in 1..5
  PROVE  Kicked(p, cw, i) \in AnyPiece /\ Kicked(p, cw, i).kind = p.kind
<1> DEFINE k == Kicks(p.kind, p.rotation, cw)[i]
           r == IF cw THEN RotateCw(p.rotation) ELSE RotateCcw(p.rotation)
<1>1. k \in Int \X Int
  BY KicksOK DEF AnyPiece
<1>2. r \in Rotations
  BY DEF AnyPiece, Rotations, RotateCw, RotateCcw
<1>3. Kicked(p, cw, i) = [p EXCEPT !.rotation = r, !.x = p.x + k[1], !.y = p.y + k[2]]
  BY DEF Kicked
<1>4. p.x + k[1] \in Int /\ p.y + k[2] \in Int
  BY <1>1 DEF AnyPiece
<1> HIDE DEF k, r
<1> QED BY <1>2, <1>3, <1>4 DEF AnyPiece
-----------------------------------------------------------------------------
\* A set of distances has a least element.
LEMMA LeastDistance ==
  ASSUME NEW S, S \subseteq Nat, S # {}
  PROVE  \E n \in S : \A m \in S : n <= m
<1>1. \E n \in S : \A m \in S : ~ (<<m, n>> \in OpToRel(<, Nat))
  BY NatLessThanWellFounded, WFMin
<1>2. \A m, n \in S : ~ (<<m, n>> \in OpToRel(<, Nat)) => n <= m
  BY DEF OpToRel
<1> QED BY <1>1, <1>2

\* A falling piece comes to rest: the drop loops end, on the distance
\* DropDistance names.
LEMMA DropDistanceOK ==
  ASSUME NEW b, NEW p \in AnyPiece, Fits(b, p)
  PROVE  /\ DropDistance(b, p) \in 0..H
         /\ \A k \in 0..DropDistance(b, p) : Fits(b, Shifted(p, 0, k))
         /\ ~ Fits(b, Shifted(p, 0, DropDistance(b, p) + 1))
<1> DEFINE S == {d \in Nat : ~ Fits(b, Shifted(p, 0, d + 1))}
           Good(d) == /\ \A k \in 1..d : Fits(b, Shifted(p, 0, k))
                      /\ ~ Fits(b, Shifted(p, 0, d + 1))
<1>0. H \in Nat
  BY BoardAssumption
<1>1. H \in S
  <2>1. PICK m \in Shape(p.kind, p.rotation) : m[1] \in 0..3 /\ m[2] \in 0..3
    BY ShapesOK DEF AnyPiece
  <2>2. <<p.x + m[1], p.y + m[2]>> \in Cells
    BY <2>1 DEF Fits
  <2>3. p.y + m[2] >= 0 /\ p.y \in Int
    BY <2>2 DEF Cells, Rows, AnyPiece
  <2>4. Shifted(p, 0, H + 1).y = p.y + (H + 1)
    BY <1>0, ShiftedOK
  <2>5. ~ (Shifted(p, 0, H + 1).y + m[2] \in Rows)
    BY <1>0, <2>1, <2>3, <2>4 DEF Rows
  <2>6. /\ Shifted(p, 0, H + 1).kind = p.kind
        /\ Shifted(p, 0, H + 1).rotation = p.rotation
    BY <1>0, ShiftedOK
  <2>7. ~ Fits(b, Shifted(p, 0, H + 1))
    BY <2>1, <2>5, <2>6 DEF Fits, Cells
  <2> QED BY <1>0, <2>7
<1>2. PICK d \in S : \A e \in S : d <= e
  BY <1>1, LeastDistance
<1>3. d \in 0..H
  BY <1>0, <1>1, <1>2
<1>4. \A k \in 1..d : Fits(b, Shifted(p, 0, k))
  <2> SUFFICES ASSUME NEW k \in 1..d, ~ Fits(b, Shifted(p, 0, k)) PROVE FALSE
    OBVIOUS
  <2>1. k - 1 \in Nat /\ (k - 1) + 1 = k
    BY <1>2
  <2>2. k - 1 \in S
    BY <2>1
  <2> QED BY <1>2, <2>2
<1>5. Good(d)
  BY <1>2, <1>4
<1>6. DropDistance(b, p) = CHOOSE e \in 0..H : Good(e)
  BY DEF DropDistance
<1>7. DropDistance(b, p) \in 0..H /\ Good(DropDistance(b, p))
  <2> HIDE DEF Good
  <2> QED BY <1>3, <1>5, <1>6
<1>8. Fits(b, Shifted(p, 0, 0))
  <2>1. /\ Shifted(p, 0, 0).x = p.x /\ Shifted(p, 0, 0).y = p.y
        /\ Shifted(p, 0, 0).kind = p.kind /\ Shifted(p, 0, 0).rotation = p.rotation
    BY ShiftedOK DEF AnyPiece
  <2> QED BY <2>1 DEF Fits
<1>9. \A k \in 0..DropDistance(b, p) : k = 0 \/ k \in 1..DropDistance(b, p)
  BY <1>7
<1> QED BY <1>7, <1>8, <1>9
-----------------------------------------------------------------------------
\* Counting the full rows below a row: finite, and no more than there are rows.
LEMMA RowsBelow ==
  ASSUME NEW b, NEW y \in Rows
  PROVE  /\ IsFiniteSet(FullRowsBelow(b, y))
         /\ Cardinality(FullRowsBelow(b, y)) \in 0 .. H-1-y
<1>1. H \in Nat /\ H > 0
  BY BoardAssumption
<1>2. y + 1 \in Int /\ H - 1 \in Int
  BY <1>1 DEF Rows
<1>3. FullRowsBelow(b, y) \in SUBSET ((y + 1) .. (H - 1))
  BY <1>1 DEF FullRowsBelow, FullRows, Rows
<1>4. /\ IsFiniteSet((y + 1) .. (H - 1))
      /\ Cardinality((y + 1) .. (H - 1))
           = IF y + 1 > H - 1 THEN 0 ELSE (H - 1) - (y + 1) + 1
  BY <1>2, FS_Interval
<1>5. /\ IsFiniteSet(FullRowsBelow(b, y))
      /\ Cardinality(FullRowsBelow(b, y)) <= Cardinality((y + 1) .. (H - 1))
  BY <1>3, <1>4, FS_Subset
<1>6. Cardinality(FullRowsBelow(b, y)) \in Nat
  BY <1>5, FS_CardinalityType
<1> QED BY <1>1, <1>4, <1>5, <1>6 DEF Rows

\* Two rows that are not full never fall onto the same row, and keep their order.
LEMMA FallKeepsOrder ==
  ASSUME NEW b, NEW y \in Rows \ FullRows(b), NEW z \in Rows \ FullRows(b), y < z
  PROVE  y + Cardinality(FullRowsBelow(b, y)) < z + Cardinality(FullRowsBelow(b, z))
<1> DEFINE Y == FullRowsBelow(b, y)
           Z == FullRowsBelow(b, z)
           Gap == (y + 1) .. (z - 1)
<1>1. y \in Nat /\ z \in Nat /\ y + 1 \in Int /\ z - 1 \in Int
  BY BoardAssumption DEF Rows
<1>2. Y \subseteq Z \cup Gap
  BY <1>1 DEF FullRowsBelow, FullRows, Rows
<1>3. IsFiniteSet(Gap) /\ Cardinality(Gap) = z - 1 - y
  <2>1. IsFiniteSet(Gap) /\ Cardinality(Gap) = IF y + 1 > z - 1 THEN 0 ELSE (z - 1) - (y + 1) + 1
    BY <1>1, FS_Interval
  <2> QED BY <1>1, <2>1
<1>4. IsFiniteSet(Y) /\ IsFiniteSet(Z)
  BY RowsBelow
<1> HIDE DEF Y, Z, Gap
<1>5. /\ IsFiniteSet(Z \cup Gap)
      /\ Cardinality(Z \cup Gap) = Cardinality(Z) + Cardinality(Gap) - Cardinality(Z \cap Gap)
  BY <1>3, <1>4, FS_Union
<1>6. Cardinality(Z \cap Gap) \in Nat
  <2>1. IsFiniteSet(Z \cap Gap)
    BY <1>4, FS_Subset
  <2> QED BY <2>1, FS_CardinalityType
<1>7. Cardinality(Y) <= Cardinality(Z \cup Gap)
  BY <1>2, <1>5, FS_Subset
<1>8. Cardinality(Y) \in Nat /\ Cardinality(Z) \in Nat
  BY <1>4, FS_CardinalityType
<1>9. Cardinality(Y) <= Cardinality(Z) + (z - 1 - y)
  BY <1>1, <1>3, <1>5, <1>6, <1>7, <1>8
<1> QED BY <1>1, <1>8, <1>9 DEF Y, Z

\* Clearing rows keeps every cell on the board.
LEMMA ClearKeepsCells ==
  ASSUME NEW b, b \subseteq Cells
  PROVE  ClearFullRows(b) \subseteq Cells
<1> SUFFICES ASSUME NEW c \in b
             PROVE  <<c[1], c[2] + Cardinality(FullRowsBelow(b, c[2]))>> \in Cells
  BY DEF ClearFullRows
<1>1. c[1] \in Columns /\ c[2] \in Rows
  BY DEF Cells
<1>2. Cardinality(FullRowsBelow(b, c[2])) \in 0 .. H-1-c[2]
  BY <1>1, RowsBelow
<1>3. c[2] + Cardinality(FullRowsBelow(b, c[2])) \in Rows
  BY <1>1, <1>2, BoardAssumption DEF Rows
<1> QED BY <1>1, <1>3 DEF Cells

\* No row of the cleared board is full: its cells all come from one row of the
\* board before, which was not full.
THEOREM ClearLeavesNoFullRow ==
  ASSUME NEW b, b \subseteq Cells
  PROVE  FullRows(ClearFullRows(b)) = {}
<1> DEFINE Fall(y) == y + Cardinality(FullRowsBelow(b, y))
<1> SUFFICES ASSUME NEW y \in Rows, RowFull(ClearFullRows(b), y)
             PROVE  FALSE
  BY DEF FullRows
<1>1. \A x \in Columns : \E z \in Rows \ FullRows(b) : <<x, z>> \in b /\ Fall(z) = y
  <2> SUFFICES ASSUME NEW x \in Columns
               PROVE  \E z \in Rows \ FullRows(b) : <<x, z>> \in b /\ Fall(z) = y
    OBVIOUS
  <2>1. <<x, y>> \in ClearFullRows(b)
    BY DEF RowFull
  <2>2. PICK c \in b : c[2] \notin FullRows(b) /\ <<x, y>> = <<c[1], Fall(c[2])>>
    BY <2>1 DEF ClearFullRows
  <2>3. c = <<c[1], c[2]>> /\ c[2] \in Rows
    BY DEF Cells
  <2>4. x = c[1] /\ y = Fall(c[2])
    <3> HIDE DEF Fall
    <3> QED BY <2>2
  <2> QED BY <2>2, <2>3, <2>4
<1>2. 0 \in Columns
  BY BoardAssumption DEF Columns
<1>3. PICK z \in Rows \ FullRows(b) : Fall(z) = y
  BY <1>1, <1>2
<1>4. \A u \in Rows \ FullRows(b) : Fall(u) = y => u = z
  <2> SUFFICES ASSUME NEW u \in Rows \ FullRows(b), Fall(u) = y, u # z
               PROVE  FALSE
    OBVIOUS
  <2>1. Fall(u) \in Nat /\ Fall(z) \in Nat /\ u \in Nat /\ z \in Nat
    BY RowsBelow, BoardAssumption DEF Rows
  <2>2. CASE u < z
    BY <1>3, <2>1, <2>2, FallKeepsOrder
  <2>3. CASE z < u
    BY <1>3, <2>1, <2>3, FallKeepsOrder
  <2> QED BY <2>1, <2>2, <2>3
<1>5. RowFull(b, z)
  <2> HIDE DEF Fall
  <2> QED BY <1>1, <1>4 DEF RowFull
<1> QED BY <1>5 DEF FullRows
-----------------------------------------------------------------------------
\* Sets of four.
Four(S) == \E a, b, c, d : /\ a # b /\ a # c /\ a # d /\ b # c /\ b # d /\ c # d
                           /\ S = {a, b, c, d}

LEMMA FourDistinct ==
  ASSUME NEW S, Four(S)
  PROVE  IsFiniteSet(S) /\ Cardinality(S) = 4
<1>0. PICK a, b, c, d : /\ a # b /\ a # c /\ a # d /\ b # c /\ b # d /\ c # d
                        /\ S = {a, b, c, d}
  BY DEF Four
<1>1. IsFiniteSet({a}) /\ Cardinality({a}) = 1
  BY FS_Singleton
<1>2. IsFiniteSet({a} \cup {b}) /\ Cardinality({a} \cup {b}) = 2
  BY <1>0, <1>1, FS_AddElement
<1>3. /\ IsFiniteSet(({a} \cup {b}) \cup {c})
      /\ Cardinality(({a} \cup {b}) \cup {c}) = 3
  <2> DEFINE T == {a} \cup {b}
  <2>1. c \notin T
    BY <1>0
  <2> HIDE DEF T
  <2> QED BY <1>2, <2>1, FS_AddElement DEF T
<1>4. /\ IsFiniteSet((({a} \cup {b}) \cup {c}) \cup {d})
      /\ Cardinality((({a} \cup {b}) \cup {c}) \cup {d}) = 4
  <2> DEFINE T == ({a} \cup {b}) \cup {c}
  <2>1. d \notin T
    BY <1>0
  <2>2. IsFiniteSet(T) /\ Cardinality(T) = 3
    BY <1>3
  <2> HIDE DEF T
  <2>3. IsFiniteSet(T \cup {d}) /\ Cardinality(T \cup {d}) = 4
    BY <2>1, <2>2, FS_AddElement
  <2> QED BY <2>3 DEF T
<1>5. S = (({a} \cup {b}) \cup {c}) \cup {d}
  BY <1>0
<1> QED BY <1>4, <1>5

\* Sets of four different offsets.
FourOffsets(S) ==
  \E a, b, c, d \in (0..3) \X (0..3) :
     /\ a # b /\ a # c /\ a # d /\ b # c /\ b # d /\ c # d
     /\ S = {a, b, c, d}

LEMMA FourOf ==
  ASSUME NEW a \in (0..3) \X (0..3), NEW b \in (0..3) \X (0..3),
         NEW c \in (0..3) \X (0..3), NEW d \in (0..3) \X (0..3),
         a # b, a # c, a # d, b # c, b # d, c # d
  PROVE  FourOffsets({a, b, c, d})
  BY DEF FourOffsets

\* Offsets are different when a coordinate is.
LEMMA OffsetsDiffer ==
  /\ \A x, y, u, v : <<x, y>> = <<u, v>> => x = u /\ y = v
  /\ \A x, y \in 0..3 : <<x, y>> \in (0..3) \X (0..3)
  /\ 0 \in 0..3 /\ 1 \in 0..3 /\ 2 \in 0..3 /\ 3 \in 0..3
  /\ 0 # 1 /\ 0 # 2 /\ 0 # 3 /\ 1 # 2 /\ 1 # 3 /\ 2 # 3
  /\ 1 # 0 /\ 2 # 0 /\ 3 # 0 /\ 2 # 1 /\ 3 # 1 /\ 3 # 2
  OBVIOUS

\* Every kind has exactly four minoes in every rotation.
LEMMA ShapeFour ==
  ASSUME NEW k \in AllKinds, NEW r \in Rotations
  PROVE  FourOffsets(Shape(k, r))
<1> DEFINE Fours(t) == /\ FourOffsets(t[1]) /\ FourOffsets(t[2])
                       /\ FourOffsets(t[3]) /\ FourOffsets(t[4])
<1>1. Fours(IShape)
  BY OffsetsDiffer, FourOf, Zenon DEF IShape
<1>2. Fours(OShape)
  <2>1. FourOffsets({<<1,0>>, <<2,0>>, <<1,1>>, <<2,1>>})
    BY OffsetsDiffer, FourOf, Zenon
  <2>2. \A i \in 1..4 : OShape[i] = {<<1,0>>, <<2,0>>, <<1,1>>, <<2,1>>}
    BY Zenon DEF OShape
  <2>3. 1 \in 1..4 /\ 2 \in 1..4 /\ 3 \in 1..4 /\ 4 \in 1..4
    OBVIOUS
  <2> QED BY <2>1, <2>2, <2>3, Zenon
<1>3. Fours(TShape)
  BY OffsetsDiffer, FourOf, Zenon DEF TShape
<1>4. Fours(SShape)
  BY OffsetsDiffer, FourOf, Zenon DEF SShape
<1>5. Fours(ZShape)
  BY OffsetsDiffer, FourOf, Zenon DEF ZShape
<1>6. Fours(JShape)
  BY OffsetsDiffer, FourOf, Zenon DEF JShape
<1>7. Fours(LShape)
  BY OffsetsDiffer, FourOf, Zenon DEF LShape
<1>8. Fours(Shapes[k])
  <2> HIDE DEF Fours
  <2> QED BY <1>1, <1>2, <1>3, <1>4, <1>5, <1>6, <1>7 DEF Shapes, AllKinds
<1>9. r + 1 = 1 \/ r + 1 = 2 \/ r + 1 = 3 \/ r + 1 = 4
  BY DEF Rotations
<1> QED BY <1>8, <1>9, Zenon DEF Shape

\* A piece covers four cells.
LEMMA FourCells ==
  ASSUME NEW p \in AnyPiece
  PROVE  IsFiniteSet(CellsOf(p)) /\ Cardinality(CellsOf(p)) = 4
<1> DEFINE Cell(m) == <<p.x + m[1], p.y + m[2]>>
<1>1. PICK a, b, c, d \in (0..3) \X (0..3) :
        /\ a # b /\ a # c /\ a # d /\ b # c /\ b # d /\ c # d
        /\ Shape(p.kind, p.rotation) = {a, b, c, d}
  <2>1. p.kind \in AllKinds /\ p.rotation \in Rotations
    BY DEF AnyPiece
  <2>2. FourOffsets(Shape(p.kind, p.rotation))
    BY <2>1, ShapeFour
  <2> QED BY <2>2 DEF FourOffsets
<1>2. \A m, n \in (0..3) \X (0..3) : Cell(m) = Cell(n) => m = n
  BY DEF AnyPiece
<1>3. CellsOf(p) = {Cell(a), Cell(b), Cell(c), Cell(d)}
  BY <1>1 DEF CellsOf
<1>4. PICK s, t, u, v : s = Cell(a) /\ t = Cell(b) /\ u = Cell(c) /\ v = Cell(d)
  OBVIOUS
<1>5. s # t /\ s # u /\ s # v /\ t # u /\ t # v /\ u # v
  <2> HIDE DEF Cell
  <2> QED BY <1>1, <1>2, <1>4
<1>6. CellsOf(p) = {s, t, u, v}
  <2> HIDE DEF Cell
  <2> QED BY <1>3, <1>4
<1>7. Four(CellsOf(p))
  BY <1>5, <1>6, Zenon DEF Four
<1> QED BY <1>7, FourDistinct
-----------------------------------------------------------------------------
\* The cells of the board can be counted.
LEMMA BoardFinite ==
  ASSUME NEW b, b \subseteq Cells
  PROVE  /\ IsFiniteSet(b) /\ Cardinality(b) \in Nat
         /\ IsFiniteSet(FullRows(b)) /\ Cardinality(FullRows(b)) \in Nat
         /\ IsFiniteSet(Columns) /\ Cardinality(Columns) = W
<1>1. W - 1 \in Int /\ H - 1 \in Int
  BY BoardAssumption
<1>2. IsFiniteSet(Columns) /\ Cardinality(Columns) = W
  <2>1. IsFiniteSet(Columns) /\ Cardinality(Columns) = IF 0 > W-1 THEN 0 ELSE (W-1) - 0 + 1
    BY <1>1, FS_Interval DEF Columns
  <2> QED BY <2>1, BoardAssumption
<1>3. IsFiniteSet(Rows)
  BY <1>1, FS_Interval DEF Rows
<1>4. IsFiniteSet(Cells)
  BY <1>2, <1>3, FS_Product DEF Cells
<1>5. FullRows(b) \subseteq Rows
  BY DEF FullRows
<1>6. IsFiniteSet(b) /\ IsFiniteSet(FullRows(b))
  BY <1>3, <1>4, <1>5, FS_Subset
<1> QED BY <1>2, <1>6, FS_CardinalityType

\* Clearing removes the full rows, a whole width each, and nothing else: the
\* rows that fall keep all their cells.
THEOREM ClearCounts ==
  ASSUME NEW b, b \subseteq Cells
  PROVE  Cardinality(ClearFullRows(b)) = Cardinality(b) - W * Cardinality(FullRows(b))
<1> DEFINE Fall(y) == y + Cardinality(FullRowsBelow(b, y))
           Kept == {c \in b : c[2] \notin FullRows(b)}
           Gone == {c \in b : c[2] \in FullRows(b)}
           Down == [c \in Kept |-> <<c[1], Fall(c[2])>>]
<1>1. /\ IsFiniteSet(b) /\ IsFiniteSet(FullRows(b)) /\ IsFiniteSet(Columns)
      /\ Cardinality(Columns) = W
  BY BoardFinite
<1>2. IsFiniteSet(Kept) /\ IsFiniteSet(Gone)
  BY <1>1, FS_Subset
<1>3. Cardinality(Gone) = W * Cardinality(FullRows(b))
  <2>1. Gone = Columns \X FullRows(b)
    BY DEF FullRows, RowFull, Cells
  <2> HIDE DEF Gone
  <2> QED BY <1>1, <2>1, FS_Product
<1>4. Cardinality(Kept) = Cardinality(b) - Cardinality(Gone)
  <2>1. Kept \cup Gone = b /\ Kept \cap Gone = {}
    OBVIOUS
  <2> HIDE DEF Kept, Gone
  <2>2. Cardinality(b) = Cardinality(Kept) + Cardinality(Gone) - 0
    BY <1>2, <2>1, FS_Union, FS_EmptySet
  <2>3. Cardinality(Kept) \in Nat /\ Cardinality(Gone) \in Nat
    BY <1>2, FS_CardinalityType
  <2> QED BY <2>2, <2>3
<1>5. \A c, d \in Kept : Down[c] = Down[d] => c = d
  <2> SUFFICES ASSUME NEW c \in Kept, NEW d \in Kept, Down[c] = Down[d] PROVE c = d
    OBVIOUS
  <2>1. /\ c = <<c[1], c[2]>> /\ d = <<d[1], d[2]>>
        /\ c[2] \in Rows \ FullRows(b) /\ d[2] \in Rows \ FullRows(b)
    BY DEF Cells
  <2>2. c[1] = d[1] /\ Fall(c[2]) = Fall(d[2])
    <3> HIDE DEF Fall, Kept
    <3>1. <<c[1], Fall(c[2])>> = <<d[1], Fall(d[2])>>
      OBVIOUS
    <3> QED BY <3>1
  <2>3. Fall(c[2]) \in Nat /\ c[2] \in Nat /\ d[2] \in Nat
    BY <2>1, RowsBelow, BoardAssumption DEF Rows
  <2>4. ~ (c[2] < d[2])
    BY <2>1, <2>2, <2>3, FallKeepsOrder
  <2>5. ~ (d[2] < c[2])
    BY <2>1, <2>2, <2>3, FallKeepsOrder
  <2> HIDE DEF Kept
  <2> QED BY <2>1, <2>2, <2>3, <2>4, <2>5
<1>6. ClearFullRows(b) = {Down[c] : c \in Kept}
  BY DEF ClearFullRows
<1>7. Down \in Bijection(Kept, ClearFullRows(b))
  <2>1. \A y \in ClearFullRows(b) : \E c \in Kept : Down[c] = y
    BY <1>6
  <2>2. Down \in [Kept -> ClearFullRows(b)]
    <3>1. \A c \in Kept : Down[c] \in ClearFullRows(b)
      BY <1>6
    <3> QED BY <3>1
  <2> HIDE DEF Down, Kept
  <2> QED BY <1>5, <2>1, <2>2 DEF Bijection, Injection, Surjection, IsInjective
<1> HIDE DEF Kept, Gone, Down
<1>8. Cardinality(ClearFullRows(b)) = Cardinality(Kept)
  BY <1>2, <1>7, FS_Bijection DEF ExistsBijection
<1> QED BY <1>3, <1>4, <1>8
=============================================================================
