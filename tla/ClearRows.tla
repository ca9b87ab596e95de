------------------------------ MODULE ClearRows ------------------------------
(***************************************************************************)
(* One lock, step by step: Board::lock_piece, then the two passes of       *)
(* Board::clear_full_rows - collect the full rows from the top, then clear *)
(* them in that order, each clear_row moving the rows above it down - from *)
(* every board without full rows and every piece that fits on it.  The     *)
(* other modules use the closed form ClearFullRows; this one shows that    *)
(* the loop implements it.                                                 *)
(***************************************************************************)
EXTENDS Board, Scoring, Sequences

CONSTANT PlayKinds   \* the kinds locked

ASSUME ClearRowsAssumption == PlayKinds \subseteq AllKinds

VARIABLES phase,    \* "lock", "collect", "clear" or "done"
          piece,    \* the piece locked
          rotated,  \* was the last action of the piece a rotation
          board,
          pending,  \* full rows found and still to clear, from the top
          row,      \* the row the first pass looks at next
          lines,    \* rows cleared so far
          tspin,    \* what t_spin_kind found before the clear
          locked    \* history: the board with the piece on it

clearVars == <<phase, piece, rotated, board, pending, row, lines, tspin, locked>>

Placements(b) ==
  {p \in [kind : PlayKinds, rotation : Rotations, x : -2 .. W, y : 0 .. H] : Fits(b, p)}

ClearInit ==
  /\ phase = "lock"
  /\ board \in {b \in SUBSET Cells : FullRows(b) = {}}
  /\ piece \in Placements(board)
  /\ rotated \in BOOLEAN
  /\ pending = <<>> /\ row = 0 /\ lines = 0 /\ tspin = "None"
  /\ locked = board \cup CellsOf(piece)

LockCells ==
  /\ phase = "lock"
  /\ phase' = "collect"
  /\ board' = board \cup CellsOf(piece)
  /\ tspin' = IF piece.kind = "T" THEN TSpinKind(rotated, board', piece) ELSE "None"
  /\ UNCHANGED <<piece, rotated, pending, row, lines, locked>>

\* Slip: the rows found are put in front.
CollectInFront ==
  /\ phase = "collect"
  /\ row' = row + 1
  /\ pending' = IF RowFull(board, row) THEN <<row>> \o pending ELSE pending
  /\ phase' = IF row' = H THEN "clear" ELSE phase
  /\ UNCHANGED <<piece, rotated, board, lines, tspin, locked>>

\* The first pass: the next row is looked at; after the last one clearing begins.
CollectRow ==
  /\ phase = "collect"
  /\ row' = row + 1
  /\ pending' = IF RowFull(board, row) THEN Append(pending, row) ELSE pending
  /\ phase' = IF row' = H THEN "clear" ELSE phase
  /\ UNCHANGED <<piece, rotated, board, lines, tspin, locked>>

\* Rows 0..y-1 move onto rows 1..y and the top row empties.
ClearRow(b, y) == {c \in b : c[2] > y} \cup {<<c[1], c[2] + 1>> : c \in {d \in b : d[2] < y}}

ClearNextRow ==
  /\ phase = "clear" /\ pending # <<>>
  /\ board' = ClearRow(board, Head(pending))
  /\ pending' = Tail(pending)
  /\ lines' = lines + 1
  /\ UNCHANGED <<phase, piece, rotated, row, tspin, locked>>

Finish ==
  /\ phase = "clear" /\ pending = <<>>
  /\ phase' = "done"
  /\ UNCHANGED <<piece, rotated, board, pending, row, lines, tspin, locked>>

ClearNext == LockCells \/ CollectRow \/ ClearNextRow \/ Finish

ClearSpec == ClearInit /\ [][ClearNext]_clearVars
-----------------------------------------------------------------------------
\* A clear always scores: no lock meets the zero defaults of the score tables (a
\* mini T-spin with three rows, a full one with four).
ClearAlwaysScores ==
  phase = "done" /\ lines > 0 => LineClearScore(lines, 0, tspin, FALSE) > 0

Atomic ==
  INSTANCE AtomicClear WITH
    field <- IF phase = "done" THEN board ELSE locked,
    gone  <- IF phase = "done" THEN lines ELSE 0

\* The loop over clear_row makes all full rows vanish at once, seen from outside:
\* clearing one row never disturbs a full row still to be cleared.
ClearsAtOnce == Atomic!Spec
=============================================================================
