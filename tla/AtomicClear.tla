---------------------------- MODULE AtomicClear ----------------------------
(***************************************************************************)
(* What a lock promises of the board: either no row is full and it stays,  *)
(* or all its full rows vanish at once.                                    *)
(***************************************************************************)
EXTENDS Board

VARIABLES field,   \* the board
          gone     \* rows cleared

Init == field \in SUBSET Cells /\ gone = 0

Clear ==
  /\ FullRows(field) # {}
  /\ field' = ClearFullRows(field)
  /\ gone' = Cardinality(FullRows(field))

Spec == Init /\ [][Clear]_<<field, gone>>
=============================================================================
