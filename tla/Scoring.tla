------------------------------ MODULE Scoring ------------------------------
(***************************************************************************)
(* Points, back-to-back and combo rules of tetris-core, with the           *)
(* saturating u32 arithmetic scaled to U32Max.                             *)
(***************************************************************************)
EXTENDS Integers, Sequences

CONSTANT U32Max   \* the largest u32

ASSUME ScoringAssumption == U32Max \in Nat \ {0}

SatAdd(a, b) == IF a + b > U32Max THEN U32Max ELSE a + b
SatMul(a, b) == IF a * b > U32Max THEN U32Max ELSE a * b
\* Slip: a timer that runs past zero.
PlainSub(a, b) == a - b

SatSub(a, b) == IF a < b THEN 0 ELSE a - b

TSpinKinds == {"None", "Mini", "Full"}

LINE_SCORES == <<40, 100, 300, 1200>>
COMBO_BASE  == 50

\* calculate_line_score: the classic table; no points outside 1..4 lines.
LineScore(lines, level) ==
  IF lines \in 1..4 THEN SatMul(LINE_SCORES[lines], SatAdd(level, 1)) ELSE 0

TSpinBase(tspin, lines) ==
  CASE tspin = "Full" /\ lines \in 0..3 -> (lines + 1) * 400
    [] tspin = "Mini" /\ lines = 0 -> 100
    [] tspin = "Mini" /\ lines = 1 -> 200
    [] tspin = "Mini" /\ lines = 2 -> 400
    [] OTHER -> 0

TSpinScore(tspin, lines, level) == SatMul(TSpinBase(tspin, lines), SatAdd(level, 1))

ComboBonus(combo) == IF combo <= 0 THEN 0 ELSE SatMul(COMBO_BASE, combo)

QualifiesForB2B(tspin, lines) ==
  \/ tspin = "Full" /\ lines \in 1..4
  \/ tspin = "None" /\ lines = 4

\* The base points of a clear with the 3/2 back-to-back multiplier.
LineClearScore(lines, level, tspin, previousB2B) ==
  LET base == IF tspin = "None" THEN LineScore(lines, level)
                                ELSE TSpinScore(tspin, lines, level)
  IN  IF QualifiesForB2B(tspin, lines) /\ previousB2B THEN SatMul(base, 3) \div 2
                                                      ELSE base

TotalScore(lines, level, tspin, combo, previousB2B) ==
  SatAdd(LineClearScore(lines, level, tspin, previousB2B), ComboBonus(combo))

DropScore(cells, hard) == IF hard THEN SatMul(cells, 2) ELSE cells
=============================================================================
