---------------------------- MODULE GameProofs ----------------------------
(***************************************************************************)
(* The safety of the rules engine for every board size, bag, generator,    *)
(* timing and set of inputs.  Good is the inductive invariant; every       *)
(* operator of GameState preserves it, and the theorems at the end read    *)
(* the properties of GameSafety off it.                                    *)
(***************************************************************************)
EXTENDS GameSafety, BoardProofs

-----------------------------------------------------------------------------
(* The bag. *)

USE QueueAssumption DEF Bags

\* A new queue is a queue.
LEMMA NewQueueOK ==
  ASSUME NEW s \in RngStates
  PROVE  QueueOK(NewQueue(s))
  BY DEF NewQueue, Refill, QueueOK

\* Readying the queue for a draw leaves a piece to take.
LEMMA ReadyOK ==
  ASSUME NEW q, QueueOK(q)
  PROVE  QueueOK(Ready(q)) /\ Ready(q).index < BagSize
  BY DEF Ready, Refill, QueueOK

\* Drawing keeps the queue well formed and yields a piece of the game.
LEMMA DrawOK ==
  ASSUME NEW q, QueueOK(q)
  PROVE  QueueOK(Draw(q)) /\ Drawn(q) \in Kinds
<1>1. QueueOK(Ready(q)) /\ Ready(q).index < BagSize
  BY ReadyOK
<1>2. Ready(q).index + 1 \in 1..BagSize
  BY <1>1 DEF QueueOK
<1>3. Drawn(q) \in Kinds
  BY <1>1, <1>2 DEF Drawn, QueueOK
<1>4. QueueOK(Draw(q))
  BY <1>1, <1>2 DEF Draw, QueueOK
<1> QED BY <1>3, <1>4

\* peek never lies: it is the piece the next draw takes, also when that draw
\* has to shuffle a new bag first.
THEOREM PeekIsNextDraw ==
  ASSUME NEW q, QueueOK(q)
  PROVE  Peek(q) = Drawn(q)
<1>1. CASE q.index < BagSize
  BY <1>1 DEF Peek, Drawn, Ready, QueueOK
<1>2. CASE q.index >= BagSize
  <2>1. q.index = BagSize
    BY <1>2 DEF QueueOK
  <2>2. Ready(q).index = 0 /\ Ready(q).bag = NextBag[q.rng]
    BY <1>2 DEF Ready, Refill, QueueOK
  <2> QED BY <2>1, <2>2 DEF Peek, Drawn
<1> QED BY <1>1, <1>2 DEF QueueOK

\* The preview shows pieces of the game.
LEMMA PreviewOK ==
  ASSUME NEW q, QueueOK(q)
  PROVE  Preview(q) \in [1..PreviewLen -> Kinds]
<1> SUFFICES ASSUME NEW i \in 1..PreviewLen
             PROVE  (IF q.index + i <= BagSize THEN q.bag[q.index + i]
                     ELSE NextBag[q.rng][q.index + i - BagSize]) \in Kinds
  BY DEF Preview
<1>1. CASE q.index + i <= BagSize
  <2>1. q.index + i \in 1..BagSize
    BY <1>1 DEF QueueOK
  <2> QED BY <1>1, <2>1 DEF QueueOK
<1>2. CASE ~ (q.index + i <= BagSize)
  <2>1. q.index + i - BagSize \in 1..BagSize
    BY <1>2 DEF QueueOK
  <2>2. NextBag[q.rng] \in Bags
    BY DEF QueueOK
  <2> QED BY <1>2, <2>1, <2>2
<1> QED BY <1>1, <1>2

\* The first piece of the preview is the next draw.
THEOREM PreviewHeadIsNextDraw ==
  ASSUME NEW q, QueueOK(q)
  PROVE  Preview(q)[1] = Drawn(q)
<1>1. Preview(q)[1] = Peek(q)
  BY DEF Preview, Peek, QueueOK
<1> QED BY <1>1, PeekIsNextDraw

\* A draw shifts the preview by one and changes no piece already shown, also
\* across the boundary of a bag.
THEOREM PreviewShifts ==
  ASSUME NEW q, QueueOK(q), NEW i \in 1 .. PreviewLen-1
  PROVE  Preview(Draw(q))[i] = Preview(q)[i + 1]
<1>0. i \in 1..PreviewLen /\ i + 1 \in 1..PreviewLen
  OBVIOUS
<1>1. CASE q.index < BagSize
  <2>1. /\ Draw(q).index = q.index + 1
        /\ Draw(q).bag = q.bag
        /\ Draw(q).rng = q.rng
    BY <1>1 DEF Draw, Ready, QueueOK
  <2> QED BY <1>0, <2>1 DEF Preview, QueueOK
<1>2. CASE q.index = BagSize
  <2>1. /\ Draw(q).index = 1
        /\ Draw(q).bag = NextBag[q.rng]
    BY <1>2 DEF Draw, Ready, Refill, QueueOK
  <2>2. Preview(Draw(q))[i] = NextBag[q.rng][1 + i]
    BY <1>0, <2>1 DEF Preview
  <2>3. Preview(q)[i + 1] = NextBag[q.rng][i + 1]
    BY <1>0, <1>2 DEF Preview
  <2> QED BY <2>2, <2>3
<1> QED BY <1>1, <1>2 DEF QueueOK

HIDE QueueAssumption DEF Bags
-----------------------------------------------------------------------------
(* The inductive invariant, in parts. *)

Fit(g)    == g.active # None => Fits(g.board, g.active)
NoFull(g) == FullRows(g.board) = {}
Live(g)   == g.started /\ ~ g.game_over => g.active # None
Timers(g) == g.active # None /\ ~ Grounded(g.board, g.active) =>
               g.lock_timer = 0 /\ g.lock_reset_count = 0
Fresh(g)  == g.next_queue = Preview(g.queue)
Soft(g)   == g.is_soft_dropping <=> g.soft_drop_timer > 0

\* What every operator keeps at every moment.
Steady(g) == GameOK(g) /\ Fit(g) /\ NoFull(g) /\ Fresh(g) /\ Soft(g)

\* What holds between operations.
Good(g) == Steady(g) /\ Live(g) /\ Timers(g)

\* Operators that leave most of a game alone.
SameField(n, g) == /\ n.board = g.board /\ n.active = g.active
                   /\ n.queue = g.queue /\ n.next_queue = g.next_queue
                   /\ n.started = g.started /\ n.game_over = g.game_over
                   /\ n.is_soft_dropping = g.is_soft_dropping
                   /\ n.soft_drop_timer = g.soft_drop_timer

SameClock(n, g) == n.lock_timer = g.lock_timer /\ n.lock_reset_count = g.lock_reset_count

LEMMA FrameSteady ==
  ASSUME NEW g, NEW n, Steady(g), GameOK(n), SameField(n, g)
  PROVE  Steady(n) /\ (Live(g) => Live(n))
  BY DEF SameField, Steady, Fit, NoFull, Live, Fresh, Soft

LEMMA FrameGood ==
  ASSUME NEW g, NEW n, Good(g), GameOK(n), SameField(n, g), SameClock(n, g)
  PROVE  Good(n)
<1>1. Steady(n) /\ Live(n)
  BY FrameSteady DEF Good
<1>2. Timers(n)
  BY DEF Good, SameField, SameClock, Timers
<1> QED BY <1>1, <1>2 DEF Good
-----------------------------------------------------------------------------
(* Pieces and arithmetic. *)

LEMMA ConstantsOK ==
  /\ SoftDropGrace \in Nat \ {0} /\ LockDelay \in Nat \ {0}
  /\ LinesPerLevel \in Nat \ {0} /\ StepModulus \in Nat \ {0}
  /\ LockResetLimit \in Nat /\ LineClearPause \in Nat /\ LandingFlash \in Nat
  /\ TickTimes \subseteq Nat
  BY GameAssumption

\* Where the counters of a fresh piece start.
LEMMA ZeroOK == 0 \in 0..LockResetLimit /\ 0 \in 0 .. StepModulus-1
  BY ConstantsOK

LEMMA PieceIsAnyPiece == Piece \subseteq AnyPiece
  BY GameAssumption DEF Piece, AnyPiece

LEMMA NewPieceOK ==
  ASSUME NEW k \in Kinds
  PROVE  NewPiece(k) \in Piece /\ NewPiece(k) # None
  BY GameAssumption DEF NewPiece, Piece, Rotations, North

LEMMA SatOK ==
  ASSUME NEW a \in Nat, NEW c \in Nat
  PROVE  /\ SatAdd(a, c) \in Nat /\ SatSub(a, c) \in Nat /\ SatMul(a, c) \in Nat
  BY ScoringAssumption DEF SatAdd, SatSub, SatMul

\* No combination of lines, T-spin, level and combo gives a negative score.
LEMMA ScoresOK ==
  ASSUME NEW lines \in Nat, NEW level \in Nat, NEW tspin \in TSpinKinds,
         NEW combo \in Int, NEW b2b \in BOOLEAN
  PROVE  /\ TSpinScore(tspin, lines, level) \in Nat
         /\ LineClearScore(lines, level, tspin, b2b) \in Nat
         /\ TotalScore(lines, level, tspin, combo, b2b) \in Nat
         /\ QualifiesForB2B(tspin, lines) \in BOOLEAN
<1>1. SatAdd(level, 1) \in Nat
  BY SatOK
<1>2. TSpinBase(tspin, lines) \in Nat
  BY DEF TSpinBase, TSpinKinds
<1>3. TSpinScore(tspin, lines, level) \in Nat
  BY <1>1, <1>2, SatOK DEF TSpinScore
<1>4. LineScore(lines, level) \in Nat
  <2>1. \A i \in 1..4 : LINE_SCORES[i] \in Nat
    BY DEF LINE_SCORES
  <2> QED BY <1>1, <2>1, SatOK DEF LineScore
<1>5. LineClearScore(lines, level, tspin, b2b) \in Nat
  <2> DEFINE base == IF tspin = "None" THEN LineScore(lines, level)
                                       ELSE TSpinScore(tspin, lines, level)
  <2>1. base \in Nat
    BY <1>3, <1>4
  <2>2. SatMul(base, 3) \div 2 \in Nat
    <3>1. SatMul(base, 3) \in Nat
      BY <2>1, SatOK
    <3> QED BY <3>1
  <2>3. LineClearScore(lines, level, tspin, b2b)
          = IF QualifiesForB2B(tspin, lines) /\ b2b THEN SatMul(base, 3) \div 2 ELSE base
    BY DEF LineClearScore
  <2> QED BY <2>1, <2>2, <2>3
<1>6. ComboBonus(combo) \in Nat
  BY SatOK DEF ComboBonus, COMBO_BASE
<1>7. TotalScore(lines, level, tspin, combo, b2b) \in Nat
  BY <1>5, <1>6, SatOK DEF TotalScore
<1>8. QualifiesForB2B(tspin, lines) \in BOOLEAN
  BY Zenon DEF QualifiesForB2B
<1> QED BY <1>3, <1>5, <1>7, <1>8
-----------------------------------------------------------------------------
(* Spawning and moving. *)

\* A spawn gives a playable game or ends it, and never loses the preview.
LEMMA SpawnGood ==
  ASSUME NEW g, Steady(g), Timers(g)
  PROVE  Good(SpawnPiece(g))
<1> DEFINE piece == NewPiece(Peek(g.queue))
           rest  == Draw(g.queue)
<1>1. QueueOK(rest) /\ piece \in Piece /\ piece # None
  BY DrawOK, PeekIsNextDraw, NewPieceOK DEF Steady, GameOK
<1>2. Preview(rest) \in [1..PreviewLen -> Kinds]
  BY <1>1, PreviewOK
<1>3. CASE Fits(g.board, piece)
  <2> DEFINE m == [g EXCEPT !.queue = rest, !.active = piece,
                     !.piece_id = @ + 1, !.active_id = @ + 1]
             n == [m EXCEPT !.step_in_piece = 0,
                     !.can_hold = TRUE, !.lock_timer = 0, !.lock_reset_count = 0,
                     !.last_action_was_rotate = FALSE, !.next_queue = Preview(rest)]
  <2>1. SpawnPiece(g) = n
    BY <1>3 DEF SpawnPiece
  <2> HIDE DEF piece, rest
  <2>2. GameOK(m)
    BY <1>1 DEF Steady, GameOK, GameFields
  <2>3. /\ n.active = piece /\ n.board = g.board /\ n.queue = rest
        /\ n.next_queue = Preview(rest) /\ n.lock_timer = 0 /\ n.lock_reset_count = 0
        /\ n.is_soft_dropping = g.is_soft_dropping /\ n.soft_drop_timer = g.soft_drop_timer
    BY DEF Steady, GameOK, GameFields
  <2> HIDE DEF m
  <2>4. GameOK(n)
    BY <1>2, <2>2, ZeroOK DEF GameOK, GameFields
  <2> HIDE DEF n
  <2> QED BY <1>1, <1>3, <2>1, <2>3, <2>4
          DEF Good, Steady, Fit, NoFull, Live, Timers, Fresh, Soft
<1>4. CASE ~ Fits(g.board, piece)
  <2> DEFINE n == [g EXCEPT !.game_over = TRUE]
  <2>1. SpawnPiece(g) = n
    BY <1>4 DEF SpawnPiece
  <2>2. GameOK(n)
    BY DEF Steady, GameOK, GameFields
  <2>3. /\ n.active = g.active /\ n.board = g.board /\ n.queue = g.queue
        /\ n.next_queue = g.next_queue
        /\ n.lock_timer = g.lock_timer /\ n.lock_reset_count = g.lock_reset_count
        /\ n.is_soft_dropping = g.is_soft_dropping /\ n.soft_drop_timer = g.soft_drop_timer
        /\ n.game_over
    BY DEF Steady, GameOK, GameFields
  <2> HIDE DEF n
  <2> QED BY <2>1, <2>2, <2>3 DEF Good, Steady, Fit, NoFull, Live, Timers, Fresh, Soft
<1> QED BY <1>3, <1>4

\* After a move the lock delay belongs to the ground the piece is on now.
LEMMA LockResetGood ==
  ASSUME NEW g, Steady(g), Live(g)
  PROVE  Good(HandleLockReset(g)) /\ HandleLockReset(g).active = g.active
<1> DEFINE zero == [g EXCEPT !.lock_timer = 0, !.lock_reset_count = 0]
           more == [g EXCEPT !.lock_timer = 0, !.lock_reset_count = @ + 1]
<1>1. CASE ~ Grounded(g.board, g.active)
  <2>1. HandleLockReset(g) = zero
    BY <1>1 DEF HandleLockReset
  <2>2. GameOK(zero)
    BY ZeroOK DEF Steady, GameOK, GameFields
  <2> QED BY <1>1, <2>1, <2>2
          DEF Good, Steady, Fit, NoFull, Live, Timers, Fresh, Soft, GameOK, GameFields
<1>2. CASE Grounded(g.board, g.active) /\ g.lock_reset_count < LockResetLimit
  <2>1. HandleLockReset(g) = more
    BY <1>2 DEF HandleLockReset
  <2>2. g.lock_reset_count + 1 \in 0..LockResetLimit
    <3>1. LockResetLimit \in Nat /\ g.lock_reset_count \in 0..LockResetLimit
      BY ConstantsOK DEF Steady, GameOK
    <3> QED BY <1>2, <3>1
  <2>3. GameOK(more)
    BY <2>2 DEF Steady, GameOK, GameFields
  <2> QED BY <1>2, <2>1, <2>3
          DEF Good, Steady, Fit, NoFull, Live, Timers, Fresh, Soft, GameOK, GameFields
<1>3. CASE Grounded(g.board, g.active) /\ ~ (g.lock_reset_count < LockResetLimit)
  <2>1. HandleLockReset(g) = g
    BY <1>3 DEF HandleLockReset
  <2> QED BY <1>3, <2>1 DEF Good, Timers
<1> QED BY <1>1, <1>2, <1>3
\* Moving the active piece onto free cells.
LEMMA PlaceActive ==
  ASSUME NEW g, Steady(g), Live(g), NEW p \in Piece, Fits(g.board, p)
  PROVE  LET n == [g EXCEPT !.active = p]
         IN  Steady(n) /\ Live(n) /\ n.active = p /\ n.board = g.board
<1> DEFINE n == [g EXCEPT !.active = p]
<1>1. GameOK(n)
  BY DEF Steady, GameOK, GameFields
<1>2. /\ n.active = p /\ n.board = g.board /\ n.queue = g.queue
      /\ n.next_queue = g.next_queue
      /\ n.is_soft_dropping = g.is_soft_dropping /\ n.soft_drop_timer = g.soft_drop_timer
  BY DEF Steady, GameOK, GameFields
<1>3. p # None
  BY GameAssumption
<1> HIDE DEF n
<1>4. Steady(n) /\ Live(n)
  BY <1>1, <1>2, <1>3 DEF Steady, Fit, NoFull, Live, Fresh, Soft
<1> QED BY <1>2, <1>4 DEF n

\* Whether the last action was a rotation matters to the score only.
LEMMA MarkGood ==
  ASSUME NEW g, Good(g), NEW turned \in BOOLEAN
  PROVE  Good([g EXCEPT !.last_action_was_rotate = turned])
<1> DEFINE n == [g EXCEPT !.last_action_was_rotate = turned]
<1>1. GameOK(n)
  BY DEF Good, Steady, GameOK, GameFields
<1>2. SameField(n, g) /\ SameClock(n, g)
  BY DEF SameField, SameClock, Good, Steady, GameOK, GameFields
<1> QED BY <1>1, <1>2, FrameGood

LEMMA KindMakesPiece ==
  ASSUME NEW p \in AnyPiece, p.kind \in Kinds
  PROVE  p \in Piece
  BY DEF AnyPiece, Piece

LEMMA ShiftedPiece ==
  ASSUME NEW p \in Piece, NEW dx \in Int, NEW dy \in Int
  PROVE  Shifted(p, dx, dy) \in Piece
<1>1. p \in AnyPiece /\ p.kind \in Kinds
  BY PieceIsAnyPiece DEF Piece
<1> QED BY <1>1, ShiftedOK, KindMakesPiece

\* A refused move changes nothing; an accepted one lands on free cells.
LEMMA TryMoveGood ==
  ASSUME NEW g, Good(g), NEW dx \in Int, NEW dy \in Int
  PROVE  Good(TryMove(g, dx, dy))
<1> DEFINE p == Shifted(g.active, dx, dy)
           n == [g EXCEPT !.active = p]
           moved == HandleLockReset(n)
<1>1. CASE ~ CanMove(g, dx, dy)
  BY <1>1 DEF TryMove
<1>2. CASE CanMove(g, dx, dy)
  <2>1. g.active \in Piece /\ Fits(g.board, p)
    BY <1>2 DEF CanMove, Good, Steady, GameOK
  <2>2. p \in Piece
    BY <2>1, ShiftedPiece
  <2>3. Steady(n) /\ Live(n)
    BY <2>1, <2>2, PlaceActive DEF Good
  <2> HIDE DEF n
  <2>4. Good(moved)
    BY <2>3, LockResetGood
  <2>5. TryMove(g, dx, dy)
          = IF dx # 0 THEN [moved EXCEPT !.last_action_was_rotate = FALSE] ELSE moved
    BY <1>2 DEF TryMove, n
  <2> QED BY <2>4, <2>5, MarkGood
<1> QED BY <1>1, <1>2

LEMMA TryRotateGood ==
  ASSUME NEW g, Good(g), NEW cw \in BOOLEAN
  PROVE  Good(TryRotate(g, cw))
<1> DEFINE first == CHOOSE i \in ValidKicks(g, cw) : \A j \in ValidKicks(g, cw) : i <= j
           p == Kicked(g.active, cw, first)
           n == [g EXCEPT !.active = p]
<1>1. CASE ~ CanRotate(g, cw)
  BY <1>1 DEF TryRotate
<1>2. CASE CanRotate(g, cw)
  <2>1. g.active \in Piece
    BY <1>2 DEF CanRotate, Good, Steady, GameOK
  <2>2. first \in ValidKicks(g, cw)
    <3>1. ValidKicks(g, cw) # {} /\ ValidKicks(g, cw) \subseteq Nat
      BY <1>2 DEF CanRotate, ValidKicks
    <3>2. \E i \in ValidKicks(g, cw) : \A j \in ValidKicks(g, cw) : i <= j
      BY <3>1, LeastDistance
    <3> QED BY <3>2
  <2>3. first \in 1..5 /\ Fits(g.board, p)
    BY <2>2 DEF ValidKicks
  <2> HIDE DEF first
  <2>4. p \in Piece
    <3>1. g.active \in AnyPiece /\ g.active.kind \in Kinds
      BY <2>1, PieceIsAnyPiece DEF Piece
    <3> QED BY <2>3, <3>1, KickedOK, KindMakesPiece
  <2>5. Steady(n) /\ Live(n)
    BY <2>3, <2>4, PlaceActive DEF Good
  <2>6. TryRotate(g, cw) = [HandleLockReset(n) EXCEPT !.last_action_was_rotate = TRUE]
    BY <1>2 DEF TryRotate, first
  <2> HIDE DEF n
  <2> QED BY <2>5, <2>6, LockResetGood, MarkGood
<1> QED BY <1>1, <1>2
-----------------------------------------------------------------------------
(* Locking and dropping. *)

\* A set of rows is finite.
LEMMA RowsFinite ==
  ASSUME NEW b
  PROVE  Cardinality(FullRows(b)) \in Nat
<1>1. 0 \in Int /\ H - 1 \in Int /\ FullRows(b) \in SUBSET (0 .. H-1)
  BY BoardAssumption DEF FullRows, Rows
<1>2. IsFiniteSet(FullRows(b))
  BY <1>1, FS_Interval, FS_Subset
<1> QED BY <1>2, FS_CardinalityType

\* The level of a number of lines.
LEMMA QuotientOK ==
  ASSUME NEW a \in Nat
  PROVE  a \div LinesPerLevel \in Nat
<1>1. \A d \in Nat \ {0} : a \div d \in Nat
  OBVIOUS
<1> QED BY <1>1, ConstantsOK

\* Scoring a lock changes counters only.
LEMMA ApplyLineClearOK ==
  ASSUME NEW g, GameOK(g), NEW lines \in Nat, NEW tspin \in TSpinKinds
  PROVE  LET n == ApplyLineClear(g, lines, tspin)
         IN  GameOK(n) /\ SameField(n, g) /\ SameClock(n, g)
<1>1. CASE lines = 0
  <2> DEFINE points == TSpinScore(tspin, 0, g.level)
             n == [g EXCEPT !.combo = -1, !.back_to_back = FALSE, !.score = SatAdd(@, points)]
  <2>1. points \in Nat
    BY ScoresOK DEF GameOK
  <2>2. SatAdd(g.score, points) \in Nat
    BY <2>1, SatOK DEF GameOK
  <2>3. ApplyLineClear(g, lines, tspin) = n
    BY <1>1 DEF ApplyLineClear
  <2> HIDE DEF points
  <2>4. GameOK(n)
    BY <2>2 DEF GameOK, GameFields
  <2>5. SameField(n, g) /\ SameClock(n, g)
    BY DEF SameField, SameClock, GameOK, GameFields
  <2> QED BY <2>3, <2>4, <2>5
<1>2. CASE lines # 0
  <2> DEFINE sum == SatAdd(g.lines, lines)
             points == TotalScore(lines, g.level, tspin, g.combo + 1, g.back_to_back)
  <2>1. sum \in Nat
    BY SatOK DEF GameOK
  <2>2. points \in Nat /\ QualifiesForB2B(tspin, lines) \in BOOLEAN
    <3>1. g.level \in Nat /\ g.combo + 1 \in Int
      BY SMT DEF GameOK
    <3>2. g.back_to_back \in BOOLEAN
      BY Zenon DEF GameOK
    <3>3. /\ TotalScore(lines, g.level, tspin, g.combo + 1, g.back_to_back) \in Nat
          /\ QualifiesForB2B(tspin, lines) \in BOOLEAN
      BY <3>1, <3>2, ScoresOK, Zenon
    <3> QED BY <3>3
  <2>3. PICK b2b \in BOOLEAN : b2b = QualifiesForB2B(tspin, lines)
    BY <2>2
  <2>4. PICK level \in Nat : level = sum \div LinesPerLevel
    <3> HIDE DEF sum
    <3> QED BY <2>1, QuotientOK
  <2>5. PICK score \in Nat : score = SatAdd(g.score, points)
    <3>1. g.score \in Nat
      BY SMT DEF GameOK
    <3>2. points \in Nat
      BY <2>2
    <3> HIDE DEF points
    <3>3. SatAdd(g.score, points) \in Nat
      BY <3>1, <3>2, SatOK
    <3> QED BY <3>3
  <2>6. PICK total \in Nat, combo \in Int : total = sum /\ combo = g.combo + 1
    <3>1. g.combo + 1 \in Int
      BY SMT DEF GameOK
    <3> HIDE DEF sum
    <3> QED BY <2>1, <3>1
  <2> DEFINE m == [g EXCEPT !.combo = combo, !.lines = total, !.level = level,
                            !.back_to_back = b2b]
             n == [m EXCEPT !.score = score, !.line_clear_timer = LineClearPause,
                            !.landing_flash = LandingFlash]
  <2>7. ApplyLineClear(g, lines, tspin) = n
    <3>1. m.score = g.score
      BY DEF GameOK, GameFields
    <3> QED BY <1>2, <2>3, <2>4, <2>5, <2>6 DEF ApplyLineClear
  <2>8. LineClearPause \in Nat /\ LandingFlash \in Nat
    BY ConstantsOK
  <2>9. GameOK(m)
    BY DEF GameOK, GameFields
  <2>10. SameField(n, g) /\ SameClock(n, g)
    BY DEF SameField, SameClock, GameOK, GameFields
  <2> HIDE DEF m
  <2>11. GameOK(n)
    BY <2>8, <2>9 DEF GameOK, GameFields
  <2> QED BY <2>7, <2>10, <2>11
<1> QED BY <1>1, <1>2

LEMMA LockEventOK ==
  ASSUME NEW g, GameOK(g), NEW n, GameOK(n), NEW lines \in Nat, NEW tspin \in TSpinKinds
  PROVE  LockEvent(g, n, lines, tspin) \in LastEvents
<1>1. LineClearScore(lines, g.level, tspin, g.back_to_back) \in Nat
  BY ScoresOK DEF GameOK
<1> QED BY <1>1 DEF LastEvents, LockEvent, GameOK, TSpinKinds

\* A lock fills free cells of the board, clears every full row, and spawns.
LEMMA LockGood ==
  ASSUME NEW g, Steady(g), g.active # None
  PROVE  Good(LockPiece(g))
<1> DEFINE piece  == g.active
           fits   == Fits(g.board, piece)
           locked == g.board \cup CellsOf(piece)
           tspin  == IF fits /\ piece.kind = "T"
                     THEN TSpinKind(g.last_action_was_rotate, locked, piece) ELSE "None"
           lines  == Cardinality(FullRows(locked))
           id     == NextBoardId(g.board_id, fits, lines)
           placed == [g EXCEPT !.landing_flash = LandingFlash, !.active = None,
                               !.board = ClearFullRows(locked), !.board_id = id]
           scored == ApplyLineClear(placed, lines, tspin)
           event  == LockEvent(g, scored, lines, tspin)
           told   == [scored EXCEPT !.last_event = event]
<1>1. piece \in Piece /\ fits /\ g.board \subseteq Cells
  BY DEF Steady, GameOK, Fit
<1>2. locked \subseteq Cells
  BY <1>1 DEF CellsOf, Fits
<1>3. tspin \in TSpinKinds
  BY DEF TSpinKind, TSpinKinds
<1>4. lines \in Nat
  BY RowsFinite
<1>5. ClearFullRows(locked) \subseteq Cells /\ FullRows(ClearFullRows(locked)) = {}
  <2> HIDE DEF locked
  <2> QED BY <1>2, ClearKeepsCells, ClearLeavesNoFullRow
<1>6. LockPiece(g) = IF told.game_over THEN told ELSE SpawnPiece(told)
  BY <1>1, Zenon DEF LockPiece, NextBoardId
<1>7. id \in Nat
  BY <1>1 DEF NextBoardId, Good, Steady, GameOK
<1>8. LandingFlash \in Nat
  BY ConstantsOK
<1> HIDE DEF fits, locked, tspin, lines, id
<1>9. GameOK(placed)
  BY <1>5, <1>7, <1>8 DEF Steady, GameOK, GameFields
<1>10. /\ placed.active = None /\ placed.board = ClearFullRows(locked)
       /\ placed.queue = g.queue /\ placed.next_queue = g.next_queue
       /\ placed.is_soft_dropping = g.is_soft_dropping
       /\ placed.soft_drop_timer = g.soft_drop_timer
  BY DEF Steady, GameOK, GameFields
<1> HIDE DEF placed
<1>11. Steady(placed)
  BY <1>5, <1>9, <1>10 DEF Steady, Fit, NoFull, Fresh, Soft
<1>12. GameOK(scored) /\ SameField(scored, placed)
  BY <1>3, <1>4, <1>9, ApplyLineClearOK
<1>13. event \in LastEvents
  BY <1>3, <1>4, <1>12, LockEventOK DEF Steady
<1>14. Steady(scored) /\ scored.active = None
  BY <1>10, <1>11, <1>12, FrameSteady DEF SameField
<1> HIDE DEF scored, event
<1>15. GameOK(told)
  BY <1>12, <1>13 DEF GameOK, GameFields
<1>16. SameField(told, scored)
  BY <1>12 DEF GameOK, GameFields, SameField
<1> HIDE DEF told
<1>17. Steady(told) /\ Timers(told)
  BY <1>14, <1>15, <1>16, FrameSteady DEF Timers, SameField
<1> QED BY <1>6, <1>17, SpawnGood DEF Good, Live

\* Adding points disturbs nothing.
LEMMA AddScoreGood ==
  ASSUME NEW g, Good(g), NEW points \in Nat
  PROVE  Good([g EXCEPT !.score = SatAdd(@, points)])
<1> DEFINE n == [g EXCEPT !.score = SatAdd(@, points)]
<1>1. SatAdd(g.score, points) \in Nat
  BY SatOK DEF Good, Steady, GameOK
<1>2. GameOK(n)
  BY <1>1 DEF Good, Steady, GameOK, GameFields
<1>3. SameField(n, g) /\ SameClock(n, g)
  BY DEF SameField, SameClock, Good, Steady, GameOK, GameFields
<1> QED BY <1>2, <1>3, FrameGood

\* Any distance up to the drop distance is free.
LEMMA FallFits ==
  ASSUME NEW g, GameOK(g), Fit(g), g.active # None,
         NEW k \in 0..DropDistance(g.board, g.active)
  PROVE  /\ Shifted(g.active, 0, k) \in Piece
         /\ Fits(g.board, Shifted(g.active, 0, k))
<1>1. g.active \in Piece /\ Fits(g.board, g.active)
  BY DEF GameOK, Fit
<1>2. g.active \in AnyPiece
  BY <1>1, PieceIsAnyPiece
<1>3. DropDistance(g.board, g.active) \in Nat /\ k \in Int
  BY <1>1, <1>2, DropDistanceOK, BoardAssumption
<1> QED BY <1>1, <1>2, <1>3, DropDistanceOK, ShiftedPiece

LEMMA DropDistanceNat ==
  ASSUME NEW g, GameOK(g), Fit(g), g.active # None
  PROVE  DropDistance(g.board, g.active) \in Nat
<1>1. g.active \in AnyPiece /\ Fits(g.board, g.active)
  BY PieceIsAnyPiece DEF GameOK, Fit
<1> QED BY <1>1, DropDistanceOK, BoardAssumption

\* A hard drop lands the piece on free cells.
LEMMA DroppedSteady ==
  ASSUME NEW g, Good(g), g.active # None
  PROVE  Steady(Dropped(g)) /\ Dropped(g).active # None
<1> DEFINE d == DropDistance(g.board, g.active)
<1>1. d \in Nat
  BY DropDistanceNat DEF Good, Steady
<1>2. Shifted(g.active, 0, d) \in Piece /\ Fits(g.board, Shifted(g.active, 0, d))
  <2>1. d \in 0..d
    BY <1>1
  <2> HIDE DEF d
  <2> QED BY <2>1, FallFits DEF d, Good, Steady
<1>3. Dropped(g) = [g EXCEPT !.active = Shifted(g.active, 0, d)]
  BY DEF Dropped
<1>4. Shifted(g.active, 0, d) # None
  BY <1>2, GameAssumption
<1> HIDE DEF d
<1> QED BY <1>2, <1>3, <1>4, PlaceActive DEF Good

LEMMA HardDropGood ==
  ASSUME NEW g, Good(g)
  PROVE  Good(HardDrop(g))
<1> DEFINE ready == [g EXCEPT !.last_action_was_rotate = FALSE]
           d == DropDistance(g.board, g.active)
<1>1. Good(ready)
  BY MarkGood
<1>2. CASE g.active = None
  BY <1>1, <1>2 DEF HardDrop
<1>3. CASE g.active # None
  <2>1. DropScore(d, TRUE) \in Nat
    BY <1>3, DropDistanceNat, SatOK DEF DropScore, Good, Steady
  <2>2. ready.active = g.active
    BY DEF Good, Steady, GameOK, GameFields
  <2> HIDE DEF ready, d
  <2>3. Steady(Dropped(ready)) /\ Dropped(ready).active # None
    BY <1>1, <1>3, <2>2, DroppedSteady
  <2>4. HardDrop(g) = [LockPiece(Dropped(ready)) EXCEPT !.score = SatAdd(@, DropScore(d, TRUE))]
    BY <1>3 DEF HardDrop, ready, d
  <2> QED BY <2>1, <2>3, <2>4, LockGood, AddScoreGood
<1> QED BY <1>2, <1>3

\* A soft drop switches its speed on together with its timer.
LEMMA SoftDropGood ==
  ASSUME NEW g, Good(g)
  PROVE  Good(SoftDrop(g))
<1> DEFINE t == TryMove(g, 0, 1)
           points == IF CanMove(g, 0, 1) THEN SatAdd(t.score, DropScore(1, FALSE)) ELSE t.score
           n == [t EXCEPT !.score = points, !.is_soft_dropping = TRUE,
                          !.soft_drop_timer = SoftDropGrace,
                          !.last_action_was_rotate = FALSE]
<1>1. Good(t)
  BY TryMoveGood
<1> HIDE DEF t
<1>2. points \in Nat
  BY <1>1, SatOK DEF DropScore, Good, Steady, GameOK
<1>3. SoftDrop(g) = n
  BY DEF SoftDrop, t
<1> HIDE DEF points
<1>4. SoftDropGrace \in Nat /\ SoftDropGrace > 0
  BY ConstantsOK
<1>5. GameOK(n)
  BY <1>1, <1>2, <1>4 DEF Good, Steady, GameOK, GameFields
<1>6. /\ n.active = t.active /\ n.board = t.board /\ n.queue = t.queue
      /\ n.next_queue = t.next_queue
      /\ n.lock_timer = t.lock_timer /\ n.lock_reset_count = t.lock_reset_count
      /\ n.is_soft_dropping = TRUE /\ n.soft_drop_timer = SoftDropGrace
      /\ n.started = t.started /\ n.game_over = t.game_over
  BY <1>1 DEF Good, Steady, GameOK, GameFields
<1> HIDE DEF n
<1> QED BY <1>1, <1>3, <1>4, <1>5, <1>6
        DEF Good, Steady, Fit, NoFull, Live, Timers, Fresh, Soft

\* A hold leaves the new piece with no lock time.
LEMMA AfterHoldGood ==
  ASSUME NEW g, Steady(g), Live(g)
  PROVE  Good(AfterHold(g))
<1> DEFINE n == [g EXCEPT !.can_hold = FALSE, !.lock_timer = 0,
                          !.lock_reset_count = 0, !.last_action_was_rotate = FALSE]
<1>1. GameOK(n)
  BY ZeroOK DEF Good, Steady, GameOK, GameFields
<1>2. SameField(n, g) /\ n.lock_timer = 0 /\ n.lock_reset_count = 0
  BY DEF SameField, Good, Steady, GameOK, GameFields
<1> HIDE DEF n
<1>3. Steady(n) /\ Live(n)
  BY <1>1, <1>2, FrameSteady DEF Good
<1>4. Timers(n)
  BY <1>2 DEF Timers
<1> QED BY <1>3, <1>4 DEF Good, AfterHold, n

\* A hold swaps the active piece, spawns a new one, or ends the game.
LEMMA HoldGood ==
  ASSUME NEW g, Good(g)
  PROVE  Good(Hold(g))
<1>1. CASE ~ g.can_hold \/ g.active = None
  BY <1>1 DEF Hold
<1>2. CASE ~ (~ g.can_hold \/ g.active = None) /\ g.hold = None
  <2> DEFINE n == [g EXCEPT !.hold = g.active.kind]
  <2>1. g.active.kind \in Kinds
    BY <1>2 DEF Good, Steady, GameOK, Piece
  <2>2. GameOK(n)
    BY <2>1 DEF Good, Steady, GameOK, GameFields
  <2>3. SameField(n, g) /\ SameClock(n, g)
    BY DEF SameField, SameClock, Good, Steady, GameOK, GameFields
  <2>4. Good(n)
    BY <2>2, <2>3, FrameGood
  <2>5. Hold(g) = AfterHold(SpawnPiece(n))
    BY <1>2 DEF Hold
  <2> HIDE DEF n
  <2> QED BY <2>4, <2>5, SpawnGood, AfterHoldGood DEF Good
<1>3. CASE ~ (~ g.can_hold \/ g.active = None) /\ g.hold # None
  <2> DEFINE piece == NewPiece(g.hold)
             swapped == [g EXCEPT !.active = piece, !.hold = g.active.kind,
                                  !.active_id = @ + 1, !.step_in_piece = 0]
             lost == [swapped EXCEPT !.game_over = TRUE, !.active = None]
  <2>1. g.active.kind \in Kinds /\ g.hold \in Kinds
    BY <1>3 DEF Good, Steady, GameOK, Piece
  <2>2. piece \in Piece /\ piece # None
    BY <2>1, NewPieceOK
  <2>3. Hold(g) = IF Fits(g.board, swapped.active) THEN AfterHold(swapped) ELSE lost
    BY <1>3 DEF Hold
  <2> HIDE DEF piece
  <2>4. GameOK(swapped)
    BY <2>1, <2>2, ZeroOK DEF Good, Steady, GameOK, GameFields
  <2>5. /\ swapped.active = piece /\ swapped.board = g.board /\ swapped.queue = g.queue
        /\ swapped.next_queue = g.next_queue
        /\ swapped.is_soft_dropping = g.is_soft_dropping
        /\ swapped.soft_drop_timer = g.soft_drop_timer
    BY DEF Good, Steady, GameOK, GameFields
  <2> HIDE DEF swapped
  <2>6. CASE Fits(g.board, piece)
    <3>1. Steady(swapped) /\ Live(swapped)
      BY <2>2, <2>4, <2>5, <2>6 DEF Good, Steady, Fit, NoFull, Live, Fresh, Soft
    <3>2. Good(AfterHold(swapped))
      BY <3>1, AfterHoldGood
    <3> QED BY <2>3, <2>5, <2>6, <3>2
  <2>7. CASE ~ Fits(g.board, piece)
    <3>1. GameOK(lost)
      BY <2>4 DEF GameOK, GameFields
    <3>2. /\ lost.active = None /\ lost.board = g.board /\ lost.queue = g.queue
          /\ lost.next_queue = g.next_queue /\ lost.game_over
          /\ lost.is_soft_dropping = g.is_soft_dropping
          /\ lost.soft_drop_timer = g.soft_drop_timer
      BY <2>4, <2>5 DEF GameOK, GameFields
    <3> HIDE DEF lost
    <3>3. Good(lost)
      BY <3>1, <3>2 DEF Good, Steady, Fit, NoFull, Live, Timers, Fresh, Soft
    <3> QED BY <2>3, <2>5, <2>7, <3>3
  <2> QED BY <2>6, <2>7
<1> QED BY <1>1, <1>2, <1>3
-----------------------------------------------------------------------------
(* Time. *)

LEMMA CountTimersGood ==
  ASSUME NEW g, Good(g), NEW elapsed \in Nat
  PROVE  Good(CountTimers(g, elapsed)) /\ CountTimers(g, elapsed).active = g.active
<1> DEFINE step == IF g.active # None THEN (g.step_in_piece + 1) % StepModulus
                                      ELSE g.step_in_piece
<1>1. step \in 0 .. StepModulus-1
  <2>1. \A a \in Nat, d \in Nat \ {0} : a % d \in 0 .. d-1
    OBVIOUS
  <2>2. g.step_in_piece \in 0 .. StepModulus-1 /\ g.step_in_piece + 1 \in Nat
    <3>1. g.step_in_piece \in 0 .. StepModulus-1
      BY DEF Good, Steady, GameOK
    <3>2. StepModulus \in Nat
      BY ConstantsOK
    <3> QED BY <3>1, <3>2
  <2> QED BY <2>1, <2>2, ConstantsOK
<1>2. PICK flash \in Nat : flash = SatSub(g.landing_flash, elapsed)
  BY SatOK DEF Good, Steady, GameOK
<1>3. PICK pause \in Nat : pause = SatSub(g.line_clear_timer, elapsed)
  BY SatOK DEF Good, Steady, GameOK
<1> DEFINE n == [g EXCEPT !.landing_flash = flash, !.step_in_piece = step,
                          !.line_clear_timer = pause]
<1>4. CountTimers(g, elapsed) = n
  BY <1>2, <1>3 DEF CountTimers
<1> HIDE DEF step
<1>5. GameOK(n)
  BY <1>1 DEF Good, Steady, GameOK, GameFields
<1>6. SameField(n, g) /\ SameClock(n, g)
  BY DEF SameField, SameClock, Good, Steady, GameOK, GameFields
<1> HIDE DEF n
<1> QED BY <1>4, <1>5, <1>6, FrameGood DEF SameField

\* The soft drop ends when its timer does, and only then.
LEMMA SoftDropWindowGood ==
  ASSUME NEW g, Good(g), NEW elapsed \in Nat, NEW softDrop \in BOOLEAN
  PROVE  /\ Good(SoftDropWindow(g, elapsed, softDrop))
         /\ SoftDropWindow(g, elapsed, softDrop).active = g.active
<1> DEFINE on    == softDrop \/ g.is_soft_dropping
           timer == IF softDrop THEN SoftDropGrace ELSE g.soft_drop_timer
           left  == IF on THEN SatSub(timer, elapsed) ELSE timer
           stays == on /\ (timer > 0 => left > 0)
           n     == [g EXCEPT !.soft_drop_timer = left, !.is_soft_dropping = stays]
<1>1. timer \in Nat /\ (on <=> timer > 0)
  <2>1. SoftDropGrace \in Nat /\ SoftDropGrace > 0
    BY ConstantsOK
  <2>2. g.soft_drop_timer \in Nat /\ (g.is_soft_dropping <=> g.soft_drop_timer > 0)
    BY DEF Good, Steady, GameOK, Soft
  <2>3. CASE softDrop
    BY <2>1, <2>3
  <2>4. CASE ~ softDrop
    BY <2>2, <2>4
  <2> QED BY <2>3, <2>4
<1> HIDE DEF on, timer
<1>2. left \in Nat
  BY <1>1, SatOK
<1>3. stays <=> left > 0
  <2>1. CASE on
    BY <1>1, <2>1
  <2>2. CASE ~ on
    BY <1>1, <2>2
  <2> QED BY <2>1, <2>2
<1>4. stays \in BOOLEAN
  BY Zenon
<1>5. SoftDropWindow(g, elapsed, softDrop) = n
  BY DEF SoftDropWindow, on, timer
<1> HIDE DEF left, stays
<1>6. GameOK(n)
  BY <1>2, <1>4 DEF Good, Steady, GameOK, GameFields
<1>7. /\ n.active = g.active /\ n.board = g.board /\ n.queue = g.queue
      /\ n.next_queue = g.next_queue
      /\ n.lock_timer = g.lock_timer /\ n.lock_reset_count = g.lock_reset_count
      /\ n.is_soft_dropping = stays /\ n.soft_drop_timer = left
      /\ n.started = g.started /\ n.game_over = g.game_over
  BY DEF Good, Steady, GameOK, GameFields
<1> HIDE DEF n
<1>8. Good(n)
  BY <1>3, <1>6, <1>7 DEF Good, Steady, Fit, NoFull, Live, Timers, Fresh, Soft
<1> QED BY <1>5, <1>7, <1>8

\* Gravity always has an interval to divide by: its loop ends.
LEMMA DropIntervalOK ==
  ASSUME NEW g, GameOK(g)
  PROVE  DropInterval(g) \in Nat \ {0}
<1> DEFINE i == IF g.level < Len(DropIntervals) THEN g.level + 1 ELSE Len(DropIntervals)
           base == DropIntervals[i]
<1>1. i \in 1..Len(DropIntervals)
  <2>1. g.level \in Nat
    BY DEF GameOK
  <2>2. Len(DropIntervals) \in Nat /\ Len(DropIntervals) > 0
    BY GameAssumption
  <2> QED BY <2>1, <2>2
<1> HIDE DEF i
<1>2. base \in Nat /\ base \div SoftDropMult > 0 /\ SoftDropMult \in Nat \ {0}
  BY <1>1, GameAssumption
<1>3. \A a \in Nat, d \in Nat \ {0} : a \div d \in Nat /\ (a \div d > 0 => a > 0)
  OBVIOUS
<1> HIDE DEF base
<1>4. base \in Nat \ {0} /\ base \div SoftDropMult \in Nat \ {0}
  BY <1>2, <1>3
<1>5. DropInterval(g) = IF g.is_soft_dropping THEN base \div SoftDropMult ELSE base
  BY DEF DropInterval, base, i
<1> QED BY <1>4, <1>5

\* Gravity moves the piece down over free cells only.
LEMMA GravityGood ==
  ASSUME NEW g, Good(g), g.active # None, NEW elapsed \in Nat
  PROVE  Good(Gravity(g, elapsed)) /\ Gravity(g, elapsed).active # None
<1> DEFINE time  == SatAdd(g.drop_timer, elapsed)
           rest  == time % DropInterval(g)
           fall  == DropDistance(g.board, g.active)
           steps == IF time \div DropInterval(g) < fall THEN time \div DropInterval(g) ELSE fall
           timed == [g EXCEPT !.drop_timer = rest]
           p     == Shifted(timed.active, 0, steps)
           lock  == IF steps > 1 THEN 0 ELSE timed.lock_timer
           count == IF steps > 1 THEN 0 ELSE timed.lock_reset_count
           n     == [timed EXCEPT !.active = p, !.lock_timer = lock,
                                  !.lock_reset_count = count]
<1>1. rest \in Nat /\ time \div DropInterval(g) \in Nat
  <2>1. time \in Nat
    BY SatOK DEF Good, Steady, GameOK
  <2>2. DropInterval(g) \in Nat \ {0}
    BY DropIntervalOK DEF Good, Steady
  <2>3. \A a \in Nat, d \in Nat \ {0} : a % d \in Nat /\ a \div d \in Nat
    OBVIOUS
  <2> HIDE DEF time
  <2> QED BY <2>1, <2>2, <2>3
<1>2. fall \in Nat
  BY DropDistanceNat DEF Good, Steady
<1>3. steps \in 0..fall
  BY <1>1, <1>2
<1>4. Gravity(g, elapsed) = IF steps = 0 THEN timed ELSE HandleLockReset(n)
  BY Zenon DEF Gravity
<1> HIDE DEF rest
<1>5. GameOK(timed)
  BY <1>1 DEF Good, Steady, GameOK, GameFields
<1>6. SameField(timed, g) /\ SameClock(timed, g)
  BY DEF SameField, SameClock, Good, Steady, GameOK, GameFields
<1> HIDE DEF timed, fall, steps
<1>7. Good(timed) /\ timed.active # None
  BY <1>5, <1>6, FrameGood DEF SameField
<1>8. p \in Piece /\ Fits(timed.board, p) /\ p # None
  <2>1. p \in Piece /\ Fits(g.board, p)
    BY <1>3, <1>6, FallFits DEF fall, Good, Steady, SameField
  <2> QED BY <1>6, <2>1, GameAssumption DEF SameField
<1>9. lock \in Nat /\ count \in 0..LockResetLimit
  BY <1>5, ZeroOK DEF GameOK
<1> HIDE DEF p, lock, count
<1>10. GameOK(n)
  BY <1>5, <1>8, <1>9 DEF GameOK, GameFields
<1>11. /\ n.active = p /\ n.board = timed.board /\ n.queue = timed.queue
       /\ n.next_queue = timed.next_queue
       /\ n.is_soft_dropping = timed.is_soft_dropping
       /\ n.soft_drop_timer = timed.soft_drop_timer
  BY <1>5 DEF GameOK, GameFields
<1> HIDE DEF n
<1>12. Steady(n) /\ Live(n)
  BY <1>7, <1>8, <1>10, <1>11 DEF Good, Steady, Fit, NoFull, Live, Fresh, Soft
<1>13. Good(HandleLockReset(n)) /\ HandleLockReset(n).active # None
  BY <1>8, <1>11, <1>12, LockResetGood
<1> QED BY <1>4, <1>7, <1>13

\* On the ground the lock delay runs and may lock the piece; above it there is none.
LEMMA RunLockDelayGood ==
  ASSUME NEW g, Good(g), g.active # None, NEW elapsed \in Nat
  PROVE  Good(RunLockDelay(g, elapsed))
<1> DEFINE zero == [g EXCEPT !.lock_timer = 0, !.lock_reset_count = 0]
           due  == [g EXCEPT !.lock_timer = 0, !.drop_timer = 0]
<1>1. CASE ~ Grounded(g.board, g.active)
  <2>1. RunLockDelay(g, elapsed) = HandleLockReset(g)
    BY <1>1 DEF RunLockDelay, HandleLockReset
  <2> QED BY <2>1, LockResetGood DEF Good
<1>2. CASE Grounded(g.board, g.active)
  <2>1. PICK time \in Nat : time = SatAdd(g.lock_timer, elapsed)
    BY SatOK DEF Good, Steady, GameOK
  <2>2. RunLockDelay(g, elapsed)
          = IF time >= LockDelay THEN LockPiece(due) ELSE [g EXCEPT !.lock_timer = time]
    BY <1>2, <2>1 DEF RunLockDelay
  <2>3. GameOK(due) /\ SameField(due, g)
    BY DEF SameField, Good, Steady, GameOK, GameFields
  <2> HIDE DEF due
  <2>4. Good(LockPiece(due))
    BY <2>3, FrameSteady, LockGood DEF Good, SameField
  <2> DEFINE n == [g EXCEPT !.lock_timer = time]
  <2>5. GameOK(n) /\ SameField(n, g)
    BY DEF SameField, Good, Steady, GameOK, GameFields
  <2> HIDE DEF n
  <2>6. Good(n)
    BY <1>2, <2>5, FrameSteady DEF Good, Timers, SameField
  <2> QED BY <2>2, <2>4, <2>6 DEF n
<1> QED BY <1>1, <1>2

LEMMA TickGood ==
  ASSUME NEW g, Good(g), NEW elapsed \in Nat, NEW softDrop \in BOOLEAN
  PROVE  Good(TickGame(g, elapsed, softDrop))
<1> DEFINE counted == CountTimers(g, elapsed)
           window  == SoftDropWindow(counted, elapsed, softDrop)
           fallen  == Gravity(window, elapsed)
<1>1. Good(counted)
  BY CountTimersGood
<1>2. CASE g.paused \/ g.game_over \/ ~ g.started
  BY <1>2 DEF TickGame
<1>3. CASE ~ (g.paused \/ g.game_over \/ ~ g.started)
  <2>1. TickGame(g, elapsed, softDrop)
          = IF counted.line_clear_timer > 0 \/ g.active = None THEN counted
            ELSE RunLockDelay(fallen, elapsed)
    BY <1>3, Zenon DEF TickGame
  <2>2. ASSUME g.active # None PROVE Good(RunLockDelay(fallen, elapsed))
    <3>1. counted.active # None
      BY <2>2, CountTimersGood
    <3> HIDE DEF counted
    <3>2. Good(window) /\ window.active # None
      BY <1>1, <3>1, SoftDropWindowGood
    <3> HIDE DEF window
    <3>3. Good(fallen) /\ fallen.active # None
      BY <3>2, GravityGood
    <3> HIDE DEF fallen
    <3> QED BY <3>3, RunLockDelayGood
  <2> QED BY <1>1, <2>1, <2>2
<1> QED BY <1>2, <1>3
-----------------------------------------------------------------------------
(* Pausing, restarting, and every action. *)

LEMMA NewGameGood ==
  ASSUME NEW seed \in RngStates
  PROVE  /\ Steady(NewGame(seed)) /\ Timers(NewGame(seed)) /\ Live(NewGame(seed))
<1>1. QueueOK(NewQueue(seed)) /\ Preview(NewQueue(seed)) \in [1..PreviewLen -> Kinds]
  BY NewQueueOK, PreviewOK
<1>2. FullRows({}) = {}
  BY BoardAssumption DEF FullRows, RowFull, Columns
<1>3. GameOK(NewGame(seed))
  BY <1>1, ZeroOK DEF NewGame, GameOK, GameFields
<1>4. /\ NewGame(seed).active = None /\ NewGame(seed).board = {}
      /\ NewGame(seed).queue = NewQueue(seed)
      /\ NewGame(seed).next_queue = Preview(NewQueue(seed))
      /\ NewGame(seed).is_soft_dropping = FALSE /\ NewGame(seed).soft_drop_timer = 0
      /\ NewGame(seed).started = FALSE
  BY DEF NewGame
<1> QED BY <1>2, <1>3, <1>4 DEF Steady, Fit, NoFull, Live, Timers, Fresh, Soft

\* Starting needs no playable game: a new one has no piece yet.
LEMMA StartGood ==
  ASSUME NEW g, Good(g)
  PROVE  Good(StartGame(g))
<1> DEFINE n == [g EXCEPT !.started = TRUE]
<1>1. GameOK(n)
  BY DEF Good, Steady, GameOK, GameFields
<1>2. /\ n.board = g.board /\ n.active = g.active
      /\ n.queue = g.queue /\ n.next_queue = g.next_queue
      /\ n.is_soft_dropping = g.is_soft_dropping /\ n.soft_drop_timer = g.soft_drop_timer
      /\ n.lock_timer = g.lock_timer /\ n.lock_reset_count = g.lock_reset_count
  BY DEF Good, Steady, GameOK, GameFields
<1> HIDE DEF n
<1>3. Steady(n) /\ Timers(n)
  BY <1>1, <1>2 DEF Good, Steady, Fit, NoFull, Timers, Fresh, Soft
<1> QED BY <1>3, SpawnGood DEF StartGame, n

LEMMA RestartGood ==
  ASSUME NEW g, GameOK(g), NEW seed \in RngStates
  PROVE  Good(RestartWithSeed(g, seed))
<1> DEFINE fresh == NewGame(seed)
           n == [fresh EXCEPT !.episode_id = g.episode_id + 1]
<1>1. Good(fresh)
  BY NewGameGood DEF Good
<1> HIDE DEF fresh
<1>2. g.episode_id + 1 \in Nat
  BY DEF GameOK
<1>3. GameOK(n)
  BY <1>1, <1>2 DEF Good, Steady, GameOK, GameFields
<1>4. SameField(n, fresh) /\ SameClock(n, fresh)
  BY <1>1 DEF SameField, SameClock, Good, Steady, GameOK, GameFields
<1> HIDE DEF n
<1>5. Good(n)
  BY <1>1, <1>3, <1>4, FrameGood
<1>6. RestartWithSeed(g, seed) = StartGame(n)
  BY DEF RestartWithSeed, n, fresh
<1> QED BY <1>5, <1>6, StartGood

\* Pausing ends a soft drop and its timer together.
LEMMA TogglePauseGood ==
  ASSUME NEW g, Good(g)
  PROVE  Good(TogglePause(g))
<1> DEFINE on   == g.is_soft_dropping /\ g.paused
           left == IF g.paused THEN g.soft_drop_timer ELSE 0
           flip == ~ g.paused
           n    == [g EXCEPT !.paused = flip, !.is_soft_dropping = on,
                             !.soft_drop_timer = left]
<1>1. TogglePause(g) = n
  BY DEF TogglePause
<1>2. left \in Nat /\ (on <=> left > 0)
  BY DEF Good, Steady, GameOK, Soft
<1>3. on \in BOOLEAN /\ flip \in BOOLEAN
  BY Zenon
<1> HIDE DEF on, left, flip
<1>4. GameOK(n)
  BY <1>2, <1>3 DEF Good, Steady, GameOK, GameFields
<1>5. /\ n.active = g.active /\ n.board = g.board /\ n.queue = g.queue
      /\ n.next_queue = g.next_queue
      /\ n.lock_timer = g.lock_timer /\ n.lock_reset_count = g.lock_reset_count
      /\ n.is_soft_dropping = on /\ n.soft_drop_timer = left
      /\ n.started = g.started /\ n.game_over = g.game_over
  BY DEF Good, Steady, GameOK, GameFields
<1> HIDE DEF n
<1> QED BY <1>1, <1>2, <1>4, <1>5
        DEF Good, Steady, Fit, NoFull, Live, Timers, Fresh, Soft

LEMMA ApplyActionGood ==
  ASSUME NEW g, Good(g), NEW action \in GameActions
  PROVE  Good(ApplyAction(g, action))
<1>1. CASE ~ Allowed(g, action)
  BY <1>1 DEF ApplyAction
<1>2. CASE Allowed(g, action)
  <2>1. CASE action = "MoveLeft"
    BY <1>2, <2>1, TryMoveGood DEF ApplyAction
  <2>2. CASE action = "MoveRight"
    BY <1>2, <2>2, TryMoveGood DEF ApplyAction
  <2>3. CASE action = "SoftDrop"
    BY <1>2, <2>3, SoftDropGood DEF ApplyAction
  <2>4. CASE action = "HardDrop"
    BY <1>2, <2>4, HardDropGood DEF ApplyAction
  <2>5. CASE action = "RotateCw"
    BY <1>2, <2>5, TryRotateGood DEF ApplyAction
  <2>6. CASE action = "RotateCcw"
    BY <1>2, <2>6, TryRotateGood DEF ApplyAction
  <2>7. CASE action = "Hold"
    BY <1>2, <2>7, HoldGood DEF ApplyAction
  <2>8. CASE action = "Pause"
    BY <1>2, <2>8, TogglePauseGood DEF ApplyAction
  <2>9. CASE action = "Restart"
    <3>1. g.queue.rng \in RngStates /\ GameOK(g)
      BY DEF Good, Steady, GameOK, QueueOK
    <3> QED BY <1>2, <2>9, <3>1, RestartGood DEF ApplyAction
  <2> QED BY <2>1, <2>2, <2>3, <2>4, <2>5, <2>6, <2>7, <2>8, <2>9 DEF GameActions
<1> QED BY <1>1, <1>2
-----------------------------------------------------------------------------
(* The specification. *)

\* Forgetting the last event changes nothing else.
LEMMA TakeLastEventGood ==
  ASSUME NEW g, Good(g)
  PROVE  Good([g EXCEPT !.last_event = None])
<1> DEFINE n == [g EXCEPT !.last_event = None]
<1>1. GameOK(n)
  BY DEF Good, Steady, GameOK, GameFields
<1>2. SameField(n, g) /\ SameClock(n, g)
  BY DEF SameField, SameClock, Good, Steady, GameOK, GameFields
<1> QED BY <1>1, <1>2, FrameGood

\* The invariant of the specification.
GoodNow == Good(game)

\* Every reachable game is a good one, whatever is called in whatever order.
THEOREM AlwaysGood == Spec => []GoodNow
<1>1. Init => GoodNow
  BY NewGameGood DEF Init, Good, GoodNow
<1>2. GoodNow /\ [Next]_game => GoodNow'
  <2> SUFFICES ASSUME Good(game), [Next]_game PROVE Good(game')
    BY DEF GoodNow
  <2>1. CASE Start
    BY <2>1, StartGood DEF Start
  <2>2. CASE Act
    <3>1. PICK action \in Inputs : game' = ApplyAction(game, action)
      BY <2>2 DEF Act
    <3>2. action \in GameActions
      BY GameAssumption
    <3> QED BY <3>1, <3>2, ApplyActionGood
  <2>3. CASE Tick
    <3>1. PICK elapsed \in TickTimes, softDrop \in BOOLEAN :
            game' = TickGame(game, elapsed, softDrop)
      BY <2>3 DEF Tick
    <3>2. elapsed \in Nat
      BY ConstantsOK
    <3> QED BY <3>1, <3>2, TickGood
  <2>4. CASE Reseed
    BY <2>4, RestartGood DEF Reseed, Good, Steady
  <2>5. CASE TakeLastEvent
    BY <2>5, TakeLastEventGood DEF TakeLastEvent
  <2>6. CASE UNCHANGED game
    BY <2>6
  <2> QED BY <2>1, <2>2, <2>3, <2>4, <2>5, <2>6 DEF Next
<1> QED BY <1>1, <1>2, PTL DEF Spec

\* Every field keeps its type.
THEOREM TypeCorrect == Spec => []TypeOK
<1>1. GoodNow => TypeOK
  BY DEF GoodNow, Good, Steady, TypeOK
<1> QED BY <1>1, AlwaysGood, PTL

\* The active piece never overlaps the board or leaves it.
THEOREM ActiveAlwaysFits == Spec => []ActiveFits
<1>1. GoodNow => ActiveFits
  BY DEF GoodNow, Good, Steady, Fit, ActiveFits
<1> QED BY <1>1, AlwaysGood, PTL

\* No operation leaves a full row behind.
THEOREM NeverFullRows == Spec => []NoFullRows
<1>1. GoodNow => NoFullRows
  BY DEF GoodNow, Good, Steady, NoFull, NoFullRows
<1> QED BY <1>1, AlwaysGood, PTL

\* A started game that is not over has a piece to play.
THEOREM AlwaysPlayable == Spec => []PlayableHasActive
<1>1. GoodNow => PlayableHasActive
  BY DEF GoodNow, Good, Live, PlayableHasActive
<1> QED BY <1>1, AlwaysGood, PTL

\* Lock time and lock resets belong to grounded pieces.
THEOREM TimersOnlyGrounded == Spec => []LockTimersOnlyGrounded
<1>1. GoodNow => LockTimersOnlyGrounded
  BY DEF GoodNow, Good, Timers, LockTimersOnlyGrounded
<1> QED BY <1>1, AlwaysGood, PTL

\* The cached preview is the queue's.
THEOREM PreviewAlwaysFresh == Spec => []NextQueueFresh
<1>1. GoodNow => NextQueueFresh
  BY DEF GoodNow, Good, Steady, Fresh, NextQueueFresh
<1> QED BY <1>1, AlwaysGood, PTL

\* A soft drop lasts exactly as long as its timer.
THEOREM SoftDropAlwaysExpires == Spec => []SoftDropExpires
<1>1. GoodNow => SoftDropExpires
  BY DEF GoodNow, Good, Steady, Soft, SoftDropExpires
<1> QED BY <1>1, AlwaysGood, PTL
=============================================================================
