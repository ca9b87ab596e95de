--------------------------- MODULE EpisodeProofs ---------------------------
(***************************************************************************)
(* What an episode adds up to, for every board size, bag and timing: cells *)
(* and pieces, spawns and swaps, and what only ever grows.  Most operators *)
(* of GameState touch none of the counters (Quiet); spawning, locking,     *)
(* dropping and holding are accounted for one by one.                      *)
(***************************************************************************)
EXTENDS GameProofs

-----------------------------------------------------------------------------
(* The inductive invariant, in parts. *)

\* Pieces taken from the queue that are not on the board.
Out(g) == (IF g.started THEN 1 ELSE 0) + (IF g.hold # None THEN 1 ELSE 0)

\* At most one swap per piece; while it is unused there is room for it.
Swaps(g) == /\ g.active_id <= 2 * g.piece_id
            /\ g.started /\ ~ g.game_over /\ g.can_hold => g.active_id < 2 * g.piece_id

Counters(g) == g.score <= U32Max /\ g.lines <= U32Max

\* A line counter at its largest value may have lost lines.
Accounts(g) == ~ g.game_over /\ g.lines < U32Max =>
                 Cardinality(g.board) + W * g.lines = 4 * (g.piece_id - Out(g))

Unstarted(g) == ~ g.started => g.active = None /\ ~ g.game_over

Counted(g) == Swaps(g) /\ Counters(g) /\ Accounts(g) /\ Unstarted(g)

\* What a step within an episode may do to the counters and the board.
Grown(n, g) == /\ n.score >= g.score /\ n.lines >= g.lines
               /\ n.board_id - g.board_id \in {0, 1}
               /\ n.board # g.board => n.board_id = g.board_id + 1

\* What a game that is over keeps.
Frozen(n, g) == /\ n.game_over = g.game_over /\ n.board = g.board /\ n.score = g.score
                /\ n.queue = g.queue /\ n.hold = g.hold

Full(g) == DOMAIN g = GameFields

\* n counts what g counts.
SameCounts(n, g) ==
  /\ n.board = g.board /\ n.board_id = g.board_id /\ n.hold = g.hold
  /\ n.episode_id = g.episode_id /\ n.piece_id = g.piece_id
  /\ n.active_id = g.active_id /\ n.can_hold = g.can_hold /\ n.queue = g.queue
  /\ n.score = g.score /\ n.lines = g.lines
  /\ n.started = g.started /\ n.game_over = g.game_over
  /\ n.last_event = g.last_event /\ n.combo = g.combo /\ n.back_to_back = g.back_to_back

\* The operator counted nothing and made no piece.
Quiet(n, g) == Full(n) /\ SameCounts(n, g) /\ (g.active = None => n.active = None)

LEMMA SteadyNumbers ==
  ASSUME NEW g, Steady(g)
  PROVE  /\ Full(g) /\ g.board \subseteq Cells
         /\ g.score \in Nat /\ g.lines \in Nat /\ g.board_id \in Nat
         /\ g.piece_id \in Nat /\ g.active_id \in Nat /\ g.episode_id \in Nat
         /\ U32Max \in Nat
  BY ScoringAssumption DEF Steady, GameOK, Full

LEMMA QuietTrans ==
  ASSUME NEW g, NEW m, NEW n, Quiet(m, g), Quiet(n, m)
  PROVE  Quiet(n, g)
  BY DEF Quiet, SameCounts

\* A quiet operator keeps the accounts and grows nothing.
LEMMA QuietCounts ==
  ASSUME NEW g, Steady(g), Counted(g), NEW n, Quiet(n, g)
  PROVE  Counted(n) /\ Grown(n, g) /\ Frozen(n, g)
<1>1. Grown(n, g) /\ Frozen(n, g)
  BY SteadyNumbers DEF Quiet, SameCounts, Grown, Frozen
<1>2. Counted(n)
  BY DEF Quiet, SameCounts, Counted, Swaps, Counters, Accounts, Unstarted, Out
<1> QED BY <1>1, <1>2

\* What follows a quiet operator grows what was there before it.
LEMMA QuietThen ==
  ASSUME NEW g, NEW m, Quiet(m, g), NEW n, Grown(n, m)
  PROVE  Grown(n, g)
  BY DEF Quiet, SameCounts, Grown
-----------------------------------------------------------------------------
(* The quiet operators. *)

LEMMA QuietReset ==
  ASSUME NEW g, Full(g)
  PROVE  Quiet(HandleLockReset(g), g)
  BY DEF HandleLockReset, Quiet, SameCounts, Full, GameFields

LEMMA QuietMove ==
  ASSUME NEW g, Full(g), NEW dx, NEW dy
  PROVE  Quiet(TryMove(g, dx, dy), g)
<1> DEFINE n == [g EXCEPT !.active = Shifted(@, dx, dy)]
           moved == HandleLockReset(n)
<1>1. CASE ~ CanMove(g, dx, dy)
  BY <1>1 DEF TryMove, Quiet, SameCounts
<1>2. CASE CanMove(g, dx, dy)
  <2>1. Full(n) /\ SameCounts(n, g) /\ g.active # None
    BY <1>2 DEF SameCounts, Full, GameFields, CanMove
  <2>2. TryMove(g, dx, dy)
          = IF dx # 0 THEN [moved EXCEPT !.last_action_was_rotate = FALSE] ELSE moved
    BY <1>2 DEF TryMove
  <2> HIDE DEF n
  <2>3. Quiet(moved, n)
    BY <2>1, QuietReset
  <2> HIDE DEF moved
  <2>4. Quiet([moved EXCEPT !.last_action_was_rotate = FALSE], moved)
    BY <2>3 DEF Quiet, SameCounts, Full, GameFields
  <2> QED BY <2>1, <2>2, <2>3, <2>4 DEF Quiet, SameCounts
<1> QED BY <1>1, <1>2

LEMMA QuietTurn ==
  ASSUME NEW g, Full(g), NEW cw
  PROVE  Quiet(TryRotate(g, cw), g)
<1>1. CASE ~ CanRotate(g, cw)
  BY <1>1 DEF TryRotate, Quiet, SameCounts
<1>2. CASE CanRotate(g, cw)
  <2> DEFINE first == CHOOSE i \in ValidKicks(g, cw) : \A j \in ValidKicks(g, cw) : i <= j
             n == [g EXCEPT !.active = Kicked(@, cw, first)]
             moved == HandleLockReset(n)
  <2>1. TryRotate(g, cw) = [moved EXCEPT !.last_action_was_rotate = TRUE]
    BY <1>2, Zenon DEF TryRotate
  <2> HIDE DEF first
  <2>2. Full(n) /\ SameCounts(n, g) /\ g.active # None
    BY <1>2 DEF SameCounts, Full, GameFields, CanRotate
  <2> HIDE DEF n
  <2>3. Quiet(moved, n)
    BY <2>2, QuietReset
  <2> HIDE DEF moved
  <2>4. Quiet([moved EXCEPT !.last_action_was_rotate = TRUE], moved)
    BY <2>3 DEF Quiet, SameCounts, Full, GameFields
  <2> QED BY <2>1, <2>2, <2>3, <2>4 DEF Quiet, SameCounts
<1> QED BY <1>1, <1>2

LEMMA QuietPause ==
  ASSUME NEW g, Full(g)
  PROVE  Quiet(TogglePause(g), g)
  BY DEF TogglePause, Quiet, SameCounts, Full, GameFields

LEMMA QuietTimers ==
  ASSUME NEW g, Full(g), NEW elapsed
  PROVE  Quiet(CountTimers(g, elapsed), g)
  BY DEF CountTimers, Quiet, SameCounts, Full, GameFields

LEMMA QuietWindow ==
  ASSUME NEW g, Full(g), NEW elapsed, NEW softDrop
  PROVE  Quiet(SoftDropWindow(g, elapsed, softDrop), g)
<1> DEFINE on    == softDrop \/ g.is_soft_dropping
           timer == IF softDrop THEN SoftDropGrace ELSE g.soft_drop_timer
           left  == IF on THEN SatSub(timer, elapsed) ELSE timer
           stays == on /\ (timer > 0 => left > 0)
<1>1. SoftDropWindow(g, elapsed, softDrop)
        = [g EXCEPT !.soft_drop_timer = left, !.is_soft_dropping = stays]
  BY DEF SoftDropWindow
<1> HIDE DEF left, stays
<1> QED BY <1>1 DEF Quiet, SameCounts, Full, GameFields

LEMMA QuietGravity ==
  ASSUME NEW g, Full(g), g.active # None, NEW elapsed
  PROVE  Quiet(Gravity(g, elapsed), g)
<1> DEFINE time  == SatAdd(g.drop_timer, elapsed)
           rest  == time % DropInterval(g)
           fall  == DropDistance(g.board, g.active)
           steps == IF time \div DropInterval(g) < fall THEN time \div DropInterval(g) ELSE fall
           timed == [g EXCEPT !.drop_timer = rest]
           p     == Shifted(timed.active, 0, steps)
           lock  == IF steps > 1 THEN 0 ELSE timed.lock_timer
           count == IF steps > 1 THEN 0 ELSE timed.lock_reset_count
           n     == [timed EXCEPT !.active = p, !.lock_timer = lock,
                                  !.lock_reset_count = count]
<1>1. Gravity(g, elapsed) = IF steps = 0 THEN timed ELSE HandleLockReset(n)
  BY Zenon DEF Gravity
<1> HIDE DEF rest, steps
<1>2. Quiet(timed, g)
  BY DEF Quiet, SameCounts, Full, GameFields
<1> HIDE DEF timed, p, lock, count
<1>3. Full(n) /\ SameCounts(n, timed)
  BY <1>2 DEF SameCounts, Quiet, Full, GameFields
<1> HIDE DEF n
<1>4. Quiet(HandleLockReset(n), n)
  BY <1>3, QuietReset
<1> QED BY <1>1, <1>2, <1>3, <1>4 DEF Quiet, SameCounts
-----------------------------------------------------------------------------
(* Spawning and locking. *)

\* A spawn that fits takes one piece from the queue, one that does not ends the
\* game with every count as it was.
LEMMA SpawnCounts ==
  ASSUME NEW g, Full(g)
  PROVE  LET n == SpawnPiece(g) IN
         /\ Full(n) /\ n.board = g.board /\ n.board_id = g.board_id /\ n.hold = g.hold
         /\ n.episode_id = g.episode_id /\ n.score = g.score /\ n.lines = g.lines
         /\ n.started = g.started /\ n.last_event = g.last_event
         /\ n.combo = g.combo /\ n.back_to_back = g.back_to_back
         /\ \/ /\ n.piece_id = g.piece_id + 1 /\ n.active_id = g.active_id + 1
               /\ n.game_over = g.game_over
            \/ /\ n.piece_id = g.piece_id /\ n.active_id = g.active_id /\ n.game_over
               /\ n.active = g.active /\ n.queue = g.queue
<1> DEFINE piece == NewPiece(Peek(g.queue))
           rest  == Draw(g.queue)
           show  == Preview(rest)
           m == [g EXCEPT !.queue = rest, !.active = piece,
                     !.piece_id = @ + 1, !.active_id = @ + 1]
           n == [m EXCEPT !.step_in_piece = 0,
                     !.can_hold = TRUE, !.lock_timer = 0, !.lock_reset_count = 0,
                     !.last_action_was_rotate = FALSE, !.next_queue = show]
           over == [g EXCEPT !.game_over = TRUE]
<1>1. SpawnPiece(g) = IF Fits(g.board, piece) THEN n ELSE over
  BY DEF SpawnPiece
<1> HIDE DEF piece, rest, show
<1>2. /\ Full(m) /\ m.board = g.board /\ m.board_id = g.board_id /\ m.hold = g.hold
      /\ m.episode_id = g.episode_id /\ m.score = g.score /\ m.lines = g.lines
      /\ m.started = g.started /\ m.game_over = g.game_over
      /\ m.last_event = g.last_event /\ m.combo = g.combo /\ m.back_to_back = g.back_to_back
      /\ m.piece_id = g.piece_id + 1 /\ m.active_id = g.active_id + 1
  BY DEF Full, GameFields
<1> HIDE DEF m
<1>3. /\ Full(n) /\ n.board = m.board /\ n.board_id = m.board_id /\ n.hold = m.hold
      /\ n.episode_id = m.episode_id /\ n.score = m.score /\ n.lines = m.lines
      /\ n.started = m.started /\ n.game_over = m.game_over
      /\ n.piece_id = m.piece_id /\ n.active_id = m.active_id
      /\ n.last_event = m.last_event /\ n.combo = m.combo /\ n.back_to_back = m.back_to_back
  BY <1>2 DEF Full, GameFields
<1>4. /\ Full(over) /\ over.board = g.board /\ over.board_id = g.board_id
      /\ over.hold = g.hold /\ over.episode_id = g.episode_id /\ over.score = g.score
      /\ over.lines = g.lines /\ over.started = g.started /\ over.piece_id = g.piece_id
      /\ over.active_id = g.active_id /\ over.game_over /\ over.active = g.active
      /\ over.queue = g.queue /\ over.last_event = g.last_event
      /\ over.combo = g.combo /\ over.back_to_back = g.back_to_back
  BY DEF Full, GameFields
<1> HIDE DEF n, over
<1> QED BY <1>1, <1>2, <1>3, <1>4

\* A counter that saturates never goes back.
LEMMA SatAddGrows ==
  ASSUME NEW a \in Nat, a <= U32Max, NEW c \in Nat
  PROVE  /\ SatAdd(a, c) \in Nat /\ a <= SatAdd(a, c) /\ SatAdd(a, c) <= U32Max
         /\ SatAdd(a, c) < U32Max => SatAdd(a, c) = a + c
  BY ScoringAssumption DEF SatAdd

\* A clear adds its lines and some points, and counts nothing else.
LEMMA ApplyLineClearCounts ==
  ASSUME NEW g, GameOK(g), Counters(g), NEW lines \in Nat, NEW tspin \in TSpinKinds
  PROVE  LET n == ApplyLineClear(g, lines, tspin) IN
         /\ Full(n) /\ n.board = g.board /\ n.board_id = g.board_id /\ n.hold = g.hold
         /\ n.episode_id = g.episode_id /\ n.piece_id = g.piece_id
         /\ n.active_id = g.active_id /\ n.started = g.started
         /\ n.game_over = g.game_over /\ n.active = g.active
         /\ n.lines = SatAdd(g.lines, lines)
         /\ \E points \in Nat : n.score = SatAdd(g.score, points)
<1>1. g.lines \in Nat /\ g.score \in Nat /\ Full(g)
  BY DEF GameOK, Full
<1>2. CASE lines = 0
  <2> DEFINE points == TSpinScore(tspin, 0, g.level)
             sum == SatAdd(g.score, points)
             n == [g EXCEPT !.combo = -1, !.back_to_back = FALSE, !.score = sum]
  <2>1. points \in Nat
    BY ScoresOK, Zenon DEF GameOK
  <2>2. ApplyLineClear(g, lines, tspin) = n
    BY <1>2 DEF ApplyLineClear
  <2>3. SatAdd(g.lines, lines) = g.lines
    BY <1>1, <1>2, ScoringAssumption DEF Counters, SatAdd
  <2> HIDE DEF points
  <2>4. \E c \in Nat : sum = SatAdd(g.score, c)
    BY <2>1
  <2> HIDE DEF sum
  <2> QED BY <1>1, <2>2, <2>3, <2>4 DEF Full, GameFields
<1>3. CASE lines # 0
  <2> DEFINE points == TotalScore(lines, g.level, tspin, g.combo + 1, g.back_to_back)
             sum == SatAdd(g.score, points)
             total == SatAdd(g.lines, lines)
             level == total \div LinesPerLevel
             b2b == QualifiesForB2B(tspin, lines)
             n == [g EXCEPT !.combo = @ + 1, !.lines = total, !.level = level,
                            !.back_to_back = b2b, !.score = sum,
                            !.line_clear_timer = LineClearPause,
                            !.landing_flash = LandingFlash]
  <2>1. points \in Nat
    <3>1. g.level \in Nat /\ g.combo + 1 \in Int
      BY SMT DEF GameOK
    <3>2. g.back_to_back \in BOOLEAN
      BY Zenon DEF GameOK
    <3> QED BY <3>1, <3>2, ScoresOK, Zenon
  <2>2. ApplyLineClear(g, lines, tspin) = n
    BY <1>3, Zenon DEF ApplyLineClear
  <2> HIDE DEF points
  <2>3. \E c \in Nat : sum = SatAdd(g.score, c)
    BY <2>1
  <2> HIDE DEF sum, total, level, b2b
  <2>4. /\ Full(n) /\ n.board = g.board /\ n.board_id = g.board_id /\ n.hold = g.hold
        /\ n.episode_id = g.episode_id /\ n.piece_id = g.piece_id
        /\ n.active_id = g.active_id /\ n.started = g.started
        /\ n.game_over = g.game_over /\ n.active = g.active
        /\ n.lines = total /\ n.score = sum
    BY <1>1 DEF Full, GameFields
  <2> HIDE DEF n
  <2> QED BY <2>2, <2>3, <2>4 DEF total
<1> QED BY <1>2, <1>3

\* The cells of a piece that fits are free ones: a lock adds four.
LEMMA LockAddsFour ==
  ASSUME NEW b, b \subseteq Cells, NEW p \in AnyPiece, Fits(b, p)
  PROVE  /\ b \cup CellsOf(p) \subseteq Cells
         /\ Cardinality(b \cup CellsOf(p)) = Cardinality(b) + 4
<1>1. CellsOf(p) \subseteq Cells /\ b \cap CellsOf(p) = {}
  BY DEF CellsOf, Fits
<1>2. IsFiniteSet(b) /\ Cardinality(b) \in Nat
  BY BoardFinite
<1>3. IsFiniteSet(CellsOf(p)) /\ Cardinality(CellsOf(p)) = 4
  BY FourCells
<1>4. Cardinality(b \cup CellsOf(p)) = Cardinality(b) + 4 - 0
  <2>1. Cardinality(b \cup CellsOf(p))
          = Cardinality(b) + Cardinality(CellsOf(p)) - Cardinality(b \cap CellsOf(p))
    BY <1>2, <1>3, FS_Union
  <2> QED BY <1>1, <1>3, <2>1, FS_EmptySet
<1> QED BY <1>1, <1>2, <1>4

\* Lines times the width: what a clear takes off the board it adds to the count.
LEMMA WidthTimes ==
  ASSUME NEW a \in Nat, NEW c \in Nat
  PROVE  W * (a + c) = W * a + W * c /\ W * a \in Nat /\ W * c \in Nat
  BY BoardAssumption

\* A lock puts four cells on the board and counts the rows it takes off; the
\* spawn after it takes the next piece or ends the game.
LEMMA LockCounts ==
  ASSUME NEW g, Steady(g), Counted(g), g.active # None, ~ g.game_over
  PROVE  Counted(LockPiece(g)) /\ Grown(LockPiece(g), g) /\ Full(LockPiece(g))
<1> DEFINE piece  == g.active
           fits   == Fits(g.board, piece)
           locked == g.board \cup CellsOf(piece)
           tspin  == IF fits /\ piece.kind = "T"
                     THEN TSpinKind(g.last_action_was_rotate, locked, piece) ELSE "None"
           lines  == Cardinality(FullRows(locked))
           id     == NextBoardId(g.board_id, fits, lines)
           clear  == ClearFullRows(locked)
           placed == [g EXCEPT !.landing_flash = LandingFlash, !.active = None,
                               !.board = clear, !.board_id = id]
           scored == ApplyLineClear(placed, lines, tspin)
           event  == LockEvent(g, scored, lines, tspin)
           told   == [scored EXCEPT !.last_event = event]
           n      == SpawnPiece(told)
<1>1. piece \in AnyPiece /\ fits
  BY PieceIsAnyPiece DEF Steady, GameOK, Fit
<1>2. locked \subseteq Cells /\ Cardinality(locked) = Cardinality(g.board) + 4
  BY <1>1, SteadyNumbers, LockAddsFour
<1>3. tspin \in TSpinKinds
  BY DEF TSpinKind, TSpinKinds
<1>4. LockPiece(g) = IF told.game_over THEN told ELSE n
  BY <1>1, Zenon DEF LockPiece, NextBoardId
<1>5. id = g.board_id + 1
  BY <1>1 DEF NextBoardId
<1> HIDE DEF fits, tspin, id
<1>6. /\ lines \in Nat /\ clear \subseteq Cells
      /\ Cardinality(clear) + W * lines = Cardinality(g.board) + 4
      /\ Cardinality(g.board) \in Nat /\ Cardinality(clear) \in Nat
  <2> HIDE DEF locked
  <2>1. lines \in Nat
    BY <1>2, BoardFinite
  <2>2. Cardinality(clear) = Cardinality(locked) - W * lines
    BY <1>2, ClearCounts
  <2>3. clear \subseteq Cells
    BY <1>2, ClearKeepsCells
  <2>4. Cardinality(g.board) \in Nat /\ Cardinality(clear) \in Nat
    <3> HIDE DEF clear
    <3> QED BY <2>3, BoardFinite, SteadyNumbers
  <2>5. W * lines \in Nat
    BY <2>1, WidthTimes
  <2> HIDE DEF clear, lines
  <2> QED BY <1>2, <2>1, <2>2, <2>3, <2>4, <2>5
<1> HIDE DEF locked, lines, clear
<1>7. GameOK(placed)
  <2>1. id \in Nat /\ LandingFlash \in Nat
    BY <1>5, SteadyNumbers, ConstantsOK
  <2> QED BY <1>6, <2>1 DEF Steady, GameOK, GameFields
<1>8. /\ Full(placed) /\ placed.board = clear /\ placed.board_id = g.board_id + 1
      /\ placed.hold = g.hold /\ placed.episode_id = g.episode_id
      /\ placed.piece_id = g.piece_id /\ placed.active_id = g.active_id
      /\ placed.started = g.started /\ placed.game_over = g.game_over
      /\ placed.lines = g.lines /\ placed.score = g.score
  BY <1>5, SteadyNumbers DEF Full, GameFields
<1> HIDE DEF placed
<1>9. /\ Full(scored) /\ scored.board = clear /\ scored.board_id = g.board_id + 1
      /\ scored.hold = g.hold /\ scored.episode_id = g.episode_id
      /\ scored.piece_id = g.piece_id /\ scored.active_id = g.active_id
      /\ scored.started = g.started /\ ~ scored.game_over
      /\ scored.lines = SatAdd(g.lines, lines)
      /\ \E points \in Nat : scored.score = SatAdd(g.score, points)
  <2>1. Counters(placed)
    BY <1>8 DEF Counted, Counters
  <2> QED BY <1>3, <1>6, <1>7, <1>8, <2>1, ApplyLineClearCounts
<1> HIDE DEF scored, event
<1>10. /\ Full(told) /\ told.board = scored.board /\ told.board_id = scored.board_id
       /\ told.hold = scored.hold /\ told.episode_id = scored.episode_id
       /\ told.piece_id = scored.piece_id /\ told.active_id = scored.active_id
       /\ told.started = scored.started /\ told.game_over = scored.game_over
       /\ told.lines = scored.lines /\ told.score = scored.score
  BY <1>9 DEF Full, GameFields
<1> HIDE DEF told
<1>11. PICK points \in Nat : n.score = SatAdd(g.score, points)
  BY <1>9, <1>10, SpawnCounts
<1>12. /\ Full(n) /\ n.board = clear /\ n.board_id = g.board_id + 1
       /\ n.hold = g.hold /\ n.episode_id = g.episode_id
       /\ n.lines = SatAdd(g.lines, lines) /\ n.started = g.started
       /\ \/ /\ n.piece_id = g.piece_id + 1 /\ n.active_id = g.active_id + 1
             /\ ~ n.game_over
          \/ /\ n.piece_id = g.piece_id /\ n.active_id = g.active_id /\ n.game_over
  BY <1>9, <1>10, SpawnCounts
<1>13. LockPiece(g) = n
  BY <1>4, <1>9, <1>10
<1> HIDE DEF n
<1>14. g.started
  BY DEF Counted, Unstarted
<1>15. /\ g.score <= n.score /\ n.score <= U32Max /\ g.lines <= n.lines /\ n.lines <= U32Max
       /\ n.lines \in Nat /\ n.score \in Nat
       /\ n.lines < U32Max => g.lines < U32Max /\ n.lines = g.lines + lines
  <2>1. g.score <= U32Max /\ g.lines <= U32Max
    BY DEF Counted, Counters
  <2>2. g.score <= n.score /\ n.score <= U32Max /\ n.score \in Nat
    <3>1. g.score \in Nat
      BY SteadyNumbers
    <3>2. /\ SatAdd(g.score, points) \in Nat /\ g.score <= SatAdd(g.score, points)
          /\ SatAdd(g.score, points) <= U32Max
      BY <2>1, <3>1, SatAddGrows
    <3> QED BY <1>11, <3>2
  <2>3. g.lines \in Nat /\ U32Max \in Nat
    BY SteadyNumbers
  <2>4. /\ g.lines <= n.lines /\ n.lines <= U32Max /\ n.lines \in Nat
        /\ n.lines < U32Max => n.lines = g.lines + lines
    <3>1. /\ SatAdd(g.lines, lines) \in Nat /\ g.lines <= SatAdd(g.lines, lines)
          /\ SatAdd(g.lines, lines) <= U32Max
          /\ SatAdd(g.lines, lines) < U32Max => SatAdd(g.lines, lines) = g.lines + lines
      BY <1>6, <2>1, <2>3, SatAddGrows
    <3> QED BY <1>12, <3>1
  <2> QED BY <2>2, <2>3, <2>4
<1>16. Grown(n, g)
  BY <1>12, <1>15, SteadyNumbers DEF Grown
<1>17. Swaps(n)
  BY <1>12, SteadyNumbers DEF Counted, Swaps
<1>18. Accounts(n)
  <2> SUFFICES ASSUME ~ n.game_over, n.lines < U32Max
               PROVE  Cardinality(n.board) + W * n.lines = 4 * (n.piece_id - Out(n))
    BY DEF Accounts
  <2>1. Cardinality(g.board) + W * g.lines = 4 * (g.piece_id - Out(g))
    BY <1>15 DEF Counted, Accounts
  <2>2. W * n.lines = W * g.lines + W * lines /\ W * g.lines \in Nat /\ W * lines \in Nat
    <3>1. g.lines \in Nat /\ lines \in Nat /\ n.lines = g.lines + lines
      BY <1>6, <1>15, SteadyNumbers
    <3>2. W * (g.lines + lines) = W * g.lines + W * lines
      BY <3>1, WidthTimes
    <3> QED BY <3>1, <3>2, WidthTimes
  <2>3. Out(n) = Out(g) /\ Out(g) \in Nat
    BY <1>12 DEF Out
  <2>4. n.piece_id = g.piece_id + 1 /\ g.piece_id \in Nat
    BY <1>12, SteadyNumbers
  <2>5. /\ Cardinality(g.board) \in Nat /\ Cardinality(n.board) \in Nat
        /\ Cardinality(n.board) + W * lines = Cardinality(g.board) + 4
    BY <1>6, <1>12
  <2>6. \A old, new, cleared, before, after, out, count \in Nat :
          new + cleared = old + 4 /\ after = before + cleared /\ old + before = 4 * (count - out)
            => new + after = 4 * (count + 1 - out)
    OBVIOUS
  <2> QED BY <2>1, <2>2, <2>3, <2>4, <2>5, <2>6
<1> QED BY <1>12, <1>13, <1>14, <1>15, <1>16, <1>17, <1>18 DEF Counted, Counters, Unstarted

\* Points on top of a step: only the score grows.
LEMMA PointsCount ==
  ASSUME NEW g, Steady(g), Counted(g), NEW points \in Nat,
         NEW m, Full(m), SameCounts([m EXCEPT !.score = g.score], g), m.active = g.active,
         m.score = SatAdd(g.score, points)
  PROVE  Counted(m) /\ Grown(m, g)
<1>1. /\ m.board = g.board /\ m.board_id = g.board_id /\ m.hold = g.hold
      /\ m.piece_id = g.piece_id /\ m.active_id = g.active_id /\ m.can_hold = g.can_hold
      /\ m.lines = g.lines /\ m.started = g.started /\ m.game_over = g.game_over
  BY DEF SameCounts, Full, GameFields
<1>2. g.score \in Nat /\ g.score <= U32Max
  BY SteadyNumbers DEF Counted, Counters
<1>3. SatAdd(g.score, points) <= U32Max /\ g.score <= SatAdd(g.score, points)
  BY <1>2, SatAddGrows
<1>4. Grown(m, g)
  BY <1>1, <1>3, SteadyNumbers DEF Grown
<1>5. Counted(m)
  BY <1>1, <1>3 DEF Counted, Swaps, Counters, Accounts, Unstarted, Out
<1> QED BY <1>4, <1>5
-----------------------------------------------------------------------------
(* Dropping and holding. *)

LEMMA HardDropCounts ==
  ASSUME NEW g, Good(g), Counted(g), ~ g.game_over
  PROVE  Counted(HardDrop(g)) /\ Grown(HardDrop(g), g)
<1> DEFINE ready == [g EXCEPT !.last_action_was_rotate = FALSE]
           points == DropScore(DropDistance(g.board, g.active), TRUE)
           down == Dropped(ready)
           locked == LockPiece(down)
           n == [locked EXCEPT !.score = SatAdd(@, points)]
<1>1. Good(ready) /\ Quiet(ready, g) /\ ready.active = g.active
  <2>1. Good(ready)
    BY MarkGood
  <2>2. Full(g)
    BY SteadyNumbers DEF Good
  <2> QED BY <2>1, <2>2 DEF Quiet, SameCounts, Full, GameFields
<1>2. CASE g.active = None
  BY <1>1, <1>2, QuietCounts DEF HardDrop, Good
<1>3. CASE g.active # None
  <2>1. points \in Nat
    BY <1>3, DropDistanceNat, SatOK DEF DropScore, Good, Steady
  <2> HIDE DEF ready, points
  <2>2. Steady(down) /\ down.active # None
    BY <1>1, <1>3, DroppedSteady
  <2>3. Quiet(down, ready)
    BY <1>1, <1>3 DEF Dropped, Quiet, SameCounts, Full, GameFields
  <2>4. HardDrop(g) = n
    BY <1>3 DEF HardDrop, ready, points
  <2> HIDE DEF down
  <2>5. Quiet(down, g)
    BY <1>1, <2>3, QuietTrans
  <2>6. Counted(down) /\ ~ down.game_over
    BY <2>5, QuietCounts DEF Good, Quiet, SameCounts
  <2>7. Counted(locked) /\ Grown(locked, down) /\ Full(locked)
    BY <2>2, <2>6, LockCounts
  <2>8. Steady(locked)
    BY <2>2, LockGood DEF Good
  <2> HIDE DEF locked
  <2>9. /\ Full(n) /\ SameCounts([n EXCEPT !.score = locked.score], locked)
        /\ n.active = locked.active /\ n.score = SatAdd(locked.score, points)
    BY <2>7 DEF SameCounts, Full, GameFields
  <2> HIDE DEF n
  <2>10. Counted(n) /\ Grown(n, locked)
    BY <2>1, <2>7, <2>8, <2>9, PointsCount
  <2>11. n.board = locked.board /\ n.board_id = locked.board_id
    BY <2>9 DEF SameCounts, Full, GameFields
  <2>12. Grown(locked, g)
    BY <2>5, <2>7, QuietThen
  <2>13. Steady(n)
    BY <2>4, HardDropGood DEF Good
  <2>14. Grown(n, g)
    BY <2>8, <2>10, <2>11, <2>12, <2>13, SteadyNumbers DEF Grown, Good
  <2> QED BY <2>4, <2>10, <2>14
<1> QED BY <1>2, <1>3

LEMMA SoftDropCounts ==
  ASSUME NEW g, Good(g), Counted(g)
  PROVE  Counted(SoftDrop(g)) /\ Grown(SoftDrop(g), g)
<1> DEFINE t == TryMove(g, 0, 1)
           sum == IF CanMove(g, 0, 1) THEN SatAdd(t.score, DropScore(1, FALSE)) ELSE t.score
           n == [t EXCEPT !.score = sum, !.is_soft_dropping = TRUE,
                          !.soft_drop_timer = SoftDropGrace,
                          !.last_action_was_rotate = FALSE]
<1>1. Quiet(t, g)
  BY SteadyNumbers, QuietMove DEF Good
<1>2. Steady(t)
  BY TryMoveGood DEF Good
<1>3. SoftDrop(g) = n
  BY DEF SoftDrop
<1> HIDE DEF t
<1>4. Counted(t) /\ t.score \in Nat /\ t.score <= U32Max
  BY <1>1, <1>2, QuietCounts, SteadyNumbers DEF Good, Counted, Counters
<1>5. PICK points \in Nat : sum = SatAdd(t.score, points)
  <2>1. DropScore(1, FALSE) = 1
    BY DEF DropScore
  <2>2. t.score = SatAdd(t.score, 0)
    BY <1>4, ScoringAssumption DEF SatAdd
  <2> QED BY <2>1, <2>2
<1> HIDE DEF sum
<1>6. /\ Full(n) /\ SameCounts([n EXCEPT !.score = t.score], t)
      /\ n.active = t.active /\ n.score = SatAdd(t.score, points)
  BY <1>1, <1>5 DEF SameCounts, Quiet, Full, GameFields
<1> HIDE DEF n
<1>7. Counted(n) /\ Grown(n, t)
  BY <1>2, <1>4, <1>6, PointsCount
<1> QED BY <1>1, <1>3, <1>7, QuietThen

\* A swap uses up the room its piece has; a first hold takes the next piece.
LEMMA HoldCounts ==
  ASSUME NEW g, Good(g), Counted(g), ~ g.game_over
  PROVE  Counted(Hold(g)) /\ Grown(Hold(g), g)
<1>0. Steady(g)
  BY DEF Good
<1>1. CASE ~ g.can_hold \/ g.active = None
  <2>1. Hold(g) = g /\ Quiet(g, g)
    BY <1>0, <1>1, SteadyNumbers DEF Hold, Quiet, SameCounts
  <2> QED BY <1>0, <2>1, QuietCounts
<1>2. CASE g.can_hold /\ g.active # None /\ g.hold = None
  <2> DEFINE m == [g EXCEPT !.hold = g.active.kind]
             t == SpawnPiece(m)
             n == AfterHold(t)
  <2>1. Hold(g) = n
    BY <1>2 DEF Hold
  <2>2. m.hold # None
    <3>1. g.active.kind \in Kinds
      BY <1>2 DEF Good, Steady, GameOK, Piece
    <3> QED BY <3>1, <1>0, SteadyNumbers, GameAssumption DEF Full, GameFields
  <2>3. /\ Full(m) /\ m.board = g.board /\ m.board_id = g.board_id
        /\ m.episode_id = g.episode_id /\ m.score = g.score /\ m.lines = g.lines
        /\ m.started = g.started /\ m.piece_id = g.piece_id
        /\ m.active_id = g.active_id /\ m.game_over = g.game_over
    BY <1>0, SteadyNumbers DEF Full, GameFields
  <2> HIDE DEF m
  <2>4. /\ Full(t) /\ t.board = g.board /\ t.board_id = g.board_id /\ t.hold # None
        /\ t.score = g.score /\ t.lines = g.lines /\ t.started = g.started
        /\ \/ t.piece_id = g.piece_id + 1 /\ t.active_id = g.active_id + 1
           \/ t.piece_id = g.piece_id /\ t.active_id = g.active_id /\ t.game_over
    BY <2>2, <2>3, SpawnCounts
  <2> HIDE DEF t
  <2>5. /\ n.board = t.board /\ n.board_id = t.board_id /\ n.hold = t.hold
        /\ n.score = t.score /\ n.lines = t.lines /\ n.started = t.started
        /\ n.piece_id = t.piece_id /\ n.active_id = t.active_id
        /\ n.game_over = t.game_over /\ ~ n.can_hold
    BY <2>4 DEF AfterHold, Full, GameFields
  <2> HIDE DEF n
  <2>6. g.started
    BY <1>2 DEF Counted, Unstarted
  <2>7. Grown(n, g)
    BY <1>0, <2>4, <2>5, SteadyNumbers DEF Grown
  <2>8. Swaps(n) /\ Counters(n) /\ Unstarted(n)
    BY <1>0, <2>4, <2>5, <2>6, SteadyNumbers DEF Counted, Swaps, Counters, Unstarted
  <2>9. Accounts(n)
    <3>1. Out(n) = 2 /\ Out(g) = 1
      BY <1>2, <2>4, <2>5, <2>6 DEF Out
    <3> SUFFICES ASSUME ~ n.game_over, n.lines < U32Max
                 PROVE  Cardinality(n.board) + W * n.lines = 4 * (n.piece_id - Out(n))
      BY DEF Accounts
    <3>2. Cardinality(g.board) + W * g.lines = 4 * (g.piece_id - Out(g))
      BY <2>4, <2>5 DEF Counted, Accounts
    <3>3. n.piece_id = g.piece_id + 1 /\ n.board = g.board /\ n.lines = g.lines
      BY <2>4, <2>5
    <3> QED BY <1>0, <3>1, <3>2, <3>3, SteadyNumbers
  <2> QED BY <2>1, <2>7, <2>8, <2>9 DEF Counted
<1>3. CASE g.can_hold /\ g.active # None /\ g.hold # None
  <2> DEFINE m == [g EXCEPT !.active = NewPiece(g.hold), !.hold = g.active.kind,
                            !.active_id = @ + 1, !.step_in_piece = 0]
             kept == AfterHold(m)
             lost == [m EXCEPT !.game_over = TRUE, !.active = None]
  <2>1. Hold(g) = kept \/ Hold(g) = lost
    BY <1>3 DEF Hold
  <2>2. m.hold # None
    <3>1. g.active.kind \in Kinds
      BY <1>3 DEF Good, Steady, GameOK, Piece
    <3> QED BY <3>1, <1>0, SteadyNumbers, GameAssumption DEF Full, GameFields
  <2>3. /\ Full(m) /\ m.board = g.board /\ m.board_id = g.board_id
        /\ m.score = g.score /\ m.lines = g.lines
        /\ m.started = g.started /\ m.piece_id = g.piece_id
        /\ m.active_id = g.active_id + 1 /\ m.game_over = g.game_over
    BY <1>0, SteadyNumbers DEF Full, GameFields
  <2> HIDE DEF m
  <2> DEFINE Same(n) == /\ n.board = m.board /\ n.board_id = m.board_id /\ n.hold = m.hold
                        /\ n.score = m.score /\ n.lines = m.lines /\ n.started = m.started
                        /\ n.piece_id = m.piece_id /\ n.active_id = m.active_id
  <2>4. Same(kept) /\ ~ kept.can_hold /\ kept.game_over = m.game_over
    BY <2>3 DEF AfterHold, Full, GameFields
  <2>5. Same(lost) /\ lost.game_over
    BY <2>3 DEF Full, GameFields
  <2> HIDE DEF kept, lost
  <2>6. g.started /\ g.active_id < 2 * g.piece_id
    BY <1>3 DEF Counted, Unstarted, Swaps
  <2>7. PICK n : /\ Hold(g) = n /\ Same(n)
                 /\ n.game_over \/ (~ n.can_hold /\ n.game_over = g.game_over)
    BY <2>1, <2>3, <2>4, <2>5
  <2>8. Grown(n, g)
    BY <1>0, <2>3, <2>7, SteadyNumbers DEF Grown
  <2>9. Swaps(n) /\ Counters(n) /\ Unstarted(n)
    BY <1>0, <2>3, <2>6, <2>7, SteadyNumbers DEF Counted, Swaps, Counters, Unstarted
  <2>10. Accounts(n)
    <3>1. Out(n) = Out(g)
      BY <1>3, <2>2, <2>3, <2>7 DEF Out
    <3> QED BY <2>3, <2>7, <3>1 DEF Counted, Accounts
  <2> QED BY <2>7, <2>8, <2>9, <2>10 DEF Counted
<1> QED BY <1>1, <1>2, <1>3
-----------------------------------------------------------------------------
(* Every operation. *)

\* A step: within an episode it only grows, and a game that is over keeps still.
StepOK(n, g) == n.episode_id = g.episode_id =>
                  Grown(n, g) /\ (g.game_over => Frozen(n, g))

\* A playable game that locked nothing, or locked one piece.
LEMMA PlayStep ==
  ASSUME NEW g, ~ g.game_over, NEW n, Counted(n), Grown(n, g)
  PROVE  Counted(n) /\ StepOK(n, g)
  BY DEF StepOK

LEMMA QuietStep ==
  ASSUME NEW g, Good(g), Counted(g), NEW n, Quiet(n, g)
  PROVE  Counted(n) /\ StepOK(n, g)
  BY QuietCounts DEF StepOK, Good

LEMMA NoStep ==
  ASSUME NEW g, Good(g), Counted(g)
  PROVE  Counted(g) /\ StepOK(g, g)
<1>1. Quiet(g, g)
  BY SteadyNumbers DEF Quiet, SameCounts, Good
<1> QED BY <1>1, QuietStep

\* Starting spawns the first piece, of a game that is not over.
LEMMA StartCounts ==
  ASSUME NEW g, Steady(g), Counted(g), ~ g.started
  PROVE  Counted(StartGame(g)) /\ Grown(StartGame(g), g)
<1> DEFINE m == [g EXCEPT !.started = TRUE]
           n == SpawnPiece(m)
<1>1. StartGame(g) = n
  BY DEF StartGame
<1>2. /\ Full(m) /\ m.board = g.board /\ m.board_id = g.board_id /\ m.hold = g.hold
      /\ m.score = g.score /\ m.lines = g.lines
      /\ m.started /\ m.piece_id = g.piece_id
      /\ m.active_id = g.active_id /\ m.game_over = g.game_over
  BY SteadyNumbers DEF Full, GameFields
<1> HIDE DEF m
<1>3. /\ n.board = g.board /\ n.board_id = g.board_id /\ n.hold = g.hold
      /\ n.score = g.score /\ n.lines = g.lines /\ n.started
      /\ \/ n.piece_id = g.piece_id + 1 /\ n.active_id = g.active_id + 1
         \/ n.piece_id = g.piece_id /\ n.active_id = g.active_id /\ n.game_over
  BY <1>2, SpawnCounts
<1> HIDE DEF n
<1>4. Grown(n, g)
  BY <1>3, SteadyNumbers DEF Grown
<1>5. Swaps(n) /\ Counters(n) /\ Unstarted(n)
  BY <1>3, SteadyNumbers DEF Counted, Swaps, Counters, Unstarted
<1>6. Accounts(n)
  <2> SUFFICES ASSUME ~ n.game_over, n.lines < U32Max
               PROVE  Cardinality(n.board) + W * n.lines = 4 * (n.piece_id - Out(n))
    BY DEF Accounts
  <2>1. Cardinality(g.board) + W * g.lines = 4 * (g.piece_id - Out(g))
    BY <1>3 DEF Counted, Accounts, Unstarted
  <2>2. Out(n) = Out(g) + 1 /\ Out(g) \in Nat
    BY <1>3 DEF Out
  <2>3. n.piece_id = g.piece_id + 1 /\ n.board = g.board /\ n.lines = g.lines
    BY <1>3
  <2> QED BY <2>1, <2>2, <2>3, SteadyNumbers
<1> QED BY <1>1, <1>4, <1>5, <1>6 DEF Counted

LEMMA StartStep ==
  ASSUME NEW g, Good(g), Counted(g)
  PROVE  Counted(StartGame(g)) /\ StepOK(StartGame(g), g)
<1>1. CASE g.started
  BY <1>1, NoStep DEF StartGame
<1>2. CASE ~ g.started
  BY <1>2, StartCounts, PlayStep DEF Good, Counted, Unstarted
<1> QED BY <1>1, <1>2

\* A new game has counted nothing.
LEMMA NewGameCounts ==
  ASSUME NEW seed \in RngStates
  PROVE  Counted(NewGame(seed))
<1> DEFINE g == NewGame(seed)
<1>1. /\ g.board = {} /\ g.hold = None /\ g.active = None /\ g.piece_id = 0
      /\ g.active_id = 0 /\ g.score = 0 /\ g.lines = 0 /\ ~ g.started /\ ~ g.game_over
  BY DEF NewGame
<1> HIDE DEF g
<1>2. Swaps(g) /\ Counters(g) /\ Unstarted(g)
  BY <1>1, ScoringAssumption DEF Swaps, Counters, Unstarted
<1>3. Accounts(g)
  <2>1. Cardinality({}) = 0 /\ W * 0 = 0
    BY FS_EmptySet, BoardAssumption
  <2>2. Out(g) = 0
    BY <1>1 DEF Out
  <2> QED BY <1>1, <2>1, <2>2 DEF Accounts
<1> QED BY <1>2, <1>3 DEF Counted, g

\* A restart opens another episode.
LEMMA RestartStep ==
  ASSUME NEW g, Good(g), NEW seed \in RngStates
  PROVE  Counted(RestartWithSeed(g, seed)) /\ StepOK(RestartWithSeed(g, seed), g)
<1> DEFINE fresh == NewGame(seed)
           m == [fresh EXCEPT !.episode_id = g.episode_id + 1]
           n == StartGame(m)
<1>1. RestartWithSeed(g, seed) = n
  BY DEF RestartWithSeed
<1>2. Steady(fresh) /\ Counted(fresh) /\ ~ fresh.started
  BY NewGameGood, NewGameCounts DEF NewGame
<1> HIDE DEF fresh
<1>3. Full(fresh)
  BY <1>2, SteadyNumbers
<1>4. /\ Full(m) /\ m.board = fresh.board /\ m.board_id = fresh.board_id
      /\ m.hold = fresh.hold /\ m.piece_id = fresh.piece_id /\ m.queue = fresh.queue
      /\ m.active_id = fresh.active_id /\ m.can_hold = fresh.can_hold
      /\ m.score = fresh.score /\ m.lines = fresh.lines /\ m.started = fresh.started
      /\ m.game_over = fresh.game_over /\ m.active = fresh.active
      /\ m.episode_id = g.episode_id + 1
  BY <1>3 DEF Full, GameFields
<1>5. Steady(m)
  <2>1. g.episode_id + 1 \in Nat
    BY SteadyNumbers DEF Good
  <2>2. GameOK(m) /\ SameField(m, fresh)
    BY <1>2, <2>1 DEF Steady, GameOK, GameFields, SameField
  <2> QED BY <1>2, <2>2, FrameSteady
<1> HIDE DEF m
<1>6. Counted(m)
  BY <1>2, <1>4 DEF Counted, Swaps, Counters, Accounts, Unstarted, Out
<1>7. Counted(n) /\ n.episode_id = g.episode_id + 1
  <2>1. Counted(n)
    BY <1>2, <1>4, <1>5, <1>6, StartCounts
  <2>2. n = SpawnPiece([m EXCEPT !.started = TRUE])
    BY <1>2, <1>4 DEF StartGame
  <2> DEFINE k == [m EXCEPT !.started = TRUE]
  <2>3. Full(k) /\ k.episode_id = m.episode_id
    BY <1>4 DEF Full, GameFields
  <2> HIDE DEF k
  <2>4. SpawnPiece(k).episode_id = m.episode_id
    BY <2>3, SpawnCounts
  <2> QED BY <1>4, <2>1, <2>2, <2>4 DEF k
<1> HIDE DEF n
<1>8. n.episode_id # g.episode_id
  <2>1. g.episode_id \in Nat
    BY SteadyNumbers DEF Good
  <2> QED BY <1>7, <2>1
<1> QED BY <1>1, <1>7, <1>8 DEF StepOK

LEMMA ActionStep ==
  ASSUME NEW g, Good(g), Counted(g), NEW action \in GameActions
  PROVE  Counted(ApplyAction(g, action)) /\ StepOK(ApplyAction(g, action), g)
<1>0. Full(g)
  BY SteadyNumbers DEF Good
<1>1. CASE ~ Allowed(g, action)
  BY <1>1, NoStep DEF ApplyAction
<1>2. CASE Allowed(g, action)
  <2>1. CASE action = "MoveLeft"
    BY <1>0, <1>2, <2>1, QuietMove, QuietStep DEF ApplyAction
  <2>2. CASE action = "MoveRight"
    BY <1>0, <1>2, <2>2, QuietMove, QuietStep DEF ApplyAction
  <2>3. CASE action = "SoftDrop"
    BY <1>2, <2>3, SoftDropCounts, PlayStep DEF ApplyAction, Allowed
  <2>4. CASE action = "HardDrop"
    BY <1>2, <2>4, HardDropCounts, PlayStep DEF ApplyAction, Allowed
  <2>5. CASE action = "RotateCw"
    BY <1>0, <1>2, <2>5, QuietTurn, QuietStep DEF ApplyAction
  <2>6. CASE action = "RotateCcw"
    BY <1>0, <1>2, <2>6, QuietTurn, QuietStep DEF ApplyAction
  <2>7. CASE action = "Hold"
    BY <1>2, <2>7, HoldCounts, PlayStep DEF ApplyAction, Allowed
  <2>8. CASE action = "Pause"
    BY <1>0, <1>2, <2>8, QuietPause, QuietStep DEF ApplyAction
  <2>9. CASE action = "Restart"
    <3>1. g.queue.rng \in RngStates
      BY DEF Good, Steady, GameOK, QueueOK
    <3> QED BY <1>2, <2>9, <3>1, RestartStep DEF ApplyAction
  <2> QED BY <2>1, <2>2, <2>3, <2>4, <2>5, <2>6, <2>7, <2>8, <2>9 DEF GameActions
<1> QED BY <1>1, <1>2

\* A tick is quiet until the lock delay runs out.
LEMMA RunLockDelayCounts ==
  ASSUME NEW g, Good(g), Counted(g), g.active # None, ~ g.game_over, NEW elapsed \in Nat
  PROVE  Counted(RunLockDelay(g, elapsed)) /\ Grown(RunLockDelay(g, elapsed), g)
<1> DEFINE zero == [g EXCEPT !.lock_timer = 0, !.lock_reset_count = 0]
           due  == [g EXCEPT !.lock_timer = 0, !.drop_timer = 0]
           time == SatAdd(g.lock_timer, elapsed)
           wait == [g EXCEPT !.lock_timer = time]
<1>0. Steady(g) /\ Full(g)
  BY SteadyNumbers DEF Good
<1>1. RunLockDelay(g, elapsed) = IF ~ Grounded(g.board, g.active) THEN zero
                                 ELSE IF time >= LockDelay THEN LockPiece(due) ELSE wait
  BY DEF RunLockDelay
<1>2. Quiet(zero, g) /\ Quiet(wait, g) /\ Quiet(due, g) /\ due.active = g.active
  <2> HIDE DEF time
  <2> QED BY <1>0 DEF Quiet, SameCounts, Full, GameFields
<1>3. Steady(due)
  <2>1. GameOK(due) /\ SameField(due, g)
    BY DEF SameField, Good, Steady, GameOK, GameFields
  <2> QED BY <2>1, <1>0, FrameSteady
<1> HIDE DEF zero, due, wait, time
<1>4. Counted(due) /\ due.active # None /\ ~ due.game_over
  BY <1>0, <1>2, QuietCounts DEF Quiet, SameCounts
<1>5. Counted(LockPiece(due)) /\ Grown(LockPiece(due), g)
  BY <1>2, <1>3, <1>4, LockCounts, QuietThen
<1>6. Counted(zero) /\ Grown(zero, g) /\ Counted(wait) /\ Grown(wait, g)
  BY <1>0, <1>2, QuietCounts
<1> QED BY <1>1, <1>5, <1>6

LEMMA TickCounts ==
  ASSUME NEW g, Good(g), Counted(g), NEW elapsed \in Nat, NEW softDrop \in BOOLEAN
  PROVE  Counted(TickGame(g, elapsed, softDrop)) /\ StepOK(TickGame(g, elapsed, softDrop), g)
<1> DEFINE counted == CountTimers(g, elapsed)
           window  == SoftDropWindow(counted, elapsed, softDrop)
           fallen  == Gravity(window, elapsed)
<1>1. CASE g.paused \/ g.game_over \/ ~ g.started
  BY <1>1, NoStep DEF TickGame
<1>2. CASE ~ (g.paused \/ g.game_over \/ ~ g.started)
  <2>1. TickGame(g, elapsed, softDrop)
          = IF counted.line_clear_timer > 0 \/ g.active = None THEN counted
            ELSE RunLockDelay(fallen, elapsed)
    BY <1>2, Zenon DEF TickGame
  <2>2. Good(counted) /\ counted.active = g.active /\ Quiet(counted, g)
    <3>1. Full(g)
      BY SteadyNumbers DEF Good
    <3> QED BY <3>1, CountTimersGood, QuietTimers
  <2> HIDE DEF counted
  <2>3. ASSUME g.active # None
        PROVE  /\ Counted(RunLockDelay(fallen, elapsed))
               /\ Grown(RunLockDelay(fallen, elapsed), g)
    <3>1. Good(window) /\ window.active # None /\ Quiet(window, counted)
      BY <2>2, <2>3, SoftDropWindowGood, QuietWindow DEF Quiet
    <3> HIDE DEF window
    <3>2. Good(fallen) /\ fallen.active # None /\ Quiet(fallen, window)
      BY <3>1, GravityGood, QuietGravity DEF Quiet
    <3> HIDE DEF fallen
    <3>3. Quiet(fallen, g)
      BY <2>2, <3>1, <3>2, QuietTrans
    <3>4. Counted(fallen) /\ ~ fallen.game_over
      BY <1>2, <3>3, QuietCounts DEF Good, Quiet, SameCounts
    <3>5. /\ Counted(RunLockDelay(fallen, elapsed))
          /\ Grown(RunLockDelay(fallen, elapsed), fallen)
      BY <3>2, <3>4, RunLockDelayCounts
    <3> QED BY <3>3, <3>5, QuietThen
  <2> HIDE DEF fallen
  <2>4. Counted(counted) /\ StepOK(counted, g)
    BY <2>2, QuietStep
  <2> QED BY <1>2, <2>1, <2>3, <2>4, PlayStep
<1> QED BY <1>1, <1>2

LEMMA TakeLastEventStep ==
  ASSUME NEW g, Good(g), Counted(g)
  PROVE  /\ Counted([g EXCEPT !.last_event = None])
         /\ StepOK([g EXCEPT !.last_event = None], g)
<1> DEFINE n == [g EXCEPT !.last_event = None]
<1>1. \A f \in GameFields : f # "last_event" => n[f] = g[f]
  BY SteadyNumbers DEF Good, Full
<1> HIDE DEF n
<1>2. /\ n.board = g.board /\ n.board_id = g.board_id /\ n.hold = g.hold
      /\ n.piece_id = g.piece_id /\ n.active_id = g.active_id /\ n.can_hold = g.can_hold
      /\ n.queue = g.queue /\ n.score = g.score /\ n.lines = g.lines
      /\ n.started = g.started /\ n.game_over = g.game_over /\ n.active = g.active
  BY <1>1 DEF GameFields
<1>3. Grown(n, g) /\ Frozen(n, g)
  BY <1>2, SteadyNumbers DEF Good, Grown, Frozen
<1>4. Counted(n)
  BY <1>2 DEF Counted, Swaps, Counters, Accounts, Unstarted, Out
<1> QED BY <1>3, <1>4 DEF StepOK, n
-----------------------------------------------------------------------------
(* The specification. *)

CountedNow == Counted(game)

\* Every operation keeps the accounts and only grows its episode.
LEMMA EveryStep ==
  ASSUME GoodNow, CountedNow, Next
  PROVE  CountedNow' /\ StepOK(game', game)
<1> USE DEF GoodNow, CountedNow
<1>1. CASE Start
  BY <1>1, StartStep DEF Start
<1>2. CASE Act
  <2>1. PICK action \in Inputs : game' = ApplyAction(game, action)
    BY <1>2 DEF Act
  <2>2. action \in GameActions
    BY GameAssumption
  <2> QED BY <2>1, <2>2, ActionStep
<1>3. CASE Tick
  <2>1. PICK elapsed \in TickTimes, softDrop \in BOOLEAN :
          game' = TickGame(game, elapsed, softDrop)
    BY <1>3 DEF Tick
  <2>2. elapsed \in Nat
    BY ConstantsOK
  <2> QED BY <2>1, <2>2, TickCounts
<1>4. CASE Reseed
  BY <1>4, RestartStep DEF Reseed
<1>5. CASE TakeLastEvent
  BY <1>5, TakeLastEventStep DEF TakeLastEvent
<1> QED BY <1>1, <1>2, <1>3, <1>4, <1>5 DEF Next

\* The accounts balance in every reachable state.
THEOREM AlwaysCounted == Spec => []CountedNow
<1>1. Init => CountedNow
  BY NewGameCounts DEF Init, CountedNow
<1>2. GoodNow /\ CountedNow /\ [Next]_game => CountedNow'
  BY EveryStep DEF CountedNow
<1> QED BY <1>1, <1>2, AlwaysGood, PTL DEF Spec

\* A piece is swapped out at most once.
THEOREM HoldAlwaysOnce == Spec => []HoldOncePerPiece
<1>1. CountedNow => HoldOncePerPiece
  BY DEF CountedNow, Counted, Swaps, HoldOncePerPiece
<1> QED BY <1>1, AlwaysCounted, PTL

\* No cell of a piece is lost or made.
THEOREM PiecesAlwaysAccounted == Spec => []PieceAccounting
<1>1. GoodNow /\ CountedNow => PieceAccounting
  <2> SUFFICES ASSUME Good(game), Counted(game), ~ game.game_over, game.lines < U32Max
               PROVE  Cardinality(game.board) + W * game.lines
                        = 4 * (game.piece_id
                               - Cardinality({f \in {"active", "hold"} : game[f] # None}))
    BY DEF GoodNow, CountedNow, PieceAccounting
  <2>1. game.active # None <=> game.started
    BY DEF Good, Live, Counted, Unstarted
  <2> DEFINE F == {f \in {"active", "hold"} : game[f] # None}
  <2>2. Cardinality(F) = Out(game)
    <3> DEFINE A == IF game.active # None THEN {"active"} ELSE {}
               B == IF game.hold # None THEN {"hold"} ELSE {}
    <3>1. F = A \cup B /\ A \cap B = {}
      OBVIOUS
    <3>2. IsFiniteSet(A) /\ Cardinality(A) = IF game.active # None THEN 1 ELSE 0
      BY FS_EmptySet, FS_Singleton
    <3>3. IsFiniteSet(B) /\ Cardinality(B) = IF game.hold # None THEN 1 ELSE 0
      BY FS_EmptySet, FS_Singleton
    <3> HIDE DEF A, B, F
    <3>4. Cardinality(F) = Cardinality(A) + Cardinality(B) - 0
      BY <3>1, <3>2, <3>3, FS_Union, FS_EmptySet
    <3> QED BY <2>1, <3>2, <3>3, <3>4 DEF Out
  <2> QED BY <2>2 DEF Counted, Accounts
<1> QED BY <1>1, AlwaysGood, AlwaysCounted, PTL

\* An episode only grows, and a game that is over keeps still.
THEOREM EpisodesOnlyGrow == Spec => EpisodeMonotone
<1>1. GoodNow /\ CountedNow /\ [Next]_game =>
        [game'.episode_id = game.episode_id =>
           /\ game'.score >= game.score /\ game'.lines >= game.lines
           /\ game'.board_id - game.board_id \in {0, 1}
           /\ game'.board # game.board => game'.board_id = game.board_id + 1
           /\ game.game_over => \A f \in {"game_over", "board", "score", "queue", "hold"} :
                                  game'[f] = game[f]]_game
  BY EveryStep DEF StepOK, Grown, Frozen
<1> QED BY <1>1, AlwaysGood, AlwaysCounted, PTL DEF Spec, EpisodeMonotone
=============================================================================
