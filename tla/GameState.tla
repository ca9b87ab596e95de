----------------------------- MODULE GameState -----------------------------
(***************************************************************************)
(* The rules engine of tetris-core (core/game_state.rs): one record, `game`,*)
(* and one operator per method of the Rust GameState, from a game to the   *)
(* game it leaves.  Time is in abstract units: the timing constants are    *)
(* parameters, so that a run can scale milliseconds down.                  *)
(***************************************************************************)
EXTENDS Board, Scoring, PieceQueue

CONSTANTS
  None,            \* the empty Option
  SpawnX,          \* 3: the column of a new piece's box
  DropIntervals,   \* gravity interval of levels 0, 1, ...; the last one is the floor
  SoftDropMult,    \* SOFT_DROP_MULTIPLIER
  SoftDropGrace,   \* SOFT_DROP_GRACE_MS
  LockDelay,       \* LOCK_DELAY_MS
  LockResetLimit,  \* LOCK_RESET_LIMIT
  LineClearPause,  \* LINE_CLEAR_PAUSE_MS
  LandingFlash,    \* LANDING_FLASH_MS
  LinesPerLevel,   \* 10
  StepModulus,     \* step_in_piece wraps here (2^32)
  TickTimes,       \* the elapsed times a tick may report
  Inputs,          \* the game actions offered
  MaxPieces,       \* bound: pieces spawned in an episode
  MaxEpisodes      \* bound: restarts

GameActions == {"MoveLeft", "MoveRight", "SoftDrop", "HardDrop", "RotateCw",
                "RotateCcw", "Hold", "Pause", "Restart"}

Piece == [kind : Kinds, rotation : Rotations, x : Int, y : Int]

\* CoreLastEvent: what is reported of the latest lock.
LastEvents == [lines_cleared : Nat, line_clear_score : Nat, tspin : TSpinKinds,
               combo : Int, back_to_back : BOOLEAN]

ASSUME GameAssumption ==
  /\ Kinds \subseteq AllKinds
  /\ SpawnX \in Int
  /\ None \notin AllKinds \cup Piece \cup LastEvents
  /\ DropIntervals \in Seq(Nat) /\ Len(DropIntervals) > 0
  /\ SoftDropMult \in Nat \ {0}
  \* A soft-drop interval of 0 would never leave the gravity loop.
  /\ \A i \in 1..Len(DropIntervals) : DropIntervals[i] \div SoftDropMult > 0
  /\ {SoftDropGrace, LockDelay, LinesPerLevel, StepModulus} \subseteq Nat \ {0}
  /\ {LockResetLimit, LineClearPause, LandingFlash} \subseteq Nat
  /\ TickTimes \subseteq Nat
  /\ Inputs \subseteq GameActions
  /\ MaxPieces \in Nat /\ MaxEpisodes \in Nat

VARIABLE game

\* Definitions headed "Slip" are plausible mistakes in the operator they precede.
\* Nothing uses them; put in its place, each breaks a property of GameSafety.
-----------------------------------------------------------------------------
(* Construction and spawning. *)

NewPiece(kind) == [kind |-> kind, rotation |-> North, x |-> SpawnX, y |-> 0]

NewGame(seed) ==
  [board |-> {}, board_id |-> 0, active |-> None, hold |-> None,
   queue |-> NewQueue(seed), next_queue |-> Preview(NewQueue(seed)),
   episode_id |-> 0, piece_id |-> 0, active_id |-> 0, step_in_piece |-> 0,
   last_event |-> None, score |-> 0, level |-> 0, lines |-> 0, combo |-> -1,
   back_to_back |-> FALSE, drop_timer |-> 0, lock_timer |-> 0,
   lock_reset_count |-> 0, line_clear_timer |-> 0, landing_flash |-> 0,
   paused |-> FALSE, game_over |-> FALSE, started |-> FALSE, can_hold |-> TRUE,
   last_action_was_rotate |-> FALSE, soft_drop_timer |-> 0,
   is_soft_dropping |-> FALSE]

\* Slip: a blocked spawn goes unnoticed.
SpawnIgnoringBlock(g) ==
  LET piece == NewPiece(Peek(g.queue))
      rest  == Draw(g.queue)
  IN  IF Fits(g.board, piece)
      THEN [g EXCEPT !.queue = rest, !.active = piece, !.next_queue = Preview(rest),
                     !.piece_id = @ + 1, !.active_id = @ + 1, !.can_hold = TRUE]
      ELSE g

\* Slip: the preview is taken before the draw.
SpawnStalePreview(g) ==
  LET piece == NewPiece(Peek(g.queue))
  IN  IF Fits(g.board, piece)
      THEN [g EXCEPT !.queue = Draw(g.queue), !.active = piece,
                     !.next_queue = Preview(g.queue),
                     !.piece_id = @ + 1, !.active_id = @ + 1, !.can_hold = TRUE]
      ELSE [g EXCEPT !.game_over = TRUE]

\* The spawn is validated before the piece is taken from the queue.
SpawnPiece(g) ==
  LET piece == NewPiece(Peek(g.queue))
      rest  == Draw(g.queue)
  IN  IF Fits(g.board, piece)
      THEN [g EXCEPT !.queue = rest, !.active = piece,
                     !.piece_id = @ + 1, !.active_id = @ + 1, !.step_in_piece = 0,
                     !.can_hold = TRUE, !.lock_timer = 0, !.lock_reset_count = 0,
                     !.last_action_was_rotate = FALSE, !.next_queue = Preview(rest)]
      ELSE [g EXCEPT !.game_over = TRUE]

StartGame(g) == IF g.started THEN g ELSE SpawnPiece([g EXCEPT !.started = TRUE])

RestartWithSeed(g, seed) ==
  StartGame([NewGame(seed) EXCEPT !.episode_id = g.episode_id + 1])
-----------------------------------------------------------------------------
(* Moving and turning the active piece. *)

\* Slip: the lock delay of a piece that left the ground is kept.
HandleLockResetGroundedOnly(g) ==
  IF Grounded(g.board, g.active) /\ g.lock_reset_count < LockResetLimit
  THEN [g EXCEPT !.lock_timer = 0, !.lock_reset_count = @ + 1] ELSE g

\* While it can fall, a piece has no lock time and no resets; on the ground a
\* successful move restarts the lock delay, up to the limit.
HandleLockReset(g) ==
  IF ~ Grounded(g.board, g.active)
  THEN [g EXCEPT !.lock_timer = 0, !.lock_reset_count = 0]
  ELSE IF g.lock_reset_count < LockResetLimit
       THEN [g EXCEPT !.lock_timer = 0, !.lock_reset_count = @ + 1]
       ELSE g

\* Slip: the target cells are not tested.
CanMoveUnchecked(g, dx, dy) == g.active # None

CanMove(g, dx, dy) == g.active # None /\ Fits(g.board, Shifted(g.active, dx, dy))

TryMove(g, dx, dy) ==
  IF ~ CanMove(g, dx, dy) THEN g
  ELSE LET moved == HandleLockReset([g EXCEPT !.active = Shifted(@, dx, dy)])
       IN  IF dx # 0 THEN [moved EXCEPT !.last_action_was_rotate = FALSE] ELSE moved

ValidKicks(g, cw) == {i \in 1..5 : Fits(g.board, Kicked(g.active, cw, i))}

CanRotate(g, cw) ==
  g.active # None /\ g.active.kind # "O" /\ ValidKicks(g, cw) # {}

\* The first kick that fits wins.
TryRotate(g, cw) ==
  IF ~ CanRotate(g, cw) THEN g
  ELSE LET first  == CHOOSE i \in ValidKicks(g, cw) : \A j \in ValidKicks(g, cw) : i <= j
           turned == [g EXCEPT !.active = Kicked(@, cw, first)]
       IN  [HandleLockReset(turned) EXCEPT !.last_action_was_rotate = TRUE]
-----------------------------------------------------------------------------
(* Locking a piece, clearing rows, scoring. *)

\* Slip: a clear counts one line however many rows it removed.
ApplyLineClearOnce(g, lines, tspin) ==
  IF lines = 0 THEN [g EXCEPT !.combo = -1, !.back_to_back = FALSE]
  ELSE [g EXCEPT !.combo = @ + 1, !.lines = @ + 1]

ApplyLineClear(g, lines, tspin) ==
  IF lines = 0
  THEN [g EXCEPT !.combo = -1, !.back_to_back = FALSE,
                 !.score = SatAdd(@, TSpinScore(tspin, 0, g.level))]
  ELSE LET total == SatAdd(g.lines, lines)
       IN  [g EXCEPT !.combo = @ + 1, !.lines = total, !.level = total \div LinesPerLevel,
                     !.back_to_back = QualifiesForB2B(tspin, lines),
                     !.score = SatAdd(@, TotalScore(lines, g.level, tspin, g.combo + 1,
                                                    g.back_to_back)),
                     !.line_clear_timer = LineClearPause,
                     !.landing_flash = LandingFlash]

LockEvent(before, after, lines, tspin) ==
  [lines_cleared    |-> lines,
   line_clear_score |-> IF lines = 0 THEN 0
                        ELSE LineClearScore(lines, before.level, tspin, before.back_to_back),
   tspin            |-> IF lines = 0 THEN "None" ELSE tspin,
   combo            |-> after.combo,
   back_to_back     |-> after.back_to_back]

\* Slip: a lock without a clear keeps the board id.
BoardIdOnClear(id, fits, lines) == IF lines > 0 THEN id + 1 ELSE id

NextBoardId(id, fits, lines) == IF fits \/ lines > 0 THEN id + 1 ELSE id

\* Board::lock_piece fills either all the cells of the piece or none.
LockPiece(g) ==
  IF g.active = None THEN g
  ELSE LET piece  == g.active
           fits   == Fits(g.board, piece)
           locked == IF fits THEN g.board \cup CellsOf(piece) ELSE g.board
           tspin  == IF fits /\ piece.kind = "T" THEN TSpinKind(g.last_action_was_rotate, locked, piece)
                                                 ELSE "None"
           lines  == Cardinality(FullRows(locked))
           placed == [g EXCEPT !.landing_flash = LandingFlash, !.active = None,
                               !.board = ClearFullRows(locked),
                               !.board_id = NextBoardId(@, fits, lines)]
           scored == ApplyLineClear(placed, lines, tspin)
           told   == [scored EXCEPT !.last_event = LockEvent(g, scored, lines, tspin)]
       IN  IF told.game_over THEN told ELSE SpawnPiece(told)

Dropped(g) ==
  [g EXCEPT !.active = Shifted(@, 0, DropDistance(g.board, g.active))]

\* The lock happens first; the drop points are added to whatever game it leaves.
HardDrop(g) ==
  LET ready == [g EXCEPT !.last_action_was_rotate = FALSE]
  IN  IF g.active = None THEN ready
      ELSE [LockPiece(Dropped(ready)) EXCEPT
              !.score = SatAdd(@, DropScore(DropDistance(g.board, g.active), TRUE))]

SoftDrop(g) ==
  [TryMove(g, 0, 1) EXCEPT
     !.score = IF CanMove(g, 0, 1) THEN SatAdd(@, DropScore(1, FALSE)) ELSE @,
     !.is_soft_dropping = TRUE, !.soft_drop_timer = SoftDropGrace,
     !.last_action_was_rotate = FALSE]

\* Slip: the hold is not used up.
AfterHoldAgain(g) == [g EXCEPT !.lock_timer = 0, !.lock_reset_count = 0]

AfterHold(g) == [g EXCEPT !.can_hold = FALSE, !.lock_timer = 0,
                          !.lock_reset_count = 0, !.last_action_was_rotate = FALSE]

\* A swap that does not fit loses the held piece; a first hold whose spawn fails
\* leaves the piece both active and held.  Either way the game is over.
Hold(g) ==
  IF ~ g.can_hold \/ g.active = None THEN g
  ELSE IF g.hold = None
       THEN AfterHold(SpawnPiece([g EXCEPT !.hold = g.active.kind]))
       ELSE LET swapped == [g EXCEPT !.active = NewPiece(g.hold), !.hold = g.active.kind,
                                     !.active_id = @ + 1, !.step_in_piece = 0]
            IN  IF Fits(g.board, swapped.active) THEN AfterHold(swapped)
                ELSE [swapped EXCEPT !.game_over = TRUE, !.active = None]
-----------------------------------------------------------------------------
(* tick: timers, the soft-drop window, gravity, the lock delay. *)

DropInterval(g) ==
  LET base == DropIntervals[IF g.level < Len(DropIntervals) THEN g.level + 1
                                                            ELSE Len(DropIntervals)]
  IN  IF g.is_soft_dropping THEN base \div SoftDropMult ELSE base

\* Counting before the early returns of tick.
CountTimers(g, elapsed) ==
  [g EXCEPT !.landing_flash = SatSub(@, elapsed),
            !.step_in_piece = IF g.active # None THEN (@ + 1) % StepModulus ELSE @,
            !.line_clear_timer = SatSub(@, elapsed)]

SoftDropWindow(g, elapsed, softDrop) ==
  LET on    == softDrop \/ g.is_soft_dropping
      timer == IF softDrop THEN SoftDropGrace ELSE g.soft_drop_timer
      left  == IF on THEN SatSub(timer, elapsed) ELSE timer
  IN  [g EXCEPT !.soft_drop_timer = left,
                !.is_soft_dropping = on /\ (timer > 0 => left > 0)]

\* The accumulator loop: one try_move per whole interval.  Before the last of
\* several moves the piece could still fall, so it has no lock time by then.
Gravity(g, elapsed) ==
  LET time  == SatAdd(g.drop_timer, elapsed)
      fall  == DropDistance(g.board, g.active)
      steps == IF time \div DropInterval(g) < fall THEN time \div DropInterval(g) ELSE fall
      timed == [g EXCEPT !.drop_timer = time % DropInterval(g)]
  IN  IF steps = 0 THEN timed
      ELSE HandleLockReset(
             [timed EXCEPT !.active = Shifted(@, 0, steps),
                           !.lock_timer = IF steps > 1 THEN 0 ELSE @,
                           !.lock_reset_count = IF steps > 1 THEN 0 ELSE @])

RunLockDelay(g, elapsed) ==
  LET time == SatAdd(g.lock_timer, elapsed)
  IN  IF ~ Grounded(g.board, g.active)
      THEN [g EXCEPT !.lock_timer = 0, !.lock_reset_count = 0]
      ELSE IF time >= LockDelay
           THEN LockPiece([g EXCEPT !.lock_timer = 0, !.drop_timer = 0])
           ELSE [g EXCEPT !.lock_timer = time]

TickGame(g, elapsed, softDrop) ==
  IF g.paused \/ g.game_over \/ ~ g.started THEN g
  ELSE LET counted == CountTimers(g, elapsed)
       IN  IF counted.line_clear_timer > 0 \/ g.active = None THEN counted
           ELSE RunLockDelay(Gravity(SoftDropWindow(counted, elapsed, softDrop), elapsed),
                             elapsed)
-----------------------------------------------------------------------------
(* apply_action. *)

\* Slip: pausing stops the soft drop but not its timer.
TogglePauseKeepsTimer(g) ==
  [g EXCEPT !.paused = ~ @, !.is_soft_dropping = @ /\ g.paused]

TogglePause(g) ==
  [g EXCEPT !.paused = ~ @,
            !.is_soft_dropping = @ /\ g.paused,
            !.soft_drop_timer = IF g.paused THEN @ ELSE 0]

Allowed(g, action) ==
  /\ g.game_over => action = "Restart"
  /\ g.paused => action \in {"Pause", "Restart"}

ApplyAction(g, action) ==
  IF ~ Allowed(g, action) THEN g
  ELSE CASE action = "MoveLeft"  -> TryMove(g, -1, 0)
         [] action = "MoveRight" -> TryMove(g, 1, 0)
         [] action = "SoftDrop"  -> SoftDrop(g)
         [] action = "HardDrop"  -> HardDrop(g)
         [] action = "RotateCw"  -> TryRotate(g, TRUE)
         [] action = "RotateCcw" -> TryRotate(g, FALSE)
         [] action = "Hold"      -> Hold(g)
         [] action = "Pause"     -> TogglePause(g)
         [] action = "Restart"   -> RestartWithSeed(g, g.queue.rng)
-----------------------------------------------------------------------------
(* The state machine. *)

Init == \E seed \in RngStates : game = NewGame(seed)

\* Bounds on the counters that grow without limit in the code.
Bounded == game'.piece_id <= MaxPieces /\ game'.episode_id <= MaxEpisodes

Start  == game' = StartGame(game) /\ Bounded

Act    == \E action \in Inputs : game' = ApplyAction(game, action) /\ Bounded

Tick   == \E elapsed \in TickTimes, softDrop \in BOOLEAN :
             game' = TickGame(game, elapsed, softDrop) /\ Bounded

Reseed == \E seed \in RngStates : game' = RestartWithSeed(game, seed) /\ Bounded

TakeLastEvent == game' = [game EXCEPT !.last_event = None] /\ Bounded

Next == Start \/ Act \/ Tick \/ Reseed \/ TakeLastEvent

Spec == Init /\ [][Next]_game
=============================================================================
