----------------------------- MODULE GameSafety -----------------------------
(***************************************************************************)
(* What the rules engine promises: the properties the runs check and       *)
(* GameProofs proves.                                                      *)
(***************************************************************************)
EXTENDS GameState

GameFields ==
  {"board", "board_id", "active", "hold", "queue", "next_queue", "episode_id", "piece_id",
   "active_id", "step_in_piece", "last_event", "score", "level", "lines", "combo",
   "back_to_back", "drop_timer", "lock_timer", "lock_reset_count", "line_clear_timer",
   "landing_flash", "paused", "game_over", "started", "can_hold",
   "last_action_was_rotate", "soft_drop_timer", "is_soft_dropping"}

GameOK(g) ==
  /\ DOMAIN g = GameFields
  /\ g.board \subseteq Cells
  /\ g.active \in Piece \cup {None}
  /\ g.hold \in Kinds \cup {None}
  /\ QueueOK(g.queue)
  /\ g.next_queue \in [1..PreviewLen -> Kinds]
  /\ g.board_id \in Nat /\ g.episode_id \in Nat /\ g.piece_id \in Nat /\ g.active_id \in Nat
  /\ g.step_in_piece \in 0 .. StepModulus-1
  /\ g.last_event \in LastEvents \cup {None}
  /\ g.score \in Nat /\ g.level \in Nat /\ g.lines \in Nat /\ g.combo \in Int
  /\ g.drop_timer \in Nat /\ g.lock_timer \in Nat /\ g.lock_reset_count \in 0..LockResetLimit
  /\ g.line_clear_timer \in Nat /\ g.landing_flash \in Nat /\ g.soft_drop_timer \in Nat
  /\ g.back_to_back \in BOOLEAN /\ g.paused \in BOOLEAN /\ g.game_over \in BOOLEAN
  /\ g.started \in BOOLEAN /\ g.can_hold \in BOOLEAN
  /\ g.last_action_was_rotate \in BOOLEAN /\ g.is_soft_dropping \in BOOLEAN

\* Every field of the game has its type, timers and counters never go negative.
TypeOK == GameOK(game)
-----------------------------------------------------------------------------
\* The active piece always lies on free cells of the board, whatever mix of
\* moves, kicks, holds, drops, row clears and spawns produced them; so
\* Board::lock_piece can never fail and no collision loop starts from an overlap.
ActiveFits == game.active # None => Fits(game.board, game.active)

\* No full row survives an operation: every lock clears all of them, so at most
\* the rows of one piece are full when clear_full_rows collects them in an
\* ArrayVec of capacity 4.
NoFullRows == FullRows(game.board) = {}

\* A started game that is not over has an active piece between operations: the
\* early returns for a missing piece in move, hold, drop and tick are dead code
\* while the game can be played.
PlayableHasActive == game.started /\ ~ game.game_over => game.active # None

\* rules-spec.md: while the active piece can still move down, lock_ms and
\* lock_reset_count stay at 0 - also when a row clear or a hold, not a move of
\* the piece, is what changed the ground below it.
LockTimersOnlyGrounded ==
  game.active # None /\ ~ Grounded(game.board, game.active) =>
    game.lock_timer = 0 /\ game.lock_reset_count = 0

\* The cached preview is the queue's: it never lags behind a draw, a failed
\* spawn or a restart.
NextQueueFresh == game.next_queue = Preview(game.queue)

\* A soft drop is never stuck on: its speed lasts exactly as long as its timer,
\* across locks, holds and pauses.
SoftDropExpires == game.is_soft_dropping <=> game.soft_drop_timer > 0

\* A piece is swapped out at most once: spawns and swaps together never pass two
\* per piece taken from the queue.
HoldOncePerPiece == game.active_id <= 2 * game.piece_id

\* Four cells per piece: every piece taken from the queue is on the board, in
\* rows already cleared, active or held, and none is there twice - until the line
\* counter, which saturates, has reached its end.
PieceAccounting ==
  ~ game.game_over /\ game.lines < U32Max =>
    Cardinality(game.board) + W * game.lines
      = 4 * (game.piece_id - Cardinality({f \in {"active", "hold"} : game[f] # None}))

\* Scores, lines and ids never go back within an episode, a changed board has a
\* new board_id, and one operation locks at most one piece.  A game that is over
\* stays over: until a restart its board, score, queue and hold stay, too.
EpisodeMonotone ==
  [][game'.episode_id = game.episode_id =>
       /\ game'.score >= game.score /\ game'.lines >= game.lines
       /\ game'.board_id - game.board_id \in {0, 1}
       /\ game'.board # game.board => game'.board_id = game.board_id + 1
       /\ game.game_over => \A f \in {"game_over", "board", "score", "queue", "hold"} :
                              game'[f] = game[f]]_game
=============================================================================
