------------------------------ MODULE Session ------------------------------
(***************************************************************************)
(* SessionRuntime of tetris-session: one fixed step applies the remote     *)
(* commands, then the local actions, then one tick, takes the last event   *)
(* and refreshes the published snapshot (engine/session.rs); and the place *)
(* command, which plans on a copy of the game (engine/place.rs).           *)
(*                                                                         *)
(* A step is cut at its loop iterations: the next command or action is     *)
(* chosen when the loop reaches it, which covers every StepInput.          *)
(***************************************************************************)
EXTENDS GameSafety

CONSTANTS Seeds,       \* seeds a restart command may carry
          MaxActions   \* bound: actions and places in one step

ASSUME SessionAssumption ==
  Seeds \subseteq RngStates /\ MaxActions \in Nat /\ 1 \in TickTimes

VARIABLES phase,      \* where the transition is: "idle", "remote", "local" or "tick"
          seed,       \* restart_seed of the command being applied
          acted,      \* actions and places of this step
          snapshot,   \* SnapshotStore: what consumers see
          events,     \* the events of the last transition
          locks,      \* history: locks of this step since its last restart
          copied      \* history: the episode the snapshot's board comes from

session == <<phase, seed, acted, snapshot, events, locks, copied>>
-----------------------------------------------------------------------------
(* The snapshot. *)

BoardView(g) == [board |-> g.board, board_id |-> g.board_id]
Meta(g)  == [active |-> g.active, hold |-> g.hold, next_queue |-> g.next_queue,
             can_hold |-> g.can_hold, paused |-> g.paused, game_over |-> g.game_over,
             episode_id |-> g.episode_id, seed |-> g.queue.seed, piece_id |-> g.piece_id,
             score |-> g.score, level |-> g.level, lines |-> g.lines]

View(g) == [cells |-> BoardView(g), meta |-> Meta(g)]

\* Slip: the board is copied only when rows were cleared since.
RefreshOnLines(view, g) ==
  [cells |-> IF view.meta.lines # g.lines THEN BoardView(g) ELSE view.cells, meta |-> Meta(g)]

\* The board is copied when its id changed, the metadata always.
Refresh(view, g) ==
  [cells |-> IF view.cells.board_id # g.board_id THEN BoardView(g) ELSE view.cells,
   meta  |-> Meta(g)]
-----------------------------------------------------------------------------
(* The place command. *)

\* Does the hold action report success?  A first hold does even if it ends the game.
HoldSucceeds(g) ==
  /\ Allowed(g, "Hold") /\ g.can_hold /\ g.active # None
  /\ g.hold # None => Fits(g.board, NewPiece(g.hold))

\* The same action n times; one that is refused is refused again, so the result
\* shows whether all of them were accepted.
Repeated(g, action, n) ==
  LET after[i \in 0..n] == IF i = 0 THEN g ELSE ApplyAction(after[i-1], action)
  IN  after[n]

QuarterTurns(from, to, cw) == IF cw THEN (to - from) % 4 ELSE (from - to) % 4

\* The first of two plans that reaches the rotation, else what the second leaves.
FirstReaching(plan, rotation) ==
  IF plan[1].active.rotation = rotation THEN plan[1] ELSE plan[2]

\* The shorter way round first, clockwise if equal, each plan from the same game.
Turned(g, rotation) ==
  LET turns(cw) == QuarterTurns(g.active.rotation, rotation, cw)
      cwFirst   == turns(TRUE) <= turns(FALSE)
  IN  FirstReaching([i \in 1..2 |-> LET cw == (i = 1) <=> cwFirst
                                    IN  Repeated(g, IF cw THEN "RotateCw" ELSE "RotateCcw",
                                                 turns(cw))],
                    rotation)

MovedTo(g, x) ==
  LET dx == x - g.active.x
  IN  Repeated(g, IF dx > 0 THEN "MoveRight" ELSE "MoveLeft", IF dx > 0 THEN dx ELSE -dx)

HeldFirst(g, useHold) == IF useHold THEN ApplyAction(g, "Hold") ELSE g

Failed(g, code) == [outcome |-> code, game |-> g]
DropIt(g)       == [outcome |-> "ok", game |-> ApplyAction(g, "HardDrop")]

\* Slip: a plan that does not reach the target is dropped all the same.
PlaceAnyway(g, x, rotation, useHold) ==
  IF g.paused \/ g.game_over \/ g.active = None THEN Failed(g, "invalid_place")
  ELSE DropIt(MovedTo(Turned(HeldFirst(g, useHold), rotation), x))

\* The steps of a plan for game g that has reached `plan`; a failure returns g.
DropAt(g, plan, x) ==
  IF plan.active.x # x THEN Failed(g, "invalid_place") ELSE DropIt(plan)

MoveAndDrop(g, plan, x, rotation) ==
  IF plan.active.rotation # rotation THEN Failed(g, "invalid_place")
  ELSE DropAt(g, MovedTo(plan, x), x)

TurnAndDrop(g, plan, x, rotation) ==
  IF plan.active = None \/ plan.game_over THEN Failed(g, "invalid_place")
  ELSE MoveAndDrop(g, Turned(plan, rotation), x, rotation)

\* The plan runs on a copy of the game and replaces it only if every step of it
\* was accepted.  After a hold that ends the game nothing is.
ApplyPlace(g, x, rotation, useHold) ==
  IF g.paused \/ g.game_over THEN Failed(g, "invalid_place")
  ELSE IF useHold /\ ~ HoldSucceeds(g) THEN Failed(g, "hold_unavailable")
  ELSE TurnAndDrop(g, HeldFirst(g, useHold), x, rotation)
-----------------------------------------------------------------------------
(* The transition. *)

SessionInit ==
  /\ \E s \in RngStates : game = StartGame(NewGame(s))
  /\ phase = "idle" /\ seed = None /\ acted = 0
  /\ snapshot = View(game) /\ events = <<>> /\ locks = 0 /\ copied = 0

BeginStep ==
  /\ phase = "idle"
  /\ phase' = "remote" /\ acted' = 0 /\ locks' = 0 /\ events' = <<>>
  /\ UNCHANGED <<game, seed, snapshot, copied>>

\* An action changes the game; a lock or a restart in it is remembered.
CountLocks == locks' = IF game'.episode_id = game.episode_id
                    THEN locks + (game'.board_id - game.board_id) ELSE 0

\* The next Actions command of the step.
BeginActions ==
  /\ phase = "remote" /\ acted < MaxActions
  /\ seed' \in Seeds \cup {None} /\ seed' # seed
  /\ UNCHANGED <<game, phase, acted, snapshot, events, locks, copied>>

\* An action of the command; its first restart takes the seed.
RemoteAction ==
  /\ phase = "remote" /\ acted < MaxActions
  /\ acted' = acted + 1
  /\ \E action \in Inputs :
       IF action = "Restart" /\ seed # None
       THEN game' = RestartWithSeed(game, seed) /\ seed' = None
       ELSE game' = ApplyAction(game, action) /\ seed' = seed
  /\ Bounded /\ CountLocks
  /\ UNCHANGED <<phase, snapshot, events, copied>>

RemotePlace ==
  /\ phase = "remote" /\ acted < MaxActions
  /\ acted' = acted + 1
  /\ \E x \in -2 .. W, rotation \in Rotations, useHold \in BOOLEAN :
       game' = ApplyPlace(game, x, rotation, useHold).game
  /\ seed' = None
  /\ Bounded /\ CountLocks
  /\ UNCHANGED <<phase, snapshot, events, copied>>

EndRemote ==
  /\ phase = "remote"
  /\ phase' = "local" /\ seed' = None
  /\ UNCHANGED <<game, acted, snapshot, events, locks, copied>>

LocalAction ==
  /\ phase = "local" /\ acted < MaxActions
  /\ acted' = acted + 1
  /\ \E action \in Inputs : game' = ApplyAction(game, action)
  /\ Bounded /\ CountLocks
  /\ UNCHANGED <<phase, seed, snapshot, events, copied>>

TickStep ==
  /\ phase = "local"
  /\ phase' = "tick"
  /\ game' = TickGame(game, 1, FALSE)
  /\ Bounded /\ CountLocks
  /\ UNCHANGED <<seed, acted, snapshot, events, copied>>

\* Slip: the event is read and not taken.
PublishKeepsEvent ==
  /\ phase = "tick"
  /\ phase' = "idle"
  /\ events' = IF game.last_event = None THEN <<>> ELSE <<game.last_event>>
  /\ snapshot' = Refresh(snapshot, game)
  /\ copied' = IF snapshot'.cells = snapshot.cells THEN copied ELSE game.episode_id
  /\ UNCHANGED <<game, seed, acted, locks>>

\* take_last_event, then refresh.
Publish ==
  /\ phase = "tick"
  /\ phase' = "idle"
  /\ game' = [game EXCEPT !.last_event = None]
  /\ events' = IF game.last_event = None THEN <<>> ELSE <<game.last_event>>
  /\ snapshot' = Refresh(snapshot, game)
  /\ copied' = IF snapshot'.cells = snapshot.cells THEN copied ELSE game.episode_id
  /\ UNCHANGED <<seed, acted, locks>>

SessionNext ==
  \/ BeginStep \/ BeginActions \/ RemoteAction \/ RemotePlace \/ EndRemote
  \/ LocalAction \/ TickStep \/ Publish

SessionSpec == SessionInit /\ [][SessionNext]_<<game, session>>
-----------------------------------------------------------------------------
\* The published metadata is the game's, and so is the board if it was copied in
\* the same episode: within an episode no board changes without a new board_id.
SnapshotFollows ==
  phase = "idle" =>
    /\ snapshot.meta = Meta(game)
    /\ snapshot.cells.board_id = game.board_id
    /\ copied = game.episode_id => snapshot.cells.board = game.board

\* docs/architecture.md: SnapshotStore guarantees that consumers cannot combine
\* current metadata with an obsolete board.
SnapshotCoherent == phase = "idle" => snapshot = View(game)

\* A step reports an event exactly if it locked a piece after its last restart,
\* and the event is that of the latest lock.
LastLockReported ==
  phase = "idle" =>
    /\ events # <<>> <=> locks > 0
    /\ \A i \in 1..Len(events) : /\ events[i].combo = game.combo
                                 /\ events[i].back_to_back = game.back_to_back

\* The place p of a piece of this kind ended with it at rest in column x.
Landed(p, kind, x, rotation) ==
  LET Rest(y) == [kind |-> kind, rotation |-> rotation, x |-> x, y |-> y]
  IN  IF p.outcome # "ok" THEN p.game = game
      ELSE /\ p.game.board_id = game.board_id + 1
           /\ \E y \in -2 .. H :
                /\ Fits(game.board, Rest(y)) /\ Grounded(game.board, Rest(y))
                /\ p.game.board = ClearFullRows(game.board \cup CellsOf(Rest(y)))

\* A place either changes nothing or locks one piece, and that is the piece asked
\* for: in the target column and rotation, at rest on the board.
PlaceLands ==
  phase = "remote" =>
    \A x \in -2 .. W, rotation \in Rotations, useHold \in BOOLEAN :
      Landed(ApplyPlace(game, x, rotation, useHold),
             IF ~ useHold THEN game.active.kind
             ELSE IF game.hold = None THEN Peek(game.queue) ELSE game.hold,
             x, rotation)
=============================================================================
