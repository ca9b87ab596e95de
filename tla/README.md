# tui-tetris in TLA+

A model of tui-tetris: the rules engine, the session that steps it, the TCP
adapter through which external players take control of it and watch it, and the
terminal programs around them. TLC checks the models on small instances; TLAPS
proves their safety, every property of the passing runs but the liveness, for
every instance. Paths below are relative to `src/`; `core/` stands for
`crates/tetris-core/src/core/`, `engine/` for
`crates/tetris-session/src/engine/`, `adapter/` for
`crates/tetris-adapter/src/adapter/` and `term/`, `input/` for the directories
of `crates/tetris-terminal/src/`.

## 1. The system

| Component | Source | State | Operations |
|---|---|---|---|
| Board and pieces | `core/board.rs`, `core/pieces.rs`, `crates/tetris-core/src/types.rs` | filled cells | collision test, kicks, drop distance, lock, clear rows, T-spin corners |
| Scoring | `core/scoring.rs` | none | line, T-spin, combo, back-to-back, drop points |
| Piece queue and generator | `core/rng.rs` | current bag, position, generator state | draw, peek, five-piece preview, refill, seed |
| Rules engine | `core/game_state.rs` | `GameState`: board, active, hold, queue, scores, timers, ids | nine actions, tick, start, restart, take the last event |
| Snapshot, state hash | `core/snapshot.rs`, `core/state_hash.rs` | `SnapshotStore` | refresh (metadata always, board if `board_id` changed) |
| Session | `engine/session.rs` | game, store, step count | `transition`: remote commands, local actions, tick, event, snapshot |
| Place | `engine/place.rs` | none | hold, rotate, move, drop on a copy; commit or nothing |
| Fixed-step clock | `engine/fixed_step.rs` | backlog of time | due steps per sample, capped catch-up |
| Replay | `engine/replay.rs`, `src/replay_cli.rs` | tape of inputs and hashes | record, encode, decode, verify, minimal failure prefix |
| Broker | `adapter/server.rs` | clients, controller, last seqs | connect, hello, command, claim, release, disconnect, status |
| Mailbox | `adapter/client_mailbox.rs` | reliable queue, latest observation, shutdown flag | reply, publish, shut down |
| Game loop | `adapter/game_loop.rs`, `adapter/command_apply.rs` | batch of pending commands | drain, apply, answer, observe |
| Observation schedule | `adapter/observation_schedule.rs`, `adapter/observation.rs` | seq, cadence, pending events | immediate, after a tick |
| Adapter runtime | `adapter/runtime.rs` | command queue, status channel, observation slot | receive, poll, publish |
| Input handler | `input/handler.rs`, `input/map.rs` | keys held, repeat timers, release timeouts | press, repeat, release, update, reset |
| Renderer | `term/fb.rs`, `term/renderer.rs`, `term/render_throttle.rs`, `term/game_view.rs` | frame buffers, last frame, last draw | paint, encode in full or by differences, swap, invalidate |
| Interactive loop | `src/main.rs` (`run`, `run_headless`) | clock, waiting actions | status, draw, event, steps |
| Observer | `src/observe.rs`, `src/main.rs` (`run_observe`) | connection, newest observation | connect, greet, retry, draw |

How they interact. One game thread owns the session: per fixed step it drains
at most 32 messages from a bounded command queue, calls `transition` once and
answers the commands. Every connection has a reader task and a write task in
the adapter's runtime; readers share the broker under one lock, push commands
into the queue (`try_send`) and never wait for the game except for the
snapshot of a streaming hello (`send().await`). Answers go from the game
thread into a client's bounded mailbox, which the write task empties; an
overflow requests the shutdown of that client and of nobody else. The broker
publishes a status (`watch` channel) that the game thread polls. After each step
the game thread may replace the observation in a latest-only slot; a dispatcher
task copies it to the slot of every streaming client, and each write task sends
what its slot holds when it gets there. A snapshot asked for by a hello goes to
the client's slot without the dispatcher. The game thread is also the terminal
loop: it draws, waits for an event until the next step is due, and runs the steps
that are. The observer is a program of its own, a client of the adapter with a
reader thread and a loop.

What is hard here: the long sequences of moves, kicks, holds and clears of the
rules; timers that several operations touch (lock delay, soft drop, pause);
ids and caches that consumers key on (`board_id`, `next_queue`, the snapshot's
board); and, in the adapter, tasks that interleave between two lock sections,
clients that die with a half-done hello, full queues, repeated sequence numbers
and a status written after the change it reports; observations that two threads
put into one slot; time that no burst may lose and keys that no pause may hide;
buffers that loop and renderer exchange. Nothing is persisted but replay tapes: a
tape cut short is the one crash to recover from, a lost connection the failure
that matters elsewhere.

What makes each component correct:

- board, rules: the active piece always lies on free cells; every lock clears
  every full row; pieces and cells are conserved; ids and scores are monotone
  within an episode; game over is final; caches and timers agree with what they
  stand for;
- queue: the preview is what will be drawn, across the end of a bag;
- session: a snapshot is one moment of the game; a step reports what it did; a
  place is all or nothing, and lands where it was asked to;
- broker: at most one controller, a registered one; control is not stolen;
  commands are applied in order of seq and at most once; every line of a live
  client is answered; the status catches up;
- observations: an event is in one observation; the cadence is exact; a client that
  streams catches up with the game;
- terminal loop and handler: no time is lost or counted twice; a key is given to one
  step; repeats stop when the fingers are up;
- renderer: the screen shows what was drawn last, and that is not old;
- replay: a whole tape verifies, a damaged one is rejected, shorter, or fails where
  it was changed;
- observer: the screen never goes back, a lost connection is replaced.

The full list of hazards, each at its line, is in `PROJECT.json`; each names the
properties that cover it or says why none does.

## 2. Modules

```
Pieces  Scoring  PieceQueue           shapes and kicks; points; the bag
   |       |         |
 Board     |         |                collision, clearing, T-spin
   |       |         |
   +--- GameState ---+                the rules engine: `game`
            |
       GameSafety -- MCGame           its properties
            |     \
            |      Session -- MCSession      a fixed step and its snapshot
            |
BoardProofs -- GameProofs -- EpisodeProofs -- SessionProofs

AtomicClear <--implements-- ClearRows (EXTENDS Board, Scoring)

Broker -- BrokerSafety -- MCBroker    connections, control, queue, answers
                  \-- BrokerProofs
Delivery -- DeliveryProofs            observations, from the schedule to the client
InputHandler -- Terminal              keys and repeats; the loop with its clock
                   \-- TerminalProofs
PieceQueue <--INSTANCE-- Rng          the generator under the queue
Screen  Replay  Observe               drawing; tapes; the observer
MCParts                               runs ClearRows, Rng, Screen, Replay, Observe
PartsProofs (EXTENDS BoardProofs)     proves about them
```

**Pieces, Board.** A board is the set of its filled cells; a piece a kind,
rotation and position. Shapes and kick tables are the code's. `Fits`,
`Grounded`, `DropDistance`, `ClearFullRows` and `TSpinKind` are `is_valid`,
`is_grounded`, the loop of `hard_drop`, `clear_full_rows` and `t_spin_kind`.
The colour of a cell is left out, since no rule reads it.

**AtomicClear, ClearRows.** `clear_full_rows` collects the full rows, looking at one
row after another, and calls `clear_row` once for each, shifting everything above.
`ClearRows` runs both loops, row by row (`CollectRow`, `ClearNextRow`); `AtomicClear`
drops all full rows at once, which is what `Board!ClearFullRows` states.
`ClearsAtOnce` is the refinement.

**Scoring.** The tables and multipliers with saturating arithmetic (`SatAdd`,
`SatMul`, `SatSub`), the largest `u32` being the constant `U32Max`.

**PieceQueue.** The bag and its position. The generator is two functions of its
state: the bag a refill makes (`NextBag`) and the next state (`NextRng`);
`Preview` simulates the next refill on a copy, as `peek_5` does.

**GameState.** `game` is one record, with the fields of the Rust struct; each
method is an operator from a game to the game it leaves (`TryMove`, `TryRotate`,
`HardDrop`, `SoftDrop`, `Hold`, `LockPiece`, `ApplyLineClear`, `TogglePause`,
`Restart`, `TickGame` with its timers and gravity). `Next` applies any action
or ticks. Definitions headed "Slip" are plausible mistakes in the operator they
precede; no specification uses them, and each of them breaks a property when it
is put in the place of the real operator.

**Session.** A step in phases (`idle`, `remote`, `local`, `tick`): commands of
actions or places, local actions, the tick, then `Publish` takes the event and
refreshes the snapshot. The snapshot has the two halves of the code, `meta` and
`cells`, and `Refresh` copies the second only when `board_id` differs.
`ApplyPlace` is the whole of `place.rs`.

**Broker.** A step is what a task does between two awaits: a critical section
of the broker lock, a send, a receive.

| Code | Actions |
|---|---|
| accept loop, registration | `Accept`, `Register` |
| status emission, under the read lock | `EmitStatus` |
| hello: validate and mark; assign and welcome; wait for the queue | `ReadHello`, `ReadMismatch`; `AssignRole`; `RequestSnapshot` |
| command: check seq and controller; `try_send` | `ReadCommand`; `SendCommand` |
| claim, release, unknown type, parse error | `ReadClaim`, `ReadRelease`, `ReadUnknown`, `ReadGarbage` |
| end of file, shutdown, cleanup, abort of the writer | `Disconnect`, `SeeShutdown`, `CleanUp`, `Leave` |
| write task | `Sent`, `WriterFails` |
| `step_session`: drain, transition, answers | `GameTake`, `GameApply`, `GameAck` |
| dispatcher of observations | `Broadcast` |

The check of a seq and the test or change of the controller that follows it are
two lock sections in the code and one step here: no other task reads a client's
last seq, so nothing can tell the difference. A line is its kind and seq; what
a command does to the game is Session's matter. `applied` and `owed` are
history: the last seq applied and the lines not answered yet.

**Delivery.** The game is a count of the changes an observation is sent for at once,
and of the events among them. `Capture`, `Immediate` and `AfterTick` are the
operations of `ObservationSchedule`; the game thread polls the status
(`PollStatus`), answers snapshot requests (`ServeSnapshot`) and steps (`Tick`),
several times in a burst. `TakeLatest`, `LockRegistry` and `PublishNext` are the
dispatcher, which holds an observation while it waits for the registry; `Write` is
a write task. `subs` is the game thread's copy of the status and may be old.

**InputHandler, Terminal.** The handler is a record and its methods operators;
an `Instant` in it is an age. `Terminal` is the loop of `run` in phases: `wait`
(`event::poll`), `read` (one event), `sample` (the clock), `step`. Of the game it
keeps the mode: play, paused or over; remote commands and the rules change it too.
The player's fingers are modelled, so that a release can be reported, ignored
(`src/main.rs:394`) or missing. `repeats`, `upFor`, `owed` and `debt` are history:
what the handler last generated, how long no key has been down, accepted actions not
yet given to the game, wall time minus simulated time.

**Rng.** `NextU32` is the step of the generator modulo 2^32, on two halves, since
TLC's integers have 32 bits; `Shuffle` is the Fisher-Yates loop as six rounds, last
place first. `PieceQueue` is instantiated with it, seven kinds and five
previewed pieces.

**Screen.** A frame is a size and its cells. `EncodeFull` and `EncodeDiff` yield
commands, and `Execute` is a terminal that runs them: cursor, pen, line feeds and
scrolling. `DrawSwap` exchanges the buffers of loop and renderer, `ReadSize`
invalidates on a new size, `ShouldRender` throttles. The layout of the view is
reduced to the cells a view paints.

**Replay.** A session is any deterministic machine, by tables; its digest does not
show all of its state. A tape is encoded to tagged lines and decoded by a loop over
them that is between two records or inside one (`ReadLine`); storage may keep a
beginning of them or of the header's digits (`CutFile`, `CutHeader`), an edit
may change a record (`EditRecord`, what `replace_record_for_test` does).

**Observe.** The adapter side greets, sends, reports errors, hangs up, goes away
and comes back; each line becomes an event of the connection's channel, and the end
of it a last one. The observer connects (`Connect`, `Refused`), awaits the greeting
(`AwaitWelcome`, `WelcomeTimeout`), and loops (`ReadEvent`, `DrawNewest`,
`PollKeys`).

**MCParts** runs five parts that share no state side by side: `subject` says which
one a behaviour is about, and the variables of the others stand still.

## 3. Runs

Passing runs exhaust their instance; the numbers are distinct states.

| Run | States | What it shows |
|---|---|---|
| `GameRules` | 149,841 | Every order of moves, turns, holds and drops of six pieces (I, O, T) on a 4 by 6 board: pieces never overlap the stack or lie beyond the walls, full rows go, the preview is right across two bags, holds do not repeat, cells and pieces are conserved (`PieceAccounting`, until the line counter saturates), scores and ids are monotone and game over is final (`EpisodeMonotone`). |
| `GameTiming` | 225,031 | The clock, one unit at a time, with a soft drop, a pause and a restart at any moment: lock delay runs only on the ground, the soft drop lasts as long as its timer. |
| `SessionSteps` | 49,191 | Steps of up to two commands, places or actions, with restarts: the snapshot is the game's (`SnapshotFollows`), a step reports the last lock (`LastLockReported`), and a place, tried from every state for every column, rotation and hold, changes nothing or locks the piece asked for where it was asked (`PlaceLands`). |
| `BrokerRoles` | 1,619,926 | Two clients, players or observers, streaming, with hellos, claims and releases, overflows, dead writers and disconnects in all interleavings: control stays with registered clients (`ControllerRegistered`), no live client loses it to another (`NoStealing`), the status catches up (`StatusFresh`). |
| `BrokerCommands` | 1,019,190 | Fresh and repeated seqs through a queue and mailboxes of one place: commands reach the game in increasing seq order and once (`CommandOrder`), every line of a live client is answered once or its answer is on its way (`NoSilentLoss`). |
| `BrokerAnswers` | 61,819 | Liveness, with fairness: an answer owed to a live client comes (`AnswerComes`), a client told to shut down is removed (`ShutdownEnds`). All kinds of line. |
| `Delivery` | 119,893 | Observations of a game that changes, locks and idles, for a client that subscribes, asks for a snapshot, stops reading or leaves, while others keep or lose the stream's last subscriber: no event is in two observations (`EventOnce`), the cadence neither stalls nor drifts (`CadenceExact`), and, with fairness, a streaming client catches up (`CatchesUp`) and a snapshot is answered with a state as new as the request (`SnapshotAnswered`). |
| `Terminal` | 146,315 | Two keys, two steps to a burst, stalls of three: `TimeConserved`, `KeysOnce`, and `NoGhostKeys` (no repeat longer than the key timeout after the last finger went up, reported or not). With fairness an accepted key reaches a step, also in a paused game (`KeysTakeEffect`). |
| `Parts` | 318,442 | *ClearRows:* from every 3 by 4 board without a full row and every lock of an I or a T the loop of `clear_row` implements the atomic clear (`ClearsAtOnce`, a refinement) and every clear scores (`ClearAlwaysScores`). *Rng:* from 16 seeds, two bags are complete (`DealtInBags`) and the preview is kept (`PreviewKept`). *Screen:* terminals of up to 2 by 2 cells that are resized at any moment (`ScreenShowsView`, `ScreenIsFresh`). *Replay:* three steps, every cut and every edit (`WholeTapeVerifies`, `CutTapeIsPrefix`, `MismatchReproduced`). *Observe:* two connections of two observations, two attempts each (`ShownIsNewest`, `ShownMovesOn`, and with fairness `ConnectionReplaced`). |
| `StaleBoard` | violation | see finding 1 |
| `ObserverPromoted` | violation | see finding 2 |
| `SeqRegress` | violation | see finding 3 |

Every property of a passing run comes with a mutant of the code's model (a
"Slip") that breaks it within that run's instance; `PROJECT.json` pairs them.

### Bounds and why they are enough

- *Board.* 4 columns hold the widest piece (the I), which can thus fill a row
  alone; 4 or 6 rows let a stack grow, clear and top out. The collision
  test, kicks and clearing do not know the size of the board: `Board` has `W`
  and `H` as parameters, and the proofs hold for all of them.
- *Kinds.* I (its own kick table), T (T-spins), O (no
  kicks). J, L, S, Z share T's kick table. Two generator states alternate
  between opposite bags, so what a refill brings differs from what went before.
- *Pieces* (`MaxPieces`): six pieces from bags of three show two refills and, at
  four cells a piece on 24 cells, both clears and the top-out. `GameTiming`
  needs only two: its subject is one piece and the spawn of the next.
- *Episodes* (`MaxEpisodes`): a second one is where an id of the first comes back.
- *Timing* is scaled to a few units, so that every order of two expiries happens.
- *`U32Max`* = 8 saturates in the first clears.
- *Clients.* Control passes between two; a third matters only as the eligible
  bystander of a promotion, and there the least id is a lemma of `BrokerProofs`. Ids
  are ordered (promotion takes the lowest), so symmetry would be unsound and is not
  used.
- *Capacities* of one make queues and mailboxes overflow at once. A batch of two
  holds commands of two controllers, before and after a promotion.
- *Seqs* (`MaxSeq`): 1 is the hello, 2 and 3 show order and repetition.
- *`MaxOwed`* bounds the lines a client sends without an answer; the number of
  lines it sends in all is not bounded.
- *`Delivery`.* One client, as clients share only the dispatcher and the status,
  whose other users are the variable `others`. 60 Hz over steps of 16 ms, the code's
  values, leave a remainder at every step. Three steps hold a change, a periodic
  observation and one after it; one pending event at most makes `Capture` drop.
- *`Terminal`.* Times are scaled so that no two of the handler's limits coincide on
  a step. A stall of three is more than a step, and a backlog of six more than a
  burst; two waiting actions fill `pending_local_actions`.
- *`Parts`.* The 3 by 4 board has room for clears of up to four rows. Fifteen
  draws cross two bag boundaries. Two views of a game in play and two of a paused one,
  some with equal fingerprints, on three sizes, show every kind of redraw. Three
  records have a first, a last and one between. `Connections` bounds the connections
  the adapter accepts: a third would add no order of events that two do not show.

The configurations say `CHECK_DEADLOCK FALSE`, since the models may stop: a
game at its bound, clients that are all gone.

### Fairness

`BrokerAnswers`: `WF_vars(GameStep)`, since the game loop steps at a fixed rate
and never blocks on the adapter; `WF_vars(TaskStep(c))` for each client, since the
runtime polls a task that can proceed. Both cover what these do on their own; no
fairness is asked of a peer, of the network or of a write task, so a client may be
silent for ever, never read, or die. `SeeShutdown` is in `TaskStep`: `select!` picks
a ready branch at random, so a pending shutdown is not passed over for ever.

`Delivery`: the game thread and the dispatcher run, a hello once begun is carried
through (no peer is involved any more), and the peer of a running write task reads;
a peer that does not is one whose writer may stop (`StopWriter`). Subscribing,
leaving and failing are nobody's duty.

`Terminal`: the loop runs, and `SF_vars(PollTimeout)`: a flood of events does not
last for ever, so the poll at some time runs out. Without that a paused game takes no
step while keys are pressed faster than steps are due (`src/main.rs:342`), since every
press starts the loop over.

`Parts`: the observer's thread runs, and so does the reader thread of a connection,
which is one step with what the adapter does; nothing is asked of the adapter.

## 4. Findings

1. **A snapshot can join the new game with the old board** (`StaleBoard`).
   `SnapshotStore::refresh` copies the board when `board_id` differs from the
   one it holds (`engine/session.rs:89`), but a restart sets `board_id` back to
   0. A step that restarts and then locks as many pieces as the old episode had
   ends with the same id and another board. `docs/architecture.md:67` rules
   this out. Within an episode the property holds (`SnapshotFollows`).
2. **An observer can end up in control without a claim** (`ObserverPromoted`).
   Promotion passes over observers, but a client that has connected and not yet
   said hello counts as `auto`: promoted first, it says hello as an observer and
   is welcomed as controller (`adapter/server.rs:265`, `826`). `SPEC.md:89` forbids it.
3. **A client can receive observations out of order** (`SeqRegress`). The
   dispatcher takes a broadcast and waits for the registry; meanwhile the client is
   sent a newer targeted snapshot, and then the older broadcast replaces it in
   the slot (`adapter/server.rs:536`, `adapter/client_mailbox.rs:38`).
   `SPEC.md:78` calls the numbers a monotonically increasing stream. The client
   does catch up (`CatchesUp`).

Things seen while modelling that no run is about:

- A step of several locks reports one event, the last (`engine/session.rs:159`,
  `LastLockReported`), where `SPEC.md:169` speaks of zero to four.
- When the write task of the controller has died, the hello of an observer clears the
  stale assignment (`adapter/server.rs:821`); the cleanup of the dead client then
  promotes nobody, though an eligible client may be connected
  (`docs/adapter-tui-tetris.md:20`). A claim or a player's hello takes the role.
- `apply_style_into` (`term/renderer.rs:174`) sends the colours before an attribute
  reset, and the reset clears colours, too. `ScreenShowsView` is therefore about
  characters and emphasis.
- A tape cut at the end of a record decodes to the steps before
  (`engine/replay.rs:165`): a cut is told from a shorter recording only in the
  middle of a record. A header cut inside the seed's digits is another seed.
- The reader thread of a connection the observer has given up keeps it open until the
  adapter closes it (`src/observe.rs:108`).
- A terminal that is resized and resized back between two readings of its size is not
  drawn anew (`src/main.rs:296`); `ResizeTerminal` assumes one resize at most
  between two readings.

## 5. Proofs

Each theorem holds for every value of the constants that satisfies the named
assumptions: board sizes, kinds, bags, timings, numbers of clients, capacities, and
all the bounds of the runs.

| Theorem | Module | Property |
|---|---|---|
| `AlwaysGood` | `GameProofs` | the inductive invariant of the rules engine |
| `TypeCorrect`, `ActiveAlwaysFits`, `NeverFullRows`, `AlwaysPlayable`, `TimersOnlyGrounded`, `PreviewAlwaysFresh`, `SoftDropAlwaysExpires` | `GameProofs` | `TypeOK`, `ActiveFits`, `NoFullRows`, `PlayableHasActive`, `LockTimersOnlyGrounded`, `NextQueueFresh`, `SoftDropExpires` |
| `PeekIsNextDraw`, `PreviewHeadIsNextDraw`, `PreviewShifts` | `GameProofs` | what was peeked or shown is drawn |
| `ClearLeavesNoFullRow`, `ClearCounts` | `BoardProofs` | what `clear_full_rows` leaves and removes |
| `AlwaysCounted` | `EpisodeProofs` | the inductive invariant of an episode's counts |
| `HoldAlwaysOnce`, `PiecesAlwaysAccounted`, `EpisodesOnlyGrow` | `EpisodeProofs` | `HoldOncePerPiece`, `PieceAccounting`, `EpisodeMonotone` (an action property) |
| `SnapshotAlwaysFollows`, `LastLockAlwaysReported`, `PlaceAlwaysLands` | `SessionProofs` | `SnapshotFollows`, `LastLockReported`, `PlaceLands` |
| `QueuesBounded`, `ControllerAlwaysRegistered`, `ControlNeverStolen`, `StatusAlwaysFresh`, `NothingSilentlyLost`, `CommandsInOrder` | `BrokerProofs` | mailboxes and queue within their capacities; `ControllerRegistered`, `NoStealing` (an action property), `StatusFresh`, `NoSilentLoss`, `CommandOrder` |
| `CadenceAlwaysExact`, `EventsOnlyOnce` | `DeliveryProofs` | `CadenceExact`, `EventOnce` |
| `TimeAlwaysConserved`, `KeysAlwaysOnce`, `NeverGhostKeys` | `TerminalProofs` | `TimeConserved`, `KeysOnce`, `NoGhostKeys` |
| `ShuffleComplete`, `AlwaysDealtInBags`, `PreviewAlwaysKept` | `PartsProofs` | every shuffle has each kind once; `DealtInBags`, `PreviewKept` |
| `LoopClearsAtOnce`, `ClearsAlwaysScore` | `PartsProofs` | `ClearsAtOnce` (a refinement), `ClearAlwaysScores` |
| `ScreenAlwaysShows`, `ScreenAlwaysFresh` | `PartsProofs` | `ScreenShowsView`, `ScreenIsFresh` |
| `WholeAlwaysVerifies`, `CutAlwaysPrefix`, `MismatchAlwaysReproduced` | `PartsProofs` | `WholeTapeVerifies`, `CutTapeIsPrefix`, `MismatchReproduced` |
| `AlwaysShownNewest`, `AlwaysMovesOn` | `PartsProofs` | `ShownIsNewest`, `ShownMovesOn` (an action property) |

**Rules engine** (`GameProofs`). None of the properties is inductive alone: a piece
fits after a move because it moved only where it fits, but after a spawn because the
queue names a kind and the board was cleared; the timers are right after a hold
because the hold resets them, and after a lock because the spawn does, unless it fails
and ends the game. `Good` is their conjunction with the types. Operators call one
another in the middle of an operation, when the active piece is gone (between a lock
and the next spawn) or the timers do not fit the ground yet, so the invariant has two
levels: `Steady` holds at every moment inside an operation, `Good` between
operations, and each operator has a lemma that says which it needs and which it
leaves (`SpawnGood`, `LockGood`, `HoldGood`, `GravityGood`, ...). `FrameSteady` and
`FrameGood` handle the operators that touch only counters. `AlwaysGood` puts them
together, one step per action of `Next`; the other theorems are read off it.

**Boards** (`BoardProofs`). `DropDistanceOK` (the `CHOOSE` in `DropDistance` exists and
every row on the way is free), `ClearKeepsCells`, and two theorems about
`clear_full_rows` on any board: rows that fall do not become full, as they keep their
cells and no two fall onto one row (`FallKeepsOrder`), and it removes `W` cells for each
full row and no other. `FourCells` says that every piece fills four cells, wherever
it is.

**Episodes** (`EpisodeProofs`). `Counted` says what an episode adds up to: cells on the
board and cleared are four for each piece locked, the pieces drawn are those locked and
those held or active, at most one swap per piece, and counters that are saturated
stay so. Most operators touch none of this (`Quiet`); a lemma each accounts for spawn,
lock, drops and hold. `Grown` is what a step may do to an episode's counters, and
composes; `EpisodesOnlyGrow` is that of every step. `PieceAccounting` is stated
until the line counter saturates, as `lines` is a saturating `u32` in the code and
the sum breaks there.

**Session** (`SessionProofs`). An operation is `Silent` (no lock: same board, same id),
or `Locked` (an id more and an event of the lock) or `Restarted`; `Tells` is one of
these, and composes along a batch. `CopyInv` ties the snapshot's board to the moment
of its copy and `EventInv` the pending event to the last lock of the step. For a place,
the repeated move or turn is a function on `0 .. n` that exists, by a least
counterexample; each of its games is a `Plan` of the first, the same game but for
where the piece is; a turn cannot leave the target's reach unnoticed, and the landing
rests on something (`LandingRests`).

**Broker** (`BrokerProofs`). `Shape` is the inductive invariant: a client between
registration and cleanup is registered, one outside holds nothing, one that has said
hello has used a seq, and a batch holds commands. `ReplyBounded` is the lemma every
answer rests on, `LeastIsOne` (the well-ordering of the naturals) says that a promotion
picks one of those it may pick from. `StatusFresh` and `NoSilentLoss` add only
themselves to `Shape`: whoever changes what the status says is then a task about to emit it,
and an answer is taken from what is owed in the step that queues it. `CommandOrder`
needs `OrderInv`: along the whole way - batch, queue, the command a task is about
to send - the seqs of a client rise, lie above what was applied and at most at the
client's last seq.

**Delivery** (`DeliveryProofs`). `ScheduleInv`: between two steps no event is pending,
and the version sent last is the game's, since a change makes an observation due in
the tick that brings it. `CadenceInv`: the ticks since an observation was sent at once
and the periodic ones sent since are in the exact ratio, up to what the accumulator
holds. `EventInv` sees what is under way as a set of observations with distinct
numbers and disjoint events, none above the schedule's number; every step drops some
of them or adds the next one.

**Terminal** (`TerminalProofs`). Steps are left over only between two steps of a burst: a
sample would forget them. `GhostInv` ties the handler's repeats to the age of the last
report: a handler that takes a key for held without one is silent, and its tick
releases what is silent too long.

**Generator and queue** (`PartsProofs`). A round of the shuffle exchanges two places
(`SwapComplete`, from `NextU32OK` and `BelowOK`, which keep its index within the bag), so
every shuffle leaves each kind exactly once. The invariants tie the pieces drawn to
the part of the bag before the index, and what was promised to what the preview
shows now.

**Clearing** (`PartsProofs`). `ClearInv` says what the two loops have done so far: while
they look for rows, those listed are the full ones of those looked at; while they
clear, those still listed are the full rows of the board, and clearing them at once
would leave what clearing all at once leaves (`ClearTopRows`). The refinement maps
every step of the loop to a stutter but one, which is the atomic clear. A lock fills
only rows of its own piece (`OwnRows`), a T covers three of them, and with all
three full its spin is no mini (`ThreeRowsFull`): the table has an entry for each
clear there is.

**Tapes** (`PartsProofs`). What a decoder does to a list is a recursive function over its
lines; `ReadingExists` shows that there is one, and `ReadingAgrees` that it depends
only on the lines read, both by a least counterexample, so that reading `s \o t` is
reading `t` from where `s` ended (`ReadParts`). A record reads back as itself
(`ReadRecord`), hence a tape does (`RoundTrip`); reading only ever adds to the records
(`ReadGrows`), hence a cut tape reads as a beginning (`CutReads`). The sessions along
a beginning are those of the whole tape (`BeginningReplays`), hence a mismatch is
reproduced. `ReplayInv` ties tape, file, loaded tape and verdict together.

**Screen** (`PartsProofs`). A frame does not depend on the buffer it is painted into
(`RenderedIs`). What the terminal makes of a list of commands is again a recursive function
over it (`ExecuteParts`), and a frame's commands are those of its cells, one after another.
`Progress` says how far they have come: the cells up to `i` are on the screen, and those
that are not written were before; the cursor stands right of the cell written last; the
pen has its emphasis, although the style is sent only when it changes. `LeadsTo` is what
full frames and differences have to provide: from there the commands before a cell - none,
a newline, a move - take the cursor to it, which rests on the arithmetic of rows and
columns (`PosNext`, from the uniqueness of quotient and remainder, `DivideUnique`).
`FullRuns` needs nothing of the screen before, `DiffRuns` that it shows the frame the
differences are taken from. `ViewInv` provides this: the renderer's frame is the last view
at the size the loop read, on the screen unless that was resized since, and a pass that
lost its frame to a resize is not skipped, as the throttle's fingerprint holds the old
size. All of it rests on the model's one resize at most between two readings of the size
(section 4). `FreshInv`: that fingerprint is of the view and the size drawn last.

**Observer** (`PartsProofs`). `MovesInv`: what lies in a connection's channel, what
was taken from it and what is shown are in order, and no channel holds what belongs to
another connection.

Assumptions, all of them evaluated by TLC in the runs: `BoardAssumption`,
`ScoringAssumption` (counters can hold at least 1), `QueueAssumption`, `GameAssumption`,
`SessionAssumption`, `RngAssumption`, `ClearRowsAssumption`, `ScreenAssumption`,
`ReplayAssumption` (commands come in lists), `BrokerAssumption`, `DeliveryAssumption`,
`HandlerAssumption`, `TerminalAssumption`. Two of them say something about the code: the
gravity interval divided by the soft-drop multiplier is positive, as with an interval of
0 the loop of `tick` would not end; and no kind, piece or event is `None`, the value
of an empty `Option`. `BagAssumption` (a bag has every kind) is what
`ShuffleComplete` shows of the real shuffle; no proof uses it. Seeds of `Replay` and
digests are arbitrary: two states may share a digest.

Only model-checked:

- Liveness under fairness: `AnswerComes`, `ShutdownEnds`, `CatchesUp`,
  `SnapshotAnswered`, `KeysTakeEffect`, `ConnectionReplaced`. ENABLED, which WF and SF are
  defined by, has no proof rules here.

No module declares a RECURSIVE operator; recursion is by recursive functions and folds.

## 6. Not modelled

- The protocol's JSON messages (`crates/tetris-adapter-protocol`): data types and
  their validation, without state; a malformed line is a kind of line in Broker.
- State hashes: a digest of modelled fields, an arbitrary one in Replay.
- The layout of the game view (where a panel or a letter stands): in Screen, which
  cells a view paints is a table.
- Colours at the terminal, see section 4.
- `SessionProtocolDriver` and batch mode: the same transitions without threads, for
  tests and benchmarks; `board_mut`, with which these set up boards.
- Argument parsing, environment variables, the wire log, start-up and binding.
- The length of the back-off of a reconnection and of the deadline of a greeting: they
  are delays, and the greeting may miss the deadline at any moment.
- Overflow of `i8` positions in `place.rs` for targets far off the board.
- How many rows one tick's gravity may fall (`core/game_state.rs:730`).
- In Broker: the time at which a command applies relative to a change of
  control is covered, its effect on the game is not.

## 7. Plan

What is left, in this order:

1. The composition of Broker with Delivery: one mailbox with its reliable queue and its
   slot, whose writer prefers the first. `Shape` of Broker and `EventInv` of Delivery
   share no state but the registry; the composed invariant is their conjunction
   and what ties a slot to a registered client.
2. A run of `Terminal` over `Session`, so that waiting actions meet remote commands of
   the same step.
