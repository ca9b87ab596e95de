---------------------------- MODULE SessionProofs ----------------------------
(***************************************************************************)
(* Proofs about Session, for every board, seed and bound.                  *)
(*                                                                         *)
(* What an operation says of its locks: it is Silent (no lock, same board  *)
(* and id), or Locked (one more id, an event of the lock), or Restarted.   *)
(* An inductive invariant over a transition's steps then gives the         *)
(* snapshot and event properties.  For the place command, a repeated       *)
(* action is a function on 0..n that exists (by a least counterexample)    *)
(* and each of its games is a Plan: the same game but for where the piece  *)
(* is.                                                                     *)
(***************************************************************************)
EXTENDS Session, EpisodeProofs
-----------------------------------------------------------------------------
(* What an operation says of the lock it made, or did not make. *)

Silent(n, g) ==
  /\ Full(n) /\ n.episode_id = g.episode_id
  /\ n.board = g.board /\ n.board_id = g.board_id
  /\ n.last_event = g.last_event /\ n.combo = g.combo /\ n.back_to_back = g.back_to_back

Locked(n, g) ==
  /\ Full(n) /\ n.episode_id = g.episode_id
  /\ n.board_id = g.board_id + 1
  /\ n.last_event # None
  /\ n.last_event.combo = n.combo /\ n.last_event.back_to_back = n.back_to_back

Restarted(n, g) == n.episode_id = g.episode_id + 1 /\ n.last_event = None

Tells(n, g) == Silent(n, g) \/ Locked(n, g) \/ Restarted(n, g)

LEMMA QuietIsSilent ==
  ASSUME NEW g, NEW n, Quiet(n, g)
  PROVE  Silent(n, g)
  BY DEF Quiet, SameCounts, Silent

LEMMA SilentFirst ==
  ASSUME NEW g, NEW m, NEW n, Silent(m, g)
  PROVE  /\ Silent(n, m) => Silent(n, g)
         /\ Locked(n, m) => Locked(n, g)
  BY DEF Silent, Locked

LEMMA SpawnSilent ==
  ASSUME NEW g, Full(g)
  PROVE  Silent(SpawnPiece(g), g)
  BY SpawnCounts DEF Silent

\* A clear tells the combo and the back-to-back flag it leaves.
LEMMA ApplyLineClearKeeps ==
  ASSUME NEW g, Full(g), NEW lines, NEW tspin
  PROVE  LET n == ApplyLineClear(g, lines, tspin) IN
         /\ Full(n) /\ n.episode_id = g.episode_id
         /\ n.board = g.board /\ n.board_id = g.board_id
<1> DEFINE total == SatAdd(g.lines, lines)
           level == total \div LinesPerLevel
           b2b == QualifiesForB2B(tspin, lines)
           sum == SatAdd(g.score, TSpinScore(tspin, 0, g.level))
           more == SatAdd(g.score, TotalScore(lines, g.level, tspin, g.combo + 1, g.back_to_back))
           miss == [g EXCEPT !.combo = -1, !.back_to_back = FALSE, !.score = sum]
           hit == [g EXCEPT !.combo = @ + 1, !.lines = total, !.level = level,
                            !.back_to_back = b2b, !.score = more,
                            !.line_clear_timer = LineClearPause,
                            !.landing_flash = LandingFlash]
<1>1. ApplyLineClear(g, lines, tspin) = IF lines = 0 THEN miss ELSE hit
  BY Zenon DEF ApplyLineClear
<1> HIDE DEF total, level, b2b, sum, more
<1>2. /\ Full(miss) /\ miss.episode_id = g.episode_id
      /\ miss.board = g.board /\ miss.board_id = g.board_id
  BY DEF Full, GameFields
<1>3. /\ Full(hit) /\ hit.episode_id = g.episode_id
      /\ hit.board = g.board /\ hit.board_id = g.board_id
  BY DEF Full, GameFields
<1> QED BY <1>1, <1>2, <1>3

\* A lock counts itself, reports itself, and leaves the cleared board.
LEMMA LockTells ==
  ASSUME NEW g, Steady(g), g.active # None
  PROVE  /\ Locked(LockPiece(g), g)
         /\ LockPiece(g).board = ClearFullRows(g.board \cup CellsOf(g.active))
<1> DEFINE piece  == g.active
           fits   == Fits(g.board, piece)
           locked == g.board \cup CellsOf(piece)
           tspin  == IF fits /\ piece.kind = "T"
                     THEN TSpinKind(g.last_action_was_rotate, locked, piece) ELSE "None"
           lines  == Cardinality(FullRows(locked))
           id     == NextBoardId(g.board_id, fits, lines)
           clear  == ClearFullRows(locked)
           placed == [g EXCEPT !.landing_flash = LandingFlash, !.active = None,
                               !.board = clear, !.board_id = id]
           scored == ApplyLineClear(placed, lines, tspin)
           event  == LockEvent(g, scored, lines, tspin)
           told   == [scored EXCEPT !.last_event = event]
<1>1. piece \in Piece /\ fits /\ g.board \subseteq Cells
  BY DEF Steady, GameOK, Fit
<1>2. locked \subseteq Cells /\ lines \in Nat
  <2>1. locked \subseteq Cells
    BY <1>1 DEF CellsOf, Fits
  <2> QED BY <2>1, RowsFinite
<1>3. tspin \in TSpinKinds
  BY DEF TSpinKind, TSpinKinds
<1>4. LockPiece(g) = IF told.game_over THEN told ELSE SpawnPiece(told)
  BY <1>1, Zenon DEF LockPiece, NextBoardId
<1>5. id = g.board_id + 1
  BY <1>1 DEF NextBoardId
<1>6. clear \subseteq Cells
  <2> HIDE DEF locked
  <2> QED BY <1>2, ClearKeepsCells
<1> HIDE DEF fits, locked, tspin, lines, id, clear
<1>7. GameOK(placed)
  <2>1. id \in Nat /\ LandingFlash \in Nat
    BY <1>5, SteadyNumbers, ConstantsOK
  <2> QED BY <1>6, <2>1 DEF Steady, GameOK, GameFields
<1>8. /\ Full(placed) /\ placed.episode_id = g.episode_id
      /\ placed.board = clear /\ placed.board_id = g.board_id + 1
  BY <1>5, SteadyNumbers DEF Full, GameFields
<1> HIDE DEF placed
<1>9. /\ GameOK(scored) /\ Full(scored) /\ scored.episode_id = g.episode_id
      /\ scored.board = clear /\ scored.board_id = g.board_id + 1
  BY <1>2, <1>3, <1>7, <1>8, ApplyLineClearOK, ApplyLineClearKeeps
<1>10. /\ event \in LastEvents /\ event # None
       /\ event.combo = scored.combo /\ event.back_to_back = scored.back_to_back
  <2>1. event \in LastEvents
    BY <1>2, <1>3, <1>9, LockEventOK DEF Steady
  <2> QED BY <2>1, GameAssumption DEF LockEvent
<1> HIDE DEF scored, event
<1>11. /\ Full(told) /\ told.episode_id = g.episode_id
       /\ told.board = clear /\ told.board_id = g.board_id + 1
       /\ told.last_event = event /\ told.combo = scored.combo
       /\ told.back_to_back = scored.back_to_back
  BY <1>9 DEF Full, GameFields
<1> HIDE DEF told
<1>12. Silent(LockPiece(g), told)
  <2>1. Silent(told, told)
    BY <1>11 DEF Silent
  <2> QED BY <1>4, <1>11, <2>1, SpawnSilent
<1> QED BY <1>10, <1>11, <1>12 DEF Silent, Locked, clear, locked

-----------------------------------------------------------------------------
(* Every operation tells. *)

\* Points on top of a lock, or of nothing.
LEMMA PointsSilent ==
  ASSUME NEW g, Full(g), NEW sum
  PROVE  Silent([g EXCEPT !.score = sum], g)
  BY DEF Silent, Full, GameFields

\* Where a hard drop puts the piece.
Landing(g) == Shifted(g.active, 0, DropDistance(g.board, g.active))

LEMMA HardDropTells ==
  ASSUME NEW g, Good(g), g.active # None
  PROVE  /\ Locked(HardDrop(g), g)
         /\ HardDrop(g).board = ClearFullRows(g.board \cup CellsOf(Landing(g)))
<1> DEFINE ready == [g EXCEPT !.last_action_was_rotate = FALSE]
           points == DropScore(DropDistance(g.board, g.active), TRUE)
           down == Dropped(ready)
           locked == LockPiece(down)
           sum == SatAdd(locked.score, points)
<1>1. Good(ready) /\ Full(ready) /\ ready.active = g.active /\ Silent(ready, g)
  <2>1. Good(ready)
    BY MarkGood
  <2>2. Full(g)
    BY SteadyNumbers DEF Good
  <2> QED BY <2>1, <2>2 DEF Silent, Full, GameFields
<1>2. HardDrop(g) = [locked EXCEPT !.score = sum]
  BY DEF HardDrop
<1> HIDE DEF ready, points
<1>3. down = [ready EXCEPT !.active = Landing(g)]
  BY <1>1 DEF Dropped, Landing, Silent
<1>4. Steady(down) /\ down.active # None
  BY <1>1, DroppedSteady
<1> HIDE DEF down
<1>5. Silent(down, ready) /\ down.active = Landing(g)
  BY <1>1, <1>3 DEF Silent, Full, GameFields
<1>6. Locked(locked, down) /\ locked.board = ClearFullRows(down.board \cup CellsOf(down.active))
  BY <1>4, LockTells
<1> HIDE DEF locked, sum
<1>7. Silent(HardDrop(g), locked)
  BY <1>2, <1>6, PointsSilent DEF Locked
<1>8. Locked(HardDrop(g), g)
  BY <1>1, <1>5, <1>6, <1>7 DEF Silent, Locked
<1>9. HardDrop(g).board = locked.board /\ down.board = g.board
  BY <1>1, <1>5, <1>7 DEF Silent
<1> QED BY <1>5, <1>6, <1>8, <1>9

LEMMA SoftDropSilent ==
  ASSUME NEW g, Full(g)
  PROVE  Silent(SoftDrop(g), g)
<1> DEFINE t == TryMove(g, 0, 1)
           sum == IF CanMove(g, 0, 1) THEN SatAdd(t.score, DropScore(1, FALSE)) ELSE t.score
<1>1. Silent(t, g)
  BY QuietMove, QuietIsSilent
<1>2. SoftDrop(g) = [t EXCEPT !.score = sum, !.is_soft_dropping = TRUE,
                              !.soft_drop_timer = SoftDropGrace,
                              !.last_action_was_rotate = FALSE]
  BY DEF SoftDrop
<1> HIDE DEF t, sum
<1> QED BY <1>1, <1>2 DEF Silent, Full, GameFields

LEMMA AfterHoldSilent ==
  ASSUME NEW g, Full(g)
  PROVE  /\ Silent(AfterHold(g), g) /\ AfterHold(g).active = g.active
         /\ AfterHold(g).game_over = g.game_over /\ AfterHold(g).paused = g.paused
  BY DEF AfterHold, Silent, Full, GameFields

\* A hold locks nothing; one that reports success has brought the held piece into
\* play or, the first time, the next one - or ended the game.
LEMMA HoldTells ==
  ASSUME NEW g, Full(g)
  PROVE  /\ Silent(Hold(g), g) /\ Hold(g).paused = g.paused
         /\ HoldSucceeds(g) /\ ~ Hold(g).game_over =>
              Hold(g).active = NewPiece(IF g.hold = None THEN Peek(g.queue) ELSE g.hold)
<1>1. CASE ~ g.can_hold \/ g.active = None
  BY <1>1 DEF Hold, Silent, HoldSucceeds
<1>2. CASE ~ (~ g.can_hold \/ g.active = None) /\ g.hold = None
  <2> DEFINE m == [g EXCEPT !.hold = g.active.kind]
             t == SpawnPiece(m)
  <2>1. Hold(g) = AfterHold(t)
    BY <1>2 DEF Hold
  <2>2. Full(m) /\ Silent(m, g) /\ m.queue = g.queue /\ m.paused = g.paused
    BY DEF Silent, Full, GameFields
  <2> HIDE DEF m
  <2>3. Silent(t, m)
    BY <2>2, SpawnSilent
  <2>4. /\ t.game_over \/ t.active = NewPiece(Peek(m.queue))
        /\ t.paused = m.paused
    BY <2>2 DEF SpawnPiece, Full, GameFields
  <2> HIDE DEF t
  <2>5. /\ Silent(AfterHold(t), t) /\ AfterHold(t).active = t.active
        /\ AfterHold(t).game_over = t.game_over /\ AfterHold(t).paused = t.paused
    BY <2>3, AfterHoldSilent DEF Silent
  <2> QED BY <1>2, <2>1, <2>2, <2>3, <2>4, <2>5 DEF Silent
<1>3. CASE ~ (~ g.can_hold \/ g.active = None) /\ g.hold # None
  <2> DEFINE m == [g EXCEPT !.active = NewPiece(g.hold), !.hold = g.active.kind,
                            !.active_id = @ + 1, !.step_in_piece = 0]
             lost == [m EXCEPT !.game_over = TRUE, !.active = None]
  <2>1. Hold(g) = IF Fits(g.board, m.active) THEN AfterHold(m) ELSE lost
    BY <1>3 DEF Hold
  <2>2. Full(m) /\ Silent(m, g) /\ m.active = NewPiece(g.hold) /\ m.paused = g.paused
    BY DEF Silent, Full, GameFields
  <2> HIDE DEF m
  <2>3. Silent(lost, m) /\ lost.game_over /\ lost.paused = m.paused
    BY <2>2 DEF Silent, Full, GameFields
  <2>4. /\ Silent(AfterHold(m), m) /\ AfterHold(m).active = m.active
        /\ AfterHold(m).paused = m.paused
    BY <2>2, AfterHoldSilent
  <2> HIDE DEF lost
  <2> QED BY <1>3, <2>1, <2>2, <2>3, <2>4 DEF Silent
<1> QED BY <1>1, <1>2, <1>3

LEMMA RestartTells ==
  ASSUME NEW g, NEW start
  PROVE  Restarted(RestartWithSeed(g, start), g)
<1> DEFINE fresh == NewGame(start)
           m == [fresh EXCEPT !.episode_id = g.episode_id + 1]
           k == [m EXCEPT !.started = TRUE]
<1>1. Full(fresh) /\ fresh.last_event = None
  BY DEF NewGame, Full, GameFields
<1>2. RestartWithSeed(g, start) = StartGame(m)
  BY DEF RestartWithSeed
<1> HIDE DEF fresh
<1>3. Full(m) /\ m.episode_id = g.episode_id + 1 /\ m.last_event = None
  BY <1>1 DEF Full, GameFields
<1> HIDE DEF m
<1>4. Full(k) /\ k.episode_id = m.episode_id /\ k.last_event = m.last_event
  BY <1>3 DEF Full, GameFields
<1>5. StartGame(m) = IF m.started THEN m ELSE SpawnPiece(k)
  BY DEF StartGame
<1> HIDE DEF k
<1>6. Silent(SpawnPiece(k), k)
  BY <1>4, SpawnSilent
<1> QED BY <1>2, <1>3, <1>4, <1>5, <1>6 DEF Restarted, Silent

LEMMA ActionTells ==
  ASSUME NEW g, Good(g), NEW action \in GameActions
  PROVE  Tells(ApplyAction(g, action), g)
<1>0. Full(g) /\ Silent(g, g)
  BY SteadyNumbers DEF Good, Silent
<1>1. CASE ~ Allowed(g, action)
  BY <1>0, <1>1 DEF ApplyAction, Tells
<1>2. CASE Allowed(g, action)
  <2>1. CASE action = "MoveLeft"
    BY <1>0, <1>2, <2>1, QuietMove, QuietIsSilent DEF ApplyAction, Tells
  <2>2. CASE action = "MoveRight"
    BY <1>0, <1>2, <2>2, QuietMove, QuietIsSilent DEF ApplyAction, Tells
  <2>3. CASE action = "SoftDrop"
    BY <1>0, <1>2, <2>3, SoftDropSilent DEF ApplyAction, Tells
  <2>4. CASE action = "HardDrop" /\ g.active # None
    BY <1>2, <2>4, HardDropTells DEF ApplyAction, Tells
  <2>5. CASE action = "HardDrop" /\ g.active = None
    <3>1. HardDrop(g) = [g EXCEPT !.last_action_was_rotate = FALSE]
      BY <2>5 DEF HardDrop
    <3>2. Silent(HardDrop(g), g)
      BY <1>0, <3>1 DEF Silent, Full, GameFields
    <3> QED BY <1>2, <2>5, <3>2 DEF ApplyAction, Tells
  <2>6. CASE action = "RotateCw"
    BY <1>0, <1>2, <2>6, QuietTurn, QuietIsSilent DEF ApplyAction, Tells
  <2>7. CASE action = "RotateCcw"
    BY <1>0, <1>2, <2>7, QuietTurn, QuietIsSilent DEF ApplyAction, Tells
  <2>8. CASE action = "Hold"
    BY <1>0, <1>2, <2>8, HoldTells DEF ApplyAction, Tells
  <2>9. CASE action = "Pause"
    BY <1>0, <1>2, <2>9, QuietPause, QuietIsSilent DEF ApplyAction, Tells
  <2>10. CASE action = "Restart"
    BY <1>2, <2>10, RestartTells DEF ApplyAction, Tells
  <2> QED BY <2>1, <2>2, <2>3, <2>4, <2>5, <2>6, <2>7, <2>8, <2>9, <2>10 DEF GameActions
<1> QED BY <1>1, <1>2

LEMMA RunLockDelayTells ==
  ASSUME NEW g, Good(g), g.active # None, NEW elapsed \in Nat
  PROVE  Silent(RunLockDelay(g, elapsed), g) \/ Locked(RunLockDelay(g, elapsed), g)
<1> DEFINE zero == [g EXCEPT !.lock_timer = 0, !.lock_reset_count = 0]
           due  == [g EXCEPT !.lock_timer = 0, !.drop_timer = 0]
           time == SatAdd(g.lock_timer, elapsed)
           wait == [g EXCEPT !.lock_timer = time]
<1>0. Steady(g) /\ Full(g)
  BY SteadyNumbers DEF Good
<1>1. RunLockDelay(g, elapsed) = IF ~ Grounded(g.board, g.active) THEN zero
                                 ELSE IF time >= LockDelay THEN LockPiece(due) ELSE wait
  BY DEF RunLockDelay
<1>2. Silent(zero, g) /\ Silent(wait, g) /\ Silent(due, g) /\ due.active = g.active
  <2> HIDE DEF time
  <2> QED BY <1>0 DEF Silent, Full, GameFields
<1>3. Steady(due)
  <2>1. GameOK(due) /\ SameField(due, g)
    BY DEF SameField, Good, Steady, GameOK, GameFields
  <2> QED BY <2>1, <1>0, FrameSteady
<1> HIDE DEF zero, due, wait, time
<1>4. Locked(LockPiece(due), g)
  BY <1>2, <1>3, LockTells, SilentFirst
<1> QED BY <1>1, <1>2, <1>4

LEMMA TickTells ==
  ASSUME NEW g, Good(g), NEW elapsed \in Nat, NEW softDrop \in BOOLEAN
  PROVE  Tells(TickGame(g, elapsed, softDrop), g)
<1> DEFINE counted == CountTimers(g, elapsed)
           window  == SoftDropWindow(counted, elapsed, softDrop)
           fallen  == Gravity(window, elapsed)
<1>0. Full(g) /\ Silent(g, g)
  BY SteadyNumbers DEF Good, Silent
<1>1. CASE g.paused \/ g.game_over \/ ~ g.started
  BY <1>0, <1>1 DEF TickGame, Tells
<1>2. CASE ~ (g.paused \/ g.game_over \/ ~ g.started)
  <2>1. TickGame(g, elapsed, softDrop)
          = IF counted.line_clear_timer > 0 \/ g.active = None THEN counted
            ELSE RunLockDelay(fallen, elapsed)
    BY <1>2, Zenon DEF TickGame
  <2>2. Good(counted) /\ counted.active = g.active /\ Quiet(counted, g)
    BY <1>0, CountTimersGood, QuietTimers
  <2> HIDE DEF counted
  <2>3. ASSUME g.active # None
        PROVE  Tells(RunLockDelay(fallen, elapsed), g)
    <3>1. Good(window) /\ window.active # None /\ Quiet(window, counted)
      BY <2>2, <2>3, SoftDropWindowGood, QuietWindow DEF Quiet
    <3> HIDE DEF window
    <3>2. Good(fallen) /\ fallen.active # None /\ Quiet(fallen, window)
      BY <3>1, GravityGood, QuietGravity DEF Quiet
    <3> HIDE DEF fallen
    <3>3. Silent(fallen, g)
      BY <2>2, <3>1, <3>2, QuietTrans, QuietIsSilent
    <3> QED BY <3>2, <3>3, RunLockDelayTells, SilentFirst DEF Tells
  <2> HIDE DEF fallen
  <2> QED BY <2>1, <2>2, <2>3, QuietIsSilent DEF Tells
<1> QED BY <1>1, <1>2

-----------------------------------------------------------------------------
(* A place: the plan. *)

\* The games a repeated action goes through.
Steps(f, g, action, n) ==
  f = [i \in 0..n |-> IF i = 0 THEN g ELSE ApplyAction(f[i - 1], action)]

LEMMA StepsExist ==
  ASSUME NEW g, NEW action, NEW n \in Nat
  PROVE  \E f : Steps(f, g, action, n)
<1> DEFINE Bad == {k \in Nat : ~ \E f : Steps(f, g, action, k)}
<1> SUFFICES ASSUME Bad # {} PROVE FALSE
  OBVIOUS
<1>1. PICK k \in Bad : \A j \in Bad : k <= j
  BY LeastDistance
<1>2. k # 0
  <2> DEFINE f == [i \in 0..0 |-> g]
  <2>1. Steps(f, g, action, 0)
    BY DEF Steps
  <2> QED BY <2>1
<1>3. PICK e : Steps(e, g, action, k - 1)
  BY <1>1, <1>2
<1> DEFINE f == [i \in 0..k |-> IF i < k THEN e[i] ELSE ApplyAction(e[k - 1], action)]
<1>4. \A i \in 0..k - 1 : e[i] = IF i = 0 THEN g ELSE ApplyAction(e[i - 1], action)
  BY <1>3 DEF Steps
<1>5. k \in Nat /\ k > 0
  BY <1>1, <1>2
<1>6. \A i \in 0..k : f[i] = IF i = 0 THEN g ELSE ApplyAction(f[i - 1], action)
  <2> SUFFICES ASSUME NEW i \in 0..k
               PROVE  f[i] = IF i = 0 THEN g ELSE ApplyAction(f[i - 1], action)
    OBVIOUS
  <2>1. CASE i = 0
    BY <1>4, <1>5, <2>1
  <2>2. CASE i # 0 /\ i < k
    <3>1. f[i] = e[i] /\ f[i - 1] = e[i - 1] /\ i \in 0..k - 1
      BY <1>5, <2>2
    <3> QED BY <1>4, <2>2, <3>1
  <2>3. CASE i = k
    <3>1. k - 1 \in 0..k /\ k - 1 < k /\ k # 0 /\ k \in 0..k /\ ~ k < k
      BY <1>5
    <3>2. f[k - 1] = e[k - 1]
      BY <3>1
    <3>3. f[k] = ApplyAction(e[k - 1], action)
      BY <3>1
    <3> QED BY <2>3, <3>1, <3>2, <3>3
  <2> QED BY <1>5, <2>1, <2>2, <2>3
<1>7. f = [i \in 0..k |-> IF i = 0 THEN g ELSE ApplyAction(f[i - 1], action)]
  <2>1. f = [i \in 0..k |-> f[i]]
    OBVIOUS
  <2> HIDE DEF f
  <2> QED BY <1>6, <2>1
<1> HIDE DEF f
<1>8. Steps(f, g, action, k)
  BY <1>7 DEF Steps
<1> QED BY <1>1, <1>8

LEMMA RepeatedSteps ==
  ASSUME NEW g, NEW action, NEW n \in Nat
  PROVE  \E f : Steps(f, g, action, n) /\ Repeated(g, action, n) = f[n]
<1> DEFINE after == CHOOSE f : Steps(f, g, action, n)
<1>1. Steps(after, g, action, n)
  BY StepsExist
<1>2. Repeated(g, action, n) = after[n]
  BY DEF Repeated, Steps
<1> QED BY <1>1, <1>2

\* A plan on its way: the same game, with its piece somewhere else.
Plan(m, g) ==
  /\ Good(m) /\ Quiet(m, g) /\ m.paused = g.paused
  /\ m.active # None /\ m.active.kind = g.active.kind

LEMMA PlanParts ==
  ASSUME NEW m, NEW g, Plan(m, g)
  PROVE  Full(m) /\ m.active \in Piece /\ m.active \in AnyPiece
  BY PieceIsAnyPiece DEF Plan, Quiet, Good, Steady, GameOK

LEMMA PlanStart ==
  ASSUME NEW g, Good(g), g.active # None
  PROVE  Plan(g, g)
  BY SteadyNumbers DEF Plan, Quiet, SameCounts, Good

LEMMA PlanTrans ==
  ASSUME NEW g, NEW m, NEW n, Plan(m, g), Plan(n, m)
  PROVE  Plan(n, g)
  BY QuietTrans DEF Plan

LEMMA ResetKeepsPiece ==
  ASSUME NEW g, Full(g)
  PROVE  HandleLockReset(g).active = g.active /\ HandleLockReset(g).paused = g.paused
         /\ Full(HandleLockReset(g))
  BY DEF HandleLockReset, Full, GameFields

LEMMA MovePlan ==
  ASSUME NEW g, Good(g), g.active # None, NEW dx \in Int, NEW dy \in Int
  PROVE  /\ Plan(TryMove(g, dx, dy), g)
         /\ TryMove(g, dx, dy).active.rotation = g.active.rotation
<1>1. Good(TryMove(g, dx, dy)) /\ Quiet(TryMove(g, dx, dy), g)
  BY TryMoveGood, QuietMove, SteadyNumbers DEF Good
<1>2. g.active \in Piece /\ g.active \in AnyPiece /\ Full(g)
  BY PlanStart, PlanParts
<1>3. CASE ~ CanMove(g, dx, dy)
  BY <1>1, <1>3, PlanStart DEF TryMove
<1>4. CASE CanMove(g, dx, dy)
  <2> DEFINE p == Shifted(g.active, dx, dy)
             n == [g EXCEPT !.active = p]
             moved == HandleLockReset(n)
  <2>1. TryMove(g, dx, dy)
          = IF dx # 0 THEN [moved EXCEPT !.last_action_was_rotate = FALSE] ELSE moved
    BY <1>4 DEF TryMove
  <2>2. p.kind = g.active.kind /\ p.rotation = g.active.rotation /\ p \in Piece
    BY <1>2, ShiftedOK, ShiftedPiece
  <2> HIDE DEF p
  <2>3. Full(n) /\ n.active = p /\ n.paused = g.paused
    BY <1>2 DEF Full, GameFields
  <2> HIDE DEF n
  <2>4. Full(moved) /\ moved.active = p /\ moved.paused = g.paused
    BY <2>3, ResetKeepsPiece
  <2> HIDE DEF moved
  <2>5. TryMove(g, dx, dy).active = p /\ TryMove(g, dx, dy).paused = g.paused
    BY <2>1, <2>4 DEF Full, GameFields
  <2>6. p # None
    BY <2>2, GameAssumption
  <2> QED BY <1>1, <2>2, <2>5, <2>6 DEF Plan
<1> QED BY <1>3, <1>4

LEMMA TurnPlan ==
  ASSUME NEW g, Good(g), g.active # None, NEW cw \in BOOLEAN
  PROVE  Plan(TryRotate(g, cw), g)
<1>1. Good(TryRotate(g, cw)) /\ Quiet(TryRotate(g, cw), g)
  BY TryRotateGood, QuietTurn, SteadyNumbers DEF Good
<1>2. g.active \in Piece /\ g.active \in AnyPiece /\ Full(g)
  BY PlanStart, PlanParts
<1>3. CASE ~ CanRotate(g, cw)
  BY <1>3, PlanStart DEF TryRotate
<1>4. CASE CanRotate(g, cw)
  <2> DEFINE first == CHOOSE i \in ValidKicks(g, cw) : \A j \in ValidKicks(g, cw) : i <= j
             p == Kicked(g.active, cw, first)
             n == [g EXCEPT !.active = p]
             moved == HandleLockReset(n)
  <2>1. TryRotate(g, cw) = [moved EXCEPT !.last_action_was_rotate = TRUE]
    BY <1>4, Zenon DEF TryRotate
  <2>2. first \in 1..5
    <3>1. ValidKicks(g, cw) # {} /\ ValidKicks(g, cw) \subseteq Nat
      BY <1>4 DEF CanRotate, ValidKicks
    <3>2. \E i \in ValidKicks(g, cw) : \A j \in ValidKicks(g, cw) : i <= j
      BY <3>1, LeastDistance
    <3>3. first \in ValidKicks(g, cw)
      BY <3>2
    <3> QED BY <3>3 DEF ValidKicks
  <2> HIDE DEF first
  <2>3. p.kind = g.active.kind /\ p \in Piece
    <3>1. Kicked(g.active, cw, first) \in AnyPiece
          /\ Kicked(g.active, cw, first).kind = g.active.kind
      BY <1>2, <2>2, KickedOK
    <3> QED BY <1>2, <3>1, KindMakesPiece DEF Piece
  <2> HIDE DEF p
  <2>4. Full(n) /\ n.active = p /\ n.paused = g.paused
    BY <1>2 DEF Full, GameFields
  <2> HIDE DEF n
  <2>5. Full(moved) /\ moved.active = p /\ moved.paused = g.paused
    BY <2>4, ResetKeepsPiece
  <2> HIDE DEF moved
  <2>6. TryRotate(g, cw).active = p /\ TryRotate(g, cw).paused = g.paused
    BY <2>1, <2>5 DEF Full, GameFields
  <2>7. p # None
    BY <2>3, GameAssumption
  <2> QED BY <1>1, <2>3, <2>6, <2>7 DEF Plan
<1> QED BY <1>3, <1>4

LEMMA OneStep ==
  ASSUME NEW g, Good(g), g.active # None,
         NEW action \in {"MoveLeft", "MoveRight", "RotateCw", "RotateCcw"}
  PROVE  /\ Plan(ApplyAction(g, action), g)
         /\ action \in {"MoveLeft", "MoveRight"} =>
              ApplyAction(g, action).active.rotation = g.active.rotation
<1>1. CASE ~ Allowed(g, action)
  BY <1>1, PlanStart DEF ApplyAction
<1>2. CASE Allowed(g, action)
  <2>1. CASE action = "MoveLeft"
    <3>1. -1 \in Int /\ 0 \in Int
      OBVIOUS
    <3>2. /\ Plan(TryMove(g, -1, 0), g)
          /\ TryMove(g, -1, 0).active.rotation = g.active.rotation
      BY <3>1, MovePlan
    <3>3. ApplyAction(g, action) = TryMove(g, -1, 0)
      BY <1>2, <2>1 DEF ApplyAction
    <3> QED BY <3>2, <3>3
  <2>2. CASE action = "MoveRight"
    <3>1. 1 \in Int /\ 0 \in Int
      OBVIOUS
    <3>2. /\ Plan(TryMove(g, 1, 0), g)
          /\ TryMove(g, 1, 0).active.rotation = g.active.rotation
      BY <3>1, MovePlan
    <3>3. ApplyAction(g, action) = TryMove(g, 1, 0)
      BY <1>2, <2>2 DEF ApplyAction
    <3> QED BY <3>2, <3>3
  <2>3. CASE action = "RotateCw"
    BY <1>2, <2>3, TurnPlan DEF ApplyAction
  <2>4. CASE action = "RotateCcw"
    BY <1>2, <2>4, TurnPlan DEF ApplyAction
  <2> QED BY <2>1, <2>2, <2>3, <2>4
<1> QED BY <1>1, <1>2

\* However often an action is repeated, the plan stays one; moves do not turn it.
LEMMA RepeatedPlan ==
  ASSUME NEW g, Good(g), g.active # None, NEW n \in Nat,
         NEW action \in {"MoveLeft", "MoveRight", "RotateCw", "RotateCcw"}
  PROVE  /\ Plan(Repeated(g, action, n), g)
         /\ action \in {"MoveLeft", "MoveRight"} =>
              Repeated(g, action, n).active.rotation = g.active.rotation
<1> DEFINE OK(m) == /\ Plan(m, g)
                    /\ action \in {"MoveLeft", "MoveRight"} =>
                         m.active.rotation = g.active.rotation
<1>1. PICK f : Steps(f, g, action, n) /\ Repeated(g, action, n) = f[n]
  BY RepeatedSteps
<1>2. \A i \in 0..n : f[i] = IF i = 0 THEN g ELSE ApplyAction(f[i - 1], action)
  BY <1>1 DEF Steps
<1>3. OK(g)
  BY PlanStart
<1>4. ASSUME NEW m, OK(m) PROVE OK(ApplyAction(m, action))
  <2>1. Good(m) /\ m.active # None
    BY <1>4 DEF Plan
  <2> QED BY <1>4, <2>1, OneStep, PlanTrans
<1> HIDE DEF OK
<1> DEFINE Bad == {i \in 0..n : ~ OK(f[i])}
<1>5. Bad = {}
  <2> SUFFICES ASSUME Bad # {} PROVE FALSE
    OBVIOUS
  <2>0. Bad \subseteq Nat
    OBVIOUS
  <2>1. PICK k \in Bad : \A j \in Bad : k <= j
    <3> HIDE DEF Bad
    <3> QED BY <2>0, LeastDistance
  <2>2. k # 0
    BY <1>2, <1>3, <2>1
  <2>3. k - 1 \in 0..n /\ OK(f[k - 1])
    BY <2>1, <2>2
  <2> QED BY <1>2, <1>4, <2>1, <2>2, <2>3
<1>6. OK(f[n])
  BY <1>5
<1> QED BY <1>1, <1>6 DEF OK

LEMMA TurnedPlan ==
  ASSUME NEW g, Good(g), g.active # None, NEW rotation \in Rotations
  PROVE  Plan(Turned(g, rotation), g)
<1> DEFINE turns(cw) == QuarterTurns(g.active.rotation, rotation, cw)
           cwFirst == turns(TRUE) <= turns(FALSE)
           plan == [i \in 1..2 |-> LET cw == (i = 1) <=> cwFirst
                                   IN  Repeated(g, IF cw THEN "RotateCw" ELSE "RotateCcw",
                                                turns(cw))]
<1>1. g.active.rotation \in 0..3 /\ rotation \in 0..3
  BY PlanStart, PlanParts DEF Piece, Rotations
<1>2. turns(TRUE) \in Nat /\ turns(FALSE) \in Nat
  BY <1>1 DEF QuarterTurns
<1>3. Turned(g, rotation) = FirstReaching(plan, rotation)
  BY DEF Turned
<1> HIDE DEF turns
<1>4. ASSUME NEW cw \in BOOLEAN
      PROVE  Plan(Repeated(g, IF cw THEN "RotateCw" ELSE "RotateCcw", turns(cw)), g)
  BY <1>2, RepeatedPlan
<1>5. Plan(plan[1], g) /\ Plan(plan[2], g)
  <2>1. ((1 = 1) <=> cwFirst) \in BOOLEAN /\ ((2 = 1) <=> cwFirst) \in BOOLEAN
    OBVIOUS
  <2>2. /\ plan[1] = LET cw == (1 = 1) <=> cwFirst
                     IN  Repeated(g, IF cw THEN "RotateCw" ELSE "RotateCcw", turns(cw))
        /\ plan[2] = LET cw == (2 = 1) <=> cwFirst
                     IN  Repeated(g, IF cw THEN "RotateCw" ELSE "RotateCcw", turns(cw))
    OBVIOUS
  <2> HIDE DEF cwFirst, plan
  <2> QED BY <1>4, <2>1, <2>2, Zenon
<1> HIDE DEF plan
<1> QED BY <1>3, <1>5 DEF FirstReaching

LEMMA MovedToPlan ==
  ASSUME NEW g, Good(g), g.active # None, NEW x \in Int
  PROVE  /\ Plan(MovedTo(g, x), g)
         /\ MovedTo(g, x).active.rotation = g.active.rotation
<1>1. g.active.x \in Int
  BY PlanStart, PlanParts DEF Piece
<1> DEFINE dx == x - g.active.x
           action == IF dx > 0 THEN "MoveRight" ELSE "MoveLeft"
           n == IF dx > 0 THEN dx ELSE -dx
<1>2. n \in Nat /\ action \in {"MoveLeft", "MoveRight"}
  BY <1>1
<1>3. MovedTo(g, x) = Repeated(g, action, n)
  BY DEF MovedTo
<1> HIDE DEF dx, action, n
<1> QED BY <1>2, <1>3, RepeatedPlan

-----------------------------------------------------------------------------
(* A place: where the piece ends. *)

\* Every shape reaches above the last row of its box.
LEMMA HighMino ==
  ASSUME NEW k \in AllKinds, NEW r \in Rotations
  PROVE  \E m \in Shape(k, r) : m[2] \in 0..2
<1>1. r + 1 \in 1..4
  BY DEF Rotations
<1>2. CASE k = "I"
  <2>1. r + 1 = 1 \/ r + 1 = 2 \/ r + 1 = 3 \/ r + 1 = 4
    BY <1>1
  <2>2. Shape(k, r) = IShape[r + 1]
    BY <1>2 DEF Shape, Shapes
  <2>3. \A i \in 1..4 : \E m \in IShape[i] : m[2] \in 0..2
    <3>1. <<0, 1>> \in IShape[1] /\ <<2, 0>> \in IShape[2] /\ <<0, 2>> \in IShape[3]
          /\ <<1, 0>> \in IShape[4]
      BY DEF IShape
    <3> QED BY <3>1
  <2> QED BY <1>1, <2>2, <2>3
<1>3. CASE k # "I"
  <2>1. <<1, 1>> \in Shape(k, r)
    BY <1>1, <1>3, TablesOK DEF Shape, Shapes, AllKinds
  <2> QED BY <2>1
<1> QED BY <1>2, <1>3

\* The piece at rest in column x.
Rest(kind, rotation, x, y) == [kind |-> kind, rotation |-> rotation, x |-> x, y |-> y]

LEMMA ShiftedRest ==
  ASSUME NEW p \in AnyPiece, NEW dy \in Int
  PROVE  Shifted(p, 0, dy) = Rest(p.kind, p.rotation, p.x, p.y + dy)
<1> DEFINE q == Shifted(p, 0, dy)
<1>1. /\ q \in AnyPiece /\ q.kind = p.kind /\ q.rotation = p.rotation
      /\ q.x = p.x + 0 /\ q.y = p.y + dy
  BY ShiftedOK
<1>2. p.x + 0 = p.x
  BY DEF AnyPiece
<1> HIDE DEF q
<1>3. q = Rest(q.kind, q.rotation, q.x, q.y)
  BY <1>1 DEF AnyPiece, Rest
<1> QED BY <1>1, <1>2, <1>3 DEF q

LEMMA LandingRests ==
  ASSUME NEW g, Good(g), g.active # None
  PROVE  \E y \in -2 .. H :
           LET p == Rest(g.active.kind, g.active.rotation, g.active.x, y)
           IN  Landing(g) = p /\ Fits(g.board, p) /\ Grounded(g.board, p)
<1> DEFINE a == g.active
           d == DropDistance(g.board, a)
           y == a.y + d
           p == Rest(a.kind, a.rotation, a.x, y)
<1>1. a \in Piece /\ a \in AnyPiece /\ Fits(g.board, a)
  BY PlanStart, PlanParts DEF Good, Steady, Fit
<1>2. d \in Nat /\ H \in Nat /\ Fits(g.board, Shifted(a, 0, d)) /\ ~ Fits(g.board, Shifted(a, 0, d + 1))
  <2>1. d \in 0..H /\ H \in Nat
    BY <1>1, DropDistanceOK, BoardAssumption
  <2>2. d \in 0..d
    BY <2>1
  <2> HIDE DEF d
  <2> QED BY <1>1, <2>1, <2>2, DropDistanceOK DEF d
<1> HIDE DEF d
<1>3. a.x \in Int /\ a.y \in Int
  BY <1>1 DEF AnyPiece
<1> HIDE DEF a
<1>4. Shifted(a, 0, d) = p /\ Shifted(p, 0, 1) = Shifted(a, 0, d + 1)
  <2>1. p \in AnyPiece /\ p = Shifted(a, 0, d)
    BY <1>1, <1>2, ShiftedRest, ShiftedOK
  <2>2. Shifted(p, 0, 1) = Rest(p.kind, p.rotation, p.x, p.y + 1)
    BY <2>1, ShiftedRest
  <2>3. Shifted(a, 0, d + 1) = Rest(a.kind, a.rotation, a.x, a.y + (d + 1))
    BY <1>1, <1>2, ShiftedRest
  <2>4. /\ p.kind = a.kind /\ p.rotation = a.rotation /\ p.x = a.x
        /\ p.y + 1 = a.y + (d + 1)
    BY <1>2, <1>3 DEF Rest
  <2> HIDE DEF p
  <2> QED BY <2>1, <2>2, <2>3, <2>4
<1>5. y \in -2 .. H
  <2>1. PICK m \in Shape(a.kind, a.rotation) : m[2] \in 0..2
    BY <1>1, HighMino DEF AnyPiece
  <2>2. p.y = y /\ p.kind = a.kind /\ p.rotation = a.rotation
    BY DEF Rest
  <2>3. y + m[2] \in Rows
    BY <1>2, <1>4, <2>1, <2>2 DEF Fits, Cells
  <2> QED BY <1>2, <1>3, <2>1, <2>3 DEF Rows
<1>6. Landing(g) = p
  BY <1>4 DEF Landing, a, d
<1> QED BY <1>2, <1>4, <1>5, <1>6 DEF Grounded, a

\* The kind of piece a place is about.
PlacedKind(g, useHold) ==
  IF ~ useHold THEN g.active.kind ELSE IF g.hold = None THEN Peek(g.queue) ELSE g.hold

\* A place either returns the game it was given, or locks the piece where it was told to.
PlaceOK(p, g, kind, x, rotation) ==
  IF p.outcome # "ok" THEN p.game = g
  ELSE /\ Good(p.game) /\ Locked(p.game, g)
       /\ \E y \in -2 .. H :
            /\ Fits(g.board, Rest(kind, rotation, x, y))
            /\ Grounded(g.board, Rest(kind, rotation, x, y))
            /\ p.game.board = ClearFullRows(g.board \cup CellsOf(Rest(kind, rotation, x, y)))

LEMMA FailedOK ==
  ASSUME NEW g, NEW code \in {"invalid_place", "hold_unavailable"},
         NEW kind, NEW x, NEW rotation
  PROVE  PlaceOK(Failed(g, code), g, kind, x, rotation)
  BY DEF PlaceOK, Failed

LEMMA HeldPlan ==
  ASSUME NEW g, Good(g), ~ g.paused, ~ g.game_over, NEW useHold \in BOOLEAN,
         useHold => HoldSucceeds(g)
  PROVE  LET n == HeldFirst(g, useHold)
         IN  /\ Good(n) /\ Silent(n, g) /\ ~ n.paused
             /\ n.active # None /\ ~ n.game_over => n.active.kind = PlacedKind(g, useHold)
<1>0. Full(g) /\ Silent(g, g)
  BY SteadyNumbers DEF Good, Silent
<1>1. CASE ~ useHold
  BY <1>0, <1>1 DEF HeldFirst, PlacedKind
<1>2. CASE useHold
  <2>1. HeldFirst(g, useHold) = Hold(g)
    BY <1>2 DEF HeldFirst, ApplyAction, Allowed
  <2>2. Good(Hold(g))
    BY HoldGood
  <2>3. /\ Silent(Hold(g), g) /\ Hold(g).paused = g.paused
        /\ ~ Hold(g).game_over =>
             Hold(g).active = NewPiece(IF g.hold = None THEN Peek(g.queue) ELSE g.hold)
    BY <1>0, <1>2, HoldTells
  <2>4. \A k : NewPiece(k).kind = k
    BY DEF NewPiece
  <2> QED BY <1>2, <2>1, <2>2, <2>3, <2>4 DEF PlacedKind
<1> QED BY <1>1, <1>2

LEMMA PlaceAlwaysOK ==
  ASSUME NEW g, Good(g), NEW x \in Int, NEW rotation \in Rotations, NEW useHold \in BOOLEAN
  PROVE  PlaceOK(ApplyPlace(g, x, rotation, useHold), g, PlacedKind(g, useHold), x, rotation)
<1> DEFINE kind == PlacedKind(g, useHold)
           held == HeldFirst(g, useHold)
           turned == Turned(held, rotation)
           moved == MovedTo(turned, x)
<1>1. CASE g.paused \/ g.game_over
  BY <1>1, FailedOK DEF ApplyPlace
<1>2. CASE ~ (g.paused \/ g.game_over) /\ useHold /\ ~ HoldSucceeds(g)
  BY <1>2, FailedOK DEF ApplyPlace
<1>3. CASE ~ (g.paused \/ g.game_over) /\ (useHold => HoldSucceeds(g))
  <2>1. ApplyPlace(g, x, rotation, useHold) = TurnAndDrop(g, held, x, rotation)
    BY <1>3, Zenon DEF ApplyPlace
  <2>2. /\ Good(held) /\ Silent(held, g) /\ ~ held.paused
        /\ held.active # None /\ ~ held.game_over => held.active.kind = kind
    BY <1>3, HeldPlan
  <2> HIDE DEF held, kind
  <2>3. CASE held.active = None \/ held.game_over
    BY <2>1, <2>3, FailedOK DEF TurnAndDrop
  <2>4. CASE ~ (held.active = None \/ held.game_over)
    <3>1. Plan(turned, held)
      BY <2>2, <2>4, TurnedPlan
    <3>2. TurnAndDrop(g, held, x, rotation) = MoveAndDrop(g, turned, x, rotation)
      BY <2>4 DEF TurnAndDrop
    <3> HIDE DEF turned
    <3>3. CASE turned.active.rotation # rotation
      BY <2>1, <3>2, <3>3, FailedOK DEF MoveAndDrop
    <3>4. CASE turned.active.rotation = rotation
      <4>1. Plan(moved, turned) /\ moved.active.rotation = rotation
        BY <3>1, <3>4, MovedToPlan DEF Plan
      <4>2. MoveAndDrop(g, turned, x, rotation) = DropAt(g, moved, x)
        BY <3>4 DEF MoveAndDrop
      <4> HIDE DEF moved
      <4>3. CASE moved.active.x # x
        BY <2>1, <3>2, <4>2, <4>3, FailedOK DEF DropAt
      <4>4. CASE moved.active.x = x
        <5>1. Plan(moved, held)
          BY <3>1, <4>1, PlanTrans
        <5>2. /\ Good(moved) /\ moved.active # None /\ Silent(moved, g)
              /\ ~ moved.paused /\ ~ moved.game_over /\ moved.active.kind = kind
          BY <2>2, <2>4, <5>1, QuietIsSilent, SilentFirst DEF Plan, Quiet, SameCounts
        <5>3. /\ Locked(HardDrop(moved), g) /\ Good(HardDrop(moved))
              /\ HardDrop(moved).board = ClearFullRows(g.board \cup CellsOf(Landing(moved)))
          BY <5>2, HardDropTells, HardDropGood, SilentFirst DEF Silent
        <5>4. PICK y \in -2 .. H :
                /\ Landing(moved) = Rest(kind, rotation, x, y)
                /\ Fits(g.board, Rest(kind, rotation, x, y))
                /\ Grounded(g.board, Rest(kind, rotation, x, y))
          BY <4>1, <4>4, <5>2, LandingRests DEF Silent
        <5>5. DropAt(g, moved, x) = [outcome |-> "ok", game |-> HardDrop(moved)]
          BY <4>4, <5>2 DEF DropAt, DropIt, ApplyAction, Allowed
        <5>6. PlaceOK(DropAt(g, moved, x), g, kind, x, rotation)
          BY <5>3, <5>4, <5>5 DEF PlaceOK
        <5> QED BY <2>1, <3>2, <4>2, <5>6 DEF kind
      <4> QED BY <4>3, <4>4
    <3> QED BY <3>3, <3>4
  <2> QED BY <2>3, <2>4
<1> QED BY <1>1, <1>2, <1>3

-----------------------------------------------------------------------------
(* The inductive invariant. *)

\* The copy of the board is older than the game's, or the same.
CopyInv ==
  /\ copied <= game.episode_id /\ copied \in Nat /\ snapshot.cells.board_id \in Nat
  /\ copied = game.episode_id =>
       /\ snapshot.cells.board_id <= game.board_id
       /\ snapshot.cells.board_id = game.board_id => snapshot.cells.board = game.board

\* An event waits in the game exactly if a lock of this step made it.
EventInv ==
  /\ locks \in Nat
  /\ phase # "idle" =>
       /\ game.last_event # None <=> locks > 0
       /\ game.last_event # None => /\ game.last_event.combo = game.combo
                                    /\ game.last_event.back_to_back = game.back_to_back
  /\ phase = "idle" => game.last_event = None

SessionInv ==
  /\ Good(game) /\ seed \in RngStates \cup {None}
  /\ CopyInv /\ EventInv /\ SnapshotFollows /\ LastLockReported

LEMMA IdsAreNumbers ==
  ASSUME NEW g, Good(g)
  PROVE  g.board_id \in Nat /\ g.episode_id \in Nat
  BY SteadyNumbers DEF Good

LEMMA SessionStarts == SessionInit => SessionInv
<1> SUFFICES ASSUME SessionInit PROVE SessionInv
  OBVIOUS
<1>1. PICK s \in RngStates : game = StartGame(NewGame(s))
  BY DEF SessionInit
<1> DEFINE fresh == NewGame(s)
           k == [fresh EXCEPT !.started = TRUE]
<1>2. Good(fresh) /\ Full(fresh) /\ ~ fresh.started /\ fresh.last_event = None
      /\ fresh.episode_id = 0
  <2>1. fresh.last_event = None /\ fresh.episode_id = 0 /\ ~ fresh.started
    BY DEF NewGame
  <2>2. Good(fresh)
    BY NewGameGood DEF Good
  <2> HIDE DEF fresh
  <2> QED BY <2>1, <2>2, SteadyNumbers DEF Good
<1>3. Good(game)
  BY <1>1, <1>2, StartGood
<1>4. game = SpawnPiece(k)
  BY <1>1, <1>2 DEF StartGame
<1> HIDE DEF fresh
<1>5. Full(k) /\ k.last_event = None /\ k.episode_id = 0
  BY <1>2 DEF Full, GameFields
<1> HIDE DEF k
<1>6. game.last_event = None /\ game.episode_id = 0
  BY <1>4, <1>5, SpawnSilent DEF Silent
<1>7. /\ phase = "idle" /\ seed = None /\ events = <<>> /\ locks = 0 /\ copied = 0
      /\ snapshot.meta = Meta(game) /\ snapshot.cells.board = game.board
      /\ snapshot.cells.board_id = game.board_id
  BY DEF SessionInit, View, BoardView
<1> QED BY <1>3, <1>6, <1>7, IdsAreNumbers
        DEF SessionInv, CopyInv, EventInv, SnapshotFollows, LastLockReported

\* Inside a step, whatever tells of its locks keeps the invariant.
LEMMA InStep ==
  ASSUME SessionInv, phase # "idle", phase' # "idle", seed' \in RngStates \cup {None},
         Good(game'), Tells(game', game), CountLocks, UNCHANGED <<snapshot, copied>>
  PROVE  SessionInv'
<1>1. SnapshotFollows' /\ LastLockReported'
  BY DEF SnapshotFollows, LastLockReported
<1>2. /\ game.board_id \in Nat /\ game.episode_id \in Nat
      /\ game'.board_id \in Nat /\ game'.episode_id \in Nat
  BY IdsAreNumbers DEF SessionInv
<1>3. CopyInv'
  <2>1. CASE Silent(game', game)
    BY <2>1 DEF Silent, SessionInv, CopyInv
  <2>2. CASE Locked(game', game)
    BY <1>2, <2>2 DEF Locked, SessionInv, CopyInv
  <2>3. CASE Restarted(game', game)
    BY <1>2, <2>3 DEF Restarted, SessionInv, CopyInv
  <2> QED BY <2>1, <2>2, <2>3 DEF Tells
<1>4. EventInv'
  <2>1. CASE Silent(game', game)
    BY <1>2, <2>1 DEF Silent, CountLocks, SessionInv, EventInv
  <2>2. CASE Locked(game', game)
    BY <1>2, <2>2 DEF Locked, CountLocks, SessionInv, EventInv
  <2>3. CASE Restarted(game', game)
    BY <1>2, <2>3 DEF Restarted, CountLocks, SessionInv, EventInv
  <2> QED BY <2>1, <2>2, <2>3 DEF Tells
<1> QED BY <1>1, <1>3, <1>4 DEF SessionInv

\* A place, like any action, tells of its locks.
LEMMA PlaceTells ==
  ASSUME NEW g, Good(g), NEW x \in Int, NEW rotation \in Rotations, NEW useHold \in BOOLEAN
  PROVE  LET n == ApplyPlace(g, x, rotation, useHold).game
         IN  Good(n) /\ Tells(n, g)
<1> DEFINE p == ApplyPlace(g, x, rotation, useHold)
<1>1. PlaceOK(p, g, PlacedKind(g, useHold), x, rotation)
  BY PlaceAlwaysOK
<1> HIDE DEF p
<1>2. CASE p.outcome # "ok"
  <2>1. Full(g)
    BY DEF Full, Good, Steady, GameOK
  <2>2. Silent(g, g)
    BY <2>1 DEF Silent
  <2> QED BY <1>1, <1>2, <2>2 DEF PlaceOK, Tells, p
<1>3. CASE p.outcome = "ok"
  BY <1>1, <1>3 DEF PlaceOK, Tells, p
<1> QED BY <1>2, <1>3

LEMMA RefreshParts ==
  ASSUME NEW view, NEW g
  PROVE  LET n == Refresh(view, g) IN
         /\ n.meta = Meta(g) /\ n.cells.board_id = g.board_id
         /\ \/ n.cells = BoardView(g)
            \/ n.cells = view.cells /\ view.cells.board_id = g.board_id
  BY DEF Refresh, BoardView

LEMMA PublishStep ==
  ASSUME SessionInv, Publish
  PROVE  SessionInv'
<1>1. /\ phase = "tick" /\ phase' = "idle" /\ seed' = seed /\ locks' = locks
      /\ game' = [game EXCEPT !.last_event = None]
      /\ events' = IF game.last_event = None THEN <<>> ELSE <<game.last_event>>
      /\ snapshot' = Refresh(snapshot, game)
      /\ copied' = IF snapshot'.cells = snapshot.cells THEN copied ELSE game.episode_id
  BY DEF Publish
<1>2. Good(game') /\ Full(game)
  BY <1>1, TakeLastEventGood DEF SessionInv, Good, Steady, GameOK, Full
<1>3. /\ game'.last_event = None /\ Meta(game') = Meta(game)
      /\ game'.board = game.board /\ game'.board_id = game.board_id
      /\ game'.episode_id = game.episode_id /\ game'.combo = game.combo
      /\ game'.back_to_back = game.back_to_back
  BY <1>1, <1>2 DEF Full, GameFields, Meta
<1>4. game.board_id \in Nat /\ game.episode_id \in Nat
  BY IdsAreNumbers DEF SessionInv
<1>5. /\ snapshot'.meta = Meta(game) /\ snapshot'.cells.board_id = game.board_id
      /\ \/ snapshot'.cells = BoardView(game)
         \/ snapshot'.cells = snapshot.cells /\ snapshot.cells.board_id = game.board_id
  BY <1>1, RefreshParts
<1>6. /\ copied' <= game.episode_id /\ copied' \in Nat
      /\ copied' = game.episode_id => snapshot'.cells.board = game.board
  <2>1. CASE snapshot'.cells = snapshot.cells
    BY <1>1, <1>5, <2>1 DEF SessionInv, CopyInv, BoardView
  <2>2. CASE snapshot'.cells # snapshot.cells
    BY <1>1, <1>4, <1>5, <2>2 DEF BoardView
  <2> QED BY <2>1, <2>2
<1>7. CopyInv' /\ SnapshotFollows'
  BY <1>3, <1>4, <1>5, <1>6 DEF CopyInv, SnapshotFollows
<1>8. EventInv'
  BY <1>1, <1>3 DEF SessionInv, EventInv
<1>9. LastLockReported'
  <2>1. CASE game.last_event = None
    BY <1>1, <2>1 DEF SessionInv, EventInv, LastLockReported
  <2>2. CASE game.last_event # None
    <3>1. events' = <<game.last_event>> /\ locks' > 0
      BY <1>1, <2>2 DEF SessionInv, EventInv
    <3>2. \A i \in 1..Len(events') : events'[i] = game.last_event
      BY <3>1
    <3>3. game.last_event.combo = game.combo
          /\ game.last_event.back_to_back = game.back_to_back
      BY <1>1, <2>2 DEF SessionInv, EventInv
    <3>4. events' # <<>>
      BY <3>1
    <3> QED BY <1>3, <3>1, <3>2, <3>3, <3>4 DEF LastLockReported
  <2> QED BY <2>1, <2>2
<1> QED BY <1>1, <1>2, <1>7, <1>8, <1>9 DEF SessionInv

LEMMA SessionStep == SessionInv /\ [SessionNext]_<<game, session>> => SessionInv'
<1> SUFFICES ASSUME SessionInv, [SessionNext]_<<game, session>> PROVE SessionInv'
  OBVIOUS
<1>0. Good(game) /\ seed \in RngStates \cup {None}
  BY DEF SessionInv
<1>1. CASE BeginStep
  <2>1. /\ phase = "idle" /\ phase' = "remote" /\ locks' = 0
        /\ UNCHANGED <<game, seed, snapshot, copied>>
    BY <1>1 DEF BeginStep
  <2>2. CopyInv' /\ SnapshotFollows' /\ LastLockReported'
    BY <2>1 DEF SessionInv, CopyInv, SnapshotFollows, LastLockReported
  <2>3. EventInv'
    BY <2>1 DEF SessionInv, EventInv
  <2> QED BY <1>0, <2>1, <2>2, <2>3 DEF SessionInv
<1>2. CASE BeginActions
  <2>1. /\ phase = "remote" /\ seed' \in RngStates \cup {None}
        /\ UNCHANGED <<game, phase, snapshot, locks, copied>>
    BY <1>2, SessionAssumption DEF BeginActions
  <2>2. CopyInv' /\ SnapshotFollows' /\ LastLockReported'
    BY <2>1 DEF SessionInv, CopyInv, SnapshotFollows, LastLockReported
  <2>3. EventInv'
    BY <2>1 DEF SessionInv, EventInv
  <2> QED BY <1>0, <2>1, <2>2, <2>3 DEF SessionInv
<1>3. CASE RemoteAction
  <2>1. PICK action \in Inputs :
          IF action = "Restart" /\ seed # None
          THEN game' = RestartWithSeed(game, seed) /\ seed' = None
          ELSE game' = ApplyAction(game, action) /\ seed' = seed
    BY <1>3 DEF RemoteAction
  <2>2. Good(game') /\ Tells(game', game) /\ seed' \in RngStates \cup {None}
    <3>1. CASE action = "Restart" /\ seed # None
      BY <1>0, <2>1, <3>1, RestartGood, RestartTells DEF Good, Steady, Tells
    <3>2. CASE ~ (action = "Restart" /\ seed # None)
      <4>1. action \in GameActions
        BY GameAssumption
      <4>2. Good(ApplyAction(game, action)) /\ Tells(ApplyAction(game, action), game)
        BY <1>0, <4>1, ApplyActionGood, ActionTells
      <4> QED BY <1>0, <2>1, <3>2, <4>2
    <3> QED BY <3>1, <3>2
  <2> QED BY <1>3, <2>2, InStep DEF RemoteAction
<1>4. CASE RemotePlace
  <2>1. PICK x \in -2 .. W, rotation \in Rotations, useHold \in BOOLEAN :
          game' = ApplyPlace(game, x, rotation, useHold).game
    BY <1>4 DEF RemotePlace
  <2>2. Good(game') /\ Tells(game', game)
    BY <1>0, <2>1, PlaceTells
  <2> QED BY <1>4, <2>2, InStep DEF RemotePlace
<1>5. CASE EndRemote
  <2>1. /\ phase = "remote" /\ phase' = "local" /\ seed' = None
        /\ UNCHANGED <<game, snapshot, locks, copied>>
    BY <1>5 DEF EndRemote
  <2>2. CopyInv' /\ SnapshotFollows' /\ LastLockReported'
    BY <2>1 DEF SessionInv, CopyInv, SnapshotFollows, LastLockReported
  <2>3. EventInv'
    BY <2>1 DEF SessionInv, EventInv
  <2> QED BY <1>0, <2>1, <2>2, <2>3 DEF SessionInv
<1>6. CASE LocalAction
  <2>1. PICK action \in Inputs : game' = ApplyAction(game, action)
    BY <1>6 DEF LocalAction
  <2>2. action \in GameActions
    BY GameAssumption
  <2>3. Good(game') /\ Tells(game', game)
    BY <1>0, <2>1, <2>2, ApplyActionGood, ActionTells
  <2> QED BY <1>0, <1>6, <2>3, InStep DEF LocalAction
<1>7. CASE TickStep
  <2>1. 1 \in Nat /\ FALSE \in BOOLEAN
    OBVIOUS
  <2>2. Good(game') /\ Tells(game', game)
    BY <1>0, <1>7, <2>1, TickGood, TickTells DEF TickStep
  <2> QED BY <1>0, <1>7, <2>2, InStep DEF TickStep
<1>8. CASE Publish
  BY <1>8, PublishStep
<1>9. CASE UNCHANGED <<game, session>>
  BY <1>9 DEF session, SessionInv, CopyInv, EventInv, SnapshotFollows, LastLockReported
<1> QED BY <1>1, <1>2, <1>3, <1>4, <1>5, <1>6, <1>7, <1>8, <1>9 DEF SessionNext

\* The invariant holds in every state of the session.
THEOREM SessionAlwaysInv == SessionSpec => []SessionInv
<1> QED BY SessionStarts, SessionStep, PTL DEF SessionSpec

-----------------------------------------------------------------------------
(* The properties the runs check. *)

\* Between steps, the published snapshot shows the game, the board included unless
\* a restart gave a new board an old id.
THEOREM SnapshotAlwaysFollows == SessionSpec => []SnapshotFollows
<1>1. SessionInv => SnapshotFollows
  BY DEF SessionInv
<1> QED BY <1>1, SessionAlwaysInv, PTL

\* A step reports an event exactly if it locked a piece after its last restart,
\* and the event is that of the latest lock.
THEOREM LastLockAlwaysReported == SessionSpec => []LastLockReported
<1>1. SessionInv => LastLockReported
  BY DEF SessionInv
<1> QED BY <1>1, SessionAlwaysInv, PTL

\* Whatever plan a place command makes, it either leaves the game alone or locks
\* the piece it names, in the column and rotation it names, at rest on the board.
THEOREM PlaceAlwaysLands == SessionSpec => []PlaceLands
<1>1. SessionInv => PlaceLands
  <2> SUFFICES ASSUME SessionInv,
                      NEW x \in -2 .. W, NEW rotation \in Rotations, NEW useHold \in BOOLEAN
               PROVE  Landed(ApplyPlace(game, x, rotation, useHold),
                             IF ~ useHold THEN game.active.kind
                             ELSE IF game.hold = None THEN Peek(game.queue) ELSE game.hold,
                             x, rotation)
    BY DEF PlaceLands
  <2>1. Good(game) /\ x \in Int
    BY DEF SessionInv
  <2>2. PlaceOK(ApplyPlace(game, x, rotation, useHold), game, PlacedKind(game, useHold),
                x, rotation)
    BY <2>1, PlaceAlwaysOK
  <2> QED BY <2>2 DEF PlaceOK, Landed, Locked, Rest, PlacedKind
<1> QED BY <1>1, SessionAlwaysInv, PTL
=============================================================================
