------------------------------ MODULE Terminal ------------------------------
(***************************************************************************)
(* The interactive loop (main.rs, run): it waits for one terminal event or *)
(* the next step, hands keys to the input handler or to the waiting local  *)
(* actions, samples the clock, and runs the steps that are due, at most    *)
(* MaxSteps, each with the repeats of the handler (fixed_step.rs).         *)
(* run_headless is the same loop without keys.                             *)
(*                                                                         *)
(* Of the game only its mode is kept; remote commands and the rules change *)
(* it too.  The player's fingers are part of the model: keys go up with a  *)
(* release event or, in a terminal that reports none, without.             *)
(***************************************************************************)
EXTENDS InputHandler, FiniteSets

CONSTANTS Keys,         \* movement keys of the run
          MaxSteps,     \* MAX_CATCH_UP_STEPS
          PendingCap,   \* capacity of pending_local_actions
          Delays,       \* times a poll may take
          MaxBacklog    \* bound: wall time the loop is behind

ASSUME TerminalAssumption ==
  /\ Keys \subseteq MoveKeys
  /\ MaxSteps \in Nat \ {0} /\ PendingCap \in Nat \ {0}
  /\ Delays \subseteq Nat /\ MaxBacklog \in Nat

VARIABLES
  mode,       \* of the game: "play", "paused" or "over"
  handler,    \* the InputHandler
  phase,      \* of the loop: "wait", "read", "sample", "step" or "quit"
  backlog,    \* FixedStepClock: time not yet simulated
  unsampled,  \* time since last_sample
  steps,      \* steps left of this burst
  first,      \* is the next step the first of the burst?
  pending,    \* pending_local_actions
  held,       \* the movement keys under the player's fingers
  upFor,      \* history: how long no movement key has been down
  repeats,    \* history: what the handler generated for the last step
  owed,       \* history: actions accepted from keys and not given to the game
  debt        \* history: wall time minus simulated time

clockVars == <<backlog, unsampled, steps, first, debt>>
fingers   == <<held, upFor>>
vars == <<mode, handler, phase, clockVars, pending, fingers, repeats, owed>>

Init ==
  /\ mode = "play" /\ handler = NewHandler /\ phase = "wait"
  /\ backlog = 0 /\ unsampled = 0 /\ steps = 0 /\ first = FALSE /\ debt = 0
  /\ pending = <<>> /\ owed = <<>>
  /\ held = {} /\ upFor = 0 /\ repeats = <<>>
-----------------------------------------------------------------------------
(* The clock. *)

Playing == mode = "play"

\* Slip: no steps while the game is paused or over.
DueInPlay(time) == IF Playing THEN Least(time \div Tick, MaxSteps) ELSE 0

DueSteps(time) == Least(time \div Tick, MaxSteps)

\* Slip: a stall is forgotten, what a burst cannot catch up is dropped.
DropBacklog(time) == time % Tick

\* FixedStepClock::advance keeps what it does not consume.
Remaining(time) == time - Tick * DueSteps(time)

\* Time the loop spends in event::poll, and drawing before it.
Elapse(dt) ==
  /\ backlog + unsampled + dt <= MaxBacklog
  /\ unsampled' = unsampled + dt /\ debt' = debt + dt
  /\ handler' = Aged(handler, dt)
  /\ upFor' = IF held = {} THEN Least(upFor + dt, LongSilent) ELSE 0
  /\ repeats' = <<>>
  /\ UNCHANGED <<mode, backlog, steps, first, pending, held, owed>>

\* event::poll reports an event,
PollEvent ==
  /\ phase = "wait"
  /\ phase' = "read"
  /\ \E dt \in Delays : Elapse(dt)

\* or times out when the next step is due.
PollTimeout ==
  /\ phase = "wait"
  /\ phase' = "sample"
  /\ \E dt \in Delays : backlog + unsampled + dt >= Tick /\ Elapse(dt)
-----------------------------------------------------------------------------
(* Events. *)

\* try_push: an action is dropped when PendingCap wait already.
Accept(actions) ==
  IF Len(pending) + Len(actions) <= PendingCap
  THEN pending' = pending \o actions /\ owed' = owed \o actions
  ELSE UNCHANGED <<pending, owed>>

Fingers(keys) ==
  /\ held' = keys
  /\ upFor' = IF keys = {} /\ held # {} THEN 0 ELSE upFor

Read(next) == phase = "read" /\ phase' = next /\ UNCHANGED <<mode, clockVars, repeats>>

\* A movement key goes down, or repeats in a terminal that reports presses only.
MoveKeyPressed(key) ==
  /\ Playing
  /\ Read("sample")
  /\ Fingers(held \cup {key})
  /\ handler' = Press(handler, key)
  /\ Accept(PressActions(handler, key))

\* Any other action of the game; the movement keys are let go by a pause or a
\* restart.
CommandKeyPressed(action) ==
  /\ Playing
  /\ Read("sample")
  /\ handler' = IF action \in {"Pause", "Restart"} THEN NewHandler ELSE handler
  /\ Accept(<<action>>)
  /\ UNCHANGED fingers

\* While paused or over every press lets the movement keys go, only a pause or a
\* restart is taken, and the loop starts over without a step.
KeyPressedWhileStatic(key) ==
  /\ ~ Playing
  /\ Read("wait")
  /\ handler' = NewHandler
  /\ Fingers(IF key \in Keys THEN held \cup {key} ELSE held)
  /\ IF key \in {"Pause", "Restart"} THEN Accept(<<key>>) ELSE UNCHANGED <<pending, owed>>

\* A repeat event of a key that is down; the handler hears of it in play only.
KeyRepeated(key) ==
  /\ key \in held
  /\ Read(IF Playing THEN "sample" ELSE "wait")
  /\ handler' = IF Playing THEN Repeat(handler) ELSE handler
  /\ UNCHANGED <<pending, owed, fingers>>

\* A release event, heard in play only.
KeyReleased(key) ==
  /\ key \in held
  /\ Read(IF Playing THEN "sample" ELSE "wait")
  /\ handler' = IF Playing THEN Release(handler, key) ELSE handler
  /\ Fingers(held \ {key})
  /\ UNCHANGED <<pending, owed>>

Resize ==
  /\ Read("sample")
  /\ UNCHANGED <<handler, pending, owed, fingers>>

Quit ==
  /\ Read("quit")
  /\ UNCHANGED <<handler, pending, owed, fingers>>

\* The player lets go in a terminal that does not report it.
ReleaseUnreported ==
  /\ held # {}
  /\ Fingers({})
  /\ UNCHANGED <<mode, handler, phase, clockVars, pending, repeats, owed>>

ReadEvent ==
  \/ \E key \in Keys : MoveKeyPressed(key) \/ KeyRepeated(key) \/ KeyReleased(key)
  \/ \E action \in {"Act", "Pause", "Restart"} : CommandKeyPressed(action)
  \/ \E key \in Keys \cup {"Act", "Pause", "Restart"} : KeyPressedWhileStatic(key)
-----------------------------------------------------------------------------
(* The fixed-step section. *)

Sample ==
  /\ phase = "sample"
  /\ steps' = DueSteps(backlog + unsampled)
  /\ backlog' = Remaining(backlog + unsampled)
  /\ unsampled' = 0
  /\ first' = TRUE
  /\ phase' = IF steps' = 0 THEN "wait" ELSE "step"
  /\ UNCHANGED <<mode, handler, pending, fingers, repeats, owed, debt>>

\* What an action does to the mode.
Applied(m, action) ==
  CASE action = "Restart"                -> "play"
    [] action = "Pause" /\ m = "paused"  -> "play"
    [] action = "Pause" /\ m = "play"    -> "paused"
    [] OTHER                             -> m

\* What the remote commands, the local actions and the tick of a step may make
\* of mode m.
AfterStep(m, local) ==
  LET remote == {m} \cup {Applied(m, action) : action \in {"Pause", "Restart"}}
      acted  == {FoldSeq(LAMBDA action, r : Applied(r, action), r0, local) : r0 \in remote}
  IN  acted \cup (IF "play" \in acted THEN {"over"} ELSE {})

\* Slip: the waiting actions are given to every step of the burst.
StillWaiting == pending

\* mem::take: only the first step of a burst is given the waiting actions.
Given == IF first THEN <<>> ELSE pending

LocalActions == IF first THEN pending ELSE <<>>

\* step_session, with the waiting actions first and then the repeats.
Step ==
  /\ phase = "step"
  /\ mode' \in AfterStep(mode, LocalActions)
  /\ pending' = Given
  /\ owed' = SubSeq(owed, Len(LocalActions) + 1, Len(owed))
  /\ repeats' = UpdateActions(handler)
  /\ handler' = Update(handler)
  /\ steps' = steps - 1 /\ first' = FALSE /\ debt' = debt - Tick
  /\ phase' = IF steps = 1 THEN "wait" ELSE "step"
  /\ UNCHANGED <<backlog, unsampled, fingers>>

Loop == PollEvent \/ PollTimeout \/ ReadEvent \/ Resize \/ Quit \/ Sample \/ Step
Next == Loop \/ ReleaseUnreported

Spec == Init /\ [][Next]_vars

\* The loop runs, and no flood of events lasts for ever.
FairSpec == Spec /\ WF_vars(Loop) /\ SF_vars(PollTimeout)
-----------------------------------------------------------------------------
\* No time is lost or counted twice: what the wall clock is ahead of the steps run
\* is the backlog, what is not sampled yet and the rest of the burst - across
\* stalls longer than a burst and key presses that skip the fixed-step section.
TimeConserved == debt = backlog + unsampled + Tick * steps

\* A key's action is given to exactly one step, in the order of the keys.
KeysOnce == owed = pending

\* No ghost keys: repeats stop within KeyTimeout after the last movement key went
\* up, reported or not, whatever pauses and resumes, local or remote, hid it.
NoGhostKeys == repeats # <<>> => held # {} \/ upFor <= KeyTimeout

\* An accepted key takes effect: it reaches a step, also while the game is paused
\* and every further press skips the fixed-step section.
KeysTakeEffect == owed # <<>> ~> (owed = <<>> \/ phase = "quit")
=============================================================================
