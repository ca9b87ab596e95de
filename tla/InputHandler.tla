---------------------------- MODULE InputHandler ----------------------------
(***************************************************************************)
(* The terminal's DAS/ARR handler (input/handler.rs): which movement keys  *)
(* it takes for held, the repeats it generates for them at each step, and  *)
(* the timeouts that stand in for key releases a terminal does not report. *)
(* It is a record; an Instant in it is an age, the time since then, that   *)
(* Aged lets grow up to where nothing compares it any more.                *)
(***************************************************************************)
EXTENDS Integers, Sequences, SequencesExt

CONSTANTS Tick,        \* TICK_MS, the time of one update
          Das, Arr,    \* delay before the first repeat, and between repeats
          SoftArr,     \* between soft drop repeats
          KeyTimeout,  \* silence after which all keys count as released
          RepMin, RepMax  \* clamp of the timeout measured from repeats

ASSUME HandlerAssumption ==
  /\ {Tick, Das, Arr, SoftArr, KeyTimeout, RepMin, RepMax} \subseteq Nat \ {0}
  /\ RepMin <= RepMax

Horizontals == {"Left", "Right"}
MoveKeys    == Horizontals \cup {"Down"}
ActionOf    == [Left |-> "MoveLeft", Right |-> "MoveRight", Down |-> "SoftDrop"]

Least(a, b) == IF a <= b THEN a ELSE b
Never       == -1                            \* no repeat seen yet

\* Ages past every comparison: with the timeouts, and with half of RepMax.
LongSilent == KeyTimeout + 1
LongApart  == (RepMax + 1) \div 2

NewHandler ==
  [horizontal |-> "None", down |-> FALSE, lastKey |-> 0, das |-> 0, arr |-> 0,
   downArr |-> 0, sawRepeat |-> FALSE, lastRepeat |-> Never, repTimeout |-> RepMin]

Aged(h, dt) ==
  [h EXCEPT !.lastKey = Least(@ + dt, LongSilent),
            !.lastRepeat = IF @ = Never THEN Never ELSE Least(@ + dt, LongApart)]

FreeHorizontal(h) == [h EXCEPT !.horizontal = "None", !.das = 0, !.arr = 0]
FreeDown(h)       == [h EXCEPT !.down = FALSE, !.downArr = 0]

Holds(h, key) == IF key = "Down" THEN h.down ELSE h.horizontal = key

Clamp(t) == IF t < RepMin THEN RepMin ELSE Least(t, RepMax)

\* handle_key_repeat: activity of whatever is held, and a sample of the cadence.
Repeat(h) ==
  [h EXCEPT !.lastKey = 0, !.sawRepeat = TRUE, !.lastRepeat = 0,
            !.repTimeout = IF h.lastRepeat = Never THEN @ ELSE Clamp(2 * h.lastRepeat)]

\* handle_key_press: a key already held is repeating.
Press(h, key) ==
  IF Holds(h, key) THEN Repeat(h)
  ELSE IF key = "Down" THEN [h EXCEPT !.lastKey = 0, !.down = TRUE, !.downArr = 0]
  ELSE [h EXCEPT !.lastKey = 0, !.horizontal = key, !.das = 0, !.arr = 0]

PressActions(h, key) == IF Holds(h, key) THEN <<>> ELSE <<ActionOf[key]>>

\* handle_key_release: the other direction's release changes nothing.
Release(h, key) ==
  IF key = "Down" THEN FreeDown(h)
  ELSE IF h.horizontal = key THEN FreeHorizontal(h) ELSE h

ReleaseTimeout(h) == IF h.sawRepeat THEN Least(KeyTimeout, h.repTimeout) ELSE KeyTimeout

\* Slip: a soft drop is only let go by its release.
ReleasedSideways(h) == IF h.lastKey > ReleaseTimeout(h) THEN FreeHorizontal(h) ELSE h

\* The head of update: after a silence everything is released.
AutoReleased(h) ==
  IF h.lastKey > ReleaseTimeout(h) THEN FreeDown(FreeHorizontal(h)) ELSE h

\* Time the repeat rate counts in this update: what lies past the delay.
Excess(h) == IF h.das < Das THEN h.das + Tick - Das ELSE Tick

Due(h)     == IF h.horizontal = "None" \/ h.das + Tick < Das THEN 0
              ELSE (h.arr + Excess(h)) \div Arr
DueDown(h) == IF h.down THEN (h.downArr + Tick) \div SoftArr ELSE 0

\* The actions one update generates for released handler h, sideways first.
Generated(h) ==
  (IF h.horizontal = "None" THEN <<>> ELSE [i \in 1..Due(h) |-> ActionOf[h.horizontal]])
    \o [i \in 1..DueDown(h) |-> "SoftDrop"]

\* What it leaves of the timers; the delay's only matters up to Das.
Charged(h) ==
  [h EXCEPT
     !.das = IF h.horizontal = "None" THEN 0 ELSE Least(@ + Tick, Das),
     !.arr = IF h.horizontal = "None" THEN 0
             ELSE IF h.das + Tick < Das THEN @ ELSE (@ + Excess(h)) % Arr,
     !.downArr = IF h.down THEN (@ + Tick) % SoftArr ELSE 0]

UpdateActions(h) == Generated(AutoReleased(h))
Update(h)        == Charged(AutoReleased(h))
=============================================================================
