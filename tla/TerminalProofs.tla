--------------------------- MODULE TerminalProofs ---------------------------
(***************************************************************************)
(* For every step length, burst size, pattern of delays and set of keys:   *)
(* the loop loses and repeats no time and no key, as steps are left over   *)
(* only inside a burst and the first step of one takes what waits; and no  *)
(* key is repeated longer than the key timeout after the last finger went  *)
(* up, as a handler that takes a key for held without a report is silent,  *)
(* and its tick releases what is silent too long.                          *)
(***************************************************************************)
EXTENDS Terminal, TLAPS

LEMMA TickPositive == Tick \in Nat \ {0} BY HandlerAssumption

-----------------------------------------------------------------------------
(* Time. *)

\* The clock: only a burst has steps left.
ClockInv ==
  /\ backlog \in Int /\ unsampled \in Int /\ steps \in Int /\ debt \in Int
  /\ phase # "step" => steps = 0
  /\ TimeConserved

LEMMA DueStepsInt == ASSUME NEW time \in Int PROVE DueSteps(time) \in Int
<1>1. Tick \in Nat \ {0} /\ MaxSteps \in Nat BY TickPositive, TerminalAssumption
<1>2. time \div Tick \in Int BY <1>1
<1> HIDE DEF Least
<1> QED BY <1>1, <1>2 DEF DueSteps, Least

LEMMA ClockStarts == Init => ClockInv
BY TickPositive DEF Init, ClockInv, TimeConserved

\* While the loop waits, time passes into the part not sampled yet.
LEMMA ElapseKeepsClock ==
  ASSUME ClockInv, phase # "step", phase' # "step", NEW dt \in Delays, Elapse(dt)
  PROVE  ClockInv'
<1>1. dt \in Int BY TerminalAssumption
<1>2. /\ unsampled' = unsampled + dt /\ debt' = debt + dt
      /\ UNCHANGED <<backlog, steps>>
  BY DEF Elapse
<1> QED BY <1>1, <1>2, TickPositive DEF ClockInv, TimeConserved

\* A sample moves all of it into the burst and the backlog.
LEMMA SampleKeepsClock == ASSUME ClockInv, Sample PROVE ClockInv'
<1> DEFINE time == backlog + unsampled
<1>1. /\ backlog \in Int /\ unsampled \in Int /\ debt \in Int /\ steps = 0
      /\ debt = backlog + unsampled + Tick * steps
  BY DEF ClockInv, TimeConserved, Sample
<1>2. /\ steps' = DueSteps(time) /\ backlog' = time - Tick * DueSteps(time)
      /\ unsampled' = 0 /\ debt' = debt
      /\ phase' = IF steps' = 0 THEN "wait" ELSE "step"
  BY DEF Sample, Remaining
<1>3. time \in Int /\ DueSteps(time) \in Int BY <1>1, DueStepsInt
<1>4. Tick * DueSteps(time) \in Int BY <1>3, TickPositive
<1>5. debt = time BY <1>1, TickPositive
<1>6. debt' = backlog' + unsampled' + Tick * steps' BY <1>2, <1>3, <1>4, <1>5
<1> QED BY <1>1, <1>2, <1>3, <1>4, <1>6 DEF ClockInv, TimeConserved

\* A step uses up its own length and counts itself off.
LEMMA StepKeepsClock == ASSUME ClockInv, Step PROVE ClockInv'
<1>1. /\ backlog \in Int /\ unsampled \in Int /\ debt \in Int /\ steps \in Int
      /\ debt = backlog + unsampled + Tick * steps
  BY DEF ClockInv, TimeConserved
<1>2. /\ steps' = steps - 1 /\ debt' = debt - Tick /\ UNCHANGED <<backlog, unsampled>>
      /\ phase' = IF steps = 1 THEN "wait" ELSE "step"
  BY DEF Step
<1>3. Tick * (steps - 1) = Tick * steps - Tick /\ Tick * steps \in Int BY <1>1, TickPositive
<1> QED BY <1>1, <1>2, <1>3, TickPositive DEF ClockInv, TimeConserved

LEMMA ClockSteps == ClockInv /\ [Next]_vars => ClockInv'
<1> SUFFICES ASSUME ClockInv, [Next]_vars PROVE ClockInv' OBVIOUS
<1>1. ASSUME UNCHANGED clockVars, phase' = phase \/ (phase # "step" /\ phase' # "step")
      PROVE  ClockInv'
  BY <1>1 DEF ClockInv, TimeConserved, clockVars
<1>2. ASSUME NEW next, Read(next), next # "step" PROVE ClockInv'
  BY <1>1, <1>2 DEF Read
<1>3. CASE ReadEvent
  BY <1>2, <1>3 DEF ReadEvent, MoveKeyPressed, KeyRepeated, KeyReleased, CommandKeyPressed,
                    KeyPressedWhileStatic
<1>4. CASE Resize \/ Quit BY <1>2, <1>4 DEF Resize, Quit
<1>5. CASE ReleaseUnreported \/ UNCHANGED vars BY <1>1, <1>5 DEF ReleaseUnreported, vars
<1>6. CASE PollEvent \/ PollTimeout
  BY <1>6, ElapseKeepsClock DEF PollEvent, PollTimeout
<1>7. CASE Sample BY <1>7, SampleKeepsClock
<1>8. CASE Step BY <1>8, StepKeepsClock
<1> QED BY <1>3, <1>4, <1>5, <1>6, <1>7, <1>8 DEF Next, Loop

\* FixedStepClock::advance and the loop around it: the game never runs ahead of the
\* wall clock, and no stall makes it lose a step.
THEOREM TimeAlwaysConserved == Spec => []TimeConserved
<1>1. ClockInv => TimeConserved BY DEF ClockInv
<1> QED BY <1>1, ClockStarts, ClockSteps, PTL DEF Spec
-----------------------------------------------------------------------------
(* Keys. *)

Actions == {"MoveLeft", "MoveRight", "SoftDrop", "Act", "Pause", "Restart"}

KeysInv == pending \in Seq(Actions) /\ KeysOnce

LEMMA AcceptKeepsKeys ==
  ASSUME KeysInv, NEW actions \in Seq(Actions), Accept(actions) PROVE KeysInv'
<1>1. owed = pending /\ pending \in Seq(Actions) BY DEF KeysInv, KeysOnce
<1>2. \/ pending' = pending \o actions /\ owed' = owed \o actions
      \/ UNCHANGED <<pending, owed>>
  BY DEF Accept
<1>3. pending \o actions \in Seq(Actions) BY <1>1
<1>4. owed' = pending' /\ pending' \in Seq(Actions) BY <1>1, <1>2, <1>3
<1> QED BY <1>4 DEF KeysInv, KeysOnce

LEMMA KeysSteps == KeysInv /\ [Next]_vars => KeysInv'
<1> SUFFICES ASSUME KeysInv, [Next]_vars PROVE KeysInv' OBVIOUS
<1>1. ASSUME UNCHANGED <<pending, owed>> PROVE KeysInv' BY <1>1 DEF KeysInv, KeysOnce
<1>2. ASSUME NEW key \in Keys, MoveKeyPressed(key) PROVE KeysInv'
  <2>1. key \in MoveKeys BY TerminalAssumption
  <2>2. ActionOf[key] \in Actions BY <2>1 DEF MoveKeys, Horizontals, ActionOf, Actions
  <2>3. PressActions(handler, key) \in Seq(Actions) BY <2>2 DEF PressActions
  <2> QED BY <1>2, <2>3, AcceptKeepsKeys DEF MoveKeyPressed
<1>3. ASSUME NEW action \in {"Act", "Pause", "Restart"}, CommandKeyPressed(action) PROVE KeysInv'
  <2>1. <<action>> \in Seq(Actions) BY DEF Actions
  <2> QED BY <1>3, <2>1, AcceptKeepsKeys DEF CommandKeyPressed
<1>4. ASSUME NEW key \in Keys \cup {"Act", "Pause", "Restart"}, KeyPressedWhileStatic(key)
      PROVE  KeysInv'
  <2>1. CASE key \in {"Pause", "Restart"}
    <3>1. <<key>> \in Seq(Actions) BY <2>1 DEF Actions
    <3> QED BY <1>4, <2>1, <3>1, AcceptKeepsKeys DEF KeyPressedWhileStatic
  <2>2. CASE key \notin {"Pause", "Restart"} BY <1>1, <1>4, <2>2 DEF KeyPressedWhileStatic
  <2> QED BY <2>1, <2>2
<1>5. CASE ReadEvent
  BY <1>1, <1>2, <1>3, <1>4, <1>5 DEF ReadEvent, KeyRepeated, KeyReleased
<1>6. CASE PollEvent \/ PollTimeout \/ Resize \/ Quit \/ Sample \/ ReleaseUnreported
           \/ UNCHANGED vars
  BY <1>1, <1>6 DEF PollEvent, PollTimeout, Elapse, Resize, Quit, Sample, ReleaseUnreported, vars
<1>7. CASE Step
  <2>1. pending' = Given /\ owed' = SubSeq(owed, Len(LocalActions) + 1, Len(owed))
    BY <1>7 DEF Step
  <2>2. owed = pending /\ pending \in Seq(Actions) BY DEF KeysInv, KeysOnce
  <2>3. CASE first
    <3>1. pending' = <<>> /\ owed' = SubSeq(owed, Len(owed) + 1, Len(owed))
      BY <2>1, <2>2, <2>3 DEF Given, LocalActions
    <3> QED BY <2>2, <3>1 DEF KeysInv, KeysOnce
  <2>4. CASE ~ first
    <3>1. pending' = pending /\ owed' = SubSeq(owed, 1, Len(owed))
      BY <2>1, <2>4 DEF Given, LocalActions
    <3> QED BY <2>2, <3>1 DEF KeysInv, KeysOnce
  <2> QED BY <2>3, <2>4
<1> QED BY <1>5, <1>6, <1>7 DEF Next, Loop

\* pending_local_actions is taken by the first step of a burst and by no other: an
\* accepted key is never given to two steps, and none is forgotten between bursts.
THEOREM KeysAlwaysOnce == Spec => []KeysOnce
<1>1. Init => KeysInv BY DEF Init, KeysInv, KeysOnce
<1>2. KeysInv => KeysOnce BY DEF KeysInv
<1> QED BY <1>1, <1>2, KeysSteps, PTL DEF Spec

-----------------------------------------------------------------------------
(* Ghost keys. *)

HandlerFields ==
  {"horizontal", "down", "lastKey", "das", "arr", "downArr", "sawRepeat", "lastRepeat",
   "repTimeout"}

HandlerOK(h) ==
  /\ DOMAIN h = HandlerFields
  /\ h.lastKey \in Nat /\ h.lastRepeat \in Int /\ h.repTimeout \in Int

\* The handler takes some movement key for held.
Holding(h) == h.horizontal # "None" \/ h.down

\* While the handler takes a key for held that is up, it has been silent for as
\* long as no key has been down.
GhostInv ==
  /\ HandlerOK(handler) /\ upFor \in Nat
  /\ held = {} /\ Holding(handler) => upFor <= handler.lastKey
  /\ NoGhostKeys

LEMMA HandlerNumbers ==
  /\ KeyTimeout \in Nat \ {0} /\ RepMin \in Nat /\ RepMax \in Nat
  /\ Tick \in Nat /\ LongSilent \in Nat /\ LongApart \in Int
<1>1. KeyTimeout \in Nat \ {0} /\ RepMin \in Nat /\ RepMax \in Nat /\ Tick \in Nat
  BY HandlerAssumption
<1>2. (RepMax + 1) \div 2 \in Int
  BY <1>1
<1> QED BY <1>1, <1>2 DEF LongSilent, LongApart

LEMMA NewHandlerOK == HandlerOK(NewHandler) /\ ~ Holding(NewHandler)
  BY HandlerNumbers DEF NewHandler, HandlerOK, HandlerFields, Holding, Never

LEMMA RepeatOK ==
  ASSUME NEW h, HandlerOK(h)
  PROVE  HandlerOK(Repeat(h))
<1> DEFINE t == IF h.lastRepeat = Never THEN h.repTimeout ELSE Clamp(2 * h.lastRepeat)
<1>1. t \in Int
  BY HandlerNumbers DEF HandlerOK, Clamp, Least
<1>2. Repeat(h) = [h EXCEPT !.lastKey = 0, !.sawRepeat = TRUE, !.lastRepeat = 0,
                            !.repTimeout = t]
  BY DEF Repeat, HandlerOK, HandlerFields
<1> HIDE DEF t
<1> QED BY <1>1, <1>2 DEF HandlerOK, HandlerFields

LEMMA PressOK ==
  ASSUME NEW h, HandlerOK(h), NEW key
  PROVE  HandlerOK(Press(h, key))
<1>1. CASE Holds(h, key)
  BY <1>1, RepeatOK DEF Press
<1>2. CASE ~ Holds(h, key)
  BY <1>2 DEF Press, HandlerOK, HandlerFields
<1> QED BY <1>1, <1>2

LEMMA ReleaseOK ==
  ASSUME NEW h, HandlerOK(h), NEW key
  PROVE  HandlerOK(Release(h, key))
  BY DEF Release, FreeDown, FreeHorizontal, HandlerOK, HandlerFields

LEMMA AgedOK ==
  ASSUME NEW h, HandlerOK(h), NEW dt \in Nat
  PROVE  /\ HandlerOK(Aged(h, dt)) /\ (Holding(Aged(h, dt)) => Holding(h))
         /\ Aged(h, dt).lastKey = Least(h.lastKey + dt, LongSilent)
<1> DEFINE key == Least(h.lastKey + dt, LongSilent)
           rep == IF h.lastRepeat = Never THEN Never ELSE Least(h.lastRepeat + dt, LongApart)
<1>1. key \in Nat /\ rep \in Int
  BY HandlerNumbers DEF HandlerOK, Least, Never
<1>2. Aged(h, dt) = [h EXCEPT !.lastKey = key, !.lastRepeat = rep]
  BY DEF Aged
<1> HIDE DEF key, rep
<1>3. HandlerOK(Aged(h, dt)) /\ Aged(h, dt).lastKey = key
  BY <1>1, <1>2 DEF HandlerOK, HandlerFields
<1>4. Holding(Aged(h, dt)) => Holding(h)
  BY <1>2 DEF Holding, HandlerOK, HandlerFields
<1> QED BY <1>3, <1>4 DEF key

\* The head of update: what is silent for too long is let go, the rest keeps its age.
LEMMA AutoReleasedOK ==
  ASSUME NEW h, HandlerOK(h)
  PROVE  LET r == AutoReleased(h) IN
         /\ HandlerOK(r) /\ r.lastKey = h.lastKey
         /\ Holding(r) => Holding(h) /\ h.lastKey <= KeyTimeout
<1> DEFINE free == FreeDown(FreeHorizontal(h))
<1>1. ReleaseTimeout(h) \in Int /\ ReleaseTimeout(h) <= KeyTimeout
  BY HandlerNumbers DEF ReleaseTimeout, Least, HandlerOK
<1>2. CASE h.lastKey > ReleaseTimeout(h)
  <2>1. HandlerOK(free) /\ free.lastKey = h.lastKey /\ ~ Holding(free)
    BY DEF FreeDown, FreeHorizontal, HandlerOK, HandlerFields, Holding
  <2> QED BY <1>2, <2>1 DEF AutoReleased
<1>3. CASE ~ (h.lastKey > ReleaseTimeout(h))
  <2>1. AutoReleased(h) = h
    BY <1>3 DEF AutoReleased
  <2>2. h.lastKey <= KeyTimeout
    BY <1>1, <1>3, HandlerNumbers DEF HandlerOK
  <2> QED BY <2>1, <2>2
<1> QED BY <1>2, <1>3

LEMMA ChargedOK ==
  ASSUME NEW h, HandlerOK(h)
  PROVE  LET r == Charged(h) IN
         HandlerOK(r) /\ r.lastKey = h.lastKey /\ (Holding(r) => Holding(h))
<1> DEFINE das  == IF h.horizontal = "None" THEN 0 ELSE Least(h.das + Tick, Das)
           arr  == IF h.horizontal = "None" THEN 0
                   ELSE IF h.das + Tick < Das THEN h.arr ELSE (h.arr + Excess(h)) % Arr
           down == IF h.down THEN (h.downArr + Tick) % SoftArr ELSE 0
<1>1. Charged(h) = [h EXCEPT !.das = das, !.arr = arr, !.downArr = down]
  BY DEF Charged
<1> HIDE DEF das, arr, down
<1> QED BY <1>1 DEF HandlerOK, HandlerFields, Holding

\* A handler that holds nothing generates nothing.
LEMMA NothingGenerated ==
  ASSUME NEW h, ~ Holding(h)
  PROVE  Generated(h) = <<>>
  BY DEF Generated, Holding, DueDown

LEMMA StepKeepsGhost == ASSUME GhostInv, Step PROVE GhostInv'
<1> DEFINE r == AutoReleased(handler)
<1>1. /\ HandlerOK(r) /\ r.lastKey = handler.lastKey
      /\ Holding(r) => Holding(handler) /\ handler.lastKey <= KeyTimeout
  BY AutoReleasedOK DEF GhostInv
<1>2. handler' = Charged(r) /\ repeats' = Generated(r) /\ UNCHANGED <<held, upFor>>
  BY DEF Step, Update, UpdateActions, fingers
<1> HIDE DEF r
<1>3. HandlerOK(handler') /\ handler'.lastKey = r.lastKey /\ (Holding(handler') => Holding(r))
  BY <1>1, <1>2, ChargedOK
<1>4. repeats' # <<>> => Holding(r)
  BY <1>2, NothingGenerated
<1> QED BY <1>1, <1>2, <1>3, <1>4, HandlerNumbers DEF GhostInv, NoGhostKeys, HandlerOK

LEMMA ElapseKeepsGhost ==
  ASSUME GhostInv, NEW dt \in Delays, Elapse(dt)
  PROVE  GhostInv'
<1>1. dt \in Nat
  BY TerminalAssumption
<1>2. /\ handler' = Aged(handler, dt) /\ repeats' = <<>> /\ held' = held
      /\ upFor' = IF held = {} THEN Least(upFor + dt, LongSilent) ELSE 0
  BY DEF Elapse
<1>3. /\ HandlerOK(handler') /\ (Holding(handler') => Holding(handler))
      /\ handler'.lastKey = Least(handler.lastKey + dt, LongSilent)
  BY <1>1, <1>2, AgedOK DEF GhostInv
<1> QED BY <1>1, <1>2, <1>3, HandlerNumbers DEF GhostInv, NoGhostKeys, Least, HandlerOK

\* An event: a handler the player's fingers justify.
LEMMA FingersKeepGhost ==
  ASSUME GhostInv, NEW keys, Fingers(keys), repeats' = repeats, HandlerOK(handler'),
         \/ handler' = handler
         \/ ~ Holding(handler')
         \/ keys # {}
         \/ held # {}
  PROVE  GhostInv'
  BY HandlerNumbers DEF GhostInv, NoGhostKeys, Fingers, HandlerOK

LEMMA SameFingers == UNCHANGED fingers => Fingers(held)
  BY DEF fingers, Fingers

LEMMA GhostSteps == GhostInv /\ [Next]_vars => GhostInv'
<1> SUFFICES ASSUME GhostInv, [Next]_vars PROVE GhostInv' OBVIOUS
<1>0. HandlerOK(handler) BY DEF GhostInv
<1>1. ASSUME NEW key \in Keys, MoveKeyPressed(key) PROVE GhostInv'
  <2>1. HandlerOK(handler') BY <1>0, <1>1, PressOK DEF MoveKeyPressed
  <2>2. Fingers(held \cup {key}) /\ repeats' = repeats BY <1>1 DEF MoveKeyPressed, Read
  <2> QED BY <2>1, <2>2, FingersKeepGhost
<1>2. ASSUME NEW action, CommandKeyPressed(action) PROVE GhostInv'
  <2>1. HandlerOK(handler') /\ (handler' = handler \/ ~ Holding(handler'))
    BY <1>0, <1>2, NewHandlerOK DEF CommandKeyPressed
  <2>2. Fingers(held) /\ repeats' = repeats BY <1>2, SameFingers DEF CommandKeyPressed, Read
  <2> QED BY <2>1, <2>2, FingersKeepGhost
<1>3. ASSUME NEW key, KeyPressedWhileStatic(key) PROVE GhostInv'
  <2>1. HandlerOK(handler') /\ ~ Holding(handler')
    BY <1>3, NewHandlerOK DEF KeyPressedWhileStatic
  <2>2. PICK keys : Fingers(keys) /\ repeats' = repeats
    BY <1>3 DEF KeyPressedWhileStatic, Read
  <2> QED BY <2>1, <2>2, FingersKeepGhost
<1>4. ASSUME NEW key \in Keys, KeyRepeated(key) PROVE GhostInv'
  <2>1. HandlerOK(handler') BY <1>0, <1>4, RepeatOK DEF KeyRepeated
  <2>2. Fingers(held) /\ held # {} /\ repeats' = repeats
    BY <1>4, SameFingers DEF KeyRepeated, Read
  <2> QED BY <2>1, <2>2, FingersKeepGhost
<1>5. ASSUME NEW key \in Keys, KeyReleased(key) PROVE GhostInv'
  <2>1. HandlerOK(handler') BY <1>0, <1>5, ReleaseOK DEF KeyReleased
  <2>2. Fingers(held \ {key}) /\ held # {} /\ repeats' = repeats BY <1>5 DEF KeyReleased, Read
  <2> QED BY <2>1, <2>2, FingersKeepGhost
<1>6. CASE ReadEvent BY <1>1, <1>2, <1>3, <1>4, <1>5, <1>6 DEF ReadEvent
<1>7. CASE Resize \/ Quit \/ Sample \/ UNCHANGED vars
  <2>1. handler' = handler /\ repeats' = repeats /\ Fingers(held)
    BY <1>7, SameFingers DEF Resize, Quit, Sample, Read, vars, fingers
  <2> QED BY <1>0, <2>1, FingersKeepGhost
<1>8. CASE ReleaseUnreported
  BY <1>0, <1>8, FingersKeepGhost DEF ReleaseUnreported
<1>9. CASE PollEvent \/ PollTimeout
  BY <1>9, ElapseKeepsGhost DEF PollEvent, PollTimeout
<1>10. CASE Step BY <1>10, StepKeepsGhost
<1> QED BY <1>6, <1>7, <1>8, <1>9, <1>10 DEF Next, Loop

\* Whatever the terminal reports and whatever pauses hid it, the repeats of a key
\* that is up stop within the timeout.
THEOREM NeverGhostKeys == Spec => []NoGhostKeys
<1>1. Init => GhostInv
  BY NewHandlerOK DEF Init, GhostInv, NoGhostKeys
<1>2. GhostInv => NoGhostKeys BY DEF GhostInv
<1> QED BY <1>1, <1>2, GhostSteps, PTL DEF Spec
=============================================================================
