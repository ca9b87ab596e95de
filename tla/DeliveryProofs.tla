--------------------------- MODULE DeliveryProofs ---------------------------
(***************************************************************************)
(* For any number of clients, any tick and any frequency: no event reaches *)
(* a client twice, and the periodic observations keep their cadence.       *)
(*                                                                         *)
(* Both rest on the schedule: between two steps of the game thread no      *)
(* event is pending and the last version sent at once is the game's, since *)
(* a change or an event makes an observation due in the very tick that     *)
(* brings it.  What is under way is a set of observations with distinct    *)
(* numbers and disjoint events, none above the schedule's number or the    *)
(* game's count; a step drops some of them or adds the next one.           *)
(***************************************************************************)
EXTENDS Delivery, TLAPS

\* The step of a frequency, below a whole period.
LEMMA StepSmall == TickMs \in Nat /\ Hz \in Nat /\ TickMs * Hz \in Nat /\ TickMs * Hz < 1000
BY DeliveryAssumption

Games  == [step : Nat, version : Nat, events : Nat]
Scheds == [acc : 0..999, seq : Nat, last : Nat, pending : Seq(Nat)]

\* Nothing is pending between two steps, and no change is unseen.
Settled == sched.pending = <<>> /\ sched.last = game.version

ScheduleInv == game \in Games /\ sched \in Scheds /\ Settled

\* The events of an observation.
Events(o) == ToSet(o.events)

\* Observations with numbers up to n and events up to e, none of them twice.
Distinct(S, n, e) ==
  /\ \A o \in S : o.seq \in Nat /\ o.seq <= n /\ \A x \in Events(o) : x \in Nat /\ x <= e
  /\ \A o1, o2 \in S : /\ o1.seq = o2.seq => o1 = o2
                       /\ o1 # o2 => Events(o1) \cap Events(o2) = {}

\* An empty slot counts: it holds NoObs, number 0.
UnderWay == InFlight \cup {NoObs}

EventInv ==
  /\ ScheduleInv
  /\ DOMAIN slot = Clients /\ DOMAIN got = Clients
  /\ Distinct(UnderWay, sched.seq, game.events)

CadenceInv ==
  /\ ScheduleInv
  /\ since \in [ticks : Nat, sent : Nat]
  /\ since.ticks * (TickMs * Hz) = 1000 * since.sent + sched.acc
-----------------------------------------------------------------------------
(* The schedule. *)

LEMMA ScheduleParts ==
  ASSUME NEW s \in Scheds
  PROVE  /\ s.acc \in Nat /\ s.acc < 1000 /\ s.seq \in Nat /\ s.last \in Nat /\ s.pending \in Seq(Nat)
         /\ s = [acc |-> s.acc, seq |-> s.seq, last |-> s.last, pending |-> s.pending]
<1>1. \A n \in 0..999 : n \in Nat /\ n < 1000 OBVIOUS
<1>2. s.acc \in Nat /\ s.acc < 1000
  <2>1. s.acc \in 0..999 BY DEF Scheds
  <2> QED BY <1>1, <2>1
<1>3. s.seq \in Nat /\ s.last \in Nat /\ s.pending \in Seq(Nat) BY DEF Scheds
<1>4. s = [acc |-> s.acc, seq |-> s.seq, last |-> s.last, pending |-> s.pending] BY DEF Scheds
<1> QED BY <1>2, <1>3, <1>4

LEMMA ScheduleMade ==
  ASSUME NEW a \in Nat, a < 1000, NEW q \in Nat, NEW v \in Nat, NEW p \in Seq(Nat)
  PROVE  [acc |-> a, seq |-> q, last |-> v, pending |-> p] \in Scheds
<1>1. a \in 0..999 OBVIOUS
<1> QED BY <1>1 DEF Scheds

\* after_tick, and taking an observation, by the parts of the schedule.
LEMMA AfterTickParts ==
  ASSUME NEW s \in Scheds, NEW g, g.version \in Nat, NEW t, t = AfterTick(s, g)
  PROVE  /\ t \in Scheds /\ t.seq = s.seq /\ t.last = g.version /\ t.pending = s.pending
         /\ Critical(s, g) => t.acc = 0
         /\ ~ Critical(s, g) => t.acc = IF s.acc + TickMs * Hz >= 1000 THEN s.acc + TickMs * Hz - 1000
                                        ELSE s.acc + TickMs * Hz
<1>1. /\ s = [acc |-> s.acc, seq |-> s.seq, last |-> s.last, pending |-> s.pending]
      /\ s.acc \in Nat /\ s.acc < 1000 /\ s.seq \in Nat /\ s.pending \in Seq(Nat)
  BY ScheduleParts
<1>2. TickMs * Hz \in Nat /\ TickMs * Hz < 1000 BY StepSmall
<1>3. /\ Critical(s, g) => t.acc = 0
      /\ ~ Critical(s, g) /\ s.acc + TickMs * Hz >= 1000 => t.acc = s.acc + TickMs * Hz - 1000
      /\ ~ Critical(s, g) /\ ~ s.acc + TickMs * Hz >= 1000 => t.acc = s.acc + TickMs * Hz
  BY <1>1, <1>2 DEF AfterTick
<1>4. t.acc \in Nat /\ t.acc < 1000
  <2> DEFINE k == TickMs * Hz
  <2>1. k \in Nat /\ k < 1000 BY <1>2
  <2>2. t.acc \in {0, s.acc + k - 1000, s.acc + k}
        /\ (t.acc = s.acc + k => ~ s.acc + k >= 1000) /\ (t.acc = s.acc + k - 1000 => s.acc + k >= 1000 \/ t.acc = 0)
    BY <1>1, <1>2, <1>3
  <2> HIDE DEF k
  <2> QED BY <1>1, <2>1, <2>2
<1>5. t = [acc |-> t.acc, seq |-> s.seq, last |-> g.version, pending |-> s.pending]
  BY <1>1 DEF AfterTick
<1>6. t \in Scheds /\ t.seq = s.seq /\ t.last = g.version /\ t.pending = s.pending
  BY <1>1, <1>4, <1>5, ScheduleMade
<1> QED BY <1>3, <1>6

LEMMA ImmediateParts ==
  ASSUME NEW s \in Scheds, NEW t, t = Immediate(s)
  PROVE  /\ t \in Scheds /\ t.seq = s.seq + 1 /\ t.last = s.last /\ t.acc = s.acc
         /\ t.pending = <<>>
<1>1. /\ s = [acc |-> s.acc, seq |-> s.seq, last |-> s.last, pending |-> s.pending]
      /\ s.acc \in Nat /\ s.acc < 1000 /\ s.seq + 1 \in Nat /\ s.last \in Nat
  BY ScheduleParts
<1>2. t = [acc |-> s.acc, seq |-> s.seq + 1, last |-> s.last, pending |-> <<>>]
  BY <1>1 DEF Immediate
<1>3. ASSUME NEW p \in Seq(Nat), t = [acc |-> s.acc, seq |-> s.seq + 1, last |-> s.last, pending |-> p]
      PROVE  t \in Scheds
  BY <1>1, <1>3, ScheduleMade
<1>4. t \in Scheds
  <2>1. <<>> \in Seq(Nat) OBVIOUS
  <2> QED BY <1>2, <1>3, <2>1
<1> QED BY <1>2, <1>4

\* What a tick makes of game and schedule: the next step of the game with at most one
\* change and one event, seen and handed out at once; the clock runs on if nothing
\* changed, and starts again if something did.
LEMMA TickEffect ==
  ASSUME ScheduleInv, Tick
  PROVE  /\ ScheduleInv'
         /\ game'.events \in {game.events, game.events + 1}
         /\ Critical(sched, game') => sched'.acc = 0 /\ sched'.seq = sched.seq + 1
         /\ ~ Critical(sched, game') =>
              /\ sched'.acc = IF Due(sched, game') THEN sched.acc + TickMs * Hz - 1000
                              ELSE sched.acc + TickMs * Hz
              /\ sched'.seq = IF Due(sched, game') THEN sched.seq + 1 ELSE sched.seq
         /\ \/ latest' = latest /\ sched'.seq \in {sched.seq, sched.seq + 1}
            \/ /\ latest'.seq = sched.seq + 1 /\ sched'.seq = sched.seq + 1
               /\ \/ latest'.events = <<>>
                  \/ latest'.events = <<game'.events>> /\ game'.events = game.events + 1
<1>1. /\ game \in Games /\ sched \in Scheds /\ sched.pending = <<>> /\ sched.last = game.version
      /\ game.step \in Nat /\ game.version \in Nat /\ game.events \in Nat
      /\ sched.acc \in 0..999 /\ sched.seq \in Nat
  BY DEF ScheduleInv, Settled, Games, Scheds
<1>2. TickMs * Hz \in Nat /\ TickMs * Hz < 1000 BY StepSmall
<1> DEFINE s == IF game'.events = game.events THEN sched ELSE Capture(sched, game'.events)
<1>3. game' \in Stepped(game) /\ Broadcast(s, game') BY DEF Tick
<1>4. /\ game' \in Games
      /\ \/ game'.version = game.version /\ game'.events = game.events
         \/ game'.version = game.version + 1 /\ game'.events \in {game.events, game.events + 1}
  <2>1. \/ game' = [game EXCEPT !.step = game.step + 1]
        \/ game' = [game EXCEPT !.step = game.step + 1, !.version = game.version + 1]
        \/ game' = [game EXCEPT !.step = game.step + 1, !.version = game.version + 1,
                                !.events = game.events + 1]
    BY <1>3 DEF Stepped
  <2>2. game = [step |-> game.step, version |-> game.version, events |-> game.events]
    BY <1>1 DEF Games
  <2>3. ASSUME NEW v \in Nat, NEW e \in Nat, game' = [step |-> game.step + 1, version |-> v, events |-> e]
        PROVE  game' \in Games /\ game'.version = v /\ game'.events = e
    BY <1>1, <2>3 DEF Games
  <2>4. CASE game' = [game EXCEPT !.step = game.step + 1]
    <3>1. game' = [step |-> game.step + 1, version |-> game.version, events |-> game.events]
      BY <2>2, <2>4
    <3> QED BY <1>1, <2>3, <3>1
  <2>5. CASE game' = [game EXCEPT !.step = game.step + 1, !.version = game.version + 1]
    <3>1. game' = [step |-> game.step + 1, version |-> game.version + 1, events |-> game.events]
      BY <2>2, <2>5
    <3> QED BY <1>1, <2>3, <3>1
  <2>6. CASE game' = [game EXCEPT !.step = game.step + 1, !.version = game.version + 1,
                                  !.events = game.events + 1]
    <3>1. game' = [step |-> game.step + 1, version |-> game.version + 1, events |-> game.events + 1]
      BY <2>2, <2>6
    <3> QED BY <1>1, <2>3, <3>1
  <2> QED BY <2>1, <2>4, <2>5, <2>6
<1>5. /\ s \in Scheds /\ s.last = sched.last /\ s.acc = sched.acc /\ s.seq = sched.seq
      /\ \/ s.pending = <<>> /\ game'.events = game.events
         \/ /\ s.pending = <<game'.events>> /\ game'.events = game.events + 1
            /\ game'.version = game.version + 1
  <2>1. CASE game'.events = game.events BY <1>1, <2>1
  <2>2. CASE game'.events # game.events
    <3>1. Len(sched.pending) # MaxEvents BY <1>1, DeliveryAssumption
    <3>2. s = [sched EXCEPT !.pending = Append(sched.pending, game'.events)]
      BY <2>2, <3>1 DEF Capture
    <3>3. Append(sched.pending, game'.events) = <<game'.events>> BY <1>1
    <3>4. <<game'.events>> \in Seq(Nat) BY <1>1, <1>4
    <3>5. s = [acc |-> sched.acc, seq |-> sched.seq, last |-> sched.last, pending |-> <<game'.events>>]
      <4>1. sched = [acc |-> sched.acc, seq |-> sched.seq, last |-> sched.last, pending |-> sched.pending]
        BY <1>1, ScheduleParts
      <4> HIDE DEF s
      <4> QED BY <3>2, <3>3, <4>1
    <3> HIDE DEF s
    <3>6. /\ s \in Scheds /\ s.last = sched.last /\ s.acc = sched.acc /\ s.seq = sched.seq
          /\ s.pending = <<game'.events>>
      BY <1>1, <3>4, <3>5, ScheduleParts, ScheduleMade
    <3> QED BY <1>4, <2>2, <3>6
  <2> QED BY <2>1, <2>2
<1> HIDE DEF s
<1>6. Critical(s, game') <=> Critical(sched, game')
  BY <1>1, <1>4, <1>5 DEF Critical
<1>7. Due(s, game') <=> Due(sched, game') BY <1>5, <1>6 DEF Due
<1> DEFINE a == AfterTick(s, game')
<1>8. /\ a \in Scheds /\ a.seq = sched.seq /\ a.last = game'.version /\ a.pending = s.pending
      /\ Critical(sched, game') => a.acc = 0
      /\ ~ Critical(sched, game') =>
           a.acc = IF sched.acc + TickMs * Hz >= 1000 THEN sched.acc + TickMs * Hz - 1000
                   ELSE sched.acc + TickMs * Hz
  <2>1. game'.version \in Nat BY <1>4 DEF Games
  <2> QED BY <1>5, <1>6, <2>1, AfterTickParts
<1>9. sched' = IF Due(sched, game') THEN Immediate(a) ELSE a BY <1>3, <1>7 DEF Broadcast
<1> HIDE DEF a
<1>10. a.pending = <<>> \/ Due(sched, game') BY <1>5, <1>7, <1>8 DEF Due, Critical
<1>11. /\ sched'.acc = a.acc /\ sched'.last = game'.version /\ sched'.pending = <<>>
       /\ sched'.seq = IF Due(sched, game') THEN sched.seq + 1 ELSE sched.seq
       /\ sched' \in Scheds
  <2>1. CASE Due(sched, game')
    <3>1. sched' = Immediate(a) BY <1>9, <2>1
    <3> QED BY <1>8, <2>1, <3>1, ImmediateParts
  <2>2. CASE ~ Due(sched, game') BY <1>8, <1>9, <1>10, <2>2
  <2> QED BY <2>1, <2>2
<1>12. ScheduleInv' BY <1>4, <1>11 DEF ScheduleInv, Settled
<1>13. latest' = latest \/ (latest' = Observation(game', s) /\ Due(sched, game'))
  BY <1>3, <1>7 DEF Broadcast
<1>14. latest' = Observation(game', s) =>
         /\ latest'.seq = sched.seq + 1
         /\ \/ latest'.events = <<>>
            \/ latest'.events = <<game'.events>> /\ game'.events = game.events + 1
  BY <1>5 DEF Observation
<1>15. Critical(sched, game') => Due(sched, game') BY DEF Due
<1>16. ~ Critical(sched, game') => (Due(sched, game') <=> sched.acc + TickMs * Hz >= 1000) BY DEF Due
<1>17. sched'.seq \in {sched.seq, sched.seq + 1} BY <1>11
<1>18. game'.events \in {game.events, game.events + 1} BY <1>4
<1> QED BY <1>8, <1>11, <1>12, <1>13, <1>14, <1>15, <1>16, <1>17, <1>18
-----------------------------------------------------------------------------
(* The steps that leave the schedule and the game alone, or only hand out. *)

\* A snapshot takes the next number and no event.
LEMMA ServeEffect ==
  ASSUME ScheduleInv, ServeSnapshot
  PROVE  /\ ScheduleInv' /\ game' = game
         /\ sched'.seq = sched.seq + 1 /\ sched'.acc = sched.acc
         /\ Observation(game, sched).seq = sched.seq + 1
         /\ Observation(game, sched).events = <<>>
<1>1. sched' = Immediate(sched) /\ game' = game BY DEF ServeSnapshot
<1>2. game \in Games /\ sched \in Scheds /\ sched.pending = <<>> /\ sched.last = game.version
  BY DEF ScheduleInv, Settled
<1>3. /\ sched' \in Scheds /\ sched'.seq = sched.seq + 1 /\ sched'.last = sched.last
      /\ sched'.acc = sched.acc /\ sched'.pending = <<>>
  BY <1>1, <1>2, ImmediateParts
<1>4. Observation(game, sched).seq = sched.seq + 1 /\ Observation(game, sched).events = <<>>
  BY <1>2 DEF Observation
<1> QED BY <1>1, <1>2, <1>3, <1>4 DEF ScheduleInv, Settled

\* All other steps.
Elsewhere ==
  \/ PollStatus \/ EndServe \/ Dispatcher \/ OthersChange
  \/ \E c \in Clients : ClientTask(c) \/ StopWriter(c) \/ Write(c)

LEMMA ElsewhereEffect == Elsewhere \/ UNCHANGED vars => UNCHANGED <<game, sched, since>>
BY DEF Elsewhere, PollStatus, EndServe, Dispatcher, TakeLatest, LockRegistry, PublishNext,
       OthersChange, ClientTask, Subscribe, RequestSnapshot, EmitStatus, Leave, StopWriter, Write,
       vars, gameVars

LEMMA StepKinds == [Next]_vars => Tick \/ ServeSnapshot \/ Elsewhere \/ UNCHANGED vars
BY DEF Next, GameThread, Elsewhere

LEMMA ScheduleStart == Init => ScheduleInv
<1> SUFFICES ASSUME Init PROVE ScheduleInv OBVIOUS
<1>1. game = [step |-> 0, version |-> 0, events |-> 0]
      /\ sched = [acc |-> 0, seq |-> 0, last |-> 0, pending |-> <<>>]
  BY DEF Init
<1>2. game \in Games BY <1>1 DEF Games
<1>3. ASSUME NEW p \in Seq(Nat), sched = [acc |-> 0, seq |-> 0, last |-> 0, pending |-> p]
      PROVE  sched \in Scheds
  <2>1. 0 \in Nat /\ 0 < 1000 OBVIOUS
  <2>2. [acc |-> 0, seq |-> 0, last |-> 0, pending |-> p] \in Scheds BY <2>1, ScheduleMade
  <2> QED BY <1>3, <2>2
<1>4. sched \in Scheds
  <2>1. <<>> \in Seq(Nat) OBVIOUS
  <2> QED BY <1>1, <1>3, <2>1
<1> QED BY <1>1, <1>2, <1>4 DEF ScheduleInv, Settled
-----------------------------------------------------------------------------
(* The cadence. *)

LEMMA CadenceStart == Init => CadenceInv
<1> SUFFICES ASSUME Init PROVE CadenceInv OBVIOUS
<1>1. ScheduleInv BY ScheduleStart
<1>2. since = [ticks |-> 0, sent |-> 0] /\ sched.acc = 0 BY DEF Init
<1>3. 0 * (TickMs * Hz) = 0 BY StepSmall
<1> QED BY <1>1, <1>2, <1>3 DEF CadenceInv

\* One tick more adds its step to what was sent and what remains.
LEMMA OneMore ==
  ASSUME NEW t \in Nat, NEW k \in Nat
  PROVE  (t + 1) * k = t * k + k /\ t * k \in Nat /\ 0 * k = 0
OBVIOUS

LEMMA CadenceStep == CadenceInv /\ [Next]_vars => CadenceInv'
<1> SUFFICES ASSUME CadenceInv, [Next]_vars PROVE CadenceInv' OBVIOUS
<1>1. ScheduleInv /\ since \in [ticks : Nat, sent : Nat] /\ sched \in Scheds
  BY DEF CadenceInv, ScheduleInv
<1>2. CASE Tick
  <2>1. ScheduleInv' BY <1>1, <1>2, TickEffect
  <2>2. CASE Critical(sched, game')
    <3>1. since' = [ticks |-> 0, sent |-> 0] /\ sched'.acc = 0
      BY <1>1, <1>2, <2>2, TickEffect DEF Tick
    <3> QED BY <2>1, <3>1, StepSmall, OneMore DEF CadenceInv
  <2>3. CASE ~ Critical(sched, game')
    <3> DEFINE k == TickMs * Hz
               t == since.ticks
               p == since.ticks * k
    <3>1. /\ since' = [ticks |-> t + 1, sent |-> since.sent + IF Due(sched, game') THEN 1 ELSE 0]
          /\ sched'.acc = IF Due(sched, game') THEN sched.acc + k - 1000 ELSE sched.acc + k
      BY <1>1, <1>2, <2>3, TickEffect DEF Tick
    <3>2. p = 1000 * since.sent + sched.acc /\ t \in Nat /\ since.sent \in Nat /\ sched.acc \in Nat
      BY <1>1, ScheduleParts DEF CadenceInv
    <3>3. k \in Nat BY StepSmall
    <3>4. (t + 1) * k = p + k /\ p \in Nat BY <3>2, <3>3, OneMore
    <3>5. since'.ticks * k = p + k BY <3>1, <3>4
    <3>6. since'.ticks * k = 1000 * since'.sent + sched'.acc /\ since' \in [ticks : Nat, sent : Nat]
      <4> HIDE DEF k, p, t
      <4>1. CASE Due(sched, game')
        <5>1. since' = [ticks |-> t + 1, sent |-> since.sent + 1] BY <3>1, <4>1
        <5>2. sched'.acc = sched.acc + k - 1000 BY <3>1, <4>1
        <5>3. since' \in [ticks : Nat, sent : Nat] BY <3>2, <5>1
        <5>4. since'.sent = since.sent + 1 BY <5>1
        <5>5. 1000 * (since.sent + 1) + (sched.acc + k - 1000) = 1000 * since.sent + sched.acc + k
          BY <3>2, <3>3
        <5> QED BY <3>2, <3>5, <5>2, <5>3, <5>4, <5>5
      <4>2. CASE ~ Due(sched, game')
        <5>1. since' = [ticks |-> t + 1, sent |-> since.sent + 0] BY <3>1, <4>2
        <5>2. sched'.acc = sched.acc + k BY <3>1, <4>2
        <5> QED BY <3>2, <3>3, <3>4, <3>5, <5>1, <5>2
      <4> QED BY <4>1, <4>2
    <3> QED BY <2>1, <3>6 DEF CadenceInv
  <2> QED BY <2>2, <2>3
<1>3. CASE ServeSnapshot
  <2>1. ScheduleInv' /\ sched'.acc = sched.acc /\ since' = since
    BY <1>1, <1>3, ServeEffect DEF ServeSnapshot
  <2> QED BY <1>1, <2>1 DEF CadenceInv
<1>4. CASE Elsewhere \/ UNCHANGED vars
  BY <1>1, <1>4, ElsewhereEffect DEF CadenceInv, ScheduleInv, Settled
<1> QED BY <1>2, <1>3, <1>4, StepKinds

\* The cadence neither stalls nor drifts: between two changes of the game exactly as many
\* periodic observations are due as whole periods of ticks have passed, however the
\* period and the tick divide, and whatever snapshots were taken in between (after_tick).
THEOREM CadenceAlwaysExact == Spec => []CadenceExact
<1>1. ASSUME CadenceInv PROVE CadenceExact
  <2>1. /\ since.ticks \in Nat /\ since.sent \in Nat /\ sched.acc \in Nat /\ sched.acc < 1000
        /\ since.ticks * (TickMs * Hz) = 1000 * since.sent + sched.acc
    BY <1>1, ScheduleParts DEF CadenceInv, ScheduleInv
  <2>2. since.ticks * TickMs * Hz = since.ticks * (TickMs * Hz) BY <2>1, StepSmall
  <2>3. ASSUME NEW n \in Nat, n = 1000 * since.sent + sched.acc PROVE n \div 1000 = since.sent
    BY <2>1, <2>3
  <2>4. 1000 * since.sent + sched.acc \in Nat BY <2>1
  <2> QED BY <2>1, <2>2, <2>3, <2>4 DEF CadenceExact
<1> QED BY <1>1, CadenceStart, CadenceStep, PTL DEF Spec
-----------------------------------------------------------------------------
(* Observations. *)

\* Fewer observations are as distinct, under bounds as high.
LEMMA FewerDistinct ==
  ASSUME NEW S, NEW T, S \subseteq T, NEW n \in Nat, NEW e \in Nat, Distinct(T, n, e),
         NEW m \in Nat, m >= n, NEW d \in Nat, d >= e
  PROVE  Distinct(S, m, d)
<1>1. ASSUME NEW o \in S
      PROVE  o.seq \in Nat /\ o.seq <= m /\ \A x \in Events(o) : x \in Nat /\ x <= d
  <2>1. o.seq \in Nat /\ o.seq <= n /\ \A x \in Events(o) : x \in Nat /\ x <= e BY DEF Distinct
  <2> QED BY <2>1
<1> QED BY <1>1 DEF Distinct

\* The next number and the next event are new.
LEMMA OneMoreDistinct ==
  ASSUME NEW S, NEW n \in Nat, NEW e \in Nat, Distinct(S, n, e),
         NEW q \in Nat, q > n, NEW d \in Nat, d >= e,
         NEW o, o.seq = q, Events(o) = {} \/ (Events(o) = {d} /\ d > e)
  PROVE  Distinct(S \cup {o}, q, d)
<1>1. ASSUME NEW p \in S
      PROVE  /\ p.seq \in Nat /\ p.seq < o.seq /\ p.seq <= q
             /\ \A x \in Events(p) : x \in Nat /\ x <= e /\ x <= d
  <2>1. p.seq \in Nat /\ p.seq <= n /\ \A x \in Events(p) : x \in Nat /\ x <= e BY DEF Distinct
  <2> QED BY <2>1
<1>2. ASSUME NEW p \in S PROVE Events(p) \cap Events(o) = {} /\ p.seq # o.seq
  BY <1>1
<1>3. o.seq \in Nat /\ o.seq <= q /\ \A x \in Events(o) : x \in Nat /\ x <= d OBVIOUS
<1>4. \A p \in S \cup {o} :
        p.seq \in Nat /\ p.seq <= q /\ \A x \in Events(p) : x \in Nat /\ x <= d
  BY <1>1, <1>3
<1>5. ASSUME NEW o1 \in S \cup {o}, NEW o2 \in S \cup {o}
      PROVE  (o1.seq = o2.seq => o1 = o2) /\ (o1 # o2 => Events(o1) \cap Events(o2) = {})
  <2>1. CASE o1 \in S /\ o2 \in S BY <2>1 DEF Distinct
  <2>2. CASE o1 = o /\ o2 = o BY <2>2
  <2>3. CASE o1 \in S /\ o2 = o BY <1>2, <2>3
  <2>4. CASE o1 = o /\ o2 \in S BY <1>2, <2>4
  <2> QED BY <2>1, <2>2, <2>3, <2>4
<1> QED BY <1>4, <1>5 DEF Distinct

LEMMA SlotsKept ==
  ASSUME DOMAIN slot = Clients, NEW c, NEW obs, Publish(c, obs)
  PROVE  DOMAIN slot' = Clients /\ \A d \in Clients : slot'[d] \in {slot[d], obs}
BY DEF Publish

\* Who holds what: no step but a tick and a snapshot brings in a new observation.
LEMMA NothingNew ==
  ASSUME EventInv, Elsewhere \/ UNCHANGED vars
  PROVE  /\ DOMAIN slot' = Clients /\ DOMAIN got' = Clients
         /\ UnderWay' \subseteq UnderWay
<1>1. DOMAIN slot = Clients /\ DOMAIN got = Clients BY DEF EventInv
<1>2. SUFFICES /\ DOMAIN slot' = Clients /\ DOMAIN got' = Clients
               /\ latest' \in UnderWay /\ carried'.obs \in UnderWay
               /\ \A c \in Clients : slot'[c] \in UnderWay /\ got'[c] \in UnderWay
  BY DEF UnderWay, InFlight
<1>3. /\ latest \in UnderWay /\ carried.obs \in UnderWay /\ NoObs \in UnderWay
      /\ \A c \in Clients : slot[c] \in UnderWay /\ got[c] \in UnderWay
  BY DEF UnderWay, InFlight
<1> HIDE DEF UnderWay
<1>4. CASE UNCHANGED <<latest, carried, slot, got>> BY <1>1, <1>3, <1>4
<1>5. CASE TakeLatest
  <2>1. /\ carried' = [Idle EXCEPT !.obs = latest] /\ latest' = NoObs /\ UNCHANGED <<slot, got>>
    BY <1>5 DEF TakeLatest
  <2>2. carried'.obs = latest BY <2>1 DEF Idle
  <2> QED BY <1>1, <1>3, <2>1, <2>2
<1>6. CASE LockRegistry
  <2>1. carried' = [carried EXCEPT !.todo = Streaming, !.locked = TRUE] /\ UNCHANGED <<latest, slot, got>>
    BY <1>6 DEF LockRegistry
  <2>2. carried'.obs = carried.obs BY <2>1
  <2> QED BY <1>1, <1>3, <2>1, <2>2
<1>7. CASE PublishNext
  <2>1. UNCHANGED <<latest, got>> BY <1>7 DEF PublishNext
  <2>2. CASE carried' = Idle /\ UNCHANGED slot
    <3>1. carried'.obs = NoObs BY <2>2 DEF Idle
    <3> QED BY <1>1, <1>3, <2>1, <2>2, <3>1
  <2>3. ASSUME NEW c, Publish(c, carried.obs), carried' = [carried EXCEPT !.todo = @ \ {c}]
        PROVE  /\ DOMAIN slot' = Clients /\ DOMAIN got' = Clients
               /\ latest' \in UnderWay /\ carried'.obs \in UnderWay
               /\ \A d \in Clients : slot'[d] \in UnderWay /\ got'[d] \in UnderWay
    <3>1. carried'.obs = carried.obs BY <2>3
    <3> QED BY <1>1, <1>3, <2>1, <2>3, <3>1, SlotsKept
  <2> QED BY <1>7, <2>2, <2>3 DEF PublishNext
<1>8. ASSUME NEW c \in Clients, Write(c)
      PROVE  /\ DOMAIN slot' = Clients /\ DOMAIN got' = Clients
             /\ latest' \in UnderWay /\ carried'.obs \in UnderWay
             /\ \A d \in Clients : slot'[d] \in UnderWay /\ got'[d] \in UnderWay
  <2>1. /\ got' = [got EXCEPT ![c] = slot[c]] /\ slot' = [slot EXCEPT ![c] = NoObs]
        /\ UNCHANGED <<latest, carried>>
    BY <1>8 DEF Write
  <2> QED BY <1>1, <1>3, <2>1
<1>9. PollStatus \/ EndServe \/ OthersChange \/ (\E c \in Clients : ClientTask(c) \/ StopWriter(c))
      \/ UNCHANGED vars
      => UNCHANGED <<latest, carried, slot, got>>
  BY DEF PollStatus, EndServe, OthersChange, ClientTask, Subscribe, RequestSnapshot, EmitStatus,
         Leave, StopWriter, vars
<1> QED BY <1>4, <1>5, <1>6, <1>7, <1>8, <1>9 DEF Elsewhere, Dispatcher

LEMMA EventStart == Init => EventInv
<1> SUFFICES ASSUME Init PROVE EventInv OBVIOUS
<1>1. ScheduleInv BY ScheduleStart
<1>2. /\ latest = NoObs /\ carried = Idle /\ slot = [c \in Clients |-> NoObs]
      /\ got = [c \in Clients |-> NoObs] /\ sched.seq = 0 /\ game.events = 0
  BY DEF Init
<1>3. UnderWay = {NoObs} BY <1>2 DEF UnderWay, InFlight, Idle
<1>4. NoObs.seq = 0 /\ Events(NoObs) = {} BY DEF NoObs, Events, ToSet
<1>5. Distinct({NoObs}, 0, 0) BY <1>4 DEF Distinct
<1> QED BY <1>1, <1>2, <1>3, <1>5 DEF EventInv

LEMMA EventStep == EventInv /\ [Next]_vars => EventInv'
<1> SUFFICES ASSUME EventInv, [Next]_vars PROVE EventInv' OBVIOUS
<1>1. /\ ScheduleInv /\ DOMAIN slot = Clients /\ DOMAIN got = Clients
      /\ Distinct(UnderWay, sched.seq, game.events)
      /\ sched.seq \in Nat /\ game.events \in Nat
  BY DEF EventInv, ScheduleInv, Games, Scheds
<1>2. \A s : Events(s) = ToSet(s.events) BY DEF Events
<1>3. ToSet(<<>>) = {} /\ \A x : ToSet(<<x>>) = {x} BY DEF ToSet
<1>4. CASE Tick
  <2>1. ScheduleInv' /\ UNCHANGED <<slot, got, carried>> BY <1>1, <1>4, TickEffect DEF Tick
  <2>2. game'.events \in {game.events, game.events + 1} BY <1>1, <1>4, TickEffect
  <2>3. CASE latest' = latest /\ sched'.seq \in {sched.seq, sched.seq + 1}
    <3>1. UnderWay' = UnderWay BY <2>1, <2>3 DEF UnderWay, InFlight
    <3>2. Distinct(UnderWay, sched'.seq, game'.events)
      BY <1>1, <2>2, <2>3, FewerDistinct
    <3> QED BY <1>1, <2>1, <3>1, <3>2 DEF EventInv
  <2>4. CASE /\ latest'.seq = sched.seq + 1 /\ sched'.seq = sched.seq + 1
             /\ \/ latest'.events = <<>>
                \/ latest'.events = <<game'.events>> /\ game'.events = game.events + 1
    <3>1. UnderWay' \subseteq UnderWay \cup {latest'} BY <2>1 DEF UnderWay, InFlight
    <3>2. \/ Events(latest') = {}
          \/ Events(latest') = {game'.events} /\ game'.events = game.events + 1
      BY <1>2, <1>3, <2>4
    <3>3. Distinct(UnderWay \cup {latest'}, sched'.seq, game'.events)
      <4>1. /\ sched'.seq \in Nat /\ sched'.seq > sched.seq /\ latest'.seq = sched'.seq
            /\ game'.events \in Nat /\ game'.events >= game.events
            /\ game'.events = game.events + 1 => game'.events > game.events
        BY <1>1, <2>2, <2>4
      <4> QED BY <1>1, <3>2, <4>1, OneMoreDistinct
    <3>4. sched'.seq \in Nat /\ game'.events \in Nat BY <1>1, <2>2, <2>4
    <3>5. Distinct(UnderWay', sched'.seq, game'.events) BY <3>1, <3>3, <3>4, FewerDistinct
    <3> QED BY <1>1, <2>1, <3>5 DEF EventInv
  <2> QED BY <1>1, <1>4, <2>3, <2>4, TickEffect
<1>5. CASE ServeSnapshot
  <2> DEFINE o == Observation(game, sched)
  <2>1. /\ ScheduleInv' /\ game' = game /\ sched'.seq = sched.seq + 1
        /\ o.seq = sched.seq + 1 /\ o.events = <<>>
    BY <1>1, <1>5, ServeEffect
  <2>2. /\ UNCHANGED <<latest, carried, got>>
        /\ DOMAIN slot' = Clients /\ \A d \in Clients : slot'[d] \in {slot[d], o}
    BY <1>1, <1>5, SlotsKept DEF ServeSnapshot
  <2> HIDE DEF o
  <2>3. UnderWay' \subseteq UnderWay \cup {o} BY <2>2 DEF UnderWay, InFlight
  <2>4. Events(o) = {} BY <1>2, <1>3, <2>1
  <2>5. Distinct(UnderWay \cup {o}, sched'.seq, game.events)
    <3>1. /\ sched'.seq \in Nat /\ sched'.seq > sched.seq /\ o.seq = sched'.seq
          /\ game.events >= game.events
      BY <1>1, <2>1
    <3> QED BY <1>1, <2>4, <3>1, OneMoreDistinct
  <2>6. sched'.seq \in Nat BY <1>1, <2>1
  <2>7. Distinct(UnderWay', sched'.seq, game'.events) BY <1>1, <2>1, <2>3, <2>5, <2>6, FewerDistinct
  <2> QED BY <1>1, <2>1, <2>2, <2>7 DEF EventInv
<1>6. CASE Elsewhere \/ UNCHANGED vars
  <2>1. UNCHANGED <<game, sched>> BY <1>6, ElsewhereEffect
  <2>2. DOMAIN slot' = Clients /\ DOMAIN got' = Clients /\ UnderWay' \subseteq UnderWay
    BY <1>6, NothingNew
  <2>3. Distinct(UnderWay', sched.seq, game.events) BY <1>1, <2>2, FewerDistinct
  <2> QED BY <1>1, <2>1, <2>2, <2>3 DEF EventInv, ScheduleInv, Settled
<1> QED BY <1>4, <1>5, <1>6, StepKinds

\* An event is in one observation only and no two observations share a number, although
\* broadcasts and snapshots take from one schedule and pass each other on the way: no
\* client is told of a lock twice (Immediate, capture_event).
THEOREM EventsOnlyOnce == Spec => []EventOnce
<1>1. ASSUME EventInv PROVE EventOnce
  <2>1. Distinct(UnderWay, sched.seq, game.events) /\ sched.pending = <<>>
    BY <1>1 DEF EventInv, ScheduleInv, Settled
  <2>2. ToSet(sched.pending) = {} BY <2>1 DEF ToSet
  <2>3. InFlight \subseteq UnderWay BY DEF UnderWay
  <2> QED BY <2>1, <2>2, <2>3 DEF EventOnce, Distinct, Events
<1> QED BY <1>1, EventStart, EventStep, PTL DEF Spec
=============================================================================
