------------------------------ MODULE Delivery ------------------------------
(***************************************************************************)
(* How a game state reaches the clients.  The game thread decides after    *)
(* each fixed step whether an observation is due (observation_schedule.rs) *)
(* and replaces the latest-only slot of the adapter (runtime.rs); the      *)
(* dispatcher task of the server copies it to the slot of every streaming  *)
(* client (server.rs); the write task of a client sends what its slot      *)
(* holds when it gets there (client_mailbox.rs).  A snapshot requested by  *)
(* a hello goes from the game thread straight to the client's slot and     *)
(* past the dispatcher.                                                    *)
(*                                                                         *)
(* The game is two counters: the changes an observation is sent for at     *)
(* once (piece, episode, pause, game over) and the events among them.      *)
(***************************************************************************)
EXTENDS Integers, Sequences, FiniteSets, SequencesExt

CONSTANTS Clients,
          TickMs,      \* TICK_MS
          Hz,          \* frequency_hz, clamped to 1..60
          MaxEvents,   \* capacity of pending_events
          MaxTicks,    \* bound: fixed steps
          MaxChanges   \* bound: changes of the game

ASSUME DeliveryAssumption ==
  /\ TickMs \in Nat \ {0} /\ Hz \in 1..60 /\ TickMs * Hz < 1000
  /\ MaxEvents \in Nat \ {0} /\ MaxTicks \in Nat /\ MaxChanges \in Nat

VARIABLES
  game,      \* [step, version, events]: logical step, changes and events so far
  sched,     \* ObservationSchedule: [acc, seq, last, pending]
  phase,     \* of the game thread: "poll", "serve" or "tick"
  client,    \* per client, where its task is: "new", "welcomed", "queued", "on",
             \* "left" (the registry) or "gone"
  others,    \* does a client outside Clients stream?
  open,      \* clients whose write task runs
  status,    \* the status channel: does anyone stream?
  subs,      \* the game thread's copy of it
  requests,  \* the inbound queue: clients waiting for a snapshot
  latest,    \* the slot between game thread and dispatcher; NoObs once seen
  carried,   \* [obs, todo, locked]: the dispatcher's observation
  slot,      \* per client, the slot its write task reads; NoObs once seen
  got,       \* per client: the last observation written
  since      \* history: [ticks, sent] since the last change

gameVars   == <<game, sched, phase, subs, since>>
serverVars == <<client, others, open, status>>
vars == <<gameVars, serverVars, requests, latest, carried, slot, got>>

NoObs == [seq |-> 0, step |-> 0, version |-> 0, events |-> <<>>]
Idle  == [obs |-> NoObs, todo |-> {}, locked |-> FALSE]

Init ==
  /\ game = [step |-> 0, version |-> 0, events |-> 0]
  /\ sched = [acc |-> 0, seq |-> 0, last |-> 0, pending |-> <<>>]
  /\ phase = "poll" /\ subs = FALSE /\ since = [ticks |-> 0, sent |-> 0]
  /\ client = [c \in Clients |-> "new"] /\ open = Clients /\ others = FALSE
  /\ status = FALSE
  /\ requests = <<>>
  /\ latest = NoObs /\ carried = Idle
  /\ slot = [c \in Clients |-> NoObs]
  /\ got = [c \in Clients |-> NoObs]
-----------------------------------------------------------------------------
(* ObservationSchedule. *)

\* capture_event: the oldest of MaxEvents waiting events gives way.
Capture(s, event) ==
  [s EXCEPT !.pending = Append(IF Len(@) = MaxEvents THEN Tail(@) ELSE @, event)]

\* Slip: the events are copied and stay pending.
KeepEvents(s) == [s EXCEPT !.seq = @ + 1]

\* immediate: the next number, and the pending events are taken.
Immediate(s) == [s EXCEPT !.seq = @ + 1, !.pending = <<>>]

\* build_observation of game g with what Immediate(s) hands out.
Observation(g, s) ==
  [seq |-> s.seq + 1, step |-> g.step, version |-> g.version, events |-> s.pending]

Critical(s, g) == s.last # g.version \/ s.pending # <<>>
Due(s, g)      == Critical(s, g) \/ s.acc + TickMs * Hz >= 1000

\* Slip: a periodic observation restarts the period.
DropRemainder(s, g) ==
  LET acc == s.acc + TickMs * Hz
  IN  [s EXCEPT !.last = g.version, !.acc = IF Due(s, g) THEN 0 ELSE acc]

\* after_tick, but for the observation: a change restarts the period, a periodic
\* observation keeps the remainder.
AfterTick(s, g) ==
  LET acc == s.acc + TickMs * Hz
  IN  [s EXCEPT !.last = g.version,
                !.acc = IF Critical(s, g) THEN 0
                        ELSE IF acc >= 1000 THEN acc - 1000 ELSE acc]
-----------------------------------------------------------------------------
(* The game thread. *)

\* Slip: an unread observation is not replaced.
PublishOnce(c, obs) ==
  slot' = IF c \in open /\ slot[c] = NoObs THEN [slot EXCEPT ![c] = obs] ELSE slot

\* publish_observation: only to a client whose write task still reads the slot.
Publish(c, obs) ==
  slot' = IF c \in open THEN [slot EXCEPT ![c] = obs] ELSE slot

\* The head of the loop takes the coalesced status.
PollStatus ==
  /\ phase = "poll"
  /\ phase' = "serve" /\ subs' = status
  /\ UNCHANGED <<game, sched, since, serverVars, requests, latest, carried, slot, got>>

\* Slip: a snapshot is sent only if somebody streams.
ServeSubscribed ==
  /\ phase = "serve" /\ requests # <<>>
  /\ IF subs THEN Publish(Head(requests), Observation(game, sched)) ELSE UNCHANGED slot
  /\ sched' = Immediate(sched)
  /\ requests' = Tail(requests)
  /\ UNCHANGED <<game, phase, subs, since, serverVars, latest, carried, got>>

\* step_session answers a queued snapshot request with the last completed step.
ServeSnapshot ==
  /\ phase = "serve" /\ requests # <<>>
  /\ Publish(Head(requests), Observation(game, sched))
  /\ sched' = Immediate(sched)
  /\ requests' = Tail(requests)
  /\ UNCHANGED <<game, phase, subs, since, serverVars, latest, carried, got>>

EndServe ==
  /\ phase = "serve" /\ requests = <<>>
  /\ phase' = "tick"
  /\ UNCHANGED <<game, sched, subs, since, serverVars, requests, latest, carried, slot, got>>

\* What a step may do to the game: nothing, a change without an event, or a lock.
Stepped(g) ==
  {[g EXCEPT !.step = @ + 1]} \cup
  IF g.version = MaxChanges THEN {}
  ELSE {[g EXCEPT !.step = @ + 1, !.version = @ + 1],
        [g EXCEPT !.step = @ + 1, !.version = @ + 1, !.events = @ + 1]}

\* after_tick hands out a due observation; it is sent if anyone is known to
\* stream and dropped, events and all, if not.
Broadcast(s, g) ==
  /\ sched' = IF Due(s, g) THEN Immediate(AfterTick(s, g)) ELSE AfterTick(s, g)
  /\ latest' = IF Due(s, g) /\ subs THEN Observation(g, s) ELSE latest

\* The transition, its event captured, then the observation; the loop goes on
\* with the next step of a burst or from its head.
Tick ==
  /\ phase = "tick" /\ game.step < MaxTicks
  /\ game' \in Stepped(game)
  /\ LET s == IF game'.events = game.events THEN sched ELSE Capture(sched, game'.events)
     IN  Broadcast(s, game')
  /\ since' = IF Critical(sched, game') THEN [ticks |-> 0, sent |-> 0]
              ELSE [ticks |-> since.ticks + 1,
                    sent  |-> since.sent + IF Due(sched, game') THEN 1 ELSE 0]
  /\ phase' \in {"poll", "serve"}
  /\ UNCHANGED <<subs, serverVars, requests, carried, slot, got>>
-----------------------------------------------------------------------------
(* The server's tasks; the dispatcher publishes under the broker's read lock. *)

\* Who gets broadcasts, and who of them is counted in the status.
Streaming == {c \in Clients : client[c] \in {"welcomed", "queued", "on"}}
Emitted   == others \/ Streaming \cap open # {}

At(c, here, next) == client[c] = here /\ client' = [client EXCEPT ![c] = next]

\* hello: the stream flag is set under the write lock.
Subscribe(c) ==
  /\ ~ carried.locked
  /\ At(c, "new", "welcomed")
  /\ UNCHANGED <<gameVars, others, open, status, requests, latest, carried, slot, got>>

\* Then its snapshot request is queued,
RequestSnapshot(c) ==
  /\ At(c, "welcomed", "queued")
  /\ requests' = Append(requests, c)
  /\ UNCHANGED <<gameVars, others, open, status, latest, carried, slot, got>>

\* and the new status emitted; so it is when the client has left.
EmitStatus(c) ==
  /\ At(c, "queued", "on") \/ At(c, "left", "gone")
  /\ status' = Emitted
  /\ UNCHANGED <<gameVars, others, open, requests, latest, carried, slot, got>>

\* The connection ends: the client leaves the registry under the write lock.
Leave(c) ==
  /\ ~ carried.locked
  /\ At(c, "on", "left")
  /\ UNCHANGED <<gameVars, others, open, status, requests, latest, carried, slot, got>>

\* Clients outside Clients start or stop to stream; they share only the status.
OthersChange ==
  /\ ~ carried.locked
  /\ others' = ~ others
  /\ status' = (others' \/ Streaming \cap open # {})
  /\ UNCHANGED <<gameVars, client, open, requests, latest, carried, slot, got>>

\* The write task ends, by a write error or because its client left.
StopWriter(c) ==
  /\ c \in open /\ client[c] \in {"on", "left", "gone"}
  /\ open' = open \ {c}
  /\ UNCHANGED <<gameVars, client, others, status, requests, latest, carried, slot, got>>

\* OutboundReceiver::recv: the dispatcher takes the newest observation,
TakeLatest ==
  /\ carried = Idle /\ latest # NoObs
  /\ carried' = [Idle EXCEPT !.obs = latest]
  /\ latest' = NoObs
  /\ UNCHANGED <<gameVars, serverVars, requests, slot, got>>

\* waits for the registry,
LockRegistry ==
  /\ carried # Idle /\ ~ carried.locked
  /\ carried' = [carried EXCEPT !.todo = Streaming, !.locked = TRUE]
  /\ UNCHANGED <<gameVars, serverVars, requests, latest, slot, got>>

\* and replaces what each streaming client has not been sent yet.
PublishNext ==
  /\ carried.locked
  /\ IF carried.todo = {} THEN carried' = Idle /\ UNCHANGED slot
     ELSE \E c \in carried.todo :
            /\ Publish(c, carried.obs)
            /\ carried' = [carried EXCEPT !.todo = @ \ {c}]
  /\ UNCHANGED <<gameVars, serverVars, requests, latest, got>>

\* The write task of c takes what its slot holds.
Write(c) ==
  /\ c \in open /\ slot[c] # NoObs
  /\ got' = [got EXCEPT ![c] = slot[c]]
  /\ slot' = [slot EXCEPT ![c] = NoObs]
  /\ UNCHANGED <<gameVars, serverVars, requests, latest, carried>>

GameThread == PollStatus \/ ServeSnapshot \/ EndServe \/ Tick
ClientTask(c) == Subscribe(c) \/ RequestSnapshot(c) \/ EmitStatus(c) \/ Leave(c)
Dispatcher == TakeLatest \/ LockRegistry \/ PublishNext

Next ==
  \/ GameThread \/ Dispatcher \/ OthersChange
  \/ \E c \in Clients : ClientTask(c) \/ StopWriter(c) \/ Write(c)

Spec == Init /\ [][Next]_vars

\* The game thread and the dispatcher never block, a hello once begun is carried
\* through, and the peer of a running write task reads.
FairSpec ==
  /\ Spec
  /\ WF_vars(GameThread) /\ WF_vars(Dispatcher)
  /\ \A c \in Clients : WF_vars(RequestSnapshot(c)) /\ WF_vars(EmitStatus(c))
                        /\ WF_vars(Write(c))
-----------------------------------------------------------------------------
Period == (999 + TickMs * Hz) \div (TickMs * Hz)

\* The observations under way or last seen.
InFlight == {latest, carried.obs} \cup {slot[c] : c \in Clients} \cup {got[c] : c \in Clients}

\* An event is in one observation only, and two observations never share a
\* number: no client gets an event twice, by broadcast and again in a snapshot.
EventOnce ==
  \A o1, o2 \in InFlight :
    /\ o1.seq = o2.seq => o1 = o2
    /\ o1 # o2 => ToSet(o1.events) \cap ToSet(o2.events) = {}
    /\ ToSet(sched.pending) \cap ToSet(o1.events) = {}

\* The cadence neither stalls nor drifts: between two changes exactly
\* floor(ticks * TickMs * Hz / 1000) periodic observations are due, whatever
\* snapshots were taken in between.
CadenceExact == since.sent = (since.ticks * TickMs * Hz) \div 1000

\* A client whose stream the game thread knows of.
Followed(c) == c \in Streaming \cap open
Known(c)    == Followed(c) /\ client[c] = "on" /\ subs /\ status

\* No client of the stream is left behind: while at least a period of ticks is to
\* come, it catches up with the state the game has reached, although slots are
\* overwritten and an older broadcast may replace a newer snapshot.
CatchesUp ==
  \A c \in Clients, v \in 1..MaxChanges :
    (Known(c) /\ game.version >= v /\ game.step + Period <= MaxTicks)
      ~> (got[c].version >= v \/ ~ Followed(c))

\* A requested snapshot is answered with a state no older than the request if no
\* broadcast is on its way, whoever else joins or leaves meanwhile.
SnapshotAnswered ==
  \A c \in Clients, v \in 0..MaxChanges :
    (Contains(requests, c) /\ game.version >= v /\ game.step < MaxTicks
       /\ latest = NoObs /\ carried = Idle)
      ~> ((got[c] # NoObs /\ got[c].version >= v) \/ ~ Followed(c))

\* protocol/adapter/SPEC.md: observation sequences form a monotonically
\* increasing stream.
SeqIncreases == [][\A c \in Clients : got'[c] # got[c] => got'[c].seq > got[c].seq]_vars
=============================================================================
