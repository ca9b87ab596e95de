-------------------------------- MODULE Observe --------------------------------
(***************************************************************************)
(* Observer mode: a connection to an adapter, a thread per connection that *)
(* turns its lines into events of a channel, and the loop that empties the *)
(* channel, shows the newest observation and reconnects when the           *)
(* connection ends or reports an error.  The adapter is outside: it greets,*)
(* sends observations, reports errors, hangs up, goes away and comes back. *)
(***************************************************************************)
EXTENDS Integers, Sequences

CONSTANTS MaxAttempts,   \* attempts of one reconnection
          Frames,        \* bound: observations of one connection
          Connections    \* bound: connections the adapter accepts

VARIABLES
  up,        \* does the adapter accept connections?
  links,     \* the connections: still open, greeted, observations sent, events not read
  rx,        \* the connection whose channel the observer holds
  stage,     \* "connect", "greet", "loop", "poll" or "exit"
  attempt,   \* of this reconnection
  got,       \* wait_for_welcome: got_welcome and first_obs
  latest,    \* latest_obs: <<connection, number>>, or None
  snap,      \* the observation the snapshot was made of, or None
  dirty,
  drawn      \* history: what the screen shows: <<latest, snap>>

observeVars == <<up, links, rx, stage, attempt, got, latest, snap, dirty, drawn>>

None == <<0, 0>>
NothingYet == [welcome |-> FALSE, obs |-> None]

ObserveInit ==
  /\ up = TRUE /\ links = <<>> /\ rx = 0
  /\ stage = "connect" /\ attempt = 1 /\ got = NothingYet
  /\ latest = None /\ snap = None /\ dirty = TRUE /\ drawn = <<>>
-----------------------------------------------------------------------------
(* The adapter, and the reader thread of a connection: every line becomes  *)
(* an event, the end of the connection a last one.                         *)

loopVars    == <<rx, stage, attempt, got, latest, snap, dirty, drawn>>

Event(kind, obs) == [kind |-> kind, obs |-> obs]
Failures == {"error", "closed"}

Greet(c) ==
  /\ links[c].open /\ ~ links[c].greeted
  /\ links' = [links EXCEPT ![c].greeted = TRUE, ![c].events = Append(@, Event("welcome", None))]
  /\ UNCHANGED <<up, loopVars>>

SendObservation(c) ==
  /\ links[c].open /\ links[c].greeted /\ links[c].sent < Frames
  /\ links' = [links EXCEPT ![c].sent = @ + 1,
                           ![c].events = Append(@, Event("obs", <<c, links[c].sent + 1>>))]
  /\ UNCHANGED <<up, loopVars>>

\* An error message, or a line that does not parse; the connection stays.
ReportError(c) ==
  /\ links[c].open /\ Len(links[c].events) < Frames
  /\ links' = [links EXCEPT ![c].events = Append(@, Event("error", None))]
  /\ UNCHANGED <<up, loopVars>>

\* Slip: the reader thread ends without a last event.
HangUpSilently(c) ==
  /\ links[c].open
  /\ links' = [links EXCEPT ![c].open = FALSE]
  /\ UNCHANGED <<up, loopVars>>

HangUp(c) ==
  /\ links[c].open
  /\ links' = [links EXCEPT ![c].open = FALSE, ![c].events = Append(@, Event("closed", None))]
  /\ UNCHANGED <<up, loopVars>>

GoUpOrDown ==
  /\ up' = ~ up
  /\ UNCHANGED <<links, loopVars>>
-----------------------------------------------------------------------------
(* connect_observer_with_retry. *)

\* The next attempt, or the end of the program.
AttemptFailed ==
  IF attempt < MaxAttempts THEN stage' = "connect" /\ attempt' = attempt + 1
  ELSE stage' = "exit" /\ UNCHANGED attempt

Refused ==
  /\ stage = "connect" /\ (~ up \/ Len(links) = Connections)
  /\ AttemptFailed
  /\ UNCHANGED <<up, links, rx, got, latest, snap, dirty, drawn>>

Connect ==
  /\ stage = "connect" /\ up /\ Len(links) < Connections
  /\ stage' = "greet" /\ got' = NothingYet
  /\ links' = Append(links, [open |-> TRUE, greeted |-> FALSE, sent |-> 0, events |-> <<>>])
  /\ UNCHANGED <<up, rx, attempt, latest, snap, dirty, drawn>>

Fresh == Len(links)   \* the connection being tried
Take(c) == links' = [links EXCEPT ![c].events = Tail(@)]

\* Slip: without an observation there is nothing new to draw.
AcceptedQuietly(obs) ==
  /\ stage' = "loop" /\ attempt' = 1
  /\ rx' = Fresh
  /\ latest' = obs
  /\ snap' = IF obs = None THEN snap ELSE obs
  /\ dirty' = (dirty \/ obs # None)
  /\ UNCHANGED <<up, got, drawn>>

\* Slip: the loop keeps reading the old channel.
AcceptedOldChannel(obs) ==
  /\ stage' = "loop" /\ attempt' = 1
  /\ rx' = IF rx = 0 THEN Fresh ELSE rx
  /\ latest' = obs
  /\ snap' = IF obs = None THEN snap ELSE obs
  /\ dirty' = TRUE
  /\ UNCHANGED <<up, got, drawn>>

\* The channel is accepted with the last observation seen before the deadline, if any; the
\* snapshot stays when there is none.
Accepted(obs) ==
  /\ stage' = "loop" /\ attempt' = 1
  /\ rx' = Fresh
  /\ latest' = obs
  /\ snap' = IF obs = None THEN snap ELSE obs
  /\ dirty' = TRUE
  /\ UNCHANGED <<up, got, drawn>>

\* wait_for_welcome reads an event; a greeting and an observation end the wait.
AwaitWelcome ==
  /\ stage = "greet" /\ links[Fresh].events # <<>>
  /\ Take(Fresh)
  /\ LET event == Head(links[Fresh].events)
         now   == [welcome |-> got.welcome \/ event.kind = "welcome",
                   obs     |-> IF event.kind = "obs" THEN event.obs ELSE got.obs]
     IN IF event.kind \in Failures
        THEN AttemptFailed /\ UNCHANGED <<up, rx, got, latest, snap, dirty, drawn>>
        ELSE IF now.welcome /\ now.obs # None THEN Accepted(now.obs)
        ELSE got' = now /\ UNCHANGED <<up, rx, stage, attempt, latest, snap, dirty, drawn>>

\* The deadline passes.
WelcomeTimeout ==
  /\ stage = "greet"
  /\ UNCHANGED links
  /\ IF got.welcome THEN Accepted(got.obs)
     ELSE AttemptFailed /\ UNCHANGED <<up, rx, got, latest, snap, dirty, drawn>>
-----------------------------------------------------------------------------
(* The loop of run_observe. *)

\* An observation replaces the newest; a failure reconnects, the loop standing still until
\* that succeeds.
ReadEvent ==
  /\ stage = "loop" /\ links[rx].events # <<>>
  /\ Take(rx)
  /\ LET event  == Head(links[rx].events)
         newest == IF event.kind = "obs" THEN event.obs ELSE None
     IN /\ stage' = IF event.kind \in Failures THEN "connect" ELSE stage
        /\ latest' = IF newest # None THEN newest ELSE latest
        /\ snap' = IF newest # None THEN newest ELSE snap
        /\ dirty' = (dirty \/ newest # None)
  /\ UNCHANGED <<up, rx, attempt, got, drawn>>

DrawNewest ==
  /\ stage = "loop" /\ links[rx].events = <<>>
  /\ stage' = "poll"
  /\ drawn' = IF dirty THEN <<latest, snap>> ELSE drawn
  /\ dirty' = FALSE
  /\ UNCHANGED <<up, links, rx, attempt, got, latest, snap>>

\* A terminal event or none; a resize draws again, a quit key ends the program.
PollKeys ==
  /\ stage = "poll"
  /\ stage' \in {"loop", "exit"}
  /\ dirty' \in BOOLEAN
  /\ UNCHANGED <<up, links, rx, attempt, got, latest, snap, drawn>>

Adapter ==
  \/ \E c \in 1 .. Len(links) : Greet(c) \/ SendObservation(c) \/ ReportError(c) \/ HangUp(c)
  \/ GoUpOrDown

Observer ==
  \/ Refused \/ Connect \/ AwaitWelcome \/ WelcomeTimeout
  \/ ReadEvent \/ DrawNewest \/ PollKeys

ObserveNext == Adapter \/ Observer
-----------------------------------------------------------------------------
Before(a, b) == a[1] < b[1] \/ (a[1] = b[1] /\ a[2] < b[2])

\* The board on the screen never goes back to an earlier observation of the connection,
\* nor to one of an earlier connection, although the threads of earlier connections may
\* still be sending (connect_observer, rx = new_rx).
ShownMovesOn == [][drawn # <<>> => ~ Before(drawn'[2], drawn[2])]_drawn

\* When the loop waits for the terminal, the screen shows the newest observation read and
\* its status lines: after a reconnection without one, "WAITING" over the old board.
ShownIsNewest == stage = "poll" => drawn = <<latest, snap>>

\* A connection that ended, and the missing one at the start, is replaced or the program
\* ends: the end is noticed behind all the events before it, and no reconnection goes on
\* for ever.
ConnectionReplaced ==
  \A c \in 0 .. Connections :
    /\ stage \in {"connect", "greet", "loop", "poll"} /\ rx = c
    /\ c = 0 \/ ~ links[c].open
    ~> rx # c \/ stage = "exit"
=============================================================================
