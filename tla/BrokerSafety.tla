---------------------------- MODULE BrokerSafety ----------------------------
(***************************************************************************)
(* What the broker promises its clients, from protocol/adapter/SPEC.md and *)
(* docs/adapter-tui-tetris.md.                                             *)
(***************************************************************************)
EXTENDS Broker

\* SPEC.md: disconnect cleanup must remove stale controller assignments - control
\* is never held by a client the broker has forgotten.
ControllerRegistered == controller # None => controller \in clients

\* Control leaves a live client only by its own release or its own cleanup: no
\* hello, claim or disconnect of others takes it away.
NoStealing ==
  [][\A c \in Clients :
       controller = c /\ Live(c) /\ controller' # c =>
         \/ handle'[c].last_seq # handle[c].last_seq   \* it sent an accepted release
         \/ c \notin clients']_vars

\* The places of the commands of c in a queue of messages.
Mine(c, messages) ==
  {i \in 1..Len(messages) : messages[i].client = c /\ ~ messages[i].snapshot}

\* SPEC.md: duplicate or decreasing sequences must not be enqueued or applied.
\* What a client had applied, what waits and what its task is about to send are
\* in strictly increasing order, up to the last seq it used.
CommandOrder ==
  LET ahead == (IF game.pc = "drain" THEN game.pending ELSE <<>>) \o queue
  IN  \A c \in Clients :
        LET seqs == {ahead[i].seq : i \in Mine(c, ahead)}
        IN  /\ \A i, j \in Mine(c, ahead) : i < j => ahead[i].seq < ahead[j].seq
            /\ \A n \in seqs : applied[c] < n
            /\ pc[c] = "send" => \A n \in seqs \cup {applied[c]} : n < seq[c]
            /\ c \in clients => \A n \in seqs \cup {applied[c], seq[c]} : n <= handle[c].last_seq

\* SPEC.md: welcome, ack, error and targeted responses must not be silently
\* dropped.  Every line of a live client is answered, or its answer is on its way.
InFlight(c) ==
  (IF pc[c] \in {"assign", "send"} THEN 1 ELSE 0)
  + Cardinality(Mine(c, game.pending)) + Cardinality(Mine(c, queue))

NoSilentLoss == \A c \in Clients : Live(c) => owed[c] = InFlight(c)

\* Once no task is about to emit a status and every client is live, the status is
\* that of the broker: no order of emissions leaves an older one in place.
StatusFresh ==
  /\ \A c \in Clients : pc[c] \notin {"assign", "snapshot", "status", "leave"}
  /\ \A c \in clients : Live(c)
  => status = CurrentStatus
-----------------------------------------------------------------------------
\* A client whose mailbox overflowed, or that an observation found dead, is
\* removed: only the slow client is closed, and it is closed.
ShutdownEnds == \A c \in Clients : shutdown[c] ~> c \notin clients

\* An answer a live client is owed comes: neither a full queue nor other clients
\* hold it back for ever.
AnswerComes == \A c \in Clients : owed[c] > 0 ~> (owed[c] = 0 \/ ~ Live(c))
-----------------------------------------------------------------------------
\* SPEC.md: a client requesting role observer must not become controller as a
\* side effect of hello or automatic disconnect promotion.  A client whose last
\* accepted seq is the 1 of its hello has claimed nothing.
ObserverNeverPromoted ==
  \A c \in Clients :
    controller = c /\ handle[c].requested_role = "observer" /\ pc[c] # "assign" =>
      handle[c].last_seq > 1
=============================================================================
