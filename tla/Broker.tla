------------------------------- MODULE Broker -------------------------------
(***************************************************************************)
(* The adapter broker (adapter/server.rs) with its client mailboxes        *)
(* (client_mailbox.rs) and the game loop's side of the command queue       *)
(* (game_loop.rs).                                                         *)
(*                                                                         *)
(* Every connection has one task that reads lines one at a time.  A step   *)
(* of a task is what it does between two awaits: each critical section of  *)
(* the broker lock is one step, and other tasks run in between.  A line is *)
(* its kind, its seq and, for a hello, the role and stream it asks for.    *)
(* What observations carry is left out; their effect on a dead client and  *)
(* the snapshot request of a hello are here.                               *)
(***************************************************************************)
EXTENDS Integers, Sequences, FiniteSets

CONSTANTS
  Clients,         \* client ids; each connects at most once, as ids are never reused
  None,            \* no controller
  Lines,           \* the kinds of line the clients send
  Roles,           \* the roles their hellos ask for
  Streams,         \* do their hellos ask for observations
  MailboxCapacity, \* CLIENT_RELIABLE_QUEUE_CAPACITY
  QueueCapacity,   \* max_pending_commands
  BatchSize,       \* MAX_COMMANDS_PER_STEP
  MaxSeq,          \* bound: sequence numbers used
  MaxOwed          \* bound: unanswered lines of a client that sends another

LineKinds == {"hello", "mismatch", "command", "claim", "release", "unknown", "garbage"}

ASSUME BrokerAssumption ==
  /\ Clients \subseteq Nat /\ None \notin Clients
  /\ Lines \subseteq LineKinds /\ Roles \subseteq {"auto", "observer"} /\ Streams \subseteq BOOLEAN
  /\ {MailboxCapacity, QueueCapacity, BatchSize} \subseteq Nat \ {0}
  /\ MaxSeq \in Nat /\ MaxOwed \in Nat

VARIABLES
  \* The broker and what it publishes.
  clients,     \* BrokerState.clients: the registered ids
  handle,      \* the ClientHandle of each client
  controller,  \* BrokerState.controller_id
  status,      \* the latest AdapterStatus
  \* The client tasks and their mailboxes.
  pc,          \* where the task of each client is
  seq,         \* the seq of the line it is working on
  writer,      \* is the write task alive (else the reliable channel is closed)
  mailbox,     \* messages waiting in the reliable queue
  shutdown,    \* has the mailbox requested a shutdown
  \* The command queue and the game loop.
  queue, game,
  \* History.
  applied,     \* the seq of each client's last applied command
  owed         \* lines of each client read and not answered

broker == <<clients, handle, controller>>
boxes  == <<writer, mailbox, shutdown, owed>>
loop   == <<queue, game, applied>>
vars   == <<broker, status, pc, seq, boxes, loop>>

NoHello == [requested_role |-> "auto", stream |-> FALSE, handshaken |-> FALSE, last_seq |-> 0]

Init ==
  /\ clients = {} /\ handle = [c \in Clients |-> NoHello]
  /\ controller = None
  /\ status = [clients |-> 0, controller |-> None, streaming |-> 0]
  /\ pc = [c \in Clients |-> "off"] /\ seq = [c \in Clients |-> 0]
  /\ writer = [c \in Clients |-> FALSE] /\ mailbox = [c \in Clients |-> 0]
  /\ shutdown = [c \in Clients |-> FALSE] /\ owed = [c \in Clients |-> 0]
  /\ queue = <<>> /\ game = [pc |-> "drain", drained |-> 0, pending |-> <<>>]
  /\ applied = [c \in Clients |-> 0]
-----------------------------------------------------------------------------
(* Mailboxes. *)

\* is_live of the client's outbound sender.
Live(c) == ~ shutdown[c] /\ writer[c]
HasRoom(c) == writer[c] /\ mailbox[c] < MailboxCapacity

\* Slip: an overflow drops the message and nothing else.
ReplyOrDrop(c, read) ==
  /\ mailbox' = [mailbox EXCEPT ![c] = @ + IF HasRoom(c) THEN 1 ELSE 0]
  /\ owed' = [owed EXCEPT ![c] = @ + read - IF HasRoom(c) THEN 1 ELSE 0]
  /\ UNCHANGED <<writer, shutdown>>

\* try_send_reliable: a full queue requests a shutdown, a closed one does not.
\* `read` is 1 if this same step reads the line answered.
Reply(c, read) ==
  /\ mailbox' = [mailbox EXCEPT ![c] = @ + IF HasRoom(c) THEN 1 ELSE 0]
  /\ shutdown' = [shutdown EXCEPT ![c] = @ \/ (writer[c] /\ ~ HasRoom(c))]
  /\ owed' = [owed EXCEPT ![c] = @ + read - IF HasRoom(c) THEN 1 ELSE 0]
  /\ UNCHANGED writer

Sent(c) ==
  /\ writer[c] /\ mailbox[c] > 0
  /\ mailbox' = [mailbox EXCEPT ![c] = @ - 1]
  /\ UNCHANGED <<broker, status, pc, seq, writer, shutdown, owed, loop>>

\* A write fails: the task ends, its channel closes, nobody is told.
WriterFails(c) ==
  /\ writer[c]
  /\ writer' = [writer EXCEPT ![c] = FALSE] /\ mailbox' = [mailbox EXCEPT ![c] = 0]
  /\ UNCHANGED <<broker, status, pc, seq, shutdown, owed, loop>>
-----------------------------------------------------------------------------
(* Connections. *)

GoTo(c, where) == pc' = [pc EXCEPT ![c] = where]

\* The controller id, None if its client is gone or dead.
NotStale == IF \E c \in clients : c = controller /\ Live(c) THEN controller ELSE None

CurrentStatus ==
  [clients    |-> Cardinality({c \in clients : Live(c)}),
   controller |-> NotStale,
   streaming  |-> Cardinality({c \in clients : handle[c].stream /\ Live(c)})]

\* The accept loop hands out ids in order, emits the status and spawns the task.
Accept(c) ==
  /\ pc[c] = "off" /\ \A d \in Clients : d < c => pc[d] # "off"
  /\ status' = CurrentStatus
  /\ GoTo(c, "accepted")
  /\ UNCHANGED <<broker, seq, boxes, loop>>

Register(c) ==
  /\ pc[c] = "accepted"
  /\ clients' = clients \cup {c}
  /\ writer' = [writer EXCEPT ![c] = TRUE]
  /\ GoTo(c, "status")
  /\ UNCHANGED <<handle, controller, status, seq, mailbox, shutdown, owed, loop>>

\* The live clients that are not observers, handshaken or not.
Eligible(remaining) == {d \in remaining : Live(d) /\ handle[d].requested_role # "observer"}

Least(ids) == CHOOSE i \in ids : \A j \in ids : i <= j

\* Slip: the controller leaves and keeps its role.
RemoveOnly(c) ==
  /\ clients' = clients \ {c}
  /\ handle' = [handle EXCEPT ![c] = NoHello]
  /\ UNCHANGED <<controller>>

RemoveAndPromote(c) ==
  /\ clients' = clients \ {c}
  /\ handle' = [handle EXCEPT ![c] = NoHello]
  /\ controller' = IF controller # c THEN controller
                   ELSE IF Eligible(clients') = {} THEN None
                   ELSE Least(Eligible(clients'))
 

\* The end of file, a failed or oversized read or bad UTF-8 ends the loop.
Disconnect(c) ==
  /\ pc[c] = "read"
  /\ GoTo(c, "cleanup")
  /\ UNCHANGED <<broker, status, seq, boxes, loop>>

\* Slip: the shutdown is never looked at.
IgnoreShutdown(c) == FALSE /\ UNCHANGED vars

\* So does the shutdown, if select! takes that branch before another line.
SeeShutdown(c) ==
  /\ pc[c] = "read" /\ shutdown[c]
  /\ GoTo(c, "cleanup")
  /\ UNCHANGED <<broker, status, seq, boxes, loop>>

CleanUp(c) ==
  /\ pc[c] = "cleanup"
  /\ RemoveAndPromote(c)
  /\ GoTo(c, "leave")
  /\ UNCHANGED <<status, seq, boxes, loop>>

\* Slip: nobody is told of a departure.
EmitOnArrival(c) ==
  /\ pc[c] \in {"status", "leave"}
  /\ status' = IF pc[c] = "status" THEN CurrentStatus ELSE status
  /\ GoTo(c, IF pc[c] = "status" THEN "read" ELSE "flush")
  /\ UNCHANGED <<broker, seq, boxes, loop>>

EmitStatus(c) ==
  /\ pc[c] \in {"status", "leave"}
  /\ status' = CurrentStatus
  /\ GoTo(c, IF pc[c] = "status" THEN "read" ELSE "flush")
  /\ UNCHANGED <<broker, seq, boxes, loop>>

\* The write task gets a bounded time to drain, then it is aborted; what the
\* client's task and mailbox held goes with them.
Leave(c) ==
  /\ pc[c] = "flush"
  /\ GoTo(c, "gone")
  /\ writer' = [writer EXCEPT ![c] = FALSE] /\ mailbox' = [mailbox EXCEPT ![c] = 0]
  /\ shutdown' = [shutdown EXCEPT ![c] = FALSE]
  /\ owed' = [owed EXCEPT ![c] = 0]
  /\ UNCHANGED <<broker, status, seq, loop>>
-----------------------------------------------------------------------------
(* Lines. *)

ReadLine(c, kind) ==
  /\ pc[c] = "read" /\ kind \in Lines /\ owed[c] < MaxOwed
  /\ UNCHANGED <<status, loop>>

\* The line is answered by an error at once; the task reads on.
Refuse(c) == Reply(c, 1) /\ UNCHANGED <<pc, seq>>

\* The line with seq n is answered in a later step of the task.
Continue(c, n, where) ==
  /\ seq' = [seq EXCEPT ![c] = n] /\ GoTo(c, where)
  /\ owed' = [owed EXCEPT ![c] = @ + 1]
  /\ UNCHANGED <<writer, mailbox, shutdown>>

\* Slip: a repeated seq passes.
AcceptsOrRepeats(c, n) == handle[c].handshaken /\ n >= handle[c].last_seq

\* After the handshake, a seq must be strictly greater than the last one.
Accepts(c, n) == handle[c].handshaken /\ n > handle[c].last_seq

UseSeq(c, n) == handle' = [handle EXCEPT ![c].last_seq = n]

\* A hello without json, or whose seq is not 1, is refused; so is any hello after
\* the handshake, as seq 1 is then never greater than the last one.
ReadHello(c) ==
  \E n \in 1..MaxSeq :
    /\ ReadLine(c, "hello")
    /\ UNCHANGED <<clients, controller>>
    /\ \/ Refuse(c) /\ UNCHANGED handle
       \/ /\ n = 1 /\ ~ handle[c].handshaken
          /\ \E role \in Roles, stream \in Streams :
               handle' = [handle EXCEPT ![c] = [requested_role |-> role, stream |-> stream,
                                                handshaken |-> TRUE, last_seq |-> n]]
          /\ Continue(c, n, "assign")

\* The second critical section of a hello, and the welcome.
AssignRole(c) ==
  /\ pc[c] = "assign"
  /\ IF NotStale = None /\ handle[c].requested_role # "observer"
     THEN controller' = c
     ELSE controller' = NotStale
  /\ Reply(c, 0)
  /\ GoTo(c, IF handle[c].stream THEN "snapshot" ELSE "status")
  /\ seq' = [seq EXCEPT ![c] = 0]
  /\ UNCHANGED <<clients, handle, status, loop>>

\* A streaming hello waits for room in the command queue.
RequestSnapshot(c) ==
  /\ pc[c] = "snapshot" /\ Len(queue) < QueueCapacity
  /\ queue' = Append(queue, [client |-> c, seq |-> 0, snapshot |-> TRUE])
  /\ GoTo(c, "status")
  /\ UNCHANGED <<broker, status, seq, boxes, game, applied>>

\* An unsupported protocol version closes the connection.
ReadMismatch(c) ==
  /\ ReadLine(c, "mismatch") /\ ~ handle[c].handshaken
  /\ Reply(c, 1) /\ GoTo(c, "cleanup")
  /\ UNCHANGED <<broker, seq>>

\* The answer is an error for a client that is not the controller, and for a
\* controller's malformed command; else the command is sent in a later step.
\* (Nobody else reads a client's last seq, so using it up and the check of the
\* controller that follows are one step, here and below.)
ReadCommand(c) ==
  \E n \in 1..MaxSeq :
    /\ ReadLine(c, "command")
    /\ UNCHANGED <<clients, controller>>
    /\ \/ ~ Accepts(c, n) /\ Refuse(c) /\ UNCHANGED handle
       \/ Accepts(c, n) /\ UseSeq(c, n) /\ Refuse(c)
       \/ Accepts(c, n) /\ UseSeq(c, n) /\ controller = c /\ Continue(c, n, "send")

\* try_send to the bounded queue; a full one is answered with backpressure.
SendCommand(c) ==
  /\ pc[c] = "send"
  /\ IF Len(queue) < QueueCapacity
     THEN /\ queue' = Append(queue, [client |-> c, seq |-> seq[c], snapshot |-> FALSE])
          /\ UNCHANGED boxes
     ELSE Reply(c, 0) /\ UNCHANGED queue
  /\ GoTo(c, "read") /\ seq' = [seq EXCEPT ![c] = 0]
  /\ UNCHANGED <<broker, status, game, applied>>

\* Slip: a claim takes control from whoever has it.
MayClaimAlways(c) == TRUE

MayClaim(c) == NotStale \in {None, c}

ReadClaim(c) ==
  \E n \in 1..MaxSeq :
    /\ ReadLine(c, "claim")
    /\ Reply(c, 1) /\ UNCHANGED <<clients, seq>>
    /\ IF Accepts(c, n) /\ MayClaim(c)
       THEN /\ controller' = c
            /\ GoTo(c, "status") /\ UseSeq(c, n)
       ELSE /\ UNCHANGED <<controller, pc>>
            /\ IF Accepts(c, n) THEN UseSeq(c, n) ELSE UNCHANGED handle

ReadRelease(c) ==
  \E n \in 1..MaxSeq :
    /\ ReadLine(c, "release")
    /\ Reply(c, 1) /\ UNCHANGED <<clients, seq>>
    /\ IF Accepts(c, n) /\ controller = c
       THEN controller' = None /\ GoTo(c, "status") /\ UseSeq(c, n)
       ELSE /\ UNCHANGED <<controller, pc>>
            /\ IF Accepts(c, n) THEN UseSeq(c, n) ELSE UNCHANGED handle

\* A message of unknown type uses its seq up, one that does not parse has none.
ReadUnknown(c) ==
  \E n \in 1..MaxSeq :
    /\ ReadLine(c, "unknown") /\ Refuse(c)
    /\ IF Accepts(c, n) THEN UseSeq(c, n) ELSE UNCHANGED handle
    /\ UNCHANGED <<clients, controller>>

ReadGarbage(c) == ReadLine(c, "garbage") /\ Refuse(c) /\ UNCHANGED broker
-----------------------------------------------------------------------------
(* The game loop: drain a batch, apply it in one transition, answer it. *)

\* A snapshot is sent at once; to a dead client it requests the shutdown.
GameTake ==
  /\ game.pc = "drain" /\ game.drained < BatchSize /\ queue # <<>>
  /\ LET m == Head(queue)
     IN  /\ game' = [game EXCEPT !.drained = @ + 1,
                                 !.pending = IF m.snapshot THEN @ ELSE Append(@, m)]
         /\ shutdown' = [shutdown EXCEPT ![m.client] = @ \/ (m.snapshot /\ ~ Live(m.client))]
  /\ queue' = Tail(queue)
  /\ UNCHANGED <<broker, status, pc, seq, writer, mailbox, owed, applied>>

SeqsOf(c, messages) ==
  {messages[i].seq : i \in {j \in 1..Len(messages) : messages[j].client = c}}

Greatest(S) == CHOOSE n \in S : \A m \in S : m <= n

GameApply ==
  /\ game.pc = "drain" /\ game.drained > 0
  /\ queue = <<>> \/ game.drained = BatchSize
  /\ game' = [game EXCEPT !.drained = 0, !.pc = IF game.pending = <<>> THEN "drain" ELSE "ack"]
  /\ applied' = [c \in Clients |-> IF SeqsOf(c, game.pending) = {} THEN applied[c]
                                   ELSE Greatest(SeqsOf(c, game.pending))]
  /\ UNCHANGED <<broker, status, pc, seq, boxes, queue>>

\* Slip: only the first command of a batch is answered.
GameAckFirst ==
  /\ game.pc = "ack"
  /\ Reply(Head(game.pending).client, 0)
  /\ game' = [game EXCEPT !.pending = <<>>, !.pc = "drain"]
  /\ UNCHANGED <<broker, status, pc, seq, queue, applied>>

GameAck ==
  /\ game.pc = "ack"
  /\ Reply(Head(game.pending).client, 0)
  /\ game' = [game EXCEPT !.pending = Tail(@),
                          !.pc = IF Len(game.pending) = 1 THEN "drain" ELSE "ack"]
  /\ UNCHANGED <<broker, status, pc, seq, queue, applied>>

\* While the game believes anyone is streaming it publishes observations, and one
\* may be on its way for longer; for a dead client it requests the shutdown.
Broadcast(c) ==
  /\ c \in clients /\ handle[c].stream /\ ~ Live(c) /\ ~ shutdown[c]
  /\ shutdown' = [shutdown EXCEPT ![c] = TRUE]
  /\ UNCHANGED <<broker, status, pc, seq, writer, mailbox, owed, loop>>
-----------------------------------------------------------------------------
\* What a client task does on its own once it has a line, or has seen its end.
TaskStep(c) ==
  \/ Register(c) \/ AssignRole(c) \/ RequestSnapshot(c) \/ SendCommand(c)
  \/ SeeShutdown(c) \/ CleanUp(c) \/ EmitStatus(c) \/ Leave(c)

GameStep == GameTake \/ GameApply \/ GameAck

\* What the peer, the network and the clock of the game bring about.
Outside(c) ==
  \/ Accept(c) \/ Disconnect(c) \/ Sent(c) \/ WriterFails(c) \/ Broadcast(c)
  \/ ReadHello(c) \/ ReadMismatch(c) \/ ReadCommand(c) \/ ReadClaim(c)
  \/ ReadRelease(c) \/ ReadUnknown(c) \/ ReadGarbage(c)

Next == GameStep \/ \E c \in Clients : TaskStep(c) \/ Outside(c)

Spec == Init /\ [][Next]_vars

\* Tasks and the game loop keep running; peers owe nothing.
FairSpec == Spec /\ WF_vars(GameStep) /\ \A c \in Clients : WF_vars(TaskStep(c))
=============================================================================
