---------------------------- MODULE BrokerProofs ----------------------------
(***************************************************************************)
(* For any number of clients, any capacities and any lines: the queues of  *)
(* the broker stay within their capacities, control is never held by a     *)
(* client the broker has forgotten and never stolen, the status ends up    *)
(* that of the broker, every line of a live client is answered or still    *)
(* worked on, and commands reach the game in the order of their seqs.      *)
(*                                                                         *)
(* The inductive invariant is Shape: a client between Register and CleanUp *)
(* is registered, one outside holds nothing, a handshaken one has used a   *)
(* seq, and a batch holds commands.  The status and the answers add only   *)
(* themselves to it; the order of commands adds OrderInv, which says for   *)
(* each part of the line - batch, queue, the command about to be sent -    *)
(* that it rises, lies above what was applied and below the last seq.      *)
(***************************************************************************)
EXTENDS BrokerSafety, FiniteSetTheorems, TLAPS

Messages == [client : Clients, seq : Nat, snapshot : BOOLEAN]

\* Every mailbox and the command queue within its capacity.
Bounded ==
  /\ mailbox \in [Clients -> 0..MailboxCapacity]
  /\ queue \in Seq(Messages) /\ Len(queue) <= QueueCapacity

\* The program counters of the tasks whose clients are registered.
Inside == {"status", "read", "assign", "snapshot", "send", "cleanup"}

TasksRegistered == \A c \in Clients : pc[c] \in Inside => c \in clients

BrokerInv ==
  /\ clients \subseteq Clients /\ DOMAIN pc = Clients
  /\ controller \in Clients \cup {None}
  /\ TasksRegistered
  /\ ControllerRegistered

-----------------------------------------------------------------------------
(* Capacities. *)

\* What bounds need: also the numbers the tasks put into the queue.
BoundedInv == Bounded /\ seq \in [Clients -> Nat]

\* An answer takes a place in a mailbox only if there is one.
LEMMA ReplyBounded ==
  ASSUME mailbox \in [Clients -> 0..MailboxCapacity], NEW c, NEW read, Reply(c, read)
  PROVE  mailbox' \in [Clients -> 0..MailboxCapacity]
<1>1. MailboxCapacity \in Nat BY BrokerAssumption
<1>2. mailbox' = [mailbox EXCEPT ![c] = mailbox[c] + IF HasRoom(c) THEN 1 ELSE 0]
  BY DEF Reply
<1>3. ASSUME NEW d \in Clients
      PROVE  mailbox'[d] \in 0..MailboxCapacity
  <2>1. mailbox[d] \in 0..MailboxCapacity OBVIOUS
  <2>2. CASE d = c /\ HasRoom(c) BY <1>1, <1>2, <2>1, <2>2 DEF HasRoom
  <2>3. CASE d = c /\ ~ HasRoom(c) BY <1>1, <1>2, <2>1, <2>3
  <2>4. CASE d # c BY <1>2, <2>1, <2>4
  <2> QED BY <2>2, <2>3, <2>4
<1> QED BY <1>2, <1>3

LEMMA BoundedStarts == Init => BoundedInv
<1>1. MailboxCapacity \in Nat /\ QueueCapacity \in Nat BY BrokerAssumption
<1> QED BY <1>1 DEF Init, BoundedInv, Bounded, Messages

\* The steps of a task, the peer and the game loop that a bound could notice.
LEMMA BoundedSteps == BoundedInv /\ [Next]_vars => BoundedInv'
<1> SUFFICES ASSUME BoundedInv, [Next]_vars PROVE BoundedInv' OBVIOUS
<1> USE DEF BoundedInv
<1>1. /\ mailbox \in [Clients -> 0..MailboxCapacity] /\ seq \in [Clients -> Nat]
      /\ queue \in Seq(Messages) /\ Len(queue) <= QueueCapacity
  BY DEF Bounded
<1>2. MailboxCapacity \in Nat /\ QueueCapacity \in Nat BY BrokerAssumption
<1>3. MaxSeq \in Nat /\ 1..MaxSeq \subseteq Nat BY BrokerAssumption
\* The three facts a step has to keep.
<1> DEFINE M == mailbox' \in [Clients -> 0..MailboxCapacity]
           S == seq' \in [Clients -> Nat]
           Q == queue' \in Seq(Messages) /\ Len(queue') <= QueueCapacity
<1>4. SUFFICES M /\ S /\ Q BY DEF Bounded
<1>5. ASSUME UNCHANGED <<mailbox, seq, queue>> PROVE M /\ S /\ Q BY <1>1, <1>5
<1>6. ASSUME NEW c \in Clients,
             Accept(c) \/ Register(c) \/ Disconnect(c) \/ SeeShutdown(c) \/ CleanUp(c)
             \/ EmitStatus(c) \/ Broadcast(c)
      PROVE  UNCHANGED <<mailbox, seq, queue>>
  BY <1>6 DEF Accept, Register, Disconnect, SeeShutdown, CleanUp, EmitStatus, Broadcast, boxes, loop
<1>7. ASSUME NEW c \in Clients, Sent(c) \/ WriterFails(c) \/ Leave(c)
      PROVE  M /\ S /\ Q
  <2>1. S /\ Q BY <1>1, <1>7 DEF Sent, WriterFails, Leave, loop
  <2>2. ASSUME NEW n \in 0..MailboxCapacity, mailbox' = [mailbox EXCEPT ![c] = n] PROVE M
    BY <1>1, <2>2
  <2>3. CASE Sent(c)
    <3>1. mailbox[c] - 1 \in 0..MailboxCapacity BY <1>1, <1>2, <2>3 DEF Sent
    <3> QED BY <2>1, <2>2, <2>3, <3>1 DEF Sent
  <2>4. CASE WriterFails(c) \/ Leave(c)
    <3>1. 0 \in 0..MailboxCapacity BY <1>2
    <3> QED BY <2>1, <2>2, <2>4, <3>1 DEF WriterFails, Leave
  <2> QED BY <1>7, <2>3, <2>4
\* Lines that are answered or passed on.
<1>8. ASSUME NEW c \in Clients, NEW n \in Nat, Refuse(c) \/ Continue(c, n, "assign") \/ Continue(c, n, "send")
      PROVE  M /\ S
  <2>1. CASE Refuse(c) BY <1>1, <2>1, ReplyBounded DEF Refuse
  <2>2. CASE Continue(c, n, "assign") \/ Continue(c, n, "send") BY <1>1, <2>2 DEF Continue
  <2> QED BY <1>8, <2>1, <2>2
<1>9. ASSUME NEW c \in Clients, ReadHello(c) \/ ReadCommand(c) PROVE M /\ S /\ Q
  <2>1. PICK n \in 1..MaxSeq : /\ Refuse(c) \/ Continue(c, n, "assign") \/ Continue(c, n, "send")
                               /\ UNCHANGED queue
    BY <1>3, <1>9 DEF ReadHello, ReadCommand, ReadLine, loop
  <2> QED BY <1>1, <1>3, <1>8, <2>1
<1>10. ASSUME NEW c \in Clients, ReadMismatch(c) \/ ReadClaim(c) \/ ReadRelease(c)
       PROVE  M /\ S /\ Q
  <2>1. Reply(c, 1) /\ UNCHANGED <<seq, queue>>
    BY <1>10 DEF ReadMismatch, ReadClaim, ReadRelease, ReadLine, loop
  <2> QED BY <1>1, <2>1, ReplyBounded
<1>11. ASSUME NEW c \in Clients, ReadUnknown(c) \/ ReadGarbage(c) PROVE M /\ S /\ Q
  <2>1. Refuse(c) /\ UNCHANGED queue
    BY <1>11 DEF ReadUnknown, ReadGarbage, ReadLine, loop
  <2> QED BY <1>1, <1>8, <2>1
\* The command queue: a place is taken only if there is one.
<1>12. ASSUME NEW m \in Messages, Len(queue) < QueueCapacity, queue' = Append(queue, m) PROVE Q
  BY <1>1, <1>2, <1>12
<1>13. ASSUME NEW c \in Clients, RequestSnapshot(c) PROVE M /\ S /\ Q
  <2>1. [client |-> c, seq |-> 0, snapshot |-> TRUE] \in Messages BY DEF Messages
  <2> QED BY <1>1, <1>12, <1>13, <2>1 DEF RequestSnapshot, boxes
<1>14. ASSUME NEW c \in Clients, SendCommand(c) PROVE M /\ S /\ Q
  <2>1. S BY <1>1, <1>14 DEF SendCommand
  <2>2. [client |-> c, seq |-> seq[c], snapshot |-> FALSE] \in Messages BY <1>1 DEF Messages
  <2>3. CASE Len(queue) < QueueCapacity
    BY <1>1, <1>12, <1>14, <2>1, <2>2, <2>3 DEF SendCommand, boxes
  <2>4. CASE ~ Len(queue) < QueueCapacity
    BY <1>1, <1>14, <2>1, <2>4, ReplyBounded DEF SendCommand
  <2> QED BY <2>3, <2>4
<1>15. ASSUME NEW c \in Clients, AssignRole(c) PROVE M /\ S /\ Q
  BY <1>1, <1>15, ReplyBounded DEF AssignRole, loop
<1>16. ASSUME GameTake PROVE M /\ S /\ Q
  <2>1. queue # <<>> /\ queue' = Tail(queue) /\ UNCHANGED <<mailbox, seq>> BY <1>16 DEF GameTake
  <2> QED BY <1>1, <1>2, <2>1
<1>17. ASSUME GameApply PROVE UNCHANGED <<mailbox, seq, queue>> BY <1>17 DEF GameApply, boxes
<1>18. ASSUME GameAck PROVE M /\ S /\ Q
  <2>1. PICK c : Reply(c, 0) /\ UNCHANGED <<seq, queue>> BY <1>18 DEF GameAck
  <2> QED BY <1>1, <2>1, ReplyBounded
<1>19. CASE UNCHANGED vars BY <1>5, <1>19 DEF vars, boxes, loop
<1>20. CASE Next
  <2>1. CASE GameStep BY <1>5, <1>16, <1>17, <1>18, <2>1 DEF GameStep
  <2>2. ASSUME NEW c \in Clients, TaskStep(c) PROVE M /\ S /\ Q
    BY <1>5, <1>6, <1>7, <1>13, <1>14, <1>15, <2>2 DEF TaskStep
  <2>3. ASSUME NEW c \in Clients, Outside(c) PROVE M /\ S /\ Q
    BY <1>5, <1>6, <1>7, <1>9, <1>10, <1>11, <2>3 DEF Outside
  <2> QED BY <1>20, <2>1, <2>2, <2>3 DEF Next
<1> QED BY <1>19, <1>20

\* server_config.rs, client_mailbox.rs: no client, however slow its writer, and no
\* flood of commands makes a queue of the adapter pass its capacity.
THEOREM QueuesBounded == Spec => []Bounded
<1>1. BoundedInv => Bounded BY DEF BoundedInv
<1> QED BY <1>1, BoundedStarts, BoundedSteps, PTL DEF Spec
-----------------------------------------------------------------------------
(* Control. *)

\* A promotion picks one of the clients it may pick from.
LEMMA LeastIsOne ==
  ASSUME NEW ids, ids \subseteq Nat, ids # {}
  PROVE  Least(ids) \in ids /\ \A y \in ids : Least(ids) <= y
<1> DEFINE Less == {ss \in Nat \X Nat : ss[1] < ss[2]}
<1>1. IsWellFoundedOn(Less, Nat) BY NatLessThanWellFounded, Zenon DEF OpToRel
<1> HIDE DEF Less
<1>2. PICK x \in ids : \A y \in ids : ~ (<<y, x>> \in Less) BY <1>1, WFMin
<1>3. ASSUME NEW y \in ids PROVE x <= y
  <2>1. x \in Nat /\ y \in Nat OBVIOUS
  <2>2. y < x => <<y, x>> \in Less BY <2>1 DEF Less
  <2> QED BY <1>2, <2>1, <2>2
<1> QED BY <1>3 DEF Least

LEMMA BrokerStarts == Init => BrokerInv
BY DEF Init, BrokerInv, TasksRegistered, ControllerRegistered, Inside

LEMMA BrokerSteps == BrokerInv /\ [Next]_vars => BrokerInv'
<1> SUFFICES ASSUME BrokerInv, [Next]_vars PROVE BrokerInv' OBVIOUS
<1>1. /\ clients \subseteq Clients /\ DOMAIN pc = Clients
      /\ controller \in Clients \cup {None}
      /\ \A c \in Clients : pc[c] \in Inside => c \in clients
      /\ controller # None => controller \in clients
  BY DEF BrokerInv, TasksRegistered, ControllerRegistered
<1>2. None \notin Clients /\ Clients \subseteq Nat BY BrokerAssumption
\* A step of the task of c keeps the invariant if c is registered by it or before, or
\* stays outside, and control stays, goes or becomes that of a registered client.
<1>3. ASSUME NEW c \in Clients, NEW w, pc' = [pc EXCEPT ![c] = w] \/ UNCHANGED pc,
             clients' = clients \/ clients' = clients \cup {c},
             w \in Inside => c \in clients',
             controller' \in {controller, NotStale, None} \/ (controller' = c /\ c \in clients')
      PROVE  BrokerInv'
  <2>1. NotStale \in {controller, None} BY DEF NotStale
  <2>2. clients' \subseteq Clients /\ clients \subseteq clients' BY <1>1, <1>3
  <2>3. DOMAIN pc' = Clients BY <1>1, <1>3
  <2>4. ASSUME NEW d \in Clients, pc'[d] \in Inside PROVE d \in clients'
    BY <1>1, <1>3, <2>2, <2>4
  <2> QED BY <1>1, <1>3, <2>1, <2>2, <2>3, <2>4 DEF BrokerInv, TasksRegistered, ControllerRegistered
<1>4. ASSUME UNCHANGED <<clients, controller, pc>> PROVE BrokerInv'
  BY <1>4 DEF BrokerInv, TasksRegistered, ControllerRegistered
<1>5. ASSUME NEW c \in Clients, CleanUp(c) PROVE BrokerInv'
  <2>1. /\ clients' = clients \ {c} /\ pc' = [pc EXCEPT ![c] = "leave"]
        /\ controller' = IF controller # c THEN controller
                         ELSE IF Eligible(clients') = {} THEN None ELSE Least(Eligible(clients'))
    BY <1>5 DEF CleanUp, RemoveAndPromote, GoTo
  <2>2. Eligible(clients') # {} => Least(Eligible(clients')) \in clients'
    <3>1. Eligible(clients') \subseteq clients' BY DEF Eligible
    <3>2. clients' \subseteq Nat BY <1>1, <1>2, <2>1
    <3> QED BY <3>1, <3>2, LeastIsOne
  <2>3. controller' = None \/ controller' \in clients' BY <1>1, <2>1, <2>2
  <2>4. ASSUME NEW d \in Clients, pc'[d] \in Inside PROVE d \in clients'
    BY <1>1, <2>1, <2>4 DEF Inside
  <2> QED BY <1>1, <2>1, <2>3, <2>4 DEF BrokerInv, TasksRegistered, ControllerRegistered
<1>6. ASSUME NEW c \in Clients, Accept(c) \/ Register(c) \/ Disconnect(c) \/ SeeShutdown(c)
             \/ EmitStatus(c) \/ Leave(c)
      PROVE  BrokerInv'
  <2>1. CASE Accept(c) BY <1>3, <2>1 DEF Accept, GoTo, broker, Inside
  <2>2. CASE Register(c) BY <1>3, <2>2 DEF Register, GoTo
  <2>3. CASE Disconnect(c) \/ SeeShutdown(c)
    BY <1>1, <1>3, <2>3 DEF Disconnect, SeeShutdown, GoTo, broker, Inside
  <2>4. CASE EmitStatus(c)
    <3> DEFINE w == IF pc[c] = "status" THEN "read" ELSE "flush"
    <3>1. pc' = [pc EXCEPT ![c] = w] BY <2>4 DEF EmitStatus, GoTo
    <3>2. w \in Inside => c \in clients BY <1>1 DEF Inside
    <3> HIDE DEF w
    <3> QED BY <1>3, <2>4, <3>1, <3>2 DEF EmitStatus, broker
  <2>5. CASE Leave(c) BY <1>3, <2>5 DEF Leave, GoTo, broker, Inside
  <2> QED BY <1>6, <2>1, <2>2, <2>3, <2>4, <2>5
<1>7. ASSUME NEW c \in Clients, AssignRole(c) \/ RequestSnapshot(c) \/ SendCommand(c) PROVE BrokerInv'
  <2>1. c \in clients BY <1>1, <1>7 DEF AssignRole, RequestSnapshot, SendCommand, Inside
  <2>2. \E w : pc' = [pc EXCEPT ![c] = w] BY <1>7 DEF AssignRole, RequestSnapshot, SendCommand, GoTo
  <2>3. clients' = clients /\ controller' \in {controller, NotStale, c}
    BY <1>7 DEF AssignRole, RequestSnapshot, SendCommand, broker
  <2> QED BY <1>3, <2>1, <2>2, <2>3
<1>8. ASSUME NEW c \in Clients, ReadHello(c) \/ ReadMismatch(c) \/ ReadCommand(c) \/ ReadClaim(c)
             \/ ReadRelease(c) \/ ReadUnknown(c) \/ ReadGarbage(c)
      PROVE  BrokerInv'
  <2>1. c \in clients
    BY <1>1, <1>8 DEF ReadHello, ReadMismatch, ReadCommand, ReadClaim, ReadRelease, ReadUnknown,
                      ReadGarbage, ReadLine, Inside
  <2>2. CASE ReadHello(c) \/ ReadCommand(c) \/ ReadUnknown(c) \/ ReadGarbage(c)
    <3>1. \E w : pc' = [pc EXCEPT ![c] = w] \/ UNCHANGED pc
      BY <2>2 DEF ReadHello, ReadCommand, ReadUnknown, ReadGarbage, Refuse, Continue, GoTo
    <3>2. UNCHANGED <<clients, controller>>
      BY <2>2 DEF ReadHello, ReadCommand, ReadUnknown, ReadGarbage, broker
    <3> QED BY <1>3, <2>1, <3>1, <3>2
  <2>3. CASE ReadMismatch(c) BY <1>3, <2>1, <2>3 DEF ReadMismatch, GoTo, broker
  <2>4. CASE ReadClaim(c) \/ ReadRelease(c)
    <3>1. \E w : pc' = [pc EXCEPT ![c] = w] \/ UNCHANGED pc
      BY <2>4 DEF ReadClaim, ReadRelease, GoTo
    <3>2. clients' = clients /\ controller' \in {controller, None, c}
      BY <2>4 DEF ReadClaim, ReadRelease
    <3> QED BY <1>3, <2>1, <3>1, <3>2
  <2> QED BY <1>8, <2>2, <2>3, <2>4
<1>9. ASSUME NEW c \in Clients, Sent(c) \/ WriterFails(c) \/ Broadcast(c) PROVE BrokerInv'
  BY <1>4, <1>9 DEF Sent, WriterFails, Broadcast, broker
<1>10. CASE GameStep BY <1>4, <1>10 DEF GameStep, GameTake, GameApply, GameAck, broker
<1>11. CASE UNCHANGED vars BY <1>4, <1>11 DEF vars, broker
<1>12. ASSUME NEW c \in Clients, TaskStep(c) \/ Outside(c) PROVE BrokerInv'
  BY <1>5, <1>6, <1>7, <1>8, <1>9, <1>12 DEF TaskStep, Outside
<1> QED BY <1>10, <1>11, <1>12 DEF Next

\* SPEC.md: stale controller assignments are removed on disconnect, whoever dies,
\* hangs up or is promoted, in whatever order.
THEOREM ControllerAlwaysRegistered == Spec => []ControllerRegistered
<1>1. BrokerInv => ControllerRegistered BY DEF BrokerInv
<1> QED BY <1>1, BrokerStarts, BrokerSteps, PTL DEF Spec
-----------------------------------------------------------------------------
(* The invariant under the other properties: types, and what ties a task to *)
(* its client's entries everywhere else.                                    *)

PCs == {"off", "accepted", "status", "read", "assign", "snapshot", "send", "cleanup", "leave",
        "flush", "gone"}

Handles == [requested_role : {"auto", "observer"}, stream : BOOLEAN, handshaken : BOOLEAN,
            last_seq : Nat]

Types ==
  /\ Bounded /\ seq \in [Clients -> Nat]
  /\ clients \subseteq Clients /\ controller \in Clients \cup {None}
  /\ pc \in [Clients -> PCs] /\ handle \in [Clients -> Handles]
  /\ writer \in [Clients -> BOOLEAN] /\ shutdown \in [Clients -> BOOLEAN]
  /\ owed \in [Clients -> Int]
  /\ game \in [pc : {"drain", "ack"}, drained : Nat, pending : Seq(Messages)]

\* A client is registered from Register to CleanUp.
Registered == \A c \in Clients : c \in clients <=> pc[c] \in Inside

\* Before that nothing is known of it, and no message of it is anywhere.
Absent(c, messages) == \A i \in 1..Len(messages) : messages[i].client # c

Untouched ==
  \A c \in Clients : pc[c] \in {"off", "accepted"} =>
    /\ handle[c] = NoHello /\ seq[c] = 0 /\ owed[c] = 0 /\ applied[c] = 0 /\ ~ shutdown[c]
    /\ Absent(c, queue) /\ Absent(c, game.pending)

\* A seq is used only after the handshake.
SeqAfterHello == \A c \in Clients : ~ handle[c].handshaken => handle[c].last_seq = 0

\* A batch holds commands; there is something to answer.
BatchOfCommands ==
  /\ \A i \in 1..Len(game.pending) : ~ game.pending[i].snapshot
  /\ game.pc = "ack" => game.pending # <<>>

Shape == Types /\ ControllerRegistered /\ Registered /\ Untouched /\ SeqAfterHello /\ BatchOfCommands

\* The commands of c rise within a queue, and from one part of the line to the next.
Rising(c, messages) ==
  \A i, j \in Mine(c, messages) : i < j => messages[i].seq < messages[j].seq

Above(c, messages, n) == \A i \in Mine(c, messages) : n < messages[i].seq
Below(c, messages, n) == \A i \in Mine(c, messages) : messages[i].seq < n
UpTo(c, messages, n)  == \A i \in Mine(c, messages) : messages[i].seq <= n

Batch == IF game.pc = "drain" THEN game.pending ELSE <<>>

OrderOf(c) ==
  /\ applied[c] \in Nat
  /\ Rising(c, Batch) /\ Rising(c, queue)
  /\ \A i \in Mine(c, queue) : Below(c, Batch, queue[i].seq)
  /\ Above(c, Batch, applied[c]) /\ Above(c, queue, applied[c])
  /\ pc[c] = "send" => /\ applied[c] < seq[c] 
                       /\ Below(c, Batch, seq[c]) /\ Below(c, queue, seq[c])
  /\ c \in clients =>
       LET last == handle[c].last_seq
       IN  applied[c] <= last /\ seq[c] <= last /\ UpTo(c, Batch, last) /\ UpTo(c, queue, last)

OrderInv == \A c \in Clients : OrderOf(c)
-----------------------------------------------------------------------------
(* Types. *)

LEMMA TypesStart == Init => Types
<1> SUFFICES ASSUME Init PROVE Types OBVIOUS
<1>1. Bounded /\ seq \in [Clients -> Nat] BY BoundedStarts DEF BoundedInv
<1>2. NoHello \in Handles BY DEF NoHello, Handles
<1>3. "off" \in PCs BY DEF PCs
<1>4. game \in [pc : {"drain", "ack"}, drained : Nat, pending : Seq(Messages)] BY DEF Init
<1> QED BY <1>1, <1>2, <1>3, <1>4 DEF Init, Types

\* An answer changes nothing but the mailbox, the shutdown and the debt of c; as long
\* as c lives, the debt falls by one.
LEMMA ReplyFrame ==
  ASSUME Types, NEW c \in Clients, NEW read \in {0, 1}, Reply(c, read)
  PROVE  /\ writer' = writer
         /\ shutdown' \in [Clients -> BOOLEAN] /\ owed' \in [Clients -> Int]
         /\ \A d \in Clients \ {c} : shutdown'[d] = shutdown[d] /\ owed'[d] = owed[d]
         /\ shutdown[c] => shutdown'[c]
         /\ writer[c] /\ ~ shutdown'[c] => owed'[c] = owed[c] + read - 1
<1>1. (owed[c] + read - IF HasRoom(c) THEN 1 ELSE 0) \in Int BY DEF Types
<1>2. owed' = [owed EXCEPT ![c] = owed[c] + read - IF HasRoom(c) THEN 1 ELSE 0]
  BY DEF Reply
<1>3. shutdown' = [shutdown EXCEPT ![c] = shutdown[c] \/ (writer[c] /\ ~ HasRoom(c))]
  BY DEF Reply
<1>4. (shutdown[c] \/ (writer[c] /\ ~ HasRoom(c))) \in BOOLEAN OBVIOUS
<1>5. writer' = writer BY DEF Reply
<1>6. owed' \in [Clients -> Int] BY <1>1, <1>2 DEF Types
<1>7. shutdown' \in [Clients -> BOOLEAN] BY <1>3, <1>4 DEF Types
<1>8. \A d \in Clients \ {c} : shutdown'[d] = shutdown[d] /\ owed'[d] = owed[d]
  BY <1>2, <1>3 DEF Types
<1>9. shutdown'[c] = (shutdown[c] \/ (writer[c] /\ ~ HasRoom(c)))
  BY <1>3 DEF Types
<1>10. shutdown[c] => shutdown'[c] BY <1>9
<1>11. writer[c] /\ ~ shutdown'[c] => owed'[c] = owed[c] + read - 1
  <2>1. owed'[c] = owed[c] + read - IF HasRoom(c) THEN 1 ELSE 0 BY <1>2 DEF Types
  <2>2. writer[c] /\ ~ shutdown'[c] => HasRoom(c) BY <1>9
  <2> QED BY <2>1, <2>2
<1> QED BY <1>5, <1>6, <1>7, <1>8, <1>10, <1>11

LEMMA ConstantRanges ==
  /\ 1..MaxSeq \subseteq Nat /\ Roles \subseteq {"auto", "observer"} /\ Streams \subseteq BOOLEAN
  /\ None \notin Clients /\ Clients \subseteq Nat
  /\ QueueCapacity \in Nat \ {0} /\ MailboxCapacity \in Nat \ {0} /\ BatchSize \in Nat \ {0}
BY BrokerAssumption

\* Using up a seq keeps a handle.
LEMMA UseSeqFrame ==
  ASSUME Types, NEW c \in Clients, NEW n \in Nat, UseSeq(c, n)
  PROVE  /\ handle' \in [Clients -> Handles]
         /\ \A d \in Clients \ {c} : handle'[d] = handle[d]
         /\ handle'[c].last_seq = n
         /\ handle'[c].stream = handle[c].stream
         /\ handle'[c].requested_role = handle[c].requested_role
         /\ handle'[c].handshaken = handle[c].handshaken
<1>1. handle[c] \in Handles /\ handle \in [Clients -> Handles] BY DEF Types
<1>2. handle' = [handle EXCEPT ![c] = [handle[c] EXCEPT !.last_seq = n]] BY DEF UseSeq
<1> DEFINE new == [handle[c] EXCEPT !.last_seq = n]
<1>3. /\ new \in Handles /\ new.last_seq = n /\ new.stream = handle[c].stream
      /\ new.requested_role = handle[c].requested_role
      /\ new.handshaken = handle[c].handshaken
  BY <1>1 DEF Handles
<1> HIDE DEF new
<1>4. handle' = [handle EXCEPT ![c] = new] BY <1>2 DEF new
<1> QED BY <1>1, <1>3, <1>4

\* A step of a client's task, its writer or its peer leaves the other clients alone,
\* the batch of the game loop, and the queue up to one message of its own.
Same(d) ==
  /\ pc'[d] = pc[d] /\ seq'[d] = seq[d] /\ handle'[d] = handle[d] /\ owed'[d] = owed[d]
  /\ writer'[d] = writer[d] /\ shutdown'[d] = shutdown[d]
  /\ d \in clients' <=> d \in clients

ClientTypes ==
  /\ clients \subseteq Clients /\ controller \in Clients \cup {None}
  /\ pc \in [Clients -> PCs] /\ handle \in [Clients -> Handles]
  /\ writer \in [Clients -> BOOLEAN] /\ shutdown \in [Clients -> BOOLEAN]
  /\ owed \in [Clients -> Int]

LEMMA GoToFrame ==
  ASSUME pc \in [Clients -> PCs], NEW c \in Clients, NEW where \in PCs, GoTo(c, where)
  PROVE  /\ pc' \in [Clients -> PCs] /\ pc'[c] = where
         /\ \A d \in Clients \ {c} : pc'[d] = pc[d]
BY DEF GoTo

LEMMA PCsOK == {"off", "accepted", "status", "read", "assign", "snapshot", "send", "cleanup", "leave",
        "flush", "gone"} \subseteq PCs
BY DEF PCs

LEMMA NotStaleOK == NotStale \in {controller, None}
BY DEF NotStale

LEMMA ConnectionFrame ==
  ASSUME Types, NEW c \in Clients,
         Accept(c) \/ Register(c) \/ Disconnect(c) \/ SeeShutdown(c) \/ EmitStatus(c)
  PROVE  ClientTypes' /\ \A d \in Clients \ {c} : Same(d)
<1>1. CASE Accept(c) BY <1>1, GoToFrame, PCsOK DEF Accept, broker, boxes, loop, Types, ClientTypes, Same
<1>2. CASE Register(c) BY <1>2, GoToFrame, PCsOK DEF Register, broker, boxes, loop, Types, ClientTypes, Same
<1>3. CASE Disconnect(c) BY <1>3, GoToFrame, PCsOK DEF Disconnect, broker, boxes, loop, Types, ClientTypes, Same
<1>4. CASE SeeShutdown(c) BY <1>4, GoToFrame, PCsOK DEF SeeShutdown, broker, boxes, loop, Types, ClientTypes, Same
<1>5. CASE EmitStatus(c)
  <2> DEFINE w == IF pc[c] = "status" THEN "read" ELSE "flush"
  <2>1. GoTo(c, w) BY <1>5 DEF EmitStatus
  <2>2. w \in PCs BY PCsOK
  <2> HIDE DEF w
  <2> QED BY <1>5, <2>1, <2>2, GoToFrame DEF EmitStatus, broker, boxes, loop, Types, ClientTypes, Same
<1> QED BY <1>1, <1>2, <1>3, <1>4, <1>5

LEMMA DepartureFrame ==
  ASSUME Types, NEW c \in Clients,
         CleanUp(c) \/ Leave(c) \/ Sent(c) \/ WriterFails(c) \/ Broadcast(c)
  PROVE  ClientTypes' /\ \A d \in Clients \ {c} : Same(d)
<1>1. CASE CleanUp(c)
  <2>1. NoHello \in Handles BY DEF NoHello, Handles
  <2>2. clients' = clients \ {c} /\ handle' = [handle EXCEPT ![c] = NoHello] /\ GoTo(c, "leave")
    BY <1>1 DEF CleanUp, RemoveAndPromote
  <2>3. controller' \in Clients \cup {None}
    <3>1. Eligible(clients') \subseteq clients' /\ clients' \subseteq Clients BY <2>2 DEF Eligible, Types
    <3>2. Eligible(clients') # {} => Least(Eligible(clients')) \in Clients
      BY <3>1, LeastIsOne, ConstantRanges
    <3> QED BY <1>1, <3>2 DEF CleanUp, RemoveAndPromote, Types
  <2> QED BY <1>1, <2>1, <2>2, <2>3, GoToFrame, PCsOK
          DEF CleanUp, boxes, loop, Types, ClientTypes, Same
<1>2. CASE Leave(c) BY <1>2, GoToFrame, PCsOK DEF Leave, broker, loop, Types, ClientTypes, Same
<1>3. CASE Sent(c) BY <1>3 DEF Sent, broker, loop, Types, ClientTypes, Same
<1>4. CASE WriterFails(c) BY <1>4 DEF WriterFails, broker, loop, Types, ClientTypes, Same
<1>5. CASE Broadcast(c) BY <1>5 DEF Broadcast, broker, loop, Types, ClientTypes, Same
<1> QED BY <1>1, <1>2, <1>3, <1>4, <1>5

LEMMA TaskFrame ==
  ASSUME Types, NEW c \in Clients, AssignRole(c) \/ RequestSnapshot(c) \/ SendCommand(c)
  PROVE  ClientTypes' /\ \A d \in Clients \ {c} : Same(d)
<1>1. CASE AssignRole(c)
  <2> DEFINE w == IF handle[c].stream THEN "snapshot" ELSE "status"
  <2>1. GoTo(c, w) /\ Reply(c, 0) /\ UNCHANGED <<clients, handle>> BY <1>1 DEF AssignRole
  <2>2. w \in PCs BY PCsOK
  <2> HIDE DEF w
  <2>3. controller' \in Clients \cup {None} BY <1>1, NotStaleOK DEF AssignRole, Types
  <2>4. seq' = [seq EXCEPT ![c] = 0] BY <1>1 DEF AssignRole
  <2>5. /\ writer' = writer
        /\ shutdown' \in [Clients -> BOOLEAN] /\ owed' \in [Clients -> Int]
        /\ \A d \in Clients \ {c} : shutdown'[d] = shutdown[d] /\ owed'[d] = owed[d]
    BY <2>1, ReplyFrame
  <2>6. /\ pc' \in [Clients -> PCs]
        /\ \A d \in Clients \ {c} : pc'[d] = pc[d]
    BY <2>1, <2>2, GoToFrame DEF Types
  <2> QED BY <2>1, <2>3, <2>4, <2>5, <2>6 DEF Types, ClientTypes, Same
<1>2. CASE RequestSnapshot(c)
  BY <1>2, GoToFrame, PCsOK DEF RequestSnapshot, broker, boxes, Types, ClientTypes, Same
<1>3. CASE SendCommand(c)
  <2>1. /\ writer' = writer
        /\ shutdown' \in [Clients -> BOOLEAN] /\ owed' \in [Clients -> Int]
        /\ \A d \in Clients \ {c} : shutdown'[d] = shutdown[d] /\ owed'[d] = owed[d]
    BY <1>3, ReplyFrame DEF SendCommand, boxes, Types
  <2>2. GoTo(c, "read") /\ seq' = [seq EXCEPT ![c] = 0] /\ UNCHANGED broker BY <1>3 DEF SendCommand
  <2> QED BY <2>1, <2>2, GoToFrame, PCsOK DEF broker, Types, ClientTypes, Same
<1> QED BY <1>1, <1>2, <1>3

\* Lines: what stays the same, and what is answered or passed on.
LEMMA AnswerFrame ==
  ASSUME Types, NEW c \in Clients, NEW n \in Nat,
         Refuse(c) \/ Continue(c, n, "assign") \/ Continue(c, n, "send")
  PROVE  /\ pc' \in [Clients -> PCs] /\ writer' = writer
         /\ shutdown' \in [Clients -> BOOLEAN] /\ owed' \in [Clients -> Int]
         /\ \A d \in Clients \ {c} : /\ pc'[d] = pc[d] /\ seq'[d] = seq[d]
                                     /\ shutdown'[d] = shutdown[d] /\ owed'[d] = owed[d]
<1>1. CASE Refuse(c) BY <1>1, ReplyFrame DEF Refuse, Types
<1>2. CASE Continue(c, n, "assign") BY <1>2, GoToFrame, PCsOK DEF Continue, Types
<1>3. CASE Continue(c, n, "send") BY <1>3, GoToFrame, PCsOK DEF Continue, Types
<1> QED BY <1>1, <1>2, <1>3

LEMMA LineFrame ==
  ASSUME Types, NEW c \in Clients,
         ReadHello(c) \/ ReadMismatch(c) \/ ReadCommand(c) \/ ReadClaim(c)
         \/ ReadRelease(c) \/ ReadUnknown(c) \/ ReadGarbage(c)
  PROVE  ClientTypes' /\ \A d \in Clients \ {c} : Same(d)
\* What each kind of line does to the registry, and to the rest.
<1> DEFINE Handled == /\ handle' \in [Clients -> Handles]
                      /\ \A d \in Clients \ {c} : handle'[d] = handle[d]
           Answered == /\ pc' \in [Clients -> PCs] /\ writer' = writer
                       /\ shutdown' \in [Clients -> BOOLEAN] /\ owed' \in [Clients -> Int]
                       /\ \A d \in Clients \ {c} : /\ pc'[d] = pc[d] /\ seq'[d] = seq[d]
                                                   /\ shutdown'[d] = shutdown[d]
                                                   /\ owed'[d] = owed[d]
<1>1. SUFFICES Handled /\ Answered /\ clients' = clients /\ controller' \in Clients \cup {None}
  BY DEF Types, ClientTypes, Same
<1>2. 1..MaxSeq \subseteq Nat BY ConstantRanges
<1>3. UNCHANGED handle => Handled BY DEF Types
<1>4. ASSUME NEW n \in Nat, UseSeq(c, n) PROVE Handled BY <1>4, UseSeqFrame
<1>5. CASE ReadHello(c)
  <2>1. PICK n \in 1..MaxSeq :
          /\ UNCHANGED <<clients, controller>>
          /\ \/ Refuse(c) /\ UNCHANGED handle
             \/ /\ \E role \in Roles, stream \in Streams :
                     handle' = [handle EXCEPT ![c] = [requested_role |-> role, stream |-> stream,
                                                      handshaken |-> TRUE, last_seq |-> n]]
                /\ Continue(c, n, "assign")
    BY <1>5 DEF ReadHello
  <2>2. Answered BY <1>2, <2>1, AnswerFrame
  <2>3. ASSUME NEW h \in Handles, handle' = [handle EXCEPT ![c] = h] PROVE Handled
    BY <2>3 DEF Types
  <2>4. ASSUME NEW role \in Roles, NEW stream \in Streams
        PROVE  [requested_role |-> role, stream |-> stream, handshaken |-> TRUE, last_seq |-> n]
                 \in Handles
    BY <1>2, ConstantRanges DEF Handles
  <2>5. Handled BY <1>3, <2>1, <2>3, <2>4
  <2> QED BY <2>1, <2>2, <2>5 DEF Types
<1>6. CASE ReadMismatch(c)
  <2>1. Reply(c, 1) /\ GoTo(c, "cleanup") /\ UNCHANGED <<broker, seq>> BY <1>6 DEF ReadMismatch
  <2> QED BY <2>1, <1>3, ReplyFrame, GoToFrame, PCsOK DEF Types, broker
<1>7. CASE ReadCommand(c)
  <2>1. PICK n \in 1..MaxSeq :
          /\ UNCHANGED <<clients, controller>>
          /\ UNCHANGED handle \/ UseSeq(c, n)
          /\ Refuse(c) \/ Continue(c, n, "send")
    BY <1>7 DEF ReadCommand
  <2>2. n \in Nat BY <1>2
  <2>3. Answered BY <2>1, <2>2, AnswerFrame
  <2>4. Handled BY <1>3, <1>4, <2>1, <2>2
  <2>5. clients' = clients /\ controller' = controller BY <1>7 DEF ReadCommand
  <2> QED BY <2>3, <2>4, <2>5 DEF Types
<1>8. CASE ReadClaim(c) \/ ReadRelease(c)
  <2>1. PICK n \in 1..MaxSeq :
          /\ Reply(c, 1) /\ UNCHANGED <<clients, seq>>
          /\ controller' \in {controller, c, None}
          /\ UNCHANGED pc \/ GoTo(c, "status")
          /\ UNCHANGED handle \/ UseSeq(c, n)
    BY <1>8 DEF ReadClaim, ReadRelease
  <2>2. Handled BY <1>2, <1>3, <1>4, <2>1
  <2>3. pc' \in [Clients -> PCs] /\ \A d \in Clients \ {c} : pc'[d] = pc[d]
    BY <2>1, GoToFrame, PCsOK DEF Types
  <2> QED BY <2>1, <2>2, <2>3, ReplyFrame DEF Types
<1>9. CASE ReadUnknown(c) \/ ReadGarbage(c)
  <2>1. /\ Refuse(c) /\ UNCHANGED <<clients, controller>>
        /\ UNCHANGED handle \/ \E n \in 1..MaxSeq : UseSeq(c, n)
    BY <1>9 DEF ReadUnknown, ReadGarbage, broker
  <2>2. Answered
    <3>1. 0 \in Nat OBVIOUS
    <3> QED BY <2>1, <3>1, AnswerFrame
  <2>3. Handled BY <1>2, <1>3, <1>4, <2>1
  <2> QED BY <2>1, <2>2, <2>3 DEF Types
<1> QED BY <1>5, <1>6, <1>7, <1>8, <1>9

\* What a step of c leaves of the rest.
LEMMA ClientFrame ==
  ASSUME Types, NEW c \in Clients, TaskStep(c) \/ Outside(c)
  PROVE  /\ ClientTypes' /\ \A d \in Clients \ {c} : Same(d)
         /\ UNCHANGED <<game, applied>>
         /\ \/ UNCHANGED queue
            \/ \E m \in Messages : m.client = c /\ queue' = Append(queue, m)
<1>1. ClientTypes' /\ \A d \in Clients \ {c} : Same(d)
  BY ConnectionFrame, DepartureFrame, TaskFrame, LineFrame DEF TaskStep, Outside
<1>2. CASE RequestSnapshot(c)
  <2>1. [client |-> c, seq |-> 0, snapshot |-> TRUE] \in Messages BY DEF Messages
  <2> QED BY <1>1, <1>2, <2>1 DEF RequestSnapshot
<1>3. CASE SendCommand(c)
  <2>1. [client |-> c, seq |-> seq[c], snapshot |-> FALSE] \in Messages BY DEF Messages, Types
  <2> QED BY <1>1, <1>3, <2>1 DEF SendCommand
<1>4. CASE ~ RequestSnapshot(c) /\ ~ SendCommand(c)
  <2>1. UNCHANGED loop
    BY <1>4 DEF TaskStep, Outside, Accept, Register, Disconnect, SeeShutdown, EmitStatus, CleanUp,
                Leave, Sent, WriterFails, Broadcast, AssignRole, ReadHello, ReadMismatch,
                ReadCommand, ReadClaim, ReadRelease, ReadUnknown, ReadGarbage, ReadLine
  <2> QED BY <1>1, <2>1 DEF loop
<1> QED BY <1>2, <1>3, <1>4

\* The game loop: it takes a message, applies its batch or answers its head.
LEMMA GameFrame ==
  ASSUME Types, BatchOfCommands, GameStep
  PROVE  /\ UNCHANGED <<broker, status, pc, seq, writer>>
         /\ shutdown' \in [Clients -> BOOLEAN] /\ owed' \in [Clients -> Int]
         /\ game' \in [pc : {"drain", "ack"}, drained : Nat, pending : Seq(Messages)]
         /\ BatchOfCommands'
<1> DEFINE Games == [pc : {"drain", "ack"}, drained : Nat, pending : Seq(Messages)]
<1>1. game \in Games /\ queue \in Seq(Messages) BY DEF Types, Bounded
<1> DEFINE Was == game.pending
<1>w. Was \in Seq(Messages) /\ game.drained \in Nat BY <1>1
\* A new batch, place and count.
<1>g. ASSUME NEW p \in Seq(Messages), NEW w \in {"drain", "ack"}, NEW k \in Nat,
             game' = [game EXCEPT !.drained = k, !.pc = w, !.pending = p]
      PROVE  game' \in Games /\ game'.pc = w /\ game'.pending = p /\ game'.drained = k
  BY <1>1, <1>g
<1>2. CASE GameTake
  <2> DEFINE m == Head(queue)
             rest == IF m.snapshot THEN game.pending ELSE Append(game.pending, m)
  <2>1. m \in Messages /\ game.pc = "drain" BY <1>1, <1>2 DEF GameTake
  <2>2. rest \in Seq(Messages) BY <1>1, <2>1
  <2>3. \A i \in 1..Len(rest) : ~ rest[i].snapshot
    <3>1. CASE m.snapshot BY <3>1 DEF BatchOfCommands
    <3>2. CASE ~ m.snapshot
      <4>1. rest = Append(game.pending, m) BY <3>2
      <4>2. \A i \in 1..Len(rest) : rest[i] = m \/ (i \in 1..Len(game.pending) /\ rest[i] = game.pending[i])
        BY <1>1, <2>1, <4>1
      <4> QED BY <3>2, <4>2 DEF BatchOfCommands
    <3> QED BY <3>1, <3>2
  <2>4. game' = [game EXCEPT !.drained = game.drained + 1, !.pc = "drain", !.pending = rest]
    BY <1>1, <1>2, <2>1 DEF GameTake
  <2>5. shutdown' \in [Clients -> BOOLEAN]
    <3>1. shutdown' = [shutdown EXCEPT ![m.client] = shutdown[m.client] \/ (m.snapshot /\ ~ Live(m.client))]
      BY <1>2 DEF GameTake
    <3>2. (shutdown[m.client] \/ (m.snapshot /\ ~ Live(m.client))) \in BOOLEAN OBVIOUS
    <3> QED BY <3>1, <3>2 DEF Types
  <2> HIDE DEF m, rest
  <2>6. game'.pc = "drain" /\ game'.pending = rest /\ game' \in Games
    <3>1. game.drained + 1 \in Nat BY <1>w
    <3>2. "drain" \in {"drain", "ack"} OBVIOUS
    <3> HIDE DEF Games
    <3> QED BY <1>g, <2>2, <2>4, <3>1, <3>2
  <2> QED BY <1>2, <2>3, <2>5, <2>6 DEF GameTake, Types, BatchOfCommands, broker
<1>3. CASE GameApply
  <2> DEFINE w == IF game.pending = <<>> THEN "drain" ELSE "ack"
  <2>1. game' = [game EXCEPT !.drained = 0, !.pc = w] BY <1>3 DEF GameApply
  <2>2. game' \in Games /\ game'.pc = w /\ game'.pending = game.pending BY <1>1, <2>1
  <2>3. BatchOfCommands' BY <2>2 DEF BatchOfCommands
  <2> QED BY <1>3, <2>2, <2>3 DEF GameApply, Types, broker, boxes
<1>4. CASE GameAck
  <2> DEFINE c == Head(game.pending).client
             w == IF Len(game.pending) = 1 THEN "drain" ELSE "ack"
  <2>1. game.pending # <<>> BY <1>4 DEF GameAck, BatchOfCommands
  <2>2. c \in Clients
    <3>1. Head(Was) \in Messages BY <1>w, <2>1
    <3> QED BY <3>1 DEF Messages
  <2>3. Reply(c, 0) BY <1>4 DEF GameAck
  <2>4. game' = [game EXCEPT !.drained = game.drained, !.pc = w, !.pending = Tail(Was)]
    BY <1>1, <1>4 DEF GameAck
  <2>5. game' \in Games /\ game'.pc = w /\ game'.pending = Tail(Was)
    <3>1. Tail(Was) \in Seq(Messages) BY <1>w, <2>1
    <3> QED BY <1>g, <1>w, <2>4, <3>1
  <2>6. \A i \in 1..Len(Tail(Was)) : i+1 \in 1..Len(Was) /\ Tail(Was)[i] = Was[i+1]
    BY <1>w, <2>1
  <2>7. w = "ack" => Tail(Was) # <<>>
    <3>1. Len(Tail(Was)) = Len(Was) - 1 /\ Len(Was) \in Nat BY <1>w, <2>1
    <3>2. w = "ack" => Len(Tail(Was)) # 0 BY <3>1
    <3> QED BY <3>2
  <2>8. BatchOfCommands' BY <2>5, <2>6, <2>7 DEF BatchOfCommands
  <2> HIDE DEF c
  <2> QED BY <1>4, <2>2, <2>3, <2>5, <2>8, ReplyFrame DEF GameAck, broker
<1> QED BY <1>2, <1>3, <1>4 DEF GameStep

LEMMA TypesStep == Types /\ BatchOfCommands /\ [Next]_vars => Types' /\ BatchOfCommands'
<1> SUFFICES ASSUME Types, BatchOfCommands, [Next]_vars PROVE Types' /\ BatchOfCommands' OBVIOUS
<1>1. Bounded' /\ seq' \in [Clients -> Nat] BY BoundedSteps DEF BoundedInv, Types
<1>2. CASE GameStep BY <1>1, <1>2, GameFrame DEF Types, broker
<1>3. ASSUME NEW c \in Clients, TaskStep(c) \/ Outside(c) PROVE Types' /\ BatchOfCommands'
  BY <1>1, <1>3, ClientFrame DEF Types, ClientTypes, BatchOfCommands
<1>4. CASE UNCHANGED vars
  BY <1>1, <1>4 DEF vars, broker, boxes, loop, Types, BatchOfCommands
<1> QED BY <1>2, <1>3, <1>4 DEF Next
-----------------------------------------------------------------------------
(* Registration and the seqs of a handle. *)

\* Where the task of c gets by a step of its own.
Outsider(c) == c \notin clients' /\ pc'[c] \notin Inside
Insider(c)  == c \in clients' /\ pc'[c] \in Inside

LEMMA OwnRegistered ==
  ASSUME Types, Registered, NEW c \in Clients, TaskStep(c) \/ Outside(c)
  PROVE  /\ Insider(c) \/ Outsider(c)
         /\ pc'[c] \in {"off", "accepted"} =>
              /\ pc[c] \in {"off", "accepted"}
              /\ handle'[c] = handle[c] /\ seq'[c] = seq[c] /\ owed'[c] = owed[c]
              /\ shutdown'[c] = shutdown[c] /\ UNCHANGED queue
<1> USE DEF Insider, Outsider
<1>1. c \in clients <=> pc[c] \in Inside BY DEF Registered
<1>2. DOMAIN pc = Clients BY DEF Types
<1>3. CASE Accept(c) BY <1>1, <1>2, <1>3 DEF Accept, GoTo, broker, boxes, loop, Inside
<1>4. CASE Register(c) BY <1>1, <1>2, <1>4 DEF Register, GoTo, Inside
<1>5. CASE Disconnect(c) \/ SeeShutdown(c)
  BY <1>1, <1>2, <1>5 DEF Disconnect, SeeShutdown, GoTo, broker, Inside
<1>6. CASE EmitStatus(c)
  <2>1. CASE pc[c] = "status"
    <3>1. pc' = [pc EXCEPT ![c] = "read"] /\ clients' = clients BY <1>6, <2>1 DEF EmitStatus, GoTo, broker
    <3> QED BY <1>1, <1>2, <2>1, <3>1 DEF Inside
  <2>2. CASE pc[c] = "leave"
    <3>1. pc' = [pc EXCEPT ![c] = "flush"] /\ clients' = clients BY <1>6, <2>2 DEF EmitStatus, GoTo, broker
    <3> QED BY <1>1, <1>2, <2>2, <3>1 DEF Inside
  <2> QED BY <1>6, <2>1, <2>2 DEF EmitStatus
<1>7. CASE CleanUp(c) BY <1>1, <1>2, <1>7 DEF CleanUp, RemoveAndPromote, GoTo, Inside
<1>8. CASE Leave(c) BY <1>1, <1>2, <1>8 DEF Leave, GoTo, broker, Inside
<1>9. CASE Sent(c) \/ WriterFails(c)
  BY <1>1, <1>2, <1>9 DEF Sent, WriterFails, broker, loop
<1>10. CASE Broadcast(c) BY <1>1, <1>2, <1>10 DEF Broadcast, broker, Inside
<1>11. CASE AssignRole(c) \/ RequestSnapshot(c) \/ SendCommand(c)
  <2>1. pc[c] \in Inside /\ clients' = clients
    BY <1>11 DEF AssignRole, RequestSnapshot, SendCommand, broker, Inside
  <2>2. \E w \in {"snapshot", "status", "read"} : pc' = [pc EXCEPT ![c] = w]
    BY <1>11 DEF AssignRole, RequestSnapshot, SendCommand, GoTo
  <2> QED BY <1>1, <1>2, <2>1, <2>2 DEF Inside
<1>12. CASE ReadHello(c) \/ ReadMismatch(c) \/ ReadCommand(c) \/ ReadClaim(c)
            \/ ReadRelease(c) \/ ReadUnknown(c) \/ ReadGarbage(c)
  <2>1. pc[c] = "read" /\ clients' = clients
    BY <1>12 DEF ReadHello, ReadMismatch, ReadCommand, ReadClaim, ReadRelease, ReadUnknown,
                 ReadGarbage, ReadLine, broker
  <2>2. pc' = pc \/ \E w \in {"assign", "cleanup", "send", "status"} : pc' = [pc EXCEPT ![c] = w]
    BY <1>12 DEF ReadHello, ReadMismatch, ReadCommand, ReadClaim, ReadRelease, ReadUnknown,
                 ReadGarbage, Refuse, Continue, GoTo
  <2> QED BY <1>1, <1>2, <2>1, <2>2 DEF Inside
<1> QED BY <1>3, <1>4, <1>5, <1>6, <1>7, <1>8, <1>9, <1>10, <1>11, <1>12 DEF TaskStep, Outside

\* A seq of a registered client never goes back; before the hello it is 0.
LEMMA OwnSeq ==
  ASSUME Types, SeqAfterHello, NEW c \in Clients, TaskStep(c) \/ Outside(c)
  PROVE  /\ ~ handle'[c].handshaken => handle'[c].last_seq = 0
         /\ c \in clients' => handle'[c].last_seq >= handle[c].last_seq
<1>1. handle[c] \in Handles /\ handle[c].last_seq \in Nat BY DEF Types, Handles
<1>2. ~ handle[c].handshaken => handle[c].last_seq = 0 BY DEF SeqAfterHello
<1>3. CASE UNCHANGED handle BY <1>1, <1>2, <1>3
<1>4. ASSUME NEW n \in 1..MaxSeq, Accepts(c, n) /\ UseSeq(c, n)
      PROVE  handle'[c].handshaken /\ handle'[c].last_seq >= handle[c].last_seq
  <2>1. n \in Nat BY ConstantRanges
  <2>2. handle'[c].last_seq = n /\ handle'[c].handshaken = handle[c].handshaken
    BY <1>4, <2>1, UseSeqFrame
  <2> QED BY <1>1, <1>4, <2>1, <2>2 DEF Accepts
<1>5. CASE CleanUp(c)
  BY <1>5 DEF CleanUp, RemoveAndPromote, NoHello, Types
<1>6. CASE ReadHello(c) /\ ~ UNCHANGED handle
  <2>1. PICK n \in 1..MaxSeq, role \in Roles, stream \in Streams :
          /\ ~ handle[c].handshaken
          /\ handle' = [handle EXCEPT ![c] = [requested_role |-> role, stream |-> stream,
                                              handshaken |-> TRUE, last_seq |-> n]]
    BY <1>6 DEF ReadHello
  <2>2. handle'[c].handshaken /\ handle'[c].last_seq = n BY <2>1 DEF Types
  <2>3. n \in Nat BY ConstantRanges
  <2> QED BY <1>2, <2>1, <2>2, <2>3
<1>7. CASE (ReadCommand(c) \/ ReadClaim(c) \/ ReadRelease(c) \/ ReadUnknown(c)) /\ ~ UNCHANGED handle
  <2>1. PICK n \in 1..MaxSeq : Accepts(c, n) /\ UseSeq(c, n)
    BY <1>7 DEF ReadCommand, ReadClaim, ReadRelease, ReadUnknown
  <2> QED BY <1>4, <2>1
<1>8. CASE ~ (CleanUp(c) \/ ReadHello(c) \/ ReadCommand(c) \/ ReadClaim(c) \/ ReadRelease(c) \/ ReadUnknown(c))
  <2>1. UNCHANGED handle
    BY <1>8 DEF TaskStep, Outside, Accept, Register, Disconnect, SeeShutdown, EmitStatus, Leave,
                Sent, WriterFails, Broadcast, AssignRole, RequestSnapshot, SendCommand,
                ReadMismatch, ReadGarbage, broker
  <2> QED BY <1>3, <2>1
<1> QED BY <1>3, <1>5, <1>6, <1>7, <1>8

LEMMA ShapeStart == Init => Shape
<1> SUFFICES ASSUME Init PROVE Shape OBVIOUS
<1>1. Types BY TypesStart
<1>2. \A c \in Clients : handle[c] = NoHello BY DEF Init
<1> QED BY <1>1, <1>2 DEF Init, Shape, ControllerRegistered, Registered, Untouched, SeqAfterHello,
                        BatchOfCommands, Absent, NoHello, Inside

LEMMA ShapeStep == Shape /\ [Next]_vars => Shape'
<1> SUFFICES ASSUME Shape, [Next]_vars PROVE Shape' OBVIOUS
<1> USE DEF Shape
<1>1. Types' /\ BatchOfCommands' BY TypesStep
<1>2. ControllerRegistered'
  <2>1. BrokerInv BY DEF BrokerInv, Types, TasksRegistered, Registered
  <2> QED BY <2>1, BrokerSteps DEF BrokerInv
<1>3. SUFFICES Registered' /\ Untouched' /\ SeqAfterHello' BY <1>1, <1>2
<1>4. CASE UNCHANGED vars
  BY <1>4 DEF vars, broker, boxes, loop, Registered, Untouched, SeqAfterHello, Absent
<1>5. ASSUME NEW c \in Clients, TaskStep(c) \/ Outside(c)
      PROVE  Registered' /\ Untouched' /\ SeqAfterHello'
  <2>1. \A d \in Clients \ {c} : Same(d) BY <1>5, ClientFrame
  <2>2. Registered'
    BY <1>5, <2>1, OwnRegistered DEF Registered, Same, Insider, Outsider
  <2>3. SeqAfterHello' BY <1>5, <2>1, OwnSeq DEF SeqAfterHello, Same
  <2>4. ASSUME NEW d \in Clients, pc'[d] \in {"off", "accepted"}
        PROVE  /\ handle'[d] = NoHello /\ seq'[d] = 0 /\ owed'[d] = 0 /\ applied'[d] = 0
               /\ ~ shutdown'[d] /\ Absent(d, queue') /\ Absent(d, game'.pending)
    <3>1. /\ pc[d] \in {"off", "accepted"}
          /\ handle'[d] = handle[d] /\ seq'[d] = seq[d] /\ owed'[d] = owed[d]
          /\ shutdown'[d] = shutdown[d]
      BY <1>5, <2>1, <2>4, OwnRegistered DEF Same
    <3>2. UNCHANGED <<game, applied>> BY <1>5, ClientFrame
    <3>3. Absent(d, queue')
      <4>1. Absent(d, queue) BY <3>1 DEF Untouched
      <4>2. CASE UNCHANGED queue BY <4>1, <4>2
      <4>3. CASE ~ UNCHANGED queue
        <5>1. PICK m \in Messages : m.client = c /\ queue' = Append(queue, m)
          BY <1>5, <4>3, ClientFrame
        <5>2. d # c BY <1>5, <2>4, <4>3, OwnRegistered
        <5>3. queue \in Seq(Messages) BY DEF Types, Bounded
        <5>4. \A i \in 1..Len(queue') : queue'[i] = m \/ (i \in 1..Len(queue) /\ queue'[i] = queue[i])
          BY <5>1, <5>3
        <5> QED BY <4>1, <5>1, <5>2, <5>4 DEF Absent
      <4> QED BY <4>2, <4>3
    <3> QED BY <3>1, <3>2, <3>3 DEF Untouched
  <2> QED BY <2>2, <2>3, <2>4 DEF Untouched
<1>6. CASE GameStep
  <2>1. UNCHANGED <<clients, handle, pc, seq>> BY <1>6, GameFrame DEF broker
  <2>2. Registered' /\ SeqAfterHello' BY <2>1 DEF Registered, SeqAfterHello
  <2>3. ASSUME NEW d \in Clients, pc[d] \in {"off", "accepted"}
        PROVE  /\ owed'[d] = 0 /\ applied'[d] = 0 /\ ~ shutdown'[d]
               /\ Absent(d, queue') /\ Absent(d, game'.pending)
    <3>1. /\ owed[d] = 0 /\ applied[d] = 0 /\ ~ shutdown[d]
          /\ Absent(d, queue) /\ Absent(d, game.pending)
      BY <2>3 DEF Untouched
    <3>2. /\ queue \in Seq(Messages) /\ game.pending \in Seq(Messages)
          /\ game \in [pc : {"drain", "ack"}, drained : Nat, pending : Seq(Messages)]
      BY DEF Types, Bounded
    <3>3. CASE GameTake
      <4> DEFINE m == Head(queue)
      <4>1. m.client # d BY <3>1, <3>2, <3>3 DEF GameTake, Absent
      <4>2. Absent(d, Tail(queue))
        <5>1. \A i \in 1..Len(Tail(queue)) : i+1 \in 1..Len(queue) /\ Tail(queue)[i] = queue[i+1]
          BY <3>2, <3>3 DEF GameTake
        <5> QED BY <3>1, <5>1 DEF Absent
      <4>3. m \in Messages BY <3>2, <3>3 DEF GameTake
      <4>4. Absent(d, Append(game.pending, m))
        <5>1. \A i \in 1..Len(Append(game.pending, m)) :
                Append(game.pending, m)[i] = m
                \/ (i \in 1..Len(game.pending) /\ Append(game.pending, m)[i] = game.pending[i])
          BY <3>2, <4>3
        <5> QED BY <3>1, <4>1, <5>1 DEF Absent
      <4>5. game'.pending \in {game.pending, Append(game.pending, m)}
        BY <3>2, <3>3 DEF GameTake
      <4>6. ~ shutdown'[d] /\ owed' = owed /\ applied' = applied
        BY <3>1, <3>3, <4>1 DEF GameTake, Types
      <4> QED BY <3>1, <3>3, <4>2, <4>4, <4>5, <4>6 DEF GameTake
    <3>4. CASE GameApply
      <4>1. game'.pending = game.pending BY <3>2, <3>4 DEF GameApply
      <4>2. SeqsOf(d, game.pending) = {} BY <3>1 DEF SeqsOf, Absent
      <4> QED BY <3>1, <3>4, <4>1, <4>2 DEF GameApply, boxes
    <3>5. CASE GameAck
      <4> DEFINE c == Head(game.pending).client
      <4>1. game.pending # <<>> BY <3>5 DEF GameAck, BatchOfCommands
      <4>2. c # d /\ c \in Clients
        <5>1. game.pending[1] \in Messages /\ Head(game.pending) = game.pending[1] /\ 1 \in 1..Len(game.pending)
          BY <3>2, <4>1
        <5> QED BY <3>1, <5>1 DEF Absent, Messages
      <4>3. Reply(c, 0) BY <3>5 DEF GameAck
      <4> HIDE DEF c
      <4>4. owed'[d] = owed[d] /\ shutdown'[d] = shutdown[d] BY <4>2, <4>3, ReplyFrame
      <4>5. game'.pending = Tail(game.pending) BY <3>2, <3>5 DEF GameAck
      <4>6. Absent(d, Tail(game.pending))
        <5>1. \A i \in 1..Len(Tail(game.pending)) :
                i+1 \in 1..Len(game.pending) /\ Tail(game.pending)[i] = game.pending[i+1]
          BY <3>2, <4>1
        <5> QED BY <3>1, <5>1 DEF Absent
      <4> QED BY <3>1, <3>5, <4>4, <4>5, <4>6 DEF GameAck
    <3> QED BY <1>6, <3>3, <3>4, <3>5 DEF GameStep
  <2> QED BY <2>1, <2>2, <2>3 DEF Untouched
<1> QED BY <1>4, <1>5, <1>6 DEF Next

\* The broker's tables, tasks and queues fit together in every reachable state.
THEOREM AlwaysShape == Spec => []Shape
BY ShapeStart, ShapeStep, PTL DEF Spec
-----------------------------------------------------------------------------
(* Liveness of a client falls once, and what the status says of the live.   *)

\* A registered client that dies stays dead.
LEMMA LiveFalls ==
  ASSUME Shape, [Next]_vars, NEW d \in clients
  PROVE  (writer'[d] => writer[d]) /\ (shutdown[d] => shutdown'[d])
<1> USE DEF Shape
<1>1. d \in Clients /\ pc[d] \in Inside BY DEF Registered, Types
<1>2. CASE UNCHANGED vars BY <1>2 DEF vars, boxes
<1>3. ASSUME NEW c \in Clients \ {d}, TaskStep(c) \/ Outside(c)
      PROVE  (writer'[d] => writer[d]) /\ (shutdown[d] => shutdown'[d])
  BY <1>1, <1>3, ClientFrame DEF Same
<1>4. CASE \E read \in {0, 1} : Reply(d, read) BY <1>1, <1>4, ReplyFrame
<1>5. CASE UNCHANGED <<writer, shutdown>> BY <1>5
<1>6. CASE WriterFails(d) BY <1>1, <1>6 DEF WriterFails, Types
<1>7. CASE Broadcast(d) BY <1>1, <1>7 DEF Broadcast, Types
<1>8. CASE TaskStep(d) \/ Outside(d)
  <2>1. CASE Accept(d) \/ Disconnect(d) \/ SeeShutdown(d) \/ EmitStatus(d) \/ CleanUp(d)
             \/ RequestSnapshot(d) \/ Sent(d)
    BY <1>5, <2>1 DEF Accept, Disconnect, SeeShutdown, EmitStatus, CleanUp, RequestSnapshot, Sent, boxes
  <2>2. CASE Register(d) \/ Leave(d) BY <1>1, <2>2 DEF Register, Leave, Inside
  <2>3. CASE AssignRole(d) \/ SendCommand(d)
    BY <1>4, <1>5, <2>3 DEF AssignRole, SendCommand, boxes
  <2>4. CASE ReadHello(d) \/ ReadMismatch(d) \/ ReadCommand(d) \/ ReadClaim(d)
             \/ ReadRelease(d) \/ ReadUnknown(d) \/ ReadGarbage(d)
    BY <1>4, <1>5, <2>4 DEF ReadHello, ReadMismatch, ReadCommand, ReadClaim, ReadRelease,
                            ReadUnknown, ReadGarbage, Refuse, Continue
  <2> QED BY <1>6, <1>7, <1>8, <2>1, <2>2, <2>3, <2>4 DEF TaskStep, Outside
<1>9. CASE GameStep
  <2>1. CASE GameTake BY <1>1, <2>1 DEF GameTake, Types
  <2>2. CASE GameApply BY <1>5, <2>2 DEF GameApply, boxes
  <2>3. CASE GameAck
    <3> DEFINE c == Head(game.pending).client
    <3>1. Reply(c, 0) BY <2>3 DEF GameAck
    <3>2. c \in Clients
      <4>1. game.pending \in Seq(Messages) /\ game.pending # <<>>
        BY <2>3 DEF GameAck, BatchOfCommands, Types
      <4>2. Head(game.pending) \in Messages BY <4>1
      <4> QED BY <4>2 DEF Messages
    <3> HIDE DEF c
    <3> QED BY <1>1, <3>1, <3>2, ReplyFrame
  <2> QED BY <1>9, <2>1, <2>2, <2>3 DEF GameStep
<1> QED BY <1>2, <1>3, <1>8, <1>9 DEF Next

Quiet   == \A c \in Clients : pc[c] \notin {"assign", "snapshot", "status", "leave"}
AllLive == \A c \in clients : Live(c)

LEMMA StatusOfTheLive ==
  ASSUME Shape, AllLive, AllLive', clients' = clients, controller' = controller,
         \A d \in clients : handle'[d].stream = handle[d].stream
  PROVE  CurrentStatus' = CurrentStatus
<1>1. {c \in clients : Live(c)} = clients /\ {c \in clients : Live(c)}' = clients'
  BY DEF AllLive
<1>2. /\ {c \in clients : handle[c].stream /\ Live(c)} = {c \in clients : handle[c].stream}
      /\ {c \in clients : handle[c].stream /\ Live(c)}' = {c \in clients' : handle'[c].stream}
  BY DEF AllLive
<1>3. {c \in clients' : handle'[c].stream} = {c \in clients : handle[c].stream}
  OBVIOUS
<1>4. NotStale' = NotStale BY DEF NotStale, AllLive
<1> QED BY <1>1, <1>2, <1>3, <1>4 DEF CurrentStatus

LEMMA StatusStep == Shape /\ StatusFresh /\ [Next]_vars => StatusFresh'
<1> SUFFICES ASSUME Shape, StatusFresh, [Next]_vars, Quiet', AllLive'
             PROVE  status' = CurrentStatus'
  BY DEF StatusFresh, Quiet, AllLive
<1>1. Quiet /\ AllLive => status = CurrentStatus BY DEF StatusFresh, Quiet, AllLive
<1>2. Types /\ Registered BY DEF Shape
\* A step that changes nothing the status tells of.
<1>3. ASSUME Quiet, UNCHANGED <<clients, controller, status>>,
             \A d \in clients : handle'[d].stream = handle[d].stream
      PROVE  status' = CurrentStatus'
  <2>1. AllLive BY <1>3, LiveFalls DEF AllLive, Live
  <2> QED BY <1>1, <1>3, <2>1, StatusOfTheLive
<1>4. CASE UNCHANGED vars BY <1>3, <1>4 DEF vars, broker, Quiet
<1>5. CASE GameStep BY <1>2, <1>3, <1>5, GameFrame DEF broker, Shape, Quiet
<1>6. ASSUME NEW c \in Clients, TaskStep(c) \/ Outside(c) PROVE status' = CurrentStatus'
  <2>1. \A d \in Clients \ {c} : pc'[d] = pc[d] BY <1>2, <1>6, ClientFrame DEF Same
  <2>2. DOMAIN pc = Clients /\ DOMAIN handle = Clients BY <1>2 DEF Types
  <2>3. pc'[c] \notin {"assign", "snapshot", "status", "leave"} BY DEF Quiet
  <2>4. CASE Accept(c) \/ EmitStatus(c)
    <3>1. status' = CurrentStatus /\ UNCHANGED <<broker, boxes>> BY <2>4 DEF Accept, EmitStatus
    <3> QED BY <3>1 DEF CurrentStatus, NotStale, Live, broker, boxes
  <2>5. CASE Register(c) \/ CleanUp(c) \/ AssignRole(c) \/ RequestSnapshot(c)
    BY <2>2, <2>3, <2>5 DEF Register, CleanUp, AssignRole, RequestSnapshot, GoTo
  \* The others go on from a quiet place to another.
  <2>6. ASSUME pc[c] \notin {"assign", "snapshot", "status", "leave"},
               UNCHANGED <<clients, controller, status>>, handle'[c].stream = handle[c].stream
        PROVE  status' = CurrentStatus'
    <3>1. Quiet BY <2>1, <2>6 DEF Quiet
    <3>2. \A d \in clients : handle'[d].stream = handle[d].stream
      BY <1>2, <1>6, <2>6, ClientFrame DEF Same, Types
    <3> QED BY <1>3, <2>6, <3>1, <3>2
  <2>7. CASE Disconnect(c) \/ SeeShutdown(c) \/ SendCommand(c) \/ Leave(c)
    BY <2>6, <2>7 DEF Disconnect, SeeShutdown, SendCommand, Leave, broker
  <2>8. CASE Sent(c) \/ WriterFails(c) \/ Broadcast(c)
    BY <2>3, <2>6, <2>8 DEF Sent, WriterFails, Broadcast, broker
  <2>9. ASSUME NEW n \in 1..MaxSeq, UNCHANGED handle \/ UseSeq(c, n)
        PROVE  handle'[c].stream = handle[c].stream
    BY <1>2, <2>9, ConstantRanges, UseSeqFrame
  <2>10. CASE ReadHello(c)
    <3>1. pc[c] = "read" /\ UNCHANGED <<clients, controller, status>>
      BY <2>10 DEF ReadHello, ReadLine
    <3>2. UNCHANGED handle
      BY <2>2, <2>3, <2>10 DEF ReadHello, Continue, GoTo
    <3> QED BY <2>6, <3>1, <3>2
  <2>11. CASE ReadMismatch(c) \/ ReadGarbage(c)
    BY <2>6, <2>11 DEF ReadMismatch, ReadGarbage, ReadLine, broker
  <2>12. CASE ReadCommand(c) \/ ReadUnknown(c)
    <3>1. /\ pc[c] = "read" /\ UNCHANGED <<clients, controller, status>>
          /\ UNCHANGED handle \/ \E n \in 1..MaxSeq : UseSeq(c, n)
      BY <2>12 DEF ReadCommand, ReadUnknown, ReadLine
    <3> QED BY <2>6, <2>9, <3>1
  <2>13. CASE ReadClaim(c) \/ ReadRelease(c)
    <3>1. pc[c] = "read" /\ UNCHANGED <<clients, status>>
      BY <2>13 DEF ReadClaim, ReadRelease, ReadLine
    <3>2. /\ controller' = controller
          /\ UNCHANGED handle \/ \E n \in 1..MaxSeq : UseSeq(c, n)
      BY <2>2, <2>3, <2>13 DEF ReadClaim, ReadRelease, GoTo
    <3> QED BY <2>6, <2>9, <3>1, <3>2
  <2> QED BY <1>6, <2>4, <2>5, <2>7, <2>8, <2>10, <2>11, <2>12, <2>13 DEF TaskStep, Outside
<1> QED BY <1>4, <1>5, <1>6 DEF Next

LEMMA StatusStart == Init => StatusFresh
<1> SUFFICES ASSUME Init PROVE status = CurrentStatus BY DEF StatusFresh
<1>1. /\ clients = {} /\ controller = None
      /\ status = [clients |-> 0, controller |-> None, streaming |-> 0]
  BY DEF Init
<1>2. /\ {c \in clients : Live(c)} = {}
      /\ {c \in clients : handle[c].stream /\ Live(c)} = {}
  BY <1>1
<1>3. NotStale = None BY <1>1 DEF NotStale
<1>4. Cardinality({}) = 0 BY FS_EmptySet
<1> QED BY <1>1, <1>2, <1>3, <1>4 DEF CurrentStatus

\* server.rs emits each status after it has given up the broker lock: whatever order
\* the tasks emit in, once they have all done so the game is told the truth.
THEOREM StatusAlwaysFresh == Spec => []StatusFresh
BY AlwaysShape, StatusStart, StatusStep, PTL DEF Spec
-----------------------------------------------------------------------------
(* Nobody steals control. *)

LEMMA KeepsControl ==
  ASSUME Shape, [Next]_vars, NEW c \in Clients, controller = c, Live(c), controller' # c
  PROVE  handle'[c].last_seq # handle[c].last_seq \/ c \notin clients'
<1>1. c \in clients /\ NotStale = c
  BY ConstantRanges DEF Shape, ControllerRegistered, NotStale
<1>2. c # None /\ Types BY ConstantRanges DEF Shape
<1>3. PICK d \in Clients : CleanUp(d) \/ AssignRole(d) \/ ReadClaim(d) \/ ReadRelease(d)
  <2>1. controller' # controller OBVIOUS
  <2>2. ASSUME NEW d \in Clients, TaskStep(d) \/ Outside(d)
        PROVE  CleanUp(d) \/ AssignRole(d) \/ ReadClaim(d) \/ ReadRelease(d)
    BY <2>1, <2>2 DEF TaskStep, Outside, Accept, Register, Disconnect, SeeShutdown, EmitStatus,
          Leave, Sent, WriterFails, Broadcast, RequestSnapshot, SendCommand, ReadHello,
          ReadMismatch, ReadCommand, ReadUnknown, ReadGarbage, broker
  <2>3. ~ GameStep BY <2>1 DEF GameStep, GameTake, GameApply, GameAck, broker
  <2>4. ~ UNCHANGED vars BY <2>1 DEF vars, broker
  <2> QED BY <2>2, <2>3, <2>4 DEF Next
<1>4. CASE CleanUp(d) BY <1>4 DEF CleanUp, RemoveAndPromote
<1>5. CASE AssignRole(d) BY <1>1, <1>2, <1>5 DEF AssignRole
<1>6. CASE ReadClaim(d) BY <1>1, <1>2, <1>6 DEF ReadClaim, MayClaim
<1>7. CASE ReadRelease(d)
  <2>1. PICK n \in 1..MaxSeq : Accepts(d, n) /\ UseSeq(d, n) /\ d = c
    BY <1>7 DEF ReadRelease
  <2>2. n \in Nat /\ handle[c].last_seq \in Nat BY <1>2, ConstantRanges DEF Types, Handles
  <2>3. handle'[c].last_seq = n BY <1>2, <2>1, <2>2, UseSeqFrame
  <2> QED BY <2>1, <2>2, <2>3 DEF Accepts
<1> QED BY <1>3, <1>4, <1>5, <1>6, <1>7

\* SPEC.md: a live controller keeps control until it gives it up or leaves, whatever
\* others claim, greet or break off, and whoever is promoted.
THEOREM ControlNeverStolen == Spec => NoStealing
<1>1. Shape /\ [Next]_vars =>
        [\A c \in Clients :
           controller = c /\ Live(c) /\ controller' # c =>
             \/ handle'[c].last_seq # handle[c].last_seq
             \/ c \notin clients']_vars
  BY KeepsControl
<1> QED BY <1>1, AlwaysShape, PTL DEF Spec, NoStealing
-----------------------------------------------------------------------------
(* Every line is answered once: counting the commands in the queues.        *)

Count(c, messages) == Cardinality(Mine(c, messages))

OneIf(c, m) == IF m.client = c /\ ~ m.snapshot THEN 1 ELSE 0

LEMMA CountOK ==
  ASSUME NEW s \in Seq(Messages), NEW c
  PROVE  IsFiniteSet(Mine(c, s)) /\ Count(c, s) \in Nat
<1>1. Len(s) \in Nat /\ IsFiniteSet(1..Len(s)) BY FS_Interval
<1>2. Mine(c, s) \subseteq 1..Len(s) BY DEF Mine
<1>3. IsFiniteSet(Mine(c, s)) BY <1>1, <1>2, FS_Subset
<1> QED BY <1>3, FS_CardinalityType DEF Count

LEMMA CountAppend ==
  ASSUME NEW s \in Seq(Messages), NEW m \in Messages, NEW c
  PROVE  Count(c, Append(s, m)) = Count(c, s) + OneIf(c, m)
<1> DEFINE t == Append(s, m)
           last == Len(s) + 1
<1>1. /\ t \in Seq(Messages) /\ Len(t) = last /\ t[last] = m /\ Len(s) \in Nat
      /\ \A i \in 1..Len(s) : t[i] = s[i]
  OBVIOUS
<1> HIDE DEF t
<1>2. last \notin Mine(c, s) BY <1>1 DEF Mine
<1>3. CASE m.client = c /\ ~ m.snapshot
  <2>1. Mine(c, t) = Mine(c, s) \cup {last} BY <1>1, <1>3 DEF Mine
  <2> QED BY <1>2, <1>3, <2>1, CountOK, FS_AddElement DEF Count, OneIf, t
<1>4. CASE ~ (m.client = c /\ ~ m.snapshot)
  <2>1. Mine(c, t) = Mine(c, s) BY <1>1, <1>4 DEF Mine
  <2> QED BY <1>4, <2>1, CountOK DEF Count, OneIf, t
<1> QED BY <1>3, <1>4

LEMMA CountTail ==
  ASSUME NEW s \in Seq(Messages), s # <<>>, NEW c
  PROVE  Count(c, s) = Count(c, Tail(s)) + OneIf(c, Head(s))
<1> DEFINE t == Tail(s)
           rest == Mine(c, s) \ {1}
           next == [i \in Mine(c, t) |-> i + 1]
<1>1. /\ t \in Seq(Messages) /\ Len(t) = Len(s) - 1 /\ Len(s) \in Nat \ {0} /\ Head(s) = s[1]
      /\ \A i \in 1..Len(t) : t[i] = s[i+1]
  OBVIOUS
<1> HIDE DEF t
<1>2. ExistsBijection(Mine(c, t), rest)
  <2>1. next \in [Mine(c, t) -> rest] BY <1>1 DEF Mine
  <2>2. \A i, j \in Mine(c, t) : next[i] = next[j] => i = j BY DEF Mine
  <2>3. ASSUME NEW k \in rest PROVE \E i \in Mine(c, t) : next[i] = k
    <3>1. k \in 2..Len(s) /\ k - 1 \in 1..Len(t) BY <1>1 DEF Mine
    <3>2. t[k-1] = s[k] BY <1>1, <3>1
    <3>3. k - 1 \in Mine(c, t) BY <3>1, <3>2 DEF Mine
    <3> QED BY <3>1, <3>3
  <2> QED BY <2>1, <2>2, <2>3 DEF ExistsBijection, Bijection, Injection, Surjection, IsInjective
<1>3. Cardinality(rest) = Count(c, t) BY <1>1, <1>2, CountOK, FS_Bijection DEF Count
<1>4. 1 \in Mine(c, s) <=> Head(s).client = c /\ ~ Head(s).snapshot BY <1>1 DEF Mine
<1>5. Cardinality(rest) = IF 1 \in Mine(c, s) THEN Count(c, s) - 1 ELSE Count(c, s)
  BY CountOK, FS_RemoveElement DEF Count
<1> QED BY <1>3, <1>4, <1>5, CountOK DEF OneIf, t

\* A client that is owed nothing.
LEMMA AbsentCount ==
  ASSUME NEW s \in Seq(Messages), NEW c, Absent(c, s) PROVE Count(c, s) = 0
<1>1. Mine(c, s) = {} BY DEF Mine, Absent
<1> QED BY <1>1, FS_EmptySet DEF Count

\* Is the task of c between reading a line and answering it?
Working(c) == IF pc[c] \in {"assign", "send"} THEN 1 ELSE 0

LEMMA InFlightCount == \A c : InFlight(c) = Working(c) + Count(c, game.pending) + Count(c, queue)
BY DEF InFlight, Working, Count

LEMMA LossStart == Init => NoSilentLoss
<1> SUFFICES ASSUME Init, NEW c \in Clients PROVE ~ Live(c) BY DEF NoSilentLoss
<1> QED BY DEF Init, Live

\* Who lives after a step of its own lived before, or has just been registered.
LEMMA LivedBefore ==
  ASSUME Shape, [Next]_vars, NEW c \in Clients, TaskStep(c) \/ Outside(c),
         writer'[c], ~ shutdown'[c], ~ Register(c)
  PROVE  Live(c)
<1>1. c \in clients <=> pc[c] \in Inside BY DEF Shape, Registered
<1>2. CASE c \in clients BY <1>2, LiveFalls DEF Live
<1>3. CASE c \notin clients
  <2>1. CASE Accept(c) \/ EmitStatus(c) \/ Sent(c)
    BY <2>1 DEF Accept, EmitStatus, Sent, boxes, Live
  <2>2. ~ Leave(c) /\ ~ WriterFails(c) BY DEF Leave, WriterFails, Shape, Types
  <2>3. ~ Disconnect(c) /\ ~ SeeShutdown(c) /\ ~ CleanUp(c) /\ ~ Broadcast(c)
        /\ ~ AssignRole(c) /\ ~ RequestSnapshot(c) /\ ~ SendCommand(c)
    BY <1>1, <1>3 DEF Disconnect, SeeShutdown, CleanUp, Broadcast, AssignRole, RequestSnapshot,
                      SendCommand, Inside
  <2>4. ~ ReadHello(c) /\ ~ ReadMismatch(c) /\ ~ ReadCommand(c) /\ ~ ReadClaim(c)
        /\ ~ ReadRelease(c) /\ ~ ReadUnknown(c) /\ ~ ReadGarbage(c)
    BY <1>1, <1>3 DEF ReadHello, ReadMismatch, ReadCommand, ReadClaim, ReadRelease, ReadUnknown,
                      ReadGarbage, ReadLine, Inside
  <2> QED BY <2>1, <2>2, <2>3, <2>4 DEF TaskStep, Outside
<1> QED BY <1>2, <1>3

\* A client's own step.
LEMMA OwnDebt ==
  ASSUME Shape, NoSilentLoss, [Next]_vars, NEW c \in Clients, TaskStep(c) \/ Outside(c),
         writer'[c], ~ shutdown'[c]
  PROVE  owed'[c] = Working(c)' + Count(c, game.pending) + Count(c, queue')
<1> USE DEF Shape
<1> DEFINE waiting == Count(c, game.pending) + Count(c, queue)
           Goal == owed'[c] = Working(c)' + Count(c, game.pending) + Count(c, queue')
<1>1. /\ DOMAIN pc = Clients /\ owed \in [Clients -> Int] /\ seq \in [Clients -> Nat]
      /\ queue \in Seq(Messages) /\ game.pending \in Seq(Messages)
  BY DEF Types, Bounded
<1>2. Count(c, game.pending) \in Nat /\ Count(c, queue) \in Nat BY <1>1, CountOK
<1>3. waiting \in Nat BY <1>2
<1>4. ~ Register(c) => owed[c] = Working(c) + waiting /\ writer[c]
  <2>1. ~ Register(c) => Live(c) BY LivedBefore
  <2> QED BY <1>2, <2>1, InFlightCount DEF NoSilentLoss, Live, Working
<1>5. CASE Register(c)
  <2>1. pc[c] = "accepted" /\ pc' = [pc EXCEPT ![c] = "status"] /\ UNCHANGED <<owed, queue>>
    BY <1>5 DEF Register, GoTo, loop
  <2>2. owed[c] = 0 /\ Count(c, game.pending) = 0 /\ Count(c, queue) = 0
    BY <1>1, <2>1, AbsentCount DEF Untouched
  <2> QED BY <1>1, <2>1, <2>2 DEF Working
\* What the step did to the line being worked on, to the debt and to the queue.
<1>6. ASSUME ~ Register(c), UNCHANGED queue, NEW k \in {-1, 0, 1},
             owed'[c] = owed[c] + k, Working(c)' = Working(c) + k
      PROVE  Goal
  BY <1>1, <1>2, <1>3, <1>4, <1>6 DEF Working
<1>7. ASSUME NEW r \in {0, 1}, ~ Register(c), Reply(c, r) PROVE owed'[c] = owed[c] + (r - 1)
  BY <1>1, <1>4, <1>7, ReplyFrame
<1>8. CASE Accept(c) \/ Disconnect(c) \/ SeeShutdown(c) \/ EmitStatus(c) \/ CleanUp(c)
  <2>1. UNCHANGED <<owed, queue>> /\ ~ Register(c)
    BY <1>8 DEF Accept, Disconnect, SeeShutdown, EmitStatus, CleanUp, Register, boxes, loop
  <2>2. Working(c)' = 0 /\ Working(c) = 0
    BY <1>1, <1>8 DEF Accept, Disconnect, SeeShutdown, EmitStatus, CleanUp, GoTo, Working
  <2> QED BY <1>1, <1>6, <2>1, <2>2
<1>9. CASE Sent(c) \/ WriterFails(c) \/ Broadcast(c)
  <2>1. UNCHANGED <<pc, owed, queue>>
    BY <1>9 DEF Sent, WriterFails, Broadcast, loop
  <2>2. CASE Register(c) BY <1>5, <2>2
  <2> QED BY <1>1, <1>6, <2>1, <2>2 DEF Working
<1>10. CASE Leave(c) BY <1>10 DEF Leave, Types
<1>11. CASE AssignRole(c)
  <2>1. UNCHANGED queue /\ Reply(c, 0) /\ ~ Register(c)
    BY <1>11 DEF AssignRole, Register, loop
  <2>2. Working(c)' = 0 /\ Working(c) = 1
    BY <1>1, <1>11 DEF AssignRole, GoTo, Working
  <2>3. 0 - 1 \in {-1, 0, 1} BY SMT
  <2> QED BY <1>1, <1>6, <1>7, <2>1, <2>2, <2>3
<1>12. CASE RequestSnapshot(c)
  <2> DEFINE m == [client |-> c, seq |-> 0, snapshot |-> TRUE]
  <2>1. queue' = Append(queue, m) /\ UNCHANGED owed /\ ~ Register(c)
    BY <1>12 DEF RequestSnapshot, Register, boxes
  <2>2. m \in Messages /\ OneIf(c, m) = 0 BY DEF Messages, OneIf
  <2> HIDE DEF m
  <2>3. Count(c, queue') = Count(c, queue) BY <1>1, <1>2, <2>1, <2>2, CountAppend
  <2>4. Working(c)' = 0 /\ Working(c) = 0 BY <1>1, <1>12 DEF RequestSnapshot, GoTo, Working
  <2> QED BY <1>2, <1>4, <2>1, <2>3, <2>4
<1>13. CASE SendCommand(c)
  <2> DEFINE m == [client |-> c, seq |-> seq[c], snapshot |-> FALSE]
  <2>1. ~ Register(c) BY <1>13 DEF SendCommand, Register
  <2>2. Working(c)' = 0 /\ Working(c) = 1 BY <1>1, <1>13 DEF SendCommand, GoTo, Working
  <2>3. m \in Messages /\ OneIf(c, m) = 1 BY <1>1 DEF Messages, OneIf
  <2>4. CASE Len(queue) < QueueCapacity
    <3>1. queue' = Append(queue, m) /\ UNCHANGED owed BY <1>13, <2>4 DEF SendCommand, boxes
    <3> HIDE DEF m
    <3>2. Count(c, queue') = Count(c, queue) + 1 BY <1>1, <2>3, <3>1, CountAppend
    <3> QED BY <1>2, <1>4, <2>1, <2>2, <3>1, <3>2
  <2>5. CASE ~ Len(queue) < QueueCapacity
    <3>1. Reply(c, 0) /\ UNCHANGED queue BY <1>13, <2>5 DEF SendCommand
    <3>2. 0 - 1 \in {-1, 0, 1} BY SMT
    <3> QED BY <1>6, <1>7, <2>1, <2>2, <3>1, <3>2
  <2> QED BY <2>4, <2>5
<1>14. CASE ReadHello(c) \/ ReadMismatch(c) \/ ReadCommand(c) \/ ReadClaim(c)
            \/ ReadRelease(c) \/ ReadUnknown(c) \/ ReadGarbage(c)
  <2>1. pc[c] = "read" /\ UNCHANGED queue
    BY <1>14 DEF ReadHello, ReadMismatch, ReadCommand, ReadClaim, ReadRelease, ReadUnknown,
                 ReadGarbage, ReadLine, loop
  <2>2. ~ Register(c) /\ Working(c) = 0 BY <2>1 DEF Register, Working
  <2>3. CASE Reply(c, 1) /\ (UNCHANGED pc \/ GoTo(c, "cleanup") \/ GoTo(c, "status"))
    <3>1. owed'[c] = owed[c] + (1 - 1) BY <1>7, <2>2, <2>3
    <3>2. Working(c)' = 0 BY <1>1, <2>1, <2>3 DEF GoTo, Working
    <3> QED BY <1>2, <1>4, <2>1, <2>2, <3>1, <3>2
  <2>4. CASE \E n \in 1..MaxSeq : Continue(c, n, "assign") \/ Continue(c, n, "send")
    <3>1. owed'[c] = owed[c] + 1 BY <1>1, <2>4 DEF Continue
    <3>2. Working(c)' = 1 BY <1>1, <2>4 DEF Continue, GoTo, Working
    <3> QED BY <1>2, <1>4, <2>1, <2>2, <3>1, <3>2
  <2> QED BY <1>14, <2>3, <2>4 DEF ReadHello, ReadMismatch, ReadCommand, ReadClaim, ReadRelease,
                                   ReadUnknown, ReadGarbage, Refuse
<1> QED BY <1>5, <1>8, <1>9, <1>10, <1>11, <1>12, <1>13, <1>14 DEF TaskStep, Outside

LEMMA LossStep == Shape /\ NoSilentLoss /\ [Next]_vars => NoSilentLoss'
<1> SUFFICES ASSUME Shape, NoSilentLoss, [Next]_vars, NEW d \in Clients, writer'[d], ~ shutdown'[d]
             PROVE  owed'[d] = Working(d)' + Count(d, game'.pending) + Count(d, queue')
  <2>1. \A c : InFlight(c)' = Working(c)' + Count(c, game'.pending) + Count(c, queue')
    BY DEF InFlight, Working, Count, Mine
  <2> QED BY <2>1 DEF NoSilentLoss, Live
<1>1. /\ queue \in Seq(Messages) /\ game.pending \in Seq(Messages)
      /\ game \in [pc : {"drain", "ack"}, drained : Nat, pending : Seq(Messages)]
      /\ Types /\ BatchOfCommands /\ owed \in [Clients -> Int]
  BY DEF Types, Bounded, Shape
<1>2. /\ Count(d, game.pending) \in Nat /\ Count(d, queue) \in Nat /\ Working(d) \in {0, 1}
  BY <1>1, CountOK DEF Working
<1>3. Live(d) => owed[d] = Working(d) + Count(d, game.pending) + Count(d, queue)
  BY InFlightCount DEF NoSilentLoss
<1>4. CASE UNCHANGED vars BY <1>3, <1>4 DEF vars, boxes, loop, Live, Working
<1>5. CASE TaskStep(d) \/ Outside(d)
  <2>1. UNCHANGED game BY <1>1, <1>5, ClientFrame
  <2> QED BY <1>5, <2>1, OwnDebt
<1>6. ASSUME NEW c \in Clients \ {d}, TaskStep(c) \/ Outside(c)
      PROVE  owed'[d] = Working(d)' + Count(d, game'.pending) + Count(d, queue')
  <2>1. Same(d) /\ UNCHANGED game BY <1>1, <1>6, ClientFrame
  <2>2. Count(d, queue') = Count(d, queue)
    <3>1. CASE UNCHANGED queue BY <3>1
    <3>2. CASE ~ UNCHANGED queue
      <4>1. PICK m \in Messages : m.client = c /\ queue' = Append(queue, m)
        BY <1>1, <1>6, <3>2, ClientFrame
      <4>2. OneIf(d, m) = 0 BY <4>1 DEF OneIf
      <4> QED BY <1>1, <1>2, <4>1, <4>2, CountAppend
    <3> QED BY <3>1, <3>2
  <2> QED BY <1>3, <2>1, <2>2 DEF Same, Live, Working
<1>7. CASE GameStep
  <2>1. UNCHANGED <<pc, writer>> BY <1>1, <1>7, GameFrame
  <2>2. Working(d)' = Working(d) BY <2>1 DEF Working
  <2>3. CASE GameTake
    <3> DEFINE m == Head(queue)
    <3>1. queue # <<>> /\ queue' = Tail(queue) /\ UNCHANGED owed /\ m \in Messages
      BY <1>1, <2>3 DEF GameTake
    <3>2. ~ shutdown[d] BY <1>1, <2>3 DEF GameTake, Types
    <3>3. Count(d, queue) = Count(d, queue') + OneIf(d, m) /\ Count(d, queue') \in Nat
      <4>1. Tail(queue) \in Seq(Messages) BY <1>1, <3>1
      <4> QED BY <1>1, <3>1, <4>1, CountTail, CountOK
    <3>4. Count(d, game'.pending) = Count(d, game.pending) + OneIf(d, m)
      <4>1. CASE m.snapshot
        <5>1. game'.pending = game.pending /\ OneIf(d, m) = 0
          BY <1>1, <2>3, <4>1 DEF GameTake, OneIf
        <5> QED BY <1>2, <5>1
      <4>2. CASE ~ m.snapshot
        <5>1. game'.pending = Append(game.pending, m) BY <1>1, <2>3, <4>2 DEF GameTake
        <5> QED BY <1>1, <3>1, <5>1, CountAppend
      <4> QED BY <4>1, <4>2
    <3>5. OneIf(d, m) \in {0, 1} BY DEF OneIf
    <3>6. owed[d] = Working(d) + Count(d, game.pending) + Count(d, queue)
      BY <1>3, <2>1, <3>2 DEF Live
    <3> HIDE DEF m
    <3> QED BY <1>2, <2>2, <3>1, <3>3, <3>4, <3>5, <3>6
  <2>4. CASE GameApply
    <3>1. game'.pending = game.pending /\ UNCHANGED <<owed, queue, shutdown>>
      BY <1>1, <2>4 DEF GameApply, boxes
    <3> QED BY <1>3, <2>1, <2>2, <3>1 DEF Live
  <2>5. CASE GameAck
    <3> DEFINE c == Head(game.pending).client
    <3>1. game.pending # <<>> /\ UNCHANGED queue BY <1>1, <2>5 DEF GameAck, BatchOfCommands
    <3>2. c \in Clients /\ ~ Head(game.pending).snapshot
      <4>1. /\ Head(game.pending) = game.pending[1] /\ 1 \in 1..Len(game.pending)
            /\ game.pending[1] \in Messages
        BY <1>1, <3>1
      <4> QED BY <1>1, <4>1 DEF BatchOfCommands, Messages
    <3>3. Reply(c, 0) BY <2>5 DEF GameAck
    <3>4. game'.pending = Tail(game.pending) BY <1>1, <2>5 DEF GameAck
    <3>5. Count(d, game.pending) = Count(d, game'.pending) + (IF c = d THEN 1 ELSE 0)
      BY <1>1, <3>1, <3>2, <3>4, CountTail DEF OneIf
    <3>6. Count(d, game'.pending) \in Nat
      <4>1. Tail(game.pending) \in Seq(Messages) BY <1>1, <3>1
      <4> QED BY <3>4, <4>1, CountOK
    <3> HIDE DEF c
    <3>7. ~ shutdown[d] /\ owed'[d] = owed[d] - (IF c = d THEN 1 ELSE 0)
      BY <1>1, <2>1, <3>2, <3>3, ReplyFrame
    <3>8. owed[d] = Working(d) + Count(d, game.pending) + Count(d, queue)
      BY <1>3, <2>1, <3>7 DEF Live
    <3> QED BY <1>1, <1>2, <2>2, <3>1, <3>5, <3>6, <3>7, <3>8
  <2> QED BY <1>7, <2>3, <2>4, <2>5 DEF GameStep
<1> QED BY <1>4, <1>5, <1>6, <1>7 DEF Next

\* SPEC.md: no welcome, ack or error is silently dropped: at every moment the lines a
\* live client has sent and not seen answered are exactly those still being worked on.
THEOREM NothingSilentlyLost == Spec => []NoSilentLoss
BY AlwaysShape, LossStart, LossStep, PTL DEF Spec
-----------------------------------------------------------------------------
(* Commands reach the game in the order of their seqs.                      *)

\* t is s with m behind it, or without its head; named so that the provers need not
\* look into the sequences.
Longer(s, m, t) == t = Append(s, m)
Shorter(s, t) == s # <<>> /\ t = Tail(s)

\* Where the commands of a longer and of a shorter queue were before.
LEMMA MineOfAppend ==
  ASSUME NEW s \in Seq(Messages), NEW m \in Messages, NEW t, Longer(s, m, t),
         NEW c, NEW i \in Mine(c, t)
  PROVE  /\ i \in Nat
         /\ \/ i \in Mine(c, s) /\ t[i] = s[i] /\ i <= Len(s)
            \/ i = Len(s) + 1 /\ t[i] = m /\ m.client = c /\ ~ m.snapshot
<1> USE DEF Longer
<1>1. i \in 1 .. Len(s) + 1 /\ Len(s) \in Nat BY DEF Mine
<1>2. CASE i = Len(s) + 1
  <2>1. t[i] = m BY <1>1, <1>2
  <2> QED BY <1>1, <1>2, <2>1 DEF Mine
<1>3. CASE i # Len(s) + 1
  <2>1. i \in 1..Len(s) /\ t[i] = s[i] BY <1>1, <1>3
  <2> QED BY <1>1, <2>1 DEF Mine
<1> QED BY <1>2, <1>3

LEMMA MineOfTail ==
  ASSUME NEW s \in Seq(Messages), NEW t, Shorter(s, t), NEW c, NEW i \in Mine(c, t)
  PROVE  i \in Nat /\ i > 0 /\ i + 1 \in Mine(c, s) /\ t[i] = s[i + 1]
<1> USE DEF Shorter
<1>1. i \in 1..Len(t) /\ t[i].client = c /\ ~ t[i].snapshot BY DEF Mine
<1>2. /\ Len(t) = Len(s) - 1 /\ Len(s) \in Nat
      /\ \A k \in 1..Len(t) : t[k] = s[k+1]
  OBVIOUS
<1>3. i + 1 \in 1..Len(s) /\ t[i] = s[i+1] BY <1>1, <1>2
<1> QED BY <1>1, <1>2, <1>3 DEF Mine

LEMMA SeqsAreNumbers ==
  ASSUME NEW s \in Seq(Messages), NEW c, NEW i \in Mine(c, s)
  PROVE  s[i].seq \in Nat /\ i \in 1..Len(s) /\ Len(s) \in Nat /\ s[i] \in Messages
<1>1. i \in 1..Len(s) BY DEF Mine
<1>2. s[i] \in Messages BY <1>1
<1> QED BY <1>1, <1>2 DEF Messages

\* The greatest seq of a client's commands in a batch: that of the last of them.
LEMMA GreatestOfRising ==
  ASSUME NEW s \in Seq(Messages), NEW c, Rising(c, s), \A i \in 1..Len(s) : ~ s[i].snapshot,
         SeqsOf(c, s) # {}
  PROVE  /\ \E i \in Mine(c, s) : Greatest(SeqsOf(c, s)) = s[i].seq
         /\ \A i \in Mine(c, s) : s[i].seq <= Greatest(SeqsOf(c, s))
<1>1. SeqsOf(c, s) = {s[i].seq : i \in Mine(c, s)} BY DEF SeqsOf, Mine
<1> DEFINE back == {Len(s) - i : i \in Mine(c, s)}
<1>2. back \subseteq Nat /\ back # {} BY <1>1 DEF Mine
<1> HIDE DEF back
<1>3. PICK k \in back : \A j \in back : k <= j BY <1>2, LeastIsOne
<1>4. PICK top \in Mine(c, s) : k = Len(s) - top BY <1>3 DEF back
<1>5. ASSUME NEW i \in Mine(c, s) PROVE s[i].seq <= s[top].seq
  <2>1. Len(s) - top <= Len(s) - i BY <1>3, <1>4 DEF back
  <2>2. i <= top BY <2>1, SeqsAreNumbers
  <2>3. i = top \/ i < top BY <2>2, SeqsAreNumbers
  <2>4. s[i].seq \in Nat /\ s[top].seq \in Nat BY SeqsAreNumbers
  <2> QED BY <2>3, <2>4 DEF Rising
<1>6. s[top].seq \in SeqsOf(c, s) /\ \A n \in SeqsOf(c, s) : n <= s[top].seq BY <1>1, <1>5
<1> DEFINE g == Greatest(SeqsOf(c, s))
<1>7. g \in SeqsOf(c, s) /\ \A n \in SeqsOf(c, s) : n <= g BY <1>6 DEF Greatest
<1> QED BY <1>1, <1>7

\* The invariant speaks of batch and queue, the property of the line they form.
LEMMA OrderSuffices == Shape /\ OrderInv => CommandOrder
<1> SUFFICES ASSUME Shape, OrderInv PROVE CommandOrder OBVIOUS
<1> DEFINE ahead == Batch \o queue
<1>1. queue \in Seq(Messages) /\ Batch \in Seq(Messages) BY DEF Shape, Types, Bounded, Batch
<1>2. /\ ahead \in Seq(Messages) /\ Len(ahead) = Len(Batch) + Len(queue)
      /\ Len(Batch) \in Nat /\ Len(queue) \in Nat
      /\ \A i \in 1..Len(ahead) :
           ahead[i] = IF i <= Len(Batch) THEN Batch[i] ELSE queue[i - Len(Batch)]
  BY <1>1
<1> SUFFICES ASSUME NEW c \in Clients
             PROVE  /\ \A i, j \in Mine(c, ahead) : i < j => ahead[i].seq < ahead[j].seq
                    /\ \A n \in {ahead[i].seq : i \in Mine(c, ahead)} : applied[c] < n
                    /\ pc[c] = "send" => 
                         \A n \in {ahead[i].seq : i \in Mine(c, ahead)} \cup {applied[c]} : n < seq[c]
                    /\ c \in clients =>
                         \A n \in {ahead[i].seq : i \in Mine(c, ahead)} \cup {applied[c], seq[c]} :
                           n <= handle[c].last_seq
  BY DEF CommandOrder, Batch
<1> HIDE DEF ahead
<1>3. ASSUME NEW i \in Mine(c, ahead)
      PROVE  \/ i \in Mine(c, Batch) /\ i <= Len(Batch) /\ ahead[i] = Batch[i]
             \/ i - Len(Batch) \in Mine(c, queue) /\ i > Len(Batch) /\ ahead[i] = queue[i - Len(Batch)]
  <2>1. i \in 1..Len(ahead) /\ ahead[i].client = c /\ ~ ahead[i].snapshot BY DEF Mine
  <2>2. CASE i <= Len(Batch) BY <1>2, <2>1, <2>2 DEF Mine
  <2>3. CASE ~ i <= Len(Batch)
    <3>1. i - Len(Batch) \in 1..Len(queue) /\ ahead[i] = queue[i - Len(Batch)] BY <1>2, <2>1, <2>3
    <3> QED BY <1>2, <2>1, <2>3, <3>1 DEF Mine
  <2> QED BY <2>2, <2>3
<1>4. OrderOf(c) BY DEF OrderInv
<1>5. ASSUME NEW i \in Mine(c, ahead), NEW j \in Mine(c, ahead), i < j
      PROVE  ahead[i].seq < ahead[j].seq
  <2>1. i \in Nat /\ j \in Nat BY <1>2, SeqsAreNumbers
  <2>2. CASE j \in Mine(c, Batch) /\ j <= Len(Batch) /\ ahead[j] = Batch[j]
    <3>1. i \in Mine(c, Batch) /\ ahead[i] = Batch[i] BY <1>2, <1>3, <1>5, <2>1, <2>2
    <3> QED BY <1>4, <1>5, <2>2, <3>1 DEF OrderOf, Rising
  <2>3. CASE j - Len(Batch) \in Mine(c, queue) /\ j > Len(Batch) /\ ahead[j] = queue[j - Len(Batch)]
    <3>1. CASE i \in Mine(c, Batch) /\ ahead[i] = Batch[i]
      BY <1>4, <2>3, <3>1 DEF OrderOf, Below
    <3>2. CASE i - Len(Batch) \in Mine(c, queue) /\ ahead[i] = queue[i - Len(Batch)]
      <4>1. i - Len(Batch) < j - Len(Batch) BY <1>2, <1>5, <2>1
      <4> QED BY <1>4, <2>3, <3>2, <4>1 DEF OrderOf, Rising
    <3> QED BY <1>3, <3>1, <3>2
  <2> QED BY <1>3, <2>2, <2>3
<1>6. ASSUME NEW i \in Mine(c, ahead) PROVE applied[c] < ahead[i].seq
  BY <1>3, <1>4 DEF OrderOf, Above
<1>7. ASSUME NEW i \in Mine(c, ahead), pc[c] = "send" PROVE ahead[i].seq < seq[c]
  BY <1>3, <1>4, <1>7 DEF OrderOf, Below
<1>8. ASSUME NEW i \in Mine(c, ahead), c \in clients PROVE ahead[i].seq <= handle[c].last_seq
  BY <1>3, <1>4, <1>8 DEF OrderOf, UpTo
<1>9. /\ pc[c] = "send" => applied[c] < seq[c]
      /\ c \in clients => applied[c] <= handle[c].last_seq /\ seq[c] <= handle[c].last_seq
  BY <1>4 DEF OrderOf
<1> QED BY <1>5, <1>6, <1>7, <1>8, <1>9

LEMMA OrderStart == Init => OrderInv
<1> SUFFICES ASSUME Init, NEW c \in Clients PROVE OrderOf(c) BY DEF OrderInv
<1>1. Batch = <<>> /\ queue = <<>> /\ clients = {} /\ applied[c] = 0 /\ pc[c] = "off"
  BY DEF Init, Batch
<1>2. Mine(c, <<>>) = {} BY DEF Mine
<1> QED BY <1>1, <1>2 DEF OrderOf, Rising, Above, Below

\* A queue in which the commands of c stay in their places.
SameMine(c, s, t) == Mine(c, t) = Mine(c, s) /\ \A i \in Mine(c, s) : t[i] = s[i]

LEMMA OrderFrame ==
  ASSUME Shape, NEW c \in Clients, OrderOf(c), SameMine(c, queue, queue'), UNCHANGED <<game, applied>>,
         pc'[c] = "send" => pc[c] = "send" /\ seq'[c] = seq[c],
         c \in clients' => /\ c \in clients
                           /\ handle'[c].last_seq \in Nat
                           /\ handle'[c].last_seq >= handle[c].last_seq
                           /\ seq'[c] <= handle'[c].last_seq
  PROVE  OrderOf(c)'
<1>1. Batch' = Batch /\ applied' = applied BY DEF Batch
<1>2. queue \in Seq(Messages) /\ Batch \in Seq(Messages) BY DEF Shape, Types, Bounded, Batch
<1>3. Rising(c, queue') /\ Above(c, queue', applied[c])
      /\ \A i \in Mine(c, queue') : Below(c, Batch, queue'[i].seq)
  BY DEF OrderOf, SameMine, Rising, Above
<1>4. pc'[c] = "send" => applied[c] < seq'[c] /\ Below(c, Batch, seq'[c]) /\ Below(c, queue', seq'[c])
  BY DEF OrderOf, SameMine, Below
<1>5. ASSUME c \in clients'
      PROVE  applied[c] <= handle'[c].last_seq /\ UpTo(c, Batch, handle'[c].last_seq)
             /\ UpTo(c, queue', handle'[c].last_seq)
  <2>1. handle[c].last_seq \in Nat /\ applied[c] \in Nat BY DEF Shape, Types, Handles, OrderOf
  <2>2. /\ applied[c] <= handle[c].last_seq
        /\ UpTo(c, Batch, handle[c].last_seq) /\ UpTo(c, queue, handle[c].last_seq)
    BY <1>5 DEF OrderOf
  <2>3. ASSUME NEW n \in Nat, n <= handle[c].last_seq PROVE n <= handle'[c].last_seq
    BY <1>5, <2>1, <2>3
  <2>4. UpTo(c, Batch, handle'[c].last_seq) BY <1>2, <2>2, <2>3, SeqsAreNumbers DEF UpTo
  <2>5. UpTo(c, queue', handle'[c].last_seq) BY <1>2, <2>2, <2>3, SeqsAreNumbers DEF UpTo, SameMine
  <2> QED BY <2>1, <2>2, <2>3, <2>4, <2>5
<1> QED BY <1>1, <1>3, <1>4, <1>5 DEF OrderOf

\* The step of another client, and a message that is not a command.
LEMMA OthersMine ==
  ASSUME NEW s \in Seq(Messages), NEW m \in Messages, NEW c, m.client # c \/ m.snapshot
  PROVE  SameMine(c, s, Append(s, m))
<1> DEFINE t == Append(s, m)
<1>1. /\ Len(t) = Len(s) + 1 /\ t[Len(s) + 1] = m /\ Len(s) \in Nat
      /\ \A i \in 1..Len(s) : t[i] = s[i]
  OBVIOUS
<1> HIDE DEF t
<1>2. Mine(c, t) = Mine(c, s) BY <1>1 DEF Mine
<1>3. \A i \in Mine(c, s) : t[i] = s[i] BY <1>1 DEF Mine
<1> QED BY <1>2, <1>3 DEF SameMine, t

\* The command is sent: greater than what waits, not greater than the last seq.
LEMMA OrderOfSent ==
  ASSUME Shape, NEW c \in Clients, OrderOf(c), SendCommand(c) PROVE OrderOf(c)'
<1> DEFINE m == [client |-> c, seq |-> seq[c], snapshot |-> FALSE]
<1>1. /\ queue \in Seq(Messages) /\ Batch \in Seq(Messages) /\ seq \in [Clients -> Nat]
      /\ handle[c].last_seq \in Nat /\ DOMAIN pc = Clients
  BY DEF Shape, Types, Bounded, Batch, Handles
<1>2. /\ pc[c] = "send" /\ UNCHANGED <<game, applied, clients, handle>>
      /\ pc'[c] = "read" /\ seq'[c] = 0
  BY <1>1 DEF SendCommand, GoTo, broker
<1>3. c \in clients BY <1>2 DEF Shape, Registered, Inside
<1>4. CASE UNCHANGED queue
  BY <1>1, <1>2, <1>3, <1>4, OrderFrame DEF SameMine
<1>5. CASE queue' = Append(queue, m)
  <2>1. m \in Messages /\ m.seq = seq[c] /\ seq[c] \in Nat BY <1>1 DEF Messages
  <2> HIDE DEF m
  <2>2. Batch' = Batch /\ applied' = applied BY <1>2 DEF Batch
  <2>3. /\ applied[c] < seq[c] /\ seq[c] <= handle[c].last_seq
        /\ Below(c, Batch, seq[c]) /\ Below(c, queue, seq[c])
    BY <1>2, <1>3 DEF OrderOf
  <2>4. ASSUME NEW i \in Mine(c, queue')
        PROVE  /\ i \in Nat
               /\ \/ i \in Mine(c, queue) /\ queue'[i] = queue[i] /\ i <= Len(queue)
                  \/ i = Len(queue) + 1 /\ queue'[i] = m
    <3>1. Longer(queue, m, queue') BY <1>5 DEF Longer
    <3> QED BY <1>1, <2>1, <2>4, <3>1, MineOfAppend
  <2>5. Rising(c, queue')
    <3> SUFFICES ASSUME NEW i \in Mine(c, queue'), NEW j \in Mine(c, queue'), i < j
                 PROVE  queue'[i].seq < queue'[j].seq
      BY DEF Rising
    <3>1. i \in Mine(c, queue) /\ queue'[i] = queue[i] BY <1>1, <2>4
    <3>2. CASE j \in Mine(c, queue) /\ queue'[j] = queue[j] BY <3>1, <3>2 DEF OrderOf, Rising
    <3>3. CASE queue'[j] = m BY <2>1, <2>3, <3>1, <3>3 DEF Below
    <3> QED BY <2>4, <3>2, <3>3
  <2>6. ASSUME NEW i \in Mine(c, queue')
        PROVE  /\ Below(c, Batch, queue'[i].seq) /\ applied[c] < queue'[i].seq
               /\ queue'[i].seq <= handle[c].last_seq
    <3>1. CASE i \in Mine(c, queue) /\ queue'[i] = queue[i]
      BY <1>3, <3>1 DEF OrderOf, Above, UpTo
    <3>2. CASE queue'[i] = m BY <2>1, <2>3, <3>2
    <3> QED BY <2>4, <3>1, <3>2
  <2>7. applied[c] \in Nat /\ Rising(c, Batch) /\ Above(c, Batch, applied[c])
        /\ applied[c] <= handle[c].last_seq /\ UpTo(c, Batch, handle[c].last_seq)
    BY <1>3 DEF OrderOf
  <2>8. pc'[c] # "send" /\ clients' = clients /\ handle' = handle /\ 0 <= handle[c].last_seq
    BY <1>1, <1>2
  <2> QED BY <1>2, <2>2, <2>5, <2>6, <2>7, <2>8 DEF OrderOf, Above, UpTo
<1> QED BY <1>4, <1>5 DEF SendCommand

LEMMA OwnOrder ==
  ASSUME Shape, NEW c \in Clients, OrderOf(c), TaskStep(c) \/ Outside(c) PROVE OrderOf(c)'
<1>1. /\ queue \in Seq(Messages) /\ Batch \in Seq(Messages) /\ seq \in [Clients -> Nat]
      /\ handle[c].last_seq \in Nat /\ DOMAIN pc = Clients /\ Types /\ SeqAfterHello /\ Registered
  BY DEF Shape, Types, Bounded, Batch, Handles
<1>2. /\ handle'[c].last_seq \in Nat /\ UNCHANGED <<game, applied>>
      /\ (c \in clients' => handle'[c].last_seq >= handle[c].last_seq)
  BY <1>1, ClientFrame, OwnSeq DEF ClientTypes, Handles
<1>3. c \in clients => seq[c] <= handle[c].last_seq BY DEF OrderOf
<1>4. UNCHANGED queue => SameMine(c, queue, queue') BY DEF SameMine
\* Steps that send nothing and number nothing.
<1>5. ASSUME SameMine(c, queue, queue'), c \in clients' => c \in clients,
             seq'[c] \in {seq[c], 0},
             pc'[c] = "send" => pc[c] = "send" /\ seq'[c] = seq[c]
      PROVE  OrderOf(c)'
  <2>1. c \in clients' => seq'[c] <= handle'[c].last_seq BY <1>1, <1>2, <1>3, <1>5
  <2> QED BY <1>2, <1>5, <2>1, OrderFrame
<1>6. CASE Accept(c) \/ Disconnect(c) \/ SeeShutdown(c) \/ EmitStatus(c) \/ CleanUp(c) \/ Leave(c)
  <2>1. UNCHANGED <<queue, seq>> /\ clients' \subseteq clients
    BY <1>6 DEF Accept, Disconnect, SeeShutdown, EmitStatus, CleanUp, RemoveAndPromote, Leave, broker, loop
  <2>2. pc'[c] # "send"
    BY <1>1, <1>6 DEF Accept, Disconnect, SeeShutdown, EmitStatus, CleanUp, Leave, GoTo
  <2> QED BY <1>4, <1>5, <2>1, <2>2
<1>7. CASE Register(c)
  <2>1. /\ pc[c] = "accepted" /\ pc'[c] = "status" /\ UNCHANGED <<queue, seq, handle>>
    BY <1>1, <1>7 DEF Register, GoTo, loop
  <2>2. /\ handle'[c].last_seq = 0 /\ seq'[c] = 0 /\ applied[c] = 0
        /\ Absent(c, queue) /\ Absent(c, game.pending)
    BY <2>1 DEF Shape, Untouched, NoHello
  <2>3. Mine(c, queue) = {} /\ Mine(c, Batch) = {} BY <2>2 DEF Absent, Mine, Batch
  <2>4. Batch' = Batch BY <1>2 DEF Batch
  <2> QED BY <1>2, <2>1, <2>2, <2>3, <2>4 DEF OrderOf, Rising, Above, Below, UpTo
<1>8. CASE Sent(c) \/ WriterFails(c) \/ Broadcast(c)
  BY <1>4, <1>5, <1>8 DEF Sent, WriterFails, Broadcast, broker, loop
<1>9. CASE AssignRole(c)
  <2>1. UNCHANGED <<queue, clients>> /\ seq'[c] = 0 /\ pc'[c] # "send"
    BY <1>1, <1>9 DEF AssignRole, GoTo, loop
  <2> QED BY <1>4, <1>5, <2>1
<1>10. CASE RequestSnapshot(c)
  <2> DEFINE m == [client |-> c, seq |-> 0, snapshot |-> TRUE]
  <2>1. queue' = Append(queue, m) /\ UNCHANGED <<clients, seq>> /\ pc'[c] # "send"
    BY <1>1, <1>10 DEF RequestSnapshot, GoTo, broker
  <2>2. m \in Messages /\ m.snapshot BY DEF Messages
  <2> HIDE DEF m
  <2> QED BY <1>1, <1>5, <2>1, <2>2, OthersMine
<1>11. CASE SendCommand(c) BY <1>11, OrderOfSent
<1>12. CASE ReadMismatch(c) \/ ReadClaim(c) \/ ReadRelease(c) \/ ReadUnknown(c) \/ ReadGarbage(c)
  <2>1. pc[c] = "read" /\ UNCHANGED <<queue, clients, seq>>
    BY <1>12 DEF ReadMismatch, ReadClaim, ReadRelease, ReadUnknown, ReadGarbage, ReadLine, Refuse,
                 broker, loop
  <2>2. pc'[c] # "send"
    BY <1>1, <1>12, <2>1 DEF ReadMismatch, ReadClaim, ReadRelease, ReadUnknown, ReadGarbage, Refuse, GoTo
  <2> QED BY <1>4, <1>5, <2>1, <2>2
<1>13. CASE ReadHello(c) \/ ReadCommand(c)
  <2>1. pc[c] = "read" /\ UNCHANGED <<queue, clients>> /\ c \in clients
    BY <1>1, <1>13 DEF ReadHello, ReadCommand, ReadLine, loop, Registered, Inside
  <2>2. CASE Refuse(c) BY <1>4, <1>5, <2>1, <2>2 DEF Refuse
  <2>3. ASSUME NEW n \in 1..MaxSeq, Continue(c, n, "assign"), handle'[c].last_seq = n
        PROVE  OrderOf(c)'
    <3>1. seq'[c] = n /\ pc'[c] = "assign" BY <1>1, <2>3 DEF Continue, GoTo
    <3>2. seq'[c] <= handle'[c].last_seq BY <1>2, <2>3, <3>1
    <3> QED BY <1>2, <1>4, <2>1, <3>1, <3>2, OrderFrame
  <2>4. ASSUME NEW n \in 1..MaxSeq, Accepts(c, n), UseSeq(c, n), Continue(c, n, "send")
        PROVE  OrderOf(c)'
    <3>1. seq'[c] = n BY <1>1, <2>4 DEF Continue
    <3>2. n \in Nat /\ n > handle[c].last_seq BY <2>4, ConstantRanges DEF Accepts
    <3>3. handle'[c].last_seq = n BY <1>1, <2>4, <3>2, UseSeqFrame
    <3>4. Batch' = Batch /\ queue' = queue BY <1>2, <2>1 DEF Batch
    <3>5. /\ applied[c] \in Nat /\ applied[c] <= handle[c].last_seq
          /\ UpTo(c, Batch, handle[c].last_seq) /\ UpTo(c, queue, handle[c].last_seq)
      BY <2>1 DEF OrderOf
    <3>6. /\ applied[c] < n /\ Below(c, Batch, n) /\ Below(c, queue, n)
          /\ applied[c] <= n /\ UpTo(c, Batch, n) /\ UpTo(c, queue, n) /\ n <= n
      <4>1. ASSUME NEW k \in Nat, k <= handle[c].last_seq PROVE k < n /\ k <= n
        BY <1>1, <3>2, <4>1
      <4> QED BY <1>1, <3>2, <3>5, <4>1, SeqsAreNumbers DEF Below, UpTo
    <3> QED BY <1>2, <3>1, <3>3, <3>4, <3>6 DEF OrderOf
  <2>5. CASE ReadHello(c) /\ ~ Refuse(c)
    <3>1. PICK n \in 1..MaxSeq :
            /\ Continue(c, n, "assign")
            /\ \E role \in Roles, stream \in Streams :
                 handle' = [handle EXCEPT ![c] = [requested_role |-> role, stream |-> stream,
                                                  handshaken |-> TRUE, last_seq |-> n]]
      BY <2>5 DEF ReadHello
    <3>2. handle'[c].last_seq = n BY <1>1, <3>1 DEF Types
    <3> QED BY <2>3, <3>1, <3>2
  <2>6. CASE ReadCommand(c) /\ ~ Refuse(c) BY <2>4, <2>6 DEF ReadCommand
  <2> QED BY <1>13, <2>2, <2>5, <2>6
<1> QED BY <1>6, <1>7, <1>8, <1>9, <1>10, <1>11, <1>12, <1>13 DEF TaskStep, Outside

\* The game loop takes from the queue to the batch, applies the batch, answers it.
LEMMA GameOrder ==
  ASSUME Shape, NEW c \in Clients, OrderOf(c), GameStep PROVE OrderOf(c)'
<1>1. /\ queue \in Seq(Messages) /\ game.pending \in Seq(Messages) /\ Batch \in Seq(Messages)
      /\ game \in [pc : {"drain", "ack"}, drained : Nat, pending : Seq(Messages)]
      /\ Types /\ BatchOfCommands
  BY DEF Shape, Types, Bounded, Batch
<1>2. UNCHANGED <<broker, pc, seq>> BY <1>1, GameFrame
<1>3. clients' = clients /\ handle' = handle BY <1>2 DEF broker
<1>4. Mine(c, <<>>) = {} BY DEF Mine
<1>5. CASE GameTake
  <2> DEFINE m == Head(queue)
  <2>1. /\ game.pc = "drain" /\ queue # <<>> /\ queue' = Tail(queue) /\ applied' = applied
        /\ game' = [game EXCEPT !.drained = game.drained + 1,
                                !.pending = IF m.snapshot THEN game.pending ELSE Append(game.pending, m)]
    BY <1>5 DEF GameTake
  <2>2. m \in Messages /\ m = queue[1] /\ 1 \in 1..Len(queue) BY <1>1, <2>1
  <2> HIDE DEF m
  <2>3. /\ Batch = game.pending
        /\ Batch' = IF m.snapshot THEN game.pending ELSE Append(game.pending, m)
    BY <1>1, <2>1 DEF Batch
  <2>4. m.client = c /\ ~ m.snapshot => 1 \in Mine(c, queue) BY <2>2 DEF Mine
\* Every command of the new batch and of the new queue was in the old line.
  <2>5. ASSUME NEW i \in Mine(c, Batch')
        PROVE  /\ i \in Nat
               /\ \/ i \in Mine(c, Batch) /\ Batch'[i] = Batch[i] /\ i <= Len(Batch)
                  \/ i = Len(Batch) + 1 /\ Batch'[i] = queue[1] /\ 1 \in Mine(c, queue)
    <3>1. CASE m.snapshot
      <4>1. Batch' = Batch BY <2>3, <3>1
      <4> QED BY <1>1, <4>1, SeqsAreNumbers
    <3>2. CASE ~ m.snapshot
      <4>1. Longer(Batch, m, Batch') BY <2>3, <3>2 DEF Longer
      <4> QED BY <1>1, <2>2, <2>4, <4>1, MineOfAppend
    <3> QED BY <3>1, <3>2
  <2>6. ASSUME NEW i \in Mine(c, queue')
        PROVE  i \in Nat /\ i + 1 \in Mine(c, queue) /\ queue'[i] = queue[i + 1] /\ 1 < i + 1
    <3>1. Shorter(queue, queue') BY <2>1 DEF Shorter
    <3>2. i \in Nat /\ i > 0 /\ i + 1 \in Mine(c, queue) /\ queue'[i] = queue[i + 1]
      BY <1>1, <2>6, <3>1, MineOfTail
    <3> QED BY <3>2
  <2>7. Rising(c, Batch')
    <3> SUFFICES ASSUME NEW i \in Mine(c, Batch'), NEW j \in Mine(c, Batch'), i < j
                 PROVE  Batch'[i].seq < Batch'[j].seq
      BY DEF Rising
    <3>1. Len(Batch) \in Nat BY <1>1
    <3>2. i \in Mine(c, Batch) /\ Batch'[i] = Batch[i] BY <2>5, <3>1
    <3>3. CASE j \in Mine(c, Batch) /\ Batch'[j] = Batch[j] BY <3>2, <3>3 DEF OrderOf, Rising
    <3>4. CASE Batch'[j] = queue[1] /\ 1 \in Mine(c, queue) BY <3>2, <3>4 DEF OrderOf, Below
    <3> QED BY <2>5, <3>3, <3>4
  <2>8. Rising(c, queue')
    <3> SUFFICES ASSUME NEW i \in Mine(c, queue'), NEW j \in Mine(c, queue'), i < j
                 PROVE  queue'[i].seq < queue'[j].seq
      BY DEF Rising
    <3>1. i + 1 < j + 1 BY <2>6
    <3> QED BY <2>6, <3>1 DEF OrderOf, Rising
  <2>9. ASSUME NEW i \in Mine(c, queue'), NEW j \in Mine(c, Batch')
        PROVE  Batch'[j].seq < queue'[i].seq
    <3>1. CASE j \in Mine(c, Batch) /\ Batch'[j] = Batch[j] BY <2>6, <3>1 DEF OrderOf, Below
    <3>2. CASE Batch'[j] = queue[1] /\ 1 \in Mine(c, queue) BY <2>6, <3>2 DEF OrderOf, Rising
    <3> QED BY <2>5, <3>1, <3>2
  <2>10. ASSUME NEW j \in Mine(c, Batch')
         PROVE  /\ applied[c] < Batch'[j].seq
                /\ pc[c] = "send" => Batch'[j].seq < seq[c]
                /\ c \in clients => Batch'[j].seq <= handle[c].last_seq
    <3>1. CASE j \in Mine(c, Batch) /\ Batch'[j] = Batch[j] BY <3>1 DEF OrderOf, Above, Below, UpTo
    <3>2. CASE Batch'[j] = queue[1] /\ 1 \in Mine(c, queue) BY <3>2 DEF OrderOf, Above, Below, UpTo
    <3> QED BY <2>5, <3>1, <3>2
  <2>11. ASSUME NEW i \in Mine(c, queue')
         PROVE  /\ applied[c] < queue'[i].seq
                /\ pc[c] = "send" => queue'[i].seq < seq[c]
                /\ c \in clients => queue'[i].seq <= handle[c].last_seq
    BY <2>6 DEF OrderOf, Above, Below, UpTo
  <2>12. /\ applied[c] \in Nat /\ pc[c] = "send" => applied[c] < seq[c]
         /\ c \in clients => applied[c] <= handle[c].last_seq /\ seq[c] <= handle[c].last_seq
    BY DEF OrderOf
  <2> HIDE DEF OrderOf
  <2> QED BY <1>2, <1>3, <2>1, <2>7, <2>8, <2>9, <2>10, <2>11, <2>12 DEF OrderOf, Above, Below, UpTo
<1>6. CASE GameApply
  <2>1. /\ game.pc = "drain" /\ queue' = queue
        /\ game' = [game EXCEPT !.drained = 0, !.pc = IF game.pending = <<>> THEN "drain" ELSE "ack"]
        /\ applied'[c] = IF SeqsOf(c, game.pending) = {} THEN applied[c]
                          ELSE Greatest(SeqsOf(c, game.pending))
    BY <1>6 DEF GameApply
  <2>2. Batch = game.pending /\ Batch' = <<>> BY <1>1, <2>1 DEF Batch
  <2>3. \A i \in 1..Len(game.pending) : ~ game.pending[i].snapshot BY <1>1 DEF BatchOfCommands
  <2>4. /\ applied'[c] \in Nat /\ Above(c, queue, applied'[c])
        /\ pc[c] = "send" => applied'[c] < seq[c]
        /\ c \in clients => applied'[c] <= handle[c].last_seq
    <3>1. CASE SeqsOf(c, game.pending) = {} BY <2>1, <3>1 DEF OrderOf
    <3>2. CASE SeqsOf(c, game.pending) # {}
      <4>1. Rising(c, game.pending) BY <2>2 DEF OrderOf
      <4>2. PICK i \in Mine(c, game.pending) : Greatest(SeqsOf(c, game.pending)) = game.pending[i].seq
        BY <1>1, <2>3, <3>2, <4>1, GreatestOfRising
      <4>3. applied'[c] = Batch[i].seq /\ i \in Mine(c, Batch) BY <2>1, <2>2, <3>2, <4>2
      <4>4. Batch[i].seq \in Nat BY <1>1, <4>3, SeqsAreNumbers
      <4> QED BY <4>3, <4>4 DEF OrderOf, Above, Below, UpTo
    <3> QED BY <3>1, <3>2
  <2> QED BY <1>2, <1>3, <1>4, <2>1, <2>2, <2>4 DEF OrderOf, Rising, Above, Below, UpTo
<1>7. CASE GameAck
  <2>1. /\ game.pc = "ack" /\ queue' = queue /\ applied' = applied
        /\ game' = [game EXCEPT !.pending = Tail(game.pending),
                                !.pc = IF Len(game.pending) = 1 THEN "drain" ELSE "ack"]
    BY <1>7 DEF GameAck
  <2>2. Batch = <<>> BY <2>1 DEF Batch
  <2>3. Batch' = <<>>
    <3>1. game'.pc = (IF Len(game.pending) = 1 THEN "drain" ELSE "ack") /\ game'.pending = Tail(game.pending)
      BY <1>1, <2>1
    <3>2. CASE Len(game.pending) = 1
      <4>1. game.pending # <<>> BY <3>2
      <4>2. game'.pending \in Seq(Messages) /\ Len(game'.pending) = Len(game.pending) - 1
        BY <1>1, <3>1, <4>1
      <4>3. game'.pending = <<>> BY <3>2, <4>2
      <4> QED BY <3>1, <4>3 DEF Batch
    <3>3. CASE Len(game.pending) # 1 BY <3>1, <3>3 DEF Batch
    <3> QED BY <3>2, <3>3
  <2> QED BY <1>2, <1>3, <2>1, <2>2, <2>3 DEF OrderOf
<1> QED BY <1>5, <1>6, <1>7 DEF GameStep

LEMMA OrderStep == Shape /\ OrderInv /\ [Next]_vars => OrderInv'
<1> SUFFICES ASSUME Shape, OrderInv, [Next]_vars, NEW c \in Clients PROVE OrderOf(c)' BY DEF OrderInv
<1>1. OrderOf(c) BY DEF OrderInv
<1>2. CASE UNCHANGED vars
  <2>1. Batch' = Batch BY <1>2 DEF Batch, vars, loop
  <2> QED BY <1>1, <1>2, <2>1 DEF OrderOf, vars, broker, loop
<1>3. CASE GameStep BY <1>1, <1>3, GameOrder
<1>4. CASE TaskStep(c) \/ Outside(c) BY <1>1, <1>4, OwnOrder
<1>5. ASSUME NEW d \in Clients, d # c, TaskStep(d) \/ Outside(d) PROVE OrderOf(c)'
  <2>1. Types /\ queue \in Seq(Messages) /\ handle[c].last_seq \in Nat BY DEF Shape, Types, Bounded, Handles
  <2>2. Same(c) /\ UNCHANGED <<game, applied>> BY <1>5, <2>1, ClientFrame
  <2>3. SameMine(c, queue, queue')
    <3>1. CASE UNCHANGED queue BY <3>1 DEF SameMine
    <3>2. CASE ~ UNCHANGED queue
      <4>1. PICK m \in Messages : m.client = d /\ queue' = Append(queue, m)
        BY <1>5, <2>1, <3>2, ClientFrame
      <4> QED BY <1>5, <2>1, <4>1, OthersMine
    <3> QED BY <3>1, <3>2
  <2>4. c \in clients' => /\ c \in clients /\ handle'[c].last_seq = handle[c].last_seq
                          /\ seq'[c] <= handle[c].last_seq
    BY <1>1, <2>2 DEF Same, OrderOf
  <2>5. pc'[c] = "send" => pc[c] = "send" /\ seq'[c] = seq[c] BY <2>2 DEF Same
  <2> QED BY <1>1, <2>1, <2>2, <2>3, <2>4, <2>5, OrderFrame
<1> QED BY <1>2, <1>3, <1>4, <1>5 DEF Next

\* SPEC.md: duplicate or decreasing sequences are neither enqueued nor applied. At every
\* moment what a client had applied, what waits in the batch and in the queue, and what
\* its task is about to send have strictly increasing seqs, none above its last one.
THEOREM CommandsInOrder == Spec => []CommandOrder
BY AlwaysShape, OrderStart, OrderStep, OrderSuffices, PTL DEF Spec
=============================================================================
