------------------------------- MODULE Server -------------------------------
(***************************************************************************)
(* The threads of the coordinator process (coordinator/coordinator.cpp,    *)
(* coordinator_main.cpp): the acceptor, one reader per connection, the     *)
(* decision thread and the main thread that calls stop(); what they share: *)
(* running_, the inbound queue with its condition variable, the connection *)
(* table and conns_mu_, which a send keeps locked; and the clients at the  *)
(* other end of the sockets.                                               *)
(*                                                                         *)
(* What a frame asks for is abstracted to what the decision thread does    *)
(* with its connections: "ask" is answered, "pass" sends a frame to some   *)
(* other connection before it is answered (DISPATCH, RESUME), "drop" gets  *)
(* no answer (a payload that does not unpack), "halt" is a SHUTDOWN frame. *)
(* A critical section that cannot block is one step.                       *)
(***************************************************************************)
EXTENDS Naturals, Sequences

CONSTANTS
  Clients,       \* the clients, each of which connects once
  Kinds,         \* the kinds of request they send
  MaxRequests,   \* bound: the requests a client sends
  StopAfter,     \* bound: stop() is called after at most so many requests
  Capacity       \* frames that fit into a socket's buffers, each way

Owed == {"ask", "pass"}

ASSUME ServerAssumption ==
  /\ Kinds \subseteq Owed \cup {"drop", "halt"}
  /\ {MaxRequests, StopAfter} \subseteq Nat
  /\ Capacity \in Nat \ {0}

VARIABLES
  running,     \* running_
  main,        \* main(): where it is in stop(), or "loop"
  acceptor,    \* the acceptor thread
  reader,      \* the reader thread of each connection
  decision,    \* the decision thread
  hand,        \* the sends it has still to do for the frame it handles
  queue,       \* queue_
  table,       \* the keys of conns_
  client,      \* each client: not connected, up or gone
  writing,     \* whether it is in send(), and so does not read
  out,         \* the requests it sent and its reader has not received
  inbox,       \* how many frames it was sent and has not read
  asked,       \* how many requests it has begun: the number of the latest
  due          \* history: the numbers of the requests of each client that are
               \* owed an answer

threads == <<main, acceptor, reader, decision>>
sockets == <<client, writing, out, inbox>>
history == <<asked, due>>
vvars == <<running, threads, hand, queue, table, sockets, history>>

\* A queue entry.  The marker of a closed connection has kind "closed"; the
\* SHUTDOWN frame that stop() pushes comes from connection 0.
Inbound(c, n, kind) == [conn |-> c, number |-> n, kind |-> kind]

VInit ==
  /\ running = TRUE
  /\ main = "loop"
  /\ acceptor = "accept"
  /\ reader = [c \in Clients |-> "none"]
  /\ decision = "test"
  /\ hand = <<>>
  /\ queue = <<>>
  /\ table = {}
  /\ client = [c \in Clients |-> "none"]
  /\ writing = [c \in Clients |-> FALSE]
  /\ out = [c \in Clients |-> <<>>]
  /\ inbox = [c \in Clients |-> 0]
  /\ asked = [c \in Clients |-> 0]
  /\ due = [c \in Clients |-> <<>>]

-----------------------------------------------------------------------------
(* The clients.  A worker sends START and COMPLETE without reading between *)
(* them; a controller reads the answer of each request.                    *)

Connect(c) ==
  /\ client[c] = "none"
  /\ main \in {"loop", "close"}
  /\ client' = [client EXCEPT ![c] = "up"]
  /\ UNCHANGED <<running, threads, hand, queue, table, writing, out, inbox,
                 history>>

\* The bound on requests includes that none is begun once running_ is false.
Begin(c) ==
  /\ client[c] = "up"
  /\ ~writing[c]
  /\ asked[c] < MaxRequests
  /\ running
  /\ writing' = [writing EXCEPT ![c] = TRUE]
  /\ asked' = [asked EXCEPT ![c] = @ + 1]
  /\ UNCHANGED <<running, threads, hand, queue, table, client, out, inbox, due>>

\* send() blocks while the buffers are full.
Send(c) ==
  /\ client[c] = "up"
  /\ writing[c]
  /\ Len(out[c]) < Capacity
  /\ writing' = [writing EXCEPT ![c] = FALSE]
  /\ \E kind \in Kinds :
       /\ out' = [out EXCEPT ![c] = Append(@, [number |-> asked[c], kind |-> kind])]
       /\ due' = IF kind \in Owed THEN [due EXCEPT ![c] = Append(@, asked[c])]
                                  ELSE due
  /\ UNCHANGED <<running, threads, hand, queue, table, client, inbox, asked>>

Read(c) ==
  /\ client[c] = "up"
  /\ ~writing[c]
  /\ inbox[c] > 0
  /\ inbox' = [inbox EXCEPT ![c] = @ - 1]
  /\ UNCHANGED <<running, threads, hand, queue, table, client, writing, out,
                 history>>

\* What it sent may still arrive; what was sent to it is gone.
Leave(c) ==
  /\ client[c] = "up"
  /\ client' = [client EXCEPT ![c] = "gone"]
  /\ writing' = [writing EXCEPT ![c] = FALSE]
  /\ inbox' = [inbox EXCEPT ![c] = 0]
  /\ due' = [due EXCEPT ![c] = <<>>]
  /\ UNCHANGED <<running, threads, hand, queue, table, out, asked>>

-----------------------------------------------------------------------------
(* Acceptor and readers.                                                   *)

\* The test of reader_loop, made when the thread starts and after each frame:
\* a reader that is in recv_frame does not see running_ change.
Loop == IF running THEN "recv" ELSE "leave"

\* conns_mu_: only a send keeps it for more than a moment.
Locked == decision = "sending"

\* The entry is made under conns_mu_ before the reader is started.
AcceptOne(c) ==
  /\ acceptor = "accept"
  /\ client[c] # "none"
  /\ reader[c] = "none"
  /\ ~Locked
  /\ table' = table \cup {c}
  /\ reader' = [reader EXCEPT ![c] = Loop]
  /\ acceptor' = IF running THEN "accept" ELSE "done"
  /\ UNCHANGED <<running, main, decision, hand, queue, sockets, history>>

\* accept() fails once the listener is closed, where closing a socket ends a
\* blocked accept(); elsewhere stop() waits for the acceptor as well.
AcceptFails ==
  /\ acceptor = "accept"
  /\ main \notin {"loop", "close"}
  /\ acceptor' = "done"
  /\ UNCHANGED <<running, main, reader, decision, hand, queue, table,
                 sockets, history>>

\* Mutant: the reader locks conns_mu_ to push a frame.
ReceiveLocking(c) ==
  /\ reader[c] = "recv"
  /\ out[c] # <<>>
  /\ ~Locked
  /\ queue' = Append(queue, Inbound(c, Head(out[c]).number, Head(out[c]).kind))
  /\ out' = [out EXCEPT ![c] = Tail(@)]
  /\ reader' = [reader EXCEPT ![c] = "notify"]
  /\ UNCHANGED <<running, main, acceptor, decision, hand, table, client,
                 writing, inbox, history>>

\* recv_frame returns a frame, which is pushed; the notification follows, after
\* q_mu_ is released.
Receive(c) ==
  /\ reader[c] = "recv"
  /\ out[c] # <<>>
  /\ queue' = Append(queue, Inbound(c, Head(out[c]).number, Head(out[c]).kind))
  /\ out' = [out EXCEPT ![c] = Tail(@)]
  /\ reader' = [reader EXCEPT ![c] = "notify"]
  /\ UNCHANGED <<running, main, acceptor, decision, hand, table, client,
                 writing, inbox, history>>

\* The end of the stream, or running_ found false, whoever is connected.
EndOfReader(c) ==
  /\ \/ reader[c] = "recv" /\ out[c] = <<>> /\ client[c] = "gone"
     \/ reader[c] = "leave"
  /\ queue' = Append(queue, Inbound(c, 0, "closed"))
  /\ reader' = [reader EXCEPT ![c] = "last"]
  /\ UNCHANGED <<running, main, acceptor, decision, hand, table, sockets,
                 history>>

Woken == IF decision = "asleep" THEN "test" ELSE decision

Notify(c) ==
  /\ reader[c] \in {"notify", "last"}
  /\ reader' = [reader EXCEPT ![c] = IF @ = "last" THEN "ended" ELSE Loop]
  /\ decision' = Woken
  /\ UNCHANGED <<running, main, acceptor, hand, queue, table, sockets,
                 history>>

-----------------------------------------------------------------------------
(* The decision thread.                                                    *)

\* Mutant: the thread waits without looking at the queue first.
WaitBlindly ==
  /\ decision = "test"
  /\ decision' = "asleep"
  /\ UNCHANGED <<running, main, acceptor, reader, hand, queue, table,
                 sockets, history>>

\* The predicate of wait() is tested under q_mu_, which sleeping releases.
Wait ==
  /\ decision = "test"
  /\ queue = <<>>
  /\ decision' = "asleep"
  /\ UNCHANGED <<running, main, acceptor, reader, hand, queue, table,
                 sockets, history>>

\* A wait may also end for no reason.
SpuriousWakeup ==
  /\ decision = "asleep"
  /\ decision' = "test"
  /\ UNCHANGED <<running, main, acceptor, reader, hand, queue, table,
                 sockets, history>>

\* The sends an entry may lead to, in order: the number is 0 for a frame that
\* is passed on, and that of the request for its answer.
SendsFor(i) ==
  LET answer == <<[to |-> i.conn, number |-> i.number]>>
  IN  CASE i.kind = "ask"  -> {answer}
        [] i.kind = "pass" ->
             IF table \subseteq {i.conn} THEN {answer}
             ELSE {<<[to |-> d, number |-> 0]>> \o answer : d \in table \ {i.conn}}
        [] OTHER           -> {<<>>}

\* Mutant: the newest entry of the queue is taken.
TakeNewest ==
  LET i == queue[Len(queue)]
  IN  /\ decision = "test"
      /\ queue # <<>>
      /\ queue' = SubSeq(queue, 1, Len(queue) - 1)
      /\ hand' \in SendsFor(i)
      /\ table' = IF i.kind = "closed" THEN table \ {i.conn} ELSE table
      /\ running' = (running /\ i.kind # "halt")
      /\ decision' = IF hand' = <<>> THEN "test" ELSE "send"
      /\ UNCHANGED <<main, acceptor, reader, sockets, history>>

\* The oldest entry is taken and handled up to its first send.
Take ==
  LET i == Head(queue)
  IN  /\ decision = "test"
      /\ queue # <<>>
      /\ queue' = Tail(queue)
      /\ hand' \in SendsFor(i)
      /\ table' = IF i.kind = "closed" THEN table \ {i.conn} ELSE table
      /\ running' = (running /\ i.kind # "halt")
      /\ decision' = IF hand' = <<>> THEN "test" ELSE "send"
      /\ UNCHANGED <<main, acceptor, reader, sockets, history>>

\* send_to locks conns_mu_, which is free, and keeps it for the whole send.
Lock ==
  /\ decision = "send"
  /\ decision' = "sending"
  /\ UNCHANGED <<running, main, acceptor, reader, hand, queue, table, sockets,
                 history>>

Sent ==
  /\ hand' = Tail(hand)
  /\ decision' = IF Tail(hand) = <<>> THEN "test" ELSE "send"

\* Mutant: every error of send() is retried.
FailIfUnknown ==
  /\ decision = "sending"
  /\ Head(hand).to \notin table
  /\ Sent
  /\ UNCHANGED <<running, main, acceptor, reader, queue, table, sockets, history>>

\* There is no such connection any more, or send() reports that it is closed.
SendFails ==
  /\ decision = "sending"
  /\ Head(hand).to \notin table \/ client[Head(hand).to] # "up"
  /\ Sent
  /\ UNCHANGED <<running, main, acceptor, reader, queue, table, sockets, history>>

\* send() blocks while the client's buffers are full.
SendCompletes ==
  LET h == Head(hand)
  IN  /\ decision = "sending"
      /\ h.to \in table
      /\ client[h.to] = "up"
      /\ inbox[h.to] < Capacity
      /\ inbox' = [inbox EXCEPT ![h.to] = @ + 1]
      /\ due' = IF h.number = 0 THEN due ELSE [due EXCEPT ![h.to] = Tail(@)]
      /\ Sent
      /\ UNCHANGED <<running, main, acceptor, reader, queue, table, client, writing,
                     out, asked>>

-----------------------------------------------------------------------------
(* stop(), called by a signal handler or the destructor.                   *)

\* A second call, or one after a SHUTDOWN frame, returns at once.
StopBegins ==
  /\ main = "loop"
  /\ running
  /\ \A c \in Clients : asked[c] <= StopAfter
  /\ running' = FALSE
  /\ main' = "close"
  /\ UNCHANGED <<acceptor, reader, decision, hand, queue, table, sockets,
                 history>>

CloseListener ==
  /\ main = "close"
  /\ main' = "join_acceptor"
  /\ UNCHANGED <<running, acceptor, reader, decision, hand, queue, table,
                 sockets, history>>

\* The acceptor is joined, and a SHUTDOWN frame pushed.
PushShutdown ==
  /\ main = "join_acceptor"
  /\ acceptor = "done"
  /\ queue' = Append(queue, Inbound(0, 0, "halt"))
  /\ main' = "notify"
  /\ UNCHANGED <<running, acceptor, reader, decision, hand, table, sockets,
                 history>>

\* Then the decision thread is joined.
StopNotifies ==
  /\ main = "notify"
  /\ decision' = Woken
  /\ main' = "join_decision"
  /\ UNCHANGED <<running, acceptor, reader, hand, queue, table, sockets,
                 history>>

-----------------------------------------------------------------------------
ClientStep(c) ==
  \/ Connect(c)
  \/ Begin(c)
  \/ Send(c)
  \/ Read(c)
  \/ Leave(c)

ReaderStep(c) == Receive(c) \/ EndOfReader(c) \/ Notify(c)
AcceptorStep == AcceptFails \/ \E c \in Clients : AcceptOne(c)
DecisionStep == Wait \/ Take \/ Lock \/ SendFails \/ SendCompletes
StopStep == CloseListener \/ PushShutdown \/ StopNotifies

VNext ==
  \/ \E c \in Clients : ClientStep(c) \/ ReaderStep(c)
  \/ AcceptorStep
  \/ DecisionStep
  \/ SpuriousWakeup
  \/ StopBegins
  \/ StopStep

\* Threads that can run do.  A client finishes what it began to send, and
\* reads what it is sent when it is not sending: a client that does neither
\* and stays connected holds up everyone, because the decision thread waits
\* for it with conns_mu_ locked.
VFairness ==
  /\ WF_vvars(AcceptorStep)
  /\ WF_vvars(DecisionStep)
  /\ WF_vvars(StopStep)
  /\ \A c \in Clients :
       WF_vvars(ReaderStep(c)) /\ WF_vvars(Send(c)) /\ WF_vvars(Read(c))

VSpec == VInit /\ [][VNext]_vvars /\ VFairness

-----------------------------------------------------------------------------
\* The decision thread never sleeps on work: when it is asleep and the queue
\* is not, whoever pushed last has not yet notified it.
NoLostWakeup ==
  decision = "asleep" /\ queue # <<>> =>
    main = "notify" \/ \E c \in Clients : reader[c] \in {"notify", "last"}

\* The answer a client is about to be sent is that of its oldest request that
\* is owed one, whatever others ask for and in whatever order they are served:
\* a controller may take the next answer it reads for that of its request.
AnswersInOrder ==
  decision = "sending" /\ Head(hand).number # 0 =>
    LET h == Head(hand)
    IN  client[h.to] = "up" => due[h.to] # <<>> /\ Head(due[h.to]) = h.number

OwedTo(c, n) == \E i \in DOMAIN due[c] : due[c][i] = n

\* A request of a client that stays is answered, although answers are sent
\* with conns_mu_ locked and to clients that may be sending themselves: no
\* ring of full buffers closes, because a reader never waits for anyone.
RequestsAnswered ==
  \A c \in Clients, n \in 1 .. MaxRequests :
    OwedTo(c, n) ~> ~OwedTo(c, n) \/ ~running

\* A client that connects is accepted, although the acceptor needs the mutex
\* that sends to others hold.
ClientsAccepted ==
  \A c \in Clients :
    (client[c] = "up") ~> (reader[c] # "none" \/ client[c] = "gone" \/ ~running)

-----------------------------------------------------------------------------
(* What the repository says of the process, and the code does not do.      *)

\* "Wait for the listener / decision threads to finish (SIGINT triggers
\* stop)" (coordinator_main.cpp): once stop() has begun, they do finish.
StopFinishes ==
  (main = "close") ~> (acceptor = "done" /\ decision = "done")
=============================================================================
