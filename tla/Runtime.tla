------------------------------ MODULE Runtime ------------------------------
(***************************************************************************)
(* Coordinator and workers together: the worker processes                  *)
(* (worker/worker.cpp), the frames under way in both directions of their   *)
(* connections, the acceptor, the reader thread of each connection and the *)
(* inbound queue in front of the decision thread (coordinator.cpp).        *)
(*                                                                         *)
(* A worker process makes one connection and has one boot id, so boot ids  *)
(* and connections share their names: b is the boot id of the process on   *)
(* connection b.  Several processes may have the same worker id, as a      *)
(* worker that is restarted has.  A controller sends any request at any    *)
(* moment: its own place in the queue adds no order, so its handlers run   *)
(* whenever the decision thread is free.                                   *)
(*                                                                         *)
(* WELCOME comes before any WORKER_DISPATCH and the acknowledgements are   *)
(* ignored by the worker: neither is modelled here.                        *)
(***************************************************************************)
EXTENDS Coordinator

ASSUME RuntimeAssumption == Conns \subseteq Boots

VARIABLES
  peer,     \* the worker process of each connection: not started, up or gone
  id,       \* the worker id it was started with
  up,       \* frames it sent and no reader has received
  down,     \* tickets sent to it that it has not received
  job,      \* the ticket it executes, or None
  reader,   \* the reader thread of each connection
  queue,    \* queue_: what the readers pushed and the decision thread has
            \* not taken
  sent      \* history: every ticket handed to send_to, in order

rvars == <<cvars, peer, id, up, down, job, reader, queue, sent>>

net == <<peer, id, up, down, job, reader, queue, sent>>

Frame(type, t) == [type |-> type, ticket |-> t]

RInit ==
  /\ CInit
  /\ peer = [c \in Conns |-> "none"]
  /\ id \in [Conns -> Workers]
  /\ up = [c \in Conns |-> <<>>]
  /\ down = [c \in Conns |-> <<>>]
  /\ job = [c \in Conns |-> None]
  /\ reader = [c \in Conns |-> "none"]
  /\ queue = <<>>
  /\ sent = <<>>

-----------------------------------------------------------------------------
(* The worker process.                                                     *)

WorkerStarts(c) ==
  /\ peer[c] = "none"
  /\ peer' = [peer EXCEPT ![c] = "up"]
  /\ up' = [up EXCEPT ![c] = <<Frame("HELLO", None)>>]
  /\ UNCHANGED <<cvars, id, down, job, reader, queue, sent>>

\* Mutant: the tickets the worker builds carry its own boot id.
TakeUnderOwnBoot(c) ==
  /\ peer[c] = "up"
  /\ job[c] = None
  /\ down[c] # <<>>
  /\ LET t == [Head(down[c]) EXCEPT !.worker_boot_id = c]
     IN  /\ job' = [job EXCEPT ![c] = t]
         /\ up' = [up EXCEPT ![c] = Append(@, Frame("START", t))]
  /\ down' = [down EXCEPT ![c] = Tail(@)]
  /\ UNCHANGED <<cvars, peer, id, reader, queue, sent>>

\* A ticket is executed to its end before the next is received; START goes
\* out first.
WorkerTakes(c) ==
  /\ peer[c] = "up"
  /\ job[c] = None
  /\ down[c] # <<>>
  /\ job' = [job EXCEPT ![c] = Head(down[c])]
  /\ up' = [up EXCEPT ![c] = Append(@, Frame("START", Head(down[c])))]
  /\ down' = [down EXCEPT ![c] = Tail(@)]
  /\ UNCHANGED <<cvars, peer, id, reader, queue, sent>>

WorkerCompletes(c) ==
  /\ peer[c] = "up"
  /\ job[c] # None
  /\ up' = [up EXCEPT ![c] = Append(@, Frame("COMPLETE", job[c]))]
  /\ job' = [job EXCEPT ![c] = None]
  /\ UNCHANGED <<cvars, peer, id, down, reader, queue, sent>>

\* The process dies, at any point: of what it sent, a prefix arrives.
WorkerDies(c) ==
  /\ peer[c] = "up"
  /\ peer' = [peer EXCEPT ![c] = "gone"]
  /\ \E n \in 0 .. Len(up[c]) : up' = [up EXCEPT ![c] = SubSeq(@, 1, n)]
  /\ down' = [down EXCEPT ![c] = <<>>]
  /\ job' = [job EXCEPT ![c] = None]
  /\ UNCHANGED <<cvars, id, reader, queue, sent>>

-----------------------------------------------------------------------------
(* Acceptor, readers and the decision thread.                              *)

\* accept() may return a connection whose peer is gone already.
Acceptor(c) ==
  /\ peer[c] # "none"
  /\ reader[c] = "none"
  /\ Accept(c)
  /\ reader' = [reader EXCEPT ![c] = "reading"]
  /\ UNCHANGED <<peer, id, up, down, job, queue, sent>>

ReaderPushes(c) ==
  /\ reader[c] = "reading"
  /\ up[c] # <<>>
  /\ queue' = Append(queue, [conn |-> c, frame |-> Head(up[c])])
  /\ up' = [up EXCEPT ![c] = Tail(@)]
  /\ UNCHANGED <<cvars, peer, id, down, job, reader, sent>>

\* Mutant: the reader stops without the marker.
ReaderEndsSilently(c) ==
  /\ reader[c] = "reading"
  /\ up[c] = <<>>
  /\ peer[c] = "gone"
  /\ reader' = [reader EXCEPT ![c] = "ended"]
  /\ UNCHANGED <<cvars, peer, id, up, down, job, queue, sent>>

\* Mutant: the loss of the peer is noticed before its last frames are read.
ReaderEndsEarly(c) ==
  /\ reader[c] = "reading"
  /\ peer[c] = "gone"
  /\ queue' = Append(queue, [conn |-> c, frame |-> Frame("CLOSED", None)])
  /\ reader' = [reader EXCEPT ![c] = "ended"]
  /\ UNCHANGED <<cvars, peer, id, up, down, job, sent>>

\* recv_frame fails at the end of the stream, and the reader pushes the marker
\* of a closed connection.  A worker sends no bad frame and no SHUTDOWN, which
\* would end the connection while it lives: Coordinator has that step.
ReaderEnds(c) ==
  /\ reader[c] = "reading"
  /\ up[c] = <<>>
  /\ peer[c] = "gone"
  /\ queue' = Append(queue, [conn |-> c, frame |-> Frame("CLOSED", None)])
  /\ reader' = [reader EXCEPT ![c] = "ended"]
  /\ UNCHANGED <<cvars, peer, id, up, down, job, sent>>

HandleFrame(c, f) ==
  \/ f.type = "HELLO" /\ Hello(c, TRUE, id[c], c)
  \/ f.type = "START" /\ HandleStart(f.ticket)
  \/ f.type = "COMPLETE" /\ \E d \in Digests : HandleComplete(f.ticket, d)
  \/ f.type = "CLOSED" /\ ConnClosed(c)

Decide ==
  /\ queue # <<>>
  /\ queue' = Tail(queue)
  /\ HandleFrame(Head(queue).conn, Head(queue).frame)
  /\ UNCHANGED <<peer, id, up, down, job, reader, sent>>

-----------------------------------------------------------------------------
(* The requests of controllers, and what they send to workers.             *)

\* send_to: what is sent to a peer that is gone is lost, and its result is
\* ignored.  tracked says whether the connection's active_execution was set.
SendTicket(c, t, tracked) ==
  /\ down' = IF peer[c] = "up" THEN [down EXCEPT ![c] = Append(@, t)] ELSE down
  /\ sent' = Append(sent, [conn |-> c, ticket |-> t, tracked |-> tracked])

NewTicket == CHOOSE t \in tickets' : t \notin tickets

ControllerDispatches(x, w, b, e) ==
  /\ \E c \in ConnsOf(w) :
       /\ DispatchTo(c, x, w, b, e)
       /\ IF decision' = "ALLOW" THEN SendTicket(c, NewTicket, TRUE)
                                 ELSE UNCHANGED <<down, sent>>
  /\ UNCHANGED <<peer, id, up, job, reader, queue>>

ControllerResumes(x, w, b, e, rg) ==
  /\ HandleResume(x, w, b, e, rg)
  /\ IF decision' = "RESUME_ALLOWED" /\ ConnsOf(w) # {}
     THEN \E c \in ConnsOf(w) : SendTicket(c, NewTicket, FALSE)
     ELSE UNCHANGED <<down, sent>>
  /\ UNCHANGED <<peer, id, up, job, reader, queue>>

ControllerAsks(x, e) ==
  /\ \/ Submit(x, e)
     \/ HandleAckPreempt(x, e)
     \/ HandleMarkResumable(x, e)
     \/ \E auth \in Gens : HandleCancel(x, e, auth) \/ HandlePreempt(x, e, auth)
     \/ \E w \in Workers, b \in Boots : HandleWorkerLost(x, w, b, e)
  /\ UNCHANGED net

\* A request that is refused and leaves no trace in the engine is no step.
Controller ==
  /\ \E x \in Execs, e \in Epochs :
       \/ ControllerAsks(x, e)
       \/ \E w \in Workers, b \in Boots :
            \/ ControllerDispatches(x, w, b, e)
            \/ \E rg \in Gens : ControllerResumes(x, w, b, e, rg)
  /\ <<epoch, records>>' # <<epoch, records>>

RNext ==
  \/ \E c \in Conns :
       \/ WorkerStarts(c)
       \/ WorkerTakes(c)
       \/ WorkerCompletes(c)
       \/ WorkerDies(c)
       \/ Acceptor(c)
       \/ ReaderPushes(c)
       \/ ReaderEnds(c)
  \/ Decide
  \/ Controller

\* The queue only shrinks by a step of the decision thread.
DecisionThread == queue # <<>> /\ queue' = Tail(queue)

\* The coordinator's threads run, and a worker that lives works.  Nobody need
\* start a worker, kill it, or send a request.
Fairness ==
  /\ \A c \in Conns :
       /\ WF_rvars(WorkerTakes(c))
       /\ WF_rvars(WorkerCompletes(c))
       /\ WF_rvars(Acceptor(c))
       /\ WF_rvars(ReaderPushes(c))
       /\ WF_rvars(ReaderEnds(c))
  /\ WF_queue(DecisionThread)

RSpec == RInit /\ [][RNext]_rvars /\ Fairness

-----------------------------------------------------------------------------
\* The attempt of ticket t is current, and both lifecycles say it is under way.
UnderWay(t) ==
  LET rec == records[t.execution_id]
  IN  /\ rec.current_attempt_id = t.attempt_id
      /\ Newest(rec).state \in {"DISPATCHED", "RUNNING"}
      /\ rec.state \in {"DISPATCHED", "RESUMING", "RUNNING",
                        "CANCELLATION_REQUESTED", "PREEMPTION_REQUESTED"}

Forgotten(c) == reader[c] = "ended" /\ c \notin DOMAIN conns

\* Once the coordinator has dealt with the end of a connection, no attempt it
\* sent there is still taken to be under way - with four exceptions, which are
\* all the ways a loss goes unclassified (on_conn_closed): the ticket was sent
\* by a resume, a later dispatch took the connection's only active_execution,
\* the ticket was made out to another incarnation than the one connected, or
\* the engine's epoch is ahead of the coordinator's.
LossClassified ==
  \A i \in DOMAIN sent :
    LET s == sent[i]
    IN  UnderWay(s.ticket) /\ Forgotten(s.conn) =>
          \/ ~s.tracked
          \/ \E j \in i + 1 .. Len(sent) : sent[j].conn = s.conn /\ sent[j].tracked
          \/ s.ticket.worker_boot_id # s.conn
          \/ own_epoch < epoch

\* The last word of a connection is heard before its loss: when its entry is
\* gone no frame of it is unread or queued, so no START or COMPLETE that
\* arrived is overtaken by the loss, and no HELLO brings the entry back.
NothingAfterLoss ==
  \A c \in Conns :
    Forgotten(c) =>
      /\ up[c] = <<>>
      /\ \A i \in DOMAIN queue : queue[i].conn # c

\* A worker that dies is noticed, whatever it left in the socket and whatever
\* others keep the decision thread busy with.
LossNoticed == \A c \in Conns : (peer[c] = "gone") ~> Forgotten(c)

Delivered(c, a) == \E i \in DOMAIN down[c] : down[c][i].attempt_id = a

\* The attempt is no longer under way, or cannot end: the epoch has moved on
\* from the one its execution was created under.
Settled(a) ==
  \A i \in DOMAIN sent :
    LET t == sent[i].ticket
    IN  t.attempt_id = a =>
          ~UnderWay(t) \/ records[t.execution_id].coordinator_epoch < epoch

\* An attempt whose ticket reached a worker does not stay under way for ever:
\* the worker's COMPLETE ends it, whichever control requests overtake START
\* and COMPLETE, unless the worker dies or a newer epoch shuts it out.
DeliveredSettles ==
  \A c \in Conns, a \in 1 .. MaxIds :
    Delivered(c, a) ~> Settled(a) \/ peer[c] = "gone"
=============================================================================
