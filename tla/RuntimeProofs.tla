--------------------------- MODULE RuntimeProofs ---------------------------
(***************************************************************************)
(* The end of a connection, for any number of workers, connections,        *)
(* executions and tickets: nothing of a connection is heard after its      *)
(* loss.                                                                   *)
(*                                                                         *)
(* A step of this system is a step of the coordinator without restarts, or *)
(* leaves the coordinator alone, so the coordinator's invariant holds here *)
(* too.  What is added follows a connection from accept() to the CLOSED    *)
(* marker.                                                                 *)
(***************************************************************************)
EXTENDS CoordinatorProofs, Runtime

-----------------------------------------------------------------------------
(* The network.                                                            *)

Frames ==
  [type : {"HELLO"}, ticket : {None}]
    \cup [type : {"START", "COMPLETE"}, ticket : tickets]

Markers == [type : {"CLOSED"}, ticket : {None}]

Inbounds == [conn : Conns, frame : Frames \cup Markers]

SentTickets == [conn : Conns, ticket : tickets, tracked : BOOLEAN]

\* Whatever is under way carries a ticket that was issued.
NetTypes ==
  /\ peer \in [Conns -> {"none", "up", "gone"}]
  /\ id \in [Conns -> Workers]
  /\ up \in [Conns -> Seq(Frames)]
  /\ down \in [Conns -> Seq(tickets)]
  /\ job \in [Conns -> tickets \cup {None}]
  /\ reader \in [Conns -> {"none", "reading", "ended"}]
  /\ queue \in Seq(Inbounds)
  /\ sent \in Seq(SentTickets)

Marker(i) == queue[i].frame.type = "CLOSED"

\* A connection is in the table from accept() until its marker is taken, and
\* the marker is the last that is queued of it.
InOrder(c) ==
  /\ reader[c] = "none" => c \notin DOMAIN conns
  /\ reader[c] = "reading" =>
       /\ c \in DOMAIN conns
       /\ \A i \in DOMAIN queue : queue[i].conn = c => ~Marker(i)
  /\ reader[c] = "ended" => peer[c] = "gone" /\ up[c] = <<>>
  /\ \A i \in DOMAIN queue : queue[i].conn = c => c \in DOMAIN conns
  /\ \A i, j \in DOMAIN queue :
       i < j /\ queue[i].conn = c /\ Marker(i) => queue[j].conn # c

NetInv == NetTypes /\ \A c \in Conns : InOrder(c)

-----------------------------------------------------------------------------
(* The network keeps its order.                                            *)

\* A sequence over a set is one over any larger set.
LEMMA SeqLarger ==
  ASSUME NEW S, NEW T, S \subseteq T
  PROVE  Seq(S) \subseteq Seq(T)
  OBVIOUS

\* What was of the right type still is when more tickets have been issued.
LEMMA TypesLarger ==
  ASSUME NetTypes, tickets \subseteq tickets'
  PROVE  /\ up \in [Conns -> Seq(Frames')]
         /\ down \in [Conns -> Seq(tickets')]
         /\ job \in [Conns -> tickets' \cup {None}]
         /\ queue \in Seq(Inbounds')
         /\ sent \in Seq(SentTickets')
  <1>1. Frames \subseteq Frames'
    BY DEF Frames
  <1>2. Inbounds \subseteq Inbounds'
    BY <1>1 DEF Inbounds, Markers
  <1>3. SentTickets \subseteq SentTickets'
    BY DEF SentTickets
  <1>4. /\ Seq(Frames) \subseteq Seq(Frames') /\ Seq(tickets) \subseteq Seq(tickets')
        /\ Seq(Inbounds) \subseteq Seq(Inbounds')
        /\ Seq(SentTickets) \subseteq Seq(SentTickets')
    BY <1>1, <1>2, <1>3, SeqLarger
  <1> HIDE DEF Frames, Inbounds, SentTickets
  <1> QED
    BY <1>4 DEF NetTypes

\* Initially no process has been started.
LEMMA NetInitially == RInit => NetInv
  <1> SUFFICES ASSUME RInit PROVE NetInv
    OBVIOUS
  <1>1. NetTypes
    BY DEF RInit, NetTypes
  <1>2. DOMAIN conns = {}
    BY DEF RInit, CInit, NoConns
  <1> QED
    BY <1>1, <1>2 DEF RInit, NetInv, InOrder

\* A worker process sends and receives; a dead one sends no more.
LEMMA NetWorker ==
  ASSUME NetInv, NEW c \in Conns,
         WorkerStarts(c) \/ WorkerTakes(c) \/ WorkerCompletes(c) \/ WorkerDies(c)
  PROVE  NetInv'
  <1>1. /\ UNCHANGED <<conns, tickets, reader, queue, sent, id>>
        /\ peer[c] # "gone"
        /\ \A d \in Conns \ {c} : up'[d] = up[d] /\ peer'[d] = peer[d]
    BY DEF WorkerStarts, WorkerTakes, WorkerCompletes, WorkerDies, cvars, mem, NetInv,
           NetTypes
  <1>2. /\ up[c] \in Seq(Frames) /\ down[c] \in Seq(tickets)
        /\ job[c] \in tickets \cup {None}
    BY DEF NetInv, NetTypes
  <1>3. \A t \in tickets : Frame("START", t) \in Frames /\ Frame("COMPLETE", t) \in Frames
    BY DEF Frames, Frame
  <1>4. Frame("HELLO", None) \in Frames
    BY DEF Frames, Frame
  <1>5. UNCHANGED Frames /\ UNCHANGED Inbounds /\ UNCHANGED SentTickets
    BY <1>1 DEF Frames, Inbounds, SentTickets
  <1> HIDE DEF Frames, Inbounds, SentTickets
  <1>6. NetTypes'
    <2>1. CASE WorkerStarts(c)
      BY <1>1, <1>2, <1>4, <1>5, <2>1 DEF WorkerStarts, NetInv, NetTypes
    <2>2. CASE WorkerTakes(c)
      <3>1. Head(down[c]) \in tickets /\ Tail(down[c]) \in Seq(tickets)
        BY <1>2, <2>2 DEF WorkerTakes
      <3>2. Append(up[c], Frame("START", Head(down[c]))) \in Seq(Frames)
        BY <1>2, <1>3, <3>1
      <3> QED
        BY <1>1, <1>5, <2>2, <3>1, <3>2 DEF WorkerTakes, NetInv, NetTypes
    <2>3. CASE WorkerCompletes(c)
      <3>1. Append(up[c], Frame("COMPLETE", job[c])) \in Seq(Frames)
        BY <1>2, <1>3, <2>3 DEF WorkerCompletes
      <3> QED
        BY <1>1, <1>5, <2>3, <3>1 DEF WorkerCompletes, NetInv, NetTypes
    <2>4. CASE WorkerDies(c)
      <3>1. PICK n \in 0 .. Len(up[c]) : up' = [up EXCEPT ![c] = SubSeq(@, 1, n)]
        BY <2>4 DEF WorkerDies
      <3>2. SubSeq(up[c], 1, n) \in Seq(Frames)
        BY <1>2
      <3> QED
        BY <1>1, <1>5, <2>4, <3>1, <3>2 DEF WorkerDies, NetInv, NetTypes
    <2> QED
      BY <2>1, <2>2, <2>3, <2>4
  <1>7. ASSUME NEW d \in Conns PROVE InOrder(d)'
    <2>1. InOrder(d)
      BY DEF NetInv
    <2>2. reader[d] = "ended" => d # c
      BY <1>1, <2>1 DEF InOrder
    <2> QED
      BY <1>1, <2>1, <2>2 DEF InOrder, Marker
  <1> QED
    BY <1>6, <1>7 DEF NetInv

\* accept() makes the entry before the reader starts.
LEMMA NetAcceptor ==
  ASSUME NetInv, NEW c \in Conns, Acceptor(c)
  PROVE  NetInv'
  <1>1. /\ reader[c] = "none"
        /\ DOMAIN conns' = DOMAIN conns \cup {c}
        /\ reader' = [reader EXCEPT ![c] = "reading"]
        /\ UNCHANGED <<tickets, peer, id, up, down, job, queue, sent>>
    BY DEF Acceptor, Accept, mem
  <1>2. NetTypes'
    BY <1>1 DEF NetInv, NetTypes, Frames, Inbounds, SentTickets
  <1>3. ASSUME NEW d \in Conns PROVE InOrder(d)'
    <2>1. InOrder(d)
      BY DEF NetInv
    <2>2. CASE d = c
      BY <1>1, <2>1, <2>2 DEF InOrder, Marker, NetInv, NetTypes
    <2>3. CASE d # c
      <3>1. reader'[d] = reader[d] /\ (d \in DOMAIN conns' <=> d \in DOMAIN conns)
        BY <1>1, <2>3 DEF NetInv, NetTypes
      <3> QED
        BY <1>1, <2>1, <3>1 DEF InOrder, Marker
    <2> QED
      BY <2>2, <2>3
  <1> QED
    BY <1>2, <1>3 DEF NetInv

\* An entry is pushed onto the queue.
LEMMA Queued ==
  ASSUME NetTypes, NEW e \in Inbounds, queue' = Append(queue, e)
  PROVE  /\ queue' \in Seq(Inbounds)
         /\ Len(queue) \in Nat /\ DOMAIN queue = 1 .. Len(queue)
         /\ DOMAIN queue' = 1 .. Len(queue) + 1
         /\ \A i \in DOMAIN queue : queue'[i] = queue[i]
         /\ queue'[Len(queue) + 1] = e
  <1>1. queue \in Seq(Inbounds)
    BY DEF NetTypes
  <1> HIDE DEF Inbounds
  <1> QED
    BY <1>1

\* A reader pushes the frames of its connection in order, then the marker.
LEMMA NetReader ==
  ASSUME NetInv, NEW c \in Conns, ReaderPushes(c) \/ ReaderEnds(c)
  PROVE  NetInv'
  <1> DEFINE f == IF ReaderPushes(c) THEN Head(up[c]) ELSE Frame("CLOSED", None)
             e == [conn |-> c, frame |-> f]
  <1>1. up[c] \in Seq(Frames)
    BY DEF NetInv, NetTypes
  <1>2. /\ reader[c] = "reading"
        /\ queue' = Append(queue, e)
        /\ UNCHANGED <<conns, tickets, peer, id, down, job, sent>>
        /\ \/ /\ f \in Frames
              /\ UNCHANGED reader
              /\ up' = [up EXCEPT ![c] = Tail(@)] /\ Tail(up[c]) \in Seq(Frames)
           \/ /\ f \in Markers
              /\ reader' = [reader EXCEPT ![c] = "ended"]
              /\ up[c] = <<>> /\ peer[c] = "gone" /\ UNCHANGED up
    <2>1. CASE ReaderPushes(c)
      <3>1. Head(up[c]) \in Frames /\ Tail(up[c]) \in Seq(Frames)
        BY <1>1, <2>1 DEF ReaderPushes
      <3> QED
        BY <2>1, <3>1 DEF ReaderPushes, cvars, mem
    <2>2. CASE ~ReaderPushes(c)
      <3>1. Frame("CLOSED", None) \in Markers
        BY DEF Markers, Frame
      <3> QED
        BY <2>2, <3>1 DEF ReaderEnds, cvars, mem
    <2> QED
      BY <2>1, <2>2
  <1>3. /\ f \in Frames => f.type # "CLOSED"
        /\ f \in Markers => f.type = "CLOSED"
    BY DEF Frames, Markers
  <1> HIDE DEF f
  <1>4. e \in Inbounds /\ e.conn = c /\ e.frame = f
    BY <1>2 DEF Inbounds
  <1> HIDE DEF e
  <1>5. /\ queue' \in Seq(Inbounds)
        /\ Len(queue) \in Nat /\ DOMAIN queue = 1 .. Len(queue)
        /\ DOMAIN queue' = 1 .. Len(queue) + 1
        /\ \A i \in DOMAIN queue : queue'[i] = queue[i]
        /\ queue'[Len(queue) + 1] = e
    BY <1>2, <1>4, Queued DEF NetInv
  <1>6. UNCHANGED Frames /\ UNCHANGED Inbounds /\ UNCHANGED SentTickets
    BY <1>2 DEF Frames, Inbounds, SentTickets
  <1>7. NetTypes'
    BY <1>2, <1>5, <1>6 DEF NetInv, NetTypes
  <1>8. ASSUME NEW d \in Conns PROVE InOrder(d)'
    <2>1. InOrder(d)
      BY DEF NetInv
    <2>2. CASE d # c
      <3>1. reader'[d] = reader[d] /\ up'[d] = up[d]
        BY <1>2, <2>2 DEF NetInv, NetTypes
      <3>2. queue'[Len(queue) + 1].conn # d
        BY <1>4, <1>5, <2>2
      <3> QED
        BY <1>2, <1>5, <2>1, <3>1, <3>2 DEF InOrder, Marker
    <2>3. CASE d = c /\ f \in Frames
      <3>1. reader'[c] = "reading"
        BY <1>2, <1>3, <2>3
      <3>2. queue'[Len(queue) + 1].frame.type # "CLOSED"
        BY <1>3, <1>4, <1>5, <2>3
      <3> QED
        BY <1>2, <1>5, <2>1, <2>3, <3>1, <3>2 DEF InOrder, Marker
    <2>4. CASE d = c /\ f \in Markers
      <3>1. reader'[c] = "ended" /\ peer'[c] = "gone" /\ up'[c] = <<>>
        BY <1>2, <1>3, <2>4 DEF NetInv, NetTypes
      <3>2. \A i \in DOMAIN queue : queue[i].conn = c => ~Marker(i)
        BY <1>2, <2>1, <2>4 DEF InOrder
      <3> QED
        BY <1>2, <1>4, <1>5, <2>1, <2>4, <3>1, <3>2 DEF InOrder, Marker
    <2> QED
      BY <1>2, <2>2, <2>3, <2>4
  <1> QED
    BY <1>7, <1>8 DEF NetInv

\* The decision thread takes the first of the queue; a marker is the last of its
\* connection, so the entry may go.
LEMMA NetDecide ==
  ASSUME NetInv, Decide
  PROVE  NetInv'
  <1>1. queue \in Seq(Inbounds) /\ queue # <<>> /\ queue' = Tail(queue)
    BY DEF NetInv, NetTypes, Decide
  <1>2. UNCHANGED <<tickets, peer, id, up, down, job, reader, sent>>
    BY DEF Decide, HandleFrame, Hello, HandleStart, MarkRunning, HandleComplete,
           Complete, ConnClosed, MarkWorkerLost, CallOn, mem
  <1>3. UNCHANGED Frames /\ UNCHANGED Inbounds /\ UNCHANGED SentTickets
    BY <1>2 DEF Frames, Inbounds, SentTickets
  <1>4. PICK c \in Conns : queue[1].conn = c /\ HandleFrame(c, queue[1].frame)
    <2>1. Head(queue) = queue[1] /\ queue[1] \in Inbounds
      <3> HIDE DEF Inbounds
      <3> QED
        BY <1>1
    <2>2. queue[1].conn \in Conns
      BY <2>1 DEF Inbounds
    <2> QED
      BY <2>1, <2>2 DEF Decide
  <1>5. /\ Marker(1) => DOMAIN conns' = DOMAIN conns \ {c}
        /\ ~Marker(1) => DOMAIN conns' = DOMAIN conns
    <2>1. CASE Marker(1)
      <3>1. conns' = [k \in DOMAIN conns \ {c} |-> conns[k]]
        BY <1>4, <2>1 DEF Marker, HandleFrame, ConnClosed
      <3> QED
        BY <2>1, <3>1
    <2>2. CASE ~Marker(1)
      <3>1. Hello(c, TRUE, id[c], c) \/ UNCHANGED conns
        BY <1>4, <2>2 DEF Marker, HandleFrame, HandleStart, HandleComplete
      <3> QED
        BY <2>2, <3>1 DEF Hello
    <2> QED
      BY <2>1, <2>2
  <1> HIDE DEF Frames, Inbounds, SentTickets
  <1>6. /\ queue' \in Seq(Inbounds)
        /\ 1 \in DOMAIN queue
        /\ \A i \in DOMAIN queue' : /\ i \in Nat /\ 1 < i + 1
                                   /\ i + 1 \in DOMAIN queue
                                   /\ queue'[i] = queue[i + 1]
    BY <1>1
  <1>7. NetTypes'
    BY <1>2, <1>3, <1>6 DEF NetInv, NetTypes
  <1>8. ASSUME NEW d \in Conns PROVE InOrder(d)'
    <2>1. InOrder(d)
      BY DEF NetInv
    <2>2. CASE d = c /\ Marker(1)
      <3>1. d \in DOMAIN conns
        BY <1>4, <1>6, <2>1, <2>2 DEF InOrder
      <3>2. reader[d] = "ended"
        BY <1>4, <1>6, <2>1, <2>2, <3>1 DEF InOrder, NetInv, NetTypes
      <3>3. \A i \in DOMAIN queue' : queue'[i].conn # d
        BY <1>4, <1>6, <2>1, <2>2 DEF InOrder
      <3> QED
        BY <1>2, <1>5, <2>1, <2>2, <3>2, <3>3 DEF InOrder
    <2>3. CASE ~(d = c /\ Marker(1))
      <3>1. d \in DOMAIN conns' <=> d \in DOMAIN conns
        BY <1>5, <2>3
      <3>2. \A i, j \in DOMAIN queue' : i < j => i + 1 < j + 1
        BY <1>6
      <3> QED
        BY <1>2, <1>6, <2>1, <3>1, <3>2 DEF InOrder, Marker
    <2> QED
      BY <2>2, <2>3
  <1> QED
    BY <1>7, <1>8 DEF NetInv

-----------------------------------------------------------------------------
(* The ticket a grant hands out.                                           *)

\* Attempt used + 1 of x was granted to worker w under boot id b, and NewTicket
\* is its ticket.
Issued(x, w, b) ==
  /\ Granted(records[x], records'[x], used + 1)
  /\ records'[x].owner_worker = w
  /\ records'[x].owner_worker_boot = b
  /\ NewTicket \notin tickets
  /\ tickets' = tickets \cup {NewTicket}
  /\ NewTicket.execution_id = x
  /\ NewTicket.attempt_id = used + 1
  /\ NewTicket.worker_id = w
  /\ NewTicket.worker_boot_id = b

\* The ticket of a fresh id is new, so it is the one that is sent.
LEMMA TicketNew ==
  ASSUME EngineInv, NEW x \in DOMAIN records, NEW new \in ExecutionRecords,
         NEW w, NEW b, Changes(x, new), Granted(records[x], new, used + 1),
         new.owner_worker = w, new.owner_worker_boot = b, epoch' \in Epochs,
         tickets' = tickets \cup {TicketFor(x, epoch', new)}
  PROVE  Issued(x, w, b)
  <1> DEFINE made == TicketFor(x, epoch', new)
  <1>1. records'[x] = new /\ used \in Nat /\ x \in Execs
    BY OthersKept DEF EngineInv, TypeOK
  <1>2. records[x] \in ExecutionRecords
    BY DEF EngineInv, TypeOK
  <1>3. Len(new.attempts) > 0
    BY <1>2, LastIndex DEF Granted
  <1>4. /\ made.execution_id = x
        /\ made.attempt_id = used + 1
        /\ made.worker_id = w
        /\ made.worker_boot_id = b
    BY DEF Granted, TicketFor, Newest
  <1> HIDE DEF made
  <1>5. made \notin tickets
    BY <1>1, <1>4 DEF EngineInv, TicketsDrawn
  <1>6. tickets' = tickets \cup {made}
    BY DEF made
  <1>7. NewTicket = made
    BY <1>5, <1>6 DEF NewTicket
  <1> QED
    BY <1>1, <1>4, <1>5, <1>6, <1>7 DEF Issued

\* A grant names the worker it is for.
LEMMA GrantedTo ==
  ASSUME NEW rec \in ExecutionRecords, NEW a \in Nat \ {0},
         NEW w \in Workers, NEW b \in Boots
  PROVE  LET g == GrantAttempt(rec, a, w, b)
         IN  /\ g \in ExecutionRecords
             /\ Len(g.attempts) = Len(rec.attempts) + 1
             /\ g.owner_worker = w /\ g.owner_worker_boot = b
  <1> DEFINE g == GrantAttempt(rec, a, w, b)
  <1>1. g \in ExecutionRecords /\ Len(g.attempts) = Len(rec.attempts) + 1
    BY GrantShape
  <1>2. g.owner_worker = w /\ g.owner_worker_boot = b
    BY DEF GrantAttempt, ExecutionRecords
  <1> QED
    BY <1>1, <1>2

\* dispatch() that answers ALLOW.
LEMMA DispatchIssues ==
  ASSUME EngineInv, NEW x \in Execs, NEW w \in Workers, NEW b \in Boots,
         NEW e \in Epochs, Dispatch(x, w, b, e), decision' = "ALLOW"
  PROVE  Issued(x, w, b) /\ records'[x].state = "DISPATCHED"
  <1> DEFINE rec == records[x]
             r == dispatch(epoch, rec, e, used + 1, w, b)
             g == Dispatched(rec, used + 1, w, b)
             m == MoveAttempt(rec, rec.current_attempt_id, "SUPERSEDED")
  <1>1. /\ x \in DOMAIN records /\ GrantOn(x, r, epoch')
        /\ rec \in ExecutionRecords /\ RecInv(used, rec)
        /\ used \in Nat /\ used + 1 \in Nat \ {0}
    BY DEF Dispatch, Known, EngineInv, TypeOK, RecordsInv
  <1>2. epoch' \in Epochs
    <2>1. Next
      BY DEF Next
    <2> QED
      BY <2>1, TypeNext DEF EngineInv, TypeOK
  <1>3. r.code = "ALLOW" /\ Changes(x, r.rec)
        /\ tickets' = tickets \cup {TicketFor(x, epoch', r.rec)}
    BY <1>1 DEF GrantOn, AllowedCodes, Changes
  <1>4. r.rec = [g EXCEPT !.state = "DISPATCHED"]
    BY <1>1, <1>3, DispatchCases DEF AllowedCodes
  <1>5. StepOrGrant(used, rec, r.rec)
    BY <1>1, DispatchStep
  <1>6. m \in ExecutionRecords /\ Len(m.attempts) = Len(rec.attempts)
    BY <1>1, MoveType, MoveFacts DEF AttemptStates
  <1> HIDE DEF r, m
  <1>7. /\ g \in ExecutionRecords
        /\ Len(g.attempts) = Len(rec.attempts) + 1 /\ Len(rec.attempts) \in Nat
        /\ g.owner_worker = w /\ g.owner_worker_boot = b
    <2>1. g = GrantAttempt(m, used + 1, w, b)
      BY DEF Dispatched, m
    <2> QED
      BY <1>1, <1>6, <2>1, LastIndex, GrantedTo, SMTT(30)
  <1> HIDE DEF g
  <1>8. /\ r.rec \in ExecutionRecords
        /\ r.rec.owner_worker = w /\ r.rec.owner_worker_boot = b
        /\ r.rec.state = "DISPATCHED"
        /\ r.rec # rec
    BY <1>4, <1>7 DEF ExecutionRecords, ExecutionStates
  <1>9. Granted(rec, r.rec, used + 1)
    BY <1>5, <1>8 DEF StepOrGrant
  <1>10. Issued(x, w, b)
    BY <1>1, <1>2, <1>3, <1>8, <1>9, TicketNew
  <1> QED
    BY <1>1, <1>3, <1>8, <1>10, OthersKept

\* resume() that answers RESUME_ALLOWED.
LEMMA ResumeIssues ==
  ASSUME EngineInv, NEW x \in Execs, NEW w \in Workers, NEW b \in Boots,
         NEW e \in Epochs, NEW rg \in Gens, Resume(x, w, b, e, rg),
         decision' = "RESUME_ALLOWED"
  PROVE  Issued(x, w, b) /\ records'[x].state = "RESUMING"
  <1> DEFINE rec == records[x]
             r == resume(epoch, rec, e, rg, used + 1, w, b)
             g == Resumed(rec, rg, used + 1, w, b)
             m == [SupersedePreempted(rec) EXCEPT !.resume_generation = rg]
  <1>1. /\ x \in DOMAIN records /\ GrantOn(x, r, epoch) /\ epoch' = epoch
        /\ rec \in ExecutionRecords /\ RecInv(used, rec)
        /\ used \in Nat /\ used + 1 \in Nat \ {0} /\ epoch' \in Epochs
    BY DEF Resume, Known, EngineInv, TypeOK, RecordsInv
  <1>2. /\ r.code = "RESUME_ALLOWED" /\ Changes(x, r.rec)
        /\ tickets' = tickets \cup {TicketFor(x, epoch', r.rec)}
    BY <1>1 DEF GrantOn, AllowedCodes, Changes
  <1>3. r.rec = [g EXCEPT !.state = "RESUMING"]
    BY <1>1, <1>2, ResumeCases DEF AllowedCodes
  <1>4. StepOrGrant(used, rec, r.rec)
    BY <1>1, ResumeStep
  <1>5. m \in ExecutionRecords /\ Len(m.attempts) = Len(rec.attempts)
    <2> DEFINE v == MoveAttempt(rec, rec.current_attempt_id, "SUPERSEDED")
    <2>1. v \in ExecutionRecords /\ Len(v.attempts) = Len(rec.attempts)
      BY <1>1, MoveType, MoveFacts DEF AttemptStates
    <2>2. SupersedePreempted(rec) \in {v, rec}
      BY DEF SupersedePreempted
    <2> HIDE DEF v
    <2> QED
      BY <1>1, <2>1, <2>2 DEF ExecutionRecords
  <1> HIDE DEF r, m
  <1>6. /\ g \in ExecutionRecords
        /\ Len(g.attempts) = Len(rec.attempts) + 1 /\ Len(rec.attempts) \in Nat
        /\ g.owner_worker = w /\ g.owner_worker_boot = b
    <2>1. g = GrantAttempt(m, used + 1, w, b)
      BY DEF Resumed, m
    <2> QED
      BY <1>1, <1>5, <2>1, LastIndex, GrantedTo, SMTT(30)
  <1> HIDE DEF g
  <1>7. /\ r.rec \in ExecutionRecords
        /\ r.rec.owner_worker = w /\ r.rec.owner_worker_boot = b
        /\ r.rec.state = "RESUMING"
        /\ r.rec # rec
    BY <1>3, <1>6 DEF ExecutionRecords, ExecutionStates
  <1>8. Granted(rec, r.rec, used + 1)
    BY <1>4, <1>7 DEF StepOrGrant
  <1>9. Issued(x, w, b)
    BY <1>1, <1>2, <1>7, <1>8, TicketNew
  <1> QED
    BY <1>1, <1>2, <1>7, <1>9, OthersKept

-----------------------------------------------------------------------------
(* The requests of controllers.                                            *)

\* A ticket that was issued is sent.
LEMMA NetSends ==
  ASSUME NetInv, NEW c \in Conns, NEW t \in tickets', NEW tracked \in BOOLEAN,
         tickets \subseteq tickets', SendTicket(c, t, tracked),
         DOMAIN conns' = DOMAIN conns, UNCHANGED <<peer, id, up, job, reader, queue>>
  PROVE  NetInv'
  <1>1. /\ up \in [Conns -> Seq(Frames')]
        /\ down \in [Conns -> Seq(tickets')]
        /\ job \in [Conns -> tickets' \cup {None}]
        /\ queue \in Seq(Inbounds')
        /\ sent \in Seq(SentTickets')
    BY TypesLarger DEF NetInv
  <1>2. [conn |-> c, ticket |-> t, tracked |-> tracked] \in SentTickets'
    BY DEF SentTickets
  <1> HIDE DEF Frames, Inbounds, SentTickets
  <1>3. sent' \in Seq(SentTickets')
    BY <1>1, <1>2 DEF SendTicket
  <1>4. down' \in [Conns -> Seq(tickets')]
    BY <1>1 DEF SendTicket
  <1>5. NetTypes'
    BY <1>1, <1>3, <1>4 DEF NetInv, NetTypes
  <1>6. \A d \in Conns : InOrder(d)'
    BY DEF NetInv, InOrder, Marker
  <1> QED
    BY <1>5, <1>6 DEF NetInv

\* A request after which nothing is sent.
LEMMA NetSilent ==
  ASSUME NetInv, tickets \subseteq tickets', DOMAIN conns' = DOMAIN conns,
         UNCHANGED net
  PROVE  NetInv'
  <1>1. /\ up \in [Conns -> Seq(Frames')]
        /\ down \in [Conns -> Seq(tickets')]
        /\ job \in [Conns -> tickets' \cup {None}]
        /\ queue \in Seq(Inbounds')
        /\ sent \in Seq(SentTickets')
    BY TypesLarger DEF NetInv
  <1> HIDE DEF Frames, Inbounds, SentTickets
  <1>2. NetTypes'
    BY <1>1 DEF NetInv, NetTypes, net
  <1>3. \A d \in Conns : InOrder(d)'
    BY DEF NetInv, InOrder, Marker, net
  <1> QED
    BY <1>2, <1>3 DEF NetInv

\* Tickets are never taken back.
LEMMA TicketsKept ==
  ASSUME NEW x, NEW w, NEW b, NEW e, NEW rg, Dispatch(x, w, b, e) \/ Resume(x, w, b, e, rg)
  PROVE  tickets \subseteq tickets'
  BY DEF Dispatch, Resume, GrantOn

\* DISPATCH and RESUME send what they granted, the other requests nothing.
LEMMA NetController ==
  ASSUME CInv, NetInv, Controller
  PROVE  NetInv'
  <1>1. EngineInv /\ DOMAIN conns \subseteq Conns
    BY EngineOfCInv DEF TableOK
  <1>2. ASSUME NEW x \in Execs, NEW e \in Epochs, ControllerAsks(x, e) PROVE NetInv'
    <2>1. UNCHANGED <<tickets, conns>> /\ UNCHANGED net
      BY <1>2 DEF ControllerAsks, Submit, HandleAckPreempt, HandleMarkResumable,
         HandleCancel, HandlePreempt, HandleWorkerLost, Control, AcknowledgePreempt,
         MarkResumable, Cancel, Preempt, MarkWorkerLost, CallOn
    <2> QED
      BY <2>1, NetSilent
  <1>3. ASSUME NEW x \in Execs, NEW e \in Epochs, NEW w \in Workers, NEW b \in Boots,
               ControllerDispatches(x, w, b, e)
        PROVE  NetInv'
    <2>1. PICK c \in ConnsOf(w) :
            /\ DispatchTo(c, x, w, b, e)
            /\ IF decision' = "ALLOW" THEN SendTicket(c, NewTicket, TRUE)
                                      ELSE UNCHANGED <<down, sent>>
      BY <1>3 DEF ControllerDispatches
    <2>2. /\ c \in Conns /\ Dispatch(x, w, b, e)
          /\ UNCHANGED <<peer, id, up, job, reader, queue>>
      BY <1>1, <1>3, <2>1 DEF ControllerDispatches, ConnsOf, DispatchTo
    <2>3. DOMAIN conns' = DOMAIN conns
      BY <2>1 DEF DispatchTo
    <2>4. tickets \subseteq tickets'
      BY <2>2, TicketsKept
    <2>5. CASE decision' = "ALLOW"
      <3>1. NewTicket \in tickets'
        BY <1>1, <2>2, <2>5, DispatchIssues DEF Issued
      <3> QED
        BY <2>1, <2>2, <2>3, <2>4, <2>5, <3>1, NetSends
    <2>6. CASE decision' # "ALLOW"
      BY <2>1, <2>2, <2>3, <2>4, <2>6, NetSilent DEF net
    <2> QED
      BY <2>5, <2>6
  <1>4. ASSUME NEW x \in Execs, NEW e \in Epochs, NEW w \in Workers, NEW b \in Boots,
               NEW rg \in Gens, ControllerResumes(x, w, b, e, rg)
        PROVE  NetInv'
    <2>1. /\ Resume(x, w, b, e, rg) /\ UNCHANGED conns
          /\ UNCHANGED <<peer, id, up, job, reader, queue>>
      BY <1>4 DEF ControllerResumes, HandleResume
    <2>2. tickets \subseteq tickets'
      BY <2>1, TicketsKept
    <2>3. CASE decision' = "RESUME_ALLOWED" /\ ConnsOf(w) # {}
      <3>1. NewTicket \in tickets'
        BY <1>1, <2>1, <2>3, ResumeIssues DEF Issued
      <3>2. PICK c \in ConnsOf(w) : SendTicket(c, NewTicket, FALSE)
        BY <1>4, <2>3 DEF ControllerResumes
      <3>3. c \in Conns
        BY <1>1, <3>2 DEF ConnsOf
      <3> QED
        BY <2>1, <2>2, <3>1, <3>2, <3>3, NetSends
    <2>4. CASE ~(decision' = "RESUME_ALLOWED" /\ ConnsOf(w) # {})
      <3>1. UNCHANGED net
        BY <1>4, <2>4 DEF ControllerResumes, net
      <3> QED
        BY <2>1, <2>2, <3>1, NetSilent
    <2> QED
      BY <2>3, <2>4
  <1> QED
    BY <1>2, <1>3, <1>4 DEF Controller

-----------------------------------------------------------------------------
(* What holds of the coordinator holds here.                               *)

\* What the decision thread takes, from whom; a worker presents tickets that
\* were issued.
LEMMA Taken ==
  ASSUME NetInv, Decide
  PROVE  \E c \in Conns, f \in Frames \cup Markers :
           /\ HandleFrame(c, f)
           /\ f.type \in {"START", "COMPLETE"} => f.ticket \in tickets
  <1> DEFINE c == Head(queue).conn
             f == Head(queue).frame
  <1>1. queue \in Seq(Inbounds) /\ queue # <<>>
    BY DEF Decide, NetInv, NetTypes
  <1>2. Head(queue) \in Inbounds
    <2> HIDE DEF Inbounds
    <2> QED
      BY <1>1
  <1>3. c \in Conns /\ f \in Frames \cup Markers
    BY <1>2 DEF Inbounds
  <1>4. f.type \in {"START", "COMPLETE"} => f.ticket \in tickets
    BY <1>3 DEF Frames, Markers
  <1>5. HandleFrame(c, f)
    BY DEF Decide
  <1> QED
    BY <1>3, <1>4, <1>5

\* Every step of the system is one of the coordinator or leaves it alone: the
\* tickets that workers present were issued to them.
LEMMA CoordinatorSteps == CInv /\ NetInv /\ [RNext]_rvars => [CNext]_cvars
  <1> SUFFICES ASSUME CInv, NetInv, [RNext]_rvars PROVE [CNext]_cvars
    OBVIOUS
  <1>1. ASSUME NEW c \in Conns,
               \/ WorkerStarts(c) \/ WorkerTakes(c) \/ WorkerCompletes(c)
               \/ WorkerDies(c) \/ ReaderPushes(c) \/ ReaderEnds(c)
        PROVE  UNCHANGED cvars
    BY <1>1 DEF WorkerStarts, WorkerTakes, WorkerCompletes, WorkerDies, ReaderPushes,
                ReaderEnds
  <1>2. ASSUME NEW c \in Conns, Acceptor(c) PROVE CNext
    BY <1>2 DEF Acceptor, CNext
  <1>3. CASE Decide
    <2>1. PICK c \in Conns, f \in Frames \cup Markers :
            /\ HandleFrame(c, f)
            /\ f.type \in {"START", "COMPLETE"} => f.ticket \in tickets
      BY <1>3, Taken
    <2>2. /\ c \in Boots /\ id[c] \in Workers
          /\ f.type \in {"START", "COMPLETE"} => f.ticket \in Presented
      BY <2>1, RuntimeAssumption DEF NetInv, NetTypes, Presented
    <2>3. HandleFrame(c, f)
      BY <2>1
    <2>4. CASE f.type = "HELLO" /\ Hello(c, TRUE, id[c], c)
      BY <2>2, <2>4 DEF CNext
    <2>5. CASE f.type = "START" /\ HandleStart(f.ticket)
      BY <2>2, <2>5 DEF CNext
    <2>6. ASSUME NEW d \in Digests, f.type = "COMPLETE", HandleComplete(f.ticket, d)
          PROVE  CNext
      BY <2>2, <2>6 DEF CNext
    <2>7. CASE f.type = "CLOSED" /\ ConnClosed(c)
      BY <2>2, <2>7 DEF CNext
    <2>8. \/ f.type = "HELLO" /\ Hello(c, TRUE, id[c], c)
          \/ f.type = "START" /\ HandleStart(f.ticket)
          \/ \E d \in Digests : f.type = "COMPLETE" /\ HandleComplete(f.ticket, d)
          \/ f.type = "CLOSED" /\ ConnClosed(c)
      BY <2>3 DEF HandleFrame
    <2> QED
      BY <2>4, <2>5, <2>6, <2>7, <2>8
  <1>4. ASSUME NEW x \in Execs, NEW e \in Epochs, ControllerAsks(x, e) PROVE CNext
    BY <1>4 DEF ControllerAsks, CNext
  <1>5. ASSUME NEW x \in Execs, NEW e \in Epochs, NEW w \in Workers, NEW b \in Boots,
               ControllerDispatches(x, w, b, e)
        PROVE  CNext
    <2>1. HandleDispatch(x, w, b, e)
      BY <1>5 DEF ControllerDispatches, HandleDispatch
    <2> QED
      BY <2>1 DEF CNext
  <1>6. ASSUME NEW x \in Execs, NEW e \in Epochs, NEW w \in Workers, NEW b \in Boots,
               NEW rg \in Gens, ControllerResumes(x, w, b, e, rg)
        PROVE  CNext
    <2>1. HandleResume(x, w, b, e, rg)
      BY <1>6 DEF ControllerResumes
    <2> QED
      BY <2>1 DEF CNext
  <1>7. CASE UNCHANGED rvars
    BY <1>7 DEF rvars
  <1>8. Controller => CNext
    BY <1>4, <1>5, <1>6 DEF Controller
  <1> QED
    BY <1>1, <1>2, <1>3, <1>7, <1>8 DEF RNext

\* Both invariants together are inductive.
LEMMA NetNext == CInv /\ NetInv /\ [RNext]_rvars => CInv' /\ NetInv'
  <1> SUFFICES ASSUME CInv, NetInv, [RNext]_rvars PROVE CInv' /\ NetInv'
    OBVIOUS
  <1>1. CInv'
    BY CoordinatorSteps, CInvNext
  <1>2. CASE UNCHANGED rvars
    <2>1. UNCHANGED net /\ tickets \subseteq tickets' /\ DOMAIN conns' = DOMAIN conns
      BY <1>2 DEF rvars, net, cvars, mem
    <2> QED
      BY <1>1, <2>1, NetSilent
  <1>3. ASSUME NEW c \in Conns,
               \/ WorkerStarts(c) \/ WorkerTakes(c) \/ WorkerCompletes(c)
               \/ WorkerDies(c)
        PROVE  NetInv'
    BY <1>3, NetWorker
  <1>4. ASSUME NEW c \in Conns, Acceptor(c) PROVE NetInv'
    BY <1>4, NetAcceptor
  <1>5. ASSUME NEW c \in Conns, ReaderPushes(c) \/ ReaderEnds(c) PROVE NetInv'
    BY <1>5, NetReader
  <1>6. CASE Decide
    BY <1>1, <1>6, NetDecide
  <1>7. CASE Controller
    BY <1>1, <1>7, NetController
  <1> QED
    BY <1>1, <1>2, <1>3, <1>4, <1>5, <1>6, <1>7 DEF RNext

-----------------------------------------------------------------------------
(* The theorems.                                                           *)

\* The coordinator's invariant, with workers, readers and queue around it, and
\* the order of what is under way.
THEOREM RuntimeInvariance == RSpec => [](CInv /\ NetInv)
  <1>1. RInit => CInv /\ NetInv
    BY CInvInit, NetInitially DEF RInit
  <1> QED
    BY <1>1, NetNext, PTL DEF RSpec

\* The marker that a reader pushes is the last word of its connection: once the
\* coordinator has dropped the entry nothing of it is unread or queued, for any
\* number of connections and whatever a dying worker left in the socket.
THEOREM NothingHeardAfterLoss == RSpec => []NothingAfterLoss
  <1>1. NetInv => NothingAfterLoss
    BY DEF NetInv, InOrder, NothingAfterLoss, Forgotten
  <1> QED
    BY <1>1, RuntimeInvariance, PTL
=============================================================================
