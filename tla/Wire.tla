-------------------------------- MODULE Wire --------------------------------
(***************************************************************************)
(* One direction of a connection (protocol/transport.cpp over the frame    *)
(* codec of protocol/protocol.cpp): a sender that frames packed payloads,  *)
(* the byte stream between the two sockets, which arrives in pieces of any *)
(* size and may end anywhere, and recv_frame at the other end.             *)
(*                                                                         *)
(* A peer that is not this program may send a frame that is damaged in one *)
(* of the ways tests/protocol_test.cpp lists, or whose length is wrong.    *)
(***************************************************************************)
EXTENDS Codec, FiniteSetsExt

CONSTANTS
  MaxPayload,   \* kMaxPayload: 64 MiB in the code
  Chunks,       \* bound: how many bytes one recv() may return at most
  Losses,       \* bound: how many bytes of the stream may die with the sender
  Fills,        \* bound: the byte a message's fields are made of
  Lengths,      \* bound: the length of its strings and vectors
  Small,        \* bound: the types of frames that are damaged, or come second
  MaxFrames     \* bound: the frames sent

ASSUME WireAssumption ==
  /\ MaxPayload \in 0 .. LongField
  /\ Chunks \subseteq Nat \ {0}
  /\ Losses \subseteq Nat
  /\ Fills \subseteq 0 .. LastState
  /\ Lengths \subseteq 0 .. LongField
  /\ MaxFrames \in Nat

VARIABLES
  sent,      \* the frames given to send_frame so far
  stream,    \* the bytes sent and not received yet
  alive,     \* the sender has the connection open
  part,      \* what recv_frame waits for: "header" or "payload"; or "closed"
  buf,       \* the bytes of that part recv_exact has got
  hdr,       \* the header of the frame whose payload is being read
  frames     \* what recv_frame has returned: types and payloads

wvars == <<sent, stream, alive, part, buf, hdr, frames>>

-----------------------------------------------------------------------------
(* Who packs and who unpacks which message.                                *)

Kind(type, pack, unpack) == [type |-> type, pack |-> pack, unpack |-> unpack]

\* Sent by a worker or a controller and unpacked by handle_frame.  A PING is
\* sent without a payload; the coordinator would echo any payload unread
\* (coordinator.cpp 355), which the empty layout does not allow for.  Nobody
\* sends REGISTER_WORKER, and a PONG is unpacked by nobody.
Requests ==
  {Kind("HELLO", "hello", "hello"), Kind("SUBMIT", "submit", "submit"),
   Kind("DISPATCH", "dispatch", "dispatch"), Kind("START", "start", "start"),
   Kind("COMPLETE", "complete", "complete"), Kind("CANCEL", "cancel", "cancel"),
   Kind("PREEMPT", "cancel", "cancel"),
   Kind("ACK_PREEMPT", "ack_preempt", "ack_preempt"),
   Kind("MARK_RESUMABLE", "mark_resumable", "mark_resumable"),
   Kind("RESUME", "resume", "resume"),
   Kind("WORKER_LOST", "worker_lost", "worker_lost"),
   Kind("QUERY", "query", "query"), Kind("PING", "empty", "empty")}

\* Sent by handle_frame and unpacked by the worker or by the caller that waits.
\* The reply to a START or a WORKER_LOST is a decision under COMPLETE_ACK.
Replies ==
  {Kind("WELCOME", "welcome", "welcome"),
   Kind("REGISTER_ACK", "register_ack", "register_ack"),
   Kind("SUBMIT_ACK", "submit_ack", "submit_ack"),
   Kind("DISPATCH_ACK", "dispatch_ack", "dispatch_ack"),
   Kind("WORKER_DISPATCH", "worker_dispatch", "worker_dispatch"),
   Kind("COMPLETE_ACK", "complete_ack", "complete_ack"),
   Kind("COMPLETE_ACK", "decision", "decision"),
   Kind("CANCEL_ACK", "decision", "decision"),
   Kind("PREEMPT_ACK", "decision", "decision"),
   Kind("RESUME_ACK", "dispatch_ack", "dispatch_ack"),
   Kind("QUERY_RESPONSE", "query_response", "query_response")}

Kinds == Requests \cup Replies

OptionalsOf(form) == {i \in DOMAIN Layout[form] : Layout[form][i] \in Optional}

Filled(kind, fill, has, n) ==
  IF kind \in Counted THEN [i \in 1 .. n |-> fill]
  ELSE IF kind \in Optional
       THEN IF has THEN [i \in 1 .. FixedWidth[OptionalOf[kind]] |-> fill] ELSE <<>>
  ELSE IF kind = "flag" THEN <<IF fill = 0 THEN 0 ELSE 1>>
  ELSE [i \in 1 .. FixedWidth[kind] |-> fill]

\* Fields hold values: a state is one of the enumeration.  The code leaves the
\* state of a SUBMIT_ACK or QUERY_RESPONSE uninitialised when the execution is
\* not known (protocol.hpp 83 and 159), and a byte that is no state would make
\* the reader refuse that answer.
Messages ==
  UNION {
    {[kind |-> k,
      values |-> [i \in DOMAIN Layout[k.pack] |->
                    Filled(Layout[k.pack][i], fill, i \in has, n)]] :
       fill \in Fills, n \in Lengths, has \in SUBSET OptionalsOf(k.pack)} :
    k \in Kinds}

PayloadOf(m) == Pack(m.kind.pack, m.values)

-----------------------------------------------------------------------------
(* Frames.                                                                 *)

Magic == <<69, 70, 88, 68>>
Version == 1
HeaderLen == 18

TypeNames ==
  <<"HELLO", "WELCOME", "REGISTER_WORKER", "REGISTER_ACK", "SUBMIT",
    "SUBMIT_ACK", "DISPATCH", "DISPATCH_ACK", "WORKER_DISPATCH",
    "WORKER_DISPATCH_ACK", "START", "COMPLETE", "COMPLETE_ACK", "CANCEL",
    "CANCEL_ACK", "PREEMPT", "PREEMPT_ACK", "ACK_PREEMPT", "MARK_RESUMABLE",
    "RESUME", "RESUME_ACK", "WORKER_LOST", "QUERY", "QUERY_RESPONSE", "PING",
    "PONG", "SHUTDOWN">>

TypeByte(type) == (CHOOSE i \in DOMAIN TypeNames : TypeNames[i] = type) - 1

\* In the place of CRC-64: eight bytes that tell apart every two payloads the
\* damage below can turn into each other, the number of bytes and their sum.
Crc64(p) ==
  LET sum[n \in 0 .. Len(p)] == IF n = 0 THEN 0 ELSE sum[n - 1] + p[n]
  IN  U32Bytes(Len(p)) \o U32Bytes(sum[Len(p)])

encode_frame(type, p) ==
  Magic \o <<Version, TypeByte(type)>> \o U32Bytes(Len(p)) \o Crc64(p) \o p

LengthIn(h) == U32(SubSeq(h, 7, 10))
CrcIn(h) == SubSeq(h, 11, 18)

\* The checks recv_frame makes before it reads the payload.
HeaderAccepted(h) ==
  /\ SubSeq(h, 1, 4) = Magic
  /\ h[5] = Version
  /\ LengthIn(h) <= MaxPayload

\* Mutant: the payload is taken as it came.
DecodeUnchecked(h, p) == h[6] < Len(TypeNames)

\* What decode_frame still has to find out: recv_frame has read exactly the
\* header and LengthIn(h) bytes.
DecodeAccepts(h, p) == h[6] < Len(TypeNames) /\ CrcIn(h) = Crc64(p)

-----------------------------------------------------------------------------
Damages ==
  {"none", "magic", "version", "type", "limit", "short", "long", "checksum"}

WithLength(f, n) ==
  SubSeq(f, 1, 6) \o U32Bytes(n) \o SubSeq(f, 11, Len(f))

Damaged(f, damage) ==
  CASE damage = "none" -> f
    [] damage = "magic" -> [f EXCEPT ![1] = 0]
    [] damage = "version" -> [f EXCEPT ![5] = Version + 1]
    [] damage = "type" -> [f EXCEPT ![6] = Len(TypeNames)]
    [] damage = "limit" -> WithLength(f, MaxPayload + 1)
    [] damage = "short" -> WithLength(f, Len(f) - HeaderLen - 1)
    [] damage = "long" -> WithLength(f, Len(f) - HeaderLen + 1)
    [] damage = "checksum" -> [f EXCEPT ![Len(f)] = (@ + 1) % 256]

WInit ==
  /\ sent = <<>>
  /\ stream = <<>>
  /\ alive = TRUE
  /\ part = "header"
  /\ buf = <<>>
  /\ hdr = <<>>
  /\ frames = <<>>

\* send_frame; how send_all splits it does not show at the other end.
SendFrame(m, damage) ==
  LET f == encode_frame(m.kind.type, PayloadOf(m))
  IN  /\ alive
      /\ Len(sent) < MaxFrames
      /\ sent # <<>> \/ damage # "none" => m.kind.type \in Small
      /\ damage = "short" => Len(f) > HeaderLen
      /\ sent' = Append(sent, [msg |-> m, damage |-> damage])
      /\ stream' = stream \o Damaged(f, damage)
      /\ UNCHANGED <<alive, part, buf, hdr, frames>>

\* The sender's process ends, or closes the socket: what is still under way
\* may or may not arrive.
Disconnect(lost) ==
  /\ alive
  /\ lost <= Len(stream)
  /\ alive' = FALSE
  /\ stream' = SubSeq(stream, 1, Len(stream) - lost)
  /\ UNCHANGED <<sent, part, buf, hdr, frames>>

-----------------------------------------------------------------------------
(* recv_frame, called again and again by reader_loop, run() or a caller.   *)

Wanted == IF part = "header" THEN HeaderLen ELSE LengthIn(hdr)

\* Any error of recv_frame ends the connection.
Close ==
  /\ part' = "closed"
  /\ buf' = <<>>
  /\ hdr' = <<>>
  /\ UNCHANGED frames

Return(h, p) ==
  /\ frames' = Append(frames, [type |-> TypeNames[h[6] + 1], payload |-> p])
  /\ part' = "header"
  /\ buf' = <<>>
  /\ hdr' = <<>>

FrameDone(h, p) == IF DecodeAccepts(h, p) THEN Return(h, p) ELSE Close

HeaderDone(h) ==
  IF ~HeaderAccepted(h) THEN Close
  ELSE IF LengthIn(h) = 0 THEN FrameDone(h, <<>>)
  ELSE /\ part' = "payload"
       /\ hdr' = h
       /\ buf' = <<>>
       /\ UNCHANGED frames

\* Mutant: recv_exact is satisfied by the first piece that arrives.
RecvOnce(k) ==
  LET n == Min({k, Wanted, Len(stream)})
  IN  /\ part # "closed"
      /\ stream # <<>>
      /\ stream' = Drop(stream, n)
      /\ \E got \in {[i \in 1 .. Wanted |-> IF i <= n THEN stream[i] ELSE 0]} :
           IF part = "header" THEN HeaderDone(got) ELSE FrameDone(hdr, got)
      /\ UNCHANGED <<sent, alive>>

\* One turn of the loop of recv_exact; the last one completes the part.
Recv(k) ==
  LET n == Min({k, Wanted - Len(buf), Len(stream)})
  IN  /\ part # "closed"
      /\ stream # <<>>
      /\ stream' = Drop(stream, n)
      /\ \E got \in {buf \o SubSeq(stream, 1, n)} :
           IF Len(got) < Wanted
           THEN buf' = got /\ UNCHANGED <<part, hdr, frames>>
           ELSE IF part = "header" THEN HeaderDone(got) ELSE FrameDone(hdr, got)
      /\ UNCHANGED <<sent, alive>>

\* recv() returns 0.
RecvEnd ==
  /\ part # "closed"
  /\ stream = <<>>
  /\ ~alive
  /\ Close
  /\ UNCHANGED <<sent, stream, alive>>

WNext ==
  \/ \E m \in Messages, damage \in Damages : SendFrame(m, damage)
  \/ \E lost \in Losses : Disconnect(lost)
  \/ \E k \in Chunks : Recv(k)
  \/ RecvEnd

\* The receiver is a loop that calls recv() again as long as it gets bytes.
WSpec ==
  /\ WInit
  /\ [][WNext]_wvars
  /\ WF_wvars(\E k \in Chunks : Recv(k))
  /\ WF_wvars(RecvEnd)

-----------------------------------------------------------------------------
\* What the caller makes of each frame: a payload that does not unpack is
\* refused and dropped, and the connection goes on.  The caller knows which
\* message it waits for.
Handled ==
  [i \in DOMAIN frames |->
     [type |-> frames[i].type,
      got |-> Unpack(sent[i].msg.kind.unpack, frames[i].payload)]]

-----------------------------------------------------------------------------
\* A frame that ends the connection: damaged, or larger than the limit.
Ends(f) == f.damage # "none" \/ Len(PayloadOf(f.msg)) > MaxPayload

\* The receiver's limits on strings and vectors, which the sender never tests.
WithinLimits(m) ==
  \A i \in DOMAIN m.values :
    LET kind == Layout[m.kind.pack][i]
    IN  kind \in Counted => Len(m.values[i]) <= ByteLimit[kind]

\* What a receiver should make of a sequence of frames.
Meaning(fs) ==
  [i \in DOMAIN fs |->
     [type |-> fs[i].msg.kind.type,
      got |-> IF WithinLimits(fs[i].msg) THEN Took(fs[i].msg.values, <<>>)
                                         ELSE Refused]]

\* However the stream is cut into pieces, damaged or cut short, what has been
\* handled is exactly what was sent, in order, up to the frames returned so
\* far; no frame that is damaged or behind a damaged one is among them.  Only
\* a message whose string or vector is too long for the reader is passed over.
HandledAsSent ==
  /\ Len(frames) <= Len(sent)
  /\ \A i \in DOMAIN frames : ~Ends(sent[i])
  /\ Handled = Meaning(SubSeq(sent, 1, Len(frames)))

\* The first frame has been sent and nothing of it received.
Unread == sent # <<>> /\ frames = <<>> /\ part = "header" /\ buf = <<>>

\* A payload is read whole or not at all: no beginning of it and no longer
\* byte string unpacks, so a field can never be taken from a neighbour.
WholeOrNothing ==
  Unread =>
    LET m == sent[1].msg
        p == PayloadOf(m)
    IN  /\ \A n \in 0 .. Len(p) - 1 : ~Unpack(m.kind.unpack, SubSeq(p, 1, n)).ok
        /\ \A b \in Fills : ~Unpack(m.kind.unpack, Append(p, b)).ok

\* Two payloads are sent under COMPLETE_ACK, the ack of a completion and the
\* decision on a START or a loss: neither unpacks as the other, so a client
\* that takes the next frame for its answer cannot read a commit into it.
OneReadingPerType ==
  Unread =>
    LET m == sent[1].msg
    IN  \A k \in Kinds :
          k.type = m.kind.type /\ k.unpack # m.kind.unpack =>
            ~Unpack(k.unpack, PayloadOf(m)).ok

\* A frame that is in order, behind frames that are, is returned, unless the
\* sender goes away; and a connection whose sender is gone is closed.
FramesArrive ==
  /\ \A n \in 1 .. MaxFrames :
       (Len(sent) >= n /\ \A i \in 1 .. n : ~Ends(sent[i]))
         ~> (Len(frames) >= n \/ ~alive)
  /\ ~alive ~> part = "closed"
=============================================================================
