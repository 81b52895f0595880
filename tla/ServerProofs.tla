---------------------------- MODULE ServerProofs ----------------------------
(***************************************************************************)
(* Proofs about the threads of the coordinator process, for any number of  *)
(* clients and any capacity: no wakeup of the decision thread is lost, and *)
(* every client is answered in the order in which it asked.  NoLostWakeup  *)
(* is inductive once it is known that reader is a function on the clients; *)
(* the order of the answers follows requests from the socket to the hand.  *)
(***************************************************************************)
EXTENDS Server, TLAPS

Readers == reader \in [Clients -> {"none", "recv", "leave", "notify", "last", "ended"}]

WakeInv == Readers /\ NoLostWakeup

\* Initially no thread is asleep.
LEMMA WakeInitially == VInit => WakeInv
  BY DEF VInit, WakeInv, Readers, NoLostWakeup

\* A client touches neither the queue nor a thread.
LEMMA WakeClient ==
  ASSUME WakeInv, NEW c \in Clients, ClientStep(c)
  PROVE  WakeInv'
  BY DEF WakeInv, Readers, NoLostWakeup, ClientStep, Connect, Begin, Send, Read,
         Leave, threads

\* Whoever pushes goes on to notify, and whoever notifies wakes.
LEMMA WakeReader ==
  ASSUME WakeInv, NEW c \in Clients, ReaderStep(c)
  PROVE  WakeInv'
<1>1. CASE Receive(c)
  BY <1>1 DEF WakeInv, Readers, NoLostWakeup, Receive
<1>2. CASE EndOfReader(c)
  BY <1>2 DEF WakeInv, Readers, NoLostWakeup, EndOfReader
<1>3. CASE Notify(c)
  BY <1>3 DEF WakeInv, Readers, NoLostWakeup, Notify, Woken, Loop
<1>4. QED
  BY <1>1, <1>2, <1>3 DEF ReaderStep

\* A reader that is started had not pushed anything.
LEMMA WakeAcceptor ==
  ASSUME WakeInv, AcceptorStep
  PROVE  WakeInv'
<1>1. CASE AcceptFails
  BY <1>1 DEF WakeInv, Readers, NoLostWakeup, AcceptFails
<1>2. ASSUME NEW c \in Clients, AcceptOne(c)
      PROVE  WakeInv'
  BY <1>2 DEF WakeInv, Readers, NoLostWakeup, AcceptOne, Loop
<1>3. QED
  BY <1>1, <1>2 DEF AcceptorStep

\* The decision thread only falls asleep on an empty queue.
LEMMA WakeDecision ==
  ASSUME WakeInv, DecisionStep \/ SpuriousWakeup
  PROVE  WakeInv'
<1>1. CASE Wait
  BY <1>1 DEF WakeInv, Readers, NoLostWakeup, Wait
<1>2. CASE Take
  BY <1>2 DEF WakeInv, Readers, NoLostWakeup, Take
<1>3. CASE Lock \/ SpuriousWakeup
  BY <1>3 DEF WakeInv, Readers, NoLostWakeup, Lock, SpuriousWakeup
<1>4. CASE SendFails \/ SendCompletes
  BY <1>4 DEF WakeInv, Readers, NoLostWakeup, SendFails, SendCompletes, Sent
<1>5. QED
  BY <1>1, <1>2, <1>3, <1>4 DEF DecisionStep

\* stop() pushes before it notifies as well.
LEMMA WakeStop ==
  ASSUME WakeInv, StopBegins \/ StopStep
  PROVE  WakeInv'
<1>1. CASE StopBegins
  BY <1>1 DEF WakeInv, Readers, NoLostWakeup, StopBegins
<1>2. CASE StopStep
  BY <1>2 DEF WakeInv, Readers, NoLostWakeup, StopStep, CloseListener,
              PushShutdown, StopNotifies, Woken
<1>3. QED
  BY <1>1, <1>2

\* The decision thread never sleeps on a queue that no one is about to announce
\* (decision_loop, reader_loop and stop in coordinator.cpp).
THEOREM WakeupsKept == VSpec => []NoLostWakeup
<1>1. WakeInv /\ [VNext]_vvars => WakeInv'
  <2>1. CASE UNCHANGED vvars
    BY <2>1 DEF WakeInv, Readers, NoLostWakeup, vvars, threads
  <2>2. SUFFICES ASSUME WakeInv, VNext PROVE WakeInv'
    BY <2>1
  <2>3. QED
    BY <2>2, WakeClient, WakeReader, WakeAcceptor, WakeDecision, WakeStop
       DEF VNext
<1>2. WakeInv => NoLostWakeup
  BY DEF WakeInv
<1>3. QED
  BY WakeInitially, <1>1, <1>2, PTL DEF VSpec

-----------------------------------------------------------------------------
(* Answers in order.  The requests of a client that are owed an answer are *)
(* in the hand of the decision thread, in the queue or in the client's     *)
(* socket, in this order, and due lists exactly them.                      *)

Frames == [number : Nat, kind : Kinds]
Entries ==
  {e \in [conn : Clients \cup {0}, number : Nat, kind : Kinds \cup {"closed", "halt"}] :
     e.kind \in Owed => e.conn \in Clients}
Sends == [to : Clients, number : Nat]

ServerTypes ==
  /\ Readers
  /\ table \subseteq Clients
  /\ client \in [Clients -> {"none", "up", "gone"}]
  /\ writing \in [Clients -> BOOLEAN]
  /\ asked \in [Clients -> Nat]
  /\ out \in [Clients -> Seq(Frames)]
  /\ due \in [Clients -> Seq(Nat)]
  /\ queue \in Seq(Entries)
  /\ hand \in Seq(Sends)
  /\ \A c \in Clients : client[c] = "none" => asked[c] = 0

\* Between two frames the thread has nothing in hand; for a frame it has one
\* answer, behind at most one frame to pass on.
HandShape ==
  \/ decision \in {"test", "asleep"} /\ hand = <<>>
  \/ /\ decision \in {"send", "sending"}
     /\ Len(hand) \in 1 .. 2
     /\ Len(hand) = 2 => hand[1].number = 0

InHand(c, n) == n # 0 /\ \E i \in DOMAIN hand : hand[i].to = c /\ hand[i].number = n
OwedEntry(c, i) == queue[i].conn = c /\ queue[i].kind \in Owed
InQueue(c, n) == \E i \in DOMAIN queue : OwedEntry(c, i) /\ queue[i].number = n
InSocket(c, n) ==
  \E i \in DOMAIN out[c] : out[c][i].kind \in Owed /\ out[c][i].number = n
Pending(c, n) == InHand(c, n) \/ InQueue(c, n) \/ InSocket(c, n)

\* A connection whose requests may still be answered is in the table, and its
\* closed marker is behind all of them.
Connected(c) ==
  /\ reader[c] = "none" =>
       \A i \in DOMAIN queue :
         queue[i].conn = c => queue[i].kind \notin Owed \cup {"closed"}
  /\ reader[c] \notin {"none", "last", "ended"} =>
       /\ c \in table
       /\ \A i \in DOMAIN queue : queue[i].conn = c => queue[i].kind # "closed"
  /\ \A n : InHand(c, n) \/ InQueue(c, n) => c \in table
  /\ \A i, j \in DOMAIN queue :
       i < j /\ queue[i].conn = c /\ queue[i].kind = "closed" => ~OwedEntry(c, j)

Ascending(c) ==
  /\ \A i, j \in DOMAIN due[c] : i < j => due[c][i] < due[c][j]
  /\ \A i, j \in DOMAIN out[c] :
       i < j /\ out[c][i].kind \in Owed /\ out[c][j].kind \in Owed
         => out[c][i].number < out[c][j].number
  /\ \A i, j \in DOMAIN queue :
       i < j /\ OwedEntry(c, i) /\ OwedEntry(c, j) => queue[i].number < queue[j].number
  /\ \A n, m : InHand(c, n) /\ (InQueue(c, m) \/ InSocket(c, m)) => n < m
  /\ \A n, m : InQueue(c, n) /\ InSocket(c, m) => n < m

Listed(c) ==
  /\ \A n : OwedTo(c, n) <=> Pending(c, n)
  /\ \A n : OwedTo(c, n) => n \in 1 .. asked[c] /\ (writing[c] => n < asked[c])
  /\ writing[c] => asked[c] # 0

OrderInv ==
  /\ ServerTypes
  /\ HandShape
  /\ \A c \in Clients :
       /\ Connected(c)
       /\ client[c] # "gone" => Ascending(c) /\ Listed(c)

\* Initially nothing is owed.
LEMMA OrderInitially == VInit => OrderInv
  <1> SUFFICES ASSUME VInit PROVE OrderInv
    OBVIOUS
  <1>1. ServerTypes /\ HandShape
    BY DEF VInit, ServerTypes, Readers, HandShape
  <1>2. ASSUME NEW c \in Clients PROVE Connected(c) /\ Ascending(c) /\ Listed(c)
    BY <1>2 DEF VInit, Connected, Ascending, Listed, OwedTo, Pending, InHand,
                InQueue, InSocket, OwedEntry
  <1> QED
    BY <1>1, <1>2 DEF OrderInv

\* A step that touches no request, wherever it is.
LEMMA Untouched ==
  ASSUME OrderInv, HandShape',
         UNCHANGED <<reader, hand, queue, table, client, writing, out, asked, due>>
  PROVE  OrderInv'
  <1>1. ServerTypes'
    BY DEF OrderInv, ServerTypes, Readers
  <1>2. ASSUME NEW c \in Clients PROVE Connected(c)'
    BY DEF OrderInv, Connected, InHand, InQueue, OwedEntry
  <1>3. ASSUME NEW c \in Clients, client'[c] # "gone" PROVE Ascending(c)' /\ Listed(c)'
    <2>1. Ascending(c) /\ Listed(c)
      BY <1>3 DEF OrderInv
    <2> QED
      BY <2>1 DEF Ascending, Listed, OwedTo, Pending, InHand, InQueue, InSocket, OwedEntry
  <1> QED
    BY <1>1, <1>2, <1>3 DEF OrderInv

\* A new client, or a request begun: its number is larger than all before it.
LEMMA OrderBegin ==
  ASSUME OrderInv, NEW c \in Clients, Connect(c) \/ Begin(c)
  PROVE  OrderInv'
  <1>1. /\ UNCHANGED <<decision, reader, hand, queue, table, out, due>>
        /\ \A d \in Clients : /\ client'[d] # "gone" => client[d] # "gone"
                              /\ \/ /\ asked'[d] = asked[d]
                                    /\ writing'[d] = writing[d]
                                 \/ /\ asked'[d] = asked[d] + 1
                                    /\ ~writing[d]
    <2>1. CASE Connect(c)
      BY <2>1 DEF OrderInv, ServerTypes, Connect, threads, history
    <2>2. CASE Begin(c)
      BY <2>2 DEF OrderInv, ServerTypes, Begin, threads
    <2> QED
      BY <2>1, <2>2
  <1>2. ServerTypes' /\ HandShape'
    <2>1. CASE Connect(c)
      BY <2>1 DEF OrderInv, ServerTypes, Readers, HandShape, Connect, threads, history
    <2>2. CASE Begin(c)
      BY <2>2 DEF OrderInv, ServerTypes, Readers, HandShape, Begin, threads
    <2> QED
      BY <2>1, <2>2
  <1>3. ASSUME NEW d \in Clients PROVE Connected(d)'
    BY <1>1 DEF OrderInv, Connected, InHand, InQueue, OwedEntry
  <1>4. ASSUME NEW d \in Clients, client'[d] # "gone" PROVE Ascending(d)' /\ Listed(d)'
    <2>1. Ascending(d) /\ Listed(d)
      BY <1>1, <1>4 DEF OrderInv
    <2>2. Ascending(d)'
      BY <1>1, <2>1 DEF Ascending, InHand, InQueue, InSocket, OwedEntry
    <2>3. \A n : (OwedTo(d, n)' <=> OwedTo(d, n)) /\ (Pending(d, n)' <=> Pending(d, n))
      BY <1>1 DEF OwedTo, Pending, InHand, InQueue, InSocket, OwedEntry
    <2>4. ASSUME NEW n, OwedTo(d, n)
          PROVE  n \in 1 .. asked'[d] /\ (writing'[d] => n < asked'[d])
      <3>1. n \in 1 .. asked[d] /\ (writing[d] => n < asked[d]) /\ asked[d] \in Nat
        BY <2>1, <2>4 DEF Listed, OrderInv, ServerTypes
      <3> QED
        BY <1>1, <3>1
    <2>5. writing'[d] => asked'[d] # 0
      BY <1>1, <2>1 DEF Listed, OrderInv, ServerTypes
    <2>6. Listed(d)'
      BY <2>1, <2>3, <2>4, <2>5 DEF Listed
    <2> QED
      BY <2>2, <2>6
  <1> QED
    BY <1>2, <1>3, <1>4 DEF OrderInv

\* A client that leaves is owed nothing.
LEMMA OrderLeave ==
  ASSUME OrderInv, NEW c \in Clients, Leave(c)
  PROVE  OrderInv'
  <1>1. /\ UNCHANGED <<decision, reader, hand, queue, table, out, asked>>
        /\ client'[c] = "gone"
        /\ \A d \in Clients \ {c} : /\ client'[d] = client[d]
                                    /\ writing'[d] = writing[d]
                                    /\ due'[d] = due[d]
    BY DEF OrderInv, ServerTypes, Leave, threads
  <1>2. ServerTypes' /\ HandShape'
    BY DEF OrderInv, ServerTypes, Readers, HandShape, Leave, threads
  <1>3. ASSUME NEW d \in Clients PROVE Connected(d)'
    BY <1>1 DEF OrderInv, Connected, InHand, InQueue, OwedEntry
  <1>4. ASSUME NEW d \in Clients, client'[d] # "gone" PROVE Ascending(d)' /\ Listed(d)'
    <2>1. d # c /\ Ascending(d) /\ Listed(d)
      BY <1>1, <1>4 DEF OrderInv
    <2>2. Ascending(d)'
      BY <1>1, <2>1 DEF Ascending, InHand, InQueue, InSocket, OwedEntry
    <2>3. Listed(d)'
      BY <1>1, <2>1 DEF Listed, OwedTo, Pending, InHand, InQueue, InSocket, OwedEntry
    <2> QED
      BY <2>2, <2>3
  <1> QED
    BY <1>2, <1>3, <1>4 DEF OrderInv

\* Appending to a sequence leaves its entries where they are.
LEMMA AppendFacts ==
  ASSUME NEW S, NEW s \in Seq(S), NEW e \in S
  PROVE  /\ Append(s, e) \in Seq(S)
         /\ Len(s) \in Nat /\ DOMAIN s = 1 .. Len(s)
         /\ DOMAIN Append(s, e) = 1 .. Len(s) + 1
         /\ \A i \in DOMAIN s : Append(s, e)[i] = s[i]
         /\ Append(s, e)[Len(s) + 1] = e
  OBVIOUS

\* Taking the head of a sequence leaves the rest, one place to the front.
LEMMA TailFacts ==
  ASSUME NEW S, NEW s \in Seq(S), s # <<>>
  PROVE  /\ Tail(s) \in Seq(S)
         /\ Len(s) \in Nat /\ Len(s) > 0 /\ DOMAIN s = 1 .. Len(s)
         /\ DOMAIN Tail(s) = 1 .. Len(s) - 1
         /\ \A i \in DOMAIN Tail(s) : Tail(s)[i] = s[i + 1]
         /\ Head(s) = s[1]
         /\ Head(s) \in S
  OBVIOUS

\* A request is sent: it is the newest in the socket, and listed if it is owed
\* an answer.
LEMMA OrderSend ==
  ASSUME OrderInv, NEW c \in Clients, Send(c)
  PROVE  OrderInv'
  <1>1. PICK kind \in Kinds :
          /\ out' = [out EXCEPT ![c] = Append(@, [number |-> asked[c], kind |-> kind])]
          /\ due' = IF kind \in Owed THEN [due EXCEPT ![c] = Append(@, asked[c])]
                                     ELSE due
    BY DEF Send
  <1>2. /\ UNCHANGED <<decision, reader, hand, queue, table, asked, client>>
        /\ writing[c] /\ writing' = [writing EXCEPT ![c] = FALSE]
        /\ client[c] = "up"
    BY DEF Send, threads
  <1> DEFINE f == [number |-> asked[c], kind |-> kind]
             k == Len(out[c])
             l == Len(due[c])
  <1>3. out[c] \in Seq(Frames) /\ due[c] \in Seq(Nat) /\ f \in Frames /\ asked[c] \in Nat
    BY DEF OrderInv, ServerTypes, Frames
  <1>4. /\ out'[c] = Append(out[c], f)
        /\ k \in Nat /\ DOMAIN out[c] = 1 .. k
        /\ out'[c] \in Seq(Frames) /\ DOMAIN out'[c] = 1 .. k + 1
        /\ \A i \in DOMAIN out[c] : out'[c][i] = out[c][i]
        /\ out'[c][k + 1] = f
    BY <1>1, <1>3, AppendFacts DEF OrderInv, ServerTypes
  <1>5. /\ l \in Nat /\ DOMAIN due[c] = 1 .. l
        /\ kind \notin Owed => due'[c] = due[c]
        /\ kind \in Owed =>
             /\ due'[c] \in Seq(Nat) /\ DOMAIN due'[c] = 1 .. l + 1
             /\ \A i \in DOMAIN due[c] : due'[c][i] = due[c][i]
             /\ due'[c][l + 1] = asked[c]
    BY <1>1, <1>3, AppendFacts DEF OrderInv, ServerTypes
  <1>6. \A d \in Clients \ {c} : out'[d] = out[d] /\ due'[d] = due[d] /\ writing'[d] = writing[d]
    BY <1>1, <1>2 DEF OrderInv, ServerTypes
  <1>7. f.number = asked[c] /\ f.kind = kind
    OBVIOUS
  <1> HIDE DEF f, k, l
  <1>8. ServerTypes' /\ HandShape'
    BY <1>1, <1>2, <1>3, <1>4, <1>5 DEF OrderInv, ServerTypes, Readers, HandShape
  <1>9. ASSUME NEW d \in Clients PROVE Connected(d)'
    BY <1>2 DEF OrderInv, Connected, InHand, InQueue, OwedEntry
  <1>10. ASSUME NEW d \in Clients \ {c}, client'[d] # "gone"
         PROVE  Ascending(d)' /\ Listed(d)'
    <2>1. Ascending(d) /\ Listed(d)
      BY <1>2, <1>10 DEF OrderInv
    <2>2. Ascending(d)'
      BY <1>2, <1>6, <2>1 DEF Ascending, InHand, InQueue, InSocket, OwedEntry
    <2>3. Listed(d)'
      BY <1>2, <1>6, <2>1 DEF Listed, OwedTo, Pending, InHand, InQueue, InSocket, OwedEntry
    <2> QED
      BY <2>2, <2>3
  <1>11. Ascending(c)' /\ Listed(c)'
    <2>1. Ascending(c) /\ Listed(c)
      BY <1>2 DEF OrderInv
    <2>2. \A n : OwedTo(c, n) => n \in 1 .. asked[c] /\ n < asked[c]
      BY <1>2, <2>1 DEF Listed
    <2>3. \A n : /\ InHand(c, n)' <=> InHand(c, n)
                 /\ InQueue(c, n)' <=> InQueue(c, n)
                 /\ InSocket(c, n)' <=> InSocket(c, n) \/ (kind \in Owed /\ n = asked[c])
      <3>1. \A n : InSocket(c, n)' <=> InSocket(c, n) \/ (kind \in Owed /\ n = asked[c])
        BY <1>4, <1>7 DEF InSocket
      <3> QED
        BY <1>2, <3>1 DEF InHand, InQueue, OwedEntry
    <2>4. \A n : OwedTo(c, n)' <=> OwedTo(c, n) \/ (kind \in Owed /\ n = asked[c])
      BY <1>5 DEF OwedTo
    <2>5. Listed(c)'
      <3>1. \A n : OwedTo(c, n)' <=> Pending(c, n)'
        BY <2>1, <2>3, <2>4 DEF Listed, Pending
      <3>2. ~writing'[c]
        BY <1>2 DEF OrderInv, ServerTypes
      <3>3. asked'[c] = asked[c]
        BY <1>2
      <3>4. ASSUME NEW n, OwedTo(c, n)' PROVE n \in 1 .. asked'[c]
        <4>1. CASE OwedTo(c, n)
          BY <2>2, <3>3, <4>1
        <4>2. CASE n = asked[c]
          <5>1. asked[c] # 0
            BY <1>2, <2>1, Zenon DEF Listed
          <5> QED
            BY <1>3, <3>3, <4>2, <5>1
        <4> QED
          BY <2>4, <3>4, <4>1, <4>2
      <3> QED
        BY <3>1, <3>2, <3>4 DEF Listed
    <2>6. \A n : InSocket(c, n) \/ InQueue(c, n) \/ InHand(c, n) => n < asked[c]
      BY <2>1, <2>2 DEF Listed, Pending
    <2>7. Ascending(c)'
      <3>1. \A i, j \in DOMAIN due'[c] : i < j => due'[c][i] < due'[c][j]
        <4>1. \A i \in DOMAIN due[c] : due[c][i] < asked[c]
          BY <2>2 DEF OwedTo
        <4>2. \A i, j \in DOMAIN due[c] : i < j => due[c][i] < due[c][j]
          BY <2>1 DEF Ascending
        <4>3. CASE kind \notin Owed
          BY <1>5, <4>2, <4>3
        <4>4. CASE kind \in Owed
          <5>1. /\ l \in Nat /\ DOMAIN due[c] = 1 .. l /\ DOMAIN due'[c] = 1 .. l + 1
                /\ \A i \in DOMAIN due[c] : due'[c][i] = due[c][i]
                /\ due'[c][l + 1] = asked[c]
            BY <1>5, <4>4
          <5> QED
            BY <4>1, <4>2, <5>1
        <4> QED
          BY <4>3, <4>4
      <3>2. \A i, j \in DOMAIN out'[c] :
              i < j /\ out'[c][i].kind \in Owed /\ out'[c][j].kind \in Owed
                => out'[c][i].number < out'[c][j].number
        <4>1. \A i \in DOMAIN out[c] : out[c][i].kind \in Owed => out[c][i].number < asked[c]
          BY <2>6 DEF InSocket
        <4>2. \A i, j \in DOMAIN out[c] :
                i < j /\ out[c][i].kind \in Owed /\ out[c][j].kind \in Owed
                  => out[c][i].number < out[c][j].number
          BY <2>1 DEF Ascending
        <4> QED
          BY <1>4, <1>7, <4>1, <4>2
      <3>3. /\ \A n, m : InHand(c, n)' /\ (InQueue(c, m)' \/ InSocket(c, m)') => n < m
            /\ \A n, m : InQueue(c, n)' /\ InSocket(c, m)' => n < m
        BY <2>1, <2>3, <2>6 DEF Ascending
      <3>4. queue' = queue /\ \A i : OwedEntry(c, i)' <=> OwedEntry(c, i)
        BY <1>2 DEF OwedEntry
      <3> QED
        BY <2>1, <3>1, <3>2, <3>3, <3>4 DEF Ascending
    <2> QED
      BY <2>5, <2>7
  <1> QED
    BY <1>2, <1>8, <1>9, <1>10, <1>11 DEF OrderInv

\* A new connection is in the table before its reader starts.
LEMMA OrderAccept ==
  ASSUME OrderInv, NEW c \in Clients, AcceptOne(c)
  PROVE  OrderInv'
  <1>1. /\ UNCHANGED <<decision, hand, queue, client, writing, out, asked, due>>
        /\ reader[c] = "none" /\ reader'[c] \in {"recv", "leave"}
        /\ table' = table \cup {c}
        /\ \A d \in Clients \ {c} : reader'[d] = reader[d]
    BY DEF OrderInv, ServerTypes, Readers, AcceptOne, Loop, sockets, history
  <1>2. ServerTypes' /\ HandShape'
    BY DEF OrderInv, ServerTypes, Readers, HandShape, AcceptOne, Loop, sockets, history
  <1>3. ASSUME NEW d \in Clients PROVE Connected(d)'
    <2>1. Connected(d)
      BY DEF OrderInv
    <2>2. CASE d = c
      BY <1>1, <2>1, <2>2 DEF Connected, InHand, InQueue, OwedEntry
    <2>3. CASE d # c
      BY <1>1, <2>1, <2>3 DEF Connected, InHand, InQueue, OwedEntry
    <2> QED
      BY <2>2, <2>3
  <1>4. ASSUME NEW d \in Clients, client'[d] # "gone" PROVE Ascending(d)' /\ Listed(d)'
    <2>1. Ascending(d) /\ Listed(d)
      BY <1>1, <1>4 DEF OrderInv
    <2> QED
      BY <1>1, <2>1 DEF Ascending, Listed, OwedTo, Pending, InHand, InQueue, InSocket,
                        OwedEntry
  <1> QED
    BY <1>2, <1>3, <1>4 DEF OrderInv

\* A reader that notifies goes back to its loop, or ends.
LEMMA OrderNotify ==
  ASSUME OrderInv, NEW c \in Clients, Notify(c)
  PROVE  OrderInv'
  <1>1. /\ UNCHANGED <<hand, queue, table, client, writing, out, asked, due>>
        /\ \/ reader[c] = "notify" /\ reader'[c] \in {"recv", "leave"}
           \/ reader[c] = "last" /\ reader'[c] = "ended"
        /\ \A d \in Clients \ {c} : reader'[d] = reader[d]
    BY DEF OrderInv, ServerTypes, Readers, Notify, Loop, sockets, history
  <1>2. ServerTypes' /\ HandShape'
    BY DEF OrderInv, ServerTypes, Readers, HandShape, Notify, Loop, Woken, sockets, history
  <1>3. ASSUME NEW d \in Clients PROVE Connected(d)'
    <2>1. Connected(d)
      BY DEF OrderInv
    <2>2. CASE d = c
      BY <1>1, <2>1, <2>2 DEF Connected, InHand, InQueue, OwedEntry
    <2>3. CASE d # c
      BY <1>1, <2>1, <2>3 DEF Connected, InHand, InQueue, OwedEntry
    <2> QED
      BY <2>2, <2>3
  <1>4. ASSUME NEW d \in Clients, client'[d] # "gone" PROVE Ascending(d)' /\ Listed(d)'
    <2>1. Ascending(d) /\ Listed(d)
      BY <1>1, <1>4 DEF OrderInv
    <2> QED
      BY <1>1, <2>1 DEF Ascending, Listed, OwedTo, Pending, InHand, InQueue, InSocket,
                        OwedEntry
  <1> QED
    BY <1>2, <1>3, <1>4 DEF OrderInv

\* An entry is pushed onto the queue.
LEMMA Pushed ==
  ASSUME ServerTypes, NEW e \in Entries, queue' = Append(queue, e)
  PROVE  /\ queue' \in Seq(Entries)
         /\ Len(queue) \in Nat /\ DOMAIN queue = 1 .. Len(queue)
         /\ DOMAIN queue' = 1 .. Len(queue) + 1
         /\ \A i \in DOMAIN queue : queue'[i] = queue[i]
         /\ queue'[Len(queue) + 1] = e
         /\ \A d, n : InQueue(d, n)' <=>
              InQueue(d, n) \/ (e.conn = d /\ e.kind \in Owed /\ e.number = n)
  <1>1. queue \in Seq(Entries)
    BY DEF ServerTypes
  <1>2. /\ queue' \in Seq(Entries)
        /\ Len(queue) \in Nat /\ DOMAIN queue = 1 .. Len(queue)
        /\ DOMAIN queue' = 1 .. Len(queue) + 1
        /\ \A i \in DOMAIN queue : queue'[i] = queue[i]
        /\ queue'[Len(queue) + 1] = e
    BY <1>1, AppendFacts
  <1>3. \A d, n : InQueue(d, n)' <=>
           InQueue(d, n) \/ (e.conn = d /\ e.kind \in Owed /\ e.number = n)
    BY <1>2 DEF InQueue, OwedEntry
  <1> QED
    BY <1>2, <1>3

\* A marker or a SHUTDOWN is pushed: no request moves.
LEMMA OrderMarker ==
  ASSUME OrderInv, NEW e \in Entries, e.kind \notin Owed, queue' = Append(queue, e),
         ServerTypes', UNCHANGED <<decision, hand, table, client, writing, out, asked, due>>,
         \A d \in Clients :
           \/ reader'[d] = reader[d] /\ (e.kind = "closed" => e.conn # d)
           \/ reader[d] # "none" /\ reader'[d] = "last"
  PROVE  OrderInv'
  <1>1. /\ Len(queue) \in Nat /\ DOMAIN queue = 1 .. Len(queue)
        /\ DOMAIN queue' = 1 .. Len(queue) + 1
        /\ \A i \in DOMAIN queue : queue'[i] = queue[i]
        /\ queue'[Len(queue) + 1] = e
        /\ \A d, n : InQueue(d, n)' <=> InQueue(d, n)
    BY Pushed DEF OrderInv
  <1>2. HandShape'
    BY DEF OrderInv, HandShape
  <1>3. \A d, n : /\ InHand(d, n)' <=> InHand(d, n)
                  /\ InSocket(d, n)' <=> InSocket(d, n)
                  /\ OwedTo(d, n)' <=> OwedTo(d, n)
    BY DEF InHand, InSocket, OwedTo
  <1>4. ASSUME NEW d \in Clients PROVE Connected(d)'
    <2>1. Connected(d)
      BY DEF OrderInv
    <2>2. \A n : InHand(d, n)' \/ InQueue(d, n)' => d \in table'
      BY <1>1, <1>3, <2>1 DEF Connected
    <2>3. \A i, j \in DOMAIN queue' :
            i < j /\ queue'[i].conn = d /\ queue'[i].kind = "closed" => ~OwedEntry(d, j)'
      BY <1>1, <2>1 DEF Connected, OwedEntry
    <2>4. reader'[d] = "none" =>
            \A i \in DOMAIN queue' :
              queue'[i].conn = d => queue'[i].kind \notin Owed \cup {"closed"}
      BY <1>1, <2>1 DEF Connected
    <2>5. reader'[d] \notin {"none", "last", "ended"} =>
            /\ d \in table'
            /\ \A i \in DOMAIN queue' : queue'[i].conn = d => queue'[i].kind # "closed"
      BY <1>1, <2>1 DEF Connected
    <2> QED
      BY <2>2, <2>3, <2>4, <2>5 DEF Connected
  <1>5. ASSUME NEW d \in Clients, client'[d] # "gone" PROVE Ascending(d)' /\ Listed(d)'
    <2>1. Ascending(d) /\ Listed(d)
      BY <1>5 DEF OrderInv
    <2>2. \A i, j \in DOMAIN queue' :
            i < j /\ OwedEntry(d, i)' /\ OwedEntry(d, j)' =>
              queue'[i].number < queue'[j].number
      BY <1>1, <2>1 DEF Ascending, OwedEntry
    <2>3. Ascending(d)'
      BY <1>1, <1>3, <2>1, <2>2 DEF Ascending
    <2>4. Listed(d)'
      BY <1>1, <1>3, <2>1 DEF Listed, Pending
    <2> QED
      BY <2>3, <2>4
  <1> QED
    BY <1>2, <1>4, <1>5 DEF OrderInv

\* The marker of a closed connection, and the SHUTDOWN that stop() pushes.
LEMMA OrderEnds ==
  ASSUME OrderInv, (\E c \in Clients : EndOfReader(c)) \/ PushShutdown
  PROVE  OrderInv'
  <1>1. ASSUME NEW c \in Clients, EndOfReader(c) PROVE OrderInv'
    <2> DEFINE e == Inbound(c, 0, "closed")
    <2>1. e \in Entries /\ e.kind = "closed" /\ e.conn = c
      BY DEF Inbound, Entries, Owed
    <2>2. e.kind \notin Owed
      BY <2>1 DEF Owed
    <2>3. /\ queue' = Append(queue, e)
          /\ UNCHANGED <<decision, hand, table, client, writing, out, asked, due>>
          /\ reader[c] # "none" /\ reader' = [reader EXCEPT ![c] = "last"]
      BY <1>1 DEF EndOfReader, sockets, history
    <2> HIDE DEF e
    <2>4. queue' \in Seq(Entries)
      BY <2>1, <2>3, Pushed DEF OrderInv
    <2>5. ServerTypes'
      BY <2>3, <2>4 DEF OrderInv, ServerTypes, Readers
    <2>6. \A d \in Clients :
            \/ reader'[d] = reader[d] /\ (e.kind = "closed" => e.conn # d)
            \/ reader[d] # "none" /\ reader'[d] = "last"
      BY <2>1, <2>3 DEF OrderInv, ServerTypes, Readers
    <2> QED
      BY <2>1, <2>2, <2>3, <2>5, <2>6, OrderMarker
  <1>2. CASE PushShutdown
    <2> DEFINE e == Inbound(0, 0, "halt")
    <2>1. e \in Entries /\ e.kind = "halt"
      BY DEF Inbound, Entries, Owed
    <2>2. e.kind \notin Owed
      BY <2>1 DEF Owed
    <2>3. /\ queue' = Append(queue, e)
          /\ UNCHANGED <<reader, decision, hand, table, client, writing, out, asked, due>>
      BY <1>2 DEF PushShutdown, sockets, history
    <2> HIDE DEF e
    <2>4. queue' \in Seq(Entries)
      BY <2>1, <2>3, Pushed DEF OrderInv
    <2>5. ServerTypes'
      BY <2>3, <2>4 DEF OrderInv, ServerTypes, Readers
    <2> QED
      BY <2>1, <2>2, <2>3, <2>5, OrderMarker
  <1> QED
    BY <1>1, <1>2

\* A reader pushes the oldest frame of its socket.
LEMMA OrderReceive ==
  ASSUME OrderInv, NEW c \in Clients, Receive(c)
  PROVE  OrderInv'
  <1> DEFINE f == Head(out[c])
             e == Inbound(c, f.number, f.kind)
             k == Len(out[c])
  <1>1. /\ out[c] # <<>> /\ reader[c] = "recv"
        /\ queue' = Append(queue, e)
        /\ out' = [out EXCEPT ![c] = Tail(@)]
        /\ reader' = [reader EXCEPT ![c] = "notify"]
        /\ UNCHANGED <<decision, hand, table, client, writing, asked, due>>
    BY DEF Receive, history
  <1>2. out[c] \in Seq(Frames)
    BY DEF OrderInv, ServerTypes
  <1>3. /\ out'[c] = Tail(out[c]) /\ out'[c] \in Seq(Frames)
        /\ k \in Nat /\ k > 0 /\ DOMAIN out[c] = 1 .. k
        /\ DOMAIN out'[c] = 1 .. k - 1
        /\ \A i \in DOMAIN out'[c] : out'[c][i] = out[c][i + 1]
        /\ f = out[c][1] /\ f \in Frames
    BY <1>1, <1>2, TailFacts DEF OrderInv, ServerTypes
  <1>4. \A d \in Clients \ {c} : out'[d] = out[d] /\ reader'[d] = reader[d]
    BY <1>1 DEF OrderInv, ServerTypes, Readers
  <1>5. f.kind \in Kinds /\ f.number \in Nat
    BY <1>3 DEF Frames
  <1> HIDE DEF f, k
  <1>6. /\ e \in Entries /\ e.conn = c /\ e.kind = f.kind /\ e.number = f.number
        /\ e.kind # "closed"
    BY <1>5, ServerAssumption DEF Inbound, Entries, Owed
  <1> HIDE DEF e
  <1>7. /\ queue' \in Seq(Entries)
        /\ Len(queue) \in Nat /\ DOMAIN queue = 1 .. Len(queue)
        /\ DOMAIN queue' = 1 .. Len(queue) + 1
        /\ \A i \in DOMAIN queue : queue'[i] = queue[i]
        /\ queue'[Len(queue) + 1] = e
        /\ \A d, n : InQueue(d, n)' <=>
             InQueue(d, n) \/ (e.conn = d /\ e.kind \in Owed /\ e.number = n)
    BY <1>1, <1>6, Pushed DEF OrderInv
  <1>8. ServerTypes' /\ HandShape'
    BY <1>1, <1>3, <1>7 DEF OrderInv, ServerTypes, Readers, HandShape
  <1>9. ASSUME NEW d \in Clients PROVE Connected(d)'
    <2>1. Connected(d)
      BY DEF OrderInv
    <2>2. reader'[d] = reader[d] \/ (reader[d] = "recv" /\ reader'[d] = "notify" /\ d = c)
      BY <1>1, <1>4 DEF OrderInv, ServerTypes, Readers
    <2>3. \A n : InHand(d, n)' <=> InHand(d, n)
      BY <1>1 DEF InHand
    <2>4. reader[d] # "recv" => d # c
      BY <1>1
    <2>5. \A n : InHand(d, n)' \/ InQueue(d, n)' => d \in table'
      BY <1>1, <1>6, <1>7, <2>1, <2>3 DEF Connected
    <2>6. \A i, j \in DOMAIN queue' :
            i < j /\ queue'[i].conn = d /\ queue'[i].kind = "closed" => ~OwedEntry(d, j)'
      BY <1>1, <1>6, <1>7, <2>1, <2>4 DEF Connected, OwedEntry
    <2>7. reader'[d] = "none" =>
            \A i \in DOMAIN queue' :
              queue'[i].conn = d => queue'[i].kind \notin Owed \cup {"closed"}
      BY <1>6, <1>7, <2>1, <2>2, <2>4 DEF Connected
    <2>8. reader'[d] \notin {"none", "last", "ended"} =>
            /\ d \in table'
            /\ \A i \in DOMAIN queue' : queue'[i].conn = d => queue'[i].kind # "closed"
      BY <1>1, <1>6, <1>7, <2>1, <2>2 DEF Connected
    <2> QED
      BY <2>5, <2>6, <2>7, <2>8 DEF Connected
  <1>10. ASSUME NEW d \in Clients \ {c}, client'[d] # "gone"
         PROVE  Ascending(d)' /\ Listed(d)'
    <2>1. Ascending(d) /\ Listed(d)
      BY <1>1, <1>10 DEF OrderInv
    <2>2. \A n : /\ InHand(d, n)' <=> InHand(d, n)
                 /\ InQueue(d, n)' <=> InQueue(d, n)
                 /\ InSocket(d, n)' <=> InSocket(d, n)
                 /\ OwedTo(d, n)' <=> OwedTo(d, n)
      <3>1. \A n : InQueue(d, n)' <=> InQueue(d, n)
        BY <1>6, <1>7, <1>10
      <3> QED
        BY <1>1, <1>4, <1>10, <3>1 DEF InHand, InSocket, OwedTo
    <2>3. \A i, j \in DOMAIN queue' :
            i < j /\ OwedEntry(d, i)' /\ OwedEntry(d, j)' =>
              queue'[i].number < queue'[j].number
      BY <1>6, <1>7, <1>10, <2>1 DEF Ascending, OwedEntry
    <2>4. Ascending(d)'
      BY <1>1, <1>4, <1>10, <2>1, <2>2, <2>3 DEF Ascending
    <2>5. Listed(d)'
      BY <1>1, <2>1, <2>2 DEF Listed, Pending
    <2> QED
      BY <2>4, <2>5
  <1>11. ASSUME client'[c] # "gone" PROVE Ascending(c)' /\ Listed(c)'
    <2>1. Ascending(c) /\ Listed(c)
      BY <1>1, <1>11 DEF OrderInv
    <2>2. \A n : /\ InHand(c, n)' <=> InHand(c, n)
                 /\ OwedTo(c, n)' <=> OwedTo(c, n)
                 /\ InQueue(c, n)' <=> InQueue(c, n) \/ (f.kind \in Owed /\ f.number = n)
      <3>1. \A n : InQueue(c, n)' <=> InQueue(c, n) \/ (f.kind \in Owed /\ f.number = n)
        BY <1>6, <1>7
      <3> QED
        BY <1>1, <3>1 DEF InHand, OwedTo
    <2>3. \A n : InSocket(c, n) <=> InSocket(c, n)' \/ (f.kind \in Owed /\ f.number = n)
      <3>1. ASSUME NEW i \in DOMAIN out[c] PROVE i = 1 \/ i - 1 \in DOMAIN out'[c]
        BY <1>3
      <3>2. \A i \in DOMAIN out'[c] : i + 1 \in DOMAIN out[c]
        BY <1>3
      <3>3. \A i \in DOMAIN out[c] : i # 1 => out'[c][i - 1] = out[c][i]
        BY <1>3, <3>1
      <3>4. 1 \in DOMAIN out[c]
        BY <1>3
      <3>5. ASSUME NEW n, InSocket(c, n)
            PROVE  InSocket(c, n)' \/ (f.kind \in Owed /\ f.number = n)
        <4>1. PICK i \in DOMAIN out[c] : out[c][i].kind \in Owed /\ out[c][i].number = n
          BY <3>5 DEF InSocket
        <4>2. CASE i = 1
          BY <1>3, <4>1, <4>2
        <4>3. CASE i # 1
          BY <3>1, <3>3, <4>1, <4>3 DEF InSocket
        <4> QED
          BY <4>2, <4>3
      <3>6. ASSUME NEW n, InSocket(c, n)' PROVE InSocket(c, n)
        <4>1. PICK i \in DOMAIN out'[c] : out'[c][i].kind \in Owed /\ out'[c][i].number = n
          BY <3>6 DEF InSocket
        <4> QED
          BY <1>3, <3>2, <4>1 DEF InSocket
      <3>7. f.kind \in Owed => InSocket(c, f.number)
        BY <1>3, <3>4 DEF InSocket
      <3> QED
        BY <3>5, <3>6, <3>7
    <2>4. \A n : f.kind \in Owed /\ InSocket(c, n)' => f.number < n
      BY <1>3, <2>1 DEF InSocket, Ascending
    <2>5. f.kind \in Owed => InSocket(c, f.number)
      BY <2>3
    <2>6. Listed(c)'
      BY <1>1, <2>1, <2>2, <2>3 DEF Listed, Pending
    <2>7. \A i, j \in DOMAIN queue' :
            i < j /\ OwedEntry(c, i)' /\ OwedEntry(c, j)' =>
              queue'[i].number < queue'[j].number
      <3>1. \A i \in DOMAIN queue :
              OwedEntry(c, i) /\ f.kind \in Owed => queue[i].number < f.number
        BY <2>1, <2>5 DEF Ascending, InQueue
      <3> QED
        BY <1>6, <1>7, <2>1, <3>1 DEF Ascending, OwedEntry
    <2>8. \A i, j \in DOMAIN out'[c] :
            i < j /\ out'[c][i].kind \in Owed /\ out'[c][j].kind \in Owed
              => out'[c][i].number < out'[c][j].number
      <3> TAKE i, j \in DOMAIN out'[c]
      <3>1. /\ i + 1 \in DOMAIN out[c] /\ j + 1 \in DOMAIN out[c]
            /\ i < j => i + 1 < j + 1
            /\ out'[c][i] = out[c][i + 1] /\ out'[c][j] = out[c][j + 1]
        BY <1>3, SMTT(30)
      <3> QED
        BY <2>1, <3>1 DEF Ascending
    <2>9. /\ \A n, m : InHand(c, n)' /\ (InQueue(c, m)' \/ InSocket(c, m)') => n < m
          /\ \A n, m : InQueue(c, n)' /\ InSocket(c, m)' => n < m
      BY <2>1, <2>2, <2>3, <2>4 DEF Ascending
    <2>10. Ascending(c)'
      BY <1>1, <2>1, <2>7, <2>8, <2>9 DEF Ascending
    <2> QED
      BY <2>6, <2>10
  <1> QED
    BY <1>8, <1>9, <1>10, <1>11 DEF OrderInv

\* What the taken entry leads to: its answer, behind at most one other frame.
LEMMA SendsShape ==
  ASSUME ServerTypes, NEW i \in Entries, NEW s \in SendsFor(i)
  PROVE  \/ s = <<>> /\ i.kind \notin Owed
         \/ /\ i.kind \in Owed /\ i.conn \in Clients
            /\ s = <<[to |-> i.conn, number |-> i.number]>>
         \/ /\ i.kind \in Owed /\ i.conn \in Clients
            /\ s \in Seq(Sends) /\ Len(s) = 2
            /\ s[1].number = 0 /\ s[2] = [to |-> i.conn, number |-> i.number]
  <1> DEFINE a == [to |-> i.conn, number |-> i.number]
  <1>1. i.kind \in Owed => i.conn \in Clients
    BY DEF Entries
  <1>2. CASE i.kind \notin Owed
    BY <1>2 DEF SendsFor, Owed
  <1>3. CASE i.kind \in Owed /\ s = <<a>>
    BY <1>1, <1>3
  <1>4. CASE i.kind \in Owed /\ s # <<a>>
    <2>1. i.kind = "pass"
      BY <1>4 DEF SendsFor, Owed
    <2>2. PICK d \in table : s = <<[to |-> d, number |-> 0]>> \o <<a>>
      BY <1>4, <2>1 DEF SendsFor
    <2> DEFINE b == [to |-> d, number |-> 0]
    <2>3. a \in Sends /\ b \in Sends /\ b.number = 0
      BY <1>1, <1>4 DEF Sends, Entries, ServerTypes
    <2> HIDE DEF a, b
    <2>4. <<a>> \in Seq(Sends) /\ <<b>> \in Seq(Sends)
      BY <2>3
    <2>5. /\ s \in Seq(Sends) /\ Len(s) = 2
          /\ s[1] = b /\ s[2] = a
      BY <2>2, <2>4 DEF b
    <2> QED
      BY <1>1, <1>4, <2>3, <2>5 DEF a
  <1> QED
    BY <1>2, <1>3, <1>4

\* The oldest entry is taken: if it is owed an answer the answer is now in hand.
LEMMA OrderTake ==
  ASSUME OrderInv, Take
  PROVE  OrderInv'
  <1> DEFINE e == Head(queue)
             k == Len(queue)
  <1>1. /\ queue # <<>> /\ queue' = Tail(queue)
        /\ decision = "test" /\ hand' \in SendsFor(e)
        /\ table' = IF e.kind = "closed" THEN table \ {e.conn} ELSE table
        /\ decision' = IF hand' = <<>> THEN "test" ELSE "send"
        /\ UNCHANGED <<reader, client, writing, out, asked, due>>
    BY DEF Take, sockets, history
  <1>2. /\ queue' \in Seq(Entries)
        /\ k \in Nat /\ k > 0 /\ DOMAIN queue = 1 .. k
        /\ DOMAIN queue' = 1 .. k - 1
        /\ \A i \in DOMAIN queue' : queue'[i] = queue[i + 1]
        /\ e = queue[1] /\ e \in Entries
    BY <1>1, TailFacts DEF OrderInv, ServerTypes
  <1>3. hand = <<>>
    BY <1>1 DEF OrderInv, HandShape
  <1> HIDE DEF e, k
  <1>4. \/ hand' = <<>> /\ e.kind \notin Owed
        \/ /\ e.kind \in Owed /\ e.conn \in Clients
           /\ hand' = <<[to |-> e.conn, number |-> e.number]>>
        \/ /\ e.kind \in Owed /\ e.conn \in Clients
           /\ hand' \in Seq(Sends) /\ Len(hand') = 2
           /\ hand'[1].number = 0 /\ hand'[2] = [to |-> e.conn, number |-> e.number]
    BY <1>1, <1>2, SendsShape DEF OrderInv
  <1>5. e.number \in Nat /\ (e.kind \in Owed => e.kind # "closed")
    BY <1>2 DEF Entries, Owed
  <1>6. ServerTypes' /\ HandShape'
    <2>1. table' \subseteq Clients
      BY <1>1 DEF OrderInv, ServerTypes
    <2>2. hand' \in Seq(Sends) /\ HandShape'
      <3>1. CASE hand' = <<>>
        BY <1>1, <3>1 DEF HandShape
      <3>2. CASE e.conn \in Clients /\ hand' = <<[to |-> e.conn, number |-> e.number]>>
        BY <1>1, <1>5, <3>2 DEF HandShape, Sends
      <3>3. CASE hand' \in Seq(Sends) /\ Len(hand') = 2 /\ hand'[1].number = 0
        <4>1. hand' # <<>>
          BY <3>3, SMTT(30)
        <4>2. decision' = "send" /\ Len(hand') \in 1 .. 2
          BY <1>1, <3>3, <4>1
        <4> QED
          BY <3>3, <4>2 DEF HandShape
      <3> QED
        BY <1>4, <3>1, <3>2, <3>3
    <2> QED
      BY <1>1, <1>2, <2>1, <2>2 DEF OrderInv, ServerTypes, Readers
  <1>7. \A c, n : ~InHand(c, n)
    BY <1>3 DEF InHand
  <1>8. \A c, n : InHand(c, n)' <=> n # 0 /\ e.kind \in Owed /\ e.conn = c /\ e.number = n
    <2>1. CASE hand' = <<>> /\ e.kind \notin Owed
      BY <2>1 DEF InHand
    <2>2. CASE e.kind \in Owed /\ hand' = <<[to |-> e.conn, number |-> e.number]>>
      BY <2>2 DEF InHand
    <2>3. CASE /\ e.kind \in Owed /\ hand' \in Seq(Sends) /\ Len(hand') = 2
               /\ hand'[1].number = 0 /\ hand'[2] = [to |-> e.conn, number |-> e.number]
      <3>1. /\ DOMAIN hand' = {1, 2}
            /\ hand'[1].number = 0
            /\ hand'[2].to = e.conn /\ hand'[2].number = e.number
        BY <2>3
      <3> QED
        BY <2>3, <3>1 DEF InHand
    <2> QED
      BY <1>4, <2>1, <2>2, <2>3
  <1>9. /\ 1 \in DOMAIN queue
        /\ \A i \in DOMAIN queue' : i + 1 \in DOMAIN queue
        /\ \A i \in DOMAIN queue : i = 1 \/ (i - 1 \in DOMAIN queue' /\ queue'[i - 1] = queue[i])
    BY <1>2
  <1>10. \A c, n : InQueue(c, n) <=>
            InQueue(c, n)' \/ (e.kind \in Owed /\ e.conn = c /\ e.number = n)
    <2>1. ASSUME NEW c, NEW n, InQueue(c, n)
          PROVE  InQueue(c, n)' \/ (e.kind \in Owed /\ e.conn = c /\ e.number = n)
      <3>1. PICK i \in DOMAIN queue : OwedEntry(c, i) /\ queue[i].number = n
        BY <2>1 DEF InQueue
      <3>2. CASE i = 1
        BY <1>2, <3>1, <3>2 DEF OwedEntry
      <3>3. CASE i # 1
        BY <1>9, <3>1, <3>3 DEF InQueue, OwedEntry
      <3> QED
        BY <3>2, <3>3
    <2>2. ASSUME NEW c, NEW n, InQueue(c, n)' PROVE InQueue(c, n)
      <3>1. PICK i \in DOMAIN queue' : OwedEntry(c, i)' /\ queue'[i].number = n
        BY <2>2 DEF InQueue
      <3> QED
        BY <1>2, <1>9, <3>1 DEF InQueue, OwedEntry
    <2>3. e.kind \in Owed => InQueue(e.conn, e.number)
      BY <1>2, <1>9 DEF InQueue, OwedEntry
    <2> QED
      BY <2>1, <2>2, <2>3
  <1>11. ASSUME NEW c \in Clients PROVE Connected(c)'
    <2>1. Connected(c)
      BY DEF OrderInv
    <2>2. reader'[c] = "none" =>
            \A i \in DOMAIN queue' :
              queue'[i].conn = c => queue'[i].kind \notin Owed \cup {"closed"}
      BY <1>1, <1>2, <1>9, <2>1 DEF Connected
    <2>3. reader'[c] \notin {"none", "last", "ended"} =>
            /\ c \in table'
            /\ \A i \in DOMAIN queue' : queue'[i].conn = c => queue'[i].kind # "closed"
      BY <1>1, <1>2, <1>9, <2>1 DEF Connected
    <2>4. ASSUME NEW n, InHand(c, n)' \/ InQueue(c, n)' PROVE c \in table'
      <3>1. InQueue(c, n) /\ c \in table
        BY <1>8, <1>10, <2>1, <2>4 DEF Connected
      <3>2. CASE e.kind = "closed" /\ e.conn = c
        <4>1. InQueue(c, n)'
          BY <1>5, <1>8, <2>4, <3>2
        <4>2. PICK i \in DOMAIN queue' : OwedEntry(c, i)'
          BY <4>1 DEF InQueue
        <4>3. i + 1 \in DOMAIN queue /\ 1 < i + 1 /\ OwedEntry(c, i + 1)
          BY <1>2, <1>9, <4>2 DEF OwedEntry
        <4> QED
          BY <1>2, <1>9, <2>1, <3>2, <4>3 DEF Connected
      <3> QED
        BY <1>1, <3>1, <3>2
    <2>5. ASSUME NEW i \in DOMAIN queue', NEW j \in DOMAIN queue', i < j,
                 queue'[i].conn = c, queue'[i].kind = "closed"
          PROVE  ~OwedEntry(c, j)'
      <3>1. /\ i + 1 \in DOMAIN queue /\ j + 1 \in DOMAIN queue /\ i + 1 < j + 1
            /\ queue'[i] = queue[i + 1] /\ queue'[j] = queue[j + 1]
        BY <1>2, <2>5
      <3> QED
        BY <2>1, <2>5, <3>1 DEF Connected, OwedEntry
    <2> QED
      BY <2>2, <2>3, <2>4, <2>5 DEF Connected
  <1>12. ASSUME NEW c \in Clients, client'[c] # "gone" PROVE Ascending(c)' /\ Listed(c)'
    <2>1. Ascending(c) /\ Listed(c)
      BY <1>1, <1>12 DEF OrderInv
    <2>2. \A n : (InSocket(c, n)' <=> InSocket(c, n)) /\ (OwedTo(c, n)' <=> OwedTo(c, n))
      BY <1>1 DEF InSocket, OwedTo
    <2>3. \A n : InQueue(c, n) => n # 0
      BY <2>1 DEF Listed, Pending
    <2>4. Listed(c)'
      <3>1. \A n : Pending(c, n)' <=> Pending(c, n)
        BY <1>7, <1>8, <1>10, <2>2, <2>3 DEF Pending
      <3> QED
        BY <1>1, <2>1, <2>2, <3>1 DEF Listed
    <2>5. \A i, j \in DOMAIN queue' :
            i < j /\ OwedEntry(c, i)' /\ OwedEntry(c, j)' =>
              queue'[i].number < queue'[j].number
      <3> TAKE i, j \in DOMAIN queue'
      <3>1. /\ i + 1 \in DOMAIN queue /\ j + 1 \in DOMAIN queue
            /\ i < j => i + 1 < j + 1
            /\ queue'[i] = queue[i + 1] /\ queue'[j] = queue[j + 1]
        BY <1>2
      <3> QED
        BY <2>1, <3>1 DEF Ascending, OwedEntry
    <2>6. ASSUME NEW n, NEW m, InHand(c, n)', InQueue(c, m)' PROVE n < m
      <3>1. PICK i \in DOMAIN queue' : OwedEntry(c, i)' /\ queue'[i].number = m
        BY <2>6 DEF InQueue
      <3>2. i + 1 \in DOMAIN queue /\ 1 < i + 1 /\ queue'[i] = queue[i + 1]
        BY <1>2
      <3>3. OwedEntry(c, 1) /\ queue[1].number = n
        BY <1>2, <1>8, <2>6 DEF OwedEntry
      <3> QED
        BY <1>9, <2>1, <3>1, <3>2, <3>3 DEF Ascending, OwedEntry
    <2>7. /\ \A n, m : InHand(c, n)' /\ InSocket(c, m)' => n < m
          /\ \A n, m : InQueue(c, n)' /\ InSocket(c, m)' => n < m
      BY <1>8, <1>10, <2>1, <2>2 DEF Ascending
    <2>8. Ascending(c)'
      BY <1>1, <2>1, <2>5, <2>6, <2>7 DEF Ascending
    <2> QED
      BY <2>4, <2>8
  <1> QED
    BY <1>6, <1>11, <1>12 DEF OrderInv

\* The first send in hand, and what is left when it is done.
LEMMA HandRest ==
  ASSUME OrderInv, decision = "sending", Sent
  PROVE  /\ Head(hand) \in Sends /\ HandShape' /\ hand' \in Seq(Sends)
         /\ \A c, n : InHand(c, n) <=>
              InHand(c, n)' \/ (n # 0 /\ Head(hand).to = c /\ Head(hand).number = n)
         /\ Head(hand).number # 0 => \A c, n : ~InHand(c, n)'
  <1>1. /\ Len(hand) \in 1 .. 2 /\ hand \in Seq(Sends)
        /\ Len(hand) = 2 => hand[1].number = 0
    BY DEF OrderInv, ServerTypes, HandShape
  <1>2. /\ hand # <<>> /\ hand' = Tail(hand)
        /\ decision' = IF hand' = <<>> THEN "test" ELSE "send"
    BY <1>1 DEF Sent
  <1>3. /\ hand' \in Seq(Sends)
        /\ DOMAIN hand = 1 .. Len(hand)
        /\ DOMAIN hand' = 1 .. Len(hand) - 1
        /\ \A i \in DOMAIN hand' : hand'[i] = hand[i + 1]
        /\ Head(hand) = hand[1] /\ Head(hand) \in Sends
    BY <1>1, <1>2, TailFacts
  <1>4. CASE Len(hand) = 1
    <2>1. hand' = <<>> /\ DOMAIN hand = {1}
      BY <1>1, <1>2, <1>3, <1>4
    <2> QED
      BY <1>2, <1>3, <2>1 DEF HandShape, InHand
  <1>5. CASE Len(hand) = 2
    <2>1. Len(hand') = 1 /\ DOMAIN hand = {1, 2} /\ DOMAIN hand' = {1} /\ hand'[1] = hand[2]
      BY <1>1, <1>2, <1>3, <1>5
    <2>2. hand' # <<>> /\ Head(hand).number = 0
      BY <1>1, <1>3, <1>5, <2>1
    <2>3. HandShape'
      <3>1. decision' = "send"
        BY <1>2, <2>2, Zenon
      <3>2. Len(hand') \in 1 .. 2 /\ Len(hand') # 2
        BY <2>1
      <3> QED
        BY <3>1, <3>2 DEF HandShape
    <2>4. ASSUME NEW c, NEW n
          PROVE  InHand(c, n) <=>
                   InHand(c, n)' \/ (n # 0 /\ Head(hand).to = c /\ Head(hand).number = n)
      <3>1. InHand(c, n) <=> n # 0 /\ hand[2].to = c /\ hand[2].number = n
        <4>1. hand[1].number = 0
          BY <1>1, <1>5
        <4> QED
          BY <2>1, <4>1 DEF InHand
      <3>2. InHand(c, n)' <=> n # 0 /\ hand[2].to = c /\ hand[2].number = n
        BY <2>1 DEF InHand
      <3> QED
        BY <2>2, <3>1, <3>2
    <2> QED
      BY <1>3, <2>2, <2>3, <2>4
  <1> QED
    BY <1>1, <1>4, <1>5

\* A send that fails is one to a client that is gone, or of a frame passed on.
LEMMA OrderFails ==
  ASSUME OrderInv, SendFails
  PROVE  OrderInv'
  <1> DEFINE h == Head(hand)
  <1>1. /\ decision = "sending" /\ Sent
        /\ h.to \notin table \/ client[h.to] # "up"
        /\ UNCHANGED <<reader, queue, table, client, writing, out, asked, due>>
    BY DEF SendFails, sockets, history
  <1>2. /\ h \in Sends /\ HandShape' /\ hand' \in Seq(Sends)
        /\ \A c, n : InHand(c, n) <=>
             InHand(c, n)' \/ (n # 0 /\ h.to = c /\ h.number = n)
    BY <1>1, HandRest
  <1> HIDE DEF h
  <1>3. ServerTypes'
    BY <1>1, <1>2 DEF OrderInv, ServerTypes, Readers
  <1>4. \A c, n : /\ InQueue(c, n)' <=> InQueue(c, n)
                  /\ InSocket(c, n)' <=> InSocket(c, n)
                  /\ OwedTo(c, n)' <=> OwedTo(c, n)
    BY <1>1 DEF InQueue, OwedEntry, InSocket, OwedTo
  <1>5. ASSUME NEW c \in Clients PROVE Connected(c)'
    <2>1. Connected(c)
      BY DEF OrderInv
    <2>2. \A n : InHand(c, n)' \/ InQueue(c, n)' => c \in table'
      BY <1>1, <1>2, <1>4, <2>1 DEF Connected
    <2> QED
      BY <1>1, <2>1, <2>2 DEF Connected, OwedEntry
  <1>6. ASSUME NEW c \in Clients, client'[c] # "gone" PROVE Ascending(c)' /\ Listed(c)'
    <2>1. Ascending(c) /\ Listed(c) /\ Connected(c)
      BY <1>1, <1>6 DEF OrderInv
    <2>2. \A n : InHand(c, n)' <=> InHand(c, n)
      <3>1. SUFFICES ASSUME h.to = c, h.number # 0 PROVE FALSE
        BY <1>2
      <3>2. InHand(c, h.number)
        BY <1>2, <3>1
      <3>3. c \in table /\ client[c] = "none"
        BY <1>1, <1>6, <2>1, <3>1, <3>2 DEF Connected, OrderInv, ServerTypes
      <3>4. OwedTo(c, h.number) /\ asked[c] = 0
        BY <2>1, <3>2, <3>3 DEF Listed, Pending, OrderInv, ServerTypes
      <3> QED
        BY <2>1, <3>4 DEF Listed
    <2>3. Ascending(c)'
      BY <1>1, <1>4, <2>1, <2>2 DEF Ascending, OwedEntry
    <2>4. Listed(c)'
      BY <1>1, <1>4, <2>1, <2>2 DEF Listed, Pending
    <2> QED
      BY <2>3, <2>4
  <1> QED
    BY <1>2, <1>3, <1>5, <1>6 DEF OrderInv

\* The answer in hand is that of the oldest request that is owed one.
LEMMA OldestInHand ==
  ASSUME OrderInv, decision = "sending", Head(hand).number # 0,
         client[Head(hand).to] # "gone"
  PROVE  LET h == Head(hand)
         IN  due[h.to] # <<>> /\ Head(due[h.to]) = h.number
  <1> DEFINE h == Head(hand)
             c == h.to
  <1>1. /\ Len(hand) = 1 /\ hand \in Seq(Sends) /\ hand # <<>>
        /\ h = hand[1] /\ h \in Sends
    BY TailFacts DEF OrderInv, ServerTypes, HandShape
  <1>2. c \in Clients /\ Ascending(c) /\ Listed(c) /\ due[c] \in Seq(Nat)
    BY <1>1 DEF OrderInv, ServerTypes, Sends
  <1>3. \A n : InHand(c, n) <=> n = h.number
    BY <1>1 DEF InHand
  <1> HIDE DEF h, c
  <1>4. OwedTo(c, h.number)
    BY <1>2, <1>3 DEF Listed, Pending
  <1>5. PICK i \in DOMAIN due[c] : due[c][i] = h.number
    BY <1>4 DEF OwedTo
  <1>6. due[c] # <<>> /\ 1 \in DOMAIN due[c] /\ Head(due[c]) = due[c][1]
    BY <1>2, <1>5
  <1>7. Pending(c, due[c][1])
    BY <1>2, <1>6 DEF Listed, OwedTo
  <1>8. due[c][1] = h.number \/ h.number < due[c][1]
    BY <1>2, <1>3, <1>7 DEF Pending, Ascending
  <1>9. i \in Nat /\ i >= 1 /\ due[c][1] \in Nat /\ h.number \in Nat
    BY <1>2, <1>5, <1>6
  <1>10. i = 1 \/ due[c][1] < h.number
    BY <1>2, <1>5, <1>6, <1>9 DEF Ascending
  <1>11. due[c][1] = h.number
    BY <1>5, <1>8, <1>9, <1>10
  <1> QED
    BY <1>6, <1>11 DEF h, c

\* An answer that is sent is struck from the list, of which it was the first.
LEMMA OrderCompletes ==
  ASSUME OrderInv, SendCompletes
  PROVE  OrderInv'
  <1>1. Head(hand) \in Sends
    BY HandRest DEF SendCompletes
  <1>2. PICK h \in Sends : h = Head(hand)
    BY <1>1
  <1>3. PICK c \in Clients : c = h.to
    BY <1>1 DEF Sends
  <1> DEFINE l == Len(due[c])
  <1>4. /\ decision = "sending" /\ Sent /\ c \in table /\ client[c] = "up"
        /\ due' = IF h.number = 0 THEN due ELSE [due EXCEPT ![c] = Tail(@)]
        /\ UNCHANGED <<reader, queue, table, client, writing, out, asked>>
    BY <1>2, <1>3 DEF SendCompletes
  <1>5. /\ HandShape' /\ hand' \in Seq(Sends)
        /\ \A d, n : InHand(d, n) <=>
             InHand(d, n)' \/ (n # 0 /\ c = d /\ h.number = n)
        /\ h.number # 0 => \A d, n : ~InHand(d, n)'
    BY <1>2, <1>3, <1>4, HandRest
  <1>6. h.number # 0 =>
          /\ due[c] # <<>> /\ Head(due[c]) = h.number
          /\ due[c] \in Seq(Nat)
          /\ due'[c] = Tail(due[c])
    BY <1>2, <1>3, <1>4, OldestInHand DEF OrderInv, ServerTypes
  <1>7. h.number # 0 =>
          /\ due'[c] \in Seq(Nat) /\ l \in Nat /\ l > 0
          /\ DOMAIN due[c] = 1 .. l /\ DOMAIN due'[c] = 1 .. l - 1
          /\ \A i \in DOMAIN due'[c] : due'[c][i] = due[c][i + 1]
          /\ due[c][1] = h.number
    <2>1. CASE h.number # 0
      <3>1. due[c] \in Seq(Nat) /\ due[c] # <<>> /\ Head(due[c]) = h.number
        BY <1>6, <2>1
      <3>2. /\ Tail(due[c]) \in Seq(Nat) /\ l \in Nat /\ l > 0
            /\ DOMAIN due[c] = 1 .. l /\ DOMAIN Tail(due[c]) = 1 .. l - 1
            /\ \A i \in DOMAIN Tail(due[c]) : Tail(due[c])[i] = due[c][i + 1]
            /\ due[c][1] = h.number
        BY <3>1, TailFacts
      <3>3. due'[c] = Tail(due[c])
        BY <1>6, <2>1
      <3> HIDE DEF l
      <3> QED
        BY <3>2, <3>3
    <2> QED
      BY <2>1
  <1>8. \A d \in Clients : d # c \/ h.number = 0 => due'[d] = due[d]
    BY <1>4 DEF OrderInv, ServerTypes
  <1> HIDE DEF l
  <1>9. ServerTypes'
    BY <1>4, <1>5, <1>7 DEF OrderInv, ServerTypes, Readers
  <1>10. \A d, n : /\ InQueue(d, n)' <=> InQueue(d, n)
                   /\ InSocket(d, n)' <=> InSocket(d, n)
    BY <1>4 DEF InQueue, OwedEntry, InSocket
  <1>11. ASSUME NEW d \in Clients PROVE Connected(d)'
    <2>1. Connected(d)
      BY DEF OrderInv
    <2>2. \A n : InHand(d, n)' \/ InQueue(d, n)' => d \in table'
      BY <1>4, <1>5, <1>10, <2>1 DEF Connected
    <2> QED
      BY <1>4, <2>1, <2>2 DEF Connected, OwedEntry
  <1>12. ASSUME NEW d \in Clients, client'[d] # "gone", d # c \/ h.number = 0
        PROVE  Ascending(d)' /\ Listed(d)'
    <2>1. Ascending(d) /\ Listed(d)
      BY <1>4, <1>12 DEF OrderInv
    <2>2. \A n : (InHand(d, n)' <=> InHand(d, n)) /\ (OwedTo(d, n)' <=> OwedTo(d, n))
      BY <1>5, <1>8, <1>12 DEF OwedTo
    <2>3. Ascending(d)'
      BY <1>4, <1>8, <1>10, <1>12, <2>1, <2>2 DEF Ascending, OwedEntry
    <2>4. Listed(d)'
      BY <1>4, <1>10, <2>1, <2>2 DEF Listed, Pending
    <2> QED
      BY <2>3, <2>4
  <1>13. ASSUME h.number # 0 PROVE Ascending(c)' /\ Listed(c)'
    <2>1. Ascending(c) /\ Listed(c)
      BY <1>4, <1>5 DEF OrderInv
    <2>2. /\ 1 \in DOMAIN due[c]
          /\ \A i \in DOMAIN due'[c] : i + 1 \in DOMAIN due[c] /\ 1 < i + 1
          /\ \A i \in DOMAIN due[c] :
               i = 1 \/ (i - 1 \in DOMAIN due'[c] /\ due'[c][i - 1] = due[c][i])
      BY <1>7, <1>13, SMTT(30)
    <2>3. \A i \in DOMAIN due'[c] : h.number < due'[c][i]
      BY <1>7, <1>13, <2>1, <2>2 DEF Ascending
    <2>4. ASSUME NEW n PROVE OwedTo(c, n)' <=> OwedTo(c, n) /\ n # h.number
      <3>1. ASSUME OwedTo(c, n)' PROVE OwedTo(c, n) /\ n # h.number
        <4>1. PICK i \in DOMAIN due'[c] : due'[c][i] = n
          BY <3>1 DEF OwedTo
        <4>2. n \in Nat /\ h.number \in Nat /\ h.number < n
          BY <1>5, <1>7, <1>13, <2>3, <4>1, SMTT(30) DEF Sends
        <4> QED
          BY <1>7, <1>13, <2>2, <4>1, <4>2, SMTT(30) DEF OwedTo
      <3>2. ASSUME OwedTo(c, n), n # h.number PROVE OwedTo(c, n)'
        <4>1. PICK i \in DOMAIN due[c] : due[c][i] = n
          BY <3>2 DEF OwedTo
        <4>2. i # 1
          BY <1>7, <1>13, <3>2, <4>1
        <4> QED
          BY <2>2, <4>1, <4>2 DEF OwedTo
      <3> QED
        BY <3>1, <3>2
    <2>5. ASSUME NEW n PROVE Pending(c, n)' <=> Pending(c, n) /\ n # h.number
      <3>1. InHand(c, h.number)
        BY <1>5, <1>13
      <3>2. h.number \in Nat /\ ~(h.number < h.number)
        BY <1>5 DEF Sends
      <3>3. ~InQueue(c, h.number) /\ ~InSocket(c, h.number)
        BY <2>1, <3>1, <3>2 DEF Ascending
      <3> QED
        BY <1>5, <1>10, <1>13, <3>3 DEF Pending
    <2>6. Listed(c)'
      BY <1>4, <2>1, <2>4, <2>5 DEF Listed
    <2>7. \A i, j \in DOMAIN due'[c] : i < j => due'[c][i] < due'[c][j]
      <3> TAKE i, j \in DOMAIN due'[c]
      <3>1. /\ i + 1 \in DOMAIN due[c] /\ j + 1 \in DOMAIN due[c]
            /\ i < j => i + 1 < j + 1
            /\ due'[c][i] = due[c][i + 1] /\ due'[c][j] = due[c][j + 1]
        BY <1>7, <1>13, SMTT(30)
      <3> QED
        BY <2>1, <3>1 DEF Ascending
    <2>8. Ascending(c)'
      BY <1>4, <1>5, <1>10, <1>13, <2>1, <2>7 DEF Ascending, OwedEntry
    <2> QED
      BY <2>6, <2>8
  <1>14. ASSUME NEW d \in Clients, client'[d] # "gone" PROVE Ascending(d)' /\ Listed(d)'
    BY <1>12, <1>13, <1>14
  <1> QED
    BY <1>5, <1>9, <1>11, <1>14 DEF OrderInv

\* Every step keeps the answers in order.
LEMMA OrderNext ==
  ASSUME OrderInv, [VNext]_vvars
  PROVE  OrderInv'
  <1>1. ASSUME NEW c \in Clients, ClientStep(c) PROVE OrderInv'
    <2>1. CASE Read(c)
      BY <2>1, Untouched DEF Read, threads, history, OrderInv, HandShape
    <2> QED
      BY <1>1, <2>1, OrderBegin, OrderSend, OrderLeave DEF ClientStep
  <1>2. ASSUME NEW c \in Clients, ReaderStep(c) PROVE OrderInv'
    BY <1>2, OrderReceive, OrderEnds, OrderNotify DEF ReaderStep
  <1>3. CASE AcceptorStep
    <2>1. CASE AcceptFails
      BY <2>1, Untouched DEF AcceptFails, sockets, history, OrderInv, HandShape
    <2> QED
      BY <1>3, <2>1, OrderAccept DEF AcceptorStep
  <1>4. CASE DecisionStep \/ SpuriousWakeup
    <2>1. CASE Wait \/ Lock \/ SpuriousWakeup
      <3>1. /\ UNCHANGED <<reader, hand, queue, table, client, writing, out, asked, due>>
            /\ \/ decision = "test" /\ decision' = "asleep"
               \/ decision = "send" /\ decision' = "sending"
               \/ decision = "asleep" /\ decision' = "test"
        BY <2>1 DEF Wait, Lock, SpuriousWakeup, sockets, history
      <3>2. HandShape'
        BY <3>1 DEF OrderInv, HandShape
      <3> QED
        BY <3>1, <3>2, Untouched
    <2> QED
      BY <1>4, <2>1, OrderTake, OrderFails, OrderCompletes DEF DecisionStep
  <1>5. CASE StopBegins \/ StopStep
    <2>1. CASE StopBegins \/ CloseListener \/ StopNotifies
      <3>1. /\ UNCHANGED <<reader, hand, queue, table, client, writing, out, asked, due>>
            /\ \/ decision' = decision
               \/ decision = "asleep" /\ decision' = "test"
        BY <2>1 DEF StopBegins, CloseListener, StopNotifies, Woken, sockets, history
      <3>2. HandShape'
        BY <3>1 DEF OrderInv, HandShape
      <3> QED
        BY <3>1, <3>2, Untouched
    <2> QED
      BY <1>5, <2>1, OrderEnds DEF StopStep
  <1>6. CASE UNCHANGED vvars
    BY <1>6, Untouched DEF vvars, threads, sockets, history, OrderInv, HandShape
  <1> QED
    BY <1>1, <1>2, <1>3, <1>4, <1>5, <1>6 DEF VNext

\* The answer a client is about to be sent is that of its oldest request that
\* is owed one: socket, queue and decision thread keep the order of a
\* connection, whatever the others do (reader_loop, decision_loop and send_to
\* in coordinator.cpp), for any number of clients and any capacity.
THEOREM AnswersOrdered == VSpec => []AnswersInOrder
<1>1. OrderInv => AnswersInOrder
  BY OldestInHand DEF AnswersInOrder
<1>2. QED
  BY OrderInitially, OrderNext, <1>1, PTL DEF VSpec
=============================================================================
