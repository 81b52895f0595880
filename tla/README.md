# Execution Fabric: a TLA+ development

Execution Fabric decides, for each *logical execution*, which *physical
attempt* is authoritative while attempts are retried, cancelled, preempted,
resumed, lost with their worker or superseded, and lets at most one authorised
result commit. This directory models that authority and what carries it: the
engine that decides, the store that makes its records durable, the coordinator
process that joins the two and may die at any moment, the threads inside it,
the workers at the other end of its connections, and the bytes between them.
Paths below are relative to the repository root (`engine.cpp` is
`src/engine.cpp`).

## Inventory

| part | state | operations | talks to |
|---|---|---|---|
| engine (`engine.cpp`, `engine.hpp`) | `epoch_`, `records_` | create, activate, dispatch, mark_running, complete, cancel, finalize_cancel, preempt, acknowledge_preempt, mark_resumable, resume, mark_worker_lost, supersede, raise_epoch, replace_records | called by the coordinator, one call at a time |
| lifecycle tables, generations (`state_machine.hpp`, `generation.hpp`) | none | from, is_terminal, next | used by the engine |
| records, tickets, decisions (`record.hpp`, `authority.hpp`, `decision.hpp`) | data | none | tickets travel to workers and come back in START and COMPLETE |
| store (`persistence.cpp`) | snapshot file, temporary file | save, load | called by the coordinator |
| coordinator (`coordinator/`) | engine, store, its own `epoch_`, `conns_`, inbound `queue_` | one handler per frame type, on_conn_closed, constructor (recovery), start, stop | TCP clients: workers and controllers |
| worker (`worker/`) | connection, identity, boot id | run, on_worker_dispatch (START, work, COMPLETE) | the coordinator |
| protocol and transport (`protocol/`) | sockets | frame codec, send, receive | everyone |
| identities, digests, checksums, byte codec | none | pure functions | everyone |
| proof harness, CUDA executor, tools, tests, examples, benchmarks | none of the authority state | clients of the above | |

What is hard here:

- **Order of calls.** Any call may come at any time, under any epoch, with any
  ticket ever issued; the engine's ladders of checks are its only defence.
- **Refusals that have already written.** `dispatch`, `resume`, `supersede`
  and `complete` write to the record before the lifecycle table is asked.
- **Two lifecycles.** The result of every attempt transition is ignored, so the
  attempt's state may drift from the execution's.
- **Saturation.** Generations stop at 2^64 - 1; fencing must survive that.
- **Crash and recovery.** A ticket is sent before its record is saved, START is
  not saved at all, a save is several file-system steps, and a file with one
  record the decoder does not accept is refused as a whole.
- **Two epochs.** The coordinator keeps a copy of the epoch that the engine's
  own may overtake; the copy is what is saved and what loss reports carry.
- **Loss of a worker.** It is tracked in one slot per connection, reported
  under the coordinator's epoch and the boot id of the connection, and must
  neither overtake the worker's last frames nor be forgotten.
- **Threads.** Readers push and notify, the decision thread tests and sleeps;
  frames are sent with `conns_mu_` locked to clients that may be sending
  themselves; the decision thread has no exit.
- **Streams.** A frame arrives in pieces, may be damaged or cut off, and its
  length is believed before its checksum is tested; answers carry no request
  id and two layouts share one message type.

What makes each part correct: for the engine, one authority at a time, at most
one commit and only by the authority, terminal records frozen, history
append-only, authority monotone, the two lifecycles no further apart than a
known table of pairs. For the store, a file that loads is one that
was saved. For the coordinator, the first of these across restarts, that a
saved commit is not rolled back, that a lost worker's attempts are classified,
that requests are answered and in order. For a worker that lives, that what it
was given does not stay under way. For the wire, that what is handled is what
was sent.

## Modules

| module | models |
|---|---|
| `Lifecycle` | the state sets, both transition tables, decision codes, the saturating counter |
| `EngineOps` | each engine operation as an operator from epoch, record and arguments to the decision's code and the record it leaves behind |
| `Engine` | the engine as a state machine over `epoch`, `records`, `tickets`, `used`, `decision`; its properties and the refinement mapping |
| `FencedCommit` | the abstract specification: authority granted to ever newer attempts, withdrawn, one commit by the newest holder, or closed |
| `Store` | the snapshot file, the temporary file and the steps of a save, with their failures; when a file loads |
| `Coordinator` | extends `Engine` and `Store`: frame handlers, connection table, saves, replies, death and restart |
| `Runtime` | extends `Coordinator`: worker processes, frames under way, acceptor, readers and the inbound queue; fairness and liveness |
| `Server` | the coordinator's threads: start, stop, acceptor, readers, decision thread, queue and condition variable, `conns_mu_`, blocking sends |
| `Codec` | every payload and ticket as a layout of fields, what pack writes and unpack accepts |
| `Wire` | one direction of a connection: frames, the byte stream in pieces, damage, `recv_frame` |
| `MCEngine`, `MCCoordinator`, `MCRuntime`, `MCServer`, `MCWire` | TLC views and symmetries |
| `EngineProofs`, `EngineSafety`, `EngineTheorems` | the proofs about `Engine` |
| `CoordinatorProofs`, `RuntimeProofs`, `LossProofs` | the proofs about `Coordinator` and `Runtime`, each extending the one before |
| `ServerProofs` | the proofs about `Server` |
| `WireProofs` | the proofs about `Codec` and `Wire` |

**Engine.** One action per public operation; `CallOn` covers those that answer
`REJECT_UNKNOWN_EXECUTION`, while `Activate` and `Dispatch` need a known
execution because the code uses `records_.at()` there. An operator yields the
record *after a refusal too*, so the writes before a refused transition are in
the model. Attempt and dispatch ids, random in the code, are numbers drawn
fresh from the counter `used`; 0 and `None` stand for an absent optional or a
nil identity. Not in the records: `dispatch_generation` (always 1),
`completion_generation` (never written), `execution_state_at_dispatch`, texts
and timestamps. `tickets` remembers every ticket handed out, and `Presented` is
what comes back: a ticket as issued, under another boot id (or none), or with
another dispatch's id, at any time and any number of times. That covers delay,
duplication, loss and reordering of messages without a network in the model.

**Store.** Bytes are abstracted to no file, a torn one, or the snapshot. A save
is write, (on Windows) replace, remove, rename. `WriteTmp` may leave a torn
file and still report success, because `write_all` asks `f.good()` before the
stream is flushed and closed. With `Windows = TRUE` a failed replace falls back
to remove and rename, so those behaviours include the POSIX ones. The crash is
that of the process: no reordering of writes by the disk is modelled.

**Coordinator.** A handler is one action: engine operation, connection table,
and the start of the save where the code calls `persist()`. The save's steps
follow, then the reply, and only then the next frame, as on the decision
thread. `HandleDispatch` issues the ticket before the save; `HandleStart` does
not save; `HandleResume` saves only if the worker is connected. `Restart(e)` is
the death of the process at any moment followed by the constructor with
`--epoch=e`; a DISPATCH of an unknown execution throws on the decision thread
and is the same step (`DispatchUnknown`). A SHUTDOWN frame ends the process,
which `Restart` covers as well. The inbound queue is not a variable here: any
client may send any frame, so a handler that runs whenever the thread is free
has all the orders the queue can produce. QUERY, PING and REGISTER_WORKER
change no state. `active_attempt` is written and never read, and is left out.
`Persistent = FALSE` is a coordinator without `--persist`.

**Runtime.** Here the queue matters, because a worker's frames and the marker
of its closed connection share it. A worker process connects once, sends HELLO,
and executes one ticket after the other: START when it takes a ticket, COMPLETE
when it is done. It may die at any point, and then a prefix of what it sent
arrives. `Acceptor`, `ReaderPushes` and `ReaderEnds` are the coordinator's
threads, `Decide` handles the head of the queue with the handlers of
`Coordinator`. Controllers send any request at any time, so their handlers run
without a queue of their own; a request that is refused without a trace is no
step. `Boots` has an incarnation that is not connected, so that a ticket made
out to one can go down the connection of another, as the lookup by worker id
allows. `sent` is a history of what was handed to `send_to`. A
reader ends here only because its worker is gone: workers send neither a bad
frame nor a SHUTDOWN frame that passes for the marker of a closed connection
(`coordinator.cpp` 116). In `Coordinator` a connection may be closed at any
time, which covers both. Crashes of the
coordinator are the business of `Coordinator`; these runs have none.

**Server.** What a frame means is reduced to what the decision thread does with
its connections: answer, pass a frame on and answer, nothing, or SHUTDOWN. A
push and its notification are two steps, the test of the wait predicate and
falling asleep are one (`q_mu_` is held). A send keeps `conns_mu_` until the
client's buffers have room; a client in `send()` does not read. Buffers hold
`Capacity` frames each way. `due` remembers which requests are owed an answer.
`stop()` is its own sequence of steps with its two joins. `accept()` is taken
to fail once the listener is closed, which is the kinder of the two behaviours
sockets have: where it stays blocked, `stop()` already hangs at its first join.

**Codec and Wire.** The code's pack and unpack functions come in pairs, each
field written and read in order; the model gives each payload one layout (a
sequence of field kinds) and one `Put` and `Get` per kind, with the reader's
checks: room left, string and vector limits, enumerations, any byte but 0 is
true. Each pair was compared with its layout in both directions. `Pack` and
`ReadFields` recur over the index of the field, as the code goes from one
statement to the next. The stream is bytes; a `recv` takes any piece; a header is checked before its payload is read
and the whole frame decoded after. A peer may send a frame damaged in one of
the ways `tests/protocol_test.cpp` lists or with a wrong length, and may go
away and take the tail of the stream with it. `Crc64` is a simpler function,
the number of bytes and their sum, that separates everything the modelled
damage can confuse: that CRC-64 detects the damage is assumed, that the code
tests it in time is checked. No string or vector is longer than `LongField`,
2^26 bytes, the code's limit on a whole payload: only from 2^32 on would a
length written as u32 wrap, which the writer does not test. The codec is in
bytes because its properties are about bytes: which prefixes and extensions of
a payload unpack, whether two layouts under one type can be confused, and where
a frame ends in a stream cut anywhere. Three details are simpler than the code.
A PING has an empty payload, as its only sender in the tests gives it, whereas
`handle_frame` would echo any; REGISTER_WORKER, which nobody sends, and PONG,
which nobody unpacks, are not among the messages. And the state in a
SUBMIT_ACK or QUERY_RESPONSE is always one of the enumeration, whereas the code
leaves it uninitialised when the execution is not known (`protocol.hpp` 83 and
159, `coordinator.cpp` 184 and 335), so that a stray byte may be sent there and
the answer refused by its reader.

## Runs

| run | instance | shows |
|---|---|---|
| `engine` | 1 execution, 1 worker, 2 boots, 2 digests, 2 epochs, 3 attempts, MaxGen 3 | types, one authority, authorised commit, current is newest, strict fences, allowed pairs of lifecycle states, absorbing terminals, monotone authority, refusals grant nothing, immutable history, refinement of `FencedCommit` |
| `coordinator` | 2 epochs, 2 attempt ids over all incarnations, Windows | types, one authority across crashes and restarts, saved commits survive, the disk is behind the memory |
| `runtime` | 2 executions, 1 worker connection, 2 boot ids, 1 epoch, 2 attempts | `LossClassified`, `NothingAfterLoss` |
| `runtime_live` | the same with 1 execution and 2 epochs, fair | `LossNoticed`, `DeliveredSettles` |
| `server` | 2 clients, 2 requests each, buffers of 1 frame, fair | `NoLostWakeup`, `AnswersInOrder`, `RequestsAnswered`, `ClientsAccepted` |
| `wire` | every message with 2 fills and 2 lengths, 8 kinds of damage, pieces of 17 bytes or whole, 2 frames, fair | `HandledAsSent`, `WholeOrNothing`, `OneReadingPerType`, `FramesArrive` |
| `engine_ticketless` | violation | a refused dispatch leaves a current attempt without a ticket |
| `coordinator_atomic` | violation, POSIX | a crash inside a save loses the file |
| `coordinator_loads` | violation | cancelling a READY execution makes the file unloadable |
| `coordinator_fence` | violation | a restart undoes an epoch fence |
| `coordinator_start` | violation | a started worker's loss is taken for one that never ran |
| `server_stop` | violation, fair | `stop()` never returns |

What the runs say of the code:

- `LifecyclePairs`: the two lifecycles do drift, and this is how far. The table
  `AttemptBeside` has 28 pairs of an execution's and its current attempt's
  state, each of which occurs. Those nobody would intend are of two kinds. An
  attempt preempted before it started stays DISPATCHED beside PREEMPTED and
  RESUMABLE. And a completion the execution's table refuses has already moved
  the attempt: it is COMPLETED in RESUMING or RESUMABLE, and START, a loss, a
  cancellation or a preemption then takes the execution on to RUNNING,
  AMBIGUOUS and so forth beside it.
- `AuthorityMonotone`: epoch, attempt ids and all generations of an execution
  but one never go back. The exception, in `AttemptGenerationAdvances`, is the
  generation of the current attempt: `supersede` drops it, also when the table
  then refuses and the execution goes on (`engine.cpp` 963).
- `OwnershipStrictlyFences`: with three attempts and `MaxGen` 3 the ownership
  generations of a history are 2, 3 and 3: the first two are told apart by
  them, the last two only by their ids.
- `LossClassified`: once the coordinator has dealt with the end of a
  connection, no attempt sent there is still taken to be under way, except in
  four cases: the ticket was sent by a resume, a later dispatch took the
  connection's only slot, the ticket was made out to another incarnation, or
  the engine's epoch is ahead of the coordinator's. Without any one of the four
  the property is violated, so they are exactly the ways `on_conn_closed`
  leaves an execution behind. It does not excuse them: what it shows is that
  there is no fifth.
- `DeliveredSettles`: a ticket that reached a living worker settles, except
  that an epoch newer than the record's shuts the attempt out for good: its
  record's epoch never moves, so no COMPLETE can match it any more.
- `RequestsAnswered`: sends under `conns_mu_` do not deadlock as long as
  clients finish their sends and read, because a reader never waits for a
  mutex that a send holds. The mutant in which it does closes the ring.
- `HandledAsSent`: the only undamaged message that is lost is one whose string
  or vector is longer than the reader's limit; the sender never tests it, and
  the request then goes unanswered.

*Bounds.* `MaxGen` (2^64 - 1 in the code) is small so that counters saturate
within a few steps: at 3 in `engine`, where the first attempt has ownership
generation 2, attempts are first separated by their generations and then tied.
At 1, in the coordinator and runtime runs, all generations
are equal and only attempt ids and epochs fence. One execution suffices for the
engine: no operation reads a second record, and the proofs hold for any number.
`runtime` has two because a connection's slot is shared between executions, and
one epoch; `runtime_live` has two epochs and one execution. Both have one worker
connection: `LossClassified` speaks of one connection at a time, and a second
incarnation that is not connected is enough for a ticket to be misdirected. Two
attempts are the least that can compete, three the least with a strict and a
saturated pair in one history. Two boots, digests and epochs are the
least with a stale or conflicting one; the runs about the coordinator have one
digest and so do not see conflicting results, which are the engine's business.
`MaxIds` bounds the attempts of all incarnations of the coordinator together,
since a crash erases attempts from the records but not the tickets in workers'
hands. `Conns` bounds the connections open at once; ids are reused in
`Coordinator` because nothing refers to a closed one. In `server` buffers of
one frame are the tightest, and two requests in flight fill both directions.
`Kinds` without "ask" loses nothing there: a "pass" with nobody else connected
is one. In `wire`, 17 is the largest piece that splits a header, `Lengths`
straddle `MaxString` and `MaxVector`, and `MaxPayload` lies between the longest
payload within those limits and the longest beyond. Only the frame that is
second or damaged is of the one type in `Small`: what follows a frame depends
on its bytes and not on its type. The violation run of the engine uses a
`MaxGen` of 9, so no counter saturates.

*Views and symmetry.* The views leave out what no action and no property of the
run reads: `decision`, counters that only count, in `MCEngine` the tickets and
most of the fields of attempts that are no longer current (no attempt becomes
current again, so such a ticket is refused whatever it holds), the temporary file when no
save is about to read it, `started` except in the run about it, and in
`MCCoordinator` the connections once the last attempt id is drawn: no dispatch
can be granted then, closing a connection does what a `WORKER_LOST` frame does,
and a refused dispatch at most raises the epoch, as a refused submit does whose
save fails. Left out too are, in
`MCRuntime` results, the set of tickets (each one that matters is in `sent`,
`down`, `job` or a frame) and all but the newest attempt. Symmetry is used only
in runs without liveness.

*Fairness.* Weak fairness of each thread of the coordinator (acceptor, reader
of each connection, decision thread, and the steps of `stop()`), of the
receiver in `Wire`, and of a worker that is up: they are loops around a
blocking call that run whenever it can return. In `Server` a client also
finishes what it began to send and reads when it is not sending. That is an
assumption on clients: one that stays connected and does neither holds up the
decision thread for ever, since `send_all` has no timeout. Weak fairness is
enough for the acceptor to get `conns_mu_` (`ClientsAccepted`) only because the
number of requests is finite, so the decision thread stops taking the mutex; a
load that never ends would need a fair mutex, which `std::mutex` is not. Controllers, deaths,
disconnections, connecting and the call of `stop()` are not fair. Where deadlock
is not checked the system may come to rest: everyone served, or bounds reached.

Each checked property also has a mutant: a definition of the code's model
changed the way a bug would, under which TLC finds the property violated. The
mutants are the operators marked so, each just before what it replaces.

## Proofs

`EngineProofs` proves `TypeCorrect`: `Spec => []TypeOK`, operation by operation.

`EngineTheorems` proves the engine's other properties for every set of
executions, workers, boots and digests and all values of the bounds.

- No property is inductive alone. `IInv` conjoins `TypeOK`; `RecInv` for each
  record (ids in order and at most `used`, current attempt is the newest and
  agrees with the record, fences, allowed pairs of lifecycle states, one commit,
  by the newest attempt); what is known of tickets (each is for an attempt of the
  history with the same generations, one ticket per attempt); and
  `CommittedUnder`. For instance the pair of lifecycle states cannot
  be kept without knowing that it is the newest and that ids are not repeated.
- `EngineSafety` has one lemma per operation: from `RecInv` the operation's
  record satisfies `RecInv` again, and the step is a *quiet* one (nothing
  granted or committed), a commit, or a grant, related to the old record by
  `RecStep`.
- `Classify` sorts every step of `Next` into five kinds: idle, a record made,
  a quiet step, a commit, a grant. Preservation of the ticket facts, the action
  properties and the refinement each need one case per kind, not per operation.
- `Implementation` maps the current attempt id to `holder`, the last id of the
  history to `newest`, and the state and digest to `outcome` and `result`. A
  quiet step is a withdrawal, a closing or a stutter.
- `EveryRefusal` is the one that needs the operations again: a decision that is
  not an allowed one keeps state, digest and tickets, whichever writes came
  before the lifecycle table was asked.

`CoordinatorProofs` extends the engine's proofs to a process that dies and
recovers, on either platform and with or without `--persist`. The engine's
`IInv` is not an invariant here: a restart forgets attempts whose tickets are
still in workers' hands, so tickets no longer name attempts of the history.
`CInv` keeps what does survive:

- `RecordsInv`, the part of `IInv` about single records, and that ids are never
  drawn twice (`TicketsDrawn`, `TicketsDistinct`). One authority across
  restarts rests on the ids alone.
- `SaveInv`: the memory does not change while a save is under way, so what is
  being written is torn or the memory; and a file that loads is a *past* of the
  memory (`PastOfMemory`). `Behind` relates a record to its past by the
  relations of the engine's action properties, and `BehindStep` shows it is kept
  by every engine step. That is what makes recovery a step back and no more.
- `CommitsInv`: reported commits, and the one a reply is owed for, are in the
  memory.

`Moves` is what an engine call does as far as `CInv` is concerned; `NextMoves`
derives it once from `Classify`, so each handler needs only its own table,
reply and save.

`RuntimeProofs` adds workers, readers and the queue. `CoordinatorSteps` shows
that every step of `Runtime` is one of the coordinator (never a restart) or
leaves it alone, because the tickets that workers present were issued: so
`CInv` holds here too. `NetInv` types what is under way by the tickets issued
and follows a connection from `accept()` to its marker (`InOrder`): in the
table while it is read, nothing queued behind its marker, nothing unread after
it.

`LossProofs` proves `LossClassified`. It needs, besides `CInv` and `NetInv`
(`LossInv`):

- `TicketsGranted`: without restarts every ticket names an attempt of the
  history, and the worker and boot id it was granted to;
- `RecordsAtRest`: an execution that is READY again has no attempt that could be
  running, and no record is from an epoch the engine has not reached, or a
  report under the engine's epoch might be refused;
- `ConnsNamed` and `TrackedOK`: as long as a connection is open, its entry names
  the execution of the last ticket a dispatch sent there, and that ticket is
  for this worker; and an execution whose current attempt was dispatched is not
  RESUMING, a state in which `mark_worker_lost` would change nothing.

Two facts about the operations carry it. `Settles`: an operation never takes an
attempt up again, so what is not under way stays so. `LossEnds`: a loss reported
for the ticket's worker and boot id under the engine's epoch ends the attempt.
A step that drops a table entry is `on_conn_closed`, and `LossEnds` applies to
it unless one of the four exceptions holds; every other step is `Settles`.

`ServerProofs` proves two properties for any set of clients and any bounds.
`NoLostWakeup` is inductive once `reader` is known to be a function on the
clients: the step that ends a pusher's pending notification also wakes the
thread, and the thread falls asleep only on an empty queue. The code notifies
after it has released the mutex, so this is not obvious. `AnswersInOrder` needs
`OrderInv`: the requests a client is owed answers for are exactly those in its
socket, in the queue and in the decision thread's hand (`Listed`), and in each
of these, and from one to the next, their numbers ascend (`Ascending`).

`WireProofs` proves the three invariants of `Wire` for any pieces, any limits,
any number of frames and any end of the stream. It has two parts.

- *The codec.* What the recursive `Pack` and `ReadFields` compute takes
  induction, and the library's induction rules take an operator, which the
  provers cannot instantiate. `SetInduction` states it for a set instead and
  follows from the well-foundedness of `<`; `Recursion` derives from it that a
  recursive definition over `0 .. N` has a solution. On these rest
  `PackingExists` and `FieldsRead`: after n fields of the bytes b, which agree
  with a payload as far as both go, the reader has the first n values and is
  where the writer was, or has refused. `FieldRead` is the step, kind by kind;
  it needs that `U32` inverts `U32Bytes` (`U32Read`), hence `LongField`.
  `PayloadReadBack` then says that of all byte strings that begin a payload, or
  that it begins, only the payload itself unpacks, to the values packed.
  `AckOrDecision` compares how many bytes the optionals of the two layouts
  under COMPLETE_ACK can leave.
- *The stream.* `HandledAsSent` is not inductive: it says nothing of bytes that
  are not a frame yet. `WInv` adds that there are T, all the bytes given to
  `send_frame`, and `cut`, where each frame ends in them, such that behind the
  frames returned T goes on with the header held, the bytes read of the part
  waited for, and the bytes under way (`Flows`); while the sender is there,
  these make up the whole of T. A piece received moves bytes from one to the
  next; a lost tail shortens the last. That the receiver goes on to the right
  place is `Verdict`: if the header's tests and `decode_frame` accept what
  stands where a frame starts, the frame is undamaged and within the limit,
  and its length is that of the payload. It has one case per kind of damage;
  those about length and last byte rest on what the checksum tells apart
  (`CrcLength`, `CrcLastByte`). Behind a damaged frame the receiver would no
  longer be aligned, and there the invariant needs that the connection is
  closed.

The theorems about the payloads alone hold for all values of the fields; those
about `WSpec` speak of the messages of `Wire`, whose fields are made of one byte
each, which is what the property of the run says.

| theorem | module | establishes |
|---|---|---|
| `TypeCorrect`, `Invariance` | `EngineProofs`, `EngineTheorems` | `TypeOK`; the inductive invariant |
| `CurrentNewest`, `OwnershipFenced`, `LifecyclesPaired` | `EngineTheorems` | the record invariants |
| `OneAuthority`, `CommitsAuthorised` | `EngineTheorems` | the two that relate records and tickets |
| `TerminalsAbsorb`, `HistoryKept`, `AuthorityForward`, `RefusalsGrantNothing` | `EngineTheorems` | the action properties |
| `Implementation` | `EngineTheorems` | the engine implements `FencedCommit` |
| `CoordinatorInvariance`, `CoordinatorTyped` | `CoordinatorProofs` | `CInv`; `CTypeOK` |
| `OneAuthorityKept`, `CommitsSurvive`, `DiskBehind` | `CoordinatorProofs` | the coordinator's invariants across crashes |
| `RuntimeInvariance`, `NothingHeardAfterLoss` | `RuntimeProofs` | `CInv` and `NetInv`; `NothingAfterLoss` |
| `LossesClassified` | `LossProofs` | `LossClassified` |
| `WakeupsKept`, `AnswersOrdered` | `ServerProofs` | `NoLostWakeup`; `AnswersInOrder` |
| `PayloadReadBack`, `AckOrDecision` | `WireProofs` | what unpacking makes of packed fields, for all values |
| `PayloadsWholeOrNothing`, `OnePayloadPerType` | `WireProofs` | `WholeOrNothing`; `OneReadingPerType` |
| `StreamInvariance`, `FramesHandledAsSent` | `WireProofs` | the stream's invariant; `HandledAsSent` |

The assumptions are those on the constants: `MaxGenAssumption` (`MaxGen` is a
positive natural), `EngineAssumption` (the bounds are naturals, `None` is no
identity or digest), for `Runtime` that connections are named by boot ids, and
`WireAssumption` (limits up to `LongField`, pieces that are not empty). The
bounds in the guards are arbitrary naturals in the proofs. The inductive
invariants were checked by TLC on small instances before they were proved,
`LossInv` also with two connections and two epochs.

*Only model-checked.* The liveness properties (`LossNoticed`,
`DeliveredSettles`, `RequestsAnswered`, `ClientsAccepted`, `FramesArrive`):
fairness and ENABLED are out of the prover's reach. Every invariant and every
action property that a passing run checks is a theorem.

## What disagrees with the repository

The violation runs are real disagreements with a comment, a test or an
interface: one in the engine (`engine.cpp` 292), four about recovery
(`persistence.cpp` 62 and 272, `coordinator.cpp` 104 and 237) and one about
shutdown (`coordinator.cpp` 108). `PROJECT.json` quotes the lines they
contradict.

Three more have no run of their own and are stated in the properties that
pass. `AuthorityMonotone` excepts attempt generations across a `supersede`: a
refused one restarts them for an execution that goes on (`engine.cpp` 963),
against `tests/property_test.cpp` 14 ("Attempt generations are strictly
increasing") and the README's monotonically advancing generations (lines 37 to
40). `LifecyclePairs` lists an attempt COMPLETED beside an execution that is
RESUMING, RUNNING or AMBIGUOUS, and one DISPATCHED beside PREEMPTED and
RESUMABLE. The latter stays DISPATCHED when `resume` puts another in its place
(`engine.cpp` 807), so a history can hold two live attempts, of which only one
is current. None of these harms `AtMostOneAuthority`, which rests on attempt
ids.

## Order of the work

Engine and abstract specification first, then store and coordinator with crash
and restart, workers and inbound queue, threads and shutdown, codec and
transport; in each case the model and its runs, then the proofs. What could
follow: messages in `Wire` whose fields differ byte by byte, for which
`PayloadReadBack` already holds; and a coordinator crash with the frames of
`Runtime` in flight.

## Not modelled

Identity generation, SHA-256 and the CRC polynomial are pure arithmetic:
identities are never repeated, digests are opaque, checksums detect the damage
modelled. Socket options, address parsing and Winsock set-up have no state of
their own. The CUDA executor computes a result and holds no authority state: a
digest may be any digest. The harness's scenarios, process spawning, tools,
tests, examples and benchmarks are clients of what is modelled. A coordinator
crash together with a worker's frames in flight is covered only by
`Coordinator`, where any ticket ever issued may be presented at any time.
