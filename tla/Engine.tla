------------------------------- MODULE Engine -------------------------------
(***************************************************************************)
(* ExecutionEngine (src/engine.cpp) as a state machine: the epoch it works *)
(* under and its map of execution records, changed by one call at a time.  *)
(* The callers - controllers, workers, the coordinator's connection        *)
(* handling - are the environment: they may make any call at any moment,   *)
(* under any epoch, and a ticket once issued may be presented at any later *)
(* moment, any number of times, so delay, duplication and reordering of    *)
(* messages are all here.                                                  *)
(***************************************************************************)
EXTENDS EngineOps, FiniteSets

CONSTANTS
  Execs,        \* execution ids
  Workers,      \* worker ids
  Boots,        \* worker boot ids: one per incarnation of a worker process
  Digests,      \* result digests
  MaxEpoch,     \* bound: the largest coordinator epoch a caller uses
  MaxAttempts   \* bound: the attempts one execution may be given

ASSUME EngineAssumption ==
  /\ MaxEpoch \in Nat \ {0}
  /\ MaxAttempts \in Nat
  /\ None \notin Workers \cup Boots \cup Digests

VARIABLES
  epoch,      \* epoch_
  records,    \* records_: a function on the executions that exist
  tickets,    \* every DispatchTicket handed out so far
  used,       \* how many attempt (and dispatch) ids have been drawn
  decision    \* the code of the latest Decision

vars == <<epoch, records, tickets, used, decision>>

Epochs == 1 .. MaxEpoch

-----------------------------------------------------------------------------
AttemptRecords ==
  [id : Nat \ {0}, generation : Gens, worker_id : Workers,
   worker_boot_id : Boots, dispatch_id : Nat \ {0},
   ownership_generation : Gens, fence_generation : Gens,
   state : AttemptStates, result_digest : Digests \cup {None}]

ExecutionRecords ==
  [generation : Gens, state : ExecutionStates, coordinator_epoch : Epochs,
   ownership_generation : Gens, fence_generation : Gens,
   current_attempt_id : Nat, current_attempt_generation : Gens,
   owner_worker : Workers \cup {None}, owner_worker_boot : Boots \cup {None},
   cancellation_generation : Gens, preemption_generation : Gens,
   resume_generation : Gens, commit_generation : Gens,
   committed_digest : Digests \cup {None}, attempts : Seq(AttemptRecords)]

DispatchTickets ==
  [execution_id : Execs, execution_generation : Gens, attempt_id : Nat,
   attempt_generation : Gens, worker_id : Workers,
   worker_boot_id : Boots \cup {None}, epoch : Epochs, dispatch_id : Nat,
   ownership_generation : Gens, fence_generation : Gens]

\* The variables hold values of the C++ types, and the map's keys are ids.
TypeOK ==
  /\ epoch \in Epochs
  /\ DOMAIN records \subseteq Execs
  /\ \A x \in DOMAIN records : records[x] \in ExecutionRecords
  /\ tickets \subseteq DispatchTickets
  /\ used \in Nat
  /\ decision \in DecisionCodes

Init ==
  /\ epoch \in Epochs
  /\ records = [x \in {} |-> NewRecord(1)]
  /\ tickets = {}
  /\ used = 0
  /\ decision = "ALLOW"

-----------------------------------------------------------------------------
Known(x) == x \in DOMAIN records

\* A call that only touches the record of x, or finds none.
CallOn(x, r) ==
  /\ IF Known(x)
     THEN /\ records' = [records EXCEPT ![x] = r.rec]
          /\ decision' = r.code
     ELSE /\ decision' = "REJECT_UNKNOWN_EXECUTION"
          /\ UNCHANGED records
  /\ UNCHANGED <<epoch, tickets, used>>

\* A call that may add an attempt to x, whose ids are drawn fresh, and that
\* returns the attempt's ticket when it is allowed.  ep is the epoch it leaves.
GrantOn(x, r, ep) ==
  /\ Len(r.rec.attempts) <= MaxAttempts
  /\ records' = [records EXCEPT ![x] = r.rec]
  /\ decision' = r.code
  /\ tickets' = IF r.code \in AllowedCodes
                THEN tickets \cup {TicketFor(x, ep, r.rec)} ELSE tickets
  /\ used' = IF r.rec.attempts = records[x].attempts THEN used ELSE used + 1

EpochAfter(x, e) ==
  IF StaleEpoch(epoch, records[x], e) THEN epoch ELSE AdoptEpoch(epoch, e)

-----------------------------------------------------------------------------
Create(x, e) ==
  /\ epoch' = AdoptEpoch(epoch, e)
  /\ \/ /\ e < epoch
        /\ decision' = "REJECT_STALE_EPOCH"
        /\ UNCHANGED records
     \/ /\ e >= epoch
        /\ Known(x)
        /\ decision' = "REJECT_EXISTS"
        /\ UNCHANGED records
     \/ /\ e >= epoch
        /\ ~Known(x)
        /\ records' = [y \in DOMAIN records \cup {x} |->
                         IF y = x THEN NewRecord(epoch') ELSE records[y]]
        /\ decision' = "ALLOW"
  /\ UNCHANGED <<tickets, used>>

\* activate() and dispatch() use records_.at(): they have no answer for an
\* execution that does not exist.
Activate(x, e) ==
  /\ Known(x)
  /\ LET r == activate(epoch, records[x], e)
     IN  /\ records' = [records EXCEPT ![x] = r.rec]
         /\ decision' = r.code
  /\ epoch' = EpochAfter(x, e)
  /\ UNCHANGED <<tickets, used>>

Dispatch(x, w, b, e) ==
  /\ Known(x)
  /\ epoch' = EpochAfter(x, e)
  /\ GrantOn(x, dispatch(epoch, records[x], e, used + 1, w, b), epoch')

Resume(x, w, b, e, rg) ==
  \/ /\ Known(x)
     /\ GrantOn(x, resume(epoch, records[x], e, rg, used + 1, w, b), epoch)
     /\ UNCHANGED epoch
  \/ /\ ~Known(x)
     /\ decision' = "REJECT_UNKNOWN_EXECUTION"
     /\ UNCHANGED <<epoch, records, tickets, used>>

MarkRunning(t) ==
  CallOn(t.execution_id, mark_running(epoch, records[t.execution_id], t))

Complete(t, d) ==
  CallOn(t.execution_id, complete(epoch, records[t.execution_id], t, d))

Cancel(x, e, auth) == CallOn(x, cancel(epoch, records[x], e, auth))

FinalizeCancel(x, e) == CallOn(x, finalize_cancel(epoch, records[x], e))

Preempt(x, e, auth) == CallOn(x, preempt(epoch, records[x], e, auth))

AcknowledgePreempt(x, e) == CallOn(x, acknowledge_preempt(epoch, records[x], e))

MarkResumable(x, e) == CallOn(x, mark_resumable(epoch, records[x], e))

MarkWorkerLost(x, w, b, e) ==
  CallOn(x, mark_worker_lost(epoch, records[x], e, w, b))

Supersede(x, e) == CallOn(x, supersede(epoch, records[x], e))

RaiseEpoch(e) ==
  /\ epoch' = AdoptEpoch(epoch, e)
  /\ UNCHANGED <<records, tickets, used, decision>>

-----------------------------------------------------------------------------
\* What a worker may present: a ticket that was issued, as it stands, under
\* the boot id of another incarnation (or a nil one), or with the dispatch id
\* of another dispatch.
Presented ==
  tickets
    \cup {[t EXCEPT !.worker_boot_id = b] : t \in tickets, b \in Boots \cup {None}}
    \cup {[t EXCEPT !.dispatch_id = u.dispatch_id] : t, u \in tickets}

Next ==
  \/ \E x \in Execs, e \in Epochs :
       \/ Create(x, e)
       \/ Activate(x, e)
       \/ FinalizeCancel(x, e)
       \/ AcknowledgePreempt(x, e)
       \/ MarkResumable(x, e)
       \/ Supersede(x, e)
  \/ \E x \in Execs, w \in Workers, b \in Boots, e \in Epochs :
       \/ Dispatch(x, w, b, e)
       \/ MarkWorkerLost(x, w, b, e)
       \/ \E rg \in Gens : Resume(x, w, b, e, rg)
  \/ \E x \in Execs, e \in Epochs, auth \in Gens :
       \/ Cancel(x, e, auth)
       \/ Preempt(x, e, auth)
  \/ \E t \in Presented :
       \/ MarkRunning(t)
       \/ \E d \in Digests \cup {None} : Complete(t, d)
  \/ \E e \in Epochs : RaiseEpoch(e)

Spec == Init /\ [][Next]_vars

-----------------------------------------------------------------------------
(***************************************************************************)
(* Properties.  Each is named for what it says of every record, or of      *)
(* every step; the invariants are stated record by record (the operators   *)
(* that take rec) so that they can be proved operation by operation.       *)
(***************************************************************************)
Newest(rec) == rec.attempts[Len(rec.attempts)]

\* Attempt ids are never reused, so history order is the order of the ids; an
\* attempt keeps the dispatch id it was created with.
IdsInOrder(rec) ==
  /\ \A i, j \in DOMAIN rec.attempts :
       i < j => rec.attempts[i].id < rec.attempts[j].id
  /\ \A i \in DOMAIN rec.attempts :
       rec.attempts[i].dispatch_id = rec.attempts[i].id

\* The current attempt, if any, is the newest of the history, and the record
\* repeats its generation, its owner and its fence.
CurrentMatches(rec) ==
  IF rec.current_attempt_id = 0
  THEN /\ rec.current_attempt_generation = 0
       /\ rec.owner_worker = None
       /\ rec.owner_worker_boot = None
  ELSE /\ Len(rec.attempts) > 0
       /\ Newest(rec).id = rec.current_attempt_id
       /\ Newest(rec).generation = rec.current_attempt_generation
       /\ Newest(rec).generation # 0
       /\ Newest(rec).worker_id = rec.owner_worker
       /\ Newest(rec).worker_boot_id = rec.owner_worker_boot
       /\ Newest(rec).ownership_generation = rec.ownership_generation
       /\ Newest(rec).fence_generation = rec.fence_generation

\* Whatever sequence of dispatches, losses, preemptions, resumes, refusals and
\* supersessions led here, the record and the history it keeps name the same
\* current attempt ("the last non-superseded entry", record.hpp).
CurrentIsNewest ==
  \A x \in DOMAIN records :
    IdsInOrder(records[x]) /\ CurrentMatches(records[x])

OwnershipFences(rec) ==
  /\ \A i, j \in DOMAIN rec.attempts :
       i < j => \/ /\ rec.attempts[i].ownership_generation
                        < rec.attempts[j].ownership_generation
                   /\ rec.attempts[i].fence_generation
                        < rec.attempts[j].fence_generation
                \/ rec.attempts[i].ownership_generation = MaxGen
  /\ \A i \in DOMAIN rec.attempts :
       /\ rec.attempts[i].ownership_generation \in 1 .. rec.ownership_generation
       /\ rec.attempts[i].fence_generation = rec.attempts[i].ownership_generation

\* Each attempt is fenced off from all earlier ones: its ownership and fence
\* generations are strictly larger until the counters saturate, and none is
\* ahead of the record's.  Supersession does not reset them.
OwnershipStrictlyFences ==
  \A x \in DOMAIN records : OwnershipFences(records[x])

Authorised(t) ==
  "ALLOW" \in {ValidateTicket(epoch, records[t.execution_id], t),
               ValidateStart(epoch, records[t.execution_id], t)}

\* No two credentials are good at once: of all tickets ever issued for an
\* execution at most one would pass validate_ticket or validate_start, and it
\* is the one of the newest attempt.  This holds at saturated generations too,
\* where only the attempt id tells two attempts apart.
AtMostOneAuthority ==
  \A t, u \in tickets :
    t.execution_id = u.execution_id /\ Authorised(t) =>
      /\ u.attempt_id <= t.attempt_id
      /\ u.attempt_id = t.attempt_id => u = t

\* The state the current attempt may be in beside that of its execution.
AttemptBeside(state, at) ==
  \/ /\ at = "DISPATCHED"
     /\ state \in {"DISPATCHED", "RESUMING", "CANCELLATION_REQUESTED",
                   "PREEMPTION_REQUESTED", "PREEMPTED", "RESUMABLE"}
  \/ /\ at = "RUNNING"
     /\ state \in {"RUNNING", "CANCELLATION_REQUESTED", "PREEMPTION_REQUESTED"}
  \/ /\ at = "PREEMPTED"
     /\ state \in {"PREEMPTED", "RESUMABLE"}
  \/ /\ at = "COMPLETED"
     /\ state \in {"COMMITTED", "RESUMING", "RUNNING", "AMBIGUOUS",
                   "CANCELLATION_REQUESTED", "CANCELLED",
                   "PREEMPTION_REQUESTED", "PREEMPTED", "RESUMABLE"}
  \/ /\ at = "LOST"
     /\ state \in {"READY", "AMBIGUOUS", "COMMITTED", "CANCELLED",
                   "CANCELLATION_REQUESTED", "PREEMPTED", "RESUMABLE"}
  \/ /\ at = "CANCELLED"
     /\ state = "CANCELLED"

LifecyclePaired(rec) ==
  /\ rec.state = "CREATED" => rec.attempts = <<>>
  /\ rec.state = "SUPERSEDED" => rec.current_attempt_id = 0
  /\ rec.current_attempt_id # 0 => AttemptBeside(rec.state, Newest(rec).state)

\* How far an execution and its current attempt can drift apart, given that
\* the engine ignores the answer of every attempt transition.  The execution
\* is DISPATCHED only beside a DISPATCHED attempt, and READY again only beside
\* a LOST one.  It should be RUNNING beside a RUNNING attempt, RESUMING beside
\* a DISPATCHED one, AMBIGUOUS beside a LOST one, PREEMPTED or RESUMABLE beside
\* one that is PREEMPTED or LOST, and is, but for two kinds of drift that the
\* code does have: an attempt preempted before it started stays DISPATCHED
\* (engine.cpp 807), and a completion refused by the execution's table leaves
\* the attempt COMPLETED, whatever START, a loss or a preemption then makes of
\* the execution.  The table has these pairs and every one of them occurs.
LifecyclePairs == \A x \in DOMAIN records : LifecyclePaired(records[x])

\* COMMITTED, the committed digest and the commit generation come together,
\* and the commit generation never passes 1: one commit per execution.
CommittedOnce(rec) ==
  /\ rec.state = "COMMITTED" <=> rec.committed_digest # None
  /\ rec.commit_generation = IF rec.state = "COMMITTED" THEN 1 ELSE 0

\* A committed digest is the result of the newest attempt, which was running
\* to completion or had been lost with its outcome unknown - never one that
\* was preempted, cancelled or superseded.
CommittedByNewest(rec) ==
  rec.state = "COMMITTED" =>
    /\ rec.current_attempt_id # 0
    /\ Newest(rec).result_digest = rec.committed_digest
    /\ Newest(rec).state \in {"COMPLETED", "LOST"}

\* The ticket a committed result was presented with had been issued for the
\* newest attempt, under the epoch and the generation the record still has.
CommittedUnder(x) ==
  records[x].state = "COMMITTED" =>
    \E t \in tickets :
      /\ t.execution_id = x
      /\ t.attempt_id = Newest(records[x]).id
      /\ t.epoch = records[x].coordinator_epoch
      /\ t.execution_generation = records[x].generation

\* At most one authorised result commits, it is the one of the attempt that
\* held authority, and a ticket of the current epoch and generation stands
\* behind it.
CommitAuthorised ==
  \A x \in DOMAIN records :
    /\ CommittedOnce(records[x])
    /\ CommittedByNewest(records[x])
    /\ CommittedUnder(x)

-----------------------------------------------------------------------------
\* A terminal record is frozen: no late completion, loss report, control
\* request, dispatch or supersession changes any field of it.
FrozenIfTerminal(rec, new) == rec.state \in TerminalExecutionStates => new = rec

SameIdentity(at, bt) ==
  /\ bt.id = at.id
  /\ bt.dispatch_id = at.dispatch_id
  /\ bt.generation = at.generation
  /\ bt.worker_id = at.worker_id
  /\ bt.worker_boot_id = at.worker_boot_id
  /\ bt.ownership_generation = at.ownership_generation
  /\ bt.fence_generation = at.fence_generation

\* The history is append-only; an attempt keeps whom and what it was granted
\* for; and only the attempt that was current may change at all: work whose
\* authority has moved on can no longer be written to.
HistoryGrows(rec, new) ==
  /\ Len(rec.attempts) <= Len(new.attempts)
  /\ \A i \in DOMAIN rec.attempts :
       /\ SameIdentity(rec.attempts[i], new.attempts[i])
       /\ rec.attempts[i].id # rec.current_attempt_id
            => new.attempts[i] = rec.attempts[i]

\* Attempt generations increase, strictly from one attempt to the next until
\* they saturate, as long as the execution's generation stays the same.  It
\* moves (or is saturated) when a supersede dropped the current attempt, also
\* one the lifecycle table then refused: the next attempt of an execution that
\* goes on has generation 1 again.
AttemptGenerationAdvances(rec, new) ==
  \/ /\ rec.current_attempt_generation <= new.current_attempt_generation
     /\ new.current_attempt_id \notin {0, rec.current_attempt_id} =>
          \/ rec.current_attempt_generation < new.current_attempt_generation
          \/ rec.current_attempt_generation = MaxGen
  \/ rec.generation < new.generation
  \/ rec.generation = MaxGen

\* Authority moves forward: the execution's, the ownership, fence and resume
\* generations never decrease, the record's epoch stays, an attempt that
\* becomes current was never current before, and attempt generations advance
\* but for that exception.
AuthorityAdvances(rec, new) ==
  /\ rec.generation <= new.generation
  /\ rec.ownership_generation <= new.ownership_generation
  /\ rec.fence_generation <= new.fence_generation
  /\ rec.resume_generation <= new.resume_generation
  /\ rec.coordinator_epoch = new.coordinator_epoch
  /\ new.current_attempt_id \notin {0, rec.current_attempt_id} =>
       \A i \in DOMAIN rec.attempts : rec.attempts[i].id < new.current_attempt_id
  /\ AttemptGenerationAdvances(rec, new)

\* Terminal states are absorbing, for the whole record.
TerminalAbsorbing ==
  [][\A x \in DOMAIN records :
       x \in DOMAIN records' /\ FrozenIfTerminal(records[x], records'[x])]_vars

\* No step rewrites the past of an execution.
HistoryImmutable ==
  [][\A x \in DOMAIN records : HistoryGrows(records[x], records'[x])]_vars

\* The engine's epoch never decreases, and no step moves the authority over an
\* execution backwards.  One counter of it can go back, the generation of the
\* current attempt: supersede() drops it, even when the lifecycle table then
\* refuses (engine.cpp 963), and no other call does.
AuthorityMonotone ==
  [][/\ epoch <= epoch'
     /\ \A x \in DOMAIN records : AuthorityAdvances(records[x], records'[x])]_vars

\* A call that is not allowed moves no execution to another state, commits
\* nothing and hands out no ticket: UNKNOWN, DEFER and rejections are never
\* permission.
RefusalGrantsNothing ==
  [][decision' \notin AllowedCodes =>
       /\ tickets' = tickets
       /\ DOMAIN records' = DOMAIN records
       /\ \A x \in DOMAIN records :
            /\ records'[x].state = records[x].state
            /\ records'[x].committed_digest = records[x].committed_digest]_vars

-----------------------------------------------------------------------------
(* The engine implements FencedCommit.                                     *)

NewestId(rec) == IF rec.attempts = <<>> THEN 0 ELSE Newest(rec).id

OutcomeOf(rec) ==
  IF rec.state = "COMMITTED" THEN "committed"
  ELSE IF rec.state \in TerminalExecutionStates THEN "closed" ELSE "open"

holderBar == [x \in Execs |-> IF Known(x) THEN records[x].current_attempt_id ELSE 0]
newestBar == [x \in Execs |-> IF Known(x) THEN NewestId(records[x]) ELSE 0]
outcomeBar == [x \in Execs |-> IF Known(x) THEN OutcomeOf(records[x]) ELSE "open"]
resultBar ==
  [x \in Execs |-> IF Known(x) THEN records[x].committed_digest ELSE None]

Fenced == INSTANCE FencedCommit
            WITH holder <- holderBar, newest <- newestBar,
                 outcome <- outcomeBar, result <- resultBar

\* Every behaviour of the engine, refused calls that still write included, is
\* a sequence of grants, withdrawals, one commit by the newest holder or one
\* closing, per execution.
ImplementsFencedCommit == Fenced!AbstractSpec

-----------------------------------------------------------------------------
(* What the repository says of the engine and the engine does not do.      *)

\* "Should not happen given the allowed from-states above" (engine.cpp, in
\* dispatch): an attempt that was added to the history has a ticket.
EveryAttemptHasTicket ==
  \A x \in DOMAIN records : \A i \in DOMAIN records[x].attempts :
    \E t \in tickets : t.attempt_id = records[x].attempts[i].id
=============================================================================
