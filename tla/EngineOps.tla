----------------------------- MODULE EngineOps -----------------------------
(***************************************************************************)
(* The operations of ExecutionEngine (src/engine.cpp) as operators on one  *)
(* execution record.  Each takes ep, the engine's coordinator epoch; rec,  *)
(* the record of the execution it is called for; and its own arguments.    *)
(* It yields a Decision: the code the caller is given and the record the   *)
(* operation leaves behind, which a refused operation may have changed.    *)
(*                                                                         *)
(* An attempt id or a generation of 0, and an owner or a digest of None,   *)
(* is an optional without a value, or an identity that is nil.             *)
(***************************************************************************)
EXTENDS Lifecycle, Sequences

CONSTANT None

AttemptRecord(id, gen, w, b, own, fence) ==
  [id |-> id, generation |-> gen, worker_id |-> w, worker_boot_id |-> b,
   dispatch_id |-> id, ownership_generation |-> own,
   fence_generation |-> fence, state |-> "DISPATCHED", result_digest |-> None]

\* The record create() inserts.
NewRecord(ep) ==
  [generation |-> 1, state |-> "CREATED", coordinator_epoch |-> ep,
   ownership_generation |-> 0, fence_generation |-> 0,
   current_attempt_id |-> 0, current_attempt_generation |-> 0,
   owner_worker |-> None, owner_worker_boot |-> None,
   cancellation_generation |-> 0, preemption_generation |-> 0,
   resume_generation |-> 0, commit_generation |-> 0,
   committed_digest |-> None, attempts |-> <<>>]

Decision(code, rec) == [code |-> code, rec |-> rec]

AdoptEpoch(ep, e) == IF e > ep THEN e ELSE ep

\* The two epoch checks: a caller that may be ahead, one that must match.
StaleEpoch(ep, rec, e) == e < ep \/ e < rec.coordinator_epoch

\* Mutant: the record's own epoch is not compared.
EngineEpochOnly(ep, rec, e) == e # ep

OtherEpoch(ep, rec, e) == e # ep \/ e # rec.coordinator_epoch

-----------------------------------------------------------------------------
\* Mutant: the state is written before the table is asked.
EagerTransition(rec, to) ==
  Decision(IF ExecutionFrom(rec.state, to)
           THEN "ALLOW" ELSE "REJECT_ALREADY_TERMINAL",
           [rec EXCEPT !.state = to])

Transition(rec, to) ==
  IF ExecutionFrom(rec.state, to)
  THEN Decision("ALLOW", [rec EXCEPT !.state = to])
  ELSE Decision("REJECT_ALREADY_TERMINAL", rec)

TransitionAttempt(at, to) ==
  IF AttemptFrom(at.state, to) THEN [at EXCEPT !.state = to] ELSE at

\* Mutant: the loop moves every attempt.
MoveEveryAttempt(rec, id, to) ==
  [rec EXCEPT !.attempts =
     [i \in DOMAIN rec.attempts |-> TransitionAttempt(rec.attempts[i], to)]]

\* The loop over rec.attempts that moves the attempt with this id.  A terminal
\* attempt has no successor in the table, so the callers that test for one
\* first do the same as those that do not.
MoveAttempt(rec, id, to) ==
  [rec EXCEPT !.attempts =
     [i \in DOMAIN rec.attempts |->
        IF rec.attempts[i].id = id
        THEN TransitionAttempt(rec.attempts[i], to)
        ELSE rec.attempts[i]]]

\* Mutant: a record that has a current attempt keeps it.
GrantBesideCurrent(rec, id, w, b) ==
  LET own == NextGen(rec.ownership_generation)
      fence == NextGen(rec.fence_generation)
      added == [rec EXCEPT !.owner_worker = w,
                           !.owner_worker_boot = b,
                           !.ownership_generation = own,
                           !.fence_generation = fence,
                           !.attempts = Append(@, AttemptRecord(id, 1, w, b, own, fence))]
  IN  IF rec.current_attempt_id # 0 THEN added
      ELSE [added EXCEPT !.current_attempt_id = id,
                         !.current_attempt_generation = 1]

\* Mutants: the new attempt takes over the ownership and the fence of the one
\* it replaces, and every attempt is its record's first.
GrantUnfenced(rec, id, w, b) ==
  LET gen == NextGen(rec.current_attempt_generation)
  IN  [rec EXCEPT !.current_attempt_id = id,
                  !.current_attempt_generation = gen,
                  !.owner_worker = w,
                  !.owner_worker_boot = b,
                  !.attempts = Append(@, AttemptRecord(id, gen, w, b,
                                 rec.ownership_generation, rec.fence_generation))]

GrantAsFirst(rec, id, w, b) ==
  LET own   == NextGen(rec.ownership_generation)
      fence == NextGen(rec.fence_generation)
  IN  [rec EXCEPT !.current_attempt_id = id,
                  !.current_attempt_generation = 1,
                  !.owner_worker = w,
                  !.owner_worker_boot = b,
                  !.ownership_generation = own,
                  !.fence_generation = fence,
                  !.attempts = Append(@, AttemptRecord(id, 1, w, b, own, fence))]

\* A new current attempt: what dispatch() and resume() do to the record.
GrantAttempt(rec, id, w, b) ==
  LET gen   == IF rec.current_attempt_generation = 0
               THEN 1 ELSE NextGen(rec.current_attempt_generation)
      own   == NextGen(rec.ownership_generation)
      fence == NextGen(rec.fence_generation)
  IN  [rec EXCEPT !.current_attempt_id = id,
                  !.current_attempt_generation = gen,
                  !.owner_worker = w,
                  !.owner_worker_boot = b,
                  !.ownership_generation = own,
                  !.fence_generation = fence,
                  !.attempts = Append(@, AttemptRecord(id, gen, w, b, own, fence))]

\* The DispatchTicket for the record's newest attempt.
TicketFor(x, ep, rec) ==
  LET made == rec.attempts[Len(rec.attempts)]
  IN  [execution_id |-> x, execution_generation |-> rec.generation,
       attempt_id |-> made.id, attempt_generation |-> made.generation,
       worker_id |-> made.worker_id, worker_boot_id |-> made.worker_boot_id,
       epoch |-> ep, dispatch_id |-> made.dispatch_id,
       ownership_generation |-> made.ownership_generation,
       fence_generation |-> made.fence_generation]

-----------------------------------------------------------------------------
activate(ep, rec, e) ==
  IF StaleEpoch(ep, rec, e) THEN Decision("REJECT_STALE_EPOCH", rec)
  ELSE IF rec.state # "CREATED" THEN Decision("REJECT_ALREADY_TERMINAL", rec)
  ELSE Transition([rec EXCEPT !.ownership_generation = 1,
                              !.fence_generation = 1], "READY")

\* Mutant: the lifecycle table alone decides whether an attempt is made.
DispatchAnyState(ep, rec, e, id, w, b) ==
  IF StaleEpoch(ep, rec, e) THEN Decision("REJECT_STALE_EPOCH", rec)
  ELSE Transition(
         GrantAttempt(MoveAttempt(rec, rec.current_attempt_id, "SUPERSEDED"),
                      id, w, b),
         "DISPATCHED")

dispatch(ep, rec, e, id, w, b) ==
  IF StaleEpoch(ep, rec, e) THEN Decision("REJECT_STALE_EPOCH", rec)
  ELSE IF rec.state \in {"COMMITTED", "COMPLETED"}
       THEN Decision("REJECT_ALREADY_COMMITTED", rec)
  ELSE IF rec.state = "CANCELLED" THEN Decision("REJECT_CANCELLED", rec)
  ELSE IF rec.state \in {"FAILED", "SUPERSEDED", "TERMINAL"}
       THEN Decision("REJECT_ALREADY_TERMINAL", rec)
  ELSE IF rec.state \in {"PREEMPTED", "RESUMABLE"}
       THEN Decision("REJECT_PREEMPTED", rec)
  ELSE IF rec.state \in {"CANCELLATION_REQUESTED", "PREEMPTION_REQUESTED"}
       THEN Decision("DEFER", rec)
  ELSE IF rec.state \notin {"READY", "DISPATCHED", "RUNNING", "AMBIGUOUS",
                            "RESUMING"}
       THEN Decision("REJECT_NOT_OWNER", rec)
  ELSE Transition(
         GrantAttempt(MoveAttempt(rec, rec.current_attempt_id, "SUPERSEDED"),
                      id, w, b),
         "DISPATCHED")

ValidateStart(ep, rec, t) ==
  IF t.epoch # ep THEN "REJECT_STALE_EPOCH"
  ELSE IF t.execution_generation # rec.generation
       THEN "REJECT_STALE_GENERATION"
  ELSE IF rec.current_attempt_id = 0 \/ rec.current_attempt_generation = 0
       THEN "REJECT_NO_CURRENT_ATTEMPT"
  ELSE IF \/ t.attempt_id # rec.current_attempt_id
          \/ t.attempt_generation # rec.current_attempt_generation
       THEN "REJECT_STALE_ATTEMPT"
  ELSE IF \/ t.worker_id # rec.owner_worker
          \/ t.worker_boot_id # rec.owner_worker_boot
       THEN "REJECT_STALE_BOOT"
  ELSE IF t.ownership_generation # rec.ownership_generation
       THEN "REJECT_NOT_OWNER"
  ELSE IF t.fence_generation # rec.fence_generation
       THEN "REJECT_STALE_GENERATION"
  ELSE "ALLOW"

mark_running(ep, rec, t) ==
  IF rec.state \notin {"DISPATCHED", "RESUMING"}
  THEN Decision("REJECT_ALREADY_TERMINAL", rec)
  ELSE IF ValidateStart(ep, rec, t) # "ALLOW"
       THEN Decision(ValidateStart(ep, rec, t), rec)
  ELSE Transition(MoveAttempt(rec, t.attempt_id, "RUNNING"), "RUNNING")

\* Mutant: the generations are trusted to tell attempts apart.
ValidateGenerations(ep, rec, t) ==
  IF OtherEpoch(ep, rec, t.epoch) THEN "REJECT_STALE_EPOCH"
  ELSE IF \/ t.execution_generation # rec.generation
          \/ t.attempt_generation # rec.current_attempt_generation
          \/ t.ownership_generation # rec.ownership_generation
          \/ t.fence_generation # rec.fence_generation
       THEN "REJECT_STALE_GENERATION"
  ELSE IF \/ t.worker_id # rec.owner_worker
          \/ t.worker_boot_id # rec.owner_worker_boot
       THEN "REJECT_NOT_OWNER"
  ELSE "ALLOW"

ValidateTicket(ep, rec, t) ==
  IF \/ 0 \in {t.attempt_id, t.dispatch_id}
     \/ None \in {t.worker_id, t.worker_boot_id}
     \/ 0 \in {t.attempt_generation, t.execution_generation,
               t.ownership_generation, t.fence_generation}
  THEN "REJECT_INSUFFICIENT_AUTHORITY"
  ELSE IF OtherEpoch(ep, rec, t.epoch) THEN "REJECT_STALE_EPOCH"
  ELSE IF t.execution_generation # rec.generation
       THEN "REJECT_STALE_GENERATION"
  ELSE IF rec.current_attempt_id = 0 \/ rec.current_attempt_generation = 0
       THEN "REJECT_NO_CURRENT_ATTEMPT"
  ELSE IF \/ t.attempt_id # rec.current_attempt_id
          \/ t.attempt_generation # rec.current_attempt_generation
       THEN "REJECT_STALE_ATTEMPT"
  ELSE IF t.worker_id # rec.owner_worker THEN "REJECT_NOT_OWNER"
  ELSE IF t.worker_boot_id # rec.owner_worker_boot THEN "REJECT_STALE_BOOT"
  ELSE IF \/ t.ownership_generation # rec.ownership_generation
          \/ t.fence_generation # rec.fence_generation
       THEN "REJECT_STALE_GENERATION"
  ELSE IF \E i \in DOMAIN rec.attempts :
             /\ rec.attempts[i].id = t.attempt_id
             /\ rec.attempts[i].dispatch_id # t.dispatch_id
       THEN "REJECT_STALE_ATTEMPT"
  ELSE "ALLOW"

\* The tail of complete(): the attempt is marked and its digest stored before
\* the lifecycle table is asked, so a refusal leaves both behind.
CommitResult(rec, id, d) ==
  LET moved  == MoveAttempt(rec, id, "COMPLETED")
      marked == [moved EXCEPT !.attempts =
                   [i \in DOMAIN moved.attempts |->
                      IF moved.attempts[i].id = id
                      THEN [moved.attempts[i] EXCEPT !.result_digest = d]
                      ELSE moved.attempts[i]]]
      done   == Transition(marked, "COMPLETED")
  IN  IF done.code # "ALLOW" THEN done
      ELSE Transition(
             [done.rec EXCEPT !.committed_digest = d,
                              !.commit_generation = NextGen(@)], "COMMITTED")

\* d is None for a ticket whose has_result is false or whose digest is nil.
complete(ep, rec, t, d) ==
  IF ValidateTicket(ep, rec, t) # "ALLOW"
  THEN Decision(ValidateTicket(ep, rec, t), rec)
  ELSE IF rec.state = "COMMITTED"
       THEN Decision(IF d # None /\ d = rec.committed_digest
                     THEN "REJECT_ALREADY_COMMITTED"
                     ELSE "REJECT_CONFLICTING_COMPLETION", rec)
  ELSE IF rec.state = "CANCELLED" THEN Decision("REJECT_CANCELLED", rec)
  ELSE IF rec.state \in TerminalExecutionStates
       THEN Decision("REJECT_ALREADY_TERMINAL", rec)
  ELSE IF rec.state = "PREEMPTED" THEN Decision("REJECT_PREEMPTED", rec)
  ELSE IF d = None THEN Decision("REJECT_INSUFFICIENT_AUTHORITY", rec)
  ELSE CommitResult(rec, t.attempt_id, d)

-----------------------------------------------------------------------------
\* auth is the ControlRequest's authority_generation.
cancel(ep, rec, e, auth) ==
  LET bumped == [rec EXCEPT !.cancellation_generation = NextGen(@)]
  IN  IF OtherEpoch(ep, rec, e) THEN Decision("REJECT_STALE_EPOCH", rec)
      ELSE IF auth # rec.ownership_generation
           THEN Decision("REJECT_NOT_OWNER", rec)
      ELSE IF rec.state \in TerminalExecutionStates
           THEN Decision("REJECT_ALREADY_TERMINAL", rec)
      ELSE IF rec.state = "CANCELLATION_REQUESTED" THEN Decision("ALLOW", rec)
      ELSE IF rec.state = "CREATED" THEN Transition(bumped, "CANCELLED")
      ELSE IF rec.state \in {"READY", "DISPATCHED", "RUNNING"}
           THEN Transition(bumped, "CANCELLATION_REQUESTED")
      ELSE Decision("REJECT_NOT_OWNER", bumped)

finalize_cancel(ep, rec, e) ==
  IF StaleEpoch(ep, rec, e) THEN Decision("REJECT_STALE_EPOCH", rec)
  ELSE IF rec.state = "CANCELLED" THEN Decision("ALLOW", rec)
  ELSE IF rec.state # "CANCELLATION_REQUESTED"
       THEN Decision("REJECT_NOT_OWNER", rec)
  ELSE Transition(MoveAttempt(rec, rec.current_attempt_id, "CANCELLED"),
                  "CANCELLED")

preempt(ep, rec, e, auth) ==
  IF OtherEpoch(ep, rec, e) THEN Decision("REJECT_STALE_EPOCH", rec)
  ELSE IF auth # rec.ownership_generation THEN Decision("REJECT_NOT_OWNER", rec)
  ELSE IF rec.state \in TerminalExecutionStates
       THEN Decision("REJECT_ALREADY_TERMINAL", rec)
  ELSE IF rec.state = "PREEMPTION_REQUESTED" THEN Decision("ALLOW", rec)
  ELSE IF rec.state \in {"DISPATCHED", "RUNNING"}
       THEN Transition([rec EXCEPT !.preemption_generation = NextGen(@)],
                       "PREEMPTION_REQUESTED")
  ELSE Decision("REJECT_NOT_OWNER", rec)

acknowledge_preempt(ep, rec, e) ==
  IF StaleEpoch(ep, rec, e) THEN Decision("REJECT_STALE_EPOCH", rec)
  ELSE IF rec.state # "PREEMPTION_REQUESTED"
       THEN Decision("REJECT_NOT_OWNER", rec)
  ELSE Transition(MoveAttempt(rec, rec.current_attempt_id, "PREEMPTED"),
                  "PREEMPTED")

mark_resumable(ep, rec, e) ==
  IF StaleEpoch(ep, rec, e) THEN Decision("REJECT_STALE_EPOCH", rec)
  ELSE IF rec.state # "PREEMPTED" THEN Decision("REJECT_NOT_OWNER", rec)
  ELSE Transition(rec, "RESUMABLE")

\* resume() supersedes the current attempt only if that one is PREEMPTED.
SupersedePreempted(rec) ==
  IF \E i \in DOMAIN rec.attempts :
        /\ rec.attempts[i].id = rec.current_attempt_id
        /\ rec.attempts[i].state = "PREEMPTED"
  THEN MoveAttempt(rec, rec.current_attempt_id, "SUPERSEDED")
  ELSE rec

resume(ep, rec, e, rg, id, w, b) ==
  IF OtherEpoch(ep, rec, e) THEN Decision("REJECT_STALE_EPOCH", rec)
  ELSE IF rec.state # "RESUMABLE" THEN Decision("REJECT_PREEMPTED", rec)
  ELSE IF rg # NextGen(rec.resume_generation)
       THEN Decision("REJECT_STALE_GENERATION", rec)
  ELSE LET tr == Transition(
                   GrantAttempt([SupersedePreempted(rec) EXCEPT
                                   !.resume_generation = rg], id, w, b),
                   "RESUMING")
       IN  IF tr.code = "ALLOW" THEN Decision("RESUME_ALLOWED", tr.rec) ELSE tr

-----------------------------------------------------------------------------
\* Mutant: the loss of a running attempt is noted for the execution alone.
LoseExecutionOnly(ep, rec, e, w, b) ==
  LET lost == MoveAttempt(rec, rec.current_attempt_id, "LOST")
  IN  IF StaleEpoch(ep, rec, e) THEN Decision("REJECT_STALE_EPOCH", rec)
      ELSE IF rec.state \in TerminalExecutionStates
           THEN Decision("REJECT_ALREADY_TERMINAL", rec)
      ELSE IF rec.owner_worker # w \/ rec.owner_worker_boot # b
           THEN Decision("REJECT_STALE_BOOT", rec)
      ELSE IF rec.state = "DISPATCHED" THEN Transition(lost, "READY")
      ELSE IF rec.state = "RUNNING" THEN Transition(rec, "AMBIGUOUS")
      ELSE IF rec.state = "CANCELLATION_REQUESTED"
           THEN Transition(lost, "CANCELLED")
      ELSE IF rec.state = "PREEMPTION_REQUESTED"
           THEN Transition(lost, "PREEMPTED")
      ELSE Decision("DEFER", rec)

mark_worker_lost(ep, rec, e, w, b) ==
  LET lost == MoveAttempt(rec, rec.current_attempt_id, "LOST")
  IN  IF StaleEpoch(ep, rec, e) THEN Decision("REJECT_STALE_EPOCH", rec)
      ELSE IF rec.state \in TerminalExecutionStates
           THEN Decision("REJECT_ALREADY_TERMINAL", rec)
      ELSE IF rec.owner_worker # w \/ rec.owner_worker_boot # b
           THEN Decision("REJECT_STALE_BOOT", rec)
      ELSE IF rec.state = "DISPATCHED" THEN Transition(lost, "READY")
      ELSE IF rec.state = "RUNNING" THEN Transition(lost, "AMBIGUOUS")
      ELSE IF rec.state = "CANCELLATION_REQUESTED"
           THEN Transition(lost, "CANCELLED")
      ELSE IF rec.state = "PREEMPTION_REQUESTED"
           THEN Transition(lost, "PREEMPTED")
      ELSE Decision("DEFER", rec)

\* Mutant: the superseded execution keeps its current attempt's generation.
SupersedeHalfReset(ep, rec, e) ==
  IF OtherEpoch(ep, rec, e) THEN Decision("REJECT_STALE_EPOCH", rec)
  ELSE IF rec.state \in TerminalExecutionStates
       THEN Decision("REJECT_ALREADY_TERMINAL", rec)
  ELSE Transition(
         [MoveAttempt(rec, rec.current_attempt_id, "SUPERSEDED") EXCEPT
            !.generation = NextGen(@),
            !.current_attempt_id = 0,
            !.owner_worker = None,
            !.owner_worker_boot = None],
         "SUPERSEDED")

\* The generation moves and the owner is dropped before the table is asked.
supersede(ep, rec, e) ==
  IF OtherEpoch(ep, rec, e) THEN Decision("REJECT_STALE_EPOCH", rec)
  ELSE IF rec.state \in TerminalExecutionStates
       THEN Decision("REJECT_ALREADY_TERMINAL", rec)
  ELSE Transition(
         [MoveAttempt(rec, rec.current_attempt_id, "SUPERSEDED") EXCEPT
            !.generation = NextGen(@),
            !.current_attempt_id = 0,
            !.current_attempt_generation = 0,
            !.owner_worker = None,
            !.owner_worker_boot = None],
         "SUPERSEDED")
=============================================================================
