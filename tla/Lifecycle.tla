----------------------------- MODULE Lifecycle -----------------------------
(***************************************************************************)
(* The vocabulary of Execution Fabric: the states a logical execution and  *)
(* a physical attempt may be in, the two guarded transition tables         *)
(* (include/execution_fabric/state_machine.hpp), the decision codes        *)
(* (decision.hpp) and the saturating generation counter (generation.hpp).  *)
(***************************************************************************)
EXTENDS Naturals

CONSTANT MaxGen    \* the largest generation: 2^64 - 1 in the code

ASSUME MaxGenAssumption == MaxGen \in Nat \ {0}

(***************************************************************************)
(* A generation counts from 1; 0 is "no generation has been established".  *)
(* Its successor saturates instead of wrapping round.                      *)
(***************************************************************************)
Gens == 0 .. MaxGen

\* Mutant: the counter without its saturation check.
UncheckedNextGen(g) == g + 1

NextGen(g) == IF g = MaxGen THEN g ELSE g + 1

ExecutionStates ==
  {"CREATED", "READY", "DISPATCHED", "RUNNING", "CANCELLATION_REQUESTED",
   "PREEMPTION_REQUESTED", "PREEMPTED", "RESUMABLE", "RESUMING",
   "COMPLETION_PENDING", "COMPLETED", "COMMITTED", "FAILED", "CANCELLED",
   "AMBIGUOUS", "SUPERSEDED", "TERMINAL"}

AttemptStates ==
  {"CREATED", "DISPATCHED", "RUNNING", "PREEMPTED", "COMPLETE_PENDING",
   "COMPLETED", "FAILED", "CANCELLED", "LOST", "SUPERSEDED", "TERMINAL"}

TerminalExecutionStates ==
  {"COMMITTED", "FAILED", "CANCELLED", "SUPERSEDED", "TERMINAL"}

TerminalAttemptStates ==
  {"FAILED", "CANCELLED", "LOST", "SUPERSEDED", "TERMINAL"}

\* ExecutionStateMachine::from.
ExecutionFrom(from, to) ==
  \/ from = "CREATED" /\ to \in {"READY", "CANCELLED", "FAILED", "TERMINAL"}
  \/ from = "READY"
     /\ to \in {"DISPATCHED", "CANCELLATION_REQUESTED", "CANCELLED", "FAILED",
                "SUPERSEDED", "TERMINAL"}
  \/ from = "DISPATCHED"
     /\ to \in {"DISPATCHED", "READY", "RUNNING", "COMPLETED",
                "COMPLETION_PENDING", "CANCELLATION_REQUESTED",
                "PREEMPTION_REQUESTED", "CANCELLED", "FAILED", "AMBIGUOUS",
                "SUPERSEDED", "TERMINAL"}
  \/ from = "RUNNING"
     /\ to \in {"DISPATCHED", "COMPLETED", "COMPLETION_PENDING",
                "CANCELLATION_REQUESTED", "PREEMPTION_REQUESTED", "PREEMPTED",
                "FAILED", "CANCELLED", "AMBIGUOUS", "SUPERSEDED", "TERMINAL"}
  \/ from = "CANCELLATION_REQUESTED"
     /\ to \in {"CANCELLED", "COMPLETED", "COMPLETION_PENDING", "FAILED",
                "AMBIGUOUS", "TERMINAL"}
  \/ from = "PREEMPTION_REQUESTED"
     /\ to \in {"PREEMPTED", "COMPLETED", "FAILED", "CANCELLED", "AMBIGUOUS",
                "TERMINAL"}
  \/ from = "PREEMPTED" /\ to \in {"RESUMABLE", "FAILED", "CANCELLED", "TERMINAL"}
  \/ from = "RESUMABLE" /\ to \in {"RESUMING", "CANCELLED", "FAILED", "TERMINAL"}
  \/ from = "RESUMING"
     /\ to \in {"RUNNING", "FAILED", "CANCELLED", "AMBIGUOUS", "TERMINAL"}
  \/ from = "COMPLETION_PENDING"
     /\ to \in {"COMPLETED", "FAILED", "AMBIGUOUS", "TERMINAL"}
  \/ from = "COMPLETED" /\ to \in {"COMMITTED", "FAILED", "AMBIGUOUS", "TERMINAL"}
  \/ from = "AMBIGUOUS"
     /\ to \in {"COMPLETED", "DISPATCHED", "FAILED", "CANCELLED", "SUPERSEDED",
                "TERMINAL"}

\* AttemptStateMachine::from.
AttemptFrom(from, to) ==
  \/ from = "CREATED" /\ to \in {"DISPATCHED", "CANCELLED", "FAILED", "TERMINAL"}
  \/ from = "DISPATCHED"
     /\ to \in {"RUNNING", "COMPLETE_PENDING", "COMPLETED", "FAILED",
                "CANCELLED", "LOST", "SUPERSEDED", "TERMINAL"}
  \/ from = "RUNNING"
     /\ to \in {"COMPLETE_PENDING", "COMPLETED", "FAILED", "CANCELLED",
                "PREEMPTED", "LOST", "SUPERSEDED", "TERMINAL"}
  \/ from = "PREEMPTED" /\ to \in {"SUPERSEDED", "TERMINAL"}
  \/ from = "COMPLETE_PENDING" /\ to \in {"COMPLETED", "FAILED", "LOST", "TERMINAL"}
  \/ from = "COMPLETED" /\ to = "TERMINAL"

\* The codes the engine's operations return, and the ones that grant something.
DecisionCodes ==
  {"ALLOW", "RESUME_ALLOWED", "DEFER", "REJECT_STALE_EPOCH",
   "REJECT_STALE_BOOT", "REJECT_STALE_ATTEMPT", "REJECT_STALE_GENERATION",
   "REJECT_NOT_OWNER", "REJECT_ALREADY_TERMINAL", "REJECT_CANCELLED",
   "REJECT_PREEMPTED", "REJECT_CONFLICTING_COMPLETION",
   "REJECT_ALREADY_COMMITTED", "REJECT_INSUFFICIENT_AUTHORITY",
   "REJECT_EXISTS", "REJECT_UNKNOWN_EXECUTION", "REJECT_NO_CURRENT_ATTEMPT"}

AllowedCodes == {"ALLOW", "RESUME_ALLOWED"}
=============================================================================
