------------------------------ MODULE MCEngine ------------------------------
(* TLC instances of Engine. *)
EXTENDS Engine, TLC

IsCurrent(x, id) == Known(x) /\ id = records[x].current_attempt_id

\* Without what no action and no invariant reads: the counters of cancellations
\* and preemptions, and of an attempt that is no longer current its boot id,
\* its result, and at which end it has come to rest.
BareAttempt(at) ==
  [at EXCEPT !.worker_boot_id = None,
             !.result_digest = None,
             !.state = IF @ \in {"LOST", "COMPLETED"} THEN "SUPERSEDED" ELSE @]

Bare(x) ==
  LET ats == records[x].attempts
  IN  [records[x] EXCEPT
         !.cancellation_generation = 0,
         !.preemption_generation = 0,
         !.attempts = [i \in DOMAIN ats |->
                         IF IsCurrent(x, ats[i].id) THEN ats[i]
                         ELSE BareAttempt(ats[i])]]

\* decision is output only, and a ticket whose attempt is no longer current is
\* refused whatever else it holds: no attempt becomes current again.
View ==
  <<epoch, [x \in DOMAIN records |-> Bare(x)], used,
    {t \in tickets : IsCurrent(t.execution_id, t.attempt_id)}>>

Symmetry ==
  Permutations(Execs) \cup Permutations(Workers) \cup Permutations(Boots)
    \cup Permutations(Digests)
=============================================================================
