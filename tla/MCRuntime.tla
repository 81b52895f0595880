----------------------------- MODULE MCRuntime -----------------------------
(* TLC instances of Runtime. *)
EXTENDS Runtime, TLC

\* What no action and no property here reads: the latest decision, counters
\* that only count, results, and all but the newest attempt of a history.
Bare(rec) ==
  [rec EXCEPT !.cancellation_generation = 0,
              !.preemption_generation = 0,
              !.attempts =
                IF @ = <<>> THEN @
                ELSE <<[Newest(rec) EXCEPT !.result_digest = None]>>]

View ==
  <<epoch, [x \in DOMAIN records |-> Bare(records[x])], used, own_epoch, conns,
    peer, id, up, down, job, reader, queue, sent>>

Symmetry == Permutations(Execs)
=============================================================================
