--------------------------- MODULE MCCoordinator ---------------------------
(* TLC instances of Coordinator. *)
EXTENDS Coordinator

\* The counters of cancellations and preemptions only count.
Bare(recs) ==
  [x \in DOMAIN recs |-> [recs[x] EXCEPT !.cancellation_generation = 0,
                                         !.preemption_generation = 0]]

BareFile(f) ==
  IF f \in {NoFile, Torn} THEN f ELSE [f EXCEPT !.records = Bare(@)]

\* decision is output only, a save overwrites tmp before it reads it, and no
\* action reads started, which one property is about.  Once the last id is
\* drawn the connections no longer matter: closing one does what some
\* WORKER_LOST does, and a refused DISPATCH what a refused SUBMIT does whose
\* save fails.
View ==
  <<epoch, Bare(records), tickets, used, BareFile(target), saving,
    IF saving \in {"replace", "remove", "rename"} THEN BareFile(tmp) ELSE NoFile,
    own_epoch, IF used = MaxIds THEN NoConns ELSE conns, reply, kept>>

ViewStarted == <<View, started>>
=============================================================================
