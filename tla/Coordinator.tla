---------------------------- MODULE Coordinator ----------------------------
(***************************************************************************)
(* The coordinator process (coordinator/coordinator.cpp): the engine, the  *)
(* store and the table of connections behind one decision thread, and the  *)
(* death and restart of the process at any moment, in the middle of a save *)
(* included.                                                               *)
(*                                                                         *)
(* Each frame handler is one action: the engine's operation, the writes to *)
(* the connection table, and the start of the save where the handler       *)
(* calls persist().  The decision thread then works through the save       *)
(* before it takes another frame, and sends the handler's reply last.      *)
(*                                                                         *)
(* Any client may send any frame at any time, a START or COMPLETE with any *)
(* ticket ever issued included, so a handler may run whenever the decision *)
(* thread is free: the inbound queue adds no order of its own.  QUERY,     *)
(* PING, REGISTER_WORKER and a DISPATCH to a worker that is not connected  *)
(* change nothing and are left out.                                        *)
(***************************************************************************)
EXTENDS Engine, Store

CONSTANTS
  Persistent,  \* whether the process was started with --persist
  Conns,       \* bound: the connections that are open at one time
  MaxIds       \* bound: the attempt ids drawn, by all incarnations together

ASSUME CoordinatorAssumption ==
  /\ None \notin Execs
  /\ MaxIds \in Nat
  /\ Persistent \in BOOLEAN

VARIABLES
  own_epoch,   \* Coordinator::epoch_, which the engine's own may overtake
  conns,       \* conns_: a function on the open connections
  reply,       \* the commit the pending COMPLETE_ACK reports, or None
  kept,        \* history: the commits reported since records were last empty
               \* whose save returned true
  started      \* history: the attempts whose START was allowed

mem == <<epoch, records, tickets, used, decision>>

cvars == <<mem, svars, own_epoch, conns, reply, kept, started>>

ConnEntries ==
  [is_worker : BOOLEAN, worker_id : Workers \cup {None},
   boot : Boots \cup {None}, active_execution : Execs \cup {None}]

Commits == [execution : Execs, digest : Digests]

NewConn ==
  [is_worker |-> FALSE, worker_id |-> None, boot |-> None,
   active_execution |-> None]

EmptyRecords == [x \in {} |-> NewRecord(1)]
NoConns == [c \in {} |-> NewConn]

\* The variables hold values of the C++ types; only a COMPLETE that is being
\* persisted owes a reply.
CTypeOK ==
  /\ TypeOK
  /\ own_epoch \in Epochs
  /\ saving \in SaveSteps
  /\ DOMAIN conns \subseteq Conns
  /\ \A c \in DOMAIN conns : conns[c] \in ConnEntries
  /\ reply \in Commits \cup {None}
  /\ reply # None => saving # "idle"
  /\ kept \subseteq Commits

CInit ==
  /\ Init
  /\ StoreInit
  /\ own_epoch = epoch
  /\ conns = NoConns
  /\ reply = None
  /\ kept = {}
  /\ started = {}

-----------------------------------------------------------------------------
Free == saving = "idle"

Persist ==
  /\ saving' = IF Persistent THEN "write" ELSE "idle"
  /\ UNCHANGED <<target, tmp>>

PersistIf(needed) == IF needed THEN Persist ELSE UNCHANGED svars

\* The connections of a worker: which of them is found first is unspecified
\* (the table is an unordered_map), and the boot id is not compared.
ConnsOf(w) == {c \in DOMAIN conns : conns[c].is_worker /\ conns[c].worker_id = w}

Accept(c) ==
  /\ c \notin DOMAIN conns
  /\ conns' = [k \in DOMAIN conns \cup {c} |->
                 IF k = c THEN NewConn ELSE conns[k]]
  /\ UNCHANGED <<mem, svars, own_epoch, reply, kept, started>>

\* A second HELLO renames the connection and keeps its active execution.
Hello(c, worker, w, b) ==
  /\ Free
  /\ c \in DOMAIN conns
  /\ conns' = [conns EXCEPT ![c].is_worker = worker,
                            ![c].worker_id = w,
                            ![c].boot = b]
  /\ UNCHANGED <<mem, svars, own_epoch, reply, kept, started>>

\* create, then activate if that was allowed.
Submit(x, e) ==
  LET ep   == AdoptEpoch(epoch, e)
      made == activate(ep, NewRecord(ep), e)
  IN  /\ Free
      /\ epoch' = ep
      /\ \/ /\ e >= epoch
            /\ ~Known(x)
            /\ records' = [y \in DOMAIN records \cup {x} |->
                             IF y = x THEN made.rec ELSE records[y]]
            /\ decision' = made.code
         \/ /\ e < epoch \/ Known(x)
            /\ decision' = IF e < epoch THEN "REJECT_STALE_EPOCH"
                                        ELSE "REJECT_EXISTS"
            /\ UNCHANGED records
      /\ Persist
      /\ UNCHANGED <<tickets, used, own_epoch, conns, reply, kept, started>>

\* Mutant: the connection is not told what it carries.
DispatchUntracked(c, x, w, b, e) ==
  /\ Free
  /\ Dispatch(x, w, b, e)
  /\ used' <= MaxIds
  /\ PersistIf(decision' = "ALLOW")
  /\ UNCHANGED <<own_epoch, conns, reply, kept, started>>

\* The ticket goes out, over connection c, before the record is saved.
DispatchTo(c, x, w, b, e) ==
  /\ Free
  /\ Dispatch(x, w, b, e)
  /\ used' <= MaxIds
  /\ conns' = IF decision' = "ALLOW"
              THEN [conns EXCEPT ![c].active_execution = x] ELSE conns
  /\ PersistIf(decision' = "ALLOW")
  /\ UNCHANGED <<own_epoch, reply, kept, started>>

HandleDispatch(x, w, b, e) == \E c \in ConnsOf(w) : DispatchTo(c, x, w, b, e)

\* START is not persisted.
HandleStart(t) ==
  /\ Free
  /\ MarkRunning(t)
  /\ started' = IF decision' = "ALLOW" THEN started \cup {t.attempt_id}
                                       ELSE started
  /\ UNCHANGED <<svars, own_epoch, conns, reply, kept>>

\* Mutant: the commit is acknowledged without a save.
CompleteUnsaved(t, d) ==
  /\ Free
  /\ Complete(t, d)
  /\ reply' = IF decision' = "ALLOW"
              THEN [execution |-> t.execution_id, digest |-> d] ELSE None
  /\ saving' = IF decision' = "ALLOW" THEN "done" ELSE "idle"
  /\ UNCHANGED <<target, tmp, own_epoch, conns, kept, started>>

HandleComplete(t, d) ==
  /\ Free
  /\ Complete(t, d)
  /\ reply' = IF decision' = "ALLOW" /\ Persistent
              THEN [execution |-> t.execution_id, digest |-> d] ELSE None
  /\ PersistIf(decision' = "ALLOW")
  /\ UNCHANGED <<own_epoch, conns, kept, started>>

\* A handler that calls the engine and persists whatever was decided.
Control(operation) ==
  /\ Free
  /\ operation
  /\ Persist
  /\ UNCHANGED <<own_epoch, conns, reply, kept, started>>

HandleCancel(x, e, auth) == Control(Cancel(x, e, auth))
HandlePreempt(x, e, auth) == Control(Preempt(x, e, auth))
HandleAckPreempt(x, e) == Control(AcknowledgePreempt(x, e))
HandleMarkResumable(x, e) == Control(MarkResumable(x, e))
HandleWorkerLost(x, w, b, e) == Control(MarkWorkerLost(x, w, b, e))

\* A resume is granted to a worker that is not connected, and is then neither
\* sent nor persisted; no connection is told that it carries the execution.
HandleResume(x, w, b, e, rg) ==
  /\ Free
  /\ Resume(x, w, b, e, rg)
  /\ used' <= MaxIds
  /\ PersistIf(decision' = "RESUME_ALLOWED" /\ ConnsOf(w) # {})
  /\ UNCHANGED <<own_epoch, conns, reply, kept, started>>

\* The loss is reported under the coordinator's own epoch.
ConnClosed(c) ==
  /\ Free
  /\ c \in DOMAIN conns
  /\ conns' = [k \in DOMAIN conns \ {c} |-> conns[k]]
  /\ IF conns[c].is_worker /\ conns[c].active_execution # None
     THEN /\ MarkWorkerLost(conns[c].active_execution, conns[c].worker_id,
                            conns[c].boot, own_epoch)
          /\ Persist
     ELSE UNCHANGED <<mem, svars>>
  /\ UNCHANGED <<own_epoch, reply, kept, started>>

Saving ==
  /\ SaveStep(Snapshot(own_epoch, records))
  /\ UNCHANGED <<mem, own_epoch, conns, reply, kept, started>>

\* persist() ignores what save() returned, and the reply goes out.
Reply ==
  /\ saving \in {"done", "failed"}
  /\ saving' = "idle"
  /\ reply' = None
  /\ kept' = IF saving = "done" /\ reply # None THEN kept \cup {reply} ELSE kept
  /\ UNCHANGED <<mem, target, tmp, own_epoch, conns, started>>

-----------------------------------------------------------------------------
\* Mutant: the epoch is taken from the file whether or not it loads.
UncheckedRecoveredEpoch(e) ==
  IF Loads(target) THEN AdoptEpoch(e, target.epoch) ELSE 0

RecoveredEpoch(e) ==
  IF Loads(target) THEN AdoptEpoch(e, target.epoch) ELSE e

\* replace_records adopts the highest epoch of the records it is given.
HighestEpoch(ep, recs) ==
  LET es == {ep} \cup {recs[x].coordinator_epoch : x \in DOMAIN recs}
  IN  CHOOSE m \in es : \A n \in es : n <= m

\* Mutant: the recovered records are dropped.
ForgetRecords == EmptyRecords

RecoveredRecords == IF Loads(target) THEN target.records ELSE EmptyRecords

\* The process dies, at any moment, and is started again with --epoch=e: the
\* constructor starts empty, without a word, if the file does not load.
Restart(e) ==
  /\ StoreDies
  /\ own_epoch' = RecoveredEpoch(e)
  /\ records' = RecoveredRecords
  /\ epoch' = HighestEpoch(RecoveredEpoch(e), RecoveredRecords)
  /\ conns' = NoConns
  /\ reply' = None
  /\ kept' = IF Loads(target) THEN kept ELSE {}
  /\ UNCHANGED <<tickets, used, decision, started>>

\* dispatch() throws for an execution that does not exist, and nothing on the
\* decision thread catches it: the process terminates.
DispatchUnknown(x, w, e) ==
  /\ Free
  /\ ConnsOf(w) # {}
  /\ ~Known(x)
  /\ Restart(e)

CNext ==
  \/ \E c \in Conns :
       \/ Accept(c)
       \/ ConnClosed(c)
       \/ \E w \in Workers, b \in Boots : Hello(c, TRUE, w, b)
       \/ Hello(c, FALSE, None, None)
  \/ \E x \in Execs, e \in Epochs :
       \/ Submit(x, e)
       \/ HandleAckPreempt(x, e)
       \/ HandleMarkResumable(x, e)
       \/ \E auth \in Gens : HandleCancel(x, e, auth) \/ HandlePreempt(x, e, auth)
       \/ \E w \in Workers, b \in Boots :
            \/ HandleDispatch(x, w, b, e)
            \/ HandleWorkerLost(x, w, b, e)
            \/ \E rg \in Gens : HandleResume(x, w, b, e, rg)
       \/ \E w \in Workers : DispatchUnknown(x, w, e)
  \/ \E t \in Presented :
       \/ HandleStart(t)
       \/ \E d \in Digests \cup {None} : HandleComplete(t, d)
  \/ Saving
  \/ Reply
  \/ \E e \in Epochs : Restart(e)

CSpec == CInit /\ [][CNext]_cvars

-----------------------------------------------------------------------------
\* Of all tickets ever sent for an execution, those of attempts that a crash
\* erased before they were saved included, at most one is good at any time:
\* generations repeat after a restart, but attempt ids are drawn fresh.
OneAuthorityAcrossRestarts ==
  \A t, u \in tickets :
    /\ t.execution_id = u.execution_id
    /\ Known(t.execution_id)
    /\ Authorised(t)
    /\ Authorised(u)
    => t = u

HasCommit(recs, k) ==
  /\ k.execution \in DOMAIN recs
  /\ recs[k.execution].state = "COMMITTED"
  /\ recs[k.execution].committed_digest = k.digest

\* A commit whose save succeeded is in memory and in whatever file a restart
\* would accept, with the digest that was reported: a later crash, failed
\* save or torn write can lose the whole file but never roll one commit back.
SavedCommitsSurvive ==
  \A k \in kept :
    /\ HasCommit(records, k)
    /\ Loads(target) => HasCommit(target.records, k)

\* What a restart would bring back is a past of what is in memory: no outcome
\* the memory does not have, no attempt it does not know, no generation and no
\* epoch ahead, except the attempt generation that a supersede has dropped
\* since.  The coordinator's own epoch may be behind the engine's.
DiskBehindMemory ==
  Loads(target) =>
    /\ target.epoch <= own_epoch
    /\ own_epoch <= epoch
    /\ \A x \in DOMAIN target.records :
         /\ Known(x)
         /\ FrozenIfTerminal(target.records[x], records[x])
         /\ HistoryGrows(target.records[x], records[x])
         /\ AuthorityAdvances(target.records[x], records[x])

-----------------------------------------------------------------------------
(* What the repository says of the coordinator or its store, and the code  *)
(* does not do.                                                            *)

\* "Persist all records and the coordinator epoch atomically"
\* (persistence.hpp): once a commit was saved, every restart finds a file.
SaveIsAtomic ==
  [][\A e \in Epochs : Restart(e) /\ kept # {} => target # NoFile]_cvars

\* "a recovered snapshot is byte-for-byte identical to what was saved"
\* (persistence.hpp): a snapshot that was written whole loads.
SavedSnapshotLoads == target \notin {NoFile, Torn} => Loads(target)

\* "Adopt the highest epoch recorded so recovered authority does not go
\* backward" (engine.cpp, replace_records): a ticket the engine refuses because
\* a newer epoch has begun is refused after a restart too, if the process is
\* started under no lower epoch than before.
RestartKeepsEpochFence ==
  [][\A e \in Epochs : e >= own_epoch /\ Restart(e) =>
       \A t \in tickets :
         t.epoch < epoch /\ t.execution_id \in DOMAIN records' =>
           ValidateTicket(epoch', records'[t.execution_id], t) # "ALLOW"]_cvars

\* "Worker died before it executed: known NOT completed -> back to READY"
\* (engine.cpp): an execution that is READY again had not been started.
LostBeforeStart ==
  \A x \in DOMAIN records :
    records[x].state = "READY" /\ records[x].attempts # <<>> =>
      Newest(records[x]).id \notin started
=============================================================================
