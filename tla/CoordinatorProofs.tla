------------------------- MODULE CoordinatorProofs -------------------------
(***************************************************************************)
(* The coordinator's safety across crashes and restarts, for any number of *)
(* executions, workers, connections, epochs and attempts, either platform. *)
(*                                                                         *)
(* A restart forgets attempts whose tickets are still in workers' hands,   *)
(* so the engine's own invariant, in which every ticket names an attempt   *)
(* of the history, does not survive it.  What does is that ids are never   *)
(* drawn twice, that the memory is unchanged while a save is under way,    *)
(* and that a file which loads is a past of the memory.                    *)
(***************************************************************************)
EXTENDS EngineTheorems, Coordinator, WellFoundedInduction

-----------------------------------------------------------------------------
(* The invariant.                                                          *)

TicketsDrawn == \A t \in tickets : t.attempt_id <= used

\* A connection that said it is a worker gave its ids.
WorkersNamed ==
  \A c \in DOMAIN conns :
    conns[c].is_worker => conns[c].worker_id \in Workers /\ conns[c].boot \in Boots

\* rec is a past of new.
Behind(rec, new) ==
  /\ FrozenIfTerminal(rec, new)
  /\ HistoryGrows(rec, new)
  /\ AuthorityAdvances(rec, new)

\* The snapshot f is a past of the memory, and its records are sound.
PastOfMemory(f) ==
  /\ f.epoch \in Epochs
  /\ f.epoch <= own_epoch
  /\ \A x \in DOMAIN f.records :
       /\ Known(x)
       /\ RecInv(used, f.records[x])
       /\ Behind(f.records[x], records[x])

\* What a save writes, if the write is not torn.
OfMemory(f) == f \in {Torn, Snapshot(own_epoch, records)}

\* No handler runs while a save is under way.
SaveInv ==
  /\ saving \in {"replace", "remove", "rename"} => OfMemory(tmp)
  /\ saving = "done" => OfMemory(target)
  /\ Loads(target) => PastOfMemory(target)

\* The commits that were reported, or are about to be.
CommitsInv ==
  /\ SavedCommitsSurvive
  /\ reply # None => HasCommit(records, reply)

CInv ==
  /\ CTypeOK
  /\ RecordsInv
  /\ TicketsDrawn
  /\ TicketsDistinct
  /\ WorkersNamed
  /\ own_epoch <= epoch
  /\ SaveInv
  /\ CommitsInv

-----------------------------------------------------------------------------
(* Pasts.                                                                  *)

\* A record is a past of itself.
LEMMA BehindSelf ==
  ASSUME NEW n \in Nat, NEW rec, RecInv(n, rec)
  PROVE  Behind(rec, rec)
  BY StutterStep DEF Behind, QuietStep, RecStep

\* A past of a record is a past of what any operation makes of it.
LEMMA BehindStep ==
  ASSUME NEW n \in Nat, NEW k \in Nat, NEW old, NEW rec, NEW new,
         RecInv(n, old), RecInv(n, rec), RecInv(k, new),
         Behind(old, rec), RecStep(rec, new)
  PROVE  Behind(old, new)
  <1>1. /\ old \in ExecutionRecords
        /\ rec \in ExecutionRecords
        /\ new \in ExecutionRecords
    BY DEF RecInv
  <1>2. /\ Len(old.attempts) <= Len(rec.attempts)
        /\ Len(rec.attempts) <= Len(new.attempts)
        /\ \A i \in DOMAIN old.attempts :
             /\ i \in DOMAIN rec.attempts
             /\ old.attempts[i] \in AttemptRecords
             /\ rec.attempts[i] \in AttemptRecords
             /\ SameIdentity(old.attempts[i], rec.attempts[i])
             /\ SameIdentity(rec.attempts[i], new.attempts[i])
    BY <1>1, LastIndex DEF Behind, RecStep, HistoryGrows
  <1>3. FrozenIfTerminal(old, new)
    BY DEF Behind, RecStep, FrozenIfTerminal
  <1>4. HistoryGrows(old, new)
    <2>1. Len(old.attempts) <= Len(new.attempts)
      BY <1>1, <1>2, LastIndex
    <2>2. ASSUME NEW i \in DOMAIN old.attempts
          PROVE  SameIdentity(old.attempts[i], new.attempts[i])
      BY <1>2, <2>2 DEF SameIdentity
    <2>3. ASSUME NEW i \in DOMAIN old.attempts,
                 old.attempts[i].id # old.current_attempt_id
          PROVE  new.attempts[i] = old.attempts[i]
      <3>1. rec.attempts[i] = old.attempts[i]
        BY <2>3 DEF Behind, HistoryGrows
      <3>2. old.attempts[i].id \in Nat \ {0}
        BY <1>2 DEF AttemptRecords
      <3>3. rec.current_attempt_id \notin {0, old.current_attempt_id} =>
              old.attempts[i].id < rec.current_attempt_id
        BY <2>3 DEF Behind, AuthorityAdvances
      <3>4. rec.current_attempt_id \in Nat
        BY <1>1 DEF ExecutionRecords
      <3>5. rec.attempts[i].id # rec.current_attempt_id
        BY <2>3, <3>1, <3>2, <3>3, <3>4
      <3>6. new.attempts[i] = rec.attempts[i]
        BY <1>2, <3>5 DEF RecStep, HistoryGrows
      <3> QED
        BY <3>1, <3>6
    <2> QED
      BY <2>1, <2>2, <2>3 DEF HistoryGrows
  <1>5. AuthorityAdvances(old, new)
    <2>1. /\ old.generation <= new.generation
          /\ old.ownership_generation <= new.ownership_generation
          /\ old.fence_generation <= new.fence_generation
          /\ old.resume_generation <= new.resume_generation
          /\ old.coordinator_epoch = new.coordinator_epoch
      <3>1. \A r \in ExecutionRecords :
              /\ r.generation \in Nat /\ r.ownership_generation \in Nat
              /\ r.fence_generation \in Nat /\ r.resume_generation \in Nat
        BY DEF ExecutionRecords, Gens
      <3>2. AuthorityAdvances(old, rec) /\ AuthorityAdvances(rec, new)
        BY DEF Behind, RecStep
      <3> QED
        BY <1>1, <3>1, <3>2 DEF AuthorityAdvances
    <2>2. ASSUME new.current_attempt_id \notin {0, old.current_attempt_id},
                 NEW i \in DOMAIN old.attempts
          PROVE  old.attempts[i].id < new.current_attempt_id
      <3>1. CASE new.current_attempt_id = rec.current_attempt_id
        BY <2>2, <3>1 DEF Behind, AuthorityAdvances
      <3>2. CASE new.current_attempt_id # rec.current_attempt_id
        <4>1. rec.attempts[i].id < new.current_attempt_id
          BY <1>2, <2>2, <3>2 DEF RecStep, AuthorityAdvances
        <4> QED
          BY <1>2, <4>1 DEF SameIdentity
      <3> QED
        BY <3>1, <3>2
    <2>3. AttemptGenerationAdvances(old, new)
      <3>1. \A r \in ExecutionRecords :
              /\ r.generation \in 0 .. MaxGen
              /\ r.current_attempt_generation \in 0 .. MaxGen
        BY DEF ExecutionRecords, Gens
      <3>2. /\ old.generation <= rec.generation
            /\ rec.generation <= new.generation
            /\ AttemptGenerationAdvances(old, rec)
            /\ AttemptGenerationAdvances(rec, new)
        BY DEF Behind, RecStep, AuthorityAdvances
      <3> QED
        BY <1>1, <3>1, <3>2, MaxGenAssumption DEF AttemptGenerationAdvances
    <2> QED
      BY <2>1, <2>2, <2>3 DEF AuthorityAdvances
  <1> QED
    BY <1>3, <1>4, <1>5 DEF Behind

\* A bound on the ids of a past that is looser still holds.
LEMMA RecInvUpTo ==
  ASSUME NEW n \in Nat, NEW k \in Nat, n <= k, NEW rec, RecInv(n, rec)
  PROVE  RecInv(k, rec)
  <1>1. \A i \in DOMAIN rec.attempts : rec.attempts[i] \in AttemptRecords
    BY LastIndex DEF RecInv
  <1>2. IdsBelow(k, rec)
    BY <1>1 DEF RecInv, IdsBelow, AttemptRecords
  <1> QED
    BY <1>2 DEF RecInv

\* replace_records: the highest of the epochs it is given is one of them.
LEMMA HighestEpochFacts ==
  ASSUME NEW ep \in Epochs, NEW recs,
         \A x \in DOMAIN recs : recs[x].coordinator_epoch \in Epochs
  PROVE  /\ HighestEpoch(ep, recs) \in Epochs
         /\ ep <= HighestEpoch(ep, recs)
  <1> DEFINE es == {ep} \cup {recs[x].coordinator_epoch : x \in DOMAIN recs}
             below == {MaxEpoch - m : m \in es}
             R == OpToRel(<, Nat)
  <1>1. es \subseteq Epochs /\ ep \in es
    OBVIOUS
  <1>2. below \subseteq Nat /\ below # {}
    BY <1>1, EngineAssumption DEF Epochs
  <1>3. \E k \in below : \A l \in below : ~(<<l, k>> \in R)
    BY <1>2, WFMin, NatLessThanWellFounded
  <1>4. PICK k \in below : \A l \in below : ~(<<l, k>> \in R)
    BY <1>3
  <1>5. \A l \in below : ~(l < k)
    BY <1>2, <1>4 DEF OpToRel
  <1>6. PICK m \in es : k = MaxEpoch - m
    BY <1>4
  <1>7. \A o \in es : o <= m
    <2> TAKE o \in es
    <2>1. MaxEpoch - o \in below
      OBVIOUS
    <2>2. ~(MaxEpoch - o < MaxEpoch - m)
      BY <1>5, <1>6, <2>1
    <2>3. o \in Nat /\ m \in Nat /\ MaxEpoch \in Nat
      BY <1>1, EngineAssumption DEF Epochs
    <2> QED
      BY <2>2, <2>3
  <1>8. \E h \in es : \A o \in es : o <= h
    BY <1>7
  <1>9. HighestEpoch(ep, recs) = CHOOSE h \in es : \A o \in es : o <= h
    BY DEF HighestEpoch
  <1> HIDE DEF es
  <1>10. /\ HighestEpoch(ep, recs) \in es
         /\ \A o \in es : o <= HighestEpoch(ep, recs)
    BY <1>8, <1>9
  <1> QED
    BY <1>1, <1>10

-----------------------------------------------------------------------------
(* What a call of the engine does, seen from the coordinator.              *)

EngineInv == TypeOK /\ RecordsInv /\ TicketsDrawn /\ TicketsDistinct

Moves ==
  /\ EngineInv'
  /\ epoch <= epoch'
  /\ used <= used'
  /\ \A x \in DOMAIN records :
       x \in DOMAIN records' /\ RecStep(records[x], records'[x])

\* A change of one record that draws no id.
LEMMA MovesOne ==
  ASSUME EngineInv, TypeOK', EpochGrows, NEW x \in DOMAIN records, NEW new,
         Changes(x, new), RecInv(used, new), RecStep(records[x], new),
         UNCHANGED <<tickets, used>>
  PROVE  Moves
  <1>1. /\ DOMAIN records' = DOMAIN records
        /\ records'[x] = new
        /\ \A y \in DOMAIN records : y # x => records'[y] = records[y]
    BY OthersKept
  <1>2. used \in Nat /\ used <= used'
    BY DEF EngineInv, TypeOK
  <1>3. \A y \in DOMAIN records : RecStep(records[y], records[y])
    BY <1>2, StutterStep DEF EngineInv, RecordsInv, QuietStep
  <1>4. \A y \in DOMAIN records : RecStep(records[y], records'[y])
    BY <1>1, <1>3
  <1>5. RecordsInv'
    BY <1>1 DEF EngineInv, RecordsInv
  <1>6. TicketsDrawn' /\ TicketsDistinct'
    BY DEF EngineInv, TicketsDrawn, TicketsDistinct
  <1> QED
    BY <1>1, <1>2, <1>4, <1>5, <1>6 DEF Moves, EngineInv, EpochGrows

\* A grant: the ticket, if there is one, is the first with its id.
LEMMA MovesGrant ==
  ASSUME EngineInv, TypeOK', NEW x \in DOMAIN records, NEW new, Granting(x, new)
  PROVE  Moves
  <1> DEFINE made == TicketFor(x, epoch', new)
  <1>1. /\ DOMAIN records' = DOMAIN records
        /\ records'[x] = new
        /\ \A y \in DOMAIN records : y # x => records'[y] = records[y]
    BY OthersKept DEF Granting
  <1>2. /\ RecInv(used + 1, new) /\ RecStep(records[x], new)
        /\ Granted(records[x], new, used + 1)
        /\ used' = used + 1
        /\ tickets' \in {tickets, tickets \cup {made}}
    BY DEF Granting, QuietStep
  <1>3. used \in Nat /\ x \in Execs /\ epoch' \in Epochs
    BY DEF EngineInv, TypeOK
  <1>4. RecordsInv'
    BY <1>1, <1>2, <1>3, RecInvMonotone DEF EngineInv, RecordsInv
  <1>5. Len(new.attempts) > 0
    BY <1>2, LastIndex DEF RecInv, Granted, CurrentMatches
  <1>6. made.attempt_id = used + 1
    BY <1>2, <1>3, <1>5, TicketType DEF RecInv, Granted
  <1> HIDE DEF made
  <1>7. \A t \in tickets : t.attempt_id \in Nat /\ t.attempt_id <= used
    BY DEF EngineInv, TicketsDrawn, TypeOK, DispatchTickets
  <1>8. TicketsDrawn'
    BY <1>2, <1>3, <1>6, <1>7 DEF TicketsDrawn
  <1>9. TicketsDistinct'
    BY <1>2, <1>3, <1>6, <1>7 DEF EngineInv, TicketsDistinct
  <1>10. \A y \in DOMAIN records : RecStep(records[y], records[y])
    BY <1>3, StutterStep DEF EngineInv, RecordsInv, QuietStep
  <1>11. \A y \in DOMAIN records : RecStep(records[y], records'[y])
    BY <1>1, <1>2, <1>10
  <1> QED
    BY <1>1, <1>2, <1>3, <1>4, <1>8, <1>9, <1>11
       DEF Moves, EngineInv, Granting, EpochGrows

\* A record that is new, or no record at all.
LEMMA MovesNew ==
  ASSUME EngineInv, TypeOK', EpochGrows, UNCHANGED <<tickets, used>>,
         \A y \in DOMAIN records : y \in DOMAIN records' /\ records'[y] = records[y],
         \A y \in DOMAIN records' \ DOMAIN records : RecInv(used, records'[y])
  PROVE  Moves
  <1>1. used \in Nat /\ used <= used'
    BY DEF EngineInv, TypeOK
  <1>2. \A y \in DOMAIN records : RecStep(records[y], records'[y])
    BY <1>1, StutterStep DEF EngineInv, RecordsInv, QuietStep
  <1>3. RecordsInv'
    BY DEF EngineInv, RecordsInv
  <1>4. TicketsDrawn' /\ TicketsDistinct'
    BY DEF EngineInv, TicketsDrawn, TicketsDistinct
  <1> QED
    BY <1>1, <1>2, <1>3, <1>4 DEF Moves, EngineInv, EpochGrows

\* Every call of the engine, and no call.
LEMMA NextMoves == EngineInv /\ [Next]_vars => Moves
  <1> SUFFICES ASSUME EngineInv, [Next]_vars PROVE Moves
    OBVIOUS
  <1>1. TypeOK'
    BY TypeNext DEF EngineInv
  <1>2. EngineStep
    BY Classify DEF EngineInv
  <1>3. CASE Idle
    BY <1>1, <1>3, MovesNew DEF Idle
  <1>4. CASE Made
    <2>1. PICK x \in Execs :
            /\ ~Known(x)
            /\ records' = [y \in DOMAIN records \cup {x} |->
                             IF y = x THEN NewRecord(epoch') ELSE records[y]]
      BY <1>4 DEF Made
    <2>2. /\ DOMAIN records' = DOMAIN records \cup {x}
          /\ records'[x] = NewRecord(epoch')
          /\ \A y \in DOMAIN records : records'[y] = records[y]
      BY <2>1 DEF Known
    <2>3. used \in Nat /\ RecInv(used, NewRecord(epoch'))
      BY <1>4, NewRecordInv DEF Made, EngineInv, TypeOK
    <2> QED
      BY <1>1, <1>4, <2>2, <2>3, MovesNew DEF Made
  <1>5. ASSUME NEW x \in DOMAIN records, NEW new, QuietOn(x, new) PROVE Moves
    BY <1>1, <1>5, MovesOne DEF QuietOn, QuietStep
  <1>6. ASSUME NEW x \in DOMAIN records, NEW new, NEW t \in Presented,
               CommitOn(x, new, t)
        PROVE  Moves
    BY <1>1, <1>6, MovesOne DEF CommitOn
  <1>7. ASSUME NEW x \in DOMAIN records, NEW new, Granting(x, new) PROVE Moves
    BY <1>1, <1>7, MovesGrant
  <1> QED
    BY <1>2, <1>3, <1>4, <1>5, <1>6, <1>7 DEF EngineStep

\* SUBMIT: the record is created and activated in one handler.
LEMMA SubmitMoves ==
  ASSUME EngineInv, NEW x \in Execs, NEW e \in Epochs, Submit(x, e)
  PROVE  Moves
  <1> DEFINE ep == AdoptEpoch(epoch, e)
             made == activate(ep, NewRecord(ep), e)
  <1>1. /\ epoch \in Epochs /\ used \in Nat
        /\ ep \in Epochs /\ epoch <= ep
    BY EpochType DEF EngineInv, TypeOK
  <1>2. NewRecord(ep) \in ExecutionRecords /\ RecInv(used, NewRecord(ep))
    BY <1>1, NewRecordType, NewRecordInv
  <1>3. made \in Results /\ RecInv(used, made.rec)
    BY <1>1, <1>2, ActivateType, ActivateStep
  <1>4. /\ epoch' = ep /\ UNCHANGED <<tickets, used>>
        /\ \/ /\ ~Known(x)
              /\ records' = [y \in DOMAIN records \cup {x} |->
                               IF y = x THEN made.rec ELSE records[y]]
              /\ decision' = made.code
           \/ /\ UNCHANGED records
              /\ decision' \in {"REJECT_STALE_EPOCH", "REJECT_EXISTS"}
    BY DEF Submit
  <1> HIDE DEF ep, made
  <1>5. EpochGrows
    BY <1>1, <1>4 DEF EpochGrows
  <1>6. CASE UNCHANGED records /\ decision' \in {"REJECT_STALE_EPOCH", "REJECT_EXISTS"}
    <2>1. TypeOK'
      BY <1>1, <1>4, <1>6 DEF EngineInv, TypeOK, DecisionCodes
    <2> QED
      BY <1>4, <1>5, <1>6, <2>1, MovesNew
  <1>7. CASE /\ ~Known(x)
             /\ records' = [y \in DOMAIN records \cup {x} |->
                              IF y = x THEN made.rec ELSE records[y]]
             /\ decision' = made.code
    <2>1. /\ DOMAIN records' = DOMAIN records \cup {x}
          /\ records'[x] = made.rec
          /\ \A y \in DOMAIN records : records'[y] = records[y]
      BY <1>7 DEF Known
    <2>2. made.rec \in ExecutionRecords /\ made.code \in DecisionCodes
      BY <1>3 DEF Results
    <2>3. \A y \in DOMAIN records' : records'[y] \in ExecutionRecords
      BY <2>1, <2>2 DEF EngineInv, TypeOK
    <2>4. TypeOK'
      BY <1>1, <1>4, <1>7, <2>1, <2>2, <2>3 DEF EngineInv, TypeOK
    <2> QED
      BY <1>3, <1>4, <1>5, <2>1, <2>4, MovesNew
  <1> QED
    BY <1>4, <1>6, <1>7

-----------------------------------------------------------------------------
(* Commits, and what they survive.                                         *)

\* A call of the engine keeps every commit.
LEMMA CommitKept ==
  ASSUME Moves, NEW k, HasCommit(records, k)
  PROVE  HasCommit(records, k)'
  <1>1. /\ k.execution \in DOMAIN records'
        /\ RecStep(records[k.execution], records'[k.execution])
    BY DEF Moves, HasCommit
  <1>2. records'[k.execution] = records[k.execution]
    BY <1>1 DEF RecStep, FrozenIfTerminal, HasCommit, TerminalExecutionStates
  <1> QED
    BY <1>1, <1>2 DEF HasCommit

\* complete() answers ALLOW just when it has committed the digest.
LEMMA CompleteAllowed ==
  ASSUME NEW rec \in ExecutionRecords, NEW ep, NEW t, NEW d \in Digests \cup {None},
         complete(ep, rec, t, d).code = "ALLOW"
  PROVE  /\ d \in Digests
         /\ complete(ep, rec, t, d).rec.state = "COMMITTED"
         /\ complete(ep, rec, t, d).rec.committed_digest = d
  <1> DEFINE r == complete(ep, rec, t, d)
  <1>1. d # None /\ r = CommitResult(rec, t.attempt_id, d)
    BY DEF complete, Decision
  <1>2. d \in Digests
    BY <1>1
  <1>3. PICK s : /\ MarkedHistory(rec, t.attempt_id, d, s)
                 /\ CommitResult(rec, t.attempt_id, d) = CommitOutcome(rec, s, d)
    BY <1>2, CommitResultFacts
  <1>4. r.code = "ALLOW"
    OBVIOUS
  <1> HIDE DEF r
  <1>5. r.rec = CommittedRecord(rec, s, d)
    BY <1>1, <1>3, <1>4 DEF CommitOutcome, Decision
  <1>6. r.rec.state = "COMMITTED" /\ r.rec.committed_digest = d
    BY <1>5 DEF CommittedRecord, ExecutionRecords
  <1> QED
    BY <1>2, <1>6 DEF r

-----------------------------------------------------------------------------
(* The invariant is inductive: handlers.                                   *)

\* What a handler may do to the coordinator's own state.
TableOK ==
  /\ DOMAIN conns \subseteq Conns
  /\ \A c \in DOMAIN conns : conns[c] \in ConnEntries
  /\ WorkersNamed

Handles ==
  /\ Moves
  /\ saving' \in {"idle", "write"}
  /\ UNCHANGED <<target, tmp, own_epoch, kept>>
  /\ TableOK'
  /\ reply' \in Commits \cup {None}
  /\ reply' # None => saving' = "write" /\ HasCommit(records, reply)'

\* A handler: it runs when no save is under way, moves the memory on and starts
\* a save at most.
LEMMA HandlerKeeps ==
  ASSUME CInv, Free, Handles
  PROVE  CInv'
  <1>1. /\ used \in Nat /\ used' \in Nat /\ used <= used'
        /\ epoch \in Nat /\ epoch' \in Nat /\ own_epoch \in Nat /\ epoch <= epoch'
        /\ own_epoch' = own_epoch /\ own_epoch <= epoch
    BY DEF CInv, CTypeOK, Handles, Moves, EngineInv, TypeOK, Epochs
  <1>2. CTypeOK'
    <2>1. TypeOK' /\ own_epoch' \in Epochs /\ kept' \subseteq Commits
      BY DEF CInv, CTypeOK, Handles, Moves, EngineInv
    <2>2. saving' \in SaveSteps /\ (reply' # None => saving' # "idle")
      BY DEF Handles, SaveSteps
    <2> QED
      BY <2>1, <2>2 DEF CTypeOK, Handles, TableOK
  <1>3. RecordsInv' /\ TicketsDrawn' /\ TicketsDistinct' /\ WorkersNamed'
    BY DEF Handles, Moves, EngineInv, TableOK
  <1>4. Loads(target)' => PastOfMemory(target)'
    <2> SUFFICES ASSUME Loads(target)' PROVE PastOfMemory(target)'
      OBVIOUS
    <2>1. target' = target /\ PastOfMemory(target)
      BY DEF Handles, CInv, SaveInv, Loads
    <2>2. ASSUME NEW x \in DOMAIN target.records
          PROVE  /\ x \in DOMAIN records'
                 /\ RecInv(used', target.records[x])
                 /\ Behind(target.records[x], records'[x])
      <3>1. /\ x \in DOMAIN records
            /\ RecInv(used, target.records[x])
            /\ Behind(target.records[x], records[x])
        BY <2>1 DEF PastOfMemory, Known
      <3>2. x \in DOMAIN records' /\ RecStep(records[x], records'[x])
        BY <3>1 DEF Handles, Moves
      <3>3. RecInv(used, records[x]) /\ RecInv(used', records'[x])
        BY <1>3, <3>1, <3>2 DEF CInv, RecordsInv
      <3>4. Behind(target.records[x], records'[x])
        BY <1>1, <3>1, <3>2, <3>3, BehindStep
      <3>5. RecInv(used', target.records[x])
        BY <1>1, <3>1, RecInvUpTo
      <3> QED
        BY <3>2, <3>4, <3>5
    <2> QED
      BY <1>1, <2>1, <2>2 DEF PastOfMemory, Known
  <1>5. SaveInv'
    BY <1>4 DEF SaveInv, Handles
  <1>6. CommitsInv'
    <2>1. ASSUME NEW k \in kept
          PROVE  /\ HasCommit(records, k)'
                 /\ Loads(target)' => HasCommit(target.records, k)'
      <3>1. HasCommit(records, k) /\ (Loads(target) => HasCommit(target.records, k))
        BY DEF CInv, CommitsInv, SavedCommitsSurvive
      <3>2. HasCommit(records, k)'
        BY <3>1, CommitKept DEF Handles
      <3> QED
        BY <3>1, <3>2 DEF Handles, Loads, HasCommit
    <2> QED
      BY <2>1 DEF CommitsInv, SavedCommitsSurvive, Handles
  <1> QED
    BY <1>1, <1>2, <1>3, <1>5, <1>6 DEF CInv

\* What the invariant says of the engine and of the table.
LEMMA EngineOfCInv == CInv => EngineInv /\ TableOK /\ (Free => reply = None)
  BY DEF CInv, CTypeOK, EngineInv, TableOK, Free

\* A handler that touches neither the table nor the reply.
LEMMA PlainHandler ==
  ASSUME CInv, Free, Moves, saving' \in {"idle", "write"},
         UNCHANGED <<target, tmp, own_epoch, conns, reply, kept>>
  PROVE  CInv'
  <1>1. TableOK' /\ reply' = None
    BY EngineOfCInv DEF TableOK, WorkersNamed
  <1>2. Handles
    BY <1>1 DEF Handles
  <1> QED
    BY <1>2, HandlerKeeps

\* Whether it saves or not, a handler leaves the store idle or about to write.
LEMMA PersistFacts ==
  ASSUME Free, Persist \/ UNCHANGED svars
  PROVE  saving' \in {"idle", "write"} /\ UNCHANGED <<target, tmp>>
  BY DEF Persist, svars, Free

\* A handler that makes one call of the engine and saves, or does not.
LEMMA ControlKeeps ==
  ASSUME CInv, Free, Next, Persist \/ UNCHANGED svars,
         UNCHANGED <<own_epoch, conns, reply, kept>>
  PROVE  CInv'
  <1>1. Moves
    BY EngineOfCInv, NextMoves
  <1>2. saving' \in {"idle", "write"} /\ UNCHANGED <<target, tmp>>
    BY PersistFacts
  <1> QED
    BY <1>1, <1>2, PlainHandler

\* HELLO and a new connection change the table only.
LEMMA TableKeeps ==
  ASSUME CInv, TableOK',
         UNCHANGED <<mem, svars, own_epoch, reply, kept, started>>
  PROVE  CInv'
  <1>1. /\ UNCHANGED epoch /\ UNCHANGED records /\ UNCHANGED tickets
        /\ UNCHANGED used /\ UNCHANGED decision /\ UNCHANGED target
        /\ UNCHANGED tmp /\ UNCHANGED saving /\ UNCHANGED own_epoch
        /\ UNCHANGED reply /\ UNCHANGED kept
    BY DEF mem, svars
  <1>2. CTypeOK'
    BY <1>1 DEF CInv, CTypeOK, TypeOK, TableOK
  <1>3. RecordsInv' /\ TicketsDrawn' /\ TicketsDistinct' /\ (own_epoch <= epoch)'
    BY <1>1 DEF CInv, RecordsInv, TicketsDrawn, TicketsDistinct
  <1>4. SaveInv'
    BY <1>1 DEF CInv, SaveInv, OfMemory, PastOfMemory, Known, Loads
  <1>5. CommitsInv'
    BY <1>1 DEF CInv, CommitsInv, SavedCommitsSurvive, HasCommit, Loads
  <1> QED
    BY <1>2, <1>3, <1>4, <1>5 DEF CInv, TableOK

\* The table after one entry of it was written.
LEMMA TableWrite ==
  ASSUME TableOK, NEW c \in Conns, NEW entry \in ConnEntries,
         entry.is_worker => entry.worker_id \in Workers /\ entry.boot \in Boots,
         conns' = [k \in DOMAIN conns \cup {c} |-> IF k = c THEN entry ELSE conns[k]]
  PROVE  TableOK'
  BY DEF TableOK, WorkersNamed

\* A new connection.
LEMMA AcceptKeeps ==
  ASSUME CInv, NEW c \in Conns, Accept(c)
  PROVE  CInv'
  <1>1. NewConn \in ConnEntries /\ ~NewConn.is_worker
    BY DEF NewConn, ConnEntries
  <1>2. TableOK'
    BY <1>1, EngineOfCInv, TableWrite DEF Accept
  <1> QED
    BY <1>2, TableKeeps DEF Accept

\* A HELLO of a worker, or of a client that is none.
LEMMA HelloKeeps ==
  ASSUME CInv, NEW c \in Conns, NEW worker \in BOOLEAN, NEW w, NEW b,
         IF worker THEN w \in Workers /\ b \in Boots ELSE w = None /\ b = None,
         Hello(c, worker, w, b)
  PROVE  CInv'
  <1> DEFINE entry == [conns[c] EXCEPT !.is_worker = worker, !.worker_id = w, !.boot = b]
  <1>1. c \in DOMAIN conns /\ conns[c] \in ConnEntries
    BY EngineOfCInv DEF Hello, TableOK
  <1>2. /\ entry \in ConnEntries
        /\ entry.is_worker => entry.worker_id \in Workers /\ entry.boot \in Boots
    BY <1>1 DEF ConnEntries
  <1>3. conns' = [k \in DOMAIN conns \cup {c} |-> IF k = c THEN entry ELSE conns[k]]
    BY <1>1 DEF Hello, ConnEntries
  <1> HIDE DEF entry
  <1>4. TableOK'
    BY <1>2, <1>3, EngineOfCInv, TableWrite
  <1> QED
    BY <1>4, TableKeeps DEF Hello

\* DISPATCH to a connected worker: the connection is told what it carries.
LEMMA DispatchKeeps ==
  ASSUME CInv, NEW x \in Execs, NEW w \in Workers, NEW b \in Boots, NEW e \in Epochs,
         HandleDispatch(x, w, b, e)
  PROVE  CInv'
  <1>1. PICK c \in ConnsOf(w) : DispatchTo(c, x, w, b, e)
    BY DEF HandleDispatch
  <1>2. c \in DOMAIN conns /\ c \in Conns /\ conns[c] \in ConnEntries
    BY <1>1, EngineOfCInv DEF ConnsOf, TableOK
  <1>3. Moves
    BY <1>1, EngineOfCInv, NextMoves DEF DispatchTo, Next
  <1> DEFINE entry == [conns[c] EXCEPT !.active_execution = x]
  <1>4. TableOK'
    <2>1. CASE conns' = conns
      BY <2>1, EngineOfCInv DEF TableOK, WorkersNamed
    <2>2. CASE conns' = [conns EXCEPT ![c].active_execution = x]
      <3>1. /\ entry \in ConnEntries
            /\ entry.is_worker => entry.worker_id \in Workers /\ entry.boot \in Boots
        BY <1>2, EngineOfCInv DEF ConnEntries, TableOK, WorkersNamed
      <3>2. conns' = [k \in DOMAIN conns \cup {c} |-> IF k = c THEN entry ELSE conns[k]]
        BY <1>2, <2>2 DEF ConnEntries
      <3> HIDE DEF entry
      <3> QED
        BY <1>2, <3>1, <3>2, EngineOfCInv, TableWrite
    <2> QED
      BY <1>1, <2>1, <2>2 DEF DispatchTo
  <1>5. /\ Free /\ saving' \in {"idle", "write"} /\ UNCHANGED <<target, tmp>>
        /\ UNCHANGED <<own_epoch, kept>> /\ reply' = None
    BY <1>1, EngineOfCInv, PersistFacts DEF DispatchTo, PersistIf
  <1>6. Handles
    BY <1>3, <1>4, <1>5 DEF Handles
  <1> QED
    BY <1>5, <1>6, HandlerKeeps

\* COMPLETE: only a commit owes a reply, and it is in the record by then.
LEMMA CompleteKeeps ==
  ASSUME CInv, NEW t \in Presented, NEW d \in Digests \cup {None}, HandleComplete(t, d)
  PROVE  CInv'
  <1> DEFINE x == t.execution_id
             r == complete(epoch, records[x], t, d)
             owed == [execution |-> x, digest |-> d]
  <1>1. /\ Free /\ CallOn(x, r) /\ PersistIf(decision' = "ALLOW")
        /\ reply' = IF decision' = "ALLOW" /\ Persistent THEN owed ELSE None
        /\ UNCHANGED <<own_epoch, conns, kept>>
    BY DEF HandleComplete, Complete
  <1>2. Moves
    BY EngineOfCInv, NextMoves DEF HandleComplete, Next
  <1>3. /\ saving' \in {"idle", "write"} /\ UNCHANGED <<target, tmp>>
    BY <1>1, PersistFacts DEF PersistIf
  <1>4. x \in Execs /\ TypeOK
    BY EngineOfCInv, PresentedFacts DEF EngineInv, DispatchTickets
  <1>5. ASSUME reply' # None
        PROVE  /\ reply' \in Commits
               /\ saving' = "write"
               /\ HasCommit(records, reply)'
    <2>1. reply' = owed /\ decision' = "ALLOW" /\ saving' = "write"
      BY <1>1, <1>5 DEF PersistIf, Persist
    <2>2. Known(x)
      BY <1>1, <2>1 DEF CallOn
    <2>3. records' = [records EXCEPT ![x] = r.rec] /\ r.code = "ALLOW"
      BY <1>1, <2>1, <2>2 DEF CallOn
    <2>4. records[x] \in ExecutionRecords
      BY <1>4, <2>2 DEF TypeOK, Known
    <2>5. d \in Digests /\ r.rec.state = "COMMITTED" /\ r.rec.committed_digest = d
      BY <2>3, <2>4, CompleteAllowed
    <2> HIDE DEF r, x
    <2>6. x \in DOMAIN records' /\ records'[x] = r.rec
      BY <2>2, <2>3 DEF Known
    <2>7. owed.execution = x /\ owed.digest = d /\ owed \in Commits
      BY <1>4, <2>5 DEF Commits
    <2> HIDE DEF owed
    <2> QED
      BY <2>1, <2>5, <2>6, <2>7 DEF HasCommit
  <1>6. TableOK'
    BY <1>1, EngineOfCInv DEF TableOK, WorkersNamed
  <1>7. Handles
    BY <1>1, <1>2, <1>3, <1>5, <1>6 DEF Handles
  <1> QED
    BY <1>1, <1>7, HandlerKeeps

\* A connection that closes may report the loss of its worker.
LEMMA ClosedKeeps ==
  ASSUME CInv, NEW c \in Conns, ConnClosed(c)
  PROVE  CInv'
  <1>1. /\ Free /\ c \in DOMAIN conns /\ conns[c] \in ConnEntries
        /\ own_epoch \in Epochs
    BY EngineOfCInv DEF ConnClosed, TableOK, CInv, CTypeOK
  <1>2. TableOK'
    BY EngineOfCInv DEF ConnClosed, TableOK, WorkersNamed
  <1>3. reply' = None /\ UNCHANGED <<own_epoch, kept>>
    BY <1>1, EngineOfCInv DEF ConnClosed
  <1>4. CASE conns[c].is_worker /\ conns[c].active_execution # None
    <2>1. /\ conns[c].active_execution \in Execs
          /\ conns[c].worker_id \in Workers /\ conns[c].boot \in Boots
      BY <1>1, <1>4, EngineOfCInv DEF ConnEntries, TableOK, WorkersNamed
    <2>2. Next
      BY <1>1, <1>4, <2>1 DEF ConnClosed, Next
    <2>3. Moves
      BY <2>2, EngineOfCInv, NextMoves
    <2>4. saving' \in {"idle", "write"} /\ UNCHANGED <<target, tmp>>
      BY <1>1, <1>4, PersistFacts DEF ConnClosed
    <2> QED
      BY <1>1, <1>2, <1>3, <2>3, <2>4, HandlerKeeps DEF Handles
  <1>5. CASE ~(conns[c].is_worker /\ conns[c].active_execution # None)
    <2>1. UNCHANGED <<mem, svars>>
      BY <1>5 DEF ConnClosed
    <2>2. UNCHANGED <<mem, svars, own_epoch, reply, kept, started>>
      BY <2>1 DEF ConnClosed
    <2> QED
      BY <1>2, <2>2, TableKeeps
  <1> QED
    BY <1>4, <1>5

-----------------------------------------------------------------------------
(* The invariant is inductive: the save, the reply and the restart.        *)

\* Nothing the store or the reply does changes the memory.
LEMMA MemoryKept ==
  ASSUME CInv, UNCHANGED mem, UNCHANGED own_epoch, UNCHANGED conns
  PROVE  /\ TypeOK' /\ own_epoch' \in Epochs
         /\ RecordsInv' /\ TicketsDrawn' /\ TicketsDistinct' /\ TableOK'
         /\ own_epoch' <= epoch'
  <1>1. /\ UNCHANGED epoch /\ UNCHANGED records /\ UNCHANGED tickets
        /\ UNCHANGED used /\ UNCHANGED decision
    BY DEF mem
  <1> QED
    BY <1>1, EngineOfCInv
       DEF CInv, CTypeOK, TypeOK, RecordsInv, TicketsDrawn, TicketsDistinct, TableOK,
           WorkersNamed

\* What is written from the memory and loads is a past of the memory, and has
\* every commit the memory has.
LEMMA OfMemoryFacts ==
  ASSUME CInv, NEW f, OfMemory(f), Loads(f)
  PROVE  /\ PastOfMemory(f)
         /\ \A k : HasCommit(records, k) => HasCommit(f.records, k)
  <1>1. f = Snapshot(own_epoch, records)
    BY DEF OfMemory, Loads
  <1>2. f.epoch = own_epoch /\ f.records = records
    BY <1>1 DEF Snapshot
  <1>3. own_epoch \in Epochs /\ own_epoch <= own_epoch /\ used \in Nat
    BY DEF CInv, CTypeOK, TypeOK, Epochs
  <1>4. \A x \in DOMAIN records : RecInv(used, records[x]) /\ Behind(records[x], records[x])
    BY <1>3, BehindSelf DEF CInv, RecordsInv
  <1> QED
    BY <1>2, <1>3, <1>4 DEF PastOfMemory, Known

\* A step of the save: the target is left, deleted, or replaced by the file
\* that was just written from the memory.
LEMMA SavingKeeps ==
  ASSUME CInv, Saving
  PROVE  CInv'
  <1>1. /\ SaveStep(Snapshot(own_epoch, records))
        /\ UNCHANGED mem /\ UNCHANGED own_epoch /\ UNCHANGED conns
        /\ UNCHANGED reply /\ UNCHANGED kept
    BY DEF Saving
  <1>2. UNCHANGED records /\ UNCHANGED used
    BY <1>1 DEF mem
  <1>3. /\ saving # "idle" /\ saving' \in SaveSteps \ {"idle", "write"}
        /\ saving' \in {"replace", "remove", "rename"} => OfMemory(tmp)'
        /\ saving' = "done" => OfMemory(target)'
        /\ target' \in {target, NoFile} \/ OfMemory(target)'
    <2> USE <1>1, <1>2 DEF SaveSteps, OfMemory, CInv, SaveInv
    <2>1. CASE WriteTmp(Snapshot(own_epoch, records))
      BY <2>1 DEF WriteTmp
    <2>2. CASE ReplaceTarget
      BY <2>2 DEF ReplaceTarget
    <2>3. CASE RemoveTarget
      BY <2>3 DEF RemoveTarget
    <2>4. CASE RenameTmp
      BY <2>4 DEF RenameTmp
    <2> QED
      BY <2>1, <2>2, <2>3, <2>4 DEF SaveStep
  <1>4. OfMemory(target)' => OfMemory(target')
    BY <1>1, <1>2 DEF OfMemory
  <1>5. ASSUME Loads(target)'
        PROVE  /\ PastOfMemory(target)'
               /\ \A k \in kept : HasCommit(target'.records, k)
    <2>1. Loads(target')
      BY <1>5 DEF Loads
    <2>2. /\ PastOfMemory(target')
          /\ \A k \in kept : HasCommit(target'.records, k)
      <3>1. CASE target' = target
        BY <2>1, <3>1 DEF CInv, SaveInv, CommitsInv, SavedCommitsSurvive
      <3>2. CASE OfMemory(target')
        BY <2>1, <3>2, OfMemoryFacts DEF CInv, CommitsInv, SavedCommitsSurvive
      <3> QED
        BY <1>3, <1>4, <2>1, <3>1, <3>2 DEF Loads
    <2> QED
      BY <1>1, <1>2, <2>2 DEF PastOfMemory, Known
  <1>6. SaveInv'
    BY <1>3, <1>5 DEF SaveInv
  <1>7. CommitsInv'
    BY <1>1, <1>2, <1>5 DEF CInv, CommitsInv, SavedCommitsSurvive, HasCommit
  <1>8. CTypeOK'
    BY <1>1, <1>3, MemoryKept DEF CInv, CTypeOK, TableOK
  <1> QED
    BY <1>1, <1>6, <1>7, <1>8, MemoryKept DEF CInv, TableOK

\* The reply: a commit counts as reported once the save that returned true has
\* put it into the file.
LEMMA ReplyKeeps ==
  ASSUME CInv, Reply
  PROVE  CInv'
  <1>1. /\ UNCHANGED mem /\ UNCHANGED own_epoch /\ UNCHANGED conns
        /\ UNCHANGED target /\ UNCHANGED tmp
        /\ saving' = "idle" /\ reply' = None
        /\ kept' = IF saving = "done" /\ reply # None THEN kept \cup {reply} ELSE kept
    BY DEF Reply
  <1>2. UNCHANGED records /\ UNCHANGED used
    BY <1>1 DEF mem
  <1>3. CTypeOK'
    BY <1>1, MemoryKept DEF CInv, CTypeOK, TableOK, SaveSteps
  <1>4. SaveInv'
    BY <1>1, <1>2 DEF CInv, SaveInv, PastOfMemory, Known, Loads
  <1>5. saving = "done" /\ reply # None =>
          HasCommit(records, reply) /\ (Loads(target) => HasCommit(target.records, reply))
    BY OfMemoryFacts DEF CInv, SaveInv, CommitsInv
  <1>6. \A k \in kept' : HasCommit(records, k) /\ (Loads(target) => HasCommit(target.records, k))
    BY <1>1, <1>5 DEF CInv, CommitsInv, SavedCommitsSurvive
  <1>7. CommitsInv'
    BY <1>1, <1>2, <1>6 DEF CommitsInv, SavedCommitsSurvive, HasCommit, Loads
  <1> QED
    BY <1>1, <1>3, <1>4, <1>7, MemoryKept DEF CInv, TableOK

\* A restart: the memory becomes what the file has, and the file is then the
\* memory itself.
LEMMA RestartKeeps ==
  ASSUME CInv, NEW e \in Epochs, Restart(e)
  PROVE  CInv'
  <1>1. /\ saving' = "idle" /\ UNCHANGED target
        /\ own_epoch' = RecoveredEpoch(e)
        /\ records' = RecoveredRecords
        /\ epoch' = HighestEpoch(RecoveredEpoch(e), RecoveredRecords)
        /\ conns' = NoConns /\ reply' = None
        /\ kept' = IF Loads(target) THEN kept ELSE {}
        /\ UNCHANGED tickets /\ UNCHANGED used /\ UNCHANGED decision
    BY DEF Restart, StoreDies
  <1>2. /\ DOMAIN records' \subseteq Execs
        /\ \A x \in DOMAIN records' : RecInv(used, records'[x])
        /\ own_epoch' \in Epochs
        /\ Loads(target) => target.epoch <= own_epoch'
    <2>1. CASE Loads(target)
      <3>1. records' = target.records /\ own_epoch' = AdoptEpoch(e, target.epoch)
        BY <1>1, <2>1 DEF RecoveredRecords, RecoveredEpoch
      <3>2. PastOfMemory(target)
        BY <2>1 DEF CInv, SaveInv
      <3>3. target.epoch \in Epochs
        BY <3>2 DEF PastOfMemory
      <3>4. own_epoch' \in Epochs /\ target.epoch <= own_epoch'
        BY <3>1, <3>3, EngineAssumption DEF AdoptEpoch, Epochs
      <3> QED
        BY <3>1, <3>2, <3>4 DEF PastOfMemory, Known, CInv, CTypeOK, TypeOK
    <2>2. CASE ~Loads(target)
      BY <1>1, <2>2 DEF RecoveredRecords, RecoveredEpoch, EmptyRecords
    <2> QED
      BY <2>1, <2>2
  <1>3. \A x \in DOMAIN records' :
          records'[x] \in ExecutionRecords /\ records'[x].coordinator_epoch \in Epochs
    BY <1>2 DEF RecInv, ExecutionRecords
  <1>4. epoch' \in Epochs /\ own_epoch' <= epoch'
    BY <1>1, <1>2, <1>3, HighestEpochFacts
  <1>5. TableOK'
    BY <1>1 DEF TableOK, WorkersNamed, NoConns
  <1>6. CTypeOK'
    <2>1. TypeOK'
      BY <1>1, <1>2, <1>3, <1>4 DEF CInv, CTypeOK, TypeOK
    <2>2. kept' \subseteq Commits
      BY <1>1 DEF CInv, CTypeOK
    <2> QED
      BY <1>1, <1>2, <1>5, <2>1, <2>2 DEF CTypeOK, TableOK, SaveSteps
  <1>7. RecordsInv' /\ TicketsDrawn' /\ TicketsDistinct'
    BY <1>1, <1>2 DEF CInv, RecordsInv, TicketsDrawn, TicketsDistinct
  <1>8. SaveInv'
    <2> SUFFICES ASSUME Loads(target)' PROVE PastOfMemory(target)'
      BY <1>1 DEF SaveInv
    <2>1. Loads(target)
      BY <1>1 DEF Loads
    <2>2. records' = target.records
      BY <1>1, <2>1 DEF RecoveredRecords
    <2>3. PastOfMemory(target)
      BY <2>1 DEF CInv, SaveInv
    <2>4. used \in Nat /\ target.epoch \in Epochs
      BY <2>3 DEF PastOfMemory, CInv, CTypeOK, TypeOK
    <2>5. \A x \in DOMAIN target.records :
            RecInv(used, target.records[x]) /\ Behind(target.records[x], target.records[x])
      BY <2>3, <2>4, BehindSelf DEF PastOfMemory
    <2> QED
      BY <1>1, <1>2, <2>1, <2>2, <2>4, <2>5 DEF PastOfMemory, Known
  <1>9. CommitsInv'
    <2>1. \A k \in kept' : HasCommit(records', k) /\ Loads(target) /\ HasCommit(target.records, k)
      BY <1>1 DEF CInv, CommitsInv, SavedCommitsSurvive, RecoveredRecords
    <2> QED
      BY <1>1, <2>1 DEF CommitsInv, SavedCommitsSurvive, HasCommit
  <1> QED
    BY <1>4, <1>5, <1>6, <1>7, <1>8, <1>9 DEF CInv, TableOK

\* The invariant holds when the first process starts.
LEMMA CInvInit == CInit => CInv
  <1> SUFFICES ASSUME CInit PROVE CInv
    OBVIOUS
  <1>1. TypeOK /\ RecordsInv /\ TicketsDistinct /\ tickets = {}
    BY InvInit DEF CInit, IInv, Init
  <1>2. ~Loads(target) /\ saving = "idle" /\ DOMAIN conns = {} /\ kept = {} /\ reply = None
    BY DEF CInit, StoreInit, Loads, NoConns
  <1>3. own_epoch \in Epochs /\ own_epoch <= epoch
    BY <1>1 DEF CInit, TypeOK, Epochs
  <1>4. CTypeOK
    BY <1>1, <1>2, <1>3 DEF CTypeOK, SaveSteps
  <1> QED
    BY <1>1, <1>2, <1>3, <1>4
       DEF CInv, TicketsDrawn, WorkersNamed, SaveInv, CommitsInv, SavedCommitsSurvive

\* Every step of the coordinator keeps the invariant, one step per handler.
LEMMA CInvNext == CInv /\ [CNext]_cvars => CInv'
  <1> SUFFICES ASSUME CInv, [CNext]_cvars PROVE CInv'
    OBVIOUS
  <1>1. ASSUME NEW c \in Conns, Accept(c) PROVE CInv'
    BY <1>1, AcceptKeeps
  <1>2. ASSUME NEW c \in Conns, ConnClosed(c) PROVE CInv'
    BY <1>2, ClosedKeeps
  <1>3. ASSUME NEW c \in Conns, NEW w \in Workers, NEW b \in Boots, Hello(c, TRUE, w, b)
        PROVE  CInv'
    BY <1>3, HelloKeeps
  <1>4. ASSUME NEW c \in Conns, Hello(c, FALSE, None, None) PROVE CInv'
    BY <1>4, HelloKeeps
  <1>5. ASSUME NEW x \in Execs, NEW e \in Epochs, Submit(x, e) PROVE CInv'
    <2>1. Moves
      BY <1>5, EngineOfCInv, SubmitMoves
    <2>2. Free /\ saving' \in {"idle", "write"} /\ UNCHANGED <<target, tmp>>
      BY <1>5, PersistFacts DEF Submit
    <2> QED
      BY <1>5, <2>1, <2>2, PlainHandler DEF Submit
  <1>6. ASSUME NEW x \in Execs, NEW e \in Epochs,
               HandleAckPreempt(x, e) \/ HandleMarkResumable(x, e)
        PROVE  CInv'
    BY <1>6, ControlKeeps DEF HandleAckPreempt, HandleMarkResumable, Control, Next
  <1>7. ASSUME NEW x \in Execs, NEW e \in Epochs, NEW auth \in Gens,
               HandleCancel(x, e, auth) \/ HandlePreempt(x, e, auth)
        PROVE  CInv'
    BY <1>7, ControlKeeps DEF HandleCancel, HandlePreempt, Control, Next
  <1>8. ASSUME NEW x \in Execs, NEW e \in Epochs, NEW w \in Workers, NEW b \in Boots,
               HandleDispatch(x, w, b, e)
        PROVE  CInv'
    BY <1>8, DispatchKeeps
  <1>9. ASSUME NEW x \in Execs, NEW e \in Epochs, NEW w \in Workers, NEW b \in Boots,
               HandleWorkerLost(x, w, b, e)
        PROVE  CInv'
    BY <1>9, ControlKeeps DEF HandleWorkerLost, Control, Next
  <1>10. ASSUME NEW x \in Execs, NEW e \in Epochs, NEW w \in Workers, NEW b \in Boots,
                NEW rg \in Gens, HandleResume(x, w, b, e, rg)
         PROVE  CInv'
    <2>1. Free /\ Next /\ UNCHANGED <<own_epoch, conns, reply, kept>>
      BY <1>10 DEF HandleResume, Next
    <2>2. Persist \/ UNCHANGED svars
      BY <1>10 DEF HandleResume, PersistIf
    <2> QED
      BY <2>1, <2>2, ControlKeeps
  <1>11. ASSUME NEW x \in Execs, NEW e \in Epochs, NEW w \in Workers,
                DispatchUnknown(x, w, e)
         PROVE  CInv'
    BY <1>11, RestartKeeps DEF DispatchUnknown
  <1>12. ASSUME NEW t \in Presented, HandleStart(t) PROVE CInv'
    BY <1>12, ControlKeeps DEF HandleStart, Next
  <1>13. ASSUME NEW t \in Presented, NEW d \in Digests \cup {None}, HandleComplete(t, d)
         PROVE  CInv'
    BY <1>13, CompleteKeeps
  <1>14. CASE Saving
    BY <1>14, SavingKeeps
  <1>15. CASE Reply
    BY <1>15, ReplyKeeps
  <1>16. ASSUME NEW e \in Epochs, Restart(e) PROVE CInv'
    BY <1>16, RestartKeeps
  <1>17. CASE UNCHANGED cvars
    <2>1. UNCHANGED <<mem, svars, own_epoch, reply, kept, started>> /\ UNCHANGED conns
      BY <1>17 DEF cvars
    <2>2. TableOK'
      BY <2>1, EngineOfCInv DEF TableOK, WorkersNamed
    <2> QED
      BY <2>1, <2>2, TableKeeps
  <1> QED
    BY <1>1, <1>2, <1>3, <1>4, <1>5, <1>6, <1>7, <1>8, <1>9, <1>10, <1>11, <1>12,
       <1>13, <1>14, <1>15, <1>16, <1>17 DEF CNext

-----------------------------------------------------------------------------
(* The theorems.                                                           *)

\* The inductive invariant of the coordinator: handlers, steps of a save,
\* replies and restarts at any moment all keep it.
THEOREM CoordinatorInvariance == CSpec => []CInv
  BY CInvInit, CInvNext, PTL DEF CSpec

\* The coordinator's state keeps its types, the one a restart recovers from a
\* file included, and only a handler that is being persisted owes a reply.
THEOREM CoordinatorTyped == CSpec => []CTypeOK
  <1>1. CInv => CTypeOK
    BY DEF CInv
  <1> QED
    BY <1>1, CoordinatorInvariance, PTL

\* Attempt ids are drawn fresh, so of all tickets ever sent for an execution,
\* those of attempts a crash erased included, at most one is good.
THEOREM OneAuthorityKept == CSpec => []OneAuthorityAcrossRestarts
  <1>1. CInv => OneAuthorityAcrossRestarts
    <2> SUFFICES ASSUME CInv, NEW t \in tickets, NEW u \in tickets,
                        t.execution_id = u.execution_id, Authorised(t), Authorised(u)
                 PROVE  t = u
      BY DEF OneAuthorityAcrossRestarts
    <2>1. t.attempt_id = records[t.execution_id].current_attempt_id
      BY StartValid, TicketValid DEF Authorised
    <2>2. u.attempt_id = records[u.execution_id].current_attempt_id
      BY StartValid, TicketValid DEF Authorised
    <2> QED
      BY <2>1, <2>2 DEF CInv, TicketsDistinct
  <1> QED
    BY <1>1, CoordinatorInvariance, PTL

\* A commit that was reported after a save that returned true is in the memory
\* and in every file a restart would accept, until a restart finds none.
THEOREM CommitsSurvive == CSpec => []SavedCommitsSurvive
  <1>1. CInv => SavedCommitsSurvive
    BY DEF CInv, CommitsInv
  <1> QED
    BY <1>1, CoordinatorInvariance, PTL

\* The file a restart would accept is a past of the memory: no outcome, attempt,
\* generation or epoch the memory does not have.
THEOREM DiskBehind == CSpec => []DiskBehindMemory
  <1>1. CInv => DiskBehindMemory
    BY DEF CInv, SaveInv, DiskBehindMemory, PastOfMemory, Behind
  <1> QED
    BY <1>1, CoordinatorInvariance, PTL
=============================================================================
