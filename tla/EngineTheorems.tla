--------------------------- MODULE EngineTheorems ---------------------------
(***************************************************************************)
(* The safety theorems of the engine.  Every step of Next is one of five   *)
(* kinds: it leaves the records alone, makes one, changes one without      *)
(* committing or granting anything, commits, or grants an attempt.  The    *)
(* inductive invariant IInv is preserved by each kind, and each property   *)
(* is read off the invariant or off the kinds.                             *)
(***************************************************************************)
EXTENDS EngineSafety

-----------------------------------------------------------------------------
(* The invariant.                                                          *)

RecordsInv == \A x \in DOMAIN records : RecInv(used, records[x])

\* A ticket names an attempt of the history of its execution.
Names(rec, t) == \E i \in DOMAIN rec.attempts : rec.attempts[i].id = t.attempt_id

TicketsIssued ==
  \A t \in tickets : Known(t.execution_id) /\ Names(records[t.execution_id], t)

TicketsDistinct == \A t, u \in tickets : t.attempt_id = u.attempt_id => t = u

IInv ==
  /\ TypeOK
  /\ RecordsInv
  /\ TicketsIssued
  /\ TicketsDistinct
  /\ \A x \in DOMAIN records : CommittedUnder(x)

-----------------------------------------------------------------------------
(* The kinds of steps.                                                     *)

EpochGrows == epoch <= epoch'

Idle ==
  EpochGrows /\ UNCHANGED <<records, tickets, used>>

Made ==
  /\ EpochGrows
  /\ epoch' \in Epochs
  /\ \E x \in Execs :
       /\ ~Known(x)
       /\ records' = [y \in DOMAIN records \cup {x} |->
                        IF y = x THEN NewRecord(epoch') ELSE records[y]]
  /\ UNCHANGED <<tickets, used>>

Changes(x, new) == records' = [records EXCEPT ![x] = new]

QuietOn(x, new) ==
  /\ EpochGrows
  /\ Changes(x, new)
  /\ RecInv(used, new)
  /\ QuietStep(records[x], new)
  /\ UNCHANGED <<tickets, used>>

CommitOn(x, new, t) ==
  /\ EpochGrows
  /\ Changes(x, new)
  /\ RecInv(used, new)
  /\ RecStep(records[x], new)
  /\ KeepsHolder(records[x], new)
  /\ new.generation = records[x].generation
  /\ t.execution_id = x
  /\ ValidateTicket(epoch, records[x], t) = "ALLOW"
  /\ UNCHANGED <<tickets, used>>

Granting(x, new) ==
  /\ EpochGrows
  /\ Changes(x, new)
  /\ RecInv(used + 1, new)
  /\ QuietStep(records[x], new)
  /\ Granted(records[x], new, used + 1)
  /\ used' = used + 1
  /\ tickets' \in {tickets, tickets \cup {TicketFor(x, epoch', new)}}

EngineStep ==
  \/ Idle
  \/ Made
  \/ \E x \in DOMAIN records : \E new : QuietOn(x, new)
  \/ \E x \in DOMAIN records : \E new : \E t \in Presented : CommitOn(x, new, t)
  \/ \E x \in DOMAIN records : \E new : Granting(x, new)

\* A call that commits nothing and grants nothing.
LEMMA QuietCall ==
  ASSUME TypeOK, NEW x, NEW r, CallOn(x, r),
         Known(x) => RecInv(used, r.rec) /\ QuietStep(records[x], r.rec)
  PROVE  EngineStep
  <1>1. EpochGrows
    BY DEF CallOn, EpochGrows, TypeOK, Epochs
  <1>2. CASE Known(x)
    <2>1. QuietOn(x, r.rec)
      BY <1>1, <1>2 DEF CallOn, QuietOn, Changes
    <2> QED
      BY <1>2, <2>1 DEF EngineStep, Known
  <1>3. CASE ~Known(x)
    BY <1>1, <1>3 DEF CallOn, EngineStep, Idle
  <1> QED
    BY <1>2, <1>3

\* A call that may grant: used + 1 is drawn just when the history grows.
LEMMA GrantCall ==
  ASSUME TypeOK, NEW x, NEW r, NEW ep, Known(x), RecInv(used, records[x]),
         GrantOn(x, r, ep), epoch' = ep, EpochGrows,
         StepOrGrant(used, records[x], r.rec),
         r.rec = records[x] => r.code \notin AllowedCodes
  PROVE  EngineStep
  <1>1. Changes(x, r.rec) /\ used \in Nat
    BY DEF GrantOn, Changes, TypeOK
  <1>2. CASE r.rec = records[x]
    <2>1. UNCHANGED <<tickets, used>>
      BY <1>2 DEF GrantOn
    <2>2. QuietStep(records[x], r.rec)
      BY <1>1, <1>2, StutterStep
    <2>3. QuietOn(x, r.rec)
      BY <1>1, <1>2, <2>1, <2>2 DEF QuietOn
    <2> QED
      BY <2>3 DEF EngineStep, Known
  <1>3. CASE /\ RecInv(used + 1, r.rec)
             /\ QuietStep(records[x], r.rec)
             /\ Granted(records[x], r.rec, used + 1)
    <2>1. Len(r.rec.attempts) = Len(records[x].attempts) + 1
      BY <1>3 DEF Granted
    <2>2. Len(records[x].attempts) \in Nat
      BY DEF RecInv, ExecutionRecords
    <2>3. r.rec.attempts # records[x].attempts
      BY <2>1, <2>2
    <2>4. used' = used + 1
      BY <2>3 DEF GrantOn
    <2>5. tickets' \in {tickets, tickets \cup {TicketFor(x, epoch', r.rec)}}
      BY DEF GrantOn
    <2>6. Granting(x, r.rec)
      BY <1>1, <1>3, <2>4, <2>5 DEF Granting
    <2> QED
      BY <2>6 DEF EngineStep, Known
  <1> QED
    BY <1>2, <1>3 DEF StepOrGrant

\* Every step of Next is of one of the five kinds, one step per operation.
LEMMA Classify == TypeOK /\ RecordsInv /\ [Next]_vars => EngineStep
  <1> SUFFICES ASSUME TypeOK, RecordsInv, [Next]_vars PROVE EngineStep
    OBVIOUS
  <1>0. \A x \in DOMAIN records : RecInv(used, records[x])
    BY DEF RecordsInv
  <1>e. epoch \in Epochs /\ used \in Nat
    BY DEF TypeOK
  <1>f. epoch <= epoch
    BY <1>e DEF Epochs
  <1>1. ASSUME NEW x \in Execs, NEW e \in Epochs, Create(x, e) PROVE EngineStep
    <2>1. epoch' \in Epochs /\ EpochGrows
      BY <1>1, <1>e, EpochType DEF Create, EpochGrows
    <2>2. CASE UNCHANGED records
      BY <1>1, <2>1, <2>2 DEF Create, EngineStep, Idle
    <2>3. CASE /\ ~Known(x)
               /\ records' = [y \in DOMAIN records \cup {x} |->
                                IF y = x THEN NewRecord(epoch') ELSE records[y]]
      BY <1>1, <2>1, <2>3 DEF Create, EngineStep, Made
    <2> QED
      BY <1>1, <2>2, <2>3 DEF Create
  <1>2. ASSUME NEW x \in Execs, NEW e \in Epochs, Activate(x, e) PROVE EngineStep
    <2> DEFINE r == activate(epoch, records[x], e)
    <2>1. EpochGrows
      BY <1>2, <1>e, <1>f, EpochType DEF Activate, EpochAfter, EpochGrows
    <2>2. RecInv(used, r.rec) /\ QuietStep(records[x], r.rec)
      BY <1>0, <1>2, <1>e, ActivateStep DEF Activate, Known
    <2>3. Changes(x, r.rec) /\ UNCHANGED <<tickets, used>> /\ x \in DOMAIN records
      BY <1>2 DEF Activate, Changes, Known
    <2> HIDE DEF r
    <2> QED
      BY <2>1, <2>2, <2>3 DEF QuietOn, EngineStep
  <1>3. ASSUME NEW x \in Execs, NEW w \in Workers, NEW b \in Boots,
               NEW e \in Epochs, Dispatch(x, w, b, e)
        PROVE  EngineStep
    <2> DEFINE r == dispatch(epoch, records[x], e, used + 1, w, b)
               g == Dispatched(records[x], used + 1, w, b)
               new == [g EXCEPT !.state = "DISPATCHED"]
    <2>1. Known(x) /\ GrantOn(x, r, epoch') /\ RecInv(used, records[x])
      BY <1>0, <1>3 DEF Dispatch, Known
    <2>2. records[x] \in ExecutionRecords /\ used + 1 \in Nat \ {0}
      BY <1>e, <2>1 DEF RecInv
    <2>3. EpochGrows
      BY <1>3, <1>e, <1>f, EpochType DEF Dispatch, EpochAfter, EpochGrows
    <2>4. StepOrGrant(used, records[x], r.rec)
      BY <1>e, <2>1, DispatchStep
    <2>5. r.code \notin AllowedCodes \/ r.rec = new \/ r.rec = g
      BY <2>2, DispatchCases
    <2>6. g \in ExecutionRecords /\ g.attempts # records[x].attempts
      BY <2>2, DispatchedType
    <2> HIDE DEF r, g
    <2>7. new.attempts = g.attempts
      BY <2>6 DEF ExecutionRecords
    <2> HIDE DEF new
    <2>8. r.rec = records[x] => r.code \notin AllowedCodes
      BY <2>5, <2>6, <2>7
    <2> QED
      BY <2>1, <2>3, <2>4, <2>8, GrantCall
  <1>4. ASSUME NEW x \in Execs, NEW w \in Workers, NEW b \in Boots,
               NEW e \in Epochs, NEW rg \in Gens, Resume(x, w, b, e, rg)
        PROVE  EngineStep
    <2>1. CASE ~Known(x)
      BY <1>4, <1>f, <2>1 DEF Resume, EngineStep, Idle, EpochGrows
    <2>2. CASE Known(x)
      <3> DEFINE r == resume(epoch, records[x], e, rg, used + 1, w, b)
                 g == Resumed(records[x], rg, used + 1, w, b)
                 new == [g EXCEPT !.state = "RESUMING"]
      <3>1. GrantOn(x, r, epoch) /\ RecInv(used, records[x]) /\ epoch' = epoch
        BY <1>0, <1>4, <2>2 DEF Resume, Known
      <3>2. records[x] \in ExecutionRecords /\ used + 1 \in Nat \ {0}
        BY <1>e, <3>1 DEF RecInv
      <3>3. EpochGrows
        BY <1>f, <3>1 DEF EpochGrows
      <3>4. StepOrGrant(used, records[x], r.rec)
        BY <1>e, <3>1, ResumeStep
      <3>5. r.code \notin AllowedCodes \/ r.rec = new
        BY <3>2, ResumeCases
      <3>6. g \in ExecutionRecords /\ g.attempts # records[x].attempts
        BY <3>2, ResumedType
      <3> HIDE DEF r, g
      <3>7. new.attempts = g.attempts
        BY <3>6 DEF ExecutionRecords
      <3> HIDE DEF new
      <3>8. r.rec = records[x] => r.code \notin AllowedCodes
        BY <3>5, <3>6, <3>7
      <3> QED
        BY <2>2, <3>1, <3>3, <3>4, <3>8, GrantCall
    <2> QED
      BY <2>1, <2>2
  <1>5. ASSUME NEW t \in Presented, MarkRunning(t) PROVE EngineStep
    BY <1>0, <1>e, <1>5, MarkRunningStep, QuietCall DEF MarkRunning, Known
  <1>6. ASSUME NEW t \in Presented, NEW d \in Digests \cup {None}, Complete(t, d)
        PROVE  EngineStep
    <2> DEFINE x == t.execution_id
               r == complete(epoch, records[x], t, d)
    <2>1. CallOn(x, r)
      BY <1>6 DEF Complete
    <2>2. CASE ~Known(x)
      BY <1>f, <2>1, <2>2 DEF CallOn, EngineStep, Idle, EpochGrows
    <2>3. CASE Known(x)
      <3>1. RecInv(used, records[x])
        BY <1>0, <2>3 DEF Known
      <3>2. /\ RecInv(used, r.rec) /\ RecStep(records[x], r.rec)
            /\ \/ r.rec = records[x]
               \/ /\ ValidateTicket(epoch, records[x], t) = "ALLOW"
                  /\ KeepsHolder(records[x], r.rec)
                  /\ r.rec.generation = records[x].generation
        BY <1>e, <3>1, CompleteStep
      <3>3. /\ Changes(x, r.rec) /\ UNCHANGED <<tickets, used>> /\ EpochGrows
            /\ x \in DOMAIN records
        BY <1>f, <2>1, <2>3 DEF CallOn, Changes, EpochGrows, Known
      <3> HIDE DEF r
      <3>4. CASE r.rec = records[x]
        <4>1. QuietStep(records[x], r.rec)
          BY <1>e, <3>1, <3>4, StutterStep
        <4>2. QuietOn(x, r.rec)
          BY <3>2, <3>3, <4>1 DEF QuietOn
        <4> QED
          BY <3>3, <4>2 DEF EngineStep
      <3>5. CASE r.rec # records[x]
        <4>1. CommitOn(x, r.rec, t)
          BY <3>2, <3>3, <3>5 DEF CommitOn
        <4> QED
          BY <3>3, <4>1 DEF EngineStep
      <3> QED
        BY <3>4, <3>5
    <2> QED
      BY <2>2, <2>3
  <1>7. ASSUME NEW x \in Execs, NEW e \in Epochs, NEW auth \in Gens, Cancel(x, e, auth)
        PROVE  EngineStep
    BY <1>0, <1>e, <1>7, CancelStep, QuietCall DEF Cancel, Known
  <1>8. ASSUME NEW x \in Execs, NEW e \in Epochs, FinalizeCancel(x, e)
        PROVE  EngineStep
    BY <1>0, <1>e, <1>8, FinalizeCancelStep, QuietCall DEF FinalizeCancel, Known
  <1>9. ASSUME NEW x \in Execs, NEW e \in Epochs, NEW auth \in Gens, Preempt(x, e, auth)
        PROVE  EngineStep
    BY <1>0, <1>e, <1>9, PreemptStep, QuietCall DEF Preempt, Known
  <1>10. ASSUME NEW x \in Execs, NEW e \in Epochs, AcknowledgePreempt(x, e)
         PROVE  EngineStep
    BY <1>0, <1>e, <1>10, AcknowledgePreemptStep, QuietCall
       DEF AcknowledgePreempt, Known
  <1>11. ASSUME NEW x \in Execs, NEW e \in Epochs, MarkResumable(x, e)
         PROVE  EngineStep
    BY <1>0, <1>e, <1>11, MarkResumableStep, QuietCall DEF MarkResumable, Known
  <1>12. ASSUME NEW x \in Execs, NEW w \in Workers, NEW b \in Boots,
                NEW e \in Epochs, MarkWorkerLost(x, w, b, e)
         PROVE  EngineStep
    BY <1>0, <1>e, <1>12, MarkWorkerLostStep, QuietCall DEF MarkWorkerLost, Known
  <1>13. ASSUME NEW x \in Execs, NEW e \in Epochs, Supersede(x, e)
         PROVE  EngineStep
    BY <1>0, <1>e, <1>13, SupersedeStep, QuietCall DEF Supersede, Known
  <1>14. ASSUME NEW e \in Epochs, RaiseEpoch(e) PROVE EngineStep
    BY <1>14, <1>e, EpochType DEF RaiseEpoch, EngineStep, Idle, EpochGrows
  <1>15. CASE UNCHANGED vars
    BY <1>15, <1>f DEF vars, EngineStep, Idle, EpochGrows
  <1> QED
    BY <1>1, <1>2, <1>3, <1>4, <1>5, <1>6, <1>7, <1>8, <1>9, <1>10, <1>11,
       <1>12, <1>13, <1>14, <1>15 DEF Next

-----------------------------------------------------------------------------
(* The invariant is inductive.                                             *)

\* Drawing another id keeps the invariant of a record.
LEMMA RecInvMonotone ==
  ASSUME NEW n \in Nat, NEW rec, RecInv(n, rec)
  PROVE  RecInv(n + 1, rec)
  <1>1. \A i \in DOMAIN rec.attempts : rec.attempts[i] \in AttemptRecords
    BY LastIndex DEF RecInv
  <1>2. IdsBelow(n + 1, rec)
    BY <1>1 DEF RecInv, IdsBelow, AttemptRecords
  <1> QED
    BY <1>2 DEF RecInv

\* The record create() inserts satisfies the invariant.
LEMMA NewRecordInv ==
  ASSUME NEW n \in Nat, NEW ep \in Epochs
  PROVE  RecInv(n, NewRecord(ep))
  <1> DEFINE rec == NewRecord(ep)
  <1>1. /\ rec.state = "CREATED" /\ rec.attempts = <<>>
        /\ rec.current_attempt_id = 0 /\ rec.current_attempt_generation = 0
        /\ rec.owner_worker = None /\ rec.owner_worker_boot = None
        /\ rec.ownership_generation = 0 /\ rec.fence_generation = 0
        /\ rec.commit_generation = 0 /\ rec.committed_digest = None
    BY DEF NewRecord
  <1>2. rec \in ExecutionRecords
    BY NewRecordType
  <1> HIDE DEF rec
  <1>3. DOMAIN rec.attempts = {}
    BY <1>1
  <1>4. IdsInOrder(rec) /\ IdsBelow(n, rec) /\ OwnershipFences(rec)
    BY <1>3 DEF IdsInOrder, IdsBelow, OwnershipFences
  <1>5. /\ CurrentMatches(rec) /\ LifecyclePaired(rec) /\ Unactivated(rec)
        /\ CommittedOnce(rec) /\ CommittedByNewest(rec)
    BY <1>1 DEF CurrentMatches, LifecyclePaired, Unactivated, CommittedOnce,
                CommittedByNewest
  <1>6. RecInv(n, rec)
    BY <1>1, <1>2, <1>4, <1>5 DEF RecInv
  <1> QED
    BY <1>6 DEF rec

\* A ticket's attempt stays in the history of its execution.
LEMMA NamesKept ==
  ASSUME NEW n, NEW rec, RecInv(n, rec), NEW k, NEW new, RecInv(k, new),
         RecStep(rec, new), NEW t, Names(rec, t)
  PROVE  Names(new, t)
  <1>1. rec \in ExecutionRecords /\ new \in ExecutionRecords
    BY DEF RecInv
  <1>2. /\ Len(rec.attempts) <= Len(new.attempts)
        /\ \A i \in DOMAIN rec.attempts : new.attempts[i].id = rec.attempts[i].id
    BY DEF RecStep, HistoryGrows, SameIdentity
  <1>3. \A i \in DOMAIN rec.attempts : i \in DOMAIN new.attempts
    BY <1>1, <1>2, LastIndex
  <1> QED
    BY <1>2, <1>3 DEF Names

\* The invariant holds initially.
LEMMA InvInit == Init => IInv
  BY TypeInit DEF Init, IInv, RecordsInv, TicketsIssued, TicketsDistinct

\* A step that changes only the record of x, seen from any other record.
LEMMA OthersKept ==
  ASSUME NEW x \in DOMAIN records, NEW new, Changes(x, new)
  PROVE  /\ DOMAIN records' = DOMAIN records
         /\ records'[x] = new
         /\ \A y \in DOMAIN records : y # x => records'[y] = records[y]
  BY DEF Changes

\* The tickets issued before a change still name attempts after it.
LEMMA IssuedKept ==
  ASSUME IInv, NEW x \in DOMAIN records, NEW new, Changes(x, new), NEW k,
         RecInv(k, new), RecStep(records[x], new)
  PROVE  \A t \in tickets : /\ t.execution_id \in DOMAIN records'
                            /\ Names(records'[t.execution_id], t)
  <1> TAKE t \in tickets
  <1>1. /\ DOMAIN records' = DOMAIN records
        /\ records'[x] = new
        /\ \A y \in DOMAIN records : y # x => records'[y] = records[y]
    BY OthersKept
  <1>2. /\ t.execution_id \in DOMAIN records
        /\ Names(records[t.execution_id], t)
    BY DEF IInv, TicketsIssued, Known
  <1>3. RecInv(used, records[x])
    BY DEF IInv, RecordsInv
  <1>4. CASE t.execution_id = x
    BY <1>1, <1>2, <1>3, <1>4, NamesKept
  <1>5. CASE t.execution_id # x
    BY <1>1, <1>2, <1>5
  <1> QED
    BY <1>1, <1>2, <1>4, <1>5

\* A change that commits and grants nothing keeps the invariant.
LEMMA InvQuiet ==
  ASSUME IInv, TypeOK', NEW x \in DOMAIN records, NEW new, QuietOn(x, new)
  PROVE  IInv'
  <1>1. /\ DOMAIN records' = DOMAIN records
        /\ records'[x] = new
        /\ \A y \in DOMAIN records : y # x => records'[y] = records[y]
    BY OthersKept DEF QuietOn
  <1>2. /\ RecInv(used, new) /\ RecStep(records[x], new) /\ Changes(x, new)
        /\ new.state = "COMMITTED" => new = records[x]
        /\ tickets' = tickets /\ used' = used
    BY DEF QuietOn, QuietStep
  <1>3. RecordsInv'
    BY <1>1, <1>2 DEF IInv, RecordsInv
  <1>4. TicketsIssued'
    BY <1>2, IssuedKept DEF TicketsIssued, Known
  <1>5. TicketsDistinct'
    BY <1>2 DEF IInv, TicketsDistinct
  <1>6. \A y \in DOMAIN records' : CommittedUnder(y)'
    BY <1>1, <1>2 DEF IInv, CommittedUnder
  <1> QED
    BY <1>3, <1>4, <1>5, <1>6 DEF IInv

\* A commit: the ticket it was presented with stands behind it.
LEMMA InvCommit ==
  ASSUME IInv, TypeOK', NEW x \in DOMAIN records, NEW new, NEW t \in Presented,
         CommitOn(x, new, t)
  PROVE  IInv'
  <1>1. /\ DOMAIN records' = DOMAIN records
        /\ records'[x] = new
        /\ \A y \in DOMAIN records : y # x => records'[y] = records[y]
    BY OthersKept DEF CommitOn
  <1>2. /\ RecInv(used, new) /\ RecStep(records[x], new) /\ Changes(x, new)
        /\ tickets' = tickets /\ used' = used
    BY DEF CommitOn
  <1>3. RecordsInv'
    BY <1>1, <1>2 DEF IInv, RecordsInv
  <1>4. TicketsIssued'
    BY <1>2, IssuedKept DEF TicketsIssued, Known
  <1>5. TicketsDistinct'
    BY <1>2 DEF IInv, TicketsDistinct
  <1>6. CommittedUnder(x)'
    <2>1. PICK u \in tickets : /\ t.execution_id = u.execution_id
                               /\ t.attempt_id = u.attempt_id
                               /\ t.epoch = u.epoch
                               /\ t.execution_generation = u.execution_generation
      BY PresentedFacts DEF IInv
    <2>2. /\ records[x].current_attempt_id # 0
          /\ t.attempt_id = records[x].current_attempt_id
          /\ t.epoch = records[x].coordinator_epoch
          /\ t.execution_generation = records[x].generation
      BY TicketValid DEF CommitOn
    <2>3. /\ new.current_attempt_id = records[x].current_attempt_id
          /\ new.generation = records[x].generation
          /\ t.execution_id = x
      BY DEF CommitOn, KeepsHolder
    <2>4. new.coordinator_epoch = records[x].coordinator_epoch
      BY <1>2 DEF RecStep, AuthorityAdvances
    <2>5. Newest(new).id = new.current_attempt_id
      BY <1>2, <2>2, <2>3 DEF RecInv, CurrentMatches
    <2> QED
      BY <1>1, <1>2, <2>1, <2>2, <2>3, <2>4, <2>5 DEF CommittedUnder
  <1>7. \A y \in DOMAIN records' : CommittedUnder(y)'
    <2>1. ASSUME NEW y \in DOMAIN records, y # x PROVE CommittedUnder(y)'
      BY <1>1, <1>2, <2>1 DEF IInv, CommittedUnder
    <2> QED
      BY <1>1, <1>6, <2>1
  <1> QED
    BY <1>3, <1>4, <1>5, <1>7 DEF IInv

\* A grant: the new ticket, if any, is for an id no ticket had before.
LEMMA InvGrant ==
  ASSUME IInv, TypeOK', NEW x \in DOMAIN records, NEW new, Granting(x, new)
  PROVE  IInv'
  <1> DEFINE made == TicketFor(x, epoch', new)
  <1>1. /\ DOMAIN records' = DOMAIN records
        /\ records'[x] = new
        /\ \A y \in DOMAIN records : y # x => records'[y] = records[y]
    BY OthersKept DEF Granting
  <1>2. /\ RecInv(used + 1, new) /\ RecStep(records[x], new) /\ Changes(x, new)
        /\ Granted(records[x], new, used + 1)
        /\ new.state = "COMMITTED" => new = records[x]
        /\ used' = used + 1
        /\ tickets' \in {tickets, tickets \cup {made}}
    BY DEF Granting, QuietStep
  <1>3. used \in Nat /\ x \in Execs /\ epoch' \in Epochs
    BY DEF IInv, TypeOK
  <1>4. RecordsInv'
    BY <1>1, <1>2, <1>3, RecInvMonotone DEF IInv, RecordsInv
  <1>5. Len(new.attempts) > 0 /\ Len(new.attempts) \in DOMAIN new.attempts
    BY <1>2, LastIndex DEF RecInv, CurrentMatches, Granted
  <1>6. made.execution_id = x /\ made.attempt_id = used + 1
    BY <1>2, <1>3, <1>5, TicketType DEF RecInv, Granted
  <1>7. Names(new, made)
    BY <1>2, <1>5, <1>6 DEF Names, Granted, Newest
  <1> HIDE DEF made
  <1>8. TicketsIssued'
    <2>1. \A t \in tickets : /\ t.execution_id \in DOMAIN records'
                             /\ Names(records'[t.execution_id], t)
      BY <1>2, IssuedKept
    <2> QED
      BY <1>1, <1>2, <1>6, <1>7, <2>1 DEF TicketsIssued, Known
  <1>9. \A t \in tickets : t.attempt_id # used + 1
    <2> TAKE t \in tickets
    <2>1. /\ t.execution_id \in DOMAIN records
          /\ Names(records[t.execution_id], t)
      BY DEF IInv, TicketsIssued, Known
    <2>2. RecInv(used, records[t.execution_id])
      BY <2>1 DEF IInv, RecordsInv
    <2>3. PICK i \in DOMAIN records[t.execution_id].attempts :
            records[t.execution_id].attempts[i].id = t.attempt_id
      BY <2>1 DEF Names
    <2>4. t.attempt_id <= used
      BY <2>2, <2>3 DEF RecInv, IdsBelow
    <2>5. t.attempt_id \in Nat
      BY DEF IInv, TypeOK, DispatchTickets
    <2> QED
      BY <1>3, <2>4, <2>5
  <1>10. TicketsDistinct'
    BY <1>2, <1>6, <1>9 DEF IInv, TicketsDistinct
  <1>11. \A y \in DOMAIN records' : CommittedUnder(y)'
    BY <1>1, <1>2 DEF IInv, CommittedUnder
  <1> QED
    BY <1>4, <1>8, <1>10, <1>11 DEF IInv

\* create() keeps the invariant.
LEMMA InvMade ==
  ASSUME IInv, TypeOK', Made
  PROVE  IInv'
  <1>1. PICK x \in Execs :
          /\ ~Known(x)
          /\ records' = [y \in DOMAIN records \cup {x} |->
                           IF y = x THEN NewRecord(epoch') ELSE records[y]]
    BY DEF Made
  <1>2. /\ DOMAIN records' = DOMAIN records \cup {x}
        /\ records'[x] = NewRecord(epoch')
        /\ \A y \in DOMAIN records : records'[y] = records[y]
        /\ tickets' = tickets /\ used' = used /\ used \in Nat
    BY <1>1 DEF Made, Known, IInv, TypeOK
  <1>3. RecInv(used, NewRecord(epoch'))
    BY <1>2, NewRecordInv DEF Made
  <1>4. RecordsInv'
    BY <1>2, <1>3 DEF IInv, RecordsInv
  <1>5. TicketsIssued' /\ TicketsDistinct'
    BY <1>2 DEF IInv, TicketsIssued, TicketsDistinct, Known
  <1>6. NewRecord(epoch').state # "COMMITTED"
    BY DEF NewRecord
  <1>7. \A y \in DOMAIN records' : CommittedUnder(y)'
    BY <1>2, <1>6 DEF IInv, CommittedUnder
  <1> QED
    BY <1>4, <1>5, <1>7 DEF IInv

\* A call that changes no record keeps the invariant.
LEMMA InvIdle ==
  ASSUME IInv, TypeOK', Idle
  PROVE  IInv'
  BY DEF IInv, Idle, RecordsInv, TicketsIssued, TicketsDistinct, CommittedUnder,
         Known

\* Every step keeps the invariant.
LEMMA InvNext == IInv /\ [Next]_vars => IInv'
  <1> SUFFICES ASSUME IInv, [Next]_vars PROVE IInv'
    OBVIOUS
  <1>1. TypeOK'
    BY TypeNext DEF IInv
  <1>2. EngineStep
    BY Classify DEF IInv
  <1> QED
    BY <1>1, <1>2, InvIdle, InvMade, InvQuiet, InvCommit, InvGrant DEF EngineStep

\* The inductive invariant holds in every reachable state of the engine.
THEOREM Invariance == Spec => []IInv
  BY InvInit, InvNext, PTL DEF Spec

-----------------------------------------------------------------------------
(* Invariants.                                                             *)

\* dispatch, resume, mark_worker_lost, supersede and the rest keep the record
\* and its history in agreement about which attempt is current.
THEOREM CurrentNewest == Spec => []CurrentIsNewest
  <1>1. IInv => CurrentIsNewest
    BY DEF IInv, RecordsInv, RecInv, CurrentIsNewest
  <1> QED
    BY <1>1, Invariance, PTL

\* Each grant's ownership and fence generations are above all earlier ones of
\* the execution, or saturated.
THEOREM OwnershipFenced == Spec => []OwnershipStrictlyFences
  <1>1. IInv => OwnershipStrictlyFences
    BY DEF IInv, RecordsInv, RecInv, OwnershipStrictlyFences
  <1> QED
    BY <1>1, Invariance, PTL

\* The states of an execution and of its current attempt are one of the pairs
\* of AttemptBeside, the two kinds of drift the code has included.
THEOREM LifecyclesPaired == Spec => []LifecyclePairs
  <1>1. IInv => LifecyclePairs
    BY DEF IInv, RecordsInv, RecInv, LifecyclePairs
  <1> QED
    BY <1>1, Invariance, PTL

\* complete() commits at most one result per execution, that of the newest
\* attempt, on a ticket of the record's epoch and generation.
THEOREM CommitsAuthorised == Spec => []CommitAuthorised
  <1>1. IInv => CommitAuthorised
    BY DEF IInv, RecordsInv, RecInv, CommitAuthorised
  <1> QED
    BY <1>1, Invariance, PTL

\* A ticket that validate_ticket or validate_start accepts is the only one for
\* its attempt, and no ticket of a later attempt exists.
THEOREM OneAuthority == Spec => []AtMostOneAuthority
  <1>1. ASSUME IInv PROVE AtMostOneAuthority
    <2> SUFFICES ASSUME NEW t \in tickets, NEW u \in tickets,
                        t.execution_id = u.execution_id, Authorised(t)
                 PROVE  /\ u.attempt_id <= t.attempt_id
                        /\ u.attempt_id = t.attempt_id => u = t
      BY DEF AtMostOneAuthority
    <2> DEFINE rec == records[t.execution_id]
               last == Len(rec.attempts)
    <2>1. t.attempt_id = rec.current_attempt_id /\ rec.current_attempt_id # 0
      BY StartValid, TicketValid DEF Authorised
    <2>2. t.execution_id \in DOMAIN records /\ Names(rec, u)
      BY <1>1 DEF IInv, TicketsIssued, Known
    <2>3. RecInv(used, rec)
      BY <1>1, <2>2 DEF IInv, RecordsInv
    <2>4. PICK i \in DOMAIN rec.attempts : rec.attempts[i].id = u.attempt_id
      BY <2>2 DEF Names
    <2> HIDE DEF rec
    <2>5. rec \in ExecutionRecords
      BY <2>3 DEF RecInv
    <2>6. /\ last \in Nat /\ DOMAIN rec.attempts = 1 .. last
          /\ last \in DOMAIN rec.attempts
          /\ rec.attempts[last] \in AttemptRecords
      BY <2>4, <2>5, LastIndex
    <2>7. rec.attempts[last].id = t.attempt_id
      BY <2>1, <2>3 DEF RecInv, CurrentMatches, Newest
    <2>8. i < last => rec.attempts[i].id < rec.attempts[last].id
      BY <2>3, <2>6 DEF RecInv, IdsInOrder
    <2>9. t.attempt_id \in Nat /\ u.attempt_id \in Nat
      BY <1>1 DEF IInv, TypeOK, DispatchTickets
    <2>10. i \in 1 .. last
      BY <2>6
    <2>11. i = last => u.attempt_id <= t.attempt_id
      BY <2>4, <2>7, <2>9
    <2>12. i < last => u.attempt_id <= t.attempt_id
      BY <2>4, <2>7, <2>8, <2>9
    <2>13. u.attempt_id <= t.attempt_id
      BY <2>6, <2>10, <2>11, <2>12
    <2> QED
      BY <1>1, <2>13 DEF IInv, TicketsDistinct
  <1> QED
    BY <1>1, Invariance, PTL

-----------------------------------------------------------------------------
(* Action properties.                                                      *)

\* What every step does to every record there was.
StepsAll ==
  /\ EpochGrows
  /\ \A x \in DOMAIN records :
       x \in DOMAIN records' /\ RecStep(records[x], records'[x])

\* Every step treats every record there was as RecStep says.
LEMMA EveryStep == IInv /\ [Next]_vars => StepsAll
  <1> SUFFICES ASSUME IInv, [Next]_vars PROVE StepsAll
    OBVIOUS
  <1>1. EngineStep
    BY Classify DEF IInv
  <1>2. \A y \in DOMAIN records : RecStep(records[y], records[y])
    BY StutterStep DEF IInv, RecordsInv, TypeOK, QuietStep
  <1>3. CASE Idle
    BY <1>2, <1>3 DEF Idle, StepsAll
  <1>4. CASE Made
    BY <1>2, <1>4 DEF Made, StepsAll, Known
  <1>5. ASSUME NEW x \in DOMAIN records, NEW new, EpochGrows, Changes(x, new),
               RecStep(records[x], new)
        PROVE  StepsAll
    BY <1>2, <1>5, OthersKept DEF StepsAll
  <1> QED
    BY <1>1, <1>3, <1>4, <1>5 DEF EngineStep, QuietOn, CommitOn, Granting, QuietStep

\* No call changes a record that is COMMITTED, FAILED, CANCELLED, SUPERSEDED
\* or TERMINAL.
THEOREM TerminalsAbsorb == Spec => TerminalAbsorbing
  <1>1. IInv /\ [Next]_vars =>
          [\A x \in DOMAIN records :
             x \in DOMAIN records' /\ FrozenIfTerminal(records[x], records'[x])]_vars
    BY EveryStep DEF StepsAll, RecStep
  <1> QED
    BY <1>1, Invariance, PTL DEF Spec, TerminalAbsorbing

\* No call removes an attempt from a history, or changes one that is not
\* current.
THEOREM HistoryKept == Spec => HistoryImmutable
  <1>1. IInv /\ [Next]_vars =>
          [\A x \in DOMAIN records : HistoryGrows(records[x], records'[x])]_vars
    BY EveryStep DEF StepsAll, RecStep
  <1> QED
    BY <1>1, Invariance, PTL DEF Spec, HistoryImmutable

\* No call lowers the epoch, a generation of the execution, of its ownership,
\* fence or resumption, or makes an old attempt current.  The generation of the
\* current attempt goes back in one case only, when supersede() drops it
\* (engine.cpp 963), refused or not.
THEOREM AuthorityForward == Spec => AuthorityMonotone
  <1>1. IInv /\ [Next]_vars =>
          [/\ epoch <= epoch'
           /\ \A x \in DOMAIN records :
                AuthorityAdvances(records[x], records'[x])]_vars
    BY EveryStep DEF StepsAll, RecStep, EpochGrows
  <1> QED
    BY <1>1, Invariance, PTL DEF Spec, AuthorityMonotone

-----------------------------------------------------------------------------
(* Refusals.  Several operations write before they ask the lifecycle       *)
(* table, so a refused call may leave a trace: never in the state of the   *)
(* execution, its committed digest or the tickets.                         *)

SameOutcome(rec, new) ==
  new.state = rec.state /\ new.committed_digest = rec.committed_digest

RefusesQuietly(rec, r) == r.code \notin AllowedCodes => SameOutcome(rec, r.rec)

\* A decision that keeps the record.
LEMMA DecisionRefuses ==
  ASSUME NEW rec, NEW new, SameOutcome(rec, new)
  PROVE  \A code : RefusesQuietly(rec, Decision(code, new))
  BY DEF RefusesQuietly, Decision

\* The table, asked about a record whose outcome is that of rec.
LEMMA TransitionRefuses ==
  ASSUME NEW rec, NEW new, NEW to, SameOutcome(rec, new)
  PROVE  RefusesQuietly(rec, Transition(new, to))
  BY DEF RefusesQuietly, Transition, Decision, AllowedCodes

\* Moving an attempt leaves the outcome alone.
LEMMA MoveOutcome ==
  ASSUME NEW rec \in ExecutionRecords, NEW id, NEW to \in AttemptStates
  PROVE  SameOutcome(rec, MoveAttempt(rec, id, to))
  <1> DEFINE m == MoveAttempt(rec, id, to)
  <1>1. m = [rec EXCEPT !.attempts = m.attempts]
    BY MoveFacts
  <1> HIDE DEF m
  <1>2. SameOutcome(rec, m)
    BY <1>1 DEF SameOutcome, ExecutionRecords
  <1> QED
    BY <1>2 DEF m

\* The operations that ask the table about a record they have at most bumped a
\* counter of, or moved an attempt of.
LEMMA ControlsRefuse ==
  ASSUME NEW rec \in ExecutionRecords, NEW ep, NEW e, NEW auth, NEW w, NEW b, NEW t
  PROVE  /\ RefusesQuietly(rec, activate(ep, rec, e))
         /\ RefusesQuietly(rec, mark_running(ep, rec, t))
         /\ RefusesQuietly(rec, cancel(ep, rec, e, auth))
         /\ RefusesQuietly(rec, finalize_cancel(ep, rec, e))
         /\ RefusesQuietly(rec, preempt(ep, rec, e, auth))
         /\ RefusesQuietly(rec, acknowledge_preempt(ep, rec, e))
         /\ RefusesQuietly(rec, mark_resumable(ep, rec, e))
         /\ RefusesQuietly(rec, mark_worker_lost(ep, rec, e, w, b))
  <1>1. \A code : RefusesQuietly(rec, Decision(code, rec))
    BY DecisionRefuses DEF SameOutcome
  <1>2. \A id : \A to \in AttemptStates : \A st :
          RefusesQuietly(rec, Transition(MoveAttempt(rec, id, to), st))
    BY MoveOutcome, TransitionRefuses
  <1>3. \A st : RefusesQuietly(rec, Transition(rec, st))
    BY TransitionRefuses DEF SameOutcome
  <1>4. RefusesQuietly(rec, activate(ep, rec, e))
    <2> DEFINE q == [rec EXCEPT !.ownership_generation = 1, !.fence_generation = 1]
    <2>1. RefusesQuietly(rec, Transition(q, "READY"))
      BY TransitionRefuses DEF SameOutcome, ExecutionRecords
    <2> QED
      BY <1>1, <2>1 DEF activate
  <1>5. RefusesQuietly(rec, mark_running(ep, rec, t))
    BY <1>1, <1>2 DEF mark_running, AttemptStates
  <1>6. RefusesQuietly(rec, cancel(ep, rec, e, auth))
    <2> DEFINE q == [rec EXCEPT !.cancellation_generation = NextGen(@)]
    <2>1. SameOutcome(rec, q)
      BY DEF SameOutcome, ExecutionRecords
    <2>2. /\ \A code : RefusesQuietly(rec, Decision(code, q))
          /\ \A st : RefusesQuietly(rec, Transition(q, st))
      BY <2>1, DecisionRefuses, TransitionRefuses
    <2> QED
      BY <1>1, <2>2 DEF cancel
  <1>7. RefusesQuietly(rec, finalize_cancel(ep, rec, e))
    BY <1>1, <1>2 DEF finalize_cancel, AttemptStates
  <1>8. RefusesQuietly(rec, preempt(ep, rec, e, auth))
    <2> DEFINE q == [rec EXCEPT !.preemption_generation = NextGen(@)]
    <2>1. \A st : RefusesQuietly(rec, Transition(q, st))
      BY TransitionRefuses DEF SameOutcome, ExecutionRecords
    <2> QED
      BY <1>1, <2>1 DEF preempt
  <1>9. RefusesQuietly(rec, acknowledge_preempt(ep, rec, e))
    BY <1>1, <1>2 DEF acknowledge_preempt, AttemptStates
  <1>10. RefusesQuietly(rec, mark_resumable(ep, rec, e))
    BY <1>1, <1>3 DEF mark_resumable
  <1>11. RefusesQuietly(rec, mark_worker_lost(ep, rec, e, w, b))
    BY <1>1, <1>2 DEF mark_worker_lost, AttemptStates
  <1> QED
    BY <1>4, <1>5, <1>6, <1>7, <1>8, <1>9, <1>10, <1>11

\* supersede() drops the owner before the table is asked.
LEMMA SupersedeRefuses ==
  ASSUME NEW rec \in ExecutionRecords, NEW ep, NEW e
  PROVE  RefusesQuietly(rec, supersede(ep, rec, e))
  <1> DEFINE m == MoveAttempt(rec, rec.current_attempt_id, "SUPERSEDED")
             q == [m EXCEPT !.generation = NextGen(@),
                            !.current_attempt_id = 0,
                            !.current_attempt_generation = 0,
                            !.owner_worker = None,
                            !.owner_worker_boot = None]
  <1>1. m \in ExecutionRecords /\ SameOutcome(rec, m)
    BY MoveType, MoveOutcome DEF AttemptStates
  <1>2. SameOutcome(rec, q)
    <2> HIDE DEF m
    <2> QED BY <1>1 DEF SameOutcome, ExecutionRecords
  <1>3. RefusesQuietly(rec, Transition(q, "SUPERSEDED"))
    <2> HIDE DEF q
    <2> QED BY <1>2, TransitionRefuses
  <1>4. \A code : RefusesQuietly(rec, Decision(code, rec))
    BY DecisionRefuses DEF SameOutcome
  <1> HIDE DEF q
  <1> QED
    BY <1>3, <1>4 DEF supersede, q

\* complete() stores the digest in the attempt, not in the record, before the
\* table is asked.
LEMMA CompleteRefuses ==
  ASSUME NEW rec \in ExecutionRecords, NEW ep, NEW t, NEW d \in Digests \cup {None}
  PROVE  RefusesQuietly(rec, complete(ep, rec, t, d))
  <1>1. \A code : RefusesQuietly(rec, Decision(code, rec))
    BY DecisionRefuses DEF SameOutcome
  <1>2. d # None => RefusesQuietly(rec, CommitResult(rec, t.attempt_id, d))
    <2> SUFFICES ASSUME d # None
                 PROVE  RefusesQuietly(rec, CommitResult(rec, t.attempt_id, d))
      OBVIOUS
    <2>1. PICK s : /\ MarkedHistory(rec, t.attempt_id, d, s)
                   /\ CommitResult(rec, t.attempt_id, d) = CommitOutcome(rec, s, d)
      BY CommitResultFacts
    <2>2. SameOutcome(rec, [rec EXCEPT !.attempts = s])
      BY DEF SameOutcome, ExecutionRecords
    <2>3. RefusesQuietly(rec, CommitOutcome(rec, s, d))
      BY <2>2 DEF CommitOutcome, RefusesQuietly, Decision, AllowedCodes
    <2> QED
      BY <2>1, <2>3
  <1> QED
    BY <1>1, <1>2 DEF complete

\* A grant that is refused after the attempt was added.
LEMMA GrantsRefuse ==
  ASSUME NEW rec \in ExecutionRecords, NEW ep, NEW e, NEW rg \in Gens,
         NEW id \in Nat \ {0}, NEW w \in Workers, NEW b \in Boots
  PROVE  /\ RefusesQuietly(rec, dispatch(ep, rec, e, id, w, b))
         /\ RefusesQuietly(rec, resume(ep, rec, e, rg, id, w, b))
  <1> DEFINE m == MoveAttempt(rec, rec.current_attempt_id, "SUPERSEDED")
             g == Dispatched(rec, id, w, b)
             r == dispatch(ep, rec, e, id, w, b)
             q == resume(ep, rec, e, rg, id, w, b)
             dispatched == [g EXCEPT !.state = "DISPATCHED"]
             resumed == [Resumed(rec, rg, id, w, b) EXCEPT !.state = "RESUMING"]
  <1>1. m \in ExecutionRecords /\ SameOutcome(rec, m)
    BY MoveType, MoveOutcome DEF AttemptStates
  <1>2. g = GrantAttempt(m, id, w, b)
    BY DEF Dispatched
  <1>3. SameOutcome(rec, g)
    <2> HIDE DEF m, g
    <2>1. g.state = m.state /\ g.committed_digest = m.committed_digest
      BY <1>1, <1>2, GrantShape
    <2> QED
      BY <1>1, <2>1 DEF SameOutcome
  <1>4. \/ r.code \notin AllowedCodes /\ r.rec = rec
        \/ /\ rec.state \in {"READY", "DISPATCHED", "RUNNING", "AMBIGUOUS"}
           /\ r.code = "ALLOW"
           /\ r.rec = dispatched
        \/ /\ rec.state = "RESUMING"
           /\ r.code \notin AllowedCodes
           /\ r.rec = g
    BY DispatchCases
  <1>5. \/ q.code \notin AllowedCodes /\ q.rec = rec
        \/ /\ rec.state = "RESUMABLE"
           /\ rg = NextGen(rec.resume_generation)
           /\ q.code = "RESUME_ALLOWED"
           /\ q.rec = resumed
    BY ResumeCases
  <1> HIDE DEF g, r, q, dispatched, resumed
  <1>6. RefusesQuietly(rec, r) /\ RefusesQuietly(rec, q)
    BY <1>3, <1>4, <1>5 DEF RefusesQuietly, SameOutcome, AllowedCodes
  <1> QED
    BY <1>6 DEF r, q

GrantsNothing ==
  decision' \notin AllowedCodes =>
    /\ tickets' = tickets
    /\ DOMAIN records' = DOMAIN records
    /\ \A x \in DOMAIN records : SameOutcome(records[x], records'[x])

\* A call on one record that refuses quietly.
LEMMA CallRefuses ==
  ASSUME NEW x, NEW r, CallOn(x, r), Known(x) => RefusesQuietly(records[x], r)
  PROVE  GrantsNothing
  <1>1. CASE Known(x)
    BY <1>1 DEF CallOn, GrantsNothing, RefusesQuietly, SameOutcome, Known
  <1>2. CASE ~Known(x)
    BY <1>2 DEF CallOn, GrantsNothing, SameOutcome
  <1> QED
    BY <1>1, <1>2

\* Every step, one case per operation.
LEMMA EveryRefusal == TypeOK /\ [Next]_vars => GrantsNothing
  <1> SUFFICES ASSUME TypeOK, [Next]_vars PROVE GrantsNothing
    OBVIOUS
  <1>0. \A x \in DOMAIN records : records[x] \in ExecutionRecords
    BY DEF TypeOK
  <1>s. UNCHANGED <<records, tickets>> => GrantsNothing
    BY DEF GrantsNothing, SameOutcome
  <1>u. used + 1 \in Nat \ {0}
    BY DEF TypeOK
  <1>1. ASSUME NEW x \in Execs, NEW e \in Epochs, Create(x, e) PROVE GrantsNothing
    BY <1>1, <1>s DEF Create, GrantsNothing, AllowedCodes
  <1>2. ASSUME NEW x \in Execs, NEW e \in Epochs, Activate(x, e) PROVE GrantsNothing
    <2> DEFINE r == activate(epoch, records[x], e)
    <2>1. RefusesQuietly(records[x], r)
      BY <1>0, <1>2, ControlsRefuse DEF Activate, Known
    <2>2. /\ records' = [records EXCEPT ![x] = r.rec] /\ decision' = r.code
          /\ tickets' = tickets /\ x \in DOMAIN records
      BY <1>2 DEF Activate, Known
    <2> HIDE DEF r
    <2> QED
      BY <2>1, <2>2 DEF GrantsNothing, RefusesQuietly, SameOutcome
  <1>3. ASSUME NEW x \in DOMAIN records, NEW r, NEW ep,
               RefusesQuietly(records[x], r), GrantOn(x, r, ep)
        PROVE  GrantsNothing
    BY <1>3 DEF GrantOn, GrantsNothing, RefusesQuietly, SameOutcome
  <1>4. ASSUME NEW x \in Execs, NEW w \in Workers, NEW b \in Boots, NEW e \in Epochs,
               Dispatch(x, w, b, e)
        PROVE  GrantsNothing
    <2>1. RefusesQuietly(records[x], dispatch(epoch, records[x], e, used + 1, w, b))
      BY <1>0, <1>u, <1>4, GrantsRefuse, SmallGens DEF Dispatch, Known
    <2> QED
      BY <1>3, <1>4, <2>1 DEF Dispatch, Known
  <1>5. ASSUME NEW x \in Execs, NEW w \in Workers, NEW b \in Boots, NEW e \in Epochs,
               NEW rg \in Gens, Resume(x, w, b, e, rg)
        PROVE  GrantsNothing
    <2>1. CASE ~Known(x)
      BY <1>5, <1>s, <2>1 DEF Resume
    <2>2. CASE Known(x)
      <3>1. RefusesQuietly(records[x], resume(epoch, records[x], e, rg, used + 1, w, b))
        BY <1>0, <1>u, <2>2, GrantsRefuse DEF Known
      <3> QED
        BY <1>3, <1>5, <2>2, <3>1 DEF Resume, Known
    <2> QED
      BY <2>1, <2>2
  <1>6. ASSUME NEW t \in Presented, MarkRunning(t) PROVE GrantsNothing
    BY <1>0, <1>6, ControlsRefuse, CallRefuses DEF MarkRunning, Known
  <1>7. ASSUME NEW t \in Presented, NEW d \in Digests \cup {None}, Complete(t, d)
        PROVE  GrantsNothing
    BY <1>0, <1>7, CompleteRefuses, CallRefuses DEF Complete, Known
  <1>8. ASSUME NEW x \in Execs, NEW e \in Epochs, NEW auth \in Gens,
               Cancel(x, e, auth) \/ Preempt(x, e, auth)
        PROVE  GrantsNothing
    BY <1>0, <1>8, ControlsRefuse, CallRefuses DEF Cancel, Preempt, Known
  <1>9. ASSUME NEW x \in Execs, NEW e \in Epochs,
               FinalizeCancel(x, e) \/ AcknowledgePreempt(x, e) \/ MarkResumable(x, e)
        PROVE  GrantsNothing
    BY <1>0, <1>9, ControlsRefuse, CallRefuses
       DEF FinalizeCancel, AcknowledgePreempt, MarkResumable, Known
  <1>10. ASSUME NEW x \in Execs, NEW w \in Workers, NEW b \in Boots,
                NEW e \in Epochs, MarkWorkerLost(x, w, b, e)
         PROVE  GrantsNothing
    BY <1>0, <1>10, ControlsRefuse, CallRefuses DEF MarkWorkerLost, Known
  <1>11. ASSUME NEW x \in Execs, NEW e \in Epochs, Supersede(x, e) PROVE GrantsNothing
    BY <1>0, <1>11, SupersedeRefuses, CallRefuses DEF Supersede, Known
  <1>12. ASSUME NEW e \in Epochs, RaiseEpoch(e) PROVE GrantsNothing
    BY <1>12, <1>s DEF RaiseEpoch
  <1>13. CASE UNCHANGED vars
    BY <1>13, <1>s DEF vars
  <1> QED
    BY <1>1, <1>2, <1>4, <1>5, <1>6, <1>7, <1>8, <1>9, <1>10, <1>11, <1>12, <1>13
       DEF Next

\* A call the engine answers with anything but ALLOW or RESUME_ALLOWED moves no
\* execution, commits nothing and hands out no ticket, although it may have
\* written to the record before the lifecycle table was asked.
THEOREM RefusalsGrantNothing == Spec => RefusalGrantsNothing
  <1>1. IInv /\ [Next]_vars =>
          [decision' \notin AllowedCodes =>
             /\ tickets' = tickets
             /\ DOMAIN records' = DOMAIN records
             /\ \A x \in DOMAIN records :
                  /\ records'[x].state = records[x].state
                  /\ records'[x].committed_digest = records[x].committed_digest]_vars
    BY EveryRefusal DEF IInv, GrantsNothing, SameOutcome
  <1> QED
    BY <1>1, Invariance, PTL DEF Spec, RefusalGrantsNothing

-----------------------------------------------------------------------------
(* The engine implements FencedCommit.                                     *)

\* If no execution changes abstractly, nothing does.
LEMMA SameBars ==
  ASSUME \A y \in Execs :
           /\ holderBar'[y] = holderBar[y]
           /\ newestBar'[y] = newestBar[y]
           /\ outcomeBar'[y] = outcomeBar[y]
           /\ resultBar'[y] = resultBar[y]
  PROVE  UNCHANGED Fenced!avars
  <1>1. holderBar' = holderBar
    BY DEF holderBar
  <1>2. newestBar' = newestBar
    BY DEF newestBar
  <1>3. outcomeBar' = outcomeBar
    BY DEF outcomeBar
  <1>4. resultBar' = resultBar
    BY DEF resultBar
  <1> QED
    BY <1>1, <1>2, <1>3, <1>4 DEF Fenced!avars

\* A change of the record of x changes the abstract state at x only.
LEMMA BarsAt ==
  ASSUME NEW x \in DOMAIN records, NEW new, Changes(x, new),
         DOMAIN records \subseteq Execs
  PROVE  /\ x \in Execs
         /\ holderBar[x] = records[x].current_attempt_id
         /\ newestBar[x] = NewestId(records[x])
         /\ outcomeBar[x] = OutcomeOf(records[x])
         /\ resultBar[x] = records[x].committed_digest
         /\ holderBar' = [holderBar EXCEPT ![x] = new.current_attempt_id]
         /\ newestBar' = [newestBar EXCEPT ![x] = NewestId(new)]
         /\ outcomeBar' = [outcomeBar EXCEPT ![x] = OutcomeOf(new)]
         /\ resultBar' = [resultBar EXCEPT ![x] = new.committed_digest]
  <1>1. /\ DOMAIN records' = DOMAIN records
        /\ records'[x] = new
        /\ \A y \in DOMAIN records : y # x => records'[y] = records[y]
    BY OthersKept
  <1>2. x \in Execs
    OBVIOUS
  <1>3. /\ holderBar[x] = records[x].current_attempt_id
        /\ newestBar[x] = NewestId(records[x])
        /\ outcomeBar[x] = OutcomeOf(records[x])
        /\ resultBar[x] = records[x].committed_digest
    BY <1>2 DEF holderBar, newestBar, outcomeBar, resultBar, Known
  <1>4. holderBar' = [holderBar EXCEPT ![x] = new.current_attempt_id]
    BY <1>1 DEF holderBar, Known
  <1>5. newestBar' = [newestBar EXCEPT ![x] = NewestId(new)]
    BY <1>1 DEF newestBar, Known
  <1>6. outcomeBar' = [outcomeBar EXCEPT ![x] = OutcomeOf(new)]
    BY <1>1 DEF outcomeBar, Known
  <1>7. resultBar' = [resultBar EXCEPT ![x] = new.committed_digest]
    BY <1>1 DEF resultBar, Known
  <1> QED
    BY <1>2, <1>3, <1>4, <1>5, <1>6, <1>7

\* A change of one record is a grant, a withdrawal, a commit or a closing of
\* FencedCommit, or a stutter.
LEMMA ChangeImplements ==
  ASSUME NEW x \in DOMAIN records, NEW new, Changes(x, new),
         DOMAIN records \subseteq Execs, FencedStep(records[x], new)
  PROVE  [Fenced!AbstractNext]_(Fenced!avars)
  <1> DEFINE rec == records[x]
  <1>1. /\ x \in Execs
        /\ holderBar[x] = rec.current_attempt_id
        /\ newestBar[x] = NewestId(rec)
        /\ outcomeBar[x] = OutcomeOf(rec)
        /\ resultBar[x] = rec.committed_digest
        /\ holderBar' = [holderBar EXCEPT ![x] = new.current_attempt_id]
        /\ newestBar' = [newestBar EXCEPT ![x] = NewestId(new)]
        /\ outcomeBar' = [outcomeBar EXCEPT ![x] = OutcomeOf(new)]
        /\ resultBar' = [resultBar EXCEPT ![x] = new.committed_digest]
    BY BarsAt
  <1>2. /\ DOMAIN holderBar = Execs /\ DOMAIN newestBar = Execs
        /\ DOMAIN outcomeBar = Execs /\ DOMAIN resultBar = Execs
        /\ holderBar = [y \in Execs |-> holderBar[y]]
        /\ newestBar = [y \in Execs |-> newestBar[y]]
        /\ outcomeBar = [y \in Execs |-> outcomeBar[y]]
        /\ resultBar = [y \in Execs |-> resultBar[y]]
    BY DEF holderBar, newestBar, outcomeBar, resultBar
  <1> HIDE DEF rec
  <1>3. new.current_attempt_id = holderBar[x] => holderBar' = holderBar
    BY <1>1, <1>2
  <1>4. NewestId(new) = newestBar[x] => newestBar' = newestBar
    BY <1>1, <1>2
  <1>5. OutcomeOf(new) = outcomeBar[x] => outcomeBar' = outcomeBar
    BY <1>1, <1>2
  <1>6. new.committed_digest = resultBar[x] => resultBar' = resultBar
    BY <1>1, <1>2
  <1>7. holderBar'[x] = new.current_attempt_id
    BY <1>1, <1>2
  <1>8. CASE /\ SameAuthority(rec, new)
             /\ OutcomeOf(new) = OutcomeOf(rec)
             /\ new.committed_digest = rec.committed_digest
    BY <1>1, <1>3, <1>4, <1>5, <1>6, <1>8 DEF SameAuthority, Fenced!avars
  <1>9. CASE /\ OutcomeOf(rec) = "open"
             /\ OutcomeOf(new) = "open"
             /\ new.current_attempt_id > NewestId(rec)
             /\ NewestId(new) = new.current_attempt_id
             /\ new.committed_digest = rec.committed_digest
    <2>1. Fenced!Grant(x)
      BY <1>1, <1>5, <1>6, <1>7, <1>9 DEF Fenced!Grant
    <2> QED
      BY <1>1, <2>1 DEF Fenced!AbstractNext
  <1>10. CASE /\ OutcomeOf(rec) = "open"
              /\ OutcomeOf(new) \in {"open", "closed"}
              /\ new.current_attempt_id \in {0, rec.current_attempt_id}
              /\ NewestId(new) = NewestId(rec)
              /\ new.committed_digest = rec.committed_digest
    <2>1. CASE OutcomeOf(new) = "closed"
      <3>1. Fenced!Close(x)
        BY <1>1, <1>3, <1>4, <1>6, <1>10, <2>1 DEF Fenced!Close
      <3> QED
        BY <1>1, <3>1 DEF Fenced!AbstractNext
    <2>2. CASE OutcomeOf(new) = "open" /\ new.current_attempt_id = 0
      <3>1. Fenced!Withdraw(x)
        BY <1>1, <1>4, <1>5, <1>6, <1>10, <2>2 DEF Fenced!Withdraw
      <3> QED
        BY <1>1, <3>1 DEF Fenced!AbstractNext
    <2>3. CASE /\ OutcomeOf(new) = "open"
               /\ new.current_attempt_id = rec.current_attempt_id
      BY <1>1, <1>3, <1>4, <1>5, <1>6, <1>10, <2>3 DEF Fenced!avars
    <2> QED
      BY <1>10, <2>1, <2>2, <2>3
  <1>11. CASE /\ OutcomeOf(rec) = "open"
              /\ OutcomeOf(new) = "committed"
              /\ rec.current_attempt_id # 0
              /\ rec.current_attempt_id = NewestId(rec)
              /\ SameAuthority(rec, new)
              /\ new.committed_digest \in Digests
    <2>1. Fenced!Commit(x)
      BY <1>1, <1>3, <1>4, <1>11 DEF Fenced!Commit, SameAuthority
    <2> QED
      BY <1>1, <2>1 DEF Fenced!AbstractNext
  <1> QED
    BY <1>8, <1>9, <1>10, <1>11 DEF FencedStep, rec

\* Authority over each execution is granted to ever newer attempts, one result
\* is committed by the newest of them or none, and nothing follows: every
\* behaviour of the engine is one of FencedCommit.
THEOREM Implementation == Spec => ImplementsFencedCommit
  <1>1. Init => Fenced!AbstractInit
    <2> HAVE Init
    <2>1. DOMAIN records = {}
      BY DEF Init
    <2> QED
      BY <2>1 DEF Fenced!AbstractInit, holderBar, newestBar, outcomeBar,
                  resultBar, Known
  <1>2. IInv /\ [Next]_vars => [Fenced!AbstractNext]_(Fenced!avars)
    <2> SUFFICES ASSUME IInv, [Next]_vars
                 PROVE  [Fenced!AbstractNext]_(Fenced!avars)
      OBVIOUS
    <2>1. EngineStep /\ DOMAIN records \subseteq Execs
      BY Classify DEF IInv, TypeOK
    <2>2. CASE Idle
      <3>1. \A y \in Execs :
              /\ holderBar'[y] = holderBar[y]
              /\ newestBar'[y] = newestBar[y]
              /\ outcomeBar'[y] = outcomeBar[y]
              /\ resultBar'[y] = resultBar[y]
        BY <2>2 DEF Idle, holderBar, newestBar, outcomeBar, resultBar, Known
      <3> QED
        BY <3>1, SameBars
    <2>3. CASE Made
      <3>1. PICK x \in Execs :
              /\ ~Known(x)
              /\ records' = [y \in DOMAIN records \cup {x} |->
                               IF y = x THEN NewRecord(epoch') ELSE records[y]]
        BY <2>3 DEF Made
      <3>2. /\ DOMAIN records' = DOMAIN records \cup {x}
            /\ records'[x] = NewRecord(epoch')
            /\ \A y \in DOMAIN records : records'[y] = records[y]
        BY <3>1 DEF Known
      <3>3. LET rec == NewRecord(epoch')
            IN  /\ rec.current_attempt_id = 0
                /\ NewestId(rec) = 0
                /\ OutcomeOf(rec) = "open"
                /\ rec.committed_digest = None
        BY DEF NewRecord, NewestId, OutcomeOf, TerminalExecutionStates
      <3>4. \A y \in Execs :
              /\ holderBar'[y] = holderBar[y]
              /\ newestBar'[y] = newestBar[y]
              /\ outcomeBar'[y] = outcomeBar[y]
              /\ resultBar'[y] = resultBar[y]
        BY <3>1, <3>2, <3>3 DEF holderBar, newestBar, outcomeBar, resultBar, Known
      <3> QED
        BY <3>4, SameBars
    <2>4. ASSUME NEW x \in DOMAIN records, NEW new, Changes(x, new),
                 RecStep(records[x], new)
          PROVE  [Fenced!AbstractNext]_(Fenced!avars)
      BY <2>1, <2>4, ChangeImplements DEF RecStep
    <2> QED
      BY <2>1, <2>2, <2>3, <2>4 DEF EngineStep, QuietOn, CommitOn, Granting, QuietStep
  <1> QED
    BY <1>1, <1>2, Invariance, PTL
       DEF Spec, ImplementsFencedCommit, Fenced!AbstractSpec
=============================================================================
