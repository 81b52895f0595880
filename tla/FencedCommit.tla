---------------------------- MODULE FencedCommit ----------------------------
(***************************************************************************)
(* What the engine promises, without lifecycle states, tickets or epochs:  *)
(* for each execution authority is granted to one attempt after another,   *)
(* each identified by a larger number; it may be withdrawn; and at most    *)
(* once a result is committed, by the attempt that holds authority, which  *)
(* is the newest there is.  A closed execution never changes again.        *)
(***************************************************************************)
EXTENDS Naturals

CONSTANTS Execs, Digests, None

VARIABLES
  holder,    \* the attempt that holds authority over each execution, or 0
  newest,    \* the largest attempt id ever granted for it, or 0
  outcome,   \* "open", "committed" or "closed" without a result
  result     \* the committed digest, or None

avars == <<holder, newest, outcome, result>>

AbstractInit ==
  /\ holder = [x \in Execs |-> 0]
  /\ newest = [x \in Execs |-> 0]
  /\ outcome = [x \in Execs |-> "open"]
  /\ result = [x \in Execs |-> None]

Grant(x) ==
  /\ outcome[x] = "open"
  /\ holder'[x] > newest[x]
  /\ holder' = [holder EXCEPT ![x] = holder'[x]]
  /\ newest' = [newest EXCEPT ![x] = holder'[x]]
  /\ UNCHANGED <<outcome, result>>

Withdraw(x) ==
  /\ outcome[x] = "open"
  /\ holder' = [holder EXCEPT ![x] = 0]
  /\ UNCHANGED <<newest, outcome, result>>

Commit(x) ==
  /\ outcome[x] = "open"
  /\ holder[x] # 0
  /\ holder[x] = newest[x]
  /\ outcome' = [outcome EXCEPT ![x] = "committed"]
  /\ \E d \in Digests : result' = [result EXCEPT ![x] = d]
  /\ UNCHANGED <<holder, newest>>

Close(x) ==
  /\ outcome[x] = "open"
  /\ outcome' = [outcome EXCEPT ![x] = "closed"]
  /\ holder' \in {holder, [holder EXCEPT ![x] = 0]}
  /\ UNCHANGED <<newest, result>>

AbstractNext ==
  \E x \in Execs : Grant(x) \/ Withdraw(x) \/ Commit(x) \/ Close(x)

AbstractSpec == AbstractInit /\ [][AbstractNext]_avars
=============================================================================
