------------------------------- MODULE Store -------------------------------
(***************************************************************************)
(* FilePersistenceStore (src/persistence.cpp): the snapshot file, the      *)
(* temporary file beside it, and a save that writes the one and moves it   *)
(* over the other in several steps of the file system.  The process may    *)
(* die between any two of them, and each may fail.                         *)
(*                                                                         *)
(* The bytes of a file are abstracted to NoFile, Torn (anything the length,*)
(* magic and checksum tests of load() refuse) or the snapshot they encode. *)
(***************************************************************************)
EXTENDS EngineOps

CONSTANTS
  NoFile, Torn,
  Windows         \* the platform branch of replace_file

ASSUME WindowsAssumption == Windows \in BOOLEAN

VARIABLES
  target,    \* the file at path_
  tmp,       \* the file at path_ + ".tmp"
  saving     \* where save() is: "idle", a step, or "done" / "failed"

svars == <<target, tmp, saving>>

SaveSteps == {"idle", "write", "replace", "remove", "rename", "done", "failed"}

Snapshot(e, recs) == [epoch |-> e, records |-> recs]

StoreInit ==
  /\ target = NoFile
  /\ tmp = NoFile
  /\ saving = "idle"

-----------------------------------------------------------------------------
\* The states whose record must name a current attempt and an owner.
ActiveStates ==
  {"RUNNING", "DISPATCHED", "RESUMING", "CANCELLATION_REQUESTED",
   "PREEMPTION_REQUESTED"}

\* decode_record: the enums of a file that was saved whole are valid, and the
\* cross-field validation remains.
Decodes(rec) ==
  /\ rec.generation # 0
  /\ \A i, j \in DOMAIN rec.attempts :
       i # j => /\ rec.attempts[i].id # rec.attempts[j].id
                /\ rec.attempts[i].dispatch_id # rec.attempts[j].dispatch_id
  /\ \A i \in DOMAIN rec.attempts : rec.attempts[i].generation # 0
  /\ rec.current_attempt_id # 0 =>
       /\ rec.current_attempt_generation # 0
       /\ \E i \in DOMAIN rec.attempts :
            /\ rec.attempts[i].id = rec.current_attempt_id
            /\ rec.attempts[i].generation = rec.current_attempt_generation
  /\ rec.state = "COMMITTED" =>
       rec.committed_digest # None /\ rec.commit_generation # 0
  /\ rec.state \in ActiveStates =>
       /\ rec.current_attempt_id # 0
       /\ None \notin {rec.owner_worker, rec.owner_worker_boot}

\* load() succeeds: one record that does not decode refuses the whole file.
Loads(file) ==
  /\ file \notin {NoFile, Torn}
  /\ \A x \in DOMAIN file.records : Decodes(file.records[x])

-----------------------------------------------------------------------------
\* write_all asks f.good() before the stream is closed, so a write that fails
\* when the buffer is flushed by the destructor is reported as done.
WriteTmp(s) ==
  /\ saving = "write"
  /\ \/ /\ tmp' \in {s, Torn}
        /\ saving' = IF Windows THEN "replace" ELSE "remove"
     \/ /\ tmp' \in {tmp, Torn}
        /\ saving' = "failed"
  /\ UNCHANGED target

\* MoveFileEx with MOVEFILE_REPLACE_EXISTING; on failure, the fallback below.
ReplaceTarget ==
  /\ saving = "replace"
  /\ \/ /\ target' = tmp
        /\ tmp' = NoFile
        /\ saving' = "done"
     \/ /\ saving' = "remove"
        /\ UNCHANGED <<target, tmp>>

\* The result of DeleteFile is ignored on Windows, the one of remove() is not.
RemoveTarget ==
  /\ saving = "remove"
  /\ \/ /\ target' = NoFile
        /\ saving' = "rename"
     \/ /\ target # NoFile
        /\ saving' = IF Windows THEN "rename" ELSE "failed"
        /\ UNCHANGED target
  /\ UNCHANGED tmp

\* On Windows the move fails if the target could not be deleted.
RenameTmp ==
  /\ saving = "rename"
  /\ \/ /\ target = NoFile
        /\ target' = tmp
        /\ tmp' = NoFile
        /\ saving' = "done"
     \/ /\ saving' = "failed"
        /\ UNCHANGED <<target, tmp>>

SaveStep(s) ==
  \/ WriteTmp(s)
  \/ ReplaceTarget
  \/ RemoveTarget
  \/ RenameTmp

\* What a process that dies leaves behind: a half-written temporary at most.
StoreDies ==
  /\ saving' = "idle"
  /\ tmp' \in IF saving = "write" THEN {tmp, Torn} ELSE {tmp}
  /\ UNCHANGED target
=============================================================================
