------------------------------- MODULE AuditLog -------------------------------
(***************************************************************************)
(* The rotated log of sandbox runs (sandbox/audit.py).  A process writes   *)
(* under its own lock; the files belong to all processes, so every call of *)
(* the file system is an action.                                           *)
(***************************************************************************)
EXTENDS Naturals, Sequences, SequencesExt, FiniteSets

CONSTANTS
  Writers,      \* processes that run sandboxes
  Keep,         \* rotated files kept; 0 turns the rotation off
  Full,         \* records that fill a file
  MaxRecords,   \* bound: records written
  MaxCrashes    \* bound: processes that die while they write

VARIABLES
  files,        \* the records in the log (0) and in its rotated files, or Missing
  pc,           \* where each writer stands in _write
  written,      \* how many records were begun; a record is its number
  crashes

vars == <<files, pc, written, crashes>>

Missing == <<0>>      \* records count from 1
Idle == [at |-> "idle", file |-> 0, record |-> 0]
Exists(k) == files[k] # Missing

Init ==
  /\ files = [k \in 0..Keep |-> Missing]
  /\ pc = [w \in Writers |-> Idle]
  /\ written = 0 /\ crashes = 0

Goto(w, step, k) == pc' = [pc EXCEPT ![w].at = step, ![w].file = k]
Leave(w) == pc' = [pc EXCEPT ![w] = Idle]

\* A record that holds something secret is dropped before this.  With no file to
\* keep the log is never moved: what the code then deletes is no file of its own.
Begin(w) ==
  /\ pc[w] = Idle /\ written < MaxRecords
  /\ written' = written + 1
  /\ pc' = [pc EXCEPT ![w] =
       [at |-> IF Keep > 0 /\ Exists(0) /\ Len(files[0]) >= Full THEN "oldest" ELSE "append",
        file |-> 0, record |-> written + 1]]
  /\ UNCHANGED <<files, crashes>>

\* Mutant: the log moves at once, over the file before it.
StraightToTheLog(k) == 0

\* After file k the next younger one moves, the log itself last.
NextToMove(k) == k - 1

\* The oldest file goes, if it is there.
Unlink(w) ==
  /\ pc[w].at = "oldest"
  /\ files' = [files EXCEPT ![Keep] = Missing]
  /\ Goto(w, "move", NextToMove(Keep))
  /\ UNCHANGED <<written, crashes>>

\* A rotated file that is not there is passed over; the log is not looked for.
Moves(k) == k = 0 \/ Exists(k)

\* rename replaces the target.  A log that another writer has moved away is an
\* error, which is swallowed with the record.
Move(w) ==
  /\ pc[w].at = "move"
  /\ LET k == pc[w].file
     IN  IF Moves(k) /\ ~Exists(k)
         THEN Leave(w) /\ UNCHANGED files
         ELSE /\ files' = IF Moves(k)
                          THEN [files EXCEPT ![k] = Missing, ![k + 1] = files[k]]
                          ELSE files
              /\ IF k = 0 THEN Goto(w, "append", 0) ELSE Goto(w, "move", NextToMove(k))
  /\ UNCHANGED <<written, crashes>>

\* Opening for appending makes the file.
AppendRecord(w) ==
  /\ pc[w].at = "append"
  /\ files' = [files EXCEPT ![0] = Append(IF @ = Missing THEN <<>> ELSE @, pc[w].record)]
  /\ Leave(w)
  /\ UNCHANGED <<written, crashes>>

\* The disk is full or the directory read-only: the record is lost, its run is not.
Fail(w) ==
  /\ pc[w] # Idle
  /\ Leave(w)
  /\ crashes < MaxCrashes /\ crashes' = crashes + 1
  /\ UNCHANGED <<files, written>>

Next == \E w \in Writers :
  Begin(w) \/ Unlink(w) \/ Move(w) \/ AppendRecord(w) \/ Fail(w)

Spec == Init /\ [][Next]_vars

Records(k) == IF Exists(k) THEN ToSet(files[k]) ELSE {}
Kept == UNION {Records(k) : k \in 0..Keep}

\* A rotation drops the last of the kept files and no other, whatever fails in
\* the middle of it, and what goes was written before all that stays.
OldestGoes ==
  LET gone == Kept \ Kept'
  IN  gone \subseteq Records(Keep) /\ \A g \in gone, stays \in Kept' : g < stays
OnlyTheOldestGoes == [][OldestGoes]_vars

TypeOK ==
  /\ written \in 0..MaxRecords
  /\ \A k \in 0..Keep : Keep > 0 /\ Exists(k) => Len(files[k]) <= Full + Cardinality(Writers)
===============================================================================
