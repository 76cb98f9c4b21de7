---------------------------- MODULE KeyValueStore ----------------------------
(***************************************************************************)
(* The key-value store of the POSIX platform (HAPPlatformKeyValueStore.c,  *)
(* HAPPlatformFileManager.c): a file per key. A value is replaced by       *)
(* writing a temporary file, bringing it to the disk, and renaming it.     *)
(*                                                                         *)
(* A name has what the file system shows, and what may be found under it   *)
(* after a power failure: until the directory has been brought to the disk *)
(* a rename or a removal may or may not be there, and a file whose data    *)
(* were not brought there may be torn. Every call of the system may fail,  *)
(* and the process or the power at any moment. There is one caller.        *)
(***************************************************************************)
EXTENDS Integers, FiniteSets

CONSTANTS
  Keys,
  Contents,     \* what is written
  Absent,       \* content of a name that is not there
  Torn,         \* content of a file that is not complete
  Privileged    \* the process may open files it has no permission to write

KeyValueStoreAssumption ==
  /\ Absent \notin Contents /\ Torn \notin Contents /\ Absent # Torn
  /\ Privileged \in BOOLEAN

VARIABLES
  file,      \* what the file system shows for each key
  durable,   \* what may be found for it after a power failure
  leftover,  \* keys with a temporary file
  op,        \* the call that is under way
  promised,  \* history: what the results of the calls allow to be found
  ignored    \* history: keys whose data were not brought to the disk, unnoticed

vars == <<file, durable, leftover, op, promised, ignored>>

NoCall == [at |-> "idle", key |-> Absent, value |-> Absent, synced |-> FALSE, purging |-> FALSE]

Init ==
  /\ file = [k \in Keys |-> Absent]
  /\ durable = [k \in Keys |-> {Absent}]
  /\ leftover = {}
  /\ op = NoCall
  /\ promised = [k \in Keys |-> {Absent}]
  /\ ignored = {}

\* The call fails: either of the old and the new content is in order.
Failed == op' = NoCall /\ UNCHANGED promised

\* The call succeeds: key k has content c for good.
Succeeded(k, c) == op' = NoCall /\ promised' = [promised EXCEPT ![k] = {c}]

-----------------------------------------------------------------------------
(* HAPPlatformKeyValueStoreSet *)

Set(k, v) ==
  /\ op = NoCall
  /\ op' = [NoCall EXCEPT !.at = "open", !.key = k, !.value = v]
  /\ promised' = [promised EXCEPT ![k] = @ \cup {v}]
  /\ UNCHANGED <<file, durable, leftover, ignored>>

\* The temporary file is made readable only, so that one that was left behind cannot
\* be opened again. Creating and opening the directory may fail as well.
OpenTemporary ==
  /\ op.at = "open"
  /\ \/ /\ op.key \notin leftover \/ Privileged
        /\ leftover' = leftover \cup {op.key}
        /\ op' = [op EXCEPT !.at = "write"]
        /\ UNCHANGED promised
     \/ Failed /\ UNCHANGED leftover
  /\ UNCHANGED <<file, durable, ignored>>

\* If it cannot be written, remove is called with a path relative to the wrong
\* directory: the temporary file stays.
WriteTemporary ==
  /\ op.at = "write"
  /\ (op' = [op EXCEPT !.at = "sync"] /\ UNCHANGED promised) \/ Failed
  /\ UNCHANGED <<file, durable, leftover, ignored>>

\* Mutant: the file is closed without being brought to the disk.
SyncTemporary_Closed ==
  /\ op.at = "sync"
  /\ op' = [op EXCEPT !.at = "directory", !.synced = FALSE]
  /\ UNCHANGED <<file, durable, leftover, promised, ignored>>

\* An error of this fsync is logged and ignored.
SyncTemporary ==
  /\ op.at = "sync"
  /\ \E synced \in BOOLEAN :
       /\ op' = [op EXCEPT !.at = "directory", !.synced = synced]
       /\ ignored' = IF synced THEN ignored ELSE ignored \cup {op.key}
  /\ UNCHANGED <<file, durable, leftover, promised>>

SyncDirectory ==
  /\ op.at = "directory"
  /\ (op' = [op EXCEPT !.at = "rename"] /\ UNCHANGED promised) \/ Failed
  /\ UNCHANGED <<file, durable, leftover, ignored>>

\* What may be found in the new file.
Found == IF op.synced THEN {op.value} ELSE {op.value, Torn}

Rename ==
  /\ op.at = "rename"
  /\ \/ /\ file' = [file EXCEPT ![op.key] = op.value]
        /\ durable' = [durable EXCEPT ![op.key] = @ \cup Found]
        /\ leftover' = leftover \ {op.key}
        /\ op' = [op EXCEPT !.at = "commit"]
        /\ UNCHANGED promised
     \/ Failed /\ UNCHANGED <<file, durable, leftover>>
  /\ UNCHANGED ignored

\* Without this fsync the name may still be found with what it had before.
Commit ==
  /\ op.at = "commit"
  /\ \/ /\ durable' = [durable EXCEPT ![op.key] = Found]
        /\ Succeeded(op.key, op.value)
     \/ Failed /\ UNCHANGED durable
  /\ UNCHANGED <<file, leftover, ignored>>

-----------------------------------------------------------------------------
(* HAPPlatformKeyValueStoreGet, HAPPlatformKeyValueStoreRemove and *)
(* HAPPlatformKeyValueStorePurgeDomain *)

\* ENOENT is no error; the value is the file's.
Get(k) == [found |-> file[k] # Absent, bytes |-> file[k]]

\* A name that is not there is removed already; nothing is brought to the disk then.
Remove(k) ==
  /\ op = NoCall
  /\ IF Get(k).found
     THEN /\ op' = [NoCall EXCEPT !.at = "unlink", !.key = k]
          /\ promised' = [promised EXCEPT ![k] = @ \cup {Absent}]
     ELSE UNCHANGED <<op, promised>>
  /\ UNCHANGED <<file, durable, leftover, ignored>>

Unlink ==
  /\ op.at = "unlink"
  /\ \/ /\ file' = [file EXCEPT ![op.key] = Absent]
        /\ durable' = [durable EXCEPT ![op.key] = @ \cup {Absent}]
        /\ op' = [op EXCEPT !.at = "unlinked"]
        /\ UNCHANGED promised
     \/ Failed /\ UNCHANGED <<file, durable>>
  /\ UNCHANGED <<leftover, ignored>>

\* An enumeration lists the names that are keys: those of temporary files are not.
Enumerated == {k \in Keys : file[k] # Absent}

\* The next key of a purge.
NextPurged ==
  IF op.purging /\ Enumerated # {}
  THEN \E k \in Enumerated : op' = [op EXCEPT !.at = "unlink", !.key = k]
  ELSE op' = NoCall

\* The directory is brought to the disk; an error is ignored.
Removed ==
  /\ op.at = "unlinked"
  /\ \/ durable' = [durable EXCEPT ![op.key] = {Absent}] /\ UNCHANGED ignored
     \/ ignored' = ignored \cup {op.key} /\ UNCHANGED durable
  /\ NextPurged
  /\ promised' = [k \in Keys |->
                    IF k = op.key THEN {Absent}
                    ELSE IF op'.key = k THEN promised[k] \cup {Absent} ELSE promised[k]]
  /\ UNCHANGED <<file, leftover>>

\* The first error ends a purge with what is left (Failed).
PurgeDomain ==
  /\ op = NoCall
  /\ \E k \in Enumerated :
       /\ op' = [NoCall EXCEPT !.at = "unlink", !.key = k, !.purging = TRUE]
       /\ promised' = [promised EXCEPT ![k] = @ \cup {Absent}]
  /\ UNCHANGED <<file, durable, leftover, ignored>>

-----------------------------------------------------------------------------

\* The process is killed: the file system keeps what it shows.
ProcessCrash ==
  /\ op # NoCall /\ Failed
  /\ UNCHANGED <<file, durable, leftover, ignored>>

\* The power fails: of what was not brought to the disk anything may be lost.
PowerFailure ==
  /\ file' \in {f \in [Keys -> UNION {durable[k] : k \in Keys}] : \A k \in Keys : f[k] \in durable[k]}
  /\ durable' = [k \in Keys |-> {file'[k]}]
  /\ leftover' \in SUBSET leftover
  /\ op' = NoCall
  /\ promised' = durable'
  /\ ignored' = {}

Call ==
  \/ \E k \in Keys, v \in Contents : Set(k, v)
  \/ \E k \in Keys : Remove(k)
  \/ PurgeDomain

Step ==
  \/ OpenTemporary \/ WriteTemporary \/ SyncTemporary \/ SyncDirectory \/ Rename \/ Commit
  \/ Unlink \/ Removed

Next == Call \/ Step \/ ProcessCrash \/ PowerFailure

Spec == Init /\ [][Next]_vars

-----------------------------------------------------------------------------
(* Properties. *)

\* Whenever the process or the power fails, each key is found with a value that its
\* calls account for: after a call that succeeded with that call's, during a call and
\* after one that failed with the old or the new one, never with a part of it (the
\* order of the steps of HAPPlatformFileManagerWriteFile; HAPPlatformKeyValueStore+
\* Init.h: "This guarantees atomicity in case of power failure"). The exception are
\* keys for which an error of fsync was ignored.
StoreAtomic ==
  \A k \in Keys : k \notin ignored =>
    file[k] \in promised[k] /\ durable[k] \subseteq promised[k]

=============================================================================
