------------------------------- MODULE KeyLock -------------------------------
(***************************************************************************)
(* util.KeyLock: one mutex for each key, made when the key is first used.  *)
(* The sections under giantLock are single steps: the lookup, under the    *)
(* read lock, and the second lookup with the creation, under the write     *)
(* lock.  The modules that use the lock say when a process takes a step.   *)
(* A mutex is named by its key and by the process that made it.            *)
(***************************************************************************)
CONSTANTS
    Procs,      \* the goroutines that lock keys
    Keys,       \* the keys they lock
    None        \* no process, an absent entry

ASSUME NoneAssumption == None \notin Procs

VARIABLES
    locks,      \* for each key, who made its mutex, or None
    holder,     \* for each mutex, who has it locked, or None
    want        \* what getLock returned to a process, or None

lockVars == <<locks, holder, want>>

LockTypeOK ==
    /\ locks \in [Keys -> Procs \union {None}]
    /\ holder \in [Keys \X Procs -> Procs \union {None}]
    /\ want \in [Procs -> Procs \union {None}]

NewKeyLock ==
    /\ locks = [k \in Keys |-> None]
    /\ holder = [m \in Keys \X Procs |-> None]
    /\ want = [p \in Procs |-> None]

\* The lookup finds the mutex of the key.
GetLock(p, k) ==
    /\ locks[k] # None
    /\ want' = [want EXCEPT ![p] = locks[k]]
    /\ UNCHANGED <<locks, holder>>

\* The lookup finds none; the process goes on to MakeLock.
LockMissing(k) == locks[k] = None /\ UNCHANGED lockVars

\* Fault: the lookup is not repeated under the write lock.
MakeLock_NoRecheck(p, k) ==
    /\ want' = [want EXCEPT ![p] = p]
    /\ locks' = [locks EXCEPT ![k] = p]
    /\ UNCHANGED holder

\* The lookup is repeated: another process may have made the mutex.
MakeLock(p, k) ==
    LET m == IF locks[k] = None THEN p ELSE locks[k]
    IN  /\ want' = [want EXCEPT ![p] = m]
        /\ locks' = [locks EXCEPT ![k] = m]
        /\ UNCHANGED holder

Lock(p, k) ==
    /\ holder[<<k, want[p]>>] = None
    /\ holder' = [holder EXCEPT ![<<k, want[p]>>] = p]
    /\ UNCHANGED <<locks, want>>

\* Unlock looks the mutex up again.
Unlock(p, k) ==
    /\ holder' = [holder EXCEPT ![<<k, locks[k]>>] = None]
    /\ want' = [want EXCEPT ![p] = None]
    /\ UNCHANGED locks
=============================================================================
