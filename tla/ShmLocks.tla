------------------------------ MODULE ShmLocks -------------------------------
(***************************************************************************)
(* The shared-memory locks and regions of vfs/sqlite_vfs.rs: shm_map(),    *)
(* shm_lock() and shm_unmap(), each atomic under the mutex of SHM.  The    *)
(* build omits WAL and registers none of them; the code is kept for the    *)
(* day it does.  Connections follow SQLite's rules: they lock what they do *)
(* not hold and unlock what they hold.                                     *)
(***************************************************************************)
EXTENDS Integers, FiniteSets, FiniteSetsExt

CONSTANTS
  Conn,       \* connections
  NLock,      \* SQLITE_SHM_NLOCK
  MaxRegions  \* bound: regions mapped

ASSUME ShmAssumption == IsFiniteSet(Conn) /\ NLock \in Nat /\ MaxRegions \in Nat

LockId == 0 .. NLock - 1
Mode == {"shared", "exclusive"}

VARIABLES
  locks,      \* the ShmLockState of each lock: shared_count and exclusive
  regions,    \* number of regions; -1 when SHM is None
  held,       \* what each connection has been granted (not in the code)
  misused     \* a call ran past the last lock, or SHM was dropped in use

shm == <<locks, regions, held, misused>>

Free == [shared |-> 0, exclusive |-> FALSE]
Nothing == [i \in LockId |-> "none"]

ShmInit ==
  /\ locks = [i \in LockId |-> Free]
  /\ regions = -1
  /\ held = [c \in Conn |-> Nothing]
  /\ misused = FALSE

-----------------------------------------------------------------------------
(* Plausible mistakes in the code, each the body of one definition.        *)

Released_Not(l, mode) == l
-----------------------------------------------------------------------------

\* try_shared() and try_exclusive(), and their release.
CanTake(i, mode) == ~locks[i].exclusive /\ (mode = "exclusive" => locks[i].shared = 0)
Taken(l, mode) ==
  IF mode = "shared" THEN [l EXCEPT !.shared = @ + 1] ELSE [l EXCEPT !.exclusive = TRUE]
Released(l, mode) ==
  IF mode = "shared" THEN [l EXCEPT !.shared = @ - 1] ELSE [l EXCEPT !.exclusive = FALSE]

\* The locks that a call names, and those of them at which it must stop.
Named(o, n) == (o .. o + n - 1) \cap LockId
Blocked(o, n, mode) == {i \in Named(o, n) : ~CanTake(i, mode)}
PastLast(o, n) == o + n > NLock

Holds(c, o, n, mode) == \A i \in Named(o, n) : held[c][i] = mode
Grant(c, o, n, mode) ==
  held' = [held EXCEPT ![c] = [i \in LockId |-> IF i \in Named(o, n) THEN mode ELSE @[i]]]

Mapped == regions >= 0

\* shm_lock() takes every lock of the range ...
ShmLock(c, o, n, mode) ==
  /\ Mapped /\ Holds(c, o, n, "none")
  /\ Blocked(o, n, mode) = {} /\ ~PastLast(o, n)
  /\ locks' = [i \in LockId |-> IF i \in Named(o, n) THEN Taken(locks[i], mode) ELSE locks[i]]
  /\ Grant(c, o, n, mode)
  /\ UNCHANGED <<regions, misused>>

\* ... or, when one is not to be had, gives back those it took before it ...
ShmBusy(c, o, n, mode) ==
  /\ Mapped /\ Holds(c, o, n, "none")
  /\ Blocked(o, n, mode) # {}
  /\ LET i == Min(Blocked(o, n, mode))
     IN  locks' = [j \in LockId |-> IF j \in o .. i - 1
                                    THEN Released(Taken(locks[j], mode), mode) ELSE locks[j]]
  /\ UNCHANGED <<regions, held, misused>>

\* ... or runs past the last one and keeps what it took.
ShmPastLast(c, o, n, mode) ==
  /\ Mapped /\ Holds(c, o, n, "none")
  /\ Blocked(o, n, mode) = {} /\ PastLast(o, n)
  /\ locks' = [i \in LockId |-> IF i \in Named(o, n) THEN Taken(locks[i], mode) ELSE locks[i]]
  /\ misused' = TRUE
  /\ UNCHANGED <<regions, held>>

ShmUnlock(c, o, n, mode) ==
  /\ Mapped /\ Holds(c, o, n, mode) /\ ~PastLast(o, n)
  /\ locks' = [i \in LockId |-> IF i \in Named(o, n) THEN Released(locks[i], mode) ELSE locks[i]]
  /\ Grant(c, o, n, "none")
  /\ UNCHANGED <<regions, misused>>

\* shm_map() makes regions up to the one asked for; without memory for all of
\* them it keeps those it has made.
ShmMap(r) ==
  /\ r < MaxRegions
  /\ regions' \in {Max({regions, k}) : k \in 0 .. r + 1}
  /\ UNCHANGED <<locks, held, misused>>

\* shm_unmap(delete) by a connection that holds no lock.  It drops the locks
\* and the regions of all.
ShmUnmap(c) ==
  /\ held[c] = Nothing
  /\ regions' = -1
  /\ locks' = [i \in LockId |-> Free]
  /\ misused' = (misused \/ \E d \in Conn : held[d] # Nothing)
  /\ UNCHANGED held

\* Behaviours are followed up to the first misuse.
ShmNext ==
  /\ ~misused
  /\ \/ \E c \in Conn, o \in LockId, n \in 1 .. NLock, mode \in Mode :
          \/ ShmLock(c, o, n, mode) \/ ShmBusy(c, o, n, mode)
          \/ ShmPastLast(c, o, n, mode) \/ ShmUnlock(c, o, n, mode)
     \/ \E r \in 0 .. MaxRegions : ShmMap(r)
     \/ \E c \in Conn : ShmUnmap(c)

ShmSpec == ShmInit /\ [][ShmNext]_shm

-----------------------------------------------------------------------------

\* Every variable has a value of its type.
ShmTypeOK ==
  /\ locks \in [LockId -> [shared : Nat, exclusive : BOOLEAN]]
  /\ regions \in -1 .. MaxRegions
  /\ held \in [Conn -> [LockId -> Mode \cup {"none"}]]
  /\ misused \in BOOLEAN

\* The state of each lock is what the connections were granted: a call that
\* returns SQLITE_BUSY half way through its range leaves nothing locked, so
\* that no lock is lost for good.
LocksAccounted ==
  ~misused =>
    \A i \in LockId :
      /\ locks[i].shared = Cardinality({c \in Conn : held[c][i] = "shared"})
      /\ locks[i].exclusive <=> \E c \in Conn : held[c][i] = "exclusive"

\* A lock held exclusively is held by one connection.
WriterAlone ==
  ~misused =>
    \A i \in LockId : \A c, d \in Conn :
      c # d /\ held[c][i] = "exclusive" => held[d][i] = "none"

\* The locks are a readers-writer lock each, and none is ever lost.
LocksSound == LocksAccounted /\ WriterAlone
LocksExact == ShmTypeOK /\ LocksSound
=============================================================================
