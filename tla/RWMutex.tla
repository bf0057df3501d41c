------------------------------ MODULE RWMutex ------------------------------
(***************************************************************************)
(* The reader/writer lock of the DAP transport (dap/rwmutex.h), built from *)
(* a mutex, a condition variable and two counters.  A reader holds the     *)
(* mutex only while it counts itself in or out; a writer keeps it.  A      *)
(* waiting writer sleeps on the condition variable and is woken by a       *)
(* notification or for no reason at all.                                   *)
(***************************************************************************)
EXTENDS Integers, FiniteSets

CONSTANTS
  Threads,
  None       \* nobody

ASSUME ThreadsFinite == IsFiniteSet(Threads)
ASSUME NoneAssumption == None \notin Threads

VARIABLES
  readLocks,
  pendingWriteLocks,
  mutex,      \* the writer that keeps the mutex, or None
  at,         \* what each thread is doing
  notified    \* sleepers that were woken and have not looked yet

lockVars == <<readLocks, pendingWriteLocks, mutex, at, notified>>

LockInit ==
  /\ readLocks = 0
  /\ pendingWriteLocks = 0
  /\ mutex = None
  /\ at = [t \in Threads |-> "outside"]
  /\ notified = {}

Goes(t, from, to) == at[t] = from /\ at' = [at EXCEPT ![t] = to]
Waiting == {t \in Threads : at[t] = "waiting"}

\* cv.notify_one wakes one of the sleepers, if there is one.
NotifyOne ==
  IF Waiting \subseteq notified THEN UNCHANGED notified
  ELSE \E t \in Waiting \ notified : notified' = notified \cup {t}

-----------------------------------------------------------------------------

LockReader(t) ==
  /\ Goes(t, "outside", "reading")
  /\ mutex = None
  /\ readLocks' = readLocks + 1
  /\ UNCHANGED <<pendingWriteLocks, mutex, notified>>

\* Mutant: the last reader tells nobody.
UnlockReaderSilently(t) ==
  /\ Goes(t, "reading", "outside")
  /\ mutex = None
  /\ readLocks' = readLocks - 1
  /\ UNCHANGED <<pendingWriteLocks, mutex, notified>>

UnlockReader(t) ==
  /\ Goes(t, "reading", "outside")
  /\ mutex = None
  /\ readLocks' = readLocks - 1
  /\ IF readLocks' = 0 /\ pendingWriteLocks > 0 THEN NotifyOne ELSE UNCHANGED notified
  /\ UNCHANGED <<pendingWriteLocks, mutex>>

\* lockWriter without readers: the mutex stays locked.
LockWriter(t) ==
  /\ Goes(t, "outside", "writing")
  /\ mutex = None /\ readLocks = 0
  /\ mutex' = t
  /\ UNCHANGED <<readLocks, pendingWriteLocks, notified>>

\* lockWriter with readers: sleep.
WaitForReaders(t) ==
  /\ Goes(t, "outside", "waiting")
  /\ mutex = None /\ readLocks > 0
  /\ pendingWriteLocks' = pendingWriteLocks + 1
  /\ UNCHANGED <<readLocks, mutex, notified>>

\* Mutant: woken means free.
WakeUnchecked(t) ==
  /\ Goes(t, "waiting", "writing")
  /\ t \in notified /\ mutex = None
  /\ notified' = notified \ {t}
  /\ pendingWriteLocks' = pendingWriteLocks - 1
  /\ mutex' = t
  /\ UNCHANGED readLocks

\* A woken writer has the mutex again and looks at readLocks.
Wake(t) ==
  /\ Goes(t, "waiting", IF readLocks = 0 THEN "writing" ELSE "waiting")
  /\ t \in notified /\ mutex = None
  /\ notified' = notified \ {t}
  /\ IF readLocks = 0
     THEN pendingWriteLocks' = pendingWriteLocks - 1 /\ mutex' = t
     ELSE UNCHANGED <<pendingWriteLocks, mutex>>
  /\ UNCHANGED readLocks

WakeSpuriously(t) ==
  /\ t \in Waiting \ notified
  /\ notified' = notified \cup {t}
  /\ UNCHANGED <<readLocks, pendingWriteLocks, mutex, at>>

\* Mutant: only the last reader passes the lock on.
UnlockWriterSilently(t) ==
  /\ Goes(t, "writing", "outside")
  /\ mutex' = None
  /\ UNCHANGED <<readLocks, pendingWriteLocks, notified>>

UnlockWriter(t) ==
  /\ Goes(t, "writing", "outside")
  /\ IF pendingWriteLocks > 0 THEN NotifyOne ELSE UNCHANGED notified
  /\ mutex' = None
  /\ UNCHANGED <<readLocks, pendingWriteLocks>>

LockNext == \E t \in Threads :
  \/ LockReader(t) \/ UnlockReader(t)
  \/ LockWriter(t) \/ WaitForReaders(t)
  \/ Wake(t) \/ WakeSpuriously(t)
  \/ UnlockWriter(t)

\* Who holds the lock gives it back, and who was woken looks, at the latest
\* when the mutex has become free again and again.
LockFairness == \A t \in Threads :
  /\ SF_lockVars(UnlockReader(t))
  /\ WF_lockVars(UnlockWriter(t))
  /\ SF_lockVars(Wake(t))

LockSpec == LockInit /\ [][LockNext]_lockVars /\ LockFairness

-----------------------------------------------------------------------------
(* Properties.                                                             *)

Readers == {t \in Threads : at[t] = "reading"}
Writers == {t \in Threads : at[t] = "writing"}

\* Type correctness.
LockTypeOK ==
  /\ readLocks \in Nat
  /\ pendingWriteLocks \in Nat
  /\ mutex \in Threads \cup {None}
  /\ at \in [Threads -> {"outside", "reading", "waiting", "writing"}]
  /\ notified \subseteq Waiting

\* A writer is alone: no reader and no other writer is inside with it.
Exclusion == \A t \in Writers : Readers = {} /\ Writers = {t}

\* Whenever the lock is free and writers sleep, one of them has been woken:
\* notify_one is called for each chance, and a woken writer that loses the
\* chance to somebody leaves one who will call it again.
NoLostWakeup ==
  readLocks = 0 /\ mutex = None /\ Waiting # {} => notified # {}

\* The lock is a reader/writer lock.
Abstract == INSTANCE SharedLock WITH readers <- Readers, writers <- Writers
ImplementsSharedLock == Abstract!Spec

\* A writer sleeps for ever only if readers, who do not give way to it, come
\* for ever.
StarvedByReadersOnly ==
  \A t \in Threads : <>[](at[t] = "waiting") => []<>(readLocks > 0)
==============================================================================
