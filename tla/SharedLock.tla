----------------------------- MODULE SharedLock -----------------------------
(***************************************************************************)
(* What a reader/writer lock promises, whatever it is built from: readers  *)
(* share it, a writer has it alone.                                        *)
(***************************************************************************)
CONSTANT Threads

VARIABLES
  readers,   \* the threads that hold the lock for reading
  writers    \* the threads that hold it for writing

vars == <<readers, writers>>

Init == readers = {} /\ writers = {}

LockReader(t) ==
  /\ t \notin readers /\ writers = {}
  /\ readers' = readers \cup {t}
  /\ UNCHANGED writers

UnlockReader(t) ==
  /\ t \in readers
  /\ readers' = readers \ {t}
  /\ UNCHANGED writers

LockWriter(t) ==
  /\ readers = {} /\ writers = {}
  /\ writers' = {t}
  /\ UNCHANGED readers

UnlockWriter(t) ==
  /\ t \in writers
  /\ writers' = writers \ {t}
  /\ UNCHANGED readers

Next == \E t \in Threads :
  LockReader(t) \/ UnlockReader(t) \/ LockWriter(t) \/ UnlockWriter(t)

Spec == Init /\ [][Next]_vars
==============================================================================
