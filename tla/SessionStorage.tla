--------------------------- MODULE SessionStorage ---------------------------
(***************************************************************************)
(* The session storage the connections of QSCore share (SessionStorage.cpp)*)
(* and the lifetime of the sessions it holds.  A session is held by a      *)
(* shared_ptr in the frame of its session thread, by one in the storage    *)
(* and, while add runs, by add's argument.  Whoever drops the last of them *)
(* runs ~SessionImpl, which joins the session's dispatcher.                *)
(* Per session there are two threads here: the session thread of           *)
(* onClientConnected, followed from its last wait on, and the dispatcher,  *)
(* which runs the handlers of its client one after the other (module       *)
(* DebugSession has the rest of them).  The WebSocket thread looks         *)
(* sessions up by the id the front end sends (WSSession::setSessionId).    *)
(***************************************************************************)
EXTENDS Naturals

CONSTANTS
  Sessions,     \* the connections
  Ids,          \* session ids a client may launch under
  None,         \* no session
  NoId,         \* the empty id
  MaxLaunches   \* bound on the number of Launch requests

ASSUME NoneAssumption == None \notin Sessions
ASSUME NoIdAssumption == NoId \notin Ids
ASSUME MaxLaunchesAssumption == MaxLaunches \in Nat

VARIABLES
  sessionMap,      \* SessionStorage::sessionMap
  removeLaterSet,  \* SessionStorage::removeLaterSet
  holder,          \* the session whose dispatcher holds sessionMapMutex, or None
  thread,          \* where the session thread is
  dispatcher,      \* where the dispatcher is
  sessionId,       \* Session::sessionId
  launches,        \* Launch requests served or in service
  todo,            \* what cleanup's loop has before it
  victim,          \* the session a dispatcher is destroying, or None
  gone,            \* destroyed sessions
  found,           \* the session the WebSocket thread has looked up, or None
  fate,            \* of the process
  lastAdded,       \* the session that was added last under an id, or None
  launched,        \* the sessions that launched under an id
  late             \* sessions that served a Launch after their end was told

storageVars == <<sessionMap, removeLaterSet, holder>>
launchVars  == <<sessionId, launches, todo, victim>>
ghostVars   == <<lastAdded, launched, late>>
vars == <<storageVars, thread, dispatcher, launchVars, gone, found, fate, ghostVars>>

Init ==
  /\ sessionMap = [i \in Ids |-> None]
  /\ removeLaterSet = {}
  /\ holder = None
  /\ thread = [s \in Sessions |-> "waiting"]
  /\ dispatcher = [s \in Sessions |-> "idle"]
  /\ sessionId = [s \in Sessions |-> NoId]
  /\ launches = 0
  /\ todo = [s \in Sessions |-> {}]
  /\ victim = [s \in Sessions |-> None]
  /\ gone = {}
  /\ found = None
  /\ fate = "running"
  /\ lastAdded = [i \in Ids |-> None]
  /\ launched = [i \in Ids |-> {}]
  /\ late = {}

\* The session thread's frame, its shared_ptr and its events, still exists.
FrameAlive(s) == thread[s] \in {"waiting", "ending", "leaving"}
Stored(s) == \E i \in Ids : sessionMap[i] = s
Passed(s) == dispatcher[s] \in {"adding", "replacing", "added"}
Referenced(s) == FrameAlive(s) \/ Stored(s) \/ Passed(s)

At(s, here) == dispatcher[s] = here /\ victim[s] = None
Goto(s, there) == dispatcher' = [dispatcher EXCEPT ![s] = there]

\* The dispatcher of s has dropped a reference to t and destroys t if that was
\* the last one.
Release(s, t) ==
  \E old \in Sessions \cup {None} :
    /\ old = t
    /\ victim' = [victim EXCEPT ![s] =
                    IF old # None /\ ~Referenced(old)' THEN old ELSE None]

-----------------------------------------------------------------------------
(* The handlers, on the dispatcher.                                        *)

\* Mutant: terminate is fired by another thread (onError's commented call).
EndsAnywhere(s) ==
  /\ thread[s] = "waiting"
  /\ thread' = [thread EXCEPT ![s] = "ending"]
  /\ UNCHANGED <<storageVars, dispatcher, launchVars, gone, found, fate, ghostVars>>

\* A handler fires terminate: Disconnect, or Next and Continue at the end of
\* the program.
Ends(s) ==
  /\ thread[s] = "waiting" /\ dispatcher[s] = "idle"
  /\ thread' = [thread EXCEPT ![s] = "ending"]
  /\ UNCHANGED <<storageVars, dispatcher, launchVars, gone, found, fate, ghostVars>>

\* Launch sets the id and calls add, which ignores the empty one.  A Launch on
\* a dead frame is module DebugSession's business.
Launch(s, id) ==
  /\ dispatcher[s] = "idle" /\ FrameAlive(s) /\ launches < MaxLaunches
  /\ launches' = launches + 1
  /\ sessionId' = [sessionId EXCEPT ![s] = id]
  /\ Goto(s, IF id = NoId THEN "counting" ELSE "adding")
  /\ late' = IF thread[s] = "waiting" THEN late ELSE late \cup {s}
  /\ launched' = [i \in Ids |-> launched[i] \cup (IF i = id THEN {s} ELSE {})]
  /\ UNCHANGED <<storageVars, thread, todo, victim, gone, found, fate, lastAdded>>

\* Mutant: an id that is taken keeps its session.
AddIfAbsent(s) ==
  LET id == sessionId[s] IN
  /\ At(s, "adding") /\ holder = None
  /\ holder' = s
  /\ sessionMap' = IF sessionMap[id] = None THEN [sessionMap EXCEPT ![id] = s]
                   ELSE sessionMap
  /\ lastAdded' = [lastAdded EXCEPT ![id] = s]
  /\ Goto(s, "replacing")
  /\ UNCHANGED <<removeLaterSet, thread, launchVars, gone, found, fate,
                 launched, late>>

\* add takes the lock.  The assignment drops the reference to the session that
\* was stored before, so that session may be destroyed under the lock.
Add(s) ==
  LET id == sessionId[s] IN
  /\ At(s, "adding") /\ holder = None
  /\ holder' = s
  /\ sessionMap' = [sessionMap EXCEPT ![id] = s]
  /\ lastAdded' = [lastAdded EXCEPT ![id] = s]
  /\ Goto(s, "replacing")
  /\ UNCHANGED <<removeLaterSet, thread, sessionId, launches, todo, gone, found,
                 fate, launched, late>>
  /\ Release(s, sessionMap[id])

\* Mutant: the lock is kept.
KeepLock(s) ==
  /\ At(s, "replacing")
  /\ Goto(s, "added")
  /\ UNCHANGED <<storageVars, thread, launchVars, gone, found, fate, ghostVars>>

Unlock(s) ==
  /\ At(s, "replacing")
  /\ holder' = None
  /\ Goto(s, "added")
  /\ UNCHANGED <<sessionMap, removeLaterSet, thread, launchVars, gone, found,
                 fate, ghostVars>>

\* add's argument goes.
DropArgument(s) ==
  /\ At(s, "added")
  /\ Goto(s, "counting")
  /\ UNCHANGED <<storageVars, thread, sessionId, launches, todo, gone, found,
                 fate, ghostVars>>
  /\ Release(s, s)

\* getSessionsCount takes the lock for a moment; then cleanup, without the
\* lock, starts its loop.
CleanupStarts(s) ==
  /\ At(s, "counting") /\ holder = None
  /\ todo' = [todo EXCEPT ![s] = removeLaterSet]
  /\ Goto(s, "cleaning")
  /\ UNCHANGED <<storageVars, thread, sessionId, launches, victim, gone, found,
                 fate, ghostVars>>

CleanupErases(s) ==
  \E id \in todo[s] :
    /\ At(s, "cleaning")
    /\ todo' = [todo EXCEPT ![s] = @ \ {id}]
    /\ sessionMap' = [i \in Ids |-> IF i = id THEN None ELSE sessionMap[i]]
    /\ UNCHANGED <<removeLaterSet, holder, thread, dispatcher, sessionId,
                   launches, gone, found, fate, ghostVars>>
    /\ Release(s, IF id = NoId THEN None ELSE sessionMap[id])

CleanupClears(s) ==
  /\ At(s, "cleaning") /\ todo[s] = {}
  /\ removeLaterSet' = {}
  /\ Goto(s, "recounting")
  /\ UNCHANGED <<sessionMap, holder, thread, launchVars, gone, found, fate,
                 ghostVars>>

\* The second count, then the launch itself, which finds the debugger through
\* the frame of the session thread.
LaunchDone(s) ==
  /\ At(s, "recounting") /\ holder = None
  /\ Goto(s, "idle")
  /\ fate' \in IF FrameAlive(s) THEN {fate} ELSE {fate, "undefined"}
  /\ UNCHANGED <<storageVars, thread, launchVars, gone, found, ghostVars>>

\* ~SessionImpl of the victim: its dispatcher is joined once it is out of its
\* handler.
JoinVictim(s) ==
  \E t \in Sessions \ {s} :
    /\ victim[s] = t /\ dispatcher[t] = "idle"
    /\ Goto(t, "ended")
    /\ victim' = [victim EXCEPT ![s] = None]
    /\ gone' = gone \cup {t}
    /\ UNCHANGED <<storageVars, thread, sessionId, launches, todo, found, fate,
                   ghostVars>>

\* A thread that joins itself gets an exception no destructor may throw.
JoinSelf(s) ==
  /\ victim[s] = s
  /\ fate' = "aborted"
  /\ UNCHANGED <<storageVars, thread, dispatcher, launchVars, gone, found, ghostVars>>

Dispatch(s) ==
  \/ Add(s) \/ Unlock(s) \/ DropArgument(s)
  \/ CleanupStarts(s) \/ CleanupErases(s) \/ CleanupClears(s)
  \/ LaunchDone(s) \/ JoinVictim(s) \/ JoinSelf(s)

-----------------------------------------------------------------------------
(* The session thread.                                                     *)

\* removeLater, without the lock; the id may be the empty one.
RemoveLater(s) ==
  /\ thread[s] = "ending"
  /\ thread' = [thread EXCEPT ![s] = "leaving"]
  /\ removeLaterSet' = removeLaterSet \cup {sessionId[s]}
  /\ UNCHANGED <<sessionMap, holder, dispatcher, launchVars, gone, found, fate,
                 ghostVars>>

\* Mutant: the session goes with its thread.
ReturnOwning(s) ==
  /\ thread[s] = "leaving"
  /\ thread' = [thread EXCEPT ![s] = "destroying"]
  /\ UNCHANGED <<storageVars, dispatcher, launchVars, gone, found, fate, ghostVars>>

\* The frame's reference goes.
Return(s) ==
  /\ thread[s] = "leaving"
  /\ thread' = [thread EXCEPT ![s] =
                  IF Stored(s) \/ Passed(s) THEN "returned" ELSE "destroying"]
  /\ UNCHANGED <<storageVars, dispatcher, launchVars, gone, found, fate, ghostVars>>

\* ~SessionImpl on the session's own thread.
DestroyOwn(s) ==
  /\ thread[s] = "destroying" /\ dispatcher[s] = "idle"
  /\ thread' = [thread EXCEPT ![s] = "returned"]
  /\ Goto(s, "ended")
  /\ gone' = gone \cup {s}
  /\ UNCHANGED <<storageVars, launchVars, found, fate, ghostVars>>

SessionThread(s) == RemoveLater(s) \/ Return(s) \/ DestroyOwn(s)

-----------------------------------------------------------------------------
(* The WebSocket thread and what the missing locks allow.                  *)

\* findById returns a raw pointer and gives up the lock.
Finds(id) ==
  /\ found = None /\ holder = None
  /\ found' = sessionMap[id]
  /\ UNCHANGED <<storageVars, thread, dispatcher, launchVars, gone, fate, ghostVars>>

\* setWSSession through that pointer.
Uses ==
  /\ found # None
  /\ found' = None
  /\ fate' \in IF found \in gone THEN {fate, "undefined"} ELSE {fate}
  /\ UNCHANGED <<storageVars, thread, dispatcher, launchVars, gone, ghostVars>>

\* cleanup reads and writes the map and the set while another thread, with the
\* lock or without it, is about to use one of them; so do two removeLater.
Races ==
  \/ \E s \in Sessions :
       /\ dispatcher[s] = "cleaning"
       /\ \/ found = None /\ holder = None
          \/ \E t \in Sessions : thread[t] = "ending"
          \/ \E t \in Sessions \ {s} :
               \/ dispatcher[t] = "cleaning"
               \/ dispatcher[t] \in {"adding", "counting", "recounting"} /\ holder = None
  \/ \E s, t \in Sessions : s # t /\ thread[s] = "ending" /\ thread[t] = "ending"

Race ==
  /\ Races
  /\ fate' = "undefined"
  /\ UNCHANGED <<storageVars, thread, dispatcher, launchVars, gone, found, ghostVars>>

Next ==
  /\ fate = "running"
  /\ \/ \E s \in Sessions :
          \/ Ends(s) \/ \E id \in Ids \cup {NoId} : Launch(s, id)
          \/ Dispatch(s) \/ SessionThread(s)
     \/ \E id \in Ids : Finds(id)
     \/ Uses
     \/ Race

Fairness ==
  /\ \A s \in Sessions : WF_vars(fate = "running" /\ Dispatch(s))
  /\ \A s \in Sessions : WF_vars(fate = "running" /\ SessionThread(s))

Spec == Init /\ [][Next]_vars /\ Fairness

-----------------------------------------------------------------------------
(* Properties.                                                             *)

MaybeSession == Sessions \cup {None}
MaybeId == Ids \cup {NoId}

\* Type correctness.
TypeOK ==
  /\ sessionMap \in [Ids -> MaybeSession]
  /\ removeLaterSet \subseteq MaybeId
  /\ holder \in MaybeSession
  /\ \A s \in Sessions : dispatcher[s] = "replacing" <=> holder = s
  /\ thread \in [Sessions -> {"waiting", "ending", "leaving", "returned", "destroying"}]
  /\ dispatcher \in [Sessions -> {"idle", "adding", "replacing", "added", "counting",
                                  "cleaning", "recounting", "ended"}]
  /\ sessionId \in [Sessions -> MaybeId]
  /\ launches \in 0 .. MaxLaunches
  /\ todo \in [Sessions -> SUBSET MaybeId]
  /\ victim \in [Sessions -> MaybeSession]
  /\ gone \subseteq Sessions
  /\ found \in MaybeSession
  /\ fate \in {"running", "undefined", "aborted"}
  /\ lastAdded \in [Ids -> MaybeSession]
  /\ launched \in [Ids -> SUBSET Sessions]
  /\ late \subseteq Sessions

Destroying(t) == thread[t] = "destroying" \/ \E s \in Sessions : victim[s] = t

\* A lookup never finds a session that is destroyed or being destroyed, and no
\* session is destroyed twice: sessions come and go under ids they share.
NobodyFindsDestroyed ==
  \A t \in Sessions :
    /\ Stored(t) => t \notin gone /\ ~Destroying(t)
    /\ t \in gone => ~Destroying(t)
    /\ \A r, s \in Sessions : victim[r] = t /\ victim[s] = t => r = s

\* A running session that was added under an id, as the last one, is found
\* under it as long as no session that launched under this id has ended.
\* (cleanup goes by the id: after such an end it evicts whoever has the id.)
LiveSessionIsFound ==
  \A id \in Ids :
    (\A s \in launched[id] : thread[s] = "waiting") => sessionMap[id] = lastAdded[id]

\* The dispatcher that destroys a session in add waits for the dispatcher of
\* that session, and this one waits for the lock.
Stuck == \E s, t \in Sessions :
           /\ holder = s /\ victim[s] = t
           /\ dispatcher[t] \in {"adding", "counting", "recounting"}

\* A dispatcher joins itself, or two wait for each other for ever, only after
\* a client sent another Launch behind the request that ended its session.
OnlyLateLaunchHurts == fate = "aborted" \/ Stuck => late # {}

\* The lock is given back, even by an add that destroys a session, unless the
\* victim waits for this lock or a dispatcher joins itself.
LockIsReleased ==
  \A s \in Sessions : (holder = s) ~> (holder # s \/ Stuck \/ fate # "running")
==============================================================================
