------------------------ MODULE SessionStorageProofs ------------------------
(***************************************************************************)
(* Proofs about SessionStorage, for any sets of sessions and of ids and    *)
(* any number of launches.  The invariant keeps the references of the code *)
(* in order (who is referenced is not destroyed), the marks of removeLater *)
(* (an id is marked only by a session that launched under it and ended)    *)
(* and the dispatchers that are on time.                                   *)
(***************************************************************************)
EXTENDS SessionStorage, TLAPS

USE NoneAssumption, NoIdAssumption, MaxLaunchesAssumption

\* Nobody is being destroyed by a dispatcher.
Spared(t) == \A s \in Sessions : victim[s] # t

\* A session is referenced, or being destroyed once, or gone.
OwnersKnown ==
  /\ \A t \in Sessions : Referenced(t) => t \notin gone /\ Spared(t)
  /\ \A t \in Sessions :
       thread[t] = "destroying" =>
         ~Stored(t) /\ ~Passed(t) /\ t \notin gone /\ Spared(t)
  /\ \A t \in gone : Spared(t)
  /\ \A r, s \in Sessions : victim[r] \in Sessions /\ victim[r] = victim[s] => r = s

\* An id is to be evicted only if a session that launched under it has ended.
Ended(id) == \E s \in launched[id] : thread[s] # "waiting"

MarksKnown ==
  /\ \A s \in Sessions, id \in Ids : sessionId[s] = id => s \in launched[id]
  /\ \A id \in Ids : id \in removeLaterSet => Ended(id)
  /\ \A s \in Sessions, id \in Ids : id \in todo[s] => Ended(id)
  /\ LiveSessionIsFound

\* A session whose client sent no late Launch serves its launches before it ends.
OnTime ==
  /\ \A s \in Sessions :
       s \notin late /\ dispatcher[s] \notin {"idle", "ended"} => thread[s] = "waiting"
  /\ late = {} => fate # "aborted"

\* Only a session with an id is added, and a destructor runs in a handler.
DispatchersPlaced ==
  \A s \in Sessions :
    /\ dispatcher[s] = "adding" => sessionId[s] # NoId
    /\ victim[s] # None => dispatcher[s] \notin {"idle", "ended"}

\* The inductive invariant.
IInv == TypeOK /\ OwnersKnown /\ MarksKnown /\ OnTime /\ DispatchersPlaced

-----------------------------------------------------------------------------
(* What most steps leave alone.                                            *)

\* A dispatcher's move changes its own place only.
LEMMA Moved ==
  ASSUME TypeOK, NEW s \in Sessions,
         NEW there \in {"idle", "adding", "replacing", "added", "counting", "cleaning",
                        "recounting", "ended"},
         Goto(s, there)
  PROVE  /\ dispatcher' \in [Sessions -> {"idle", "adding", "replacing", "added", "counting",
                                          "cleaning", "recounting", "ended"}]
         /\ dispatcher'[s] = there
         /\ \A t \in Sessions \ {s} : dispatcher'[t] = dispatcher[t]
BY DEF TypeOK, Goto

\* References do not change with the map, the threads and the argument of add.
LEMMA SameReferences ==
  ASSUME TypeOK, NEW t \in Sessions, UNCHANGED <<sessionMap, thread>>,
         Passed(t)' <=> Passed(t)
  PROVE  Referenced(t)' <=> Referenced(t)
BY DEF Referenced, FrameAlive, Stored

\* Owners stay known if only a dispatcher's place changes, and not to or from
\* an add.
LEMMA OwnersFrame ==
  ASSUME IInv, UNCHANGED <<sessionMap, thread, victim, gone>>,
         \A t \in Sessions : Passed(t)' => Passed(t) \/ FrameAlive(t)
  PROVE  OwnersKnown'
<1>1. \A t \in Sessions : Referenced(t)' => Referenced(t)
  BY DEF Referenced, FrameAlive, Stored
<1>2. \A t \in Sessions : thread[t] = "destroying" => ~Stored(t)' /\ ~Passed(t)'
  BY DEF IInv, OwnersKnown, Stored, FrameAlive
<1>3. \A t \in Sessions : Spared(t)' <=> Spared(t)
  BY DEF Spared
<1>4. gone \subseteq Sessions
  BY DEF IInv, TypeOK
<1>5. /\ \A t \in Sessions : Referenced(t)' => t \notin gone' /\ Spared(t)'
      /\ \A t \in gone' : Spared(t)'
  BY <1>1, <1>3, <1>4 DEF IInv, OwnersKnown
<1>6. \A t \in Sessions :
        thread'[t] = "destroying" => ~Stored(t)' /\ ~Passed(t)' /\ t \notin gone' /\ Spared(t)'
  BY <1>2, <1>3 DEF IInv, OwnersKnown
<1>7. \A r, s \in Sessions : victim'[r] \in Sessions /\ victim'[r] = victim'[s] => r = s
  BY DEF IInv, OwnersKnown
<1>8. QED
  BY <1>5, <1>6, <1>7 DEF OwnersKnown

\* Marks stay known if none is added and nothing they are about changes.
LEMMA MarksFrame ==
  ASSUME IInv, UNCHANGED <<sessionMap, sessionId, launched, lastAdded>>,
         removeLaterSet' \subseteq removeLaterSet,
         \A s \in Sessions : todo'[s] \subseteq todo[s] \cup removeLaterSet,
         \A s \in Sessions : thread'[s] = "waiting" => thread[s] = "waiting"
  PROVE  MarksKnown'
<1>1. \A id \in Ids : launched[id] \subseteq Sessions
  BY DEF IInv, TypeOK
<1>2. \A id \in Ids : Ended(id) => Ended(id)'
  BY <1>1 DEF Ended
<1>3. \A s \in Sessions, id \in Ids : sessionId'[s] = id => s \in launched'[id]
  BY DEF IInv, MarksKnown
<1>4. /\ \A id \in Ids : id \in removeLaterSet' => Ended(id)'
      /\ \A s \in Sessions, id \in Ids : id \in todo'[s] => Ended(id)'
  BY <1>2 DEF IInv, MarksKnown
<1>5. LiveSessionIsFound'
  BY <1>1 DEF IInv, MarksKnown, LiveSessionIsFound
<1>6. QED
  BY <1>3, <1>4, <1>5 DEF MarksKnown

\* The empty storage.
LEMMA InitIInv == Init => IInv
<1> SUFFICES ASSUME Init PROVE IInv
  OBVIOUS
<1>1. TypeOK
  BY DEF Init, TypeOK, MaybeSession, MaybeId
<1>2. OwnersKnown
  BY DEF Init, OwnersKnown, Spared
<1>3. MarksKnown
  BY DEF Init, MarksKnown, LiveSessionIsFound
<1>4. OnTime
  BY DEF Init, OnTime
<1>5. DispatchersPlaced
  BY DEF Init, DispatchersPlaced
<1>6. QED
  BY <1>1, <1>2, <1>3, <1>4, <1>5 DEF IInv

-----------------------------------------------------------------------------
(* The inductive invariant, action by action.                              *)

\* A session whose end is told is still referenced, and out of its handlers.
LEMMA EndsIInv ==
  ASSUME IInv, NEW s \in Sessions, Ends(s) PROVE IInv'
<1>1. /\ TypeOK /\ thread[s] = "waiting" /\ dispatcher[s] = "idle"
      /\ thread' = [thread EXCEPT ![s] = "ending"]
      /\ UNCHANGED <<sessionMap, removeLaterSet, holder, dispatcher, sessionId, launches,
                     todo, victim, gone, found, fate, lastAdded, launched, late>>
  BY DEF IInv, Ends, storageVars, launchVars, ghostVars
<1>2. /\ thread'[s] = "ending" /\ \A t \in Sessions \ {s} : thread'[t] = thread[t]
  BY <1>1 DEF TypeOK
<1>3. TypeOK'
  BY <1>1 DEF TypeOK
<1>4. OwnersKnown'
  <2>1. \A t \in Sessions : (Referenced(t)' <=> Referenced(t)) /\ (Spared(t)' <=> Spared(t))
    BY <1>1, <1>2 DEF Referenced, FrameAlive, Stored, Passed, Spared
  <2>2. \A t \in Sessions : thread'[t] = "destroying" => thread[t] = "destroying"
    BY <1>2
  <2>3. \A t \in Sessions : (Stored(t)' <=> Stored(t)) /\ (Passed(t)' <=> Passed(t))
    BY <1>1 DEF Stored, Passed
  <2>4. gone \subseteq Sessions
    BY <1>1 DEF TypeOK
  <2>5. QED
    BY <1>1, <2>1, <2>2, <2>3, <2>4 DEF IInv, OwnersKnown
<1>5. MarksKnown'
  BY <1>1, <1>2, MarksFrame
<1>6. OnTime' /\ DispatchersPlaced'
  BY <1>1, <1>2 DEF IInv, OnTime, DispatchersPlaced
<1>7. QED
  BY <1>3, <1>4, <1>5, <1>6 DEF IInv

\* A launch leaves its session's name under its id.
LEMMA LaunchIInv ==
  ASSUME IInv, NEW s \in Sessions, NEW id \in Ids \cup {NoId}, Launch(s, id) PROVE IInv'
<1> DEFINE there == IF id = NoId THEN "counting" ELSE "adding"
<1>1. /\ TypeOK /\ dispatcher[s] = "idle" /\ FrameAlive(s)
      /\ sessionId' = [sessionId EXCEPT ![s] = id]
      /\ launches < MaxLaunches /\ launches' = launches + 1
      /\ Goto(s, there)
      /\ late' = (IF thread[s] = "waiting" THEN late ELSE late \cup {s})
      /\ launched' = [i \in Ids |-> launched[i] \cup (IF i = id THEN {s} ELSE {})]
      /\ UNCHANGED <<sessionMap, removeLaterSet, holder, thread, todo, victim, gone, found,
                     fate, lastAdded>>
  BY DEF IInv, Launch, storageVars
<1>2. there \in {"counting", "adding"}
  OBVIOUS
<1> HIDE DEF there
<1>3. /\ dispatcher' \in [Sessions -> {"idle", "adding", "replacing", "added", "counting",
                                       "cleaning", "recounting", "ended"}]
      /\ dispatcher'[s] = there /\ \A t \in Sessions \ {s} : dispatcher'[t] = dispatcher[t]
  BY <1>1, <1>2, Moved
<1>4. launched' \in [Ids -> SUBSET Sessions] /\ \A i \in Ids : launched[i] \subseteq launched'[i]
  BY <1>1 DEF TypeOK
<1>5. sessionId' \in [Sessions -> MaybeId] /\ sessionId'[s] = id
      /\ \A t \in Sessions \ {s} : sessionId'[t] = sessionId[t]
  BY <1>1 DEF TypeOK, MaybeId
<1>6. TypeOK'
  <2>1. \A t \in Sessions : dispatcher'[t] = "replacing" <=> holder' = t
    BY <1>1, <1>2, <1>3 DEF TypeOK
  <2>2. launches' \in 0..MaxLaunches /\ late' \subseteq Sessions
    BY <1>1 DEF TypeOK
  <2>3. QED
    BY <1>1, <1>3, <1>4, <1>5, <2>1, <2>2 DEF TypeOK
<1>7. OwnersKnown'
  <2>1. \A t \in Sessions : Passed(t)' => Passed(t) \/ FrameAlive(t)
    BY <1>1, <1>3 DEF Passed
  <2>2. QED
    BY <1>1, <2>1, OwnersFrame
<1>8. MarksKnown'
  <2>1. \A i \in Ids : Ended(i) => Ended(i)'
    BY <1>1, <1>4 DEF Ended
  <2>2. \A t \in Sessions, i \in Ids : sessionId'[t] = i => t \in launched'[i]
    BY <1>1, <1>4, <1>5 DEF IInv, MarksKnown
  <2>3. /\ \A i \in Ids : i \in removeLaterSet' => Ended(i)'
        /\ \A t \in Sessions, i \in Ids : i \in todo'[t] => Ended(i)'
    BY <1>1, <2>1 DEF IInv, MarksKnown
  <2>4. LiveSessionIsFound'
    BY <1>1, <1>4 DEF IInv, MarksKnown, LiveSessionIsFound
  <2>5. QED
    BY <2>2, <2>3, <2>4 DEF MarksKnown
<1>9. OnTime' /\ DispatchersPlaced'
  <2>1. OnTime'
    BY <1>1, <1>2, <1>3 DEF IInv, OnTime
  <2>2. dispatcher'[s] = "adding" => id # NoId
    BY <1>3 DEF there
  <2>3. DispatchersPlaced'
    BY <1>1, <1>2, <1>3, <1>5, <2>2 DEF IInv, DispatchersPlaced
  <2>4. QED
    BY <2>1, <2>3
<1>10. QED
  BY <1>6, <1>7, <1>8, <1>9 DEF IInv

\* Dropping a reference destroys one session, if it was referenced before and
\* is not afterwards.
LEMMA Released ==
  ASSUME IInv, NEW s \in Sessions, NEW t \in Sessions \cup {None}, Release(s, t),
         victim[s] = None
  PROVE  /\ victim' \in [Sessions -> MaybeSession]
         /\ victim'[s] = None \/ (victim'[s] = t /\ t \in Sessions /\ ~Referenced(t)')
         /\ \A r \in Sessions \ {s} : victim'[r] = victim[r]
<1>1. PICK old \in Sessions \cup {None} :
        /\ old = t
        /\ victim' = [victim EXCEPT ![s] =
                        IF old # None /\ ~Referenced(old)' THEN old ELSE None]
  BY DEF Release
<1>2. victim \in [Sessions -> MaybeSession]
  BY DEF IInv, TypeOK
<1>3. QED
  BY <1>1, <1>2 DEF MaybeSession

\* Owners stay known when a reference is dropped.
LEMMA OwnersRelease ==
  ASSUME IInv, NEW s \in Sessions, NEW t \in Sessions \cup {None}, Release(s, t),
         victim[s] = None, t \in Sessions => Referenced(t),
         UNCHANGED <<thread, gone>>,
         \A r \in Sessions : Referenced(r)' => Referenced(r),
         \A r \in Sessions : Stored(r)' \/ Passed(r)' => Referenced(r)
  PROVE  OwnersKnown'
<1>1. /\ victim'[s] = None \/ (victim'[s] = t /\ t \in Sessions /\ ~Referenced(t)')
      /\ \A r \in Sessions \ {s} : victim'[r] = victim[r]
  BY Released
<1>2. t \in Sessions => Spared(t) /\ t \notin gone
  BY DEF IInv, OwnersKnown
<1>4. \A r \in Sessions : r # t /\ Spared(r) => Spared(r)'
  BY <1>1 DEF Spared
<1>5. \A r \in Sessions : Referenced(r)' => r \notin gone' /\ Spared(r)'
  BY <1>1, <1>4 DEF IInv, OwnersKnown, Spared
<1>6. gone \subseteq Sessions
  BY DEF IInv, TypeOK
<1>7. \A r \in gone' : Spared(r)'
  BY <1>2, <1>4, <1>6 DEF IInv, OwnersKnown
<1>8. ASSUME NEW r \in Sessions, thread'[r] = "destroying"
      PROVE  ~Stored(r)' /\ ~Passed(r)' /\ r \notin gone' /\ Spared(r)'
  <2>1. thread[r] = "destroying" /\ ~Stored(r) /\ ~Passed(r) /\ ~FrameAlive(r)
    BY <1>8 DEF IInv, OwnersKnown, FrameAlive
  <2>2. ~Referenced(r) /\ r \notin gone /\ Spared(r)
    BY <2>1, <1>8 DEF IInv, OwnersKnown, Referenced
  <2>3. r # t
    BY <2>2
  <2>4. QED
    BY <1>4, <2>2, <2>3
<1>9. \A q, r \in Sessions : victim'[q] \in Sessions /\ victim'[q] = victim'[r] => q = r
  BY <1>1, <1>2 DEF IInv, OwnersKnown, Spared
<1>10. QED
  BY <1>5, <1>7, <1>8, <1>9 DEF OwnersKnown

\* add puts a referenced session in the place of another one.
LEMMA AddIInv ==
  ASSUME IInv, NEW s \in Sessions, Add(s) PROVE IInv'
<1>1. PICK id \in MaybeId : id = sessionId[s]
  BY DEF IInv, TypeOK
<1>2. PICK old \in MaybeSession \cup {sessionMap[id]} : old = sessionMap[id]
  OBVIOUS
<1>3. /\ TypeOK /\ dispatcher[s] = "adding" /\ victim[s] = None /\ holder = None
      /\ holder' = s /\ sessionMap' = [sessionMap EXCEPT ![id] = s]
      /\ lastAdded' = [lastAdded EXCEPT ![id] = s]
      /\ Goto(s, "replacing")
      /\ UNCHANGED <<removeLaterSet, thread, sessionId, launches, todo, gone, found,
                     fate, launched, late>>
      /\ Release(s, old)
  BY <1>1, <1>2 DEF IInv, Add, At, Release
<1>4. /\ dispatcher' \in [Sessions -> {"idle", "adding", "replacing", "added", "counting",
                                       "cleaning", "recounting", "ended"}]
      /\ dispatcher'[s] = "replacing" /\ \A t \in Sessions \ {s} : dispatcher'[t] = dispatcher[t]
  BY <1>3, Moved
<1>5. /\ sessionMap' \in [Ids -> MaybeSession] /\ lastAdded' \in [Ids -> MaybeSession]
      /\ \A i \in Ids : sessionMap'[i] = s \/ sessionMap'[i] = sessionMap[i]
      /\ \A i \in Ids \ {id} : sessionMap'[i] = sessionMap[i] /\ lastAdded'[i] = lastAdded[i]
      /\ id \in Ids => sessionMap'[id] = s /\ lastAdded'[id] = s
  BY <1>3 DEF TypeOK, MaybeSession
<1>6. Referenced(s)
  BY <1>3 DEF Referenced, Passed
<1>7. id \in Ids
  BY <1>1, <1>3 DEF IInv, DispatchersPlaced, MaybeId
<1>8. old \in Sessions \cup {None} /\ (old \in Sessions => Referenced(old))
  BY <1>2, <1>3, <1>7 DEF TypeOK, MaybeSession, Referenced, Stored
<1>9. \A r \in Sessions : Stored(r)' \/ Passed(r)' => Referenced(r)
  BY <1>4, <1>5, <1>6 DEF Stored, Passed, Referenced
<1>10. \A r \in Sessions : Referenced(r)' => Referenced(r)
  BY <1>3, <1>9 DEF Referenced, FrameAlive
<1>11. OwnersKnown'
  BY <1>3, <1>8, <1>9, <1>10, OwnersRelease
<1>12. TypeOK'
  <2>1. victim' \in [Sessions -> MaybeSession]
    BY <1>3, <1>8, Released
  <2>2. \A t \in Sessions : dispatcher'[t] = "replacing" <=> holder' = t
    BY <1>3, <1>4 DEF TypeOK
  <2>3. holder' \in MaybeSession
    BY <1>3 DEF MaybeSession
  <2>4. QED
    BY <1>3, <1>4, <1>5, <2>1, <2>2, <2>3 DEF TypeOK
<1>13. MarksKnown'
  <2>1. LiveSessionIsFound'
    BY <1>3, <1>5 DEF IInv, MarksKnown, LiveSessionIsFound
  <2>2. QED
    BY <1>3, <2>1 DEF IInv, MarksKnown, Ended
<1>14. OnTime' /\ DispatchersPlaced'
  <2>1. \A t \in Sessions \ {s} : victim'[t] = victim[t]
    BY <1>3, <1>8, Released
  <2>2. QED
    BY <1>3, <1>4, <2>1 DEF IInv, OnTime, DispatchersPlaced
<1>15. QED
  BY <1>11, <1>12, <1>13, <1>14 DEF IInv

\* The lock is given back.
LEMMA UnlockIInv ==
  ASSUME IInv, NEW s \in Sessions, Unlock(s) PROVE IInv'
<1>1. /\ TypeOK /\ dispatcher[s] = "replacing" /\ holder' = None /\ Goto(s, "added")
      /\ UNCHANGED <<sessionMap, removeLaterSet, thread, sessionId, launches, todo, victim,
                     gone, found, fate, lastAdded, launched, late>>
  BY DEF IInv, Unlock, At, launchVars, ghostVars
<1>2. /\ dispatcher' \in [Sessions -> {"idle", "adding", "replacing", "added", "counting",
                                       "cleaning", "recounting", "ended"}]
      /\ dispatcher'[s] = "added" /\ \A t \in Sessions \ {s} : dispatcher'[t] = dispatcher[t]
  BY <1>1, Moved
<1>3. holder = s
  BY <1>1 DEF TypeOK
<1>4. TypeOK'
  <2>1. \A t \in Sessions : dispatcher'[t] = "replacing" <=> holder' = t
    BY <1>1, <1>2, <1>3 DEF TypeOK
  <2>2. QED
    BY <1>1, <1>2, <2>1 DEF TypeOK, MaybeSession
<1>5. \A t \in Sessions : Passed(t)' => Passed(t)
  BY <1>1, <1>2 DEF Passed
<1>6. OwnersKnown'
  BY <1>1, <1>5, OwnersFrame
<1>7. MarksKnown'
  BY <1>1, MarksFrame
<1>8. OnTime'
  BY <1>1, <1>2 DEF IInv, OnTime
<1>9. DispatchersPlaced'
  BY <1>1, <1>2 DEF IInv, DispatchersPlaced
<1>10. QED
  BY <1>4, <1>6, <1>7, <1>8, <1>9 DEF IInv

\* add's argument goes.
LEMMA DropArgumentIInv ==
  ASSUME IInv, NEW s \in Sessions, DropArgument(s) PROVE IInv'
<1>1. /\ TypeOK /\ dispatcher[s] = "added" /\ victim[s] = None /\ Goto(s, "counting")
      /\ UNCHANGED <<sessionMap, removeLaterSet, holder, thread, sessionId, launches, todo, gone,
                     found, fate, lastAdded, launched, late>>
      /\ Release(s, s)
  BY DEF IInv, DropArgument, At, storageVars, ghostVars
<1>2. /\ dispatcher' \in [Sessions -> {"idle", "adding", "replacing", "added", "counting",
                                       "cleaning", "recounting", "ended"}]
      /\ dispatcher'[s] = "counting" /\ \A t \in Sessions \ {s} : dispatcher'[t] = dispatcher[t]
  BY <1>1, Moved
<1>3. Referenced(s)
  BY <1>1 DEF Referenced, Passed
<1>4. \A r \in Sessions : Stored(r)' \/ Passed(r)' => Referenced(r)
  BY <1>1, <1>2 DEF Stored, Passed, Referenced
<1>5. \A r \in Sessions : Referenced(r)' => Referenced(r)
  BY <1>1, <1>4 DEF Referenced, FrameAlive
<1>6. OwnersKnown'
  BY <1>1, <1>3, <1>4, <1>5, OwnersRelease
<1>7. TypeOK'
  <2>1. victim' \in [Sessions -> MaybeSession]
    BY <1>1, Released
  <2>2. \A t \in Sessions : dispatcher'[t] = "replacing" <=> holder' = t
    BY <1>1, <1>2 DEF TypeOK
  <2>3. QED
    BY <1>1, <1>2, <2>1, <2>2 DEF TypeOK
<1>8. MarksKnown'
  BY <1>1, MarksFrame
<1>9. OnTime' /\ DispatchersPlaced'
  <2>1. \A t \in Sessions \ {s} : victim'[t] = victim[t]
    BY <1>1, Released
  <2>2. QED
    BY <1>1, <1>2, <2>1 DEF IInv, OnTime, DispatchersPlaced
<1>10. QED
  BY <1>6, <1>7, <1>8, <1>9 DEF IInv

\* cleanup starts with the marks there are.
LEMMA CleanupStartsIInv ==
  ASSUME IInv, NEW s \in Sessions, CleanupStarts(s) PROVE IInv'
<1>1. /\ TypeOK /\ dispatcher[s] = "counting" /\ todo' = [todo EXCEPT ![s] = removeLaterSet]
      /\ Goto(s, "cleaning")
      /\ UNCHANGED <<sessionMap, removeLaterSet, holder, thread, sessionId, launches, victim, gone,
                     found, fate, lastAdded, launched, late>>
  BY DEF IInv, CleanupStarts, At, storageVars, ghostVars
<1>2. /\ dispatcher' \in [Sessions -> {"idle", "adding", "replacing", "added", "counting",
                                       "cleaning", "recounting", "ended"}]
      /\ dispatcher'[s] = "cleaning" /\ \A t \in Sessions \ {s} : dispatcher'[t] = dispatcher[t]
  BY <1>1, Moved
<1>3. TypeOK'
  <2>1. \A t \in Sessions : dispatcher'[t] = "replacing" <=> holder' = t
    BY <1>1, <1>2 DEF TypeOK
  <2>2. todo' \in [Sessions -> SUBSET MaybeId]
    BY <1>1 DEF TypeOK
  <2>3. QED
    BY <1>1, <1>2, <2>1, <2>2 DEF TypeOK
<1>4. \A t \in Sessions : Passed(t)' => Passed(t)
  BY <1>1, <1>2 DEF Passed
<1>5. OwnersKnown'
  BY <1>1, <1>4, OwnersFrame
<1>6. \A t \in Sessions : todo'[t] \subseteq todo[t] \cup removeLaterSet
  BY <1>1 DEF TypeOK
<1>7. MarksKnown'
  BY <1>1, <1>6, MarksFrame
<1>8. OnTime' /\ DispatchersPlaced'
  BY <1>1, <1>2 DEF IInv, OnTime, DispatchersPlaced
<1>9. QED
  BY <1>3, <1>5, <1>7, <1>8 DEF IInv

\* cleanup evicts whoever has the id now: its mark is of a session that ended.
LEMMA CleanupErasesIInv ==
  ASSUME IInv, NEW s \in Sessions, CleanupErases(s) PROVE IInv'
<1>1. PICK id \in todo[s] :
        /\ dispatcher[s] = "cleaning" /\ victim[s] = None
        /\ todo' = [todo EXCEPT ![s] = todo[s] \ {id}]
        /\ sessionMap' = [i \in Ids |-> IF i = id THEN None ELSE sessionMap[i]]
        /\ UNCHANGED <<removeLaterSet, holder, thread, dispatcher, sessionId,
                       launches, gone, found, fate, lastAdded, launched, late>>
        /\ Release(s, IF id = NoId THEN None ELSE sessionMap[id])
  BY DEF CleanupErases, At, ghostVars
<1>2. TypeOK /\ id \in MaybeId
  BY <1>1 DEF IInv, TypeOK
<1>3. PICK old \in Sessions \cup {None} : old = IF id = NoId THEN None ELSE sessionMap[id]
  BY <1>2 DEF TypeOK, MaybeSession, MaybeId
<1>4. Release(s, old)
  BY <1>1, <1>3 DEF Release
<1>5. old \in Sessions => Referenced(old)
  BY <1>2, <1>3 DEF Referenced, Stored, MaybeId
<1>6. \A r \in Sessions : Stored(r)' \/ Passed(r)' => Referenced(r)
  BY <1>1 DEF Stored, Passed, Referenced
<1>7. \A r \in Sessions : Referenced(r)' => Referenced(r)
  BY <1>1, <1>6 DEF Referenced, FrameAlive
<1>8. OwnersKnown'
  BY <1>1, <1>4, <1>5, <1>6, <1>7, OwnersRelease
<1>9. /\ sessionMap' \in [Ids -> MaybeSession] /\ todo' \in [Sessions -> SUBSET MaybeId]
      /\ \A t \in Sessions : todo'[t] \subseteq todo[t]
  BY <1>1, <1>2 DEF TypeOK, MaybeSession
<1>10. TypeOK'
  <2>1. victim' \in [Sessions -> MaybeSession]
    BY <1>1, <1>4, Released
  <2>2. QED
    BY <1>1, <1>2, <1>9, <2>1 DEF TypeOK
<1>11. MarksKnown'
  <2>1. id \in Ids => Ended(id)
    BY <1>1 DEF IInv, MarksKnown
  <2>2. LiveSessionIsFound'
    BY <1>1, <2>1 DEF IInv, MarksKnown, LiveSessionIsFound, Ended
  <2>3. /\ \A i \in Ids : i \in removeLaterSet' => Ended(i)'
        /\ \A t \in Sessions, i \in Ids : i \in todo'[t] => Ended(i)'
        /\ \A t \in Sessions, i \in Ids : sessionId'[t] = i => t \in launched'[i]
    BY <1>1, <1>9 DEF IInv, MarksKnown, Ended
  <2>4. QED
    BY <2>2, <2>3 DEF MarksKnown
<1>12. OnTime' /\ DispatchersPlaced'
  <2>1. \A t \in Sessions \ {s} : victim'[t] = victim[t]
    BY <1>1, <1>4, Released
  <2>2. QED
    BY <1>1, <2>1 DEF IInv, OnTime, DispatchersPlaced
<1>13. QED
  BY <1>8, <1>10, <1>11, <1>12 DEF IInv

\* The marks are cleared, the launch is over.
LEMMA LaunchEndsIInv ==
  ASSUME IInv, NEW s \in Sessions, CleanupClears(s) \/ LaunchDone(s) PROVE IInv'
<1> DEFINE there == IF dispatcher[s] = "cleaning" THEN "recounting" ELSE "idle"
<1>1. /\ TypeOK /\ dispatcher[s] \in {"cleaning", "recounting"} /\ victim[s] = None
      /\ removeLaterSet' \subseteq removeLaterSet
      /\ Goto(s, there) /\ fate' \in {fate, "undefined"}
      /\ UNCHANGED <<sessionMap, holder, thread, sessionId, launches, todo, victim, gone,
                     found, lastAdded, launched, late>>
  BY DEF IInv, CleanupClears, LaunchDone, At, launchVars, ghostVars, storageVars
<1>2. there \in {"recounting", "idle"}
  OBVIOUS
<1> HIDE DEF there
<1>3. /\ dispatcher' \in [Sessions -> {"idle", "adding", "replacing", "added", "counting",
                                       "cleaning", "recounting", "ended"}]
      /\ dispatcher'[s] = there /\ \A t \in Sessions \ {s} : dispatcher'[t] = dispatcher[t]
  BY <1>1, <1>2, Moved
<1>4. TypeOK'
  <2>1. \A t \in Sessions : dispatcher'[t] = "replacing" <=> holder' = t
    BY <1>1, <1>2, <1>3 DEF TypeOK
  <2>2. removeLaterSet' \subseteq MaybeId /\ fate' \in {"running", "undefined", "aborted"}
    BY <1>1 DEF TypeOK
  <2>3. QED
    BY <1>1, <1>3, <2>1, <2>2 DEF TypeOK
<1>5. \A t \in Sessions : Passed(t)' => Passed(t)
  BY <1>1, <1>2, <1>3 DEF Passed
<1>6. OwnersKnown'
  BY <1>1, <1>5, OwnersFrame
<1>7. MarksKnown'
  BY <1>1, MarksFrame
<1>8. OnTime' /\ DispatchersPlaced'
  BY <1>1, <1>2, <1>3 DEF IInv, OnTime, DispatchersPlaced
<1>9. QED
  BY <1>4, <1>6, <1>7, <1>8 DEF IInv

\* A destroyed session is gone: nobody else was destroying it.
LEMMA JoinVictimIInv ==
  ASSUME IInv, NEW s \in Sessions, JoinVictim(s) PROVE IInv'
<1>1. PICK t \in Sessions \ {s} :
        /\ victim[s] = t /\ dispatcher[t] = "idle" /\ Goto(t, "ended")
        /\ victim' = [victim EXCEPT ![s] = None] /\ gone' = gone \cup {t}
        /\ UNCHANGED <<sessionMap, removeLaterSet, holder, thread, sessionId, launches, todo,
                       found, fate, lastAdded, launched, late>>
  BY DEF JoinVictim, storageVars, ghostVars
<1>2. TypeOK /\ victim'[s] = None /\ \A r \in Sessions \ {s} : victim'[r] = victim[r]
  BY <1>1 DEF IInv, TypeOK
<1>3. /\ dispatcher' \in [Sessions -> {"idle", "adding", "replacing", "added", "counting",
                                       "cleaning", "recounting", "ended"}]
      /\ dispatcher'[t] = "ended" /\ \A r \in Sessions \ {t} : dispatcher'[r] = dispatcher[r]
  BY <1>1, <1>2, Moved
<1>4. TypeOK'
  <2>1. \A r \in Sessions : dispatcher'[r] = "replacing" <=> holder' = r
    BY <1>1, <1>2, <1>3 DEF TypeOK
  <2>2. victim' \in [Sessions -> MaybeSession] /\ gone' \subseteq Sessions
    BY <1>1, <1>2 DEF TypeOK, MaybeSession
  <2>3. QED
    BY <1>1, <1>2, <1>3, <2>1, <2>2 DEF TypeOK
<1>5. OwnersKnown'
  <2>1. ~Spared(t) /\ ~Referenced(t) /\ t \notin gone /\ thread[t] # "destroying"
    BY <1>1, <1>2 DEF IInv, OwnersKnown, Spared, TypeOK
  <2>2. Spared(t)' /\ \A r \in Sessions : Spared(r) => Spared(r)'
    BY <1>1, <1>2 DEF IInv, OwnersKnown, Spared
  <2>3. \A r \in Sessions : (Stored(r)' => Stored(r)) /\ (Passed(r)' => Passed(r))
    BY <1>1, <1>3 DEF Stored, Passed
  <2>4. \A r \in Sessions : Referenced(r)' => Referenced(r)
    BY <1>1, <2>3 DEF Referenced, FrameAlive
  <2>5. \A r \in Sessions : Referenced(r)' => r \notin gone' /\ Spared(r)'
    BY <1>1, <2>1, <2>2, <2>4 DEF IInv, OwnersKnown
  <2>6. \A r \in Sessions :
          thread'[r] = "destroying" => ~Stored(r)' /\ ~Passed(r)' /\ r \notin gone' /\ Spared(r)'
    BY <1>1, <2>1, <2>2, <2>3 DEF IInv, OwnersKnown
  <2>7. gone \subseteq Sessions
    BY <1>2 DEF TypeOK
  <2>8. \A r \in gone' : Spared(r)'
    BY <1>1, <2>2, <2>7 DEF IInv, OwnersKnown
  <2>9. \A q, r \in Sessions : victim'[q] \in Sessions /\ victim'[q] = victim'[r] => q = r
    BY <1>2 DEF IInv, OwnersKnown
  <2>10. QED
    BY <2>5, <2>6, <2>8, <2>9 DEF OwnersKnown
<1>6. MarksKnown'
  BY <1>1, MarksFrame
<1>7. OnTime'
  BY <1>1, <1>3 DEF IInv, OnTime
<1>8. DispatchersPlaced'
  BY <1>1, <1>2, <1>3 DEF IInv, DispatchersPlaced
<1>9. QED
  BY <1>4, <1>5, <1>6, <1>7, <1>8 DEF IInv

\* A dispatcher joins itself in a launch that is late: a launch on time keeps
\* its session referenced by the session thread.
LEMMA JoinSelfIInv ==
  ASSUME IInv, NEW s \in Sessions, JoinSelf(s) PROVE IInv'
<1>1. /\ TypeOK /\ victim[s] = s /\ fate' = "aborted"
      /\ UNCHANGED <<sessionMap, removeLaterSet, holder, thread, dispatcher, sessionId, launches,
                     todo, victim, gone, found, lastAdded, launched, late>>
  BY DEF IInv, JoinSelf, storageVars, launchVars, ghostVars
<1>2. s \in late
  <2>1. ~Referenced(s)
    BY <1>1 DEF IInv, OwnersKnown, Spared
  <2>2. thread[s] # "waiting"
    BY <2>1 DEF Referenced, FrameAlive
  <2>3. dispatcher[s] \notin {"idle", "ended"}
    BY <1>1 DEF IInv, DispatchersPlaced
  <2>4. QED
    BY <2>2, <2>3 DEF IInv, OnTime
<1>3. TypeOK'
  BY <1>1 DEF TypeOK
<1>4. \A t \in Sessions : Passed(t)' => Passed(t)
  BY <1>1 DEF Passed
<1>5. OwnersKnown'
  BY <1>1, <1>4, OwnersFrame
<1>6. MarksKnown'
  BY <1>1, MarksFrame
<1>7. OnTime' /\ DispatchersPlaced'
  BY <1>1, <1>2 DEF IInv, OnTime, DispatchersPlaced
<1>8. QED
  BY <1>3, <1>5, <1>6, <1>7 DEF IInv

\* The session thread's moves after the end was told.
LEMMA ThreadMoved ==
  ASSUME TypeOK, NEW s \in Sessions, NEW there,
         thread' = [thread EXCEPT ![s] = there]
  PROVE  thread'[s] = there /\ \A t \in Sessions \ {s} : thread'[t] = thread[t]
BY DEF TypeOK

\* removeLater marks the id of a session that has ended.
LEMMA RemoveLaterIInv ==
  ASSUME IInv, NEW s \in Sessions, RemoveLater(s) PROVE IInv'
<1>1. /\ TypeOK /\ thread[s] = "ending" /\ thread' = [thread EXCEPT ![s] = "leaving"]
      /\ removeLaterSet' = removeLaterSet \cup {sessionId[s]}
      /\ UNCHANGED <<sessionMap, holder, dispatcher, sessionId, launches, todo, victim, gone,
                     found, fate, lastAdded, launched, late>>
  BY DEF IInv, RemoveLater, launchVars, ghostVars
<1>2. thread'[s] = "leaving" /\ \A t \in Sessions \ {s} : thread'[t] = thread[t]
  BY <1>1, ThreadMoved
<1>3. TypeOK'
  BY <1>1 DEF TypeOK
<1>4. OwnersKnown'
  <2>1. \A t \in Sessions : (Referenced(t)' <=> Referenced(t)) /\ (Spared(t)' <=> Spared(t))
    BY <1>1, <1>2 DEF Referenced, FrameAlive, Stored, Passed, Spared
  <2>2. \A t \in Sessions : thread'[t] = "destroying" => thread[t] = "destroying"
    BY <1>2
  <2>3. \A t \in Sessions : (Stored(t)' <=> Stored(t)) /\ (Passed(t)' <=> Passed(t))
    BY <1>1 DEF Stored, Passed
  <2>4. gone \subseteq Sessions
    BY <1>1 DEF TypeOK
  <2>5. QED
    BY <1>1, <2>1, <2>2, <2>3, <2>4 DEF IInv, OwnersKnown
<1>5. MarksKnown'
  <2>1. \A i \in Ids : Ended(i) => Ended(i)'
    BY <1>1, <1>2 DEF Ended, TypeOK
  <2>2. \A i \in Ids : sessionId[s] = i => Ended(i)'
    BY <1>1, <1>2 DEF IInv, MarksKnown, Ended
  <2>3. \A i \in Ids : i \in removeLaterSet' => Ended(i)'
    BY <1>1, <2>1, <2>2 DEF IInv, MarksKnown
  <2>4. /\ \A t \in Sessions, i \in Ids : i \in todo'[t] => Ended(i)'
        /\ \A t \in Sessions, i \in Ids : sessionId'[t] = i => t \in launched'[i]
    BY <1>1, <2>1 DEF IInv, MarksKnown
  <2>5. \A i \in Ids : launched[i] \subseteq Sessions
    BY <1>1 DEF TypeOK
  <2>6. LiveSessionIsFound'
    BY <1>1, <1>2, <2>5 DEF IInv, MarksKnown, LiveSessionIsFound
  <2>7. QED
    BY <2>3, <2>4, <2>6 DEF MarksKnown
<1>6. OnTime' /\ DispatchersPlaced'
  BY <1>1, <1>2 DEF IInv, OnTime, DispatchersPlaced
<1>7. QED
  BY <1>3, <1>4, <1>5, <1>6 DEF IInv

\* The thread returns, and destroys the session if nobody else has it.
LEMMA ReturnIInv ==
  ASSUME IInv, NEW s \in Sessions, Return(s) PROVE IInv'
<1> DEFINE there == IF Stored(s) \/ Passed(s) THEN "returned" ELSE "destroying"
<1>1. /\ TypeOK /\ thread[s] = "leaving" /\ thread' = [thread EXCEPT ![s] = there]
      /\ UNCHANGED <<sessionMap, removeLaterSet, holder, dispatcher, sessionId, launches, todo,
                     victim, gone, found, fate, lastAdded, launched, late>>
  BY DEF IInv, Return, storageVars, launchVars, ghostVars
<1>2. /\ there \in {"returned", "destroying"}
      /\ there = "destroying" => ~Stored(s) /\ ~Passed(s)
  OBVIOUS
<1> HIDE DEF there
<1>3. thread'[s] = there /\ \A t \in Sessions \ {s} : thread'[t] = thread[t]
  BY <1>1, ThreadMoved
<1>4. TypeOK'
  BY <1>1, <1>2 DEF TypeOK
<1>5. OwnersKnown'
  <2>1. \A t \in Sessions : (Stored(t)' <=> Stored(t)) /\ (Passed(t)' <=> Passed(t))
    BY <1>1 DEF Stored, Passed
  <2>2. \A t \in Sessions : (Referenced(t)' => Referenced(t)) /\ (Spared(t)' <=> Spared(t))
    BY <1>1, <1>2, <1>3, <2>1 DEF Referenced, FrameAlive, Spared
  <2>3. s \notin gone /\ Spared(s)
    BY <1>1 DEF IInv, OwnersKnown, Referenced, FrameAlive
  <2>4. \A t \in Sessions :
          thread'[t] = "destroying" => ~Stored(t)' /\ ~Passed(t)' /\ t \notin gone' /\ Spared(t)'
    BY <1>1, <1>2, <1>3, <2>1, <2>2, <2>3 DEF IInv, OwnersKnown
  <2>5. gone \subseteq Sessions
    BY <1>1 DEF TypeOK
  <2>6. QED
    BY <1>1, <2>2, <2>4, <2>5 DEF IInv, OwnersKnown
<1>6. MarksKnown'
  BY <1>1, <1>2, <1>3, MarksFrame
<1>7. OnTime' /\ DispatchersPlaced'
  BY <1>1, <1>2, <1>3 DEF IInv, OnTime, DispatchersPlaced
<1>8. QED
  BY <1>4, <1>5, <1>6, <1>7 DEF IInv

\* The session thread has destroyed its session.
LEMMA DestroyOwnIInv ==
  ASSUME IInv, NEW s \in Sessions, DestroyOwn(s) PROVE IInv'
<1>1. /\ TypeOK /\ thread[s] = "destroying" /\ dispatcher[s] = "idle"
      /\ thread' = [thread EXCEPT ![s] = "returned"] /\ Goto(s, "ended")
      /\ gone' = gone \cup {s}
      /\ UNCHANGED <<sessionMap, removeLaterSet, holder, sessionId, launches, todo,
                     victim, found, fate, lastAdded, launched, late>>
  BY DEF IInv, DestroyOwn, storageVars, launchVars, ghostVars
<1>2. thread'[s] = "returned" /\ \A t \in Sessions \ {s} : thread'[t] = thread[t]
  BY <1>1, ThreadMoved
<1>3. /\ dispatcher' \in [Sessions -> {"idle", "adding", "replacing", "added", "counting",
                                       "cleaning", "recounting", "ended"}]
      /\ dispatcher'[s] = "ended" /\ \A t \in Sessions \ {s} : dispatcher'[t] = dispatcher[t]
  BY <1>1, Moved
<1>4. TypeOK'
  <2>1. \A t \in Sessions : dispatcher'[t] = "replacing" <=> holder' = t
    BY <1>1, <1>3 DEF TypeOK
  <2>2. QED
    BY <1>1, <1>3, <2>1 DEF TypeOK
<1>5. OwnersKnown'
  <2>1. ~Stored(s) /\ ~Passed(s) /\ s \notin gone /\ Spared(s)
    BY <1>1 DEF IInv, OwnersKnown
  <2>2. \A t \in Sessions : (Stored(t)' => Stored(t)) /\ (Passed(t)' => Passed(t))
    BY <1>1, <1>3 DEF Stored, Passed
  <2>3. \A t \in Sessions : Spared(t)' <=> Spared(t)
    BY <1>1 DEF Spared
  <2>4. \A t \in Sessions : Referenced(t)' => Referenced(t) /\ t # s
    BY <1>2, <2>1, <2>2 DEF Referenced, FrameAlive
  <2>5. \A t \in Sessions : Referenced(t)' => t \notin gone' /\ Spared(t)'
    BY <1>1, <2>3, <2>4 DEF IInv, OwnersKnown
  <2>6. \A t \in Sessions :
          thread'[t] = "destroying" => ~Stored(t)' /\ ~Passed(t)' /\ t \notin gone' /\ Spared(t)'
    BY <1>1, <1>2, <2>2, <2>3 DEF IInv, OwnersKnown
  <2>7. gone \subseteq Sessions
    BY <1>1 DEF TypeOK
  <2>8. \A t \in gone' : Spared(t)'
    BY <1>1, <2>1, <2>3, <2>7 DEF IInv, OwnersKnown
  <2>9. \A q, r \in Sessions : victim'[q] \in Sessions /\ victim'[q] = victim'[r] => q = r
    BY <1>1 DEF IInv, OwnersKnown
  <2>10. QED
    BY <2>5, <2>6, <2>8, <2>9 DEF OwnersKnown
<1>6. MarksKnown'
  BY <1>1, <1>2, MarksFrame
<1>7. OnTime' /\ DispatchersPlaced'
  BY <1>1, <1>2, <1>3 DEF IInv, OnTime, DispatchersPlaced
<1>8. QED
  BY <1>4, <1>5, <1>6, <1>7 DEF IInv

\* A lookup, and what the missing locks allow, change nothing else.
LEMMA LookupIInv ==
  ASSUME IInv, (\E id \in Ids : Finds(id)) \/ Uses \/ Race \/ UNCHANGED vars PROVE IInv'
<1>1. /\ TypeOK /\ found' \in MaybeSession /\ fate' \in {fate, "undefined"}
      /\ UNCHANGED <<sessionMap, removeLaterSet, holder, thread, dispatcher, sessionId, launches,
                     todo, victim, gone, lastAdded, launched, late>>
  BY DEF IInv, TypeOK, Finds, Uses, Race, MaybeSession, vars, storageVars, launchVars, ghostVars
<1>2. TypeOK'
  BY <1>1 DEF TypeOK
<1>3. \A t \in Sessions : Passed(t)' => Passed(t)
  BY <1>1 DEF Passed
<1>4. OwnersKnown'
  BY <1>1, <1>3, OwnersFrame
<1>5. MarksKnown'
  BY <1>1, MarksFrame
<1>6. OnTime' /\ DispatchersPlaced'
  BY <1>1 DEF IInv, OnTime, DispatchersPlaced
<1>7. QED
  BY <1>2, <1>4, <1>5, <1>6 DEF IInv

\* Every step keeps the invariant.
LEMMA NextIInv == IInv /\ [Next]_vars => IInv'
<1> SUFFICES ASSUME IInv, [Next]_vars PROVE IInv'
  OBVIOUS
<1>1. ASSUME NEW s \in Sessions, Ends(s) PROVE IInv'
  BY <1>1, EndsIInv
<1>2. ASSUME NEW s \in Sessions, NEW id \in Ids \cup {NoId}, Launch(s, id) PROVE IInv'
  BY <1>2, LaunchIInv
<1>3. ASSUME NEW s \in Sessions, Dispatch(s) PROVE IInv'
  BY <1>3, AddIInv, UnlockIInv, DropArgumentIInv, CleanupStartsIInv, CleanupErasesIInv,
     LaunchEndsIInv, JoinVictimIInv, JoinSelfIInv DEF Dispatch
<1>4. ASSUME NEW s \in Sessions, SessionThread(s) PROVE IInv'
  BY <1>4, RemoveLaterIInv, ReturnIInv, DestroyOwnIInv DEF SessionThread
<1>5. CASE (\E id \in Ids : Finds(id)) \/ Uses \/ Race \/ UNCHANGED vars
  BY <1>5, LookupIInv
<1>6. QED
  BY <1>1, <1>2, <1>3, <1>4, <1>5 DEF Next

-----------------------------------------------------------------------------
(* Theorems.                                                               *)

\* The invariant holds in every reachable state.
THEOREM StorageInvariant == Spec => []IInv
BY InitIInv, NextIInv, PTL DEF Spec

\* The storage, the threads and the lock keep their types; the lock is held
\* just by a dispatcher inside add.
THEOREM StorageTypeCorrect == Spec => []TypeOK
<1>1. IInv => TypeOK
  BY DEF IInv
<1>2. QED
  BY <1>1, StorageInvariant, PTL

\* No lookup finds a destroyed session and none is destroyed twice, whatever
\* ids the clients share.
THEOREM DestroyedAreHidden == Spec => []NobodyFindsDestroyed
<1>1. IInv => NobodyFindsDestroyed
  <2> SUFFICES ASSUME IInv, NEW t \in Sessions
               PROVE  /\ Stored(t) => t \notin gone /\ ~Destroying(t)
                      /\ t \in gone => ~Destroying(t)
                      /\ \A r, s \in Sessions : victim[r] = t /\ victim[s] = t => r = s
    BY DEF NobodyFindsDestroyed
  <2>1. Stored(t) => t \notin gone /\ ~Destroying(t)
    BY DEF IInv, OwnersKnown, Referenced, Destroying, Spared
  <2>2. t \in gone => ~Destroying(t)
    BY DEF IInv, OwnersKnown, Destroying, Spared
  <2>3. QED
    BY <2>1, <2>2 DEF IInv, OwnersKnown
<1>2. QED
  BY <1>1, StorageInvariant, PTL

\* A session is found under its id until one that launched under it ends.
THEOREM LiveAreFound == Spec => []LiveSessionIsFound
<1>1. IInv => LiveSessionIsFound
  BY DEF IInv, MarksKnown
<1>2. QED
  BY <1>1, StorageInvariant, PTL

\* No dispatcher joins itself, and no two wait for each other under the lock,
\* as long as every client keeps quiet after the request that ends its session.
THEOREM LateLaunchesHurt == Spec => []OnlyLateLaunchHurts
<1>1. IInv => OnlyLateLaunchHurts
  <2> SUFFICES ASSUME IInv, late = {}, Stuck PROVE FALSE
    BY DEF IInv, OnTime, OnlyLateLaunchHurts
  <2>1. PICK s, t \in Sessions :
          holder = s /\ victim[s] = t /\ dispatcher[t] \in {"adding", "counting", "recounting"}
    BY DEF Stuck
  <2>2. thread[t] = "waiting"
    BY <2>1 DEF IInv, OnTime
  <2>3. Referenced(t) /\ ~Spared(t)
    BY <2>1, <2>2 DEF Referenced, FrameAlive, Spared
  <2>4. QED
    BY <2>3 DEF IInv, OwnersKnown
<1>2. QED
  BY <1>1, StorageInvariant, PTL
==============================================================================
