------------------------- MODULE SharedObjectProofs -------------------------
(***************************************************************************)
(* Proofs about the three objects of src/dap that threads share: the       *)
(* channel loses no wakeup and is a FIFO channel, for every number of      *)
(* takers, every set of items and every bound on the queue; nobody uses a  *)
(* closed descriptor of the socket, none is closed twice, and one is lost  *)
(* only after isOpen met an error on it, for every number of messages; the *)
(* reader/writer lock excludes, loses no wakeup and implements SharedLock, *)
(* for every finite set of threads.                                        *)
(***************************************************************************)
EXTENDS Chan, Socket, RWMutex, FiniteSetTheorems, TLAPS

-----------------------------------------------------------------------------
(* The channel.                                                            *)

ChanIInv == ChanTypeOK /\ NoTakerForgotten

\* Waking everybody leaves nobody waiting.
LEMMA WokenNobodyWaits ==
  ASSUME ChanTypeOK
  PROVE  /\ Woken \in [Takers -> {"out", "in", "waiting", "woken"}]
         /\ \A t \in Takers : Woken[t] # "waiting"
BY DEF ChanTypeOK, Woken

\* A take, whether it returns an item or goes to wait, keeps the invariant.
LEMMA TakeIInv ==
  ASSUME ChanIInv, NEW t \in Takers, Take(t)
  PROVE  ChanIInv'
<1> USE DEF ChanIInv, ChanTypeOK
<1>1. CASE Ready /\ Return(t)
  <2>1. pc' = [pc EXCEPT ![t] = "out"] /\ closed' = closed
    BY <1>1 DEF Return
  <2>2. CASE queue # <<>>
    <3>1. /\ queue' = Tail(queue)
          /\ result' = [result EXCEPT ![t] = Head(queue)]
      BY <1>1, <2>2 DEF Return
    <3>2. Head(queue) \in Values /\ Tail(queue) \in Seq(Values)
      BY <2>2
    <3>3. ChanTypeOK'
      BY <2>1, <3>1, <3>2
    <3>4. \A u \in Takers : pc[u] # "waiting"
      BY <2>2 DEF NoTakerForgotten
    <3> QED
      BY <2>1, <3>3, <3>4 DEF NoTakerForgotten
  <2>3. CASE queue = <<>>
    <3>1. queue' = queue /\ result' = [result EXCEPT ![t] = Nothing]
      BY <1>1, <2>3 DEF Return
    <3> QED
      BY <2>1, <3>1 DEF NoTakerForgotten
  <2> QED
    BY <2>2, <2>3
<1>2. CASE ~Ready /\ Wait(t)
  BY <1>2 DEF Ready, Wait, NoTakerForgotten
<1> QED
  BY <1>1, <1>2 DEF Take

\* Every step of the channel keeps the invariant.
LEMMA ChanNextIInv == ChanIInv /\ [ChanNext]_chanVars => ChanIInv'
<1> SUFFICES ASSUME ChanIInv, [ChanNext]_chanVars PROVE ChanIInv'
  OBVIOUS
<1> USE DEF ChanIInv, ChanTypeOK
<1>1. ASSUME NEW v \in Values, Put(v) PROVE ChanIInv'
  <2>1. queue' \in Seq(Values) /\ closed' = closed /\ result' = result
    BY <1>1 DEF Put
  <2>2. CASE Notifies
    BY <1>1, <2>1, <2>2, WokenNobodyWaits DEF Put, NoTakerForgotten
  <2>3. CASE ~Notifies
    <3>1. queue # <<>> \/ closed
      BY <2>3 DEF Notifies
    <3>2. \A t \in Takers : pc[t] # "waiting"
      BY <3>1 DEF NoTakerForgotten
    <3> QED
      BY <1>1, <2>1, <2>3, <3>2 DEF Put, NoTakerForgotten
  <2> QED
    BY <2>2, <2>3
<1>2. CASE Close
  BY <1>2, WokenNobodyWaits DEF Close, NoTakerForgotten
<1>3. CASE Reset
  <2>1. <<>> \in Seq(Values)
    OBVIOUS
  <2> QED
    BY <1>3, <2>1 DEF Reset, NoTakerForgotten
<1>4. ASSUME NEW t \in Takers, Call(t) PROVE ChanIInv'
  BY <1>4 DEF Call, NoTakerForgotten
<1>5. ASSUME NEW t \in Takers, Take(t) PROVE ChanIInv'
  BY <1>5, TakeIInv
<1>6. ASSUME NEW t \in Takers, SpuriousWakeup(t) PROVE ChanIInv'
  BY <1>6 DEF SpuriousWakeup, NoTakerForgotten
<1>7. CASE UNCHANGED chanVars
  BY <1>7 DEF chanVars, NoTakerForgotten
<1> QED
  BY <1>1, <1>2, <1>3, <1>4, <1>5, <1>6, <1>7 DEF ChanNext

\* The types of chan.h's fields and the absence of lost wakeups are invariant.
THEOREM ChanInvariant == ChanSpec => []ChanIInv
<1>1. ChanInit => ChanIInv
  <2>1. <<>> \in Seq(Values)
    OBVIOUS
  <2> QED
    BY <2>1 DEF ChanInit, ChanIInv, ChanTypeOK, NoTakerForgotten
<1> QED
  BY <1>1, ChanNextIInv, PTL DEF ChanSpec

\* Every field of the channel keeps its type.
THEOREM ChanTypeCorrect == ChanSpec => []ChanTypeOK
<1>1. ChanIInv => ChanTypeOK
  BY DEF ChanIInv
<1> QED
  BY <1>1, ChanInvariant, PTL

\* Notifying only when the queue was empty loses no wakeup, whatever the
\* number of threads blocked in take().
THEOREM NoWakeupIsLost == ChanSpec => []NoTakerForgotten
<1>1. ChanIInv => NoTakerForgotten
  BY DEF ChanIInv
<1> QED
  BY <1>1, ChanInvariant, PTL

-----------------------------------------------------------------------------
(* Refinement.                                                             *)

Taking == {t \in Takers : pc[t] # "out"}

\* A step that moves no taker moves none of the abstract takers.
LEMMA TakingUnchanged ==
  ASSUME ChanTypeOK, \A t \in Takers : (pc'[t] = "out") <=> (pc[t] = "out")
  PROVE  Taking' = Taking
BY DEF Taking, ChanTypeOK

\* Every step of the channel is a step of the FIFO channel or a stutter.
LEMMA StepIsFifoStep ==
  ASSUME ChanIInv, [ChanNext]_chanVars
  PROVE  [Fifo!Next]_(Fifo!vars)
<1> USE DEF ChanIInv, ChanTypeOK
<1>1. ASSUME NEW v \in Values, Put(v) PROVE Fifo!Put(v)
  <2>1. \A t \in Takers : (pc'[t] = "out") <=> (pc[t] = "out")
    BY <1>1 DEF Put, Woken
  <2> QED
    BY <1>1, <2>1, TakingUnchanged DEF Put, Fifo!Put, Taking
<1>2. CASE Close
  <2>1. \A t \in Takers : (pc'[t] = "out") <=> (pc[t] = "out")
    BY <1>2 DEF Close, Woken
  <2> QED
    BY <1>2, <2>1, TakingUnchanged DEF Close, Fifo!Close, Taking, Fifo!Next
<1>3. CASE Reset
  BY <1>3 DEF Reset, Fifo!Reset, Fifo!Next
<1>4. ASSUME NEW t \in Takers, Call(t) PROVE Fifo!Call(t)
  <2>1. Taking' = Taking \cup {t} /\ t \notin Taking
    BY <1>4 DEF Call, Taking
  <2> QED
    BY <1>4, <2>1 DEF Call, Fifo!Call, Taking
<1>5. ASSUME NEW t \in Takers, Ready, pc[t] # "out", Return(t)
      PROVE  Fifo!Receive(t) \/ Fifo!Finish(t)
  <2>1. Taking' = Taking \ {t} /\ t \in Taking
    BY <1>5 DEF Return, Taking
  <2>2. CASE queue # <<>>
    BY <1>5, <2>1, <2>2 DEF Return, Fifo!Receive, Taking
  <2>3. CASE queue = <<>>
    BY <1>5, <2>1, <2>3 DEF Return, Ready, Fifo!Finish, Taking
  <2> QED
    BY <2>2, <2>3
<1>6. ASSUME NEW t \in Takers,
             SpuriousWakeup(t) \/ (pc[t] # "out" /\ Wait(t))
      PROVE  UNCHANGED Fifo!vars
  <2>1. \A u \in Takers : (pc'[u] = "out") <=> (pc[u] = "out")
    BY <1>6 DEF SpuriousWakeup, Wait
  <2> QED
    BY <1>6, <2>1, TakingUnchanged DEF SpuriousWakeup, Wait, Fifo!vars, Taking
<1>7. CASE UNCHANGED chanVars
  BY <1>7 DEF chanVars, Fifo!vars
<1>8. ASSUME NEW t \in Takers, Take(t)
      PROVE  Fifo!Receive(t) \/ Fifo!Finish(t) \/ UNCHANGED Fifo!vars
  BY <1>5, <1>6, <1>8 DEF Take
<1> QED
  BY <1>1, <1>2, <1>3, <1>4, <1>6, <1>7, <1>8 DEF ChanNext, Fifo!Next

\* Every execution of the channel, wakeups hidden, is one of a FIFO channel:
\* each item goes to one taker, in the order of the puts, and "nothing" is
\* answered only by a channel that is closed and drained.
THEOREM ChanIsFifo == ChanSpec => Fifo!SafetySpec
<1>1. ChanInit => Fifo!Init
  BY DEF ChanInit, Fifo!Init
<1>2. ChanIInv /\ [ChanNext]_chanVars => [Fifo!Next]_(Fifo!vars)
  BY StepIsFifoStep
<1> QED
  BY <1>1, <1>2, ChanInvariant, PTL DEF ChanSpec, Fifo!SafetySpec

-----------------------------------------------------------------------------
(* The socket.                                                             *)

\* A thread in recv or ::send found a valid socket, and the write lock keeps it
\* valid for as long as the call blocks.
BlockedOnValid == Blocking # {} => s = "open"

\* A thread that is about to invalidate the socket saw it invalid or in error.
InvalidationHasReason ==
  \A t \in Users : doing[t] = "invalidating" => s = "invalid" \/ errorSeen

SocketIInv ==
  /\ SocketTypeOK
  /\ NeverClosedTwice
  /\ BlockedOnValid
  /\ LostByErrorOnly
  /\ InvalidationHasReason

USE RolesAssumption, MaxSendsAssumption

States == {"idle", "ready", "invalidating", "receiving", "sending", "half",
           "sendingRest", "empty", "closing", "ended"}

\* A move keeps the type of doing and changes one thread only.
LEMMA SocketMoves ==
  ASSUME SocketTypeOK, NEW t \in Users, NEW from, NEW to \in States, Does(t, from, to)
  PROVE  /\ doing[t] = from /\ doing'[t] = to
         /\ doing' \in [Users -> States]
         /\ \A u \in Users \ {t} : doing'[u] = doing[u]
  BY DEF SocketTypeOK, Does, States

\* The receiver, the sender and the destroyer are three of the threads.
LEMMA Roles == Receiver \in Users /\ Sender \in Users /\ Destroyer \in Users
  BY DEF Users

\* A move into a call that blocks needs a valid socket.
LEMMA BlockedMoves ==
  ASSUME SocketIInv, NEW t \in Users, NEW from, NEW to \in States, Does(t, from, to),
         s' = s, to \in {"receiving", "sending", "sendingRest"} => s = "open"
  PROVE  BlockedOnValid'
<1>1. Blocking' \subseteq Blocking \cup {t}
  BY SocketMoves DEF Blocking, SocketIInv
<1>2. t \in Blocking' => to \in {"receiving", "sending", "sendingRest"}
  BY SocketMoves DEF Blocking, SocketIInv
<1>3. QED
  BY <1>1, <1>2 DEF SocketIInv, BlockedOnValid

\* The initial states satisfy the inductive invariant.
LEMMA SocketInitIInv == SocketInit => SocketIInv
<1> SUFFICES ASSUME SocketInit PROVE SocketIInv
  OBVIOUS
<1>1. \A t \in Users : doing[t] = "idle"
  BY DEF SocketInit
<1>2. Blocking = {}
  BY <1>1 DEF Blocking
<1>3. doing \in [Users -> States]
  BY DEF SocketInit, States
<1>4. sends \in 0 .. MaxSends /\ closings \in 0 .. 2
  BY DEF SocketInit
<1>5. SocketTypeOK
  BY <1>1, <1>3, <1>4, Roles DEF SocketInit, SocketTypeOK, States
<1>6. QED
  BY <1>1, <1>2, <1>5 DEF SocketInit, SocketIInv, NeverClosedTwice, BlockedOnValid,
                          LostByErrorOnly, InvalidationHasReason

-----------------------------------------------------------------------------
(* One step per action.                                                    *)

\* Asking whether the socket is open keeps the invariant.
LEMMA IsOpenIInv ==
  ASSUME SocketIInv, NEW t \in Users, IsOpen(t) PROVE SocketIInv'
<1> DEFINE to == IF s = "open" /\ ~error THEN "ready" ELSE "invalidating"
<1>1. /\ Does(t, "idle", to) /\ Uses(t)
      /\ errorSeen' = (errorSeen \/ (s = "open" /\ error))
      /\ error' = IF s = "open" THEN FALSE ELSE error
      /\ UNCHANGED <<s, descriptor, shut, peer, closings>>
  BY DEF IsOpen
<1>2. to \in States
  BY DEF States
<1>3. /\ doing[t] = "idle" /\ doing'[t] = to /\ doing' \in [Users -> States]
      /\ \A u \in Users \ {t} : doing'[u] = doing[u]
  BY <1>1, <1>2, SocketMoves DEF SocketIInv
<1>4. sends' \in 0 .. MaxSends
  BY <1>1 DEF Uses, SocketIInv, SocketTypeOK
<1>5. BlockedOnValid'
  BY <1>1, <1>2, BlockedMoves
<1>6. InvalidationHasReason'
  BY <1>1, <1>3 DEF SocketIInv, SocketTypeOK, InvalidationHasReason
<1>7. SocketTypeOK'
  BY <1>1, <1>3, <1>4, Roles DEF SocketIInv, SocketTypeOK, States
<1>8. QED
  BY <1>1, <1>5, <1>6, <1>7 DEF SocketIInv, NeverClosedTwice, LostByErrorOnly

\* Giving up the descriptor keeps the invariant.
LEMMA InvalidateIInv ==
  ASSUME SocketIInv, NEW t \in Users, Invalidate(t) PROVE SocketIInv'
<1> DEFINE to == IF t = Receiver THEN "ended" ELSE "idle"
<1>1. /\ Does(t, "invalidating", to) /\ Blocking = {} /\ s' = "invalid"
      /\ UNCHANGED <<kernelVars, sends, closings, errorSeen>>
  BY DEF Invalidate
<1>2. /\ doing[t] = "invalidating" /\ doing'[t] = to /\ doing' \in [Users -> States]
      /\ \A u \in Users \ {t} : doing'[u] = doing[u]
  BY <1>1, SocketMoves DEF SocketIInv, States
<1>3. Blocking' = {}
  BY <1>1, <1>2 DEF Blocking
<1>4. LostByErrorOnly'
  BY <1>1, <1>2 DEF SocketIInv, LostByErrorOnly, InvalidationHasReason, kernelVars
<1>5. QED
  BY <1>1, <1>2, <1>3, <1>4, Roles
  DEF SocketIInv, SocketTypeOK, States, NeverClosedTwice, BlockedOnValid,
      InvalidationHasReason, kernelVars

\* A read that blocks on the descriptor keeps the invariant.
LEMMA ReadIInv == ASSUME SocketIInv, Read PROVE SocketIInv'
<1> DEFINE to == IF s = "open" THEN "receiving" ELSE "empty"
<1>1. Does(Receiver, "ready", to) /\ UNCHANGED <<s, kernelVars, sends, closings, errorSeen>>
  BY DEF Read
<1>2. /\ doing'[Receiver] = to /\ doing' \in [Users -> States]
      /\ \A u \in Users \ {Receiver} : doing'[u] = doing[u]
  BY <1>1, SocketMoves, Roles DEF SocketIInv, States
<1>3. BlockedOnValid'
  BY <1>1, BlockedMoves, Roles DEF States
<1>4. QED
  BY <1>1, <1>2, <1>3
  DEF SocketIInv, SocketTypeOK, States, NeverClosedTwice, LostByErrorOnly,
      InvalidationHasReason, kernelVars

\* A read that returns keeps the invariant.
LEMMA ReceivedIInv == ASSUME SocketIInv, Received PROVE SocketIInv'
<1>1. PICK to \in {"empty", "idle"} : Does(Receiver, "receiving", to)
  BY DEF Received
<1>2. error' = FALSE /\ UNCHANGED <<s, descriptor, shut, peer, sends, closings, errorSeen>>
  BY DEF Received
<1>3. /\ doing'[Receiver] = to /\ doing' \in [Users -> States]
      /\ \A u \in Users \ {Receiver} : doing'[u] = doing[u]
  BY <1>1, SocketMoves, Roles DEF SocketIInv, States
<1>4. BlockedOnValid'
  BY <1>1, <1>2, BlockedMoves, Roles DEF States
<1>5. QED
  BY <1>1, <1>2, <1>3, <1>4
  DEF SocketIInv, SocketTypeOK, States, NeverClosedTwice, LostByErrorOnly, InvalidationHasReason

\* A write that blocks on the descriptor keeps the invariant.
LEMMA WriteIInv == ASSUME SocketIInv, Write PROVE SocketIInv'
<1>1. UNCHANGED <<s, kernelVars, sends, closings, errorSeen>>
  BY DEF Write
<1>2. PICK from \in States, to \in {"sending", "sendingRest", "idle"} :
        Does(Sender, from, to) /\ (to # "idle" => s = "open")
  BY DEF Write, States
<1>3. /\ doing'[Sender] = to /\ doing' \in [Users -> States]
      /\ \A u \in Users \ {Sender} : doing'[u] = doing[u]
  BY <1>2, SocketMoves, Roles DEF SocketIInv, States
<1>4. BlockedOnValid'
  BY <1>1, <1>2, BlockedMoves, Roles DEF States
<1>5. QED
  BY <1>1, <1>2, <1>3, <1>4, Roles
  DEF SocketIInv, SocketTypeOK, States, NeverClosedTwice, LostByErrorOnly,
      InvalidationHasReason, kernelVars

\* A write that returns keeps the invariant.
LEMMA WrittenIInv == ASSUME SocketIInv, Written PROVE SocketIInv'
<1>1. error' = FALSE /\ UNCHANGED <<s, descriptor, shut, peer, sends, closings, errorSeen>>
  BY DEF Written
<1>2. PICK from \in States, to \in {"half", "idle"} : Does(Sender, from, to)
  BY DEF Written, States
<1>3. /\ doing'[Sender] = to /\ doing' \in [Users -> States]
      /\ \A u \in Users \ {Sender} : doing'[u] = doing[u]
  BY <1>2, SocketMoves, Roles DEF SocketIInv, States
<1>4. BlockedOnValid'
  BY <1>1, <1>2, BlockedMoves, Roles DEF States
<1>5. QED
  BY <1>1, <1>2, <1>3, <1>4, Roles
  DEF SocketIInv, SocketTypeOK, States, NeverClosedTwice, LostByErrorOnly, InvalidationHasReason

\* Shutting the socket down keeps the invariant.
LEMMA ShutdownIInv ==
  ASSUME SocketIInv, NEW t \in Users, Shutdown(t) PROVE SocketIInv'
<1>1. PICK from \in States : Does(t, from, "closing")
  BY DEF Shutdown, States
<1>2. shut' = (shut \/ s = "open") /\ UNCHANGED <<s, descriptor, error, peer, sends, errorSeen>>
  BY DEF Shutdown
<1>3. closings' \in 0 .. 2
  BY DEF Shutdown, SocketIInv, SocketTypeOK
<1>4. /\ doing'[t] = "closing" /\ doing' \in [Users -> States]
      /\ \A u \in Users \ {t} : doing'[u] = doing[u]
  BY <1>1, SocketMoves DEF SocketIInv, States
<1>5. BlockedOnValid'
  BY <1>1, <1>2, BlockedMoves DEF States
<1>6. QED
  BY <1>1, <1>2, <1>3, <1>4, <1>5, Roles
  DEF SocketIInv, SocketTypeOK, States, NeverClosedTwice, LostByErrorOnly, InvalidationHasReason

\* Closing the socket keeps the invariant.
LEMMA CloseIInv ==
  ASSUME SocketIInv, NEW t \in Users, CloseSocket(t) PROVE SocketIInv'
<1>1. /\ Does(t, "closing", "idle") /\ Blocking = {} /\ s' = "invalid"
      /\ descriptor' = IF s = "open" THEN "closed" ELSE descriptor
      /\ UNCHANGED <<shut, error, peer, sends, closings, errorSeen>>
  BY DEF CloseSocket
<1>2. /\ doing'[t] = "idle" /\ doing' \in [Users -> States]
      /\ \A u \in Users \ {t} : doing'[u] = doing[u]
  BY <1>1, SocketMoves DEF SocketIInv, States
<1>3. Blocking' = {}
  BY <1>1, <1>2 DEF Blocking
<1>4. LostByErrorOnly'
  BY <1>1 DEF SocketIInv, SocketTypeOK, LostByErrorOnly
<1>5. QED
  BY <1>1, <1>2, <1>3, <1>4, Roles
  DEF SocketIInv, SocketTypeOK, States, NeverClosedTwice, BlockedOnValid, InvalidationHasReason

\* Every step keeps the inductive invariant.
LEMMA SocketNextIInv == SocketIInv /\ [SocketNext]_socketVars => SocketIInv'
<1> SUFFICES ASSUME SocketIInv, [SocketNext]_socketVars PROVE SocketIInv'
  OBVIOUS
<1>1. ASSUME NEW t \in Users, IsOpen(t) \/ Invalidate(t) \/ Shutdown(t) \/ CloseSocket(t)
      PROVE  SocketIInv'
  BY <1>1, IsOpenIInv, InvalidateIInv, ShutdownIInv, CloseIInv
<1>2. CASE Read \/ Received \/ Write \/ Written
  BY <1>2, ReadIInv, ReceivedIInv, WriteIInv, WrittenIInv
<1>3. CASE PeerLeaves \/ PeerResets
  BY <1>3 DEF PeerLeaves, PeerResets, SocketIInv, SocketTypeOK, NeverClosedTwice, BlockedOnValid,
              LostByErrorOnly, InvalidationHasReason, Blocking
<1>4. CASE UNCHANGED socketVars
  BY <1>4 DEF socketVars, SocketIInv, SocketTypeOK, NeverClosedTwice, BlockedOnValid,
              LostByErrorOnly, InvalidationHasReason, Blocking
<1>5. QED
  BY <1>1, <1>2, <1>3, <1>4 DEF SocketNext

-----------------------------------------------------------------------------
\* The inductive invariant holds in every reachable state of the socket.
THEOREM SocketInvariant == SocketSpec => []SocketIInv
<1>1. QED
  BY SocketInitIInv, SocketNextIInv, PTL DEF SocketSpec

\* Type correctness of the socket.
THEOREM SocketTypeCorrect == SocketSpec => []SocketTypeOK
<1>1. SocketIInv => SocketTypeOK
  BY DEF SocketIInv
<1>2. QED
  BY <1>1, SocketInvariant, PTL

\* close() waits for the threads in recv and ::send before the descriptor goes.
THEOREM DescriptorInUseIsOpen == SocketSpec => []NoUseAfterClose
<1>1. SocketIInv => NoUseAfterClose
  BY DEF SocketIInv, NoUseAfterClose, NeverClosedTwice, BlockedOnValid
<1>2. QED
  BY <1>1, SocketInvariant, PTL

\* Two closings and the receiver's own close ::close one descriptor once.
THEOREM ClosedOnce == SocketSpec => []NeverClosedTwice
<1>1. SocketIInv => NeverClosedTwice
  BY DEF SocketIInv
<1>2. QED
  BY <1>1, SocketInvariant, PTL

\* Nothing but an error seen by isOpen makes the socket forget a descriptor.
THEOREM LostAfterErrorOnly == SocketSpec => []LostByErrorOnly
<1>1. SocketIInv => LostByErrorOnly
  BY DEF SocketIInv
<1>2. QED
  BY <1>1, SocketInvariant, PTL

-----------------------------------------------------------------------------
(* The lock.                                                               *)

\* The counters count, and the kept mutex says who writes.
CountersCount ==
  /\ readLocks = Cardinality(Readers)
  /\ pendingWriteLocks = Cardinality(Waiting)

MutexIsWriter ==
  /\ mutex = None => Writers = {}
  /\ mutex # None => Writers = {mutex} /\ Readers = {}

LockIInv == LockTypeOK /\ CountersCount /\ MutexIsWriter /\ NoLostWakeup

USE ThreadsFinite, NoneAssumption

-----------------------------------------------------------------------------
(* Counting threads.                                                       *)

\* A set of threads has a number, which is zero just when it is empty.
LEMMA ThreadsCounted ==
  ASSUME NEW S \in SUBSET Threads
  PROVE  /\ IsFiniteSet(S)
         /\ Cardinality(S) \in Nat
         /\ Cardinality(S) = 0 <=> S = {}
<1>1. IsFiniteSet(S)
  BY FS_Subset
<1>2. QED
  BY <1>1, FS_CardinalityType, FS_EmptySet

\* A thread that joins a set counts one more, one that leaves it one less.
LEMMA OneMore ==
  ASSUME NEW S \in SUBSET Threads, NEW t \in Threads, t \notin S
  PROVE  Cardinality(S \cup {t}) = Cardinality(S) + 1
  BY ThreadsCounted, FS_AddElement

\* Taking a thread out of a set of threads makes it smaller by one.
LEMMA OneLess ==
  ASSUME NEW S \in SUBSET Threads, NEW t \in S
  PROVE  Cardinality(S \ {t}) = Cardinality(S) - 1
  BY ThreadsCounted, FS_RemoveElement

\* What a thread's move does to the three sets of threads.
LEMMA LockMoves ==
  ASSUME LockTypeOK, NEW t \in Threads, NEW from, NEW to, Goes(t, from, to),
         from \in {"outside", "reading", "waiting", "writing"},
         to \in {"outside", "reading", "waiting", "writing"}
  PROVE  /\ at' \in [Threads -> {"outside", "reading", "waiting", "writing"}]
         /\ Readers' = (IF to = "reading" THEN Readers \cup {t} ELSE Readers \ {t})
         /\ Waiting' = (IF to = "waiting" THEN Waiting \cup {t} ELSE Waiting \ {t})
         /\ Writers' = (IF to = "writing" THEN Writers \cup {t} ELSE Writers \ {t})
         /\ t \in Readers <=> from = "reading"
         /\ t \in Waiting <=> from = "waiting"
         /\ t \in Writers <=> from = "writing"
  BY DEF LockTypeOK, Goes, Readers, Waiting, Writers

\* The readers, the sleepers and the writers are sets of threads.
LEMMA LockSets ==
  /\ Readers \in SUBSET Threads
  /\ Waiting \in SUBSET Threads
  /\ Writers \in SUBSET Threads
  BY DEF Readers, Waiting, Writers

\* A notification adds sleepers only, and wakes one unless all are awake.
LEMMA Notification ==
  ASSUME LockTypeOK, NotifyOne
  PROVE  /\ notified \subseteq notified'
         /\ notified' \subseteq Waiting
         /\ Waiting # {} => notified' # {}
  BY DEF LockTypeOK, NotifyOne

-----------------------------------------------------------------------------
(* The inductive invariant.                                                *)

\* The initial states satisfy the inductive invariant.
LEMMA LockInitIInv == LockInit => LockIInv
<1> SUFFICES ASSUME LockInit PROVE LockIInv
  OBVIOUS
<1>1. Readers = {} /\ Waiting = {} /\ Writers = {}
  BY DEF LockInit, Readers, Waiting, Writers
<1>2. Cardinality({}) = 0
  BY FS_EmptySet
<1>3. QED
  BY <1>1, <1>2 DEF LockInit, LockIInv, LockTypeOK, CountersCount, MutexIsWriter, NoLostWakeup

\* Taking the lock for reading keeps the invariant.
LEMMA LockReaderIInv ==
  ASSUME LockIInv, NEW t \in Threads, LockReader(t) PROVE LockIInv'
<1>1. /\ Goes(t, "outside", "reading") /\ mutex = None /\ mutex' = None
      /\ readLocks' = readLocks + 1
      /\ pendingWriteLocks' = pendingWriteLocks /\ notified' = notified
  BY DEF LockReader
<1>2. /\ Readers' = Readers \cup {t} /\ t \notin Readers
      /\ Waiting' = Waiting /\ Writers' = Writers
      /\ at' \in [Threads -> {"outside", "reading", "waiting", "writing"}]
  BY <1>1, LockMoves DEF LockIInv
<1>3. readLocks' = Cardinality(Readers')
  BY <1>1, <1>2, OneMore, LockSets DEF LockIInv, CountersCount
<1>4. QED
  BY <1>1, <1>2, <1>3
  DEF LockIInv, LockTypeOK, CountersCount, MutexIsWriter, NoLostWakeup

\* Releasing a reader's lock keeps the invariant: the last one wakes a writer.
LEMMA UnlockReaderIInv ==
  ASSUME LockIInv, NEW t \in Threads, UnlockReader(t) PROVE LockIInv'
<1>1. /\ Goes(t, "reading", "outside") /\ mutex = None /\ mutex' = None
      /\ readLocks' = readLocks - 1
      /\ pendingWriteLocks' = pendingWriteLocks
      /\ IF readLocks' = 0 /\ pendingWriteLocks > 0 THEN NotifyOne
         ELSE notified' = notified
  BY DEF UnlockReader
<1>2. /\ Readers' = Readers \ {t} /\ t \in Readers
      /\ Waiting' = Waiting /\ Writers' = Writers
      /\ at' \in [Threads -> {"outside", "reading", "waiting", "writing"}]
  BY <1>1, LockMoves DEF LockIInv
<1>3. readLocks' = Cardinality(Readers') /\ readLocks' \in Nat
  <2>1. Cardinality(Readers \ {t}) = Cardinality(Readers) - 1
    BY <1>2, OneLess, LockSets
  <2>2. Cardinality(Readers \ {t}) \in Nat
    BY LockSets, ThreadsCounted
  <2>3. QED
    BY <1>1, <1>2, <2>1, <2>2 DEF LockIInv, CountersCount
<1>4. notified' \subseteq Waiting'
  BY <1>1, <1>2, Notification DEF LockIInv, LockTypeOK
<1>5. NoLostWakeup'
  <2>1. pendingWriteLocks = 0 <=> Waiting = {}
    BY ThreadsCounted, LockSets DEF LockIInv, CountersCount
  <2>2. CASE readLocks' = 0 /\ Waiting # {}
    BY <1>1, <1>2, <2>1, <2>2, Notification DEF LockIInv, LockTypeOK, NoLostWakeup
  <2>3. CASE ~(readLocks' = 0 /\ Waiting # {})
    BY <1>2, <2>3 DEF NoLostWakeup
  <2>4. QED
    BY <2>2, <2>3
<1>6. QED
  BY <1>1, <1>2, <1>3, <1>4, <1>5 DEF LockIInv, LockTypeOK, CountersCount, MutexIsWriter

\* Taking the lock for writing at once keeps the invariant.
LEMMA LockWriterIInv ==
  ASSUME LockIInv, NEW t \in Threads, LockWriter(t) PROVE LockIInv'
<1>1. /\ Goes(t, "outside", "writing") /\ mutex = None /\ mutex' = t
      /\ readLocks = 0 /\ readLocks' = readLocks
      /\ pendingWriteLocks' = pendingWriteLocks /\ notified' = notified
  BY DEF LockWriter
<1>2. /\ Readers' = Readers
      /\ Waiting' = Waiting /\ Writers' = Writers \cup {t}
      /\ at' \in [Threads -> {"outside", "reading", "waiting", "writing"}]
  BY <1>1, LockMoves DEF LockIInv
<1>3. Readers = {}
  BY <1>1, ThreadsCounted, LockSets DEF LockIInv, CountersCount
<1>4. QED
  BY <1>1, <1>2, <1>3
  DEF LockIInv, LockTypeOK, CountersCount, MutexIsWriter, NoLostWakeup

\* A writer that goes to sleep behind the readers keeps the invariant.
LEMMA WaitForReadersIInv ==
  ASSUME LockIInv, NEW t \in Threads, WaitForReaders(t) PROVE LockIInv'
<1>1. /\ Goes(t, "outside", "waiting") /\ mutex = None /\ mutex' = None
      /\ readLocks > 0 /\ readLocks' = readLocks
      /\ pendingWriteLocks' = pendingWriteLocks + 1 /\ notified' = notified
  BY DEF WaitForReaders
<1>2. /\ Readers' = Readers
      /\ Waiting' = Waiting \cup {t} /\ t \notin Waiting /\ Writers' = Writers
      /\ at' \in [Threads -> {"outside", "reading", "waiting", "writing"}]
  BY <1>1, LockMoves DEF LockIInv
<1>3. pendingWriteLocks' = Cardinality(Waiting')
  BY <1>1, <1>2, OneMore, LockSets DEF LockIInv, CountersCount
<1>4. QED
  BY <1>1, <1>2, <1>3
  DEF LockIInv, LockTypeOK, CountersCount, MutexIsWriter, NoLostWakeup

\* A notified writer that wakes, to write or to sleep again, keeps the invariant.
LEMMA WakeIInv ==
  ASSUME LockIInv, NEW t \in Threads, Wake(t) PROVE LockIInv'
<1>1. mutex = None /\ t \in notified /\ notified' = notified \ {t}
      /\ readLocks' = readLocks
  BY DEF Wake
<1>2. CASE readLocks = 0
  <2>1. /\ Goes(t, "waiting", "writing") /\ mutex' = t
        /\ pendingWriteLocks' = pendingWriteLocks - 1
    BY <1>2 DEF Wake
  <2>2. /\ Readers' = Readers
        /\ Waiting' = Waiting \ {t} /\ t \in Waiting /\ Writers' = Writers \cup {t}
        /\ at' \in [Threads -> {"outside", "reading", "waiting", "writing"}]
    BY <2>1, LockMoves DEF LockIInv
  <2>3. pendingWriteLocks' = Cardinality(Waiting') /\ pendingWriteLocks' \in Nat
    <3>1. Cardinality(Waiting \ {t}) = Cardinality(Waiting) - 1
      BY <2>2, OneLess, LockSets
    <3>2. Cardinality(Waiting \ {t}) \in Nat
      BY LockSets, ThreadsCounted
    <3>3. QED
      BY <2>1, <2>2, <3>1, <3>2 DEF LockIInv, CountersCount
  <2>4. Readers = {}
    BY <1>2, ThreadsCounted, LockSets DEF LockIInv, CountersCount
  <2>5. QED
    BY <1>1, <2>1, <2>2, <2>3, <2>4
    DEF LockIInv, LockTypeOK, CountersCount, MutexIsWriter, NoLostWakeup
<1>3. CASE readLocks # 0
  <2>1. /\ Goes(t, "waiting", "waiting") /\ mutex' = mutex
        /\ pendingWriteLocks' = pendingWriteLocks
    BY <1>3 DEF Wake
  <2>2. /\ Readers' = Readers
        /\ Waiting' = Waiting /\ Writers' = Writers
        /\ at' \in [Threads -> {"outside", "reading", "waiting", "writing"}]
    BY <2>1, LockMoves DEF LockIInv
  <2>3. QED
    BY <1>1, <1>3, <2>1, <2>2
    DEF LockIInv, LockTypeOK, CountersCount, MutexIsWriter, NoLostWakeup
<1>4. QED
  BY <1>2, <1>3

\* A spurious wakeup keeps the invariant.
LEMMA WakeSpuriouslyIInv ==
  ASSUME LockIInv, NEW t \in Threads, WakeSpuriously(t) PROVE LockIInv'
  BY DEF WakeSpuriously, LockIInv, LockTypeOK, CountersCount, MutexIsWriter, NoLostWakeup,
         Readers, Writers, Waiting

\* Releasing the writer's lock keeps the invariant: it wakes the next writer.
LEMMA UnlockWriterIInv ==
  ASSUME LockIInv, NEW t \in Threads, UnlockWriter(t) PROVE LockIInv'
<1>1. /\ Goes(t, "writing", "outside") /\ mutex' = None
      /\ readLocks' = readLocks /\ pendingWriteLocks' = pendingWriteLocks
      /\ IF pendingWriteLocks > 0 THEN NotifyOne ELSE notified' = notified
  BY DEF UnlockWriter
<1>2. /\ Readers' = Readers
      /\ Waiting' = Waiting /\ Writers' = Writers \ {t} /\ t \in Writers
      /\ at' \in [Threads -> {"outside", "reading", "waiting", "writing"}]
  BY <1>1, LockMoves DEF LockIInv
<1>3. Writers' = {}
  BY <1>2 DEF LockIInv, MutexIsWriter
<1>4. notified' \subseteq Waiting'
  BY <1>1, <1>2, Notification DEF LockIInv, LockTypeOK
<1>5. NoLostWakeup'
  <2>1. Waiting # {} => pendingWriteLocks > 0
    BY ThreadsCounted, LockSets DEF LockIInv, CountersCount
  <2>2. QED
    BY <1>1, <1>2, <2>1, Notification DEF LockIInv, NoLostWakeup
<1>6. QED
  BY <1>1, <1>2, <1>3, <1>4, <1>5 DEF LockIInv, LockTypeOK, CountersCount, MutexIsWriter

\* Every step keeps the inductive invariant.
LEMMA LockNextIInv == LockIInv /\ [LockNext]_lockVars => LockIInv'
<1> SUFFICES ASSUME LockIInv, [LockNext]_lockVars PROVE LockIInv'
  OBVIOUS
<1>1. ASSUME NEW t \in Threads,
             \/ LockReader(t) \/ UnlockReader(t) \/ LockWriter(t)
             \/ WaitForReaders(t) \/ Wake(t) \/ WakeSpuriously(t) \/ UnlockWriter(t)
      PROVE  LockIInv'
  BY <1>1, LockReaderIInv, UnlockReaderIInv, LockWriterIInv, WaitForReadersIInv,
     WakeIInv, WakeSpuriouslyIInv, UnlockWriterIInv
<1>2. CASE UNCHANGED lockVars
  BY <1>2 DEF lockVars, LockIInv, LockTypeOK, CountersCount, MutexIsWriter, NoLostWakeup,
              Readers, Writers, Waiting
<1>3. QED
  BY <1>1, <1>2 DEF LockNext

\* The inductive invariant holds in every reachable state of the lock.
THEOREM LockInvariant == LockSpec => []LockIInv
<1>1. QED
  BY LockInitIInv, LockNextIInv, PTL DEF LockSpec

\* Type correctness of the lock, for every finite set of threads.
THEOREM LockTypeCorrect == LockSpec => []LockTypeOK
<1>1. LockIInv => LockTypeOK
  BY DEF LockIInv
<1>2. QED
  BY <1>1, LockInvariant, PTL

\* lockWriter gives the lock to one thread alone (dap/rwmutex.h: "The lock can
\* be held by an arbitrary number of readers or a single writer").
THEOREM WriterIsAlone == LockSpec => []Exclusion
<1>1. LockIInv => Exclusion
  BY DEF LockIInv, MutexIsWriter, Exclusion, Writers
<1>2. QED
  BY <1>1, LockInvariant, PTL

\* No chance of a sleeping writer goes by without a wakeup.
THEOREM NoWriterForgotten == LockSpec => []NoLostWakeup
<1>1. LockIInv => NoLostWakeup
  BY DEF LockIInv
<1>2. QED
  BY <1>1, LockInvariant, PTL

-----------------------------------------------------------------------------
(* Refinement.                                                             *)

\* The initial states are initial states of the abstract lock.
LEMMA InitImplements == LockInit => Abstract!Init
  BY DEF LockInit, Abstract!Init, Readers, Writers

\* Every step is a step of the abstract lock or a stutter.
LEMMA StepImplements == LockIInv /\ [LockNext]_lockVars => [Abstract!Next]_(Abstract!vars)
<1> SUFFICES ASSUME LockIInv, [LockNext]_lockVars
             PROVE  Abstract!Next \/ (Readers' = Readers /\ Writers' = Writers)
  BY DEF Abstract!vars
<1>1. ASSUME NEW t \in Threads, LockReader(t) PROVE Abstract!LockReader(t)
  <2>1. /\ Goes(t, "outside", "reading") /\ mutex = None
    BY <1>1 DEF LockReader
  <2>2. QED
    BY <2>1, LockMoves DEF LockIInv, MutexIsWriter, Abstract!LockReader
<1>2. ASSUME NEW t \in Threads, UnlockReader(t) PROVE Abstract!UnlockReader(t)
  <2>1. Goes(t, "reading", "outside")
    BY <1>2 DEF UnlockReader
  <2>2. QED
    BY <2>1, LockMoves DEF LockIInv, Abstract!UnlockReader
<1>3. ASSUME NEW t \in Threads, LockWriter(t) PROVE Abstract!LockWriter(t)
  <2>1. Goes(t, "outside", "writing") /\ mutex = None /\ readLocks = 0
    BY <1>3 DEF LockWriter
  <2>2. Readers = {} /\ Writers = {}
    BY <2>1, ThreadsCounted, LockSets DEF LockIInv, CountersCount, MutexIsWriter
  <2>3. QED
    BY <2>1, <2>2, LockMoves DEF LockIInv, Abstract!LockWriter
<1>4. ASSUME NEW t \in Threads, WaitForReaders(t)
      PROVE  Readers' = Readers /\ Writers' = Writers
  <2>1. Goes(t, "outside", "waiting")
    BY <1>4 DEF WaitForReaders
  <2>2. QED
    BY <2>1, LockMoves DEF LockIInv
<1>5. ASSUME NEW t \in Threads, Wake(t)
      PROVE  Abstract!LockWriter(t) \/ (Readers' = Readers /\ Writers' = Writers)
  <2>1. CASE readLocks = 0
    <3>1. Goes(t, "waiting", "writing") /\ mutex = None
      BY <1>5, <2>1 DEF Wake
    <3>2. Readers = {} /\ Writers = {}
      BY <2>1, <3>1, ThreadsCounted, LockSets DEF LockIInv, CountersCount, MutexIsWriter
    <3>3. QED
      BY <3>1, <3>2, LockMoves DEF LockIInv, Abstract!LockWriter
  <2>2. CASE readLocks # 0
    <3>1. Goes(t, "waiting", "waiting")
      BY <1>5, <2>2 DEF Wake
    <3>2. QED
      BY <3>1, LockMoves DEF LockIInv
  <2>3. QED
    BY <2>1, <2>2
<1>6. ASSUME NEW t \in Threads, WakeSpuriously(t)
      PROVE  Readers' = Readers /\ Writers' = Writers
  BY <1>6 DEF WakeSpuriously, Readers, Writers
<1>7. ASSUME NEW t \in Threads, UnlockWriter(t) PROVE Abstract!UnlockWriter(t)
  <2>1. Goes(t, "writing", "outside")
    BY <1>7 DEF UnlockWriter
  <2>2. QED
    BY <2>1, LockMoves DEF LockIInv, Abstract!UnlockWriter
<1>8. CASE UNCHANGED lockVars
  BY <1>8 DEF lockVars, Readers, Writers
<1>9. QED
  BY <1>1, <1>2, <1>3, <1>4, <1>5, <1>6, <1>7, <1>8 DEF LockNext, Abstract!Next

\* The counters, the condition variable and the kept mutex implement a
\* reader/writer lock.
THEOREM LockIsShared == LockSpec => ImplementsSharedLock
<1>1. QED
  BY InitImplements, StepImplements, LockInvariant, PTL
  DEF LockSpec, ImplementsSharedLock, Abstract!Spec
==============================================================================
