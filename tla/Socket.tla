------------------------------- MODULE Socket -------------------------------
(***************************************************************************)
(* The connected socket of a session (dap/socket.cpp, Socket::Shared) as   *)
(* its threads use it: the receiver reads until a read gives nothing and   *)
(* then closes it (ContentReader::badHeader, kClose); the sender, whichever*)
(* thread holds SessionImpl::sendMutex, tests it and writes a message in   *)
(* two parts; ~SessionImpl closes it twice, as reader and as writer.       *)
(* Every operation takes the lock of module RWMutex, through its           *)
(* specification SharedLock: for reading, which matters where a thread     *)
(* blocks in recv or send, or for writing, which waits until no thread     *)
(* does.  The kernel's side is the descriptor and its pending error (the   *)
(* signal that a ::send on a dead connection raises is left out).          *)
(***************************************************************************)
EXTENDS Naturals

CONSTANTS
  Receiver, Sender, Destroyer,
  MaxSends     \* bound on the messages sent

Users == {Receiver, Sender, Destroyer}

ASSUME RolesAssumption ==
  Receiver # Destroyer /\ Receiver # Sender /\ Destroyer # Sender
ASSUME MaxSendsAssumption == MaxSends \in Nat

VARIABLES
  s,          \* "open" or "invalid": Shared::s holds the descriptor or InvalidSocket
  descriptor, \* "open" or "closed" in the kernel
  shut,       \* ::shutdown was called
  error,      \* SO_ERROR is pending
  peer,       \* "here", "left", "reset"
  doing,         \* what each thread is doing
  sends,
  closings,   \* close() calls the destroyer has before it
  errorSeen   \* isOpen has found an error

socketVars == <<s, descriptor, shut, error, peer, doing, sends, closings, errorSeen>>
kernelVars == <<descriptor, shut, error, peer>>

SocketInit ==
  /\ s = "open" /\ descriptor = "open"
  /\ shut = FALSE /\ error = FALSE /\ peer = "here"
  /\ doing = [t \in Users |-> "idle"]
  /\ sends = 0
  /\ closings = 2
  /\ errorSeen = FALSE

Does(t, from, to) == doing[t] = from /\ doing' = [doing EXCEPT ![t] = to]

\* The threads that hold the lock for reading for as long as a call blocks.
Blocking == {t \in Users : doing[t] \in {"receiving", "sending", "sendingRest"}}

-----------------------------------------------------------------------------
(* isOpen, read and write.                                                 *)

\* The receiver's next turn, or one more message.
Uses(t) ==
  \/ t = Receiver /\ UNCHANGED sends
  \/ t = Sender /\ sends < MaxSends /\ sends' = sends + 1

\* Mutant: the answer of an earlier call.
IsOpenStale(t) ==
  /\ Uses(t)
  /\ Does(t, "idle", "ready")
  /\ UNCHANGED <<s, kernelVars, closings, errorSeen>>

\* isOpen under the read lock.  errored() takes the pending error away.
IsOpen(t) ==
  /\ Uses(t)
  /\ Does(t, "idle", IF s = "open" /\ ~error THEN "ready" ELSE "invalidating")
  /\ errorSeen' = (errorSeen \/ (s = "open" /\ error))
  /\ error' = IF s = "open" THEN FALSE ELSE error
  /\ UNCHANGED <<s, descriptor, shut, peer, closings>>

\* isOpen under the write lock.  The receiver's loop ends with it.
Invalidate(t) ==
  /\ Does(t, "invalidating", IF t = Receiver THEN "ended" ELSE "idle")
  /\ Blocking = {}
  /\ s' = "invalid"
  /\ UNCHANGED <<kernelVars, sends, closings, errorSeen>>

\* read: an invalid socket gives nothing, else the thread is in recv.
Read ==
  /\ Does(Receiver, "ready", IF s = "open" THEN "receiving" ELSE "empty")
  /\ UNCHANGED <<s, kernelVars, sends, closings, errorSeen>>

\* recv returns: nothing for an error, which it takes away, for a shutdown and
\* for the end of the stream; data for a peer that sends.
Received ==
  /\ \/ Does(Receiver, "receiving", "empty") /\ (error \/ shut \/ peer # "here")
     \/ Does(Receiver, "receiving", "idle") /\ ~error /\ ~shut /\ peer = "here"
  /\ error' = FALSE
  /\ UNCHANGED <<s, descriptor, shut, peer, sends, closings, errorSeen>>

\* write of the header and then of the body: an invalid socket takes nothing,
\* which is the end of the message, else the thread is in ::send.
Write ==
  /\ \/ Does(Sender, "ready", IF s = "open" THEN "sending" ELSE "idle")
     \/ Does(Sender, "half", IF s = "open" THEN "sendingRest" ELSE "idle")
  /\ UNCHANGED <<s, kernelVars, sends, closings, errorSeen>>

\* ::send returns, with or without success; while the peer is there it may
\* take as long as the peer does not read.
Written ==
  /\ \/ Does(Sender, "sending", "half") /\ ~error /\ ~shut
     \/ Does(Sender, "sending", "idle") /\ (error \/ shut \/ peer # "here")
     \/ Does(Sender, "sendingRest", "idle")
  /\ error' = FALSE
  /\ UNCHANGED <<s, descriptor, shut, peer, sends, closings, errorSeen>>

-----------------------------------------------------------------------------
(* close.                                                                  *)

\* Mutants: recv is not woken; the socket is forgotten before it is closed.
ShutdownNot(t) ==
  /\ \/ t = Receiver /\ Does(t, "empty", "closing") /\ UNCHANGED closings
     \/ t = Destroyer /\ closings > 0 /\ Does(t, "idle", "closing")
                      /\ closings' = closings - 1
  /\ UNCHANGED <<s, kernelVars, sends, errorSeen>>
ShutdownForgets(t) ==
  /\ \/ t = Receiver /\ Does(t, "empty", "closing") /\ UNCHANGED closings
     \/ t = Destroyer /\ closings > 0 /\ Does(t, "idle", "closing")
                      /\ closings' = closings - 1
  /\ shut' = (shut \/ s = "open")
  /\ s' = "invalid"
  /\ UNCHANGED <<descriptor, error, peer, sends, errorSeen>>

\* The first part of close, under the read lock.
Shutdown(t) ==
  /\ \/ t = Receiver /\ Does(t, "empty", "closing") /\ UNCHANGED closings
     \/ t = Destroyer /\ closings > 0 /\ Does(t, "idle", "closing")
                      /\ closings' = closings - 1
  /\ shut' = (shut \/ s = "open")
  /\ UNCHANGED <<s, descriptor, error, peer, sends, errorSeen>>

\* Mutant: the descriptor is closed beside a blocked recv, as the comment on
\* other systems says.
CloseSocketUnlocked(t) ==
  /\ Does(t, "closing", "idle")
  /\ IF s = "open" THEN descriptor' = "closed" ELSE UNCHANGED descriptor
  /\ s' = "invalid"
  /\ UNCHANGED <<shut, error, peer, sends, closings, errorSeen>>

\* The second part, under the write lock.
CloseSocket(t) ==
  /\ Does(t, "closing", "idle")
  /\ Blocking = {}
  /\ IF s = "open" THEN descriptor' = "closed" ELSE UNCHANGED descriptor
  /\ s' = "invalid"
  /\ UNCHANGED <<shut, error, peer, sends, closings, errorSeen>>

-----------------------------------------------------------------------------
(* The peer.                                                               *)

PeerLeaves ==
  /\ peer = "here"
  /\ peer' = "left"
  /\ UNCHANGED <<s, descriptor, shut, error, doing, sends, closings, errorSeen>>

PeerResets ==
  /\ peer # "reset" /\ descriptor = "open"
  /\ peer' = "reset"
  /\ error' = TRUE
  /\ UNCHANGED <<s, descriptor, shut, doing, sends, closings, errorSeen>>

SocketNext ==
  \/ \E t \in Users : IsOpen(t) \/ Invalidate(t) \/ Shutdown(t) \/ CloseSocket(t)
  \/ Read \/ Received \/ Write \/ Written
  \/ PeerLeaves \/ PeerResets

\* Threads run and calls return, but recv and ::send only when the peer, a
\* shutdown or an error lets them.  Nothing makes a sender send or a session
\* end.
Interrupted == error \/ shut \/ peer # "here"
SocketFairness ==
  /\ WF_socketVars(IsOpen(Receiver)) /\ WF_socketVars(Read)
  /\ WF_socketVars(Interrupted /\ Received)
  /\ WF_socketVars(closings < 2 /\ Shutdown(Destroyer)) /\ WF_socketVars(Shutdown(Receiver))
  /\ \A t \in Users : WF_socketVars(Invalidate(t)) /\ WF_socketVars(CloseSocket(t))
  /\ WF_socketVars(Write) /\ WF_socketVars(Interrupted /\ Written)

SocketSpec == SocketInit /\ [][SocketNext]_socketVars /\ SocketFairness

-----------------------------------------------------------------------------
(* Properties.                                                             *)

\* Type correctness; a receiver that has ended left an invalid socket.
SocketTypeOK ==
  /\ s \in {"open", "invalid"} /\ descriptor \in {"open", "closed"}
  /\ shut \in BOOLEAN /\ error \in BOOLEAN /\ errorSeen \in BOOLEAN
  /\ peer \in {"here", "left", "reset"}
  /\ doing \in [Users -> {"idle", "ready", "invalidating", "receiving", "sending",
                         "half", "sendingRest", "empty", "closing", "ended"}]
  /\ sends \in 0 .. MaxSends
  /\ closings \in 0 .. 2
  /\ doing[Receiver] = "ended" => s = "invalid"

\* No thread is in recv or ::send on a descriptor that was closed, whose number
\* another connection may have by now.
NoUseAfterClose == Blocking # {} => descriptor = "open"

\* The socket never keeps a closed descriptor, so none is closed twice.
NeverClosedTwice == s = "open" => descriptor = "open"

\* A descriptor is lost, given up without being closed, only if isOpen met an
\* error on it.
LostByErrorOnly == s = "invalid" /\ descriptor = "open" => errorSeen

\* close() comes to its end although it waits for the threads in recv and
\* ::send, and although a peer that is silent keeps them there.
CloseEnds == (closings < 2) ~> (closings = 0 /\ doing[Destroyer] = "idle")

\* The receiver leaves its loop once the session is being destroyed.
ReceiverEnds == (closings < 2) ~> (doing[Receiver] = "ended")

==============================================================================
