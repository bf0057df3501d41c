------------------------- MODULE DebugSessionProofs -------------------------
(***************************************************************************)
(* Proofs about DebugSession, for any commands and any number of requests. *)
(* The invariant says where a request may be between the client and its    *)
(* answer, in which order, and what is left of a handler at each of its    *)
(* steps.                                                                  *)
(***************************************************************************)
EXTENDS DebugSession, TLAPS

USE CommandsAssumption, MaxRequestsAssumption

-----------------------------------------------------------------------------
(* What is left of a handler.                                              *)

Works ==
  {<<>>, <<"reply", "initializeSent">>, <<"initializeSent">>, <<"reply">>,
   <<"session", "reply">>, <<"stopped", "reply">>, <<"session", "stopped", "reply">>,
   <<"session", "terminated", "fire", "reply">>, <<"stopped", "terminated", "fire", "reply">>,
   <<"terminated", "fire", "reply">>, <<"fire", "reply">>,
   <<"stopped", "output", "reply">>, <<"store", "output", "reply">>, <<"output", "reply">>,
   <<"configure", "reply">>}

Pending(w) == \E i \in 1..Len(w) : w[i] = "reply"

\* The next step leaves what is left of another handler; there is one reply,
\* and terminate is fired right before it.
LEMMA WorkAdvances ==
  ASSUME NEW w \in Works, w # <<>>
  PROVE  /\ Tail(w) \in Works /\ (Len(w) = 1 <=> Tail(w) = <<>>)
         /\ Head(w) # "reply" => (Pending(Tail(w)) <=> Pending(w))
         /\ Head(w) = "reply" => Pending(w) /\ ~Pending(Tail(w))
         /\ Head(w) = "fire" => Tail(w) = <<"reply">>
         /\ w # <<"initializeSent">> => Pending(w)
<1>1. CASE w = <<"reply", "initializeSent">>
  BY <1>1 DEF Works, Pending
<1>2. CASE w = <<"initializeSent">>
  BY <1>2 DEF Works, Pending
<1>3. CASE w = <<"reply">>
  BY <1>3 DEF Works, Pending
<1>4. CASE w = <<"session", "reply">>
  BY <1>4 DEF Works, Pending
<1>5. CASE w = <<"stopped", "reply">>
  BY <1>5 DEF Works, Pending
<1>6. CASE w = <<"session", "stopped", "reply">>
  BY <1>6 DEF Works, Pending
<1>7. CASE w = <<"session", "terminated", "fire", "reply">>
  BY <1>7 DEF Works, Pending
<1>8. CASE w = <<"stopped", "terminated", "fire", "reply">>
  BY <1>8 DEF Works, Pending
<1>9. CASE w = <<"terminated", "fire", "reply">>
  BY <1>9 DEF Works, Pending
<1>10. CASE w = <<"fire", "reply">>
  BY <1>10 DEF Works, Pending
<1>11. CASE w = <<"stopped", "output", "reply">>
  BY <1>11 DEF Works, Pending
<1>12. CASE w = <<"store", "output", "reply">>
  BY <1>12 DEF Works, Pending
<1>13. CASE w = <<"output", "reply">>
  BY <1>13 DEF Works, Pending
<1>14. CASE w = <<"configure", "reply">>
  BY <1>14 DEF Works, Pending
<1>15. QED
  BY <1>1, <1>2, <1>3, <1>4, <1>5, <1>6, <1>7, <1>8, <1>9, <1>10, <1>11, <1>12, <1>13, <1>14 DEF Works

\* The commands are those of the handlers.
LEMMA CommandsListed ==
  AllCommands \subseteq
    {"initialize", "evaluate", "threads", "stackTrace", "disassemble", "scopes", "variables",
     "pause", "continue", "next", "stepIn", "stepOut", "setBreakpoints",
     "setExceptionBreakpoints", "source", "launch", "disconnect", "configurationDone"}
BY DEF AllCommands, Registrations

\* No handler is registered for a garbled message.
LEMMA NamesAreNotNone == \A i \in 1..19 : Registrations[i] # "none"
BY DEF Registrations

\* A handler has something to do, and a reply among it.
LEMMA HandlerWorks ==
  ASSUME NEW command \in AllCommands, NEW outcome \in Outcomes
  PROVE  Handler(command, outcome) \in Works \ {<<>>} /\ Pending(Handler(command, outcome))
<1>1. Handler(command, outcome) \in Works \ {<<>>, <<"initializeSent">>}
  <2>1. CASE command = "continue"
    BY <2>1 DEF Handler, Steps, Works, Outcomes
  <2>2. CASE command = "next"
    BY <2>2 DEF Handler, Steps, Works, Outcomes
  <2>3. CASE command \notin {"continue", "next"}
    BY <2>3, CommandsListed DEF Handler, Works
  <2>4. QED
    BY <2>1, <2>2, <2>3
<1>2. QED
  BY <1>1, WorkAdvances

-----------------------------------------------------------------------------
(* Sequences of requests and messages.                                     *)

Below(S, T) == \A x \in S, y \in T : x < y
Ordered(q) == \A i, j \in 1..Len(q) : i < j => q[i].seq < q[j].seq

\* What an element added at the end of a sequence adds to its numbers.
LEMMA SeqsAppend ==
  ASSUME NEW S, NEW q \in Seq(S), NEW r \in S
  PROVE  /\ Append(q, r) \in Seq(S)
         /\ Seqs(Append(q, r)) = Seqs(q) \cup {r.seq}
         /\ Ordered(q) /\ Below(Seqs(q), {r.seq}) => Ordered(Append(q, r))
<1>1. /\ Append(q, r) \in Seq(S) /\ Len(Append(q, r)) = Len(q) + 1 /\ Len(q) \in Nat
      /\ \A i \in 1..Len(q) : Append(q, r)[i] = q[i]
      /\ Append(q, r)[Len(q) + 1] = r
  OBVIOUS
<1>2. Seqs(Append(q, r)) = Seqs(q) \cup {r.seq}
  BY <1>1 DEF Seqs
<1>3. ASSUME Ordered(q), Below(Seqs(q), {r.seq}) PROVE Ordered(Append(q, r))
  <2>1. \A i \in 1..Len(q) : q[i].seq < r.seq
    BY <1>3 DEF Below, Seqs
  <2>2. QED
    BY <1>1, <1>3, <2>1 DEF Ordered
<1>4. QED
  BY <1>1, <1>2, <1>3

\* What is left of a sequence when its first element is taken.
LEMMA SeqsTail ==
  ASSUME NEW S, NEW q \in Seq(S), q # <<>>
  PROVE  /\ Head(q) \in S /\ Tail(q) \in Seq(S)
         /\ Seqs(q) = Seqs(Tail(q)) \cup {Head(q).seq}
         /\ Ordered(q) => Ordered(Tail(q)) /\ Below({Head(q).seq}, Seqs(Tail(q)))
<1>1. /\ Tail(q) \in Seq(S) /\ Len(Tail(q)) = Len(q) - 1 /\ Len(q) \in Nat \ {0}
      /\ \A i \in 1..(Len(q) - 1) : Tail(q)[i] = q[i + 1]
      /\ Head(q) = q[1] /\ Head(q) \in S
  OBVIOUS
<1>2. Seqs(q) = Seqs(Tail(q)) \cup {Head(q).seq}
  <2>1. \A i \in 1..Len(q) : i = 1 \/ (i - 1 \in 1..Len(Tail(q)) /\ Tail(q)[i - 1] = q[i])
    BY <1>1
  <2>2. ASSUME NEW i \in 1..Len(q) PROVE q[i].seq \in Seqs(Tail(q)) \cup {Head(q).seq}
    <3>1. CASE i = 1
      BY <1>1, <3>1
    <3>2. CASE i # 1
      BY <2>1, <3>2 DEF Seqs
    <3>3. QED
      BY <3>1, <3>2
  <2>3. \A i \in 1..Len(Tail(q)) : i + 1 \in 1..Len(q) /\ Tail(q)[i] = q[i + 1]
    BY <1>1
  <2>4. Seqs(Tail(q)) \cup {Head(q).seq} \subseteq Seqs(q)
    BY <1>1, <2>3 DEF Seqs
  <2>5. QED
    BY <2>2, <2>4 DEF Seqs
<1>3. ASSUME Ordered(q) PROVE Ordered(Tail(q)) /\ Below({Head(q).seq}, Seqs(Tail(q)))
  BY <1>1, <1>3 DEF Ordered, Below, Seqs
<1>4. QED
  BY <1>1, <1>2, <1>3

-----------------------------------------------------------------------------
(* The inductive invariant.                                                *)

\* The request whose handler runs.
Cur == IF dispatcher = "running" THEN {current.seq} ELSE {}

WorkKnown ==
  /\ work \in Works
  /\ dispatcher = "running" => current \in Accepted
  /\ main = "registering" => registered < Len(Registrations)

\* Whoever is further on its way was sent earlier.
InOrder ==
  /\ Ordered(wire) /\ Ordered(inbox)
  /\ Below(Seqs(inbox), Seqs(wire))
  /\ Below(Cur, Seqs(inbox) \cup Seqs(wire))
  /\ Below(Answered, InService \cup Seqs(inbox) \cup Seqs(wire))
  /\ Seqs(wire) \cup Seqs(inbox) \cup Cur \cup Answered \subseteq 1..sent
  /\ AnswersInOrder

\* The requests the receiver could not read.
Rejected == {r.seq : r \in rejected}

Accounted ==
  /\ 1..sent = Seqs(wire) \cup Seqs(inbox) \cup InService \cup Answered
                 \cup unhandled \cup Rejected \cup unsent
  /\ unhandled \cap unsent = {} /\ Rejected \cap (unhandled \cup unsent) = {}
  /\ (unhandled \cup Rejected \cup unsent)
       \cap (Seqs(wire) \cup Seqs(inbox) \cup InService \cup Answered) = {}
  /\ \A r \in rejected : r.form # "good"

\* The session thread goes only after terminate was fired, and the handler that
\* fired it has nothing left but its reply.
Fired ==
  /\ terminate <=> firedBy # 0
  /\ main \in {"leaving", "returning", "destroying", "done"} => terminate
  /\ teardown # "alive" => main \in {"destroying", "done"}
  /\ firedBy <= sent /\ Below({firedBy}, Seqs(inbox) \cup Seqs(wire))
  /\ dispatcher = "running" =>
       firedBy <= current.seq /\ (firedBy = current.seq => work = <<"reply">>)
  /\ EndingIsTheLastUse

IInv == TypeOK /\ WorkKnown /\ InOrder /\ Accounted /\ Fired

\* Before the first request.
LEMMA InitIInv == Init => IInv
<1> SUFFICES ASSUME Init PROVE IInv
  OBVIOUS
<1>1. /\ wire = <<>> /\ inbox = <<>> /\ toClient = <<>> /\ work = <<>>
      /\ <<>> \in Seq(Request) /\ <<>> \in Seq(Accepted) /\ <<>> \in Seq(Message)
  BY DEF Init
<1>2. Len(Registrations) = 19
  BY DEF Registrations
<1>3. TypeOK
  <2>1. registered \in 0..Len(Registrations) /\ sent \in 0..MaxRequests /\ firedBy \in 0..MaxRequests
    BY <1>2 DEF Init
  <2>2. /\ current \in Accepted \cup {NoRequest}
        /\ unhandled \subseteq 1..MaxRequests /\ unsent \subseteq 1..MaxRequests
        /\ rejected = {}
        /\ (work = <<>>) <=> (dispatcher # "running")
    BY <1>1 DEF Init
  <2>3. QED
    BY <1>1, <2>1, <2>2 DEF Init, TypeOK
<1>4. WorkKnown
  BY <1>1, <1>2 DEF Init, WorkKnown, Works
<1>5. /\ Seqs(wire) = {} /\ Seqs(inbox) = {} /\ InService = {} /\ Answered = {} /\ Cur = {}
      /\ Ordered(wire) /\ Ordered(inbox) /\ AnswersInOrder
  BY <1>1 DEF Init, Seqs, InService, ReplyPending, Answered, Cur, Ordered, AnswersInOrder
<1>6. InOrder /\ Accounted
  BY <1>5 DEF Init, InOrder, Accounted, Rejected, Below
<1>7. Fired
  BY <1>5 DEF Init, Fired, Below, EndingIsTheLastUse
<1>8. QED
  BY <1>3, <1>4, <1>6, <1>7 DEF IInv

-----------------------------------------------------------------------------
(* What steps have in common.                                              *)

EventNames == {"stopped", "terminated", "output", "initialized", "thread"}

\* A message sent is one more that reached the client, or none.
LEMMA Told ==
  ASSUME TypeOK, NEW message \in Message, Send(message)
  PROVE  /\ toClient' \in Seq(Message)
         /\ Reaches => toClient' = Append(toClient, message)
         /\ ~Reaches => toClient' = toClient
BY DEF TypeOK, Send

\* An event answers nothing.
LEMMA EventTold ==
  ASSUME TypeOK, AnswersInOrder, NEW name \in EventNames, Send(Event(name))
  PROVE  toClient' \in Seq(Message) /\ Answered' = Answered /\ AnswersInOrder'
<1> DEFINE message == Event(name)
<1>1. message \in Message /\ message.seq = 0 /\ message.kind = "event"
  BY DEF Event, Message, EventNames
<1> HIDE DEF message
<1>2. toClient \in Seq(Message)
  BY DEF TypeOK
<1>3. CASE toClient' = toClient
  BY <1>2, <1>3 DEF Answered, AnswersInOrder
<1>4. CASE toClient' = Append(toClient, message)
  <2>1. Answered' = Answered
    <3>1. Seqs(Append(toClient, message)) = Seqs(toClient) \cup {message.seq}
      BY <1>1, <1>2, SeqsAppend
    <3>2. Seqs(toClient') = Seqs(toClient) \cup {0}
      BY <1>1, <1>4, <3>1
    <3>3. QED
      BY <3>2 DEF Answered
  <2>2. /\ Len(toClient') = Len(toClient) + 1 /\ Len(toClient) \in Nat
        /\ \A i \in 1..Len(toClient) : toClient'[i] = toClient[i]
        /\ toClient'[Len(toClient')] = message
    BY <1>1, <1>2, <1>4
  <2>3. AnswersInOrder'
    BY <1>1, <2>2 DEF AnswersInOrder
  <2>4. toClient' \in Seq(Message)
    BY <1>1, <1>2, <1>4
  <2>5. QED
    BY <2>1, <2>3, <2>4
<1>5. QED
  BY <1>1, <1>3, <1>4, Told DEF message

\* A step that moves no request keeps them in order and accounted for.
LEMMA QuietFrame ==
  ASSUME IInv, UNCHANGED <<wire, inbox, sent, unhandled, rejected, unsent>>,
         Answered' = Answered, AnswersInOrder', Cur' \subseteq Cur, InService' = InService
  PROVE  InOrder' /\ Accounted'
<1>1. InOrder'
  BY DEF IInv, InOrder, Below, Ordered, Seqs
<1>2. Accounted'
  <2>1. Seqs(wire)' = Seqs(wire) /\ Seqs(inbox)' = Seqs(inbox) /\ Rejected' = Rejected
    BY DEF Seqs, Rejected
  <2>2. QED
    BY <2>1 DEF IInv, Accounted
<1>3. QED
  BY <1>1, <1>2

\* One step of the running handler is over.
LEMMA Advanced ==
  ASSUME IInv, dispatcher = "running", Advance
  PROVE  /\ work' \in Works /\ work' = Tail(work) /\ work # <<>>
         /\ dispatcher' \in {"idle", "running"} /\ (work' = <<>> <=> dispatcher' # "running")
         /\ current \in Accepted /\ current' \in Accepted \cup {NoRequest}
         /\ dispatcher' = "running" => current' = current
         /\ Cur = {current.seq} /\ Cur' \subseteq Cur
         /\ Head(work) # "reply" => InService' = InService
         /\ Head(work) = "reply" => InService = {current.seq} /\ InService' = {}
<1>1. work \in Works /\ work # <<>> /\ current \in Accepted
  BY DEF IInv, TypeOK, WorkKnown
<1>2. /\ Tail(work) \in Works /\ (Len(work) = 1 <=> Tail(work) = <<>>)
      /\ Head(work) # "reply" => (Pending(Tail(work)) <=> Pending(work))
      /\ Head(work) = "reply" => Pending(work) /\ ~Pending(Tail(work))
  BY <1>1, WorkAdvances
<1>3. /\ work' = Tail(work)
      /\ dispatcher' = (IF Len(work) = 1 THEN "idle" ELSE "running")
      /\ current' = (IF Len(work) = 1 THEN NoRequest ELSE current)
  BY DEF Advance
<1>4. ~Pending(<<>>)
  BY DEF Pending
<1>5. /\ ReplyPending <=> Pending(work)
      /\ ReplyPending' <=> Pending(Tail(work))
  BY <1>3 DEF ReplyPending, Pending
<1>6. Head(work) # "reply" => InService' = InService
  BY <1>2, <1>3, <1>4, <1>5 DEF InService
<1>7. Head(work) = "reply" => InService = {current.seq} /\ InService' = {}
  BY <1>2, <1>5 DEF InService
<1>8. Cur = {current.seq} /\ Cur' \subseteq Cur
  BY <1>3 DEF Cur
<1>9. QED
  BY <1>1, <1>2, <1>3, <1>6, <1>7, <1>8

\* A step that leaves the dispatcher alone moves no request.
LEMMA StillFrame ==
  ASSUME IInv, UNCHANGED <<wire, inbox, sent, unhandled, rejected, unsent, work, current>>,
         dispatcher' = dispatcher \/ (dispatcher = "idle" /\ dispatcher' = "ended"),
         Answered' = Answered, AnswersInOrder'
  PROVE  InOrder' /\ Accounted'
<1>1. Cur' \subseteq Cur /\ InService' = InService
  BY DEF Cur, InService, ReplyPending
<1>2. QED
  BY <1>1, QuietFrame

\* The same messages are in the same order.
LEMMA SameMessages ==
  ASSUME IInv, toClient' = toClient PROVE Answered' = Answered /\ AnswersInOrder'
BY DEF IInv, InOrder, Answered, AnswersInOrder, Seqs

-----------------------------------------------------------------------------
(* The inductive invariant, action by action.                              *)

\* What changes neither the requests nor the session thread.
LEMMA OthersIInv ==
  ASSUME IInv, ~undefined,
         \/ ClientCloses \/ ReceiverEnds \/ DispatcherEnds \/ Evict
         \/ CloseInbox \/ CloseSocket \/ UsesDeadFrame
  PROVE  IInv'
<1>1. /\ TypeOK
      /\ UNCHANGED <<sent, wire, toClient, registered, main, configured, terminate, inbox, current,
                     work, unhandled, rejected, unsent, firedBy>>
      /\ clientOpen' \in BOOLEAN /\ socketOpen' \in BOOLEAN /\ inboxClosed' \in BOOLEAN
      /\ stored' \in BOOLEAN /\ receiver' \in {"reading", "ended"} /\ undefined' \in BOOLEAN
      /\ dispatcher' = dispatcher \/ (dispatcher = "idle" /\ dispatcher' = "ended")
      /\ teardown' \in {"alive", "inboxClosed", "socketClosed", "gone"}
      /\ teardown' # "alive" => teardown # "alive" \/ main \in {"destroying", "done"}
      /\ undefined' => UsesDeadFrame
  <2>0. TypeOK
    BY DEF IInv
  <2>1. CASE ClientCloses
    BY <2>0, <2>1 DEF TypeOK, ClientCloses, clientVars, inboxVars, dispatchVars, ghostVars
  <2>2. CASE ReceiverEnds
    BY <2>0, <2>2 DEF TypeOK, ReceiverEnds, clientVars, inboxVars, dispatchVars, ghostVars
  <2>3. CASE DispatcherEnds
    BY <2>0, <2>3 DEF TypeOK, DispatcherEnds, clientVars, inboxVars, dispatchVars, ghostVars
  <2>4. CASE Evict
    BY <2>0, <2>4 DEF TypeOK, Evict, clientVars, inboxVars, dispatchVars, ghostVars
  <2>5. CASE CloseInbox
    BY <2>0, <2>5 DEF TypeOK, CloseInbox, Unreferenced, clientVars, inboxVars, dispatchVars, ghostVars
  <2>6. CASE CloseSocket
    BY <2>0, <2>6 DEF TypeOK, CloseSocket, clientVars, inboxVars, dispatchVars, ghostVars
  <2>7. CASE UsesDeadFrame
    BY <2>0, <2>7 DEF TypeOK, UsesDeadFrame, clientVars, inboxVars, dispatchVars, ghostVars
  <2>8. QED
    BY <2>1, <2>2, <2>3, <2>4, <2>5, <2>6, <2>7
<1>2. TypeOK'
  BY <1>1 DEF TypeOK
<1>3. WorkKnown'
  BY <1>1 DEF IInv, WorkKnown
<1>4. InOrder' /\ Accounted'
  BY <1>1, SameMessages, StillFrame
<1>5. EndingIsTheLastUse'
  <2>1. CASE ~UsesDeadFrame
    BY <1>1, <2>1 DEF EndingIsTheLastUse
  <2>2. CASE UsesDeadFrame
    <3>1. /\ dispatcher = "running" /\ Head(work) # "reply" /\ main \in {"destroying", "done"}
      BY <2>2 DEF UsesDeadFrame, UsesDead, FrameAlive
    <3>2. firedBy # 0 /\ firedBy <= current.seq /\ (firedBy = current.seq => work = <<"reply">>)
      BY <3>1 DEF IInv, Fired
    <3>3. firedBy # current.seq
      BY <3>1, <3>2
    <3>4. firedBy \in Nat /\ current.seq \in Nat
      BY <1>1, <3>1 DEF TypeOK, IInv, WorkKnown, Accepted
    <3>5. QED
      BY <1>1, <3>2, <3>3, <3>4 DEF EndingIsTheLastUse
  <2>3. QED
    BY <2>1, <2>2
<1>6. Fired'
  BY <1>1, <1>5 DEF IInv, Fired, Below, Seqs
<1>7. QED
  BY <1>2, <1>3, <1>4, <1>6 DEF IInv

\* The session thread ends only after terminate was fired.
LEMMA SessionThreadIInv ==
  ASSUME IInv, ~undefined, Register \/ Proceed \/ Return \/ JoinThreads PROVE IInv'
<1>1. /\ TypeOK
      /\ UNCHANGED <<sent, wire, clientOpen, socketOpen, configured, terminate, receiver, inbox,
                     inboxClosed, dispatcher, current, work, stored, unhandled, rejected, unsent, firedBy,
                     undefined>>
      /\ \/ toClient' = toClient
         \/ \E name \in EventNames : Send(Event(name))
      /\ main' \in {"registering", "configuring", "starting", "pausing", "waiting",
                    "leaving", "returning", "destroying", "done"}
      /\ teardown' \in {"alive", "inboxClosed", "socketClosed", "gone"}
  BY DEF IInv, TypeOK, Register, Proceed, Return, JoinThreads, EventNames,
         clientVars, inboxVars, dispatchVars, ghostVars
<1>2. Len(Registrations) = 19
  BY DEF Registrations
<1>3. /\ registered' \in 0..Len(Registrations)
      /\ main' = "registering" => registered' < Len(Registrations)
  <2>1. CASE Register
    BY <1>1, <1>2, <2>1 DEF IInv, WorkKnown, Register, AllRegistered, TypeOK
  <2>2. CASE Proceed \/ Return \/ JoinThreads
    BY <1>1, <2>2 DEF IInv, WorkKnown, Proceed, Return, JoinThreads, TypeOK
  <2>3. QED
    BY <2>1, <2>2
<1>4. toClient' \in Seq(Message) /\ Answered' = Answered /\ AnswersInOrder'
  <2>1. CASE toClient' = toClient
    BY <1>1, <2>1, SameMessages DEF TypeOK
  <2>2. CASE \E name \in EventNames : Send(Event(name))
    BY <1>1, <2>2, EventTold DEF IInv, InOrder
  <2>3. QED
    BY <1>1, <2>1, <2>2
<1>5. TypeOK'
  BY <1>1, <1>3, <1>4 DEF TypeOK
<1>6. WorkKnown'
  BY <1>1, <1>3 DEF IInv, WorkKnown
<1>7. InOrder' /\ Accounted'
  BY <1>1, <1>4, StillFrame
<1>8. /\ main' \in {"leaving", "returning", "destroying", "done"} => terminate'
      /\ teardown' # "alive" => main' \in {"destroying", "done"}
  <2>1. CASE Register
    BY <2>1 DEF Register, AllRegistered, IInv, Fired
  <2>2. CASE Proceed
    BY <1>1, <2>2 DEF Proceed, IInv, Fired
  <2>3. CASE Return
    BY <1>1, <2>3 DEF Return, IInv, Fired
  <2>4. CASE JoinThreads
    BY <1>1, <2>4 DEF JoinThreads, IInv, Fired
  <2>5. QED
    BY <2>1, <2>2, <2>3, <2>4
<1>9. Fired'
  BY <1>1, <1>8 DEF IInv, Fired, Below, Seqs, EndingIsTheLastUse
<1>10. QED
  BY <1>5, <1>6, <1>7, <1>9 DEF IInv

\* A step of a handler that is not its reply.
LEMMA HandlerIInv ==
  ASSUME IInv, ~undefined,
         HandlerEvent \/ InitializeSent \/ FireConfigured \/ FireTerminate \/ Store
  PROVE  IInv'
<1>1. /\ TypeOK /\ dispatcher = "running" /\ Head(work) # "reply" /\ Advance
      /\ UNCHANGED <<sent, clientOpen, wire, socketOpen, registered, main, receiver, inbox,
                     inboxClosed, teardown, unhandled, rejected, unsent, undefined>>
      /\ configured' \in BOOLEAN /\ stored' \in BOOLEAN
      /\ \/ toClient' = toClient
         \/ \E name \in EventNames : Send(Event(name))
      /\ IF Head(work) = "fire"
         THEN terminate' = TRUE /\ firedBy' = IF firedBy # 0 THEN firedBy ELSE current.seq
         ELSE UNCHANGED <<terminate, firedBy>>
  BY DEF IInv, TypeOK, HandlerEvent, InitializeSent, FireConfigured, FireTerminate, Store, Doing,
         EventNames, clientVars, inboxVars, ghostVars
<1>2. /\ work' \in Works /\ work' = Tail(work) /\ work # <<>>
      /\ dispatcher' \in {"idle", "running"} /\ (work' = <<>> <=> dispatcher' # "running")
      /\ current \in Accepted /\ current' \in Accepted \cup {NoRequest}
      /\ dispatcher' = "running" => current' = current
      /\ Cur = {current.seq} /\ Cur' \subseteq Cur
      /\ InService' = InService
  BY <1>1, Advanced
<1>3. toClient' \in Seq(Message) /\ Answered' = Answered /\ AnswersInOrder'
  <2>1. CASE toClient' = toClient
    BY <1>1, <2>1, SameMessages DEF TypeOK
  <2>2. CASE \E name \in EventNames : Send(Event(name))
    BY <1>1, <2>2, EventTold DEF IInv, InOrder
  <2>3. QED
    BY <1>1, <2>1, <2>2
<1>4. InOrder' /\ Accounted'
  BY <1>1, <1>2, <1>3, QuietFrame
<1>5. firedBy \in Nat /\ current.seq \in 1..MaxRequests /\ firedBy' \in 0..MaxRequests
  BY <1>1, <1>2 DEF TypeOK, Accepted
<1>6. TypeOK'
  <2>1. terminate' \in BOOLEAN
    BY <1>1 DEF TypeOK
  <2>2. QED
    BY <1>1, <1>2, <1>3, <1>5, <2>1 DEF TypeOK
<1>7. WorkKnown'
  BY <1>1, <1>2 DEF IInv, WorkKnown
<1>8. Fired'
  <2>1. current.seq <= sent /\ Below({current.seq}, Seqs(inbox) \cup Seqs(wire))
    BY <1>2 DEF IInv, InOrder, Cur
  <2>2. firedBy <= current.seq /\ (firedBy = current.seq => work = <<"reply">>)
    BY <1>1 DEF IInv, Fired
  <2>3. firedBy # current.seq
    BY <1>1, <2>2
  <2>4. CASE Head(work) = "fire"
    <3>1. work' = <<"reply">>
      BY <1>2, <2>4, WorkAdvances DEF IInv, WorkKnown
    <3>2. firedBy' <= sent /\ Below({firedBy'}, Seqs(inbox) \cup Seqs(wire)) /\ firedBy' # 0
      BY <1>1, <1>5, <2>1, <2>4 DEF IInv, Fired
    <3>3. firedBy' <= current.seq
      BY <1>1, <1>5, <2>2, <2>4
    <3>4. QED
      <4>1. terminate' /\ teardown' = teardown /\ main' = main /\ sent' = sent
        BY <1>1, <1>2, <2>4
      <4>2. EndingIsTheLastUse'
        BY <1>1, <1>2, <2>4 DEF IInv, Fired, EndingIsTheLastUse
      <4>3. Seqs(inbox)' = Seqs(inbox) /\ Seqs(wire)' = Seqs(wire)
        BY <1>1, <1>2 DEF Seqs
      <4>4. QED
        BY <1>1, <1>2, <3>1, <3>2, <3>3, <4>1, <4>2, <4>3 DEF IInv, Fired, Below
  <2>5. CASE Head(work) # "fire"
    BY <1>1, <1>2, <2>2, <2>3, <2>5 DEF IInv, Fired, Below, Seqs, EndingIsTheLastUse
  <2>6. QED
    BY <2>4, <2>5
<1>9. QED
  BY <1>4, <1>6, <1>7, <1>8 DEF IInv

\* What the invariant says of the places a request may be in.
LEMMA Places ==
  ASSUME IInv
  PROVE  /\ wire \in Seq(Request) /\ inbox \in Seq(Accepted) /\ sent \in Nat
         /\ Seqs(wire) \subseteq 1..sent /\ Seqs(inbox) \subseteq 1..sent
         /\ Cur \subseteq 1..sent /\ Answered \subseteq 1..sent /\ InService \subseteq Cur
         /\ unhandled \subseteq 1..sent /\ Rejected \subseteq 1..sent /\ unsent \subseteq 1..sent
         /\ firedBy \in Nat /\ firedBy <= sent
<1>1. ReplyPending => dispatcher = "running"
  BY DEF IInv, TypeOK, ReplyPending
<1>2. InService \subseteq Cur
  BY <1>1 DEF InService, Cur
<1>3. QED
  BY <1>2 DEF IInv, TypeOK, InOrder, Accounted, Fired

\* A new request is behind all others.
LEMMA ClientSendsIInv ==
  ASSUME IInv, ~undefined, NEW message \in Sendable, ClientSends(message) PROVE IInv'
<1> DEFINE request == Sent(message)
<1>1. /\ TypeOK /\ sent < MaxRequests /\ sent' = sent + 1
      /\ wire' = (IF socketOpen THEN Append(wire, request) ELSE wire)
      /\ unsent' = (IF socketOpen THEN unsent ELSE unsent \cup {sent + 1})
      /\ UNCHANGED <<clientOpen, toClient, socketOpen, registered, main, configured, terminate,
                     receiver, inbox, inboxClosed, dispatcher, current, work, stored, teardown,
                     unhandled, rejected, firedBy, undefined>>
  BY DEF IInv, ClientSends, inboxVars, dispatchVars
<1>2. request \in Request /\ request.seq = sent + 1
  BY <1>1, MisfitsAssumption DEF Request, Sent, Sendable, TypeOK
<1> HIDE DEF request
<1>3. /\ wire \in Seq(Request) /\ inbox \in Seq(Accepted) /\ sent \in Nat
      /\ Seqs(wire) \subseteq 1..sent /\ Seqs(inbox) \subseteq 1..sent
      /\ Cur \subseteq 1..sent /\ Answered \subseteq 1..sent /\ InService \subseteq Cur
      /\ unhandled \subseteq 1..sent /\ Rejected \subseteq 1..sent /\ unsent \subseteq 1..sent
      /\ firedBy \in Nat /\ firedBy <= sent
  BY Places
<1>4. /\ Cur' = Cur /\ Answered' = Answered /\ InService' = InService /\ Seqs(inbox)' = Seqs(inbox)
      /\ AnswersInOrder'
  BY <1>1, SameMessages DEF Cur, InService, ReplyPending, Seqs
<1>5. /\ wire' \in Seq(Request) /\ Ordered(wire)'
      /\ Seqs(wire)' = Seqs(wire) \cup (IF socketOpen THEN {sent + 1} ELSE {})
  <2>1. Below(Seqs(wire), {request.seq})
    BY <1>2, <1>3 DEF Below
  <2>2. CASE socketOpen
    <3>1. /\ Append(wire, request) \in Seq(Request) /\ Ordered(Append(wire, request))
          /\ Seqs(Append(wire, request)) = Seqs(wire) \cup {sent + 1}
      BY <1>2, <1>3, <2>1, SeqsAppend DEF IInv, InOrder
    <3>2. wire' = Append(wire, request)
      BY <1>1, <2>2
    <3>3. QED
      BY <2>2, <3>1, <3>2
  <2>3. CASE ~socketOpen
    BY <1>1, <1>3, <2>3 DEF IInv, InOrder, Ordered, Seqs
  <2>4. QED
    BY <2>2, <2>3
<1>6. TypeOK'
  <2>1. sent' \in 0..MaxRequests /\ unsent' \subseteq 1..MaxRequests
    BY <1>1 DEF TypeOK
  <2>2. QED
    BY <1>1, <1>5, <2>1 DEF TypeOK
<1>7. WorkKnown'
  BY <1>1 DEF IInv, WorkKnown
<1>8. InOrder'
  <2>1. Ordered(inbox)'
    BY <1>1 DEF IInv, InOrder, Ordered
  <2>2. /\ Below(Seqs(inbox), Seqs(wire)')
        /\ Below(Cur, Seqs(inbox) \cup Seqs(wire)')
        /\ Below(Answered, InService \cup Seqs(inbox) \cup Seqs(wire)')
    BY <1>3, <1>5 DEF IInv, InOrder, Below
  <2>3. Seqs(wire)' \cup Seqs(inbox) \cup Cur \cup Answered \subseteq 1..sent'
    <3>1. 1..sent \subseteq 1..(sent + 1) /\ sent + 1 \in 1..(sent + 1)
      BY <1>3
    <3>2. Seqs(wire)' \subseteq 1..(sent + 1)
      BY <1>3, <1>5, <3>1
    <3>3. Seqs(inbox) \cup Cur \cup Answered \subseteq 1..(sent + 1)
      BY <1>3, <3>1
    <3>4. QED
      BY <1>1, <3>2, <3>3
  <2>4. QED
    BY <1>4, <1>5, <2>1, <2>2, <2>3 DEF InOrder, Below
<1>9. Accounted'
  <2>1. 1..sent' = 1..sent \cup {sent + 1}
    BY <1>1, <1>3
  <2>2. sent + 1 \notin 1..sent
    BY <1>3
  <2>3. Seqs(wire)' \cup unsent' = Seqs(wire) \cup unsent \cup {sent + 1}
    BY <1>1, <1>5
  <2>4. 1..sent' = Seqs(wire)' \cup Seqs(inbox) \cup InService \cup Answered
                     \cup unhandled \cup Rejected \cup unsent'
    BY <2>1, <2>3 DEF IInv, Accounted
  <2>5. /\ unhandled \cap unsent' = {} /\ Rejected \cap (unhandled \cup unsent') = {}
        /\ (unhandled \cup Rejected \cup unsent')
             \cap (Seqs(wire)' \cup Seqs(inbox) \cup InService \cup Answered) = {}
    BY <1>1, <1>3, <1>5, <2>2 DEF IInv, Accounted
  <2>6. QED
    <3>1. Rejected' = Rejected
      BY <1>1 DEF Rejected
    <3>2. QED
      BY <1>1, <1>4, <2>4, <2>5, <3>1 DEF IInv, Accounted
<1>10. Fired'
  <2>1. firedBy <= sent' /\ Below({firedBy}, Seqs(inbox) \cup Seqs(wire)')
    BY <1>1, <1>3, <1>5 DEF IInv, Fired, Below
  <2>2. QED
    BY <1>1, <1>4, <2>1 DEF IInv, Fired, Below, EndingIsTheLastUse
<1>11. QED
  BY <1>6, <1>7, <1>8, <1>9, <1>10 DEF IInv

\* The oldest request on the wire becomes the youngest in the inbox, or is
\* forgotten.
LEMMA ReceiveIInv ==
  ASSUME IInv, ~undefined, Receive PROVE IInv'
<1>1. /\ TypeOK /\ wire # <<>> /\ wire' = Tail(wire)
      /\ \/ /\ Head(wire).form = "good" /\ Handles(Head(wire).command)
            /\ inbox' = Append(inbox, Head(wire)) /\ UNCHANGED <<unhandled, rejected>>
         \/ /\ unhandled' = unhandled \cup {Head(wire).seq}
            /\ UNCHANGED <<inbox, rejected>>
         \/ /\ Head(wire).form # "good"
            /\ rejected' = rejected \cup {[seq |-> Head(wire).seq, form |-> Head(wire).form]}
            /\ UNCHANGED <<inbox, unhandled>>
      /\ UNCHANGED <<sent, clientOpen, toClient, socketOpen, registered, main, configured, terminate,
                     receiver, inboxClosed, dispatcher, current, work, stored, teardown,
                     unsent, firedBy, undefined>>
  BY DEF IInv, Receive, Queue, clientVars, dispatchVars
<1>2. /\ wire \in Seq(Request) /\ inbox \in Seq(Accepted) /\ sent \in Nat
      /\ Seqs(wire) \subseteq 1..sent /\ Seqs(inbox) \subseteq 1..sent
      /\ Cur \subseteq 1..sent /\ Answered \subseteq 1..sent /\ InService \subseteq Cur
      /\ unhandled \subseteq 1..sent /\ Rejected \subseteq 1..sent /\ unsent \subseteq 1..sent
      /\ firedBy \in Nat /\ firedBy <= sent
  BY Places
<1>3. PICK n \in 1..sent : n = Head(wire).seq
  <2>1. wire # <<>> /\ wire \in Seq(Request) /\ Seqs(wire) \subseteq 1..sent
    BY <1>1, <1>2
  <2>2. Head(wire).seq \in Seqs(wire)
    BY <2>1, SeqsTail
  <2>3. QED
    BY <2>1, <2>2
<1>4. /\ wire' \in Seq(Request) /\ Seqs(wire) = Seqs(wire)' \cup {n}
      /\ Ordered(wire)' /\ Below({n}, Seqs(wire)') /\ Head(wire) \in Request
  <2>1. /\ Head(wire) \in Request /\ Tail(wire) \in Seq(Request)
        /\ Seqs(wire) = Seqs(Tail(wire)) \cup {n}
        /\ Ordered(Tail(wire)) /\ Below({n}, Seqs(Tail(wire)))
    BY <1>1, <1>2, <1>3, SeqsTail DEF IInv, InOrder
  <2>2. QED
    BY <1>1, <2>1
<1>5. /\ Cur' = Cur /\ Answered' = Answered /\ InService' = InService /\ AnswersInOrder'
  BY <1>1, SameMessages DEF Cur, InService, ReplyPending
<1>6. /\ inbox' \in Seq(Accepted) /\ Ordered(inbox)'
      /\ rejected' \subseteq [seq : 1..MaxRequests, form : {"good", "misfit", "garbled"}]
      /\ \A r \in rejected' : r.form # "good"
      /\ \/ /\ Seqs(inbox)' = Seqs(inbox) \cup {n}
            /\ unhandled' = unhandled /\ Rejected' = Rejected
         \/ /\ unhandled' = unhandled \cup {n}
            /\ Seqs(inbox)' = Seqs(inbox) /\ Rejected' = Rejected
         \/ /\ Rejected' = Rejected \cup {n}
            /\ Seqs(inbox)' = Seqs(inbox) /\ unhandled' = unhandled
  <2>0. /\ rejected \subseteq [seq : 1..MaxRequests, form : {"good", "misfit", "garbled"}]
        /\ \A r \in rejected : r.form # "good"
    BY DEF IInv, TypeOK, Accounted
  <2>1. CASE /\ Head(wire).form = "good" /\ Handles(Head(wire).command)
             /\ inbox' = Append(inbox, Head(wire)) /\ UNCHANGED <<unhandled, rejected>>
    <3>0. Head(wire) \in Accepted
      <4>1. Head(wire).command # "none"
        <5>1. PICK i \in 1..registered : Registrations[i] = Head(wire).command
          BY <2>1 DEF Handles
        <5>2. i \in 1..19
          <6>1. registered \in 0..Len(Registrations) /\ Len(Registrations) = 19
            BY <1>1 DEF TypeOK, Registrations
          <6>2. QED
            BY <5>1, <6>1
        <5>3. Registrations[i] # "none"
          BY <5>2, NamesAreNotNone
        <5>4. QED
          BY <5>1, <5>3
      <4>2. QED
        BY <1>4, <2>1, <4>1 DEF Request, Accepted
    <3>1. Below(Seqs(inbox), {Head(wire).seq})
      BY <1>3, <1>4 DEF IInv, InOrder, Below
    <3>2. /\ Append(inbox, Head(wire)) \in Seq(Accepted) /\ Ordered(Append(inbox, Head(wire)))
          /\ Seqs(Append(inbox, Head(wire))) = Seqs(inbox) \cup {n}
      BY <1>2, <1>3, <3>0, <3>1, SeqsAppend DEF IInv, InOrder
    <3>3. QED
      BY <2>0, <2>1, <3>2 DEF Rejected
  <2>2. CASE /\ unhandled' = unhandled \cup {Head(wire).seq}
             /\ UNCHANGED <<inbox, rejected>>
    BY <1>2, <1>3, <2>0, <2>2 DEF IInv, InOrder, Ordered, Seqs, Rejected
  <2>3. CASE /\ Head(wire).form # "good"
             /\ rejected' = rejected \cup {[seq |-> Head(wire).seq, form |-> Head(wire).form]}
             /\ UNCHANGED <<inbox, unhandled>>
    <3>1. Rejected' = Rejected \cup {n}
      <4>1. PICK r : r = [seq |-> Head(wire).seq, form |-> Head(wire).form]
        OBVIOUS
      <4>2. r.seq = n /\ rejected' = rejected \cup {r}
        BY <1>3, <2>3, <4>1
      <4>3. QED
        BY <4>2 DEF Rejected
    <3>2. [seq |-> Head(wire).seq, form |-> Head(wire).form]
            \in [seq : 1..MaxRequests, form : {"good", "misfit", "garbled"}]
      BY <1>4 DEF Request
    <3>3. QED
      BY <1>2, <2>0, <2>3, <3>1, <3>2 DEF IInv, InOrder, Ordered, Seqs
  <2>4. QED
    BY <1>1, <2>1, <2>2, <2>3
<1>7. TypeOK'
  <2>1. unhandled' \subseteq 1..MaxRequests
    <3>1. unhandled \subseteq 1..MaxRequests /\ sent \in 0..MaxRequests
      BY <1>1 DEF TypeOK
    <3>2. n \in 1..MaxRequests
      BY <1>3, <3>1
    <3>3. QED
      BY <1>6, <3>1, <3>2
  <2>2. QED
    BY <1>1, <1>4, <1>6, <2>1 DEF TypeOK
<1>8. WorkKnown'
  BY <1>1 DEF IInv, WorkKnown
<1>9. InOrder'
  <2>1. Below(Seqs(inbox) \cup {n}, Seqs(wire)')
    BY <1>4 DEF IInv, InOrder, Below
  <2>2. Seqs(inbox)' \cup Seqs(wire)' \subseteq Seqs(inbox) \cup Seqs(wire)
    BY <1>4, <1>6
  <2>3. /\ Below(Seqs(inbox)', Seqs(wire)') /\ Below(Cur, Seqs(inbox)' \cup Seqs(wire)')
        /\ Below(Answered, InService \cup Seqs(inbox)' \cup Seqs(wire)')
    BY <1>6, <2>1, <2>2 DEF IInv, InOrder, Below
  <2>4. QED
    BY <1>1, <1>2, <1>4, <1>5, <1>6, <2>2, <2>3 DEF InOrder, Below
<1>10. Accounted'
  <2>1. n \notin Seqs(wire)' /\ n \notin Seqs(inbox) /\ n \notin Cur /\ n \notin Answered
    BY <1>2, <1>3, <1>4 DEF IInv, InOrder, Below
  <2>2. n \notin unhandled /\ n \notin Rejected /\ n \notin unsent
    BY <1>4 DEF IInv, Accounted
  <2>3. /\ 1..sent = Seqs(wire)' \cup Seqs(inbox)' \cup InService \cup Answered
                       \cup unhandled' \cup Rejected' \cup unsent
        /\ unhandled' \cap unsent = {} /\ Rejected' \cap (unhandled' \cup unsent) = {}
        /\ (unhandled' \cup Rejected' \cup unsent)
             \cap (Seqs(wire)' \cup Seqs(inbox)' \cup InService \cup Answered) = {}
    BY <1>2, <1>4, <1>6, <2>1, <2>2 DEF IInv, Accounted
  <2>4. QED
    BY <1>1, <1>5, <1>6, <2>3 DEF Accounted
<1>11. Fired'
  <2>1. Below({firedBy}, Seqs(inbox)' \cup Seqs(wire)')
    BY <1>4, <1>6 DEF IInv, Fired, Below
  <2>2. QED
    BY <1>1, <2>1 DEF IInv, Fired, Below, EndingIsTheLastUse
<1>12. QED
  BY <1>7, <1>8, <1>9, <1>10, <1>11 DEF IInv

\* The oldest request of the inbox gets its handler.
LEMMA TakeIInv ==
  ASSUME IInv, ~undefined, Take PROVE IInv'
<1>1. /\ TypeOK /\ dispatcher = "idle" /\ inbox # <<>> /\ dispatcher' = "running"
      /\ current' = Head(inbox) /\ inbox' = Tail(inbox)
      /\ \E outcome \in Outcomes : work' = Handler(Head(inbox).command, outcome)
      /\ UNCHANGED <<sent, clientOpen, wire, toClient, socketOpen, registered, main, configured,
                     terminate, receiver, inboxClosed, stored, teardown, unhandled, rejected, unsent,
                     firedBy, undefined>>
  BY DEF IInv, Take, clientVars, ghostVars
<1>2. /\ wire \in Seq(Request) /\ inbox \in Seq(Accepted) /\ sent \in Nat
      /\ Seqs(wire) \subseteq 1..sent /\ Seqs(inbox) \subseteq 1..sent
      /\ Answered \subseteq 1..sent /\ firedBy \in Nat /\ firedBy <= sent
  BY Places
<1>3. PICK n \in 1..sent : n = Head(inbox).seq
  BY <1>1, <1>2, SeqsTail
<1>4. /\ inbox' \in Seq(Accepted) /\ Seqs(inbox) = Seqs(inbox)' \cup {n}
      /\ Ordered(inbox)' /\ Below({n}, Seqs(inbox)') /\ Head(inbox) \in Accepted
  <2>1. /\ Head(inbox) \in Accepted /\ Tail(inbox) \in Seq(Accepted)
        /\ Seqs(inbox) = Seqs(Tail(inbox)) \cup {n}
        /\ Ordered(Tail(inbox)) /\ Below({n}, Seqs(Tail(inbox)))
    BY <1>1, <1>2, <1>3, SeqsTail DEF IInv, InOrder
  <2>2. QED
    BY <1>1, <2>1
<1>5. work' \in Works /\ work' # <<>> /\ ReplyPending'
  <2>1. Head(inbox).command \in AllCommands
    BY <1>4 DEF Accepted
  <2>2. PICK outcome \in Outcomes : work' = Handler(Head(inbox).command, outcome)
    BY <1>1
  <2>3. Handler(Head(inbox).command, outcome) \in Works \ {<<>>}
          /\ Pending(Handler(Head(inbox).command, outcome))
    BY <2>1, HandlerWorks
  <2>4. Pending(work')
    BY <2>2, <2>3
  <2>5. ReplyPending'
    BY <2>4 DEF Pending, ReplyPending
  <2>6. QED
    BY <2>2, <2>3, <2>5
<1>6. Cur = {} /\ InService = {}
  <2>1. work = <<>>
    BY <1>1 DEF TypeOK
  <2>2. QED
    BY <1>1, <2>1 DEF Cur, InService, ReplyPending
<1>7. Cur' = {n} /\ InService' = {n} /\ current'.seq = n
  BY <1>1, <1>3, <1>5 DEF Cur, InService
<1>8. Answered' = Answered /\ AnswersInOrder' /\ Seqs(wire)' = Seqs(wire) /\ Ordered(wire)'
  BY <1>1, SameMessages DEF Seqs, Ordered, IInv, InOrder
<1>9. TypeOK'
  BY <1>1, <1>4, <1>5 DEF TypeOK
<1>10. WorkKnown'
  BY <1>1, <1>4, <1>5 DEF IInv, WorkKnown
<1>11. InOrder'
  <2>1. /\ Below(Seqs(inbox)', Seqs(wire)) /\ Below({n}, Seqs(inbox)' \cup Seqs(wire))
        /\ Below(Answered, {n} \cup Seqs(inbox)' \cup Seqs(wire))
    BY <1>4 DEF IInv, InOrder, Below
  <2>2. Seqs(wire) \cup Seqs(inbox)' \cup {n} \cup Answered \subseteq 1..sent
    BY <1>2, <1>3, <1>4
  <2>3. QED
    BY <1>1, <1>4, <1>7, <1>8, <2>1, <2>2 DEF InOrder, Below
<1>12. Accounted'
  <2>1. /\ 1..sent = Seqs(wire) \cup Seqs(inbox)' \cup {n} \cup Answered
                       \cup unhandled \cup Rejected \cup unsent
        /\ (unhandled \cup Rejected \cup unsent)
             \cap (Seqs(wire) \cup Seqs(inbox)' \cup {n} \cup Answered) = {}
    BY <1>4, <1>6 DEF IInv, Accounted
  <2>2. Rejected' = Rejected
    BY <1>1 DEF Rejected
  <2>3. QED
    BY <1>1, <1>7, <1>8, <2>1, <2>2 DEF IInv, Accounted
<1>13. Fired'
  <2>1. firedBy < n /\ Below({firedBy}, Seqs(inbox)' \cup Seqs(wire))
    BY <1>4 DEF IInv, Fired, Below
  <2>2. EndingIsTheLastUse'
    BY <1>1 DEF EndingIsTheLastUse
  <2>3. QED
    BY <1>1, <1>2, <1>7, <1>8, <2>1, <2>2 DEF IInv, Fired, Below
<1>14. QED
  BY <1>9, <1>10, <1>11, <1>12, <1>13 DEF IInv

\* The answer to the running request is the youngest one.
LEMMA ReplyIInv ==
  ASSUME IInv, ~undefined, Reply PROVE IInv'
<1>1. /\ TypeOK /\ dispatcher = "running" /\ Head(work) = "reply" /\ Advance
      /\ Send(Response(current))
      /\ unsent' = (IF Reaches THEN unsent ELSE unsent \cup {current.seq})
      /\ UNCHANGED <<sent, clientOpen, wire, socketOpen, registered, main, configured, terminate,
                     receiver, inbox, inboxClosed, stored, teardown, unhandled, rejected, firedBy, undefined>>
  BY DEF IInv, Reply, Doing, clientVars, inboxVars
<1>2. /\ work' \in Works /\ work' = Tail(work) /\ work # <<>>
      /\ dispatcher' \in {"idle", "running"} /\ (work' = <<>> <=> dispatcher' # "running")
      /\ current \in Accepted /\ current' \in Accepted \cup {NoRequest}
      /\ dispatcher' = "running" => current' = current
      /\ Cur = {current.seq} /\ Cur' \subseteq Cur
      /\ InService = {current.seq} /\ InService' = {}
  BY <1>1, Advanced
<1>3. /\ wire \in Seq(Request) /\ inbox \in Seq(Accepted) /\ sent \in Nat
      /\ Seqs(wire) \subseteq 1..sent /\ Seqs(inbox) \subseteq 1..sent
      /\ Cur \subseteq 1..sent /\ Answered \subseteq 1..sent
      /\ firedBy \in Nat /\ firedBy <= sent
  BY Places
<1>4. PICK n \in 1..sent : n = current.seq
  BY <1>2, <1>3
<1>5. PICK message : message = Response(current)
  OBVIOUS
<1>6. message \in Message /\ message.seq = n /\ message.kind = "response"
  BY <1>2, <1>4, <1>5 DEF Response, Message, Accepted
<1>7. /\ toClient' \in Seq(Message)
      /\ Reaches => toClient' = Append(toClient, message)
      /\ ~Reaches => toClient' = toClient
  BY <1>1, <1>5, <1>6, Told
<1>8. toClient \in Seq(Message)
  BY <1>1 DEF TypeOK
<1>9. /\ AnswersInOrder'
      /\ \/ Answered' = Answered \cup {n} /\ unsent' = unsent
         \/ Answered' = Answered /\ unsent' = unsent \cup {n}
  <2>1. CASE Reaches
    <3>1. Seqs(Append(toClient, message)) = Seqs(toClient) \cup {n}
      BY <1>6, <1>8, SeqsAppend
    <3>2. Seqs(toClient)' = Seqs(toClient) \cup {n}
      BY <1>7, <2>1, <3>1 DEF Seqs
    <3>3. Answered' = Answered \cup {n}
      BY <3>2, <1>3, <1>4 DEF Answered
    <3>4. /\ Len(toClient') = Len(toClient) + 1 /\ Len(toClient) \in Nat
          /\ \A i \in 1..Len(toClient) : toClient'[i] = toClient[i]
          /\ toClient'[Len(toClient')] = message
      BY <1>6, <1>7, <1>8, <2>1
    <3>5. \A i \in 1..Len(toClient) : toClient[i].kind = "response" => toClient[i].seq < n
      <4>1. TAKE i \in 1..Len(toClient)
      <4>2. HAVE toClient[i].kind = "response"
      <4>3. toClient[i] \in Message
        BY <1>8
      <4>4. toClient[i].seq # 0
        BY <4>2, <4>3 DEF Message
      <4>5. toClient[i].seq \in Answered
        BY <4>4 DEF Answered, Seqs
      <4>6. QED
        BY <1>2, <1>4, <4>5 DEF IInv, InOrder, Below
    <3>6. AnswersInOrder
      BY DEF IInv, InOrder
    <3>7. AnswersInOrder'
      BY <1>6, <3>4, <3>5, <3>6 DEF AnswersInOrder
    <3>8. QED
      BY <1>1, <2>1, <3>3, <3>7
  <2>2. CASE ~Reaches
    BY <1>1, <1>4, <1>7, <2>2, SameMessages
  <2>3. QED
    BY <2>1, <2>2
<1>10. TypeOK'
  <2>1. unsent' \subseteq 1..MaxRequests
    <3>1. unsent \subseteq 1..MaxRequests /\ sent \in 0..MaxRequests
      BY <1>1 DEF TypeOK
    <3>2. n \in 1..MaxRequests
      BY <1>4, <3>1
    <3>3. QED
      BY <1>9, <3>1, <3>2
  <2>2. QED
    BY <1>1, <1>2, <1>7, <2>1 DEF TypeOK
<1>11. WorkKnown'
  BY <1>1, <1>2 DEF IInv, WorkKnown
<1>12. Seqs(wire)' = Seqs(wire) /\ Seqs(inbox)' = Seqs(inbox) /\ Ordered(wire)' /\ Ordered(inbox)'
  BY <1>1 DEF Seqs, Ordered, IInv, InOrder
<1>13. InOrder'
  <2>1. Answered' \subseteq Answered \cup {n} /\ Cur' \subseteq {n} /\ Cur = {n}
    BY <1>2, <1>4, <1>9
  <2>2. /\ Below(Cur', Seqs(inbox) \cup Seqs(wire))
        /\ Below(Answered', Seqs(inbox) \cup Seqs(wire))
    BY <2>1 DEF IInv, InOrder, Below
  <2>3. Seqs(wire) \cup Seqs(inbox) \cup Cur' \cup Answered' \subseteq 1..sent
    BY <1>3, <1>4, <2>1
  <2>4. Below(Seqs(inbox), Seqs(wire))
    BY DEF IInv, InOrder
  <2>5. QED
    BY <1>1, <1>2, <1>9, <1>12, <2>2, <2>3, <2>4 DEF InOrder, Below
<1>14. Accounted'
  <2>0. InService = {n} /\ Cur = {n}
    BY <1>2, <1>4
  <2>1. /\ n \notin unhandled /\ n \notin Rejected /\ n \notin unsent
        /\ n \notin Seqs(wire) /\ n \notin Seqs(inbox) /\ n \notin Answered
    <3>1. n \notin unhandled /\ n \notin Rejected /\ n \notin unsent
      BY <2>0 DEF IInv, Accounted
    <3>2. n \notin Seqs(wire) /\ n \notin Seqs(inbox) /\ n \notin Answered
      BY <2>0 DEF IInv, InOrder, Below
    <3>3. QED
      BY <3>1, <3>2
  <2>2. /\ 1..sent = Seqs(wire) \cup Seqs(inbox) \cup Answered'
                       \cup unhandled \cup Rejected \cup unsent'
        /\ unhandled \cap unsent' = {} /\ Rejected \cap (unhandled \cup unsent') = {}
        /\ (unhandled \cup Rejected \cup unsent')
             \cap (Seqs(wire) \cup Seqs(inbox) \cup Answered') = {}
    BY <1>2, <1>4, <1>9, <2>1 DEF IInv, Accounted
  <2>3. Rejected' = Rejected
    BY <1>1 DEF Rejected
  <2>4. QED
    BY <1>1, <1>2, <1>12, <2>2, <2>3 DEF IInv, Accounted
<1>15. Fired'
  <2>1. work' # <<>> => work = <<"reply", "initializeSent">>
    BY <1>1, <1>2 DEF IInv, WorkKnown, Works
  <2>2. work' # <<>> => firedBy < current.seq
    BY <1>1, <1>3, <1>4, <2>1 DEF IInv, Fired
  <2>3. QED
    BY <1>1, <1>2, <1>3, <1>4, <1>12, <2>2 DEF IInv, Fired, Below, EndingIsTheLastUse
<1>16. QED
  BY <1>10, <1>11, <1>13, <1>14, <1>15 DEF IInv

-----------------------------------------------------------------------------
(* The theorems.                                                           *)

\* Every step keeps the invariant.
LEMMA NextIInv == IInv /\ [Next]_vars => IInv'
<1> SUFFICES ASSUME IInv, [Next]_vars PROVE IInv'
  OBVIOUS
<1>1. CASE UNCHANGED vars
  <2>1. UNCHANGED <<sent, clientOpen, wire, toClient, socketOpen, registered, main, configured,
                    terminate, receiver, inbox, inboxClosed, dispatcher, current, work, stored,
                    teardown, unhandled, rejected, unsent, firedBy, undefined>>
    BY <1>1 DEF vars, clientVars, inboxVars, dispatchVars, ghostVars
  <2>2. Answered' = Answered /\ AnswersInOrder' /\ Cur' = Cur /\ InService' = InService
    BY <2>1, SameMessages DEF Cur, InService, ReplyPending
  <2>3. InOrder' /\ Accounted'
    BY <2>1, <2>2, QuietFrame
  <2>4. TypeOK' /\ WorkKnown'
    BY <2>1 DEF IInv, TypeOK, WorkKnown
  <2>5. Fired'
    BY <2>1 DEF IInv, Fired, Below, Seqs, EndingIsTheLastUse
  <2>6. QED
    BY <2>3, <2>4, <2>5 DEF IInv
<1>2. CASE Next
  <2>1. ~undefined
    BY <1>2 DEF Next
  <2>2. CASE \E message \in Sendable : ClientSends(message)
    BY <2>1, <2>2, ClientSendsIInv
  <2>3. CASE Receive
    BY <2>1, <2>3, ReceiveIInv
  <2>4. CASE ClientCloses \/ ReceiverEnds \/ Evict
    BY <2>1, <2>4, OthersIInv
  <2>5. CASE Dispatch
    BY <2>1, <2>5, TakeIInv, OthersIInv, HandlerIInv, ReplyIInv DEF Dispatch
  <2>6. CASE Register \/ Proceed \/ Return
    BY <2>1, <2>6, SessionThreadIInv
  <2>7. CASE Destroy
    BY <2>1, <2>7, OthersIInv, SessionThreadIInv DEF Destroy
  <2>8. QED
    BY <1>2, <2>2, <2>3, <2>4, <2>5, <2>6, <2>7 DEF Next
<1>3. QED
  BY <1>1, <1>2

\* The inductive invariant holds of every session.
THEOREM SessionInvariant == Spec => []IInv
BY InitIInv, NextIInv, PTL DEF Spec

\* The types of a session's state hold in every session.
THEOREM SessionTypeCorrect == Spec => []TypeOK
<1>1. IInv => TypeOK
  BY DEF IInv
<1>2. QED
  BY <1>1, SessionInvariant, PTL

\* Whatever is dropped, the client gets its answers in the order of its
\* requests and none twice.
THEOREM AnswersComeInOrder == Spec => []AnswersInOrder
<1>1. IInv => AnswersInOrder
  BY DEF IInv, InOrder
<1>2. QED
  BY <1>1, SessionInvariant, PTL

\* Only a request queued behind the one that ended the session can meet the
\* session thread's dead frame.
THEOREM EndingUsesNothing == Spec => []EndingIsTheLastUse
<1>1. IInv => EndingIsTheLastUse
  BY DEF IInv, Fired
<1>2. QED
  BY <1>1, SessionInvariant, PTL

\* A request is in one place only, between the client and its answer; the
\* receiver rejects none it can read.
THEOREM NoRequestIsLost == Spec => []RequestsAccountedFor
<1>1. IInv => RequestsAccountedFor
  <2> SUFFICES ASSUME IInv PROVE RequestsAccountedFor
    OBVIOUS
  <2>1. PICK W, I, S, A, U, R, D :
          /\ W = Seqs(wire) /\ I = Seqs(inbox) /\ S = InService /\ A = Answered
          /\ U = unhandled /\ R = Rejected /\ D = unsent
    OBVIOUS
  <2>2. /\ W \subseteq Nat /\ I \subseteq Nat /\ S \subseteq Nat /\ A \subseteq Nat /\ S \subseteq Cur
    BY <2>1, Places
  <2>3. /\ 1..sent = W \cup I \cup S \cup A \cup U \cup R \cup D
        /\ U \cap D = {} /\ R \cap (U \cup D) = {}
        /\ (U \cup R \cup D) \cap (W \cup I \cup S \cup A) = {}
        /\ \A r \in rejected : r.form # "good"
    BY <2>1 DEF IInv, Accounted
  <2>4. Below(I, W) /\ Below(S, I \cup W) /\ Below(A, S \cup I \cup W)
    BY <2>1, <2>2 DEF IInv, InOrder, Below
  <2>5. /\ I \cap W = {} /\ S \cap I = {} /\ S \cap W = {}
        /\ A \cap S = {} /\ A \cap I = {} /\ A \cap W = {}
    BY <2>2, <2>4 DEF Below
  <2> DEFINE places == <<W, I, S, A, U, R, D>>
  <2>6. /\ places[1] = W /\ places[2] = I /\ places[3] = S /\ places[4] = A
        /\ places[5] = U /\ places[6] = R /\ places[7] = D
        /\ 1..7 = {1, 2, 3, 4, 5, 6, 7}
    OBVIOUS
  <2> HIDE DEF places
  <2>7. \A i, j \in 1..7 : i # j => places[i] \cap places[j] = {}
    BY <2>3, <2>5, <2>6
  <2>8. UNION {places[i] : i \in 1..7} = W \cup I \cup S \cup A \cup U \cup R \cup D
    BY <2>6
  <2>9. QED
    BY <2>1, <2>3, <2>7, <2>8 DEF RequestsAccountedFor, Rejected, places
<1>2. QED
  BY <1>1, SessionInvariant, PTL
==============================================================================
