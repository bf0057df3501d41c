---------------------------- MODULE DebugSession ----------------------------
(***************************************************************************)
(* One DAP connection of QSCore, from accept to the destruction of its     *)
(* session (QSCore.cpp onClientConnected, dap/session.cpp, Event.cpp).     *)
(* Four threads share it:                                                  *)
(*   client     sends requests at any time, in any order, and may leave;   *)
(*   receiver   SessionImpl::recvThread, looks the handler of a request up *)
(*              when it reads the request and queues the call;             *)
(*   dispatcher SessionImpl::dispatchThread, runs the queued calls;        *)
(*   session    the thread of onClientConnected, registers the handlers,   *)
(*              then waits for two events that handlers fire.              *)
(* The handlers refer to that thread's stack frame: configured, terminate  *)
(* and the shared pointer to the session live there.                       *)
(* The inbox is a FIFO channel (module Chan); what the debugger answers is *)
(* abstracted to whether the program came to its end (module Debugger).    *)
(***************************************************************************)
EXTENDS Naturals, Sequences, FiniteSets

CONSTANTS
  Commands,     \* the commands the client may send
  Misfits,      \* those it may also send with arguments that do not fit
  MaxRequests   \* bound on the number of requests

\* Handlers in the order onClientConnected registers them; "initializeSent"
\* is the registerSentHandler call.
Registrations ==
  <<"initialize", "evaluate", "initializeSent", "threads", "stackTrace",
    "disassemble", "scopes", "variables", "pause", "continue", "next",
    "stepIn", "stepOut", "setBreakpoints", "setExceptionBreakpoints",
    "source", "launch", "disconnect", "configurationDone">>

AllCommands == {Registrations[i] : i \in 1 .. Len(Registrations)} \ {"initializeSent"}

\* The other two take no arguments, so no arguments can be wrong for them.
WithArguments == AllCommands \ {"threads", "configurationDone"}

ASSUME CommandsAssumption == Commands \subseteq AllCommands
ASSUME MisfitsAssumption == Misfits \subseteq Commands \cap WithArguments
ASSUME MaxRequestsAssumption == MaxRequests \in Nat

VARIABLES
  sent,         \* number of requests the client has sent
  clientOpen,   \* the client has not closed its end
  wire,         \* requests on their way to the receiver
  toClient,     \* what reached the client, in order
  socketOpen,   \* the server's end of the connection
  registered,   \* how many of the Registrations are done
  main,         \* where the session thread is
  configured,   \* Event configured
  terminate,    \* Event terminate
  receiver,     \* "reading" or "ended"
  inbox,        \* SessionImpl::inbox
  inboxClosed,
  dispatcher,   \* "idle", "running" or "ended"
  current,      \* the request the dispatcher runs, or NoRequest
  work,         \* what is left of its handler
  stored,       \* the session storage holds a reference to the session
  teardown,     \* progress of ~SessionImpl
  unhandled,    \* requests read before their handler was registered
  rejected,     \* requests the receiver could not read, and their form
  unsent,       \* requests whose reply found the connection closed
  firedBy,      \* the request that first fired terminate, or 0
  undefined     \* a handler used the frame of a thread that has returned

clientVars   == <<sent, clientOpen>>
inboxVars    == <<inbox, inboxClosed>>
dispatchVars == <<dispatcher, current, work>>
ghostVars    == <<unhandled, rejected, unsent, firedBy>>
vars == <<clientVars, wire, toClient, socketOpen, registered, main, configured,
          terminate, receiver, inboxVars, dispatchVars, stored, teardown,
          ghostVars, undefined>>

\* A message is good, or its arguments do not fit its command, or it is
\* garbled: no type, seq or command the receiver can make out.
Sendable ==
  [command : Commands, form : {"good"}]
    \cup [command : Misfits, form : {"misfit"}]
    \cup [command : {"none"}, form : {"garbled"}]

NoRequest == [seq |-> 0, command |-> "none", form |-> "good"]
Request == [seq : 1 .. MaxRequests, command : AllCommands \cup {"none"},
            form : {"good", "misfit", "garbled"}]
Accepted == [seq : 1 .. MaxRequests, command : AllCommands, form : {"good"}]

Response(request) ==
  [kind |-> "response", name |-> request.command, seq |-> request.seq]
Event(name) == [kind |-> "event", name |-> name, seq |-> 0]

Init ==
  /\ sent = 0 /\ clientOpen = TRUE
  /\ wire = <<>> /\ toClient = <<>>
  /\ socketOpen = TRUE
  /\ registered = 0
  /\ main = "registering"
  /\ configured = FALSE /\ terminate = FALSE
  /\ receiver = "reading"
  /\ inbox = <<>> /\ inboxClosed = FALSE
  /\ dispatcher = "idle" /\ current = NoRequest /\ work = <<>>
  /\ stored = FALSE
  /\ teardown = "alive"
  /\ unhandled = {} /\ rejected = {} /\ unsent = {} /\ firedBy = 0
  /\ undefined = FALSE

\* SessionImpl::send: a message reaches the client only over an open socket.
Reaches == socketOpen /\ clientOpen
Send(message) ==
  toClient' = IF Reaches THEN Append(toClient, message) ELSE toClient

-----------------------------------------------------------------------------
(* The client.                                                             *)

Sent(message) ==
  [seq |-> sent + 1, command |-> message.command, form |-> message.form]

ClientSends(message) ==
  /\ clientOpen /\ sent < MaxRequests
  /\ sent' = sent + 1
  /\ wire' = IF socketOpen THEN Append(wire, Sent(message)) ELSE wire
  /\ unsent' = IF socketOpen THEN unsent ELSE unsent \cup {sent + 1}
  /\ UNCHANGED <<clientOpen, toClient, socketOpen, registered, main, configured,
                 terminate, receiver, inboxVars, dispatchVars, stored, teardown,
                 unhandled, rejected, firedBy, undefined>>

ClientCloses ==
  /\ clientOpen
  /\ clientOpen' = FALSE
  /\ UNCHANGED <<sent, wire, toClient, socketOpen, registered, main, configured,
                 terminate, receiver, inboxVars, dispatchVars, stored, teardown,
                 ghostVars, undefined>>

-----------------------------------------------------------------------------
(* The receiver.                                                           *)

Handles(command) == \E i \in 1 .. registered : Registrations[i] = command

\* Mutant: a closed inbox takes nothing.
QueueUnlessClosed(request) ==
  inbox' = IF inboxClosed THEN inbox ELSE Append(inbox, request)

\* put() does not look at the closed flag.
Queue(request) == inbox' = Append(inbox, request)

\* getPayload, processMessage, processRequest and inbox.put.  What has no
\* handler, and what cannot be read, is told to the error handler, which logs
\* it; the message is forgotten and the next one read.
Receive ==
  /\ receiver = "reading" /\ socketOpen /\ wire # <<>>
  /\ wire' = Tail(wire)
  /\ LET request == Head(wire)
     IN  \/ /\ request.form = "good" /\ Handles(request.command)
            /\ Queue(request)
            /\ UNCHANGED <<unhandled, rejected>>
         \/ /\ request.form # "garbled" /\ ~Handles(request.command)
            /\ unhandled' = unhandled \cup {request.seq}
            /\ UNCHANGED <<inbox, rejected>>
         \/ /\ \/ request.form = "garbled"
               \/ request.form = "misfit" /\ Handles(request.command)
            /\ rejected' = rejected \cup {[seq |-> request.seq, form |-> request.form]}
            /\ UNCHANGED <<inbox, unhandled>>
  /\ UNCHANGED <<clientVars, toClient, socketOpen, registered, main, configured,
                 terminate, receiver, inboxClosed, dispatchVars, stored,
                 teardown, unsent, firedBy, undefined>>

\* The end of the stream is a bad header, which closes the reader (kClose);
\* a closed reader ends the loop.  Nobody else is told.
ReceiverEnds ==
  /\ receiver = "reading"
  /\ (wire = <<>> /\ ~clientOpen) \/ ~socketOpen
  /\ receiver' = "ended"
  /\ socketOpen' = FALSE
  /\ UNCHANGED <<clientVars, wire, toClient, registered, main, configured,
                 terminate, inboxVars, dispatchVars, stored, teardown,
                 ghostVars, undefined>>

-----------------------------------------------------------------------------
(* The dispatcher.                                                         *)

\* What a handler can meet in the debugger: the end of the program, a stop or
\* a step to report, nothing to report.
Outcomes == {"ends", "stops", "silent"}

\* Mutant: the session thread is let go before the client is told of the end.
HandlerFiringFirst(command, outcome) ==
  CASE command = "next" /\ outcome = "ends" ->
         <<"stopped", "fire", "terminated", "reply">>
    [] command = "launch"            -> <<"store", "output", "reply">>
    [] command = "disconnect"        -> <<"fire", "reply">>
    [] command = "configurationDone" -> <<"configure", "reply">>
    [] OTHER                         -> <<"reply">>

\* Continue and Next: the end of the program is told and lets the session
\* thread go, anything else is reported or not.
Steps(first, outcome, report) ==
  CASE outcome = "ends"   -> <<first, "terminated", "fire", "reply">>
    [] outcome = "stops"  -> <<first, report, "reply">>
    [] outcome = "silent" -> <<first, "reply">>

\* The steps of a handler another thread can see, in their order.  "session"
\* stands for a handler that reads the session or its debugger, or changes
\* only the debugger.
Handler(command, outcome) ==
  CASE command = "initialize" -> <<"reply", "initializeSent">>
    [] command \in {"evaluate", "threads", "scopes", "stepOut",
                    "setExceptionBreakpoints", "source"} -> <<"reply">>
    [] command \in {"stackTrace", "disassemble", "variables",
                    "setBreakpoints"} -> <<"session", "reply">>
    [] command \in {"pause", "stepIn"} -> <<"stopped", "reply">>
    [] command = "continue" -> Steps("session", outcome, "stopped")
    [] command = "next" -> Steps("stopped", outcome, "output")
    [] command = "launch" -> <<"store", "output", "reply">>
    [] command = "disconnect" -> <<"fire", "reply">>
    [] command = "configurationDone" -> <<"configure", "reply">>

Take ==
  /\ dispatcher = "idle" /\ inbox # <<>>
  /\ dispatcher' = "running"
  /\ current' = Head(inbox)
  /\ inbox' = Tail(inbox)
  /\ \E outcome \in Outcomes : work' = Handler(Head(inbox).command, outcome)
  /\ UNCHANGED <<clientVars, wire, toClient, socketOpen, registered, main,
                 configured, terminate, receiver, inboxClosed, stored, teardown,
                 ghostVars, undefined>>

\* Mutant: an empty inbox is taken for a closed one.
DispatcherEndsEarly ==
  /\ dispatcher = "idle" /\ inbox = <<>>
  /\ dispatcher' = "ended"
  /\ UNCHANGED <<clientVars, wire, toClient, socketOpen, registered, main,
                 configured, terminate, receiver, inboxVars, current, work,
                 stored, teardown, ghostVars, undefined>>

\* A closed inbox is drained before the dispatcher leaves.
DispatcherEnds ==
  /\ dispatcher = "idle" /\ inbox = <<>> /\ inboxClosed
  /\ dispatcher' = "ended"
  /\ UNCHANGED <<clientVars, wire, toClient, socketOpen, registered, main,
                 configured, terminate, receiver, inboxVars, current, work,
                 stored, teardown, ghostVars, undefined>>

\* The locals of onClientConnected go in the reverse order: first the pointer
\* to the session, whose destructor this thread may run, then the two events.
FrameAlive == main \notin {"destroying", "done"}
UsesDead(step) ==
  \/ step \in {"fire", "configure"} /\ main = "done"
  \/ step \notin {"fire", "configure", "reply"} /\ ~FrameAlive

\* One step of the running handler is over.
Advance ==
  /\ work' = Tail(work)
  /\ dispatcher' = IF Len(work) = 1 THEN "idle" ELSE "running"
  /\ current' = IF Len(work) = 1 THEN NoRequest ELSE current

Doing(step) == dispatcher = "running" /\ Head(work) = step

HandlerEvent ==
  /\ \E step \in {"stopped", "terminated", "output", "session"} :
       /\ Doing(step)
       /\ IF step = "session" THEN UNCHANGED toClient ELSE Send(Event(step))
  /\ Advance
  /\ UNCHANGED <<clientVars, wire, socketOpen, registered, main, configured,
                 terminate, receiver, inboxVars, stored, teardown, ghostVars,
                 undefined>>

\* The responseSent lookup after an Initialize response.
InitializeSent ==
  /\ Doing("initializeSent")
  /\ IF Handles("initializeSent") THEN Send(Event("initialized"))
     ELSE UNCHANGED toClient
  /\ Advance
  /\ UNCHANGED <<clientVars, wire, socketOpen, registered, main, configured,
                 terminate, receiver, inboxVars, stored, teardown, ghostVars,
                 undefined>>

FireConfigured ==
  /\ Doing("configure")
  /\ configured' = TRUE
  /\ Advance
  /\ UNCHANGED <<clientVars, wire, toClient, socketOpen, registered, main,
                 terminate, receiver, inboxVars, stored, teardown, ghostVars,
                 undefined>>

\* Mutant: an event that only wakes a thread that is already waiting for it.
FireUnlatched ==
  /\ Doing("fire")
  /\ terminate' = (terminate \/ main = "waiting")
  /\ firedBy' = IF firedBy # 0 THEN firedBy ELSE current.seq
  /\ Advance
  /\ UNCHANGED <<clientVars, wire, toClient, socketOpen, registered, main,
                 configured, receiver, inboxVars, stored, teardown, unhandled,
                 rejected, unsent, undefined>>

FireTerminate ==
  /\ Doing("fire")
  /\ terminate' = TRUE
  /\ firedBy' = IF firedBy # 0 THEN firedBy ELSE current.seq
  /\ Advance
  /\ UNCHANGED <<clientVars, wire, toClient, socketOpen, registered, main,
                 configured, receiver, inboxVars, stored, teardown, unhandled,
                 rejected, unsent, undefined>>

\* SessionStorage::add, which keeps nothing under an empty id.
Store ==
  /\ Doing("store") /\ FrameAlive
  /\ stored' \in {TRUE, stored}
  /\ Advance
  /\ UNCHANGED <<clientVars, wire, toClient, socketOpen, registered, main,
                 configured, terminate, receiver, inboxVars, teardown,
                 ghostVars, undefined>>

\* Mutant: the response is sent twice.
ReplyTwice ==
  /\ Doing("reply")
  /\ toClient' = IF Reaches
                 THEN toClient \o <<Response(current), Response(current)>>
                 ELSE toClient
  /\ unsent' = IF Reaches THEN unsent ELSE unsent \cup {current.seq}
  /\ Advance
  /\ UNCHANGED <<clientVars, wire, socketOpen, registered, main, configured,
                 terminate, receiver, inboxVars, stored, teardown, unhandled,
                 rejected, firedBy, undefined>>

\* onSuccess or onError.
Reply ==
  /\ Doing("reply")
  /\ Send(Response(current))
  /\ unsent' = IF Reaches THEN unsent ELSE unsent \cup {current.seq}
  /\ Advance
  /\ UNCHANGED <<clientVars, wire, socketOpen, registered, main, configured,
                 terminate, receiver, inboxVars, stored, teardown, unhandled,
                 rejected, firedBy, undefined>>

\* A handler that uses the frame after its end may also find anything there.
UsesDeadFrame ==
  /\ dispatcher = "running" /\ UsesDead(Head(work))
  /\ undefined' = TRUE
  /\ UNCHANGED <<clientVars, wire, toClient, socketOpen, registered, main,
                 configured, terminate, receiver, inboxVars, dispatchVars,
                 stored, teardown, ghostVars>>

Dispatch ==
  \/ Take \/ DispatcherEnds
  \/ HandlerEvent \/ InitializeSent \/ FireConfigured \/ FireTerminate
  \/ Store \/ Reply \/ UsesDeadFrame

-----------------------------------------------------------------------------
(* The session thread.                                                     *)

AllRegistered(n) == n = Len(Registrations)

Register ==
  /\ main = "registering"
  /\ registered' = registered + 1
  /\ main' = IF AllRegistered(registered') THEN "configuring" ELSE main
  /\ UNCHANGED <<clientVars, wire, toClient, socketOpen, configured, terminate,
                 receiver, inboxVars, dispatchVars, stored, teardown, ghostVars,
                 undefined>>

\* configured.wait, the two events, terminate.wait, removeLater.
Proceed ==
  /\ \/ main = "configuring" /\ configured /\ main' = "starting" /\ UNCHANGED toClient
     \/ main = "starting" /\ main' = "pausing" /\ Send(Event("thread"))
     \/ main = "pausing"  /\ main' = "waiting" /\ Send(Event("stopped"))
     \/ main = "waiting" /\ terminate /\ main' = "leaving" /\ UNCHANGED toClient
     \/ main = "leaving" /\ main' = "returning" /\ UNCHANGED toClient
  /\ UNCHANGED <<clientVars, wire, socketOpen, registered, configured, terminate,
                 receiver, inboxVars, dispatchVars, stored, teardown, ghostVars,
                 undefined>>

\* The frame's reference goes.  If it is the last one, this thread runs
\* ~SessionImpl before it ends.
Return ==
  /\ main = "returning"
  /\ main' = IF stored THEN "done" ELSE "destroying"
  /\ UNCHANGED <<clientVars, wire, toClient, socketOpen, registered, configured,
                 terminate, receiver, inboxVars, dispatchVars, stored, teardown,
                 ghostVars, undefined>>

\* Another session drops the stored reference: SessionStorage::cleanup, or add
\* under the same id.
Evict ==
  /\ stored
  /\ stored' = FALSE
  /\ UNCHANGED <<clientVars, wire, toClient, socketOpen, registered, main,
                 configured, terminate, receiver, inboxVars, dispatchVars,
                 teardown, ghostVars, undefined>>

\* ~SessionImpl, run by whoever dropped the last reference.
Unreferenced == main \in {"destroying", "done"} /\ ~stored

CloseInbox ==
  /\ Unreferenced /\ teardown = "alive"
  /\ inboxClosed' = TRUE
  /\ teardown' = "inboxClosed"
  /\ UNCHANGED <<clientVars, wire, toClient, socketOpen, registered, main,
                 configured, terminate, receiver, inbox, dispatchVars, stored,
                 ghostVars, undefined>>

\* Mutant: the socket stays open.
CloseSocketNot ==
  /\ teardown = "inboxClosed"
  /\ teardown' = "socketClosed"
  /\ UNCHANGED <<clientVars, wire, toClient, socketOpen, registered, main,
                 configured, terminate, receiver, inboxVars, dispatchVars,
                 stored, ghostVars, undefined>>

\* reader.close() and writer.close() close the one socket.
CloseSocket ==
  /\ teardown = "inboxClosed"
  /\ socketOpen' = FALSE
  /\ teardown' = "socketClosed"
  /\ UNCHANGED <<clientVars, wire, toClient, registered, main, configured,
                 terminate, receiver, inboxVars, dispatchVars, stored,
                 ghostVars, undefined>>

\* Both joins, then the debugger is deleted.
JoinThreads ==
  /\ teardown = "socketClosed" /\ receiver = "ended" /\ dispatcher = "ended"
  /\ teardown' = "gone"
  /\ main' = "done"
  /\ UNCHANGED <<clientVars, wire, toClient, socketOpen, registered, configured,
                 terminate, receiver, inboxVars, dispatchVars, stored,
                 ghostVars, undefined>>

Destroy == CloseInbox \/ CloseSocket \/ JoinThreads

Next ==
  /\ ~undefined
  /\ \/ \E message \in Sendable : ClientSends(message)
     \/ ClientCloses
     \/ Receive \/ ReceiverEnds
     \/ Dispatch
     \/ Register \/ Proceed \/ Return
     \/ Evict
     \/ Destroy

\* Threads run; the client and the other sessions do as they please.
Fairness ==
  /\ WF_vars(~undefined /\ (Receive \/ ReceiverEnds))
  /\ WF_vars(~undefined /\ Dispatch)
  /\ WF_vars(~undefined /\ (Register \/ Proceed \/ Return))
  /\ WF_vars(~undefined /\ Destroy)

Spec == Init /\ [][Next]_vars /\ Fairness

-----------------------------------------------------------------------------
(* Properties.                                                             *)

Message == [kind : {"response"}, name : AllCommands, seq : 1 .. MaxRequests]
  \cup [kind : {"event"}, seq : {0},
        name : {"stopped", "terminated", "output", "initialized", "thread"}]

\* Type correctness.
TypeOK ==
  /\ sent \in 0 .. MaxRequests /\ clientOpen \in BOOLEAN
  /\ wire \in Seq(Request) /\ inbox \in Seq(Accepted)
  /\ toClient \in Seq(Message)
  /\ socketOpen \in BOOLEAN /\ inboxClosed \in BOOLEAN
  /\ registered \in 0 .. Len(Registrations)
  /\ main \in {"registering", "configuring", "starting", "pausing", "waiting",
               "leaving", "returning", "destroying", "done"}
  /\ configured \in BOOLEAN /\ terminate \in BOOLEAN
  /\ receiver \in {"reading", "ended"}
  /\ dispatcher \in {"idle", "running", "ended"}
  /\ current \in Accepted \cup {NoRequest}
  /\ (work = <<>>) <=> (dispatcher # "running")
  /\ stored \in BOOLEAN
  /\ teardown \in {"alive", "inboxClosed", "socketClosed", "gone"}
  /\ unhandled \subseteq 1 .. MaxRequests /\ unsent \subseteq 1 .. MaxRequests
  /\ rejected \subseteq [seq : 1 .. MaxRequests, form : {"good", "misfit", "garbled"}]
  /\ firedBy \in 0 .. MaxRequests
  /\ undefined \in BOOLEAN

Seqs(requests) == {requests[i].seq : i \in 1 .. Len(requests)}
Answered == Seqs(toClient) \ {0}
ReplyPending == \E i \in 1 .. Len(work) : work[i] = "reply"
InService == IF ReplyPending THEN {current.seq} ELSE {}

\* Responses come in the order of the requests and none comes twice, although
\* requests can be dropped, and the connection closed, at every point.
AnswersInOrder ==
  \A i, j \in 1 .. Len(toClient) :
    /\ i < j
    /\ toClient[i].kind = "response" /\ toClient[j].kind = "response"
    => toClient[i].seq < toClient[j].seq

\* No request is lost without a reason: each one the client sent is on the
\* wire, queued, being served, answered, was read before its handler existed,
\* was rejected by the receiver, or had its connection closed; it is in one of
\* these places only; and only a message that is garbled or whose arguments do
\* not fit is rejected.
RequestsAccountedFor ==
  LET places == <<Seqs(wire), Seqs(inbox), InService, Answered, unhandled,
                  {r.seq : r \in rejected}, unsent>>
  IN  /\ 1 .. sent = UNION {places[i] : i \in 1 .. 7}
      /\ \A i, j \in 1 .. 7 : i # j => places[i] \cap places[j] = {}
      /\ \A r \in rejected : r.form # "good"

\* The handler that ends the session does not touch the session thread's frame
\* after it let that thread go; a dead frame can only be used by a request that
\* was queued behind the one that ended the session.
EndingIsTheLastUse == undefined => firedBy > 0 /\ current.seq > firedBy

\* Once started, the destruction of a session ends: closing the socket frees the
\* receiver, closing the inbox frees the dispatcher.
DestructionEnds == (teardown # "alive") ~> (teardown = "gone" \/ undefined)

\* A configured session that was told to terminate lets its thread go, even if
\* it was told before its thread waited for it.
TerminationIsServed ==
  (configured /\ firedBy # 0) ~> (main = "done" \/ undefined)

\* A request that was accepted is answered unless the session goes away.
AcceptedIsAnswered ==
  \A n \in 1 .. MaxRequests :
    n \in Seqs(inbox) ~> (\/ n \in Answered \cup unsent
                          \/ undefined \/ teardown # "alive")

\* "Block until we receive a 'terminateDebuggee' request or encounter a session
\* error" (QSCore.cpp, above terminate.wait): a session thread that waits there
\* while its client is gone and its receiver has ended ends too.
ClosedSessionEnds ==
  (main = "waiting" /\ receiver = "ended") ~> (main = "done" \/ undefined)

==============================================================================
