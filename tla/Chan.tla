-------------------------------- MODULE Chan --------------------------------
(***************************************************************************)
(* dap/chan.h: the channel between a session's receiving thread and its    *)
(* dispatching thread.  Every operation runs under the channel's mutex and *)
(* is one step, except that take() gives the mutex up while it waits for   *)
(* the condition variable.  put() wakes the waiters only when the queue    *)
(* was empty.                                                              *)
(***************************************************************************)
EXTENDS Naturals, Sequences

CONSTANTS
  Takers,     \* the threads that call take()
  Values,     \* the items
  Nothing,    \* the empty optional
  MaxQueue    \* bound: nobody puts into a queue of this length

ASSUME MaxQueueAssumption == MaxQueue \in Nat

VARIABLES
  queue,    \* Chan::queue
  closed,   \* Chan::closed
  pc,       \* pc[t]: "out" of take(), "in" and without the mutex, "waiting"
            \* for the condition variable, "woken" from it
  result    \* result[t]: what t's last take() returned

chanVars == <<queue, closed, pc, result>>

ChanInit ==
  /\ queue = <<>>
  /\ closed = FALSE
  /\ pc = [t \in Takers |-> "out"]
  /\ result = [t \in Takers |-> Nothing]

\* cv.notify_all()
Woken == [t \in Takers |-> IF pc[t] = "waiting" THEN "woken" ELSE pc[t]]

\* Mutant: the size is looked at after the push.
NotifiesAfterPush == Len(queue) + 1 = 0 /\ ~closed

Notifies == Len(queue) = 0 /\ ~closed

Put(v) ==
  /\ Len(queue) < MaxQueue
  /\ queue' = Append(queue, v)
  /\ pc' = IF Notifies THEN Woken ELSE pc
  /\ UNCHANGED <<closed, result>>

Close ==
  /\ closed' = TRUE
  /\ pc' = Woken
  /\ UNCHANGED <<queue, result>>

Reset ==
  /\ queue' = <<>>
  /\ closed' = FALSE
  /\ UNCHANGED <<pc, result>>

Call(t) ==
  /\ pc[t] = "out"
  /\ pc' = [pc EXCEPT ![t] = "in"]
  /\ UNCHANGED <<queue, closed, result>>

\* The predicate of cv.wait.
Ready == queue # <<>> \/ closed

\* take() holds the mutex and its predicate is true.
Return(t) ==
  /\ pc' = [pc EXCEPT ![t] = "out"]
  /\ \/ /\ queue # <<>>
        /\ result' = [result EXCEPT ![t] = Head(queue)]
        /\ queue' = Tail(queue)
     \/ /\ queue = <<>>
        /\ result' = [result EXCEPT ![t] = Nothing]
        /\ UNCHANGED queue
  /\ UNCHANGED closed

Wait(t) ==
  /\ pc' = [pc EXCEPT ![t] = "waiting"]
  /\ UNCHANGED <<queue, closed, result>>

\* Mutant: a wait without its predicate.
TakeOnce(t) ==
  \/ pc[t] = "in" /\ IF Ready THEN Return(t) ELSE Wait(t)
  \/ pc[t] = "woken" /\ Return(t)

\* take() looks at its predicate on entry and each time it is woken.
Take(t) ==
  /\ pc[t] \in {"in", "woken"}
  /\ \/ Ready /\ Return(t)
     \/ ~Ready /\ Wait(t)

\* A condition variable may wake a waiter for no reason.
SpuriousWakeup(t) ==
  /\ pc[t] = "waiting"
  /\ pc' = [pc EXCEPT ![t] = "woken"]
  /\ UNCHANGED <<queue, closed, result>>

ChanNext ==
  \/ \E v \in Values : Put(v)
  \/ Close
  \/ Reset
  \/ \E t \in Takers : Call(t) \/ Take(t) \/ SpuriousWakeup(t)

\* A thread that can get the mutex runs; nobody has to put or to close.
ChanFairness == \A t \in Takers : WF_chanVars(Take(t))

ChanSpec == ChanInit /\ [][ChanNext]_chanVars /\ ChanFairness

-----------------------------------------------------------------------------
(* Properties.                                                             *)

\* Type correctness.
ChanTypeOK ==
  /\ queue \in Seq(Values)
  /\ closed \in BOOLEAN
  /\ pc \in [Takers -> {"out", "in", "waiting", "woken"}]
  /\ result \in [Takers -> Values \cup {Nothing}]

\* Nobody sleeps on the condition variable while there is something to take
\* or the channel is closed, although put() notifies on an empty queue only.
NoTakerForgotten ==
  \A t \in Takers : pc[t] = "waiting" => queue = <<>> /\ ~closed

\* The channel implements the one its users rely on, fairness included: a
\* mapped taker is taking from the call of take() to its return.
Fifo == INSTANCE FifoChannel
          WITH items  <- queue, ended <- closed, answer <- result,
               taking <- {t \in Takers : pc[t] # "out"}
ImplementsFifo == Fifo!Spec
==============================================================================
