----------------------------- MODULE FifoChannel -----------------------------
(***************************************************************************)
(* What a channel promises its users: items come out in the order they     *)
(* went in, each to one taker; a taker that has called take() gets an item *)
(* or, once the channel is closed and drained, the answer that there is    *)
(* none; and it gets one of them as soon as there is one to get.           *)
(***************************************************************************)
EXTENDS Naturals, Sequences

CONSTANTS Takers, Values, Nothing

VARIABLES
  items,    \* the items put and not yet taken
  ended,    \* the channel was closed
  taking,   \* the takers inside take()
  answer    \* answer[t]: what taker t's last take() returned

vars == <<items, ended, taking, answer>>

Init ==
  /\ items = <<>>
  /\ ended = FALSE
  /\ taking = {}
  /\ answer = [t \in Takers |-> Nothing]

Put(v) == items' = Append(items, v) /\ UNCHANGED <<ended, taking, answer>>
Close  == ended' = TRUE /\ UNCHANGED <<items, taking, answer>>
Reset  == items' = <<>> /\ ended' = FALSE /\ UNCHANGED <<taking, answer>>

Call(t) ==
  /\ t \notin taking
  /\ taking' = taking \cup {t}
  /\ UNCHANGED <<items, ended, answer>>

Receive(t) ==
  /\ t \in taking
  /\ items # <<>>
  /\ answer' = [answer EXCEPT ![t] = Head(items)]
  /\ items' = Tail(items)
  /\ taking' = taking \ {t}
  /\ UNCHANGED ended

Finish(t) ==
  /\ t \in taking
  /\ items = <<>> /\ ended
  /\ answer' = [answer EXCEPT ![t] = Nothing]
  /\ taking' = taking \ {t}
  /\ UNCHANGED <<items, ended>>

Next ==
  \/ \E v \in Values : Put(v)
  \/ Close
  \/ Reset
  \/ \E t \in Takers : Call(t) \/ Receive(t) \/ Finish(t)

SafetySpec == Init /\ [][Next]_vars

\* A taker with something to return returns.
Spec == SafetySpec /\ \A t \in Takers : WF_vars(Receive(t) \/ Finish(t))
==============================================================================
