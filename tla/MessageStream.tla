---------------------------- MODULE MessageStream ----------------------------
(***************************************************************************)
(* What one direction of a DAP connection promises: the bodies come out in *)
(* the order in which they went in, each whole and once, and as long as    *)
(* the connection is up and nothing else was written to it, every one of   *)
(* them comes out, without another having to follow it.  When it is lost   *)
(* the reader ends.                                                        *)
(***************************************************************************)
EXTENDS Naturals, Sequences

CONSTANT Bodies

VARIABLES
  written,  \* the bodies that were written
  got,      \* the bodies that were read
  clean,    \* nothing but bodies was written
  up,       \* the connection was not lost
  over      \* the reader has ended

vars == <<written, got, clean, up, over>>

Init ==
  /\ written = <<>> /\ got = <<>>
  /\ clean = TRUE /\ up = TRUE /\ over = FALSE

Write(body) == written' = Append(written, body) /\ UNCHANGED <<got, clean, up, over>>

Read ==
  /\ ~over
  /\ Len(got) < Len(written)
  /\ got' = Append(got, written[Len(got) + 1])
  /\ UNCHANGED <<written, clean, up, over>>

Spoil == clean' = FALSE /\ UNCHANGED <<written, got, up, over>>
Lose  == up' = FALSE /\ UNCHANGED <<written, got, clean, over>>

End ==
  /\ ~up
  /\ over' = TRUE
  /\ UNCHANGED <<written, got, clean, up>>

Next == (\E body \in Bodies : Write(body)) \/ Read \/ Spoil \/ Lose \/ End

SafetySpec == Init /\ [][Next]_vars

Spec == SafetySpec /\ WF_vars(clean /\ up /\ Read) /\ WF_vars(End)
==============================================================================
