----------------------------- MODULE MCDebugger -----------------------------
(* Programs for model checking Debugger.                                   *)
EXTENDS Debugger

File(type, lines, qasm, lineOf, steps) ==
  [type |-> type, lookup |-> "file", frontEnd |-> "translates",
   reads |-> TRUE, lines |-> lines, qasm |-> qasm, lineOf |-> lineOf,
   steps |-> steps, bad |-> {}]

Qasm(lines, steps) == File("qasm", lines, lines, <<>>, steps)

Plain     == Qasm(<<"decl", "op", "op">>, 2)
Gappy     == Qasm(<<"hash", "op", "blank", "op">>, 2)
Broadcast == Qasm(<<"decl", "op">>, 3)
Throwing  == [Qasm(<<"op", "op">>, 2) EXCEPT !.bad = {1}]
OnlyHash  == Qasm(<<"hash", "blank">>, 0)
Documented ==
  File("python", <<"doc", "op", "docEnd", "op">>, <<"decl", "op", "op", "op">>,
       <<>>, 3)
Looping   == File("cpp", <<"decl", "op", "op">>, <<"decl", "op", "op", "op">>,
                  <<0, 2, 3, 2>>, 3)
Unmapped  == File("cpp", <<"decl", "op">>, <<"decl", "op", "op">>, <<0, 2>>, 2)
Faulty    == [Looping EXCEPT !.bad = {2}]
TooLong   == [Looping EXCEPT !.steps = 4]
Unreadable == [Looping EXCEPT !.reads = FALSE]
Untranslated == [Looping EXCEPT !.frontEnd = "rejects"]
Guppy     == [Documented EXCEPT !.frontEnd = "dies"]
Demo      == [Plain EXCEPT !.lookup = "demo"]
Missing   == [Plain EXCEPT !.lookup = "none"]
Unknown   == File("unknown", <<"op">>, <<"op">>, <<>>, 1)

MCPrograms ==
  {Plain, Gappy, Broadcast, Throwing, OnlyHash, Documented, Looping, Unmapped,
   Faulty, TooLong, Unreadable, Untranslated, Guppy, Demo, Missing, Unknown}

MCInitialLines == {-1, 0, 3}
MCBreakpointSets == {{}, {2}, {3}, {2, 3}}
==============================================================================
