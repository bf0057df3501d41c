------------------------------ MODULE SourceMap ------------------------------
(***************************************************************************)
(* The line tables the QVM derives from a source file when it is launched: *)
(* which lines survive the line splitter, which of them the QVM believes   *)
(* to be executable, and for every source line the set of instruction      *)
(* indices it stands for (qvm/BaseQVM.cpp, Utils.cpp).                     *)
(*                                                                         *)
(* A file is the sequence of its physical lines, each abstracted to the    *)
(* only thing the code looks at, its kind:                                 *)
(*   blank   the empty line           hash    '#' in the first column      *)
(*   comment indented '#', or '/'     decl    OPENQASM, include, qreg, ... *)
(*   op      one executable statement                                      *)
(*   doc     starts with a triple quote that is not closed on the line     *)
(*   doc1    a docstring opened and closed on the line                     *)
(*   docEnd  holds a triple quote, but not as its first characters         *)
(***************************************************************************)
EXTENDS Integers, Sequences, FiniteSets

LineKinds ==
  {"blank", "hash", "comment", "decl", "op", "doc", "doc1", "docEnd"}

Smaller(a, b) == IF a < b THEN a ELSE b

\* The k-th smallest member of a set of positions, and the subsequence of
\* lines at those positions.
Nth(positions, k) ==
  CHOOSE i \in positions : Cardinality({j \in positions : j <= i}) = k
At(lines, positions) ==
  [k \in 1 .. Cardinality(positions) |-> lines[Nth(positions, k)]]

\* Utils::parseSourcePerLines: empty lines and '#' lines disappear, so an
\* index into the result is not an editor line once one of them was dropped.
Survives(kind) == kind \notin {"blank", "hash"}
PerLines(lines) == At(lines, {i \in 1 .. Len(lines) : Survives(lines[i])})

\* Utils::calcNumberOfLines counts the lines that are not empty;
\* countPhysicalLines counts them all.
NumberOfLines(lines) == Cardinality({i \in 1 .. Len(lines) : lines[i] # "blank"})
PhysicalLines(lines) == Len(lines)

\* BaseQVM::isExecutableQasmLine
ExecutableQasm(kind) == kind \notin {"blank", "hash", "comment", "decl"}

\* BaseQVM::generateOpenQASMCodeMapping: the i-th surviving line of the
\* original is given the number of executable lines of the prepared source
\* before its i-th surviving line. With nothing to map the old table stays.
OpenQASMMapping(lines, qasm, old) ==
  LET source == PerLines(lines)
      target == PerLines(qasm)
      n      == Smaller(Len(source), Len(target))
      before(i) == Cardinality({j \in 1 .. i - 1 : ExecutableQasm(target[j])})
  IN  IF n = 0
      THEN old
      ELSE [i \in 1 .. Len(source) |->
              IF i <= n /\ ExecutableQasm(target[IF i <= n THEN i ELSE n])
              THEN {before(i)} ELSE {}]

\* The docstring scanner of generatePythonCodeMapping. InDocstring(source)[i]
\* says whether line i is reached inside a docstring. Comment lines are
\* skipped before the scanner sees them.
InDocstring(source) ==
  LET inside[i \in 1 .. Len(source) + 1] ==
        IF i = 1 THEN FALSE
        ELSE LET kind == source[i - 1]
             IN  CASE kind = "comment"  -> inside[i - 1]
                   [] kind # "comment" /\ inside[i - 1] ->
                        kind \notin {"doc", "doc1", "docEnd"}
                   [] OTHER -> kind = "doc"
  IN  inside

\* BaseQVM::generatePythonCodeMapping: a provisional 1:1 table that leaves
\* comments and docstrings unmapped.
PythonMapping(lines, qasm) ==
  LET source == PerLines(lines)
      n      == Smaller(Len(source), Len(PerLines(qasm)))
      inside == InDocstring(source)
      mapped(i) == /\ i <= n
                   /\ source[i] \notin {"comment", "doc", "doc1"}
                   /\ ~inside[i]
  IN  [i \in 1 .. Len(source) |-> IF mapped(i) THEN {i - 1} ELSE {}]

\* BaseQVM::translateCppSource: the source line of each executable line of
\* the translated program, 0 where the translator gave none.
GateSourceLines(qasm, lineOf) ==
  LET executable == {i \in 1 .. Len(qasm) : ExecutableQasm(qasm[i])}
      given(i)   == IF i \in 1 .. Len(lineOf) THEN lineOf[i] ELSE 0
  IN  [k \in 1 .. Cardinality(executable) |-> given(Nth(executable, k))]

\* BaseQVM::generateCppCodeMapping
CppMapping(lines, gateLines) ==
  [l \in 1 .. PhysicalLines(lines) |->
     {i - 1 : i \in {k \in 1 .. Len(gateLines) : gateLines[k] = l}}]

\* BaseQVM::generateCodeMapping: a file of unknown type keeps the old table.
CodeMapping(type, lines, qasm, gateLines, old) ==
  CASE type = "python" -> PythonMapping(lines, qasm)
    [] type = "qasm"   -> OpenQASMMapping(lines, qasm, old)
    [] type = "cpp"    -> CppMapping(lines, gateLines)
    [] OTHER           -> old
==============================================================================
