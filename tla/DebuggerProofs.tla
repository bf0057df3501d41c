--------------------------- MODULE DebuggerProofs ---------------------------
(***************************************************************************)
(* The safety of the debug engine for every set of programs, breakpoints   *)
(* and bounds.                                                             *)
(***************************************************************************)
EXTENDS Debugger, FiniteSetTheorems, TLAPS

\* A set of positions of a program has a natural number of elements.
LEMMA PositionsAreCounted ==
  ASSUME NEW n \in Nat, NEW S \in SUBSET (1 .. n)
  PROVE  Cardinality(S) \in Nat
<1>1. IsFiniteSet(1 .. n)
  BY FS_Interval
<1>2. IsFiniteSet(S)
  BY <1>1, FS_Subset
<1> QED
  BY <1>2, FS_CardinalityType

\* Appending a number above all the others keeps a sequence increasing.
LEMMA AppendIncreasing ==
  ASSUME NEW s \in Seq(Nat), NEW x \in Nat,
         \A i \in 1 .. Len(s) : s[i] < x,
         \A i, j \in 1 .. Len(s) : i < j => s[i] < s[j]
  PROVE  LET t == Append(s, x)
         IN  /\ {t[i] : i \in 1 .. Len(t)} = {s[i] : i \in 1 .. Len(s)} \cup {x}
             /\ \A i, j \in 1 .. Len(t) : i < j => t[i] < t[j]
<1> DEFINE n == Len(s)
           t == Append(s, x)
<1>1. /\ n \in Nat /\ Len(t) = n + 1 /\ t[n + 1] = x
      /\ \A i \in 1 .. n : t[i] = s[i]
  OBVIOUS
<1>2. \A i \in 1 .. n : s[i] \in Nat
  OBVIOUS
<1> HIDE DEF t
<1>3. \A i : i \in 1 .. Len(t) <=> i \in 1 .. n \/ i = n + 1
  BY <1>1
<1>4. {t[i] : i \in 1 .. Len(t)} = {s[i] : i \in 1 .. n} \cup {x}
  BY <1>1, <1>3
<1>5. ASSUME NEW i \in 1 .. Len(t), NEW j \in 1 .. Len(t), i < j
      PROVE  t[i] < t[j]
  <2>1. i \in 1 .. n
    BY <1>1, <1>5
  <2> QED
    BY <1>1, <1>2, <1>3, <1>5, <2>1
<1> QED
  BY <1>4, <1>5 DEF t

\* The per-line table has one entry for each source line.
LEMMA PerLinesLength ==
  ASSUME NEW lines \in Seq(LineKinds)
  PROVE  Len(PerLines(lines)) \in Nat
<1> DEFINE S == {i \in 1 .. Len(lines) : Survives(lines[i])}
<1>1. Len(lines) \in Nat
  OBVIOUS
<1>2. Cardinality(S) \in Nat
  BY <1>1, PositionsAreCounted
<1> QED
  BY <1>2 DEF PerLines, At

\* The line numbers found for the gates are source line numbers.
LEMMA GateSourceLinesType ==
  ASSUME NEW qasm \in Seq(LineKinds), NEW lineOf \in Seq(Nat)
  PROVE  GateSourceLines(qasm, lineOf) \in Seq(Nat)
<1> DEFINE S == {i \in 1 .. Len(qasm) : ExecutableQasm(qasm[i])}
           given(i) == IF i \in 1 .. Len(lineOf) THEN lineOf[i] ELSE 0
<1>0. Len(qasm) \in Nat
  OBVIOUS
<1>1. Cardinality(S) \in Nat
  BY <1>0, PositionsAreCounted
<1>2. \A i : given(i) \in Nat
  OBVIOUS
<1>3. [k \in 1 .. Cardinality(S) |-> given(Nth(S, k))] \in Seq(Nat)
  <2> HIDE DEF S, given
  <2> QED BY <1>1, <1>2
<1> QED
  BY <1>3 DEF GateSourceLines

\* The OpenQASM mapping gives lines of the source.
LEMMA OpenQASMMappingType ==
  ASSUME NEW lines \in Seq(LineKinds), NEW qasm \in Seq(LineKinds),
         NEW old \in Seq(SUBSET Int)
  PROVE  OpenQASMMapping(lines, qasm, old) \in Seq(SUBSET Int)
<1> DEFINE source == PerLines(lines)
           target == PerLines(qasm)
           n == Smaller(Len(source), Len(target))
           before(i) ==
             Cardinality({j \in 1 .. i - 1 : ExecutableQasm(target[j])})
           entry(i) == IF /\ i <= n
                          /\ ExecutableQasm(target[IF i <= n THEN i ELSE n])
                       THEN {before(i)} ELSE {}
<1>1. Len(source) \in Nat
  BY PerLinesLength
<1>2. ASSUME NEW i \in 1 .. Len(source)
      PROVE  entry(i) \in SUBSET Int
  <2>1. i - 1 \in Nat
    BY <1>1, <1>2
  <2>2. before(i) \in Nat
    BY <2>1, PositionsAreCounted
  <2> QED
    BY <2>2
<1>3. [i \in 1 .. Len(source) |-> entry(i)] \in Seq(SUBSET Int)
  <2> HIDE DEF entry, source
  <2> QED BY <1>1, <1>2
<1> QED
  BY <1>3 DEF OpenQASMMapping

\* The Python mapping gives lines of the source.
LEMMA PythonMappingType ==
  ASSUME NEW lines \in Seq(LineKinds), NEW qasm
  PROVE  PythonMapping(lines, qasm) \in Seq(SUBSET Int)
<1> DEFINE source == PerLines(lines)
           n == Smaller(Len(source), Len(PerLines(qasm)))
           inside == InDocstring(source)
           mapped(i) == /\ i <= n
                        /\ source[i] \notin {"comment", "doc", "doc1"}
                        /\ ~inside[i]
<1>1. Len(source) \in Nat
  BY PerLinesLength
<1>2. [i \in 1 .. Len(source) |-> IF mapped(i) THEN {i - 1} ELSE {}]
        \in Seq(SUBSET Int)
  <2> HIDE DEF source, mapped
  <2> QED BY <1>1
<1> QED
  BY <1>2 DEF PythonMapping

\* The C++ mapping gives lines of the source.
LEMMA CppMappingType ==
  ASSUME NEW lines \in Seq(LineKinds), NEW table \in Seq(Nat)
  PROVE  CppMapping(lines, table) \in Seq(SUBSET Int)
<1>1. Len(lines) \in Nat
  OBVIOUS
<1>2. \A l : {i - 1 : i \in {k \in 1 .. Len(table) : table[k] = l}} \in SUBSET Int
  OBVIOUS
<1> QED
  BY <1>1, <1>2 DEF CppMapping, PhysicalLines

\* The mapping of any of the languages gives lines of the source.
LEMMA CodeMappingType ==
  ASSUME NEW p \in Program, NEW table \in Seq(Nat), NEW old \in Seq(SUBSET Int)
  PROVE  CodeMapping(p.type, p.lines, p.qasm, table, old) \in Seq(SUBSET Int)
<1>1. p.lines \in Seq(LineKinds) /\ p.qasm \in Seq(LineKinds)
  BY DEF Program
<1> QED
  BY <1>1, OpenQASMMappingType, PythonMappingType, CppMappingType
  DEF CodeMapping

\* The gate lines computed when a program is loaded are line numbers.
LEMMA NewGateLinesType ==
  ASSUME NEW p \in Program
  PROVE  NewGateLines(p) \in Seq(Nat)
<1>1. p.qasm \in Seq(LineKinds) /\ p.lineOf \in Seq(Nat)
  BY DEF Program
<1> QED
  BY <1>1, GateSourceLinesType DEF NewGateLines

\* The source lines computed when a program is loaded are line numbers.
LEMMA SourceLinesType ==
  ASSUME NEW p \in Program
  PROVE  SourceLines(p) \in Nat
<1>1. Len(p.lines) \in Nat
  BY DEF Program
<1>2. Cardinality({i \in 1 .. Len(p.lines) : p.lines[i] # "blank"}) \in Nat
  BY <1>1, PositionsAreCounted
<1> QED
  BY <1>1, <1>2 DEF SourceLines, NumberOfLines, PhysicalLines

-----------------------------------------------------------------------------
(* The inductive invariant of the engine.                                  *)

\* A live iterator always has the engine that was made with it.
EngineReady == Ready /\ mIt # Stale => engine = "some"

\* The index into the table of lines never gets ahead of the iterator.
IndexBehind == Ready /\ mIt # Stale => execIndex <= mIt - 1

EngineInv ==
  /\ QVMTypeOK
  /\ EngineReady
  /\ IndexBehind
  /\ ExecutedInOrder
  /\ InstructionModeLine

\* A step that leaves the engine's variables alone keeps its invariant.
LEMMA EngineInvStutters ==
  ASSUME EngineInv, UNCHANGED qvmVars, crashed' \in BOOLEAN
  PROVE  EngineInv'
<1>1. QVMTypeOK'
  BY DEF EngineInv, QVMTypeOK, qvmVars
<1>2. EngineReady' /\ IndexBehind' /\ InstructionModeLine'
  BY DEF EngineInv, EngineReady, IndexBehind, InstructionModeLine, Ready,
         InstructionMode, qvmVars
<1>3. ExecutedInOrder'
  BY DEF EngineInv, ExecutedInOrder, Ready, qvmVars
<1> QED
  BY <1>1, <1>2, <1>3 DEF EngineInv

\* A new engine satisfies its invariant.
LEMMA InitEngineInv == Init => EngineInv
<1> SUFFICES ASSUME Init PROVE EngineInv
  OBVIOUS
<1>1. QVMTypeOK
  <2>1. NoCircuit \in [steps : Nat, bad : SUBSET Nat, present : BOOLEAN]
    BY DEF NoCircuit
  <2>2. currentLine \in Int
    BY BoundsAssumption DEF Init
  <2>3. <<>> \in Seq(Nat) /\ <<>> \in Seq(SUBSET Int)
    OBVIOUS
  <2> QED
    BY <2>1, <2>2, <2>3 DEF Init, QVMTypeOK, Stale
<1>2. ~Ready
  BY DEF Init, Ready
<1> QED
  BY <1>1, <1>2 DEF EngineInv, EngineReady, IndexBehind, ExecutedInOrder,
                    InstructionModeLine

\* The mapping after a look at a program gives lines of the source.
LEMMA MapAfterType ==
  ASSUME NEW p \in Programs, NEW old \in Seq(SUBSET Int)
  PROVE  MapAfter(p, old) \in Seq(SUBSET Int)
<1>1. p \in Program
  BY ProgramsAssumption
<1>2. NewGateLines(p) \in Seq(Nat)
  BY <1>1, NewGateLinesType
<1> QED
  BY <1>1, <1>2, CodeMappingType DEF MapAfter

\* The circuit after a look at a program is a circuit.
LEMMA CircuitAfterType ==
  ASSUME NEW p \in Programs,
         NEW old \in [steps : Nat, bad : SUBSET Nat, present : BOOLEAN]
  PROVE  CircuitAfter(p, old)
           \in [steps : Nat, bad : SUBSET Nat, present : BOOLEAN]
<1>1. p \in Program
  BY ProgramsAssumption
<1> QED
  BY <1>1 DEF CircuitAfter, CircuitOf, Program

\* Whether a program loads is a Boolean.
LEMMA LoadedType ==
  ASSUME NEW p \in Programs
  PROVE  Loaded(p) \in BOOLEAN
<1>1. p \in Program
  BY ProgramsAssumption
<1> QED
  BY <1>1 DEF Loaded, Prepared, Program

\* Loading the source leaves the engine's tables well-typed.
LEMMA LoadSourceCodeTypes ==
  ASSUME QVMTypeOK, NEW p \in Programs, LoadSourceCode(p)
  PROVE  /\ circuit' \in [steps : Nat, bad : SUBSET Nat, present : BOOLEAN]
         /\ parsed' \in BOOLEAN
         /\ sourceMap' \in Seq(SUBSET Int)
         /\ gateLines' \in Seq(Nat)
         /\ ~Loaded(p) => ~parsed'
         /\ Loaded(p) => circuit' = CircuitOf(p)
<1>1. gateLines' \in Seq(Nat)
  BY ProgramsAssumption, NewGateLinesType DEF LoadSourceCode
<1>2. sourceMap' \in Seq(SUBSET Int)
  BY MapAfterType DEF LoadSourceCode, QVMTypeOK
<1>3. circuit' \in [steps : Nat, bad : SUBSET Nat, present : BOOLEAN]
  BY CircuitAfterType DEF LoadSourceCode, QVMTypeOK
<1> QED
  BY <1>1, <1>2, <1>3, LoadedType DEF LoadSourceCode, CircuitAfter

\* So does loading it twice.
LEMMA LoadTwiceTypes ==
  ASSUME QVMTypeOK, NEW p \in Programs, NEW q \in Programs, LoadTwice(p, q)
  PROVE  /\ circuit' \in [steps : Nat, bad : SUBSET Nat, present : BOOLEAN]
         /\ parsed' \in BOOLEAN
         /\ sourceMap' \in Seq(SUBSET Int)
         /\ gateLines' \in Seq(Nat)
         /\ parsed' => Loaded(q)
<1>1. gateLines' \in Seq(Nat)
  BY ProgramsAssumption, NewGateLinesType DEF LoadTwice
<1>2. sourceMap' \in Seq(SUBSET Int)
  <2>1. MapAfter(p, sourceMap) \in Seq(SUBSET Int)
    BY MapAfterType DEF QVMTypeOK
  <2> QED
    BY <2>1, MapAfterType DEF LoadTwice
<1>3. circuit' \in [steps : Nat, bad : SUBSET Nat, present : BOOLEAN]
  <2>1. CircuitAfter(p, circuit)
          \in [steps : Nat, bad : SUBSET Nat, present : BOOLEAN]
    BY CircuitAfterType DEF QVMTypeOK
  <2> QED
    BY <2>1, CircuitAfterType DEF LoadTwice
<1> QED
  BY <1>1, <1>2, <1>3, LoadedType DEF LoadTwice

\* A launch, successful or not, keeps the engine's invariant.
LEMMA LaunchKeepsEngineInv ==
  ASSUME EngineInv, NEW p \in Programs, NEW noDebug, Launch(p, noDebug)
  PROVE  EngineInv'
<1>1. p \in Program
  BY ProgramsAssumption
<1>2. ASSUME QVMTypeOK', ~parsed' \/ mIt' = Stale
      PROVE  EngineInv'
  BY <1>2 DEF EngineInv, EngineReady, IndexBehind, ExecutedInOrder,
              InstructionModeLine, Ready
<1>4. CASE RunAtOnce(p)
  <2>1. LoadSourceCode(p) /\ mIt' = Stale
    BY <1>4 DEF RunAtOnce
  <2>2. executed' \in Seq(Nat)
    <3>1. p.steps \in Nat
      BY <1>1 DEF Program
    <3>2. [i \in 1 .. p.steps |-> i] \in Seq(Nat)
      BY <3>1
    <3> QED
      BY <1>4, <3>2 DEF RunAtOnce
  <2>3. QVMTypeOK'
    <3>1. mIt' \in Nat
      BY <2>1 DEF Stale
    <3>2. /\ execIndex' \in Nat /\ currentLine' \in Int /\ crashed' \in BOOLEAN
          /\ engine' \in {"none", "some"}
      BY <1>4 DEF RunAtOnce, EngineInv, QVMTypeOK
    <3> QED
      BY <2>1, <2>2, <3>1, <3>2, LoadSourceCodeTypes DEF EngineInv, QVMTypeOK
  <2> QED
    BY <1>2, <2>1, <2>3
<1>5. ASSUME NEW q \in Programs, RunOnSecondLook(p, q)
      PROVE  EngineInv'
  <2>1. LoadTwice(p, q)
    BY <1>5 DEF RunOnSecondLook
  <2>2. QVMTypeOK'
    <3>1. mIt' \in Nat
      BY <1>5 DEF RunOnSecondLook, EngineInv, QVMTypeOK, Stale
    <3>2. UNCHANGED <<engine, executed, execIndex, currentLine, crashed>>
      BY <1>5 DEF RunOnSecondLook
    <3> QED
      BY <2>1, <3>1, <3>2, LoadTwiceTypes DEF EngineInv, QVMTypeOK
  <2>3. ~parsed' \/ mIt' = Stale
    BY <1>5, <2>1, LoadTwiceTypes DEF RunOnSecondLook, EngineInv
  <2> QED
    BY <1>2, <2>2, <2>3
<1>6. CASE LaunchDies(p, noDebug)
  BY <1>6, EngineInvStutters DEF LaunchDies
<1>3. CASE LaunchDebug(p)
  <2>1. LoadSourceCode(p)
    BY <1>3 DEF LaunchDebug
  <2>2. QVMTypeOK'
    <3>1. gateLines' \in Seq(Nat)
      BY <2>1, LoadSourceCodeTypes DEF EngineInv
    <3>2. mIt' \in Nat /\ execIndex' \in Nat /\ engine' \in {"none", "some"}
      BY <1>3 DEF LaunchDebug, EngineInv, QVMTypeOK
    <3>3. executed' \in Seq(Nat) /\ crashed' \in BOOLEAN
      <4>1. executed \in Seq(Nat) /\ <<>> \in Seq(Nat)
        BY DEF EngineInv, QVMTypeOK
      <4>2. executed' = executed \/ executed' = <<>>
        BY <1>3 DEF LaunchDebug
      <4> QED
        BY <1>3, <4>1, <4>2 DEF LaunchDebug
    <3>4. gateLines' # <<>> => gateLines'[1] \in Nat
      BY <3>1
    <3>5. currentLine' \in Int
      <4>1. currentLine \in Int
        BY DEF EngineInv, QVMTypeOK
      <4>2. \/ currentLine' = currentLine
            \/ currentLine' = 1
            \/ gateLines' # <<>> /\ currentLine' = gateLines'[1]
        <5>1. CASE LaunchResult(p) = "noFile"
          BY <1>3, <5>1 DEF LaunchDebug
        <5>2. CASE LaunchResult(p) # "noFile"
          <6>1. currentLine' = IF Loaded(p) /\ gateLines' # <<>>
                              THEN IF gateLines'[1] > 0 THEN gateLines'[1] ELSE 1
                              ELSE currentLine
            BY <1>3, <5>2 DEF LaunchDebug
          <6> QED
            BY <6>1
        <5> QED
          BY <5>1, <5>2
      <4> QED
        BY <3>4, <4>1, <4>2
    <3> QED
      BY <2>1, <3>1, <3>2, <3>3, <3>5, LoadSourceCodeTypes
      DEF EngineInv, QVMTypeOK
  <2>3. CASE ~Loaded(p)
    <3>1. ~parsed'
      BY <2>1, <2>3, LoadSourceCodeTypes DEF EngineInv
    <3> QED
      BY <2>2, <3>1 DEF EngineInv, EngineReady, IndexBehind,
                        ExecutedInOrder, InstructionModeLine, Ready
  <2>4. CASE Loaded(p)
    <3>1. LaunchResult(p) # "noFile"
      BY <2>4 DEF Loaded, LaunchResult, Prepared
    <3>2. /\ engine' = "some" /\ mIt' = 1 /\ execIndex' = 0
          /\ executed' = <<>>
          /\ currentLine' = IF gateLines' # <<>>
                            THEN IF gateLines'[1] > 0 THEN gateLines'[1] ELSE 1
                            ELSE currentLine
          /\ circuit' = CircuitOf(p)
      BY <1>3, <2>1, <2>4, <3>1 DEF LaunchDebug, LoadSourceCode, CircuitAfter
    <3>3. p.steps \in Nat
      BY <1>1 DEF Program
    <3> QED
      BY <2>2, <3>2, <3>3
      DEF EngineInv, EngineReady, IndexBehind, ExecutedInOrder,
          InstructionModeLine, InstructionMode, CircuitOf
  <2> QED
    BY <2>3, <2>4
<1> QED
  BY <1>3, <1>4, <1>5, <1>6 DEF Launch, LaunchRun

\* The positions up to n are those before n, and n.
LEMMA IntervalGrows ==
  ASSUME NEW n \in Nat \ {0}
  PROVE  1 .. n = (1 .. n - 1) \cup {n}
OBVIOUS

\* What one execution of the instruction at the iterator does to the history.
LEMMA ExecuteNextKeepsHistory ==
  ASSUME EngineInv, Ready, NEW ok \in BOOLEAN, ExecuteNext(ok),
         execIndex' \in {execIndex, execIndex + 1},
         UNCHANGED <<circuit, parsed, engine>>
  PROVE  /\ executed' \in Seq(Nat) /\ mIt' \in Nat
         /\ EngineReady' /\ IndexBehind' /\ ExecutedInOrder'
<1> USE DEF EngineInv, QVMTypeOK
<1>1. /\ mIt \in Nat /\ mIt # Stale /\ mIt <= circuit.steps
      /\ mIt' = mIt + 1 /\ circuit.steps \in Nat /\ engine = "some"
      /\ executed' = IF ok THEN Append(executed, mIt) ELSE executed
      /\ ok = (mIt \notin circuit.bad)
  BY DEF ExecuteNext, AtEnd
<1>2. executed' \in Seq(Nat)
  BY <1>1
<1>3. IndexBehind'
  <2>1. execIndex <= mIt - 1 /\ execIndex \in Nat
    BY <1>1 DEF IndexBehind
  <2> QED
    BY <1>1, <2>1 DEF IndexBehind
<1>4. ExecutedInOrder'
  <2>1. /\ {executed[i] : i \in 1 .. Len(executed)} = (1 .. mIt - 1) \ circuit.bad
        /\ \A i, j \in 1 .. Len(executed) : i < j => executed[i] < executed[j]
    BY <1>1 DEF ExecutedInOrder
  <2>2. 1 .. mIt' - 1 = (1 .. mIt - 1) \cup {mIt}
    <3>1. mIt \in Nat \ {0} /\ mIt' - 1 = mIt
      BY <1>1 DEF Stale
    <3> QED
      BY <3>1, IntervalGrows
  <2>3. CASE ~ok
    <3>1. (1 .. mIt' - 1) \ circuit.bad = (1 .. mIt - 1) \ circuit.bad
      BY <1>1, <2>2, <2>3
    <3> QED
      BY <1>1, <2>1, <2>3, <3>1 DEF ExecutedInOrder
  <2>4. CASE ok
    <3>1. \A i \in 1 .. Len(executed) : executed[i] < mIt
      <4>1. \A i \in 1 .. Len(executed) : executed[i] \in 1 .. mIt - 1
        BY <2>1
      <4> QED
        BY <1>1, <4>1
    <3>2. (1 .. mIt' - 1) \ circuit.bad = ((1 .. mIt - 1) \ circuit.bad) \cup {mIt}
      BY <1>1, <2>2, <2>4
    <3>3. executed' = Append(executed, mIt)
      BY <1>1, <2>4
    <3>4. /\ {executed'[i] : i \in 1 .. Len(executed')}
               = {executed[i] : i \in 1 .. Len(executed)} \cup {mIt}
          /\ \A i, j \in 1 .. Len(executed') : i < j => executed'[i] < executed'[j]
      <4>1. LET t == Append(executed, mIt)
            IN  /\ {t[i] : i \in 1 .. Len(t)}
                     = {executed[i] : i \in 1 .. Len(executed)} \cup {mIt}
                /\ \A i, j \in 1 .. Len(t) : i < j => t[i] < t[j]
        <5>1. executed \in Seq(Nat)
          OBVIOUS
        <5> HIDE DEF EngineInv, QVMTypeOK
        <5> QED
          BY <1>1, <2>1, <3>1, <5>1, AppendIncreasing
      <4> QED
        BY <3>3, <4>1
    <3>5. {executed'[i] : i \in 1 .. Len(executed')} = (1 .. mIt' - 1) \ circuit'.bad
      BY <2>1, <3>2, <3>4
    <3> QED
      BY <3>4, <3>5 DEF ExecutedInOrder
  <2> QED
    BY <2>3, <2>4
<1> QED
  BY <1>1, <1>2, <1>3, <1>4 DEF EngineReady

\* A step over a program that was not parsed keeps the engine's invariant.
LEMMA StepUnparsedKeepsEngineInv ==
  ASSUME EngineInv, NEW result, StepUnparsed(result)
  PROVE  EngineInv'
<1>1. ~Ready'
  BY DEF StepUnparsed, Ready
<1>2. QVMTypeOK'
  BY DEF StepUnparsed, EngineInv, QVMTypeOK
<1> QED
  BY <1>1, <1>2 DEF EngineInv, EngineReady, IndexBehind, ExecutedInOrder,
                    InstructionModeLine

\* A step that leaves the circuit alone and moves the history the way the
\* engine does keeps the invariant, if it also keeps the two types and the
\* line of the next instruction.
LEMMA HistoryStepKeepsEngineInv ==
  ASSUME EngineInv, Ready, NEW ok \in BOOLEAN,
         \/ ExecuteNext(ok) /\ execIndex' \in {execIndex, execIndex + 1}
         \/ ExecuteStray
         \/ UNCHANGED <<executed, mIt, execIndex>>,
         UNCHANGED <<circuit, parsed, engine, sourceMap, gateLines, crashed>>,
         execIndex' \in Nat, currentLine' \in Int,
         InstructionModeLine'
  PROVE  EngineInv'
<1>1. /\ executed' \in Seq(Nat) /\ mIt' \in Nat
      /\ EngineReady' /\ IndexBehind' /\ ExecutedInOrder'
  <2>1. CASE ExecuteNext(ok) /\ execIndex' \in {execIndex, execIndex + 1}
    BY <2>1, ExecuteNextKeepsHistory
  <2>2. CASE ExecuteStray
    <3>1. mIt' = Stale /\ executed' = <<0>>
      BY <2>2 DEF ExecuteStray
    <3>2. <<0>> \in Seq(Nat)
      OBVIOUS
    <3> QED
      BY <3>1, <3>2 DEF EngineReady, IndexBehind, ExecutedInOrder, Stale
  <2>3. CASE UNCHANGED <<executed, mIt, execIndex>>
    <3>1. executed' \in Seq(Nat) /\ mIt' \in Nat
      BY <2>3 DEF EngineInv, QVMTypeOK
    <3>2. EngineReady' /\ IndexBehind'
      BY <2>3 DEF EngineInv, EngineReady, IndexBehind, Ready
    <3>3. ExecutedInOrder'
      BY <2>3 DEF EngineInv, ExecutedInOrder, Ready
    <3> QED
      BY <3>1, <3>2, <3>3
  <2> QED
    BY <2>1, <2>2, <2>3
<1>2. QVMTypeOK'
  BY <1>1 DEF EngineInv, QVMTypeOK
<1> QED
  BY <1>1, <1>2 DEF EngineInv

\* The death of the process keeps the engine's invariant.
LEMMA DiesKeepsEngineInv ==
  ASSUME EngineInv, Dies
  PROVE  EngineInv'
BY EngineInvStutters DEF Dies

\* The line shown after an instruction is a line number.
LEMMA LineAfterType ==
  ASSUME EngineInv, NEW index \in Nat
  PROVE  LineAfter(index) \in Int
BY DEF EngineInv, QVMTypeOK, LineAfter

\* A step by one instruction keeps the engine's invariant.
LEMMA StepInstructionKeepsEngineInv ==
  ASSUME EngineInv, NEW result, StepInstruction(result)
  PROVE  EngineInv'
<1> USE DEF StepInstruction
<1>0. Ready /\ execIndex \in Nat /\ currentLine \in Int /\ mIt \in Nat
  BY DEF EngineInv, QVMTypeOK
<1>1. CASE UNCHANGED <<qvmVars, crashed>>
  BY <1>1, EngineInvStutters DEF EngineInv, QVMTypeOK
<1>2. CASE /\ ExecuteNext(TRUE) \/ ExecuteStray
           /\ execIndex' = execIndex + 1
           /\ currentLine' = LineAfter(execIndex + 1)
           /\ UNCHANGED <<circuit, parsed, engine, sourceMap, gateLines, crashed>>
  <2>1. execIndex' \in Nat /\ currentLine' \in Int
    BY <1>0, <1>2, LineAfterType
  <2>2. InstructionModeLine'
    <3>1. CASE ExecuteStray
      BY <3>1 DEF ExecuteStray, InstructionModeLine
    <3>2. CASE ExecuteNext(TRUE)
      <4>1. mIt' = mIt + 1 /\ mIt # Stale
        BY <3>2 DEF ExecuteNext
      <4> QED
        BY <1>0, <1>2, <4>1
        DEF EngineInv, InstructionModeLine, LineAfter, Ready, InstructionMode
    <3> QED
      BY <1>2, <3>1, <3>2
  <2> QED
    BY <1>0, <1>2, <2>1, <2>2, HistoryStepKeepsEngineInv
<1>3. CASE /\ ExecuteNext(FALSE)
           /\ UNCHANGED <<execIndex, currentLine>>
           /\ UNCHANGED <<circuit, parsed, engine, sourceMap, gateLines, crashed>>
  <2>1. circuit'.bad # {}
    BY <1>3 DEF ExecuteNext
  <2>2. InstructionModeLine'
    BY <2>1 DEF InstructionModeLine
  <2> QED
    BY <1>0, <1>3, <2>2, HistoryStepKeepsEngineInv
<1>4. CASE Dies
  BY <1>4, DiesKeepsEngineInv
<1> QED
  BY <1>1, <1>2, <1>3, <1>4

\* A step to the next source line keeps the engine's invariant.
LEMMA StepLineKeepsEngineInv ==
  ASSUME EngineInv, NEW result, StepLine(result)
  PROVE  EngineInv'
<1> USE DEF StepLine
<1>0. Ready /\ execIndex \in Nat /\ LineToStep \in Int /\ LineStepped \in Int
  BY DEF EngineInv, QVMTypeOK, LineToStep, LineStepped
<1>1. CASE UNCHANGED <<qvmVars, crashed>>
  BY <1>1, EngineInvStutters DEF EngineInv, QVMTypeOK
<1>2. CASE /\ \/ ExecuteNext(TRUE) \/ ExecuteNext(FALSE)
              \/ ExecuteStray \/ UNCHANGED <<executed, mIt>>
           /\ currentLine' = LineStepped \/ currentLine' = LineToStep
           /\ UNCHANGED <<circuit, parsed, engine, execIndex, sourceMap,
                          gateLines, crashed>>
  <2>1. execIndex' \in Nat /\ currentLine' \in Int
    BY <1>0, <1>2
  <2>2. InstructionModeLine'
    BY <1>2 DEF InstructionModeLine, InstructionMode
  <2> QED
    BY <1>0, <1>2, <2>1, <2>2, HistoryStepKeepsEngineInv
<1>3. CASE Dies
  BY <1>3, DiesKeepsEngineInv
<1> QED
  BY <1>1, <1>2, <1>3

\* A step of either granularity keeps the engine's invariant.
LEMMA StepKeepsEngineInv ==
  ASSUME EngineInv, NEW result, StepForward(result)
  PROVE  EngineInv'
BY StepUnparsedKeepsEngineInv, StepInstructionKeepsEngineInv,
   StepLineKeepsEngineInv DEF StepForward

\* A continue keeps the engine's invariant.
LEMMA ContinueLinesKeepsEngineInv ==
  ASSUME EngineInv, SessionTypeOK, ContinueLines
  PROVE  EngineInv'
<1>1. currentLine' \in Int
  <2>1. currentLine \in Int
    BY DEF EngineInv, QVMTypeOK
  <2>2. ASSUME NEW i \in 0 .. numLines - 1
        PROVE  ScannedLine(i) \in Int
    <3>1. numLines \in Nat \ {0} /\ i \in Nat
      BY <2>2 DEF SessionTypeOK
    <3> QED
      BY <2>1, <3>1 DEF ScannedLine, Rem
  <2> QED
    BY <2>1, <2>2 DEF ContinueLines
<1>2. UNCHANGED <<circuit, parsed, engine, executed, mIt, execIndex, sourceMap,
                 gateLines, crashed>>
  BY DEF ContinueLines
<1>3. QVMTypeOK'
  BY <1>1, <1>2 DEF EngineInv, QVMTypeOK
<1>4. EngineReady' /\ IndexBehind'
  BY <1>2 DEF EngineInv, EngineReady, IndexBehind, Ready
<1>5. ExecutedInOrder'
  BY <1>2 DEF EngineInv, ExecutedInOrder, Ready
<1>6. InstructionModeLine'
  BY <1>2 DEF ContinueLines, InstructionModeLine, InstructionMode
<1> QED
  BY <1>3, <1>4, <1>5, <1>6 DEF EngineInv

\* Every step of the debugger keeps the engine's invariant.
LEMMA NextKeepsEngineInv ==
  ASSUME EngineInv, SessionTypeOK, [Next]_vars
  PROVE  EngineInv'
<1>0. crashed \in BOOLEAN
  BY DEF EngineInv, QVMTypeOK
<1>1. ASSUME NEW p \in Programs, NEW noDebug \in NoDebug, Launch(p, noDebug)
      PROVE  EngineInv'
  BY <1>1, LaunchKeepsEngineInv
<1>2. CASE Next_Request \/ StepIn \/ ContinueIterate
  BY <1>2, StepKeepsEngineInv DEF Next_Request, StepIn, ContinueIterate
<1>3. CASE ContinueLines
  BY <1>3, ContinueLinesKeepsEngineInv
<1>4. CASE \/ \E lines \in BreakpointSets : SetBreakpoints(lines)
           \/ ContinueInstructions \/ ContinueGivesUp \/ Pause
           \/ UNCHANGED vars
  <2>1. UNCHANGED <<qvmVars, crashed>>
    BY <1>4 DEF SetBreakpoints, ContinueInstructions, ContinueGivesUp, Pause, vars
  <2> QED
    BY <1>0, <2>1, EngineInvStutters
<1> QED
  BY <1>1, <1>2, <1>3, <1>4 DEF Next

-----------------------------------------------------------------------------
(* The types of the session's side.                                        *)

\* Messages appended to the messages sent are messages.
LEMMA AppendMessages ==
  /\ <<>> \in Seq(Messages)
  /\ \A m \in Messages : <<m>> \in Seq(Messages)
  /\ \A m, n \in Messages : <<m>> \o <<n>> \in Seq(Messages)
  /\ \A m \in Messages : <<m>> \o <<>> \in Seq(Messages)
OBVIOUS

\* Every step keeps the session's variables well-typed.
LEMMA NextKeepsSessionTypeOK ==
  ASSUME TypeOK, [Next]_vars
  PROVE  SessionTypeOK'
<1> USE DEF TypeOK, SessionTypeOK
<1>1. ASSUME NEW p \in Programs, NEW noDebug \in NoDebug, Launch(p, noDebug)
      PROVE  SessionTypeOK'
  <2>1. CASE LaunchDies(p, noDebug)
    BY <2>1 DEF LaunchDies, dbgVars
  <2>2. ASSUME NEW q \in Programs, LaunchEpilogue(q), launches < MaxLaunches
        PROVE  SessionTypeOK'
    <3>1. numLines' \in Nat
      BY <2>2, ProgramsAssumption, SourceLinesType DEF LaunchEpilogue
    <3>2. launches' \in 0 .. MaxLaunches
      BY <2>2, BoundsAssumption DEF LaunchEpilogue
    <3>3. out' \in Seq(Messages)
      BY <2>2, AppendMessages DEF LaunchEpilogue, Messages
    <3> QED
      BY <2>2, <3>1, <3>2, <3>3 DEF LaunchEpilogue
  <2>3. \/ LaunchDies(p, noDebug)
        \/ \E q \in Programs : LaunchEpilogue(q) /\ launches < MaxLaunches
    BY <1>1 DEF Launch, LaunchRun, RunAtOnce, RunOnSecondLook, LaunchDebug
  <2> QED
    BY <2>1, <2>2, <2>3
<1>2. ASSUME NEW lines \in BreakpointSets, SetBreakpoints(lines)
      PROVE  SessionTypeOK'
  <2>1. lines \subseteq Nat
    BY <1>2, BoundsAssumption
  <2> QED
    BY <1>2, <2>1, AppendMessages DEF SetBreakpoints
<1>3. CASE Next_Request
  <2>1. out' \in Seq(Messages)
    <3>1. PICK result \in {-1, 0, 1} :
            out' = <<"step">> \o (CASE result = -1 -> <<"terminated">>
                                    [] result = 1  -> <<"output">>
                                    [] OTHER       -> <<>>)
      BY <1>3 DEF Next_Request
    <3>2. \/ out' = <<"step">> \o <<"terminated">>
          \/ out' = <<"step">> \o <<"output">>
          \/ out' = <<"step">> \o <<>>
      <4>1. CASE result = -1
        BY <3>1, <4>1
      <4>2. CASE result = 0
        BY <3>1, <4>2
      <4>3. CASE result = 1
        BY <3>1, <4>3
      <4> QED
        BY <4>1, <4>2, <4>3
    <3> QED
      BY <3>2, AppendMessages DEF Messages
  <2> QED
    BY <1>3, <2>1 DEF Next_Request, dbgVars
<1>4. CASE StepIn \/ Pause
  <2>1. out' \in Seq(Messages)
    BY <1>4, AppendMessages DEF StepIn, Pause, Messages
  <2> QED
    BY <1>4, <2>1 DEF StepIn, Pause, dbgVars
<1>5. CASE ContinueLines
  <2>1. out' \in Seq(Messages)
    <3>1. out' = <<>> \/ out' = <<"breakpoint">>
      BY <1>5 DEF ContinueLines
    <3> QED
      BY <3>1, AppendMessages DEF Messages
  <2> QED
    BY <1>5, <2>1 DEF ContinueLines, dbgVars
<1>6. CASE ContinueInstructions
  <2>1. 0 \in -1 .. ContinueGuard
    BY BoundsAssumption
  <2> QED
    BY <1>6, <2>1, AppendMessages DEF ContinueInstructions
<1>7. CASE ContinueIterate
  <2>1. running \in 0 .. ContinueGuard - 1
    BY <1>7 DEF ContinueIterate, LoopRuns
  <2>2. /\ running' = -1 \/ running' = running + 1
        /\ out' = out \/ out' = <<"terminated">> \/ out' = <<"breakpoint">>
        /\ UNCHANGED <<numLines, breakpoints, verified, launches>>
    BY <1>7 DEF ContinueIterate
  <2>3. running' \in -1 .. ContinueGuard
    BY <2>1, <2>2, BoundsAssumption
  <2>4. out' \in Seq(Messages)
    BY <2>2, AppendMessages DEF Messages
  <2> QED
    BY <2>2, <2>3, <2>4
<1>8. CASE ContinueGivesUp
  <2>1. -1 \in -1 .. ContinueGuard
    BY BoundsAssumption
  <2> QED
    BY <1>8, <2>1 DEF ContinueGivesUp
<1>9. CASE UNCHANGED vars
  BY <1>9 DEF vars, dbgVars
<1> QED
  BY <1>1, <1>2, <1>3, <1>4, <1>5, <1>6, <1>7, <1>8, <1>9 DEF Next

-----------------------------------------------------------------------------
(* Termination and breakpoints.                                            *)

\* While a Continue runs nothing has been reported yet.
QuietWhileRunning == running >= 0 => out = <<>>

IInv ==
  /\ EngineInv
  /\ SessionTypeOK
  /\ QuietWhileRunning
  /\ TerminatedMeansDone
  /\ ContinueSkipsNoBreakpoint

\* Only the end of the program makes a step answer -1, and it changes nothing.
LEMMA EndOfProgram ==
  ASSUME EngineInv, StepForward(-1)
  PROVE  /\ UNCHANGED <<qvmVars, crashed>>
         /\ InstructionMode /\ mIt # Stale
            => \A k \in 1 .. Smaller(circuit.steps, Len(gateLines)) :
                 \/ k \in circuit.bad
                 \/ \E i \in 1 .. Len(executed) : executed[i] = k
<1>1. StepInstruction(-1) \/ StepLine(-1)
  BY DEF StepForward, StepUnparsed
<1>2. Ready /\ UNCHANGED <<qvmVars, crashed>>
  BY <1>1 DEF StepInstruction, StepLine
<1>3. InstructionMode => AtEnd \/ mIt = Stale \/ TableExhausted
  BY <1>1 DEF StepInstruction, StepLine
<1>4. ASSUME InstructionMode, mIt # Stale,
             NEW k \in 1 .. Smaller(circuit.steps, Len(gateLines)),
             k \notin circuit.bad
      PROVE  \E i \in 1 .. Len(executed) : executed[i] = k
  <2>1. /\ mIt \in Nat /\ execIndex \in Nat /\ circuit.steps \in Nat
        /\ Len(gateLines) \in Nat
    BY DEF EngineInv, QVMTypeOK
  <2>2. k \in Nat /\ k >= 1 /\ k <= circuit.steps /\ k <= Len(gateLines)
    BY <1>4, <2>1 DEF Smaller
  <2>3. execIndex <= mIt - 1
    BY <1>2, <1>4 DEF EngineInv, IndexBehind
  <2>4. k \in (1 .. mIt - 1) \ circuit.bad
    BY <1>3, <1>4, <2>1, <2>2, <2>3 DEF AtEnd, TableExhausted
  <2>5. {executed[i] : i \in 1 .. Len(executed)} = (1 .. mIt - 1) \ circuit.bad
    BY <1>2, <1>4 DEF EngineInv, ExecutedInOrder
  <2> QED
    BY <2>4, <2>5
<1> QED
  BY <1>2, <1>4

\* Only the replies that end in a terminated event have it last.
LEMMA LastMessage ==
  /\ <<"output">>[Len(<<"output">>)] # "terminated"
  /\ <<"step">>[Len(<<"step">>)] # "terminated"
  /\ <<"pause">>[Len(<<"pause">>)] # "terminated"
  /\ <<"breakpoint">>[Len(<<"breakpoint">>)] # "terminated"
  /\ LET m == <<"step">> \o <<"output">> IN m[Len(m)] # "terminated"
  /\ LET m == <<"step">> \o <<>> IN m[Len(m)] # "terminated"
OBVIOUS

\* Every step keeps it true that a terminated program has run, and that a
\* running Continue has sent nothing yet.
LEMMA NextKeepsTerminatedMeansDone ==
  ASSUME IInv, [Next]_vars
  PROVE  TerminatedMeansDone' /\ QuietWhileRunning'
<1> DEFINE Silent == out' = <<>> \/ out'[Len(out')] # "terminated"
<1> USE DEF IInv
<1>1. ASSUME Silent PROVE TerminatedMeansDone'
  BY <1>1 DEF TerminatedMeansDone
<1>2. ASSUME StepForward(-1) PROVE TerminatedMeansDone'
  <2>1. /\ UNCHANGED qvmVars
        /\ InstructionMode /\ mIt # Stale
           => \A k \in 1 .. Smaller(circuit.steps, Len(gateLines)) :
                \/ k \in circuit.bad
                \/ \E i \in 1 .. Len(executed) : executed[i] = k
    BY <1>2, EndOfProgram
  <2> QED
    BY <2>1 DEF TerminatedMeansDone, InstructionMode, qvmVars
<1>3. ASSUME NEW p \in Programs, NEW noDebug \in NoDebug, Launch(p, noDebug)
      PROVE  TerminatedMeansDone' /\ QuietWhileRunning'
  <2>1. CASE LaunchDies(p, noDebug)
    BY <2>1 DEF LaunchDies, qvmVars, dbgVars, TerminatedMeansDone,
                InstructionMode, QuietWhileRunning
  <2>2. CASE ~LaunchDies(p, noDebug)
    <3>1. out' = <<"output">> /\ running' = -1
      BY <1>3, <2>2 DEF Launch, LaunchRun, RunAtOnce, RunOnSecondLook,
                        LaunchDebug, LaunchEpilogue, Idle
    <3> QED
      BY <1>1, <3>1, LastMessage DEF QuietWhileRunning
  <2> QED
    BY <2>1, <2>2
<1>4. CASE Next_Request
  <2>1. running' = -1
    BY <1>4 DEF Next_Request, Idle, dbgVars
  <2>2. PICK result \in {-1, 0, 1} :
          /\ StepForward(result)
          /\ out' = <<"step">> \o (CASE result = -1 -> <<"terminated">>
                                     [] result = 1  -> <<"output">>
                                     [] OTHER       -> <<>>)
    BY <1>4 DEF Next_Request
  <2>3. CASE result = -1
    BY <1>2, <2>1, <2>2, <2>3 DEF QuietWhileRunning
  <2>4. CASE result = 0
    <3>1. out' = <<"step">> \o <<>>
      BY <2>2, <2>4
    <3> QED
      BY <1>1, <2>1, <3>1, LastMessage DEF QuietWhileRunning
  <2>5. CASE result = 1
    <3>1. out' = <<"step">> \o <<"output">>
      BY <2>2, <2>5
    <3> QED
      BY <1>1, <2>1, <3>1, LastMessage DEF QuietWhileRunning
  <2> QED
    BY <2>3, <2>4, <2>5
<1>5. CASE \/ StepIn \/ Pause \/ ContinueLines
           \/ \E lines \in BreakpointSets : SetBreakpoints(lines)
  <2>1. /\ running' = -1
        /\ \/ out' = <<>> \/ out' = <<"step">>
           \/ out' = <<"pause">> \/ out' = <<"breakpoint">>
    BY <1>5 DEF StepIn, Pause, ContinueLines, SetBreakpoints, Idle, dbgVars
  <2> QED
    BY <1>1, <2>1, LastMessage DEF QuietWhileRunning
<1>6. CASE ContinueInstructions
  BY <1>1, <1>6 DEF ContinueInstructions, QuietWhileRunning
<1>7. CASE ContinueIterate
  <2>1. out = <<>> /\ running >= 0
    BY <1>7, BoundsAssumption DEF ContinueIterate, LoopRuns, QuietWhileRunning
  <2>2. PICK result \in {-1, 0, 1} :
          /\ StepForward(result)
          /\ \/ result = -1 /\ running' = -1 /\ out' = <<"terminated">>
             \/ running' = -1 /\ out' = <<"breakpoint">>
             \/ out' = out
    BY <1>7 DEF ContinueIterate
  <2> QED
    BY <1>1, <1>2, <2>1, <2>2, LastMessage DEF QuietWhileRunning
<1>8. CASE ContinueGivesUp
  <2>1. running >= 0
    BY <1>8, BoundsAssumption DEF ContinueGivesUp, LoopExhausted
  <2> QED
    BY <1>1, <1>8, <2>1 DEF ContinueGivesUp, QuietWhileRunning
<1>9. CASE UNCHANGED vars
  BY <1>9 DEF vars, qvmVars, dbgVars, TerminatedMeansDone, InstructionMode,
             QuietWhileRunning
<1> QED
  BY <1>3, <1>4, <1>5, <1>6, <1>7, <1>8, <1>9 DEF Next

\* One more iteration of a Continue passes exactly one instruction.
LEMMA IterationAdvances ==
  ASSUME EngineInv, NEW result, result # -1, StepForward(result),
         Ready', InstructionMode', mIt' # Stale, circuit'.bad = {}
  PROVE  /\ Ready /\ InstructionMode /\ mIt # Stale /\ circuit.bad = {}
         /\ mIt' = mIt + 1 /\ gateLines' = gateLines
         /\ currentLine' = LineAfter(mIt)
<1>1. UNCHANGED <<circuit, parsed, gateLines>>
  BY DEF StepForward, StepUnparsed, StepInstruction, StepLine, Dies, qvmVars
<1>2. Ready /\ InstructionMode /\ circuit.bad = {}
  BY <1>1 DEF Ready, InstructionMode
<1>3. StepInstruction(result)
  BY <1>2 DEF StepForward, StepUnparsed, StepLine
<1>4. mIt # Stale
  BY <1>3 DEF StepInstruction, ExecuteNext, ExecuteStray, Dies, qvmVars
<1>5. engine = "some"
  BY <1>2, <1>4 DEF EngineInv, EngineReady
<1>6. ~Dies /\ ~ExecuteStray /\ ~ExecuteNext(FALSE)
  BY <1>2, <1>4, <1>5 DEF Dies, ExecuteStray, ExecuteNext
<1>7. ExecuteNext(TRUE) /\ currentLine' = LineAfter(execIndex + 1)
  BY <1>3, <1>6 DEF StepInstruction
<1>8. execIndex + 1 = mIt
  BY <1>2, <1>4 DEF EngineInv, QVMTypeOK, InstructionModeLine
<1> QED
  BY <1>1, <1>2, <1>4, <1>7, <1>8 DEF ExecuteNext

\* No step makes a Continue run past a breakpoint.
LEMMA NextKeepsContinueSkipsNoBreakpoint ==
  ASSUME IInv, [Next]_vars
  PROVE  ContinueSkipsNoBreakpoint'
<1> USE DEF IInv
<1>1. ASSUME running' = -1 \/ running' = 0 PROVE ContinueSkipsNoBreakpoint'
  BY <1>1 DEF ContinueSkipsNoBreakpoint
<1>2. CASE ContinueIterate
  <2>1. running \in Nat
    BY <1>2, BoundsAssumption DEF ContinueIterate, LoopRuns
  <2>2. PICK result \in {-1, 0, 1} :
          /\ StepForward(result)
          /\ \/ running' = -1
             \/ /\ result # -1 /\ currentLine' \notin breakpoints
                /\ running' = running + 1
    BY <1>2 DEF ContinueIterate, StopsHere
  <2>3. ASSUME running' = running + 1, result # -1,
               currentLine' \notin breakpoints,
               Ready', InstructionMode', mIt' # Stale, circuit'.bad = {},
               NEW k \in mIt' - running' + 1 .. mIt',
               k <= Len(gateLines'), gateLines'[k] > 0
        PROVE  gateLines'[k] \notin breakpoints'
    <3>1. /\ Ready /\ InstructionMode /\ mIt # Stale /\ circuit.bad = {}
          /\ mIt' = mIt + 1 /\ gateLines' = gateLines
          /\ currentLine' = LineAfter(mIt)
      BY <2>2, <2>3, IterationAdvances
    <3>2. mIt \in Nat /\ breakpoints' = breakpoints
      BY <1>2 DEF EngineInv, QVMTypeOK, ContinueIterate
    <3>3. CASE k = mIt + 1
      <4>1. currentLine' = gateLines[k]
        BY <2>3, <3>1, <3>2, <3>3 DEF LineAfter, EngineInv, QVMTypeOK
      <4> QED
        BY <2>3, <3>1, <3>2, <4>1
    <3>4. CASE k # mIt + 1
      <4>1. k \in mIt - running + 1 .. mIt /\ running > 0
        BY <2>1, <2>3, <3>1, <3>2, <3>4
      <4> QED
        BY <2>3, <3>1, <3>2, <4>1 DEF ContinueSkipsNoBreakpoint
    <3> QED
      BY <3>3, <3>4
  <2> QED
    BY <1>1, <2>2, <2>3 DEF ContinueSkipsNoBreakpoint
<1>3. CASE \/ \E p \in Programs, noDebug \in NoDebug : Launch(p, noDebug)
           \/ Next_Request \/ StepIn \/ Pause \/ ContinueLines
           \/ ContinueInstructions \/ ContinueGivesUp
           \/ \E lines \in BreakpointSets : SetBreakpoints(lines)
  <2>1. running' = -1 \/ running' = 0
    BY <1>3 DEF Launch, LaunchRun, RunAtOnce, RunOnSecondLook, LaunchDebug,
                LaunchDies, LaunchEpilogue, Next_Request, StepIn, Pause, ContinueLines, ContinueInstructions,
                ContinueGivesUp, SetBreakpoints, Idle, dbgVars
  <2> QED
    BY <1>1, <2>1
<1>4. CASE UNCHANGED vars
  BY <1>4 DEF vars, qvmVars, dbgVars, ContinueSkipsNoBreakpoint, Ready,
             InstructionMode
<1> QED
  BY <1>2, <1>3, <1>4 DEF Next

-----------------------------------------------------------------------------
(* The theorems.                                                           *)

\* The initial states satisfy the inductive invariant.
LEMMA InitIInv == Init => IInv
<1> SUFFICES ASSUME Init PROVE IInv
  OBVIOUS
<1>1. EngineInv
  BY InitEngineInv
<1>2. SessionTypeOK
  BY BoundsAssumption, AppendMessages DEF Init, SessionTypeOK
<1>3. QuietWhileRunning /\ TerminatedMeansDone /\ ContinueSkipsNoBreakpoint
  BY DEF Init, QuietWhileRunning, TerminatedMeansDone, ContinueSkipsNoBreakpoint
<1> QED
  BY <1>1, <1>2, <1>3 DEF IInv

\* Every step keeps the inductive invariant.
LEMMA NextKeepsIInv == IInv /\ [Next]_vars => IInv'
<1> SUFFICES ASSUME IInv, [Next]_vars PROVE IInv'
  OBVIOUS
<1>1. EngineInv /\ SessionTypeOK /\ TypeOK
  BY DEF IInv, EngineInv, TypeOK
<1>2. EngineInv'
  BY <1>1, NextKeepsEngineInv
<1>3. SessionTypeOK'
  BY <1>1, NextKeepsSessionTypeOK
<1>4. TerminatedMeansDone' /\ QuietWhileRunning'
  BY NextKeepsTerminatedMeansDone
<1>5. ContinueSkipsNoBreakpoint'
  BY NextKeepsContinueSkipsNoBreakpoint
<1> QED
  BY <1>2, <1>3, <1>4, <1>5 DEF IInv

\* The inductive invariant holds in every reachable state of every debugger.
THEOREM InductiveInvariant == Spec => []IInv
<1>1. Init => IInv
  BY InitIInv
<1>2. IInv /\ [Next]_vars => IInv'
  BY NextKeepsIInv
<1> QED
  BY <1>1, <1>2, PTL DEF Spec

\* Every field of the debugger and of its engine keeps its type, whatever
\* programs are launched: the line tables never leave their domain.
THEOREM TypeCorrectness == Spec => []TypeOK
<1>1. IInv => TypeOK
  BY DEF IInv, EngineInv, TypeOK
<1> QED
  BY <1>1, InductiveInvariant, PTL

\* QppQVM's engine has executed exactly the instructions before its iterator,
\* in circuit order, for every program and every sequence of requests.
THEOREM ExecutionIsInOrder == Spec => []ExecutedInOrder
<1>1. IInv => ExecutedInOrder
  BY DEF IInv, EngineInv
<1> QED
  BY <1>1, InductiveInvariant, PTL

\* The reported line is the line of the next instruction: currentExecIndex and
\* the iterator of QppQVM::stepInstruction never drift apart.
THEOREM LineFollowsInstruction == Spec => []InstructionModeLine
<1>1. IInv => InstructionModeLine
  BY DEF IInv, EngineInv
<1> QED
  BY <1>1, InductiveInvariant, PTL

\* A TerminatedEvent of an instruction-stepped program is sent only after each
\* instruction with an entry in the table was executed or threw, for every
\* circuit and table, of equal lengths or not, and every mixture of requests.
THEOREM TerminationIsHonest == Spec => []TerminatedMeansDone
<1>1. IInv => TerminatedMeansDone
  BY DEF IInv
<1> QED
  BY <1>1, InductiveInvariant, PTL

\* Debugger::continueDebugger runs past no breakpoint but the one it is on.
THEOREM ContinueIsExact == Spec => []ContinueSkipsNoBreakpoint
<1>1. IInv => ContinueSkipsNoBreakpoint
  BY DEF IInv
<1> QED
  BY <1>1, InductiveInvariant, PTL

-----------------------------------------------------------------------------
(* What one request does.                                                  *)

\* The remainder of a number that is at most once around the file.
LEMMA RemainderOnce ==
  ASSUME NEW a \in Nat, NEW n \in Nat, a < n + n
  PROVE  Rem(a, n) = IF a < n THEN a ELSE a - n
<1>1. CASE a < n
  <2>1. a % n = a
    BY <1>1
  <2> QED
    BY <1>1, <2>1 DEF Rem
<1>2. CASE n <= a
  <2>1. a % n = a - n
    BY <1>2
  <2> QED
    BY <1>2, <2>1 DEF Rem
<1> QED
  BY <1>1, <1>2

\* The line-mode loop meets every line of the file, each in the iteration that
\* is its cyclic distance from the line after the current one.
LEMMA ScanVisitsEachLine ==
  ASSUME numLines \in Nat, currentLine \in 0 .. numLines
  PROVE  LET distance(b) == IF b > currentLine THEN b - 1 - currentLine
                            ELSE numLines + b - 1 - currentLine
         IN  /\ \A i \in 0 .. numLines - 1 :
                  /\ ScannedLine(i) \in 1 .. numLines
                  /\ distance(ScannedLine(i)) = i
             /\ \A b \in 1 .. numLines :
                  /\ distance(b) \in 0 .. numLines - 1
                  /\ ScannedLine(distance(b)) = b
<1> DEFINE distance(b) == IF b > currentLine THEN b - 1 - currentLine
                          ELSE numLines + b - 1 - currentLine
<1>1. ASSUME NEW i \in 0 .. numLines - 1
      PROVE  ScannedLine(i) = IF currentLine + i < numLines
                              THEN currentLine + i + 1
                              ELSE currentLine + i - numLines + 1
  <2>1. currentLine + i \in Nat /\ currentLine + i < numLines + numLines
    OBVIOUS
  <2>2. Rem(currentLine + i, numLines) =
          IF currentLine + i < numLines THEN currentLine + i
          ELSE currentLine + i - numLines
    BY <2>1, RemainderOnce
  <2> QED
    BY <2>1, <2>2 DEF ScannedLine
<1>2. ASSUME NEW i \in 0 .. numLines - 1
      PROVE  ScannedLine(i) \in 1 .. numLines /\ distance(ScannedLine(i)) = i
  BY <1>1
<1>3. ASSUME NEW b \in 1 .. numLines
      PROVE  distance(b) \in 0 .. numLines - 1 /\ ScannedLine(distance(b)) = b
  <2>1. distance(b) \in 0 .. numLines - 1
    OBVIOUS
  <2>2. ScannedLine(distance(b)) = IF currentLine + distance(b) < numLines
                                   THEN currentLine + distance(b) + 1
                                   ELSE currentLine + distance(b) - numLines + 1
    <3> HIDE DEF distance
    <3> QED BY <1>1, <2>1
  <2> QED
    BY <2>1, <2>2
<1> QED
  BY <1>2, <1>3

\* A Continue over lines moves to the cyclically next breakpoint of the file.
LEMMA ContinueLinesFindsNext ==
  ASSUME numLines \in Nat, ContinueLines, currentLine \in 0 .. numLines
  PROVE  LET inFile == breakpoints \cap 1 .. numLines
             ahead  == {b \in inFile : b > currentLine}
         IN  IF inFile = {} THEN out' = <<>> /\ currentLine' = currentLine
             ELSE /\ out' = <<"breakpoint">>
                  /\ currentLine' \in IF ahead # {} THEN ahead ELSE inFile
                  /\ \A b \in IF ahead # {} THEN ahead ELSE inFile :
                       currentLine' <= b
<1> DEFINE inFile == breakpoints \cap 1 .. numLines
           ahead  == {b \in inFile : b > currentLine}
           hits   == {i \in 0 .. numLines - 1 : ScannedLine(i) \in breakpoints}
           distance(b) == IF b > currentLine THEN b - 1 - currentLine
                          ELSE numLines + b - 1 - currentLine
<1>1. \A i \in 0 .. numLines - 1 :
        ScannedLine(i) \in 1 .. numLines /\ distance(ScannedLine(i)) = i
  BY ScanVisitsEachLine
<1>2. \A b \in 1 .. numLines :
        distance(b) \in 0 .. numLines - 1 /\ ScannedLine(distance(b)) = b
  BY ScanVisitsEachLine
<1>3. \A b \in inFile : distance(b) \in hits
  <2> HIDE DEF distance
  <2> QED BY <1>2
<1>4. CASE inFile = {}
  <2>1. hits = {}
    BY <1>1, <1>4
  <2> QED
    BY <1>4, <2>1 DEF ContinueLines
<1>5. CASE inFile # {}
  <2>1. hits # {}
    <3> HIDE DEF distance, hits
    <3> QED BY <1>3, <1>5
  <2>2. PICK i \in hits : /\ \A j \in hits : i <= j
                          /\ currentLine' = ScannedLine(i)
                          /\ out' = <<"breakpoint">>
    BY <2>1 DEF ContinueLines
  <2>3. currentLine' \in inFile /\ distance(currentLine') = i
    BY <1>1, <2>2
  <2>4. \A b \in inFile : distance(currentLine') <= distance(b)
    <3> HIDE DEF distance, hits, inFile
    <3> QED BY <1>3, <2>2, <2>3
  <2>5. CASE ahead # {}
    <3>1. PICK b \in inFile : b > currentLine
      BY <2>5
    <3>2. currentLine' > currentLine
      BY <2>3, <2>4, <3>1
    <3>3. \A c \in ahead : currentLine' <= c
      BY <2>3, <2>4, <3>2
    <3> QED
      BY <1>5, <2>2, <2>3, <2>5, <3>2, <3>3
  <2>6. CASE ahead = {}
    <3>1. \A b \in inFile : ~(b > currentLine)
      BY <2>6
    <3>2. \A b \in inFile : currentLine' <= b
      BY <2>3, <2>4, <3>1
    <3> QED
      BY <1>5, <2>2, <2>3, <2>6, <3>2
  <2> QED
    BY <2>5, <2>6
<1> QED
  BY <1>4, <1>5

\* A Next over a program with a line table ends it or moves forward.
LEMMA NextAdvances ==
  ASSUME QVMTypeOK, Next_Request, ~crashed', Ready, mIt # Stale,
         InstructionMode \/ sourceMap # <<>>
  PROVE  \/ out'[Len(out')] = "terminated"
         \/ mIt' > mIt
         \/ ~InstructionMode /\ currentLine' > currentLine
<1>1. mIt \in Nat /\ currentLine \in Int
  BY DEF QVMTypeOK
<1>2. PICK result \in {-1, 0, 1} :
        /\ StepForward(result)
        /\ out' = <<"step">> \o (CASE result = -1 -> <<"terminated">>
                                   [] result = 1  -> <<"output">>
                                   [] OTHER       -> <<>>)
  BY DEF Next_Request
<1>3. CASE result = -1
  <2>1. out' = <<"step">> \o <<"terminated">>
    BY <1>2, <1>3
  <2>2. LET m == <<"step">> \o <<"terminated">> IN m[Len(m)] = "terminated"
    OBVIOUS
  <2> QED
    BY <2>1, <2>2
<1>4. CASE StepUnparsed(result)
  BY <1>4 DEF StepUnparsed
<1>5. ASSUME NEW succeeded, ExecuteNext(succeeded)
      PROVE  mIt' > mIt
  BY <1>1, <1>5 DEF ExecuteNext
<1>6. CASE StepInstruction(result)
  BY <1>3, <1>5, <1>6 DEF StepInstruction, ExecuteStray, Dies
<1>7. CASE StepLine(result)
  <2>1. LineStepped > currentLine
    BY <1>1 DEF LineStepped, LineToStep
  <2> QED
    BY <1>3, <1>5, <1>7, <2>1 DEF StepLine, ExecuteStray, Dies
<1> QED
  BY <1>2, <1>4, <1>6, <1>7 DEF StepForward

\* Debugger::continueDebugger in line mode, the loop modulo the number of
\* lines: it stops on the next breakpoint in cyclic order, misses none and
\* does not move when the file has none.
THEOREM ContinueIsCyclic == Spec => ContinueFindsNext
<1>1. IInv => numLines \in Nat
  BY DEF IInv, SessionTypeOK
<1>2. IInv /\ [Next]_vars =>
        [ ContinueLines /\ currentLine \in 0 .. numLines =>
            LET inFile == breakpoints \cap 1 .. numLines
                ahead  == {b \in inFile : b > currentLine}
            IN  IF inFile = {} THEN out' = <<>> /\ currentLine' = currentLine
                ELSE /\ out' = <<"breakpoint">>
                     /\ currentLine' \in IF ahead # {} THEN ahead ELSE inFile
                     /\ \A b \in IF ahead # {} THEN ahead ELSE inFile :
                          currentLine' <= b ]_vars
  BY <1>1, ContinueLinesFindsNext
<1> QED
  BY <1>2, InductiveInvariant, PTL DEF Spec, ContinueFindsNext

\* QSCore's NextRequest handler over QppQVM::stepForward: no Next leaves both
\* the iterator and the line where they were without reporting the end.
THEOREM NextIsProgress == Spec => NextMakesProgress
<1>1. IInv => QVMTypeOK
  BY DEF IInv, EngineInv
<1>2. IInv /\ [Next]_vars =>
        [ /\ Next_Request /\ ~crashed'
          /\ Ready /\ mIt # Stale /\ (InstructionMode \/ sourceMap # <<>>)
          => \/ out'[Len(out')] = "terminated"
             \/ mIt' > mIt
             \/ ~InstructionMode /\ currentLine' > currentLine ]_vars
  BY <1>1, NextAdvances
<1> QED
  BY <1>2, InductiveInvariant, PTL DEF Spec, NextMakesProgress
==============================================================================
