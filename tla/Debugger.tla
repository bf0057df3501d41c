------------------------------ MODULE Debugger ------------------------------
(***************************************************************************)
(* The debug engine behind one DAP session: Debugger.cpp on top of         *)
(* QppQVM.cpp.  Requests are executed one after the other by the session's *)
(* dispatch thread; a Continue in instruction mode is a loop, modelled one *)
(* iteration per step, during which no other request is served because     *)
(* that thread is busy.                                                    *)
(*                                                                         *)
(* A Program is what a launch finds behind a file name.  What the Python   *)
(* and C++ front ends and the qpp parser answer (frontEnd, reads, steps,   *)
(* bad, lineOf) is external and taken from the program.                    *)
(***************************************************************************)
EXTENDS SourceMap

CONSTANTS
  Programs,       \* the programs a client may launch
  InitialLines,   \* values the uninitialised FrontState.currentLine can hold
  BreakpointSets, \* the line sets a SetBreakpoints request may carry
  MaxLine,        \* bound: no request is served once currentLine is past it
  MaxLaunches,    \* bound on the number of launch requests
  ContinueGuard   \* bound on the iterations of one Continue (1000000 in the code)

Program ==
  [type     : {"qasm", "python", "cpp", "unknown"},
   lookup   : {"file", "demo", "none"},   \* requested file, demo file, no file
   frontEnd : {"translates", "rejects", "dies"},   \* of Python and C++ files
   reads    : BOOLEAN,                    \* qasm::read accepted it
   lines    : Seq(LineKinds),             \* the source
   qasm     : Seq(LineKinds),             \* the prepared source
   lineOf   : Seq(Nat),                   \* translator's line per qasm line
   steps    : Nat,                        \* instructions of the qpp circuit
   bad      : SUBSET Nat]                 \* instructions whose execution throws

ASSUME ProgramsAssumption == Programs \subseteq Program
ASSUME BoundsAssumption ==
  /\ MaxLine \in Nat
  /\ MaxLaunches \in Nat
  /\ ContinueGuard \in Nat \ {0}
  /\ InitialLines \subseteq Int
  /\ BreakpointSets \subseteq SUBSET Nat

NoCircuit == [steps |-> 0, bad |-> {}, present |-> FALSE]
CircuitOf(p) == [steps |-> p.steps, bad |-> p.bad, present |-> TRUE]

\* mIt before the first debug launch, and after its circuit was destroyed.
Stale == 0

VARIABLES
  circuit,       \* QppQVM::circuit
  parsed,        \* IQVM::sourceCodeParsed
  engine,        \* QppQVM::engine: "none" (null) or "some"
  executed,      \* the instructions the current engine has executed, in order
  mIt,           \* the circuit iterator: index of the next instruction, or Stale
  execIndex,     \* QppQVM::currentExecIndex
  sourceMap,     \* BaseQVM::sourceToQasmLines
  gateLines,     \* BaseQVM::gateSourceLines
  currentLine,   \* FrontState::currentLine
  numLines,      \* Debugger::numSourceLines
  breakpoints,   \* Debugger::breakpoints
  verified,      \* the lines the last SetBreakpoints response called verified
  running,       \* iterations of the Continue loop in progress, or -1
  out,           \* the events the request being served has sent
  launches,      \* number of launch requests served
  crashed        \* the process is gone (undefined behaviour)

qvmVars == <<circuit, parsed, engine, executed, mIt, execIndex, sourceMap,
             gateLines, currentLine>>
dbgVars == <<numLines, breakpoints, verified, running>>
vars == <<qvmVars, dbgVars, out, launches, crashed>>

Init ==
  /\ circuit = NoCircuit
  /\ parsed = FALSE
  /\ engine = "none"
  /\ executed = <<>>
  /\ mIt = Stale
  /\ execIndex = 0
  /\ sourceMap = <<>>
  /\ gateLines = <<>>
  /\ currentLine \in InitialLines
  /\ numLines = 0
  /\ breakpoints = {}
  /\ verified = {}
  /\ running = -1
  /\ out = <<>>
  /\ launches = 0
  /\ crashed = FALSE

Idle == ~crashed /\ running = -1 /\ currentLine <= MaxLine

-----------------------------------------------------------------------------
(* Launching: BaseQVM::prepareSource, QppQVM::loadSourceCode, run, debug.  *)

InstructionMode == gateLines # <<>>          \* BaseQVM::stepsByInstruction

\* No processor exists for some Python frameworks, and the null pointer is
\* used; the C++ translator's JSON may have fields of a type nobody catches.
FrontEndDies(p) ==
  p.lookup # "none" /\ p.type \in {"python", "cpp"} /\ p.frontEnd = "dies"

\* What prepareSource answers for p, if it answers.
PrepareResult(p) ==
  CASE p.lookup = "none" -> "noFile"
    [] /\ p.lookup # "none" /\ p.type \in {"python", "cpp"}
       /\ p.frontEnd = "rejects" -> "parseError"
    [] OTHER -> IF p.lookup = "demo" THEN "demoFile" ELSE "ok"

Prepared(p) == PrepareResult(p) \in {"ok", "demoFile"}
Loaded(p) == Prepared(p) /\ p.reads

\* The instruction table is cleared by every launch and filled by the C++
\* front end only.
NewGateLines(p) ==
  IF Prepared(p) /\ p.type = "cpp" THEN GateSourceLines(p.qasm, p.lineOf)
  ELSE <<>>

MapAfter(p, old) ==
  IF Prepared(p)
  THEN CodeMapping(p.type, p.lines, p.qasm, NewGateLines(p), old) ELSE old
CircuitAfter(p, old) == IF Loaded(p) THEN CircuitOf(p) ELSE old

\* prepareSource and the parse, common to both kinds of launch.
LoadSourceCode(p) ==
  /\ gateLines' = NewGateLines(p)
  /\ sourceMap' = MapAfter(p, sourceMap)
  /\ parsed' = Loaded(p)
  /\ circuit' = CircuitAfter(p, circuit)

LaunchResult(p) ==
  IF Prepared(p) /\ ~p.reads THEN "parseError" ELSE PrepareResult(p)

\* BaseQVM::getSourceLines, asked once the launch returned ERR_OK.
SourceLines(p) ==
  IF NewGateLines(p) # <<>> THEN PhysicalLines(p.lines)
  ELSE NumberOfLines(p.lines)

LaunchEpilogue(p) ==
  /\ numLines' = IF LaunchResult(p) = "ok" THEN SourceLines(p) ELSE numLines
  /\ out' = <<"output">>
  /\ launches' = launches + 1
  /\ UNCHANGED <<breakpoints, verified, running>>

\* QppQVM::run, the source loaded at the first look.  A new circuit
\* invalidates the iterator; nobody catches an instruction that throws.
RunAtOnce(p) ==
  /\ Idle /\ launches < MaxLaunches
  /\ ~FrontEndDies(p) /\ LaunchResult(p) = "ok"
  /\ LoadSourceCode(p)
  /\ engine' = "some"
  /\ executed' = [i \in 1 .. p.steps |-> i]
  /\ crashed' = (\E i \in p.bad : i \in 1 .. p.steps)
  /\ mIt' = Stale
  /\ UNCHANGED <<execIndex, currentLine>>
  /\ LaunchEpilogue(p)

\* loadSourceCode(p) and then loadSourceCode(q).
LoadTwice(p, q) ==
  /\ gateLines' = NewGateLines(q)
  /\ sourceMap' = MapAfter(q, MapAfter(p, sourceMap))
  /\ parsed' = Loaded(q)
  /\ circuit' = CircuitAfter(q, CircuitAfter(p, circuit))

\* QppQVM::run, any other result.  The ASSERT macro evaluates its argument
\* again to return it, so the source is loaded a second time, q being what is
\* there by then, and run returns with nothing executed whatever q gives.
RunOnSecondLook(p, q) ==
  /\ Idle /\ launches < MaxLaunches
  /\ ~FrontEndDies(p) /\ LaunchResult(p) # "ok"
  /\ ~FrontEndDies(q)
  /\ LoadTwice(p, q)
  /\ mIt' = IF Loaded(p) \/ Loaded(q) THEN Stale ELSE mIt
  /\ UNCHANGED <<engine, executed, execIndex, currentLine, crashed>>
  /\ LaunchEpilogue(q)

LaunchRun(p) == RunAtOnce(p) \/ \E q \in Programs : RunOnSecondLook(p, q)

\* QppQVM::debug.  With no file it returns before touching the engine.
LaunchDebug(p) ==
  /\ Idle /\ launches < MaxLaunches
  /\ ~FrontEndDies(p)
  /\ LoadSourceCode(p)
  /\ IF LaunchResult(p) = "noFile"
     THEN UNCHANGED <<engine, executed, mIt, execIndex, currentLine>>
     ELSE /\ executed' = <<>>
          /\ engine' = IF Loaded(p) THEN "some" ELSE "none"
          /\ mIt' = IF Loaded(p) THEN 1 ELSE mIt
          /\ execIndex' = IF Loaded(p) THEN 0 ELSE execIndex
          /\ currentLine' =
               IF Loaded(p) /\ gateLines' # <<>>
               THEN IF gateLines'[1] > 0 THEN gateLines'[1] ELSE 1
               ELSE currentLine
  /\ crashed' = FALSE
  /\ LaunchEpilogue(p)

\* QSCore's LaunchRequest handler: any noDebug field, true or false, runs.
NoDebug == {"absent", "false", "true"}
IsRun(noDebug) == noDebug # "absent"

\* The front end takes the process with it, at the first look or, of a run,
\* at the second.
LaunchDies(p, noDebug) ==
  /\ Idle /\ launches < MaxLaunches
  /\ \/ FrontEndDies(p)
     \/ /\ IsRun(noDebug) /\ LaunchResult(p) # "ok"
        /\ \E q \in Programs : FrontEndDies(q)
  /\ crashed' = TRUE
  /\ UNCHANGED <<qvmVars, dbgVars, out, launches>>

Launch(p, noDebug) ==
  \/ IsRun(noDebug) /\ LaunchRun(p)
  \/ ~IsRun(noDebug) /\ LaunchDebug(p)
  \/ LaunchDies(p, noDebug)

-----------------------------------------------------------------------------
(* Stepping: QppQVM::stepForward.  result is its return value, the step's   *)
(* time abstracted to its sign: 1 executed, 0 nothing to report, -1 end.    *)

Ready == circuit.present /\ parsed
AtEnd == mIt > circuit.steps

StepUnparsed(result) ==
  /\ ~Ready
  /\ result = 0
  /\ currentLine' = currentLine + 1
  /\ UNCHANGED <<circuit, parsed, engine, executed, mIt, execIndex, sourceMap,
                 gateLines, crashed>>

\* Mutant: the iterator is dereferenced and not advanced.
ExecuteNextInPlace(succeeded) ==
  /\ mIt # Stale /\ ~AtEnd /\ engine = "some"
  /\ succeeded = (mIt \notin circuit.bad)
  /\ executed' = IF succeeded THEN Append(executed, mIt) ELSE executed
  /\ UNCHANGED mIt

\* engine->execute(mIt++): the iterator moves even if the instruction throws.
ExecuteNext(succeeded) ==
  /\ mIt # Stale /\ ~AtEnd /\ engine = "some"
  /\ succeeded = (mIt \notin circuit.bad)
  /\ executed' = IF succeeded THEN Append(executed, mIt) ELSE executed
  /\ mIt' = mIt + 1

\* The outcomes of using an iterator that belongs to no circuit, or a null
\* engine: the process dies, an instruction of nobody's circuit runs and the
\* engine's history means nothing from there on (it is recorded as <<0>>), or
\* the iterator happens to compare equal to end().
Dies ==
  /\ engine = "none" \/ mIt = Stale
  /\ crashed' = TRUE
  /\ UNCHANGED qvmVars
ExecuteStray ==
  /\ mIt = Stale /\ engine = "some"
  /\ executed' = <<0>>
  /\ mIt' = mIt

\* Mutant: the line of the instruction just executed.
LineBefore(index) ==
  IF gateLines[index] > 0 THEN gateLines[index] ELSE currentLine

\* The line to report once `index` instructions have been stepped over.
LineAfter(index) ==
  IF index < Len(gateLines) /\ gateLines[index + 1] > 0
  THEN gateLines[index + 1] ELSE currentLine

\* Mutant: the last instruction is taken for the end.
TableExhaustedEarly == execIndex >= Len(gateLines) - 1

TableExhausted == execIndex >= Len(gateLines)

StepInstruction(result) ==
  /\ Ready /\ InstructionMode
  /\ \/ /\ AtEnd \/ mIt = Stale \/ TableExhausted
        /\ result = -1
        /\ UNCHANGED <<qvmVars, crashed>>
     \/ /\ ~TableExhausted
        /\ \/ /\ ExecuteNext(TRUE) \/ ExecuteStray
              /\ result = 1
              /\ execIndex' = execIndex + 1
              /\ currentLine' = LineAfter(execIndex + 1)
           \/ /\ ExecuteNext(FALSE)
              /\ result = 0
              /\ UNCHANGED <<execIndex, currentLine>>
        /\ UNCHANGED <<circuit, parsed, engine, sourceMap, gateLines, crashed>>
     \/ /\ ~TableExhausted
        /\ Dies
        /\ result = 0

\* Line mode: a mapped line executes the circuit's next instruction,
\* whatever instruction the table holds for it.
LineToStep == IF currentLine <= 0 THEN 1 ELSE currentLine
HasOp(line) == sourceMap[line] # {}

\* Mutant: a line without an operation is not left.
LineStuck == LineToStep

LineStepped == LineToStep + 1

StepLine(result) ==
  /\ Ready /\ ~InstructionMode
  /\ \/ /\ \/ sourceMap = <<>> /\ result = 0
           \/ sourceMap # <<>> /\ LineToStep > Len(sourceMap) /\ result = -1
        /\ UNCHANGED <<qvmVars, crashed>>
     \/ /\ LineToStep \in 1 .. Len(sourceMap)
        /\ engine = "some"
        /\ \/ /\ HasOp(LineToStep)
              /\ ExecuteNext(TRUE) \/ ExecuteStray
              /\ result = 1
              /\ currentLine' = LineStepped
           \/ /\ HasOp(LineToStep)
              /\ ExecuteNext(FALSE)
              /\ result = 0
              /\ currentLine' = LineToStep
           \/ /\ ~HasOp(LineToStep) \/ AtEnd \/ mIt = Stale
              /\ result = 0
              /\ currentLine' = LineStepped
              /\ UNCHANGED <<executed, mIt>>
        /\ UNCHANGED <<circuit, parsed, engine, execIndex, sourceMap,
                       gateLines, crashed>>
     \/ /\ LineToStep \in 1 .. Len(sourceMap)
        /\ engine = "none" \/ HasOp(LineToStep)
        /\ Dies
        /\ result = 0

StepForward(result) ==
  StepUnparsed(result) \/ StepInstruction(result) \/ StepLine(result)

-----------------------------------------------------------------------------
(* The request handlers of QSCore.cpp that reach the debugger.             *)

\* The Stepped event goes out before the handler looks at the result.
Next_Request ==
  /\ Idle
  /\ \E result \in {-1, 0, 1} :
       /\ StepForward(result)
       /\ out' = <<"step">> \o (CASE result = -1 -> <<"terminated">>
                                  [] result = 1  -> <<"output">>
                                  [] OTHER       -> <<>>)
  /\ UNCHANGED <<dbgVars, launches>>

\* StepIn steps too, and ignores the result.
StepIn ==
  /\ Idle
  /\ \E result \in {-1, 0, 1} : StepForward(result)
  /\ out' = <<"step">>
  /\ UNCHANGED <<dbgVars, launches>>

\* C++ remainder: the sign of the dividend.
Rem(a, n) == IF a >= 0 THEN a % n ELSE -((-a) % n)

\* Mutant: the line numbers of the loop start at 0.
ScannedIndex(i) == Rem(currentLine + i, numLines)

\* The line the i-th iteration of the line-mode loop looks at.
ScannedLine(i) == Rem(currentLine + i, numLines) + 1

\* Line mode: move to the next breakpoint in cyclic order; nothing executes.
ContinueLines ==
  /\ Idle /\ ~InstructionMode
  /\ LET hits == {i \in 0 .. numLines - 1 : ScannedLine(i) \in breakpoints}
     IN  IF hits = {}
         THEN out' = <<>> /\ UNCHANGED currentLine
         ELSE \E i \in hits :
                /\ \A j \in hits : i <= j
                /\ currentLine' = ScannedLine(i)
                /\ out' = <<"breakpoint">>
  /\ UNCHANGED <<circuit, parsed, engine, executed, mIt, execIndex, sourceMap,
                 gateLines, dbgVars, launches, crashed>>

ContinueInstructions ==
  /\ Idle /\ InstructionMode
  /\ running' = 0
  /\ out' = <<>>
  /\ UNCHANGED <<qvmVars, numLines, breakpoints, verified, launches, crashed>>

\* Mutants: a loop whose bound is never reached, a breakpoint looked up
\* before the step instead of after it.
LoopNeverExhausted == running > ContinueGuard
StopsBefore == currentLine \in breakpoints

LoopRuns == running \in 0 .. ContinueGuard - 1
LoopExhausted == running = ContinueGuard
StopsHere == currentLine' \in breakpoints

\* One iteration of the loop in Debugger::continueDebugger.
ContinueIterate ==
  /\ ~crashed
  /\ LoopRuns
  /\ \E result \in {-1, 0, 1} :
       /\ StepForward(result)
       /\ \/ result = -1 /\ running' = -1 /\ out' = <<"terminated">>
          \/ /\ result # -1 /\ StopsHere
             /\ running' = -1 /\ out' = <<"breakpoint">>
          \/ /\ result # -1 /\ ~StopsHere
             /\ running' = running + 1 /\ out' = out
  /\ UNCHANGED <<numLines, breakpoints, verified, launches>>

ContinueGivesUp ==
  /\ ~crashed
  /\ LoopExhausted
  /\ running' = -1
  /\ UNCHANGED <<qvmVars, numLines, breakpoints, verified, out, launches, crashed>>

SetBreakpoints(lines) ==
  /\ Idle
  /\ breakpoints' = lines
  /\ verified' = {line \in lines : line < numLines}
  /\ out' = <<>>
  /\ UNCHANGED <<qvmVars, numLines, running, launches, crashed>>

Pause ==
  /\ Idle
  /\ out' = <<"pause">>
  /\ UNCHANGED <<qvmVars, dbgVars, launches, crashed>>

Next ==
  \/ \E p \in Programs, noDebug \in NoDebug : Launch(p, noDebug)
  \/ \E lines \in BreakpointSets : SetBreakpoints(lines)
  \/ Next_Request \/ StepIn
  \/ ContinueLines \/ ContinueInstructions
  \/ ContinueIterate \/ ContinueGivesUp
  \/ Pause

\* The loop of a Continue runs on a thread of its own, nobody can stop it.
Fairness == WF_vars(ContinueIterate \/ ContinueGivesUp)

Spec == Init /\ [][Next]_vars /\ Fairness

-----------------------------------------------------------------------------
(* Properties.                                                             *)

QVMTypeOK ==
  /\ circuit \in [steps : Nat, bad : SUBSET Nat, present : BOOLEAN]
  /\ parsed \in BOOLEAN
  /\ engine \in {"none", "some"}
  /\ executed \in Seq(Nat)
  /\ mIt \in Nat
  /\ execIndex \in Nat
  /\ sourceMap \in Seq(SUBSET Int)
  /\ gateLines \in Seq(Nat)
  /\ currentLine \in Int
  /\ crashed \in BOOLEAN

Messages == {"output", "step", "terminated", "breakpoint", "pause"}

SessionTypeOK ==
  /\ numLines \in Nat
  /\ breakpoints \subseteq Nat
  /\ verified \subseteq breakpoints
  /\ running \in -1 .. ContinueGuard
  /\ out \in Seq(Messages)
  /\ launches \in 0 .. MaxLaunches

\* Type correctness of the engine's and the debugger's fields.
TypeOK == QVMTypeOK /\ SessionTypeOK

\* The engine has executed exactly the circuit's instructions in front of the
\* iterator (those that threw excepted), each once and in circuit order,
\* whatever mixture of launches, steps, jumps and Continues led here.  It
\* relates the engine's history, QppQVM's iterator and the circuit.
ExecutedInOrder ==
  Ready /\ mIt # Stale =>
    /\ {executed[i] : i \in 1 .. Len(executed)} = (1 .. mIt - 1) \ circuit.bad
    /\ \A i, j \in 1 .. Len(executed) : i < j => executed[i] < executed[j]

\* Instruction stepping reports the source line of the instruction about to
\* execute (QppQVM.cpp: "move to the source line of the instruction after
\* it"): the second index kept beside the iterator never drifts from it.
InstructionModeLine ==
  Ready /\ InstructionMode /\ mIt # Stale /\ circuit.bad = {} =>
    /\ execIndex = mIt - 1
    /\ execIndex < Len(gateLines) /\ gateLines[execIndex + 1] > 0
         => currentLine = gateLines[execIndex + 1]

\* When an instruction-stepped program is reported as terminated, every
\* instruction of its circuit that has an entry in the table of lines was
\* executed or threw when it was tried, however the client mixed Next, StepIn
\* and Continue.  Instructions beyond the end of a table that is too short are
\* not executed: QppQVM::debug only logs that the two differ.
TerminatedMeansDone ==
  /\ out # <<>> /\ out[Len(out)] = "terminated"
  /\ InstructionMode /\ mIt # Stale
  => \A k \in 1 .. Smaller(circuit.steps, Len(gateLines)) :
       k \in circuit.bad \/ \E i \in 1 .. Len(executed) : executed[i] = k

\* A Continue over instructions skips no breakpoint: every instruction it has
\* left behind, but the one it started on, is on a line without one.  It
\* relates the iterator, the table of lines and the length of the loop.
ContinueSkipsNoBreakpoint ==
  running > 0 /\ Ready /\ InstructionMode /\ mIt # Stale /\ circuit.bad = {} =>
    \A k \in mIt - running + 1 .. mIt :
      k <= Len(gateLines) /\ gateLines[k] > 0 => gateLines[k] \notin breakpoints

\* A Continue over lines stops on the cyclically next breakpoint of the file,
\* on the line itself when it is the only one, and stays when there is none.
ContinueFindsNext ==
  [][ ContinueLines /\ currentLine \in 0 .. numLines =>
        LET inFile == breakpoints \cap 1 .. numLines
            ahead  == {b \in inFile : b > currentLine}
        IN  IF inFile = {} THEN out' = <<>> /\ currentLine' = currentLine
            ELSE /\ out' = <<"breakpoint">>
                 /\ currentLine' \in IF ahead # {} THEN ahead ELSE inFile
                 /\ \A b \in IF ahead # {} THEN ahead ELSE inFile :
                      currentLine' <= b ]_vars

\* Repeated Next requests reach the end of a program that has a line table:
\* each one moves the line or the iterator forward or reports termination.
\* Nothing else lets a client finish a session by stepping.
NextMakesProgress ==
  [][ /\ Next_Request /\ ~crashed'
      /\ Ready /\ mIt # Stale /\ (InstructionMode \/ sourceMap # <<>>)
      => \/ out'[Len(out')] = "terminated"
         \/ mIt' > mIt
         \/ ~InstructionMode /\ currentLine' > currentLine ]_vars

\* A Continue gives the dispatch thread back, even over a program whose
\* translation parsed to nothing and that therefore never reaches an end.
ContinueReturns == (running >= 0) ~> (running = -1 \/ crashed)

==============================================================================
