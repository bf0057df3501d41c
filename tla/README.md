# TLA+ model of QDB's qscore

This directory holds a TLA+ model of `quantag/qdb-qscore`: the debug server
`QSCore` (a Debug Adapter Protocol server in C++ that steps quantum programs on
the qpp simulator), the job gateway (`scripts/db/server.py`) and the upload
service (`scripts/dapp`) beside it, and the page of the circuit viewer
(`scripts/q3d`).
Every definition is read off the source; `PROJECT.json` maps each one to its
lines, lists the runs, the mutants, the hazards of the code and the theorems.

Paths below are relative to `src/`.

## 1. The system

### Parts, their state and their operations

| Part | State it keeps | Operations | Talks to |
|---|---|---|---|
| Connection handler, `QSCore.cpp` `onClientConnected` | two one-shot events on its stack frame, the shared pointer to the session | one handler per DAP request; wait for `configured`, announce the thread, wait for `terminate`, `removeLater` | session, debugger, storage |
| DAP session, `dap/session.cpp` | handler tables, inbox, reader and writer, two threads, `nextSeq` | receive, look up, queue; dispatch; reply; destroy | channel, socket |
| Content framing, `dap/content_stream.cpp` | what was read and not used, the mode for invalid data | read a message, write a message | the session's threads, the socket |
| Channel, `dap/chan.h` | queue, `closed`, condition variable | put, take, close, reset | receiver and dispatcher of a session |
| Socket, `dap/socket.cpp` | descriptor or invalid, reader/writer lock | isOpen, read, write, close | kernel, peer |
| Reader/writer lock, `dap/rwmutex.h` | two counters, mutex, condition variable | lock and unlock for reading and writing | the threads of a session |
| Session storage, `SessionStorage.cpp` | map from id to session, set of ids to remove | add, findById, removeLater, cleanup | every session, the WebSocket thread |
| Debugger and QVM, `Debugger.cpp`, `qvm/QppQVM.cpp`, `qvm/BaseQVM.cpp` | circuit, engine, circuit iterator, execution index, line tables, current line, breakpoints | launch (run or debug), step, continue, set breakpoints, pause | front ends for Python and C++, the qpp parser (external) |
| WebSocket front end, `ws/` | the active session | accept, read the id of a session, send states | storage, debugger |
| Job gateway, `scripts/db/server.py` | the `jobs` table | submit, worker, check, delete | IBM, Q-CTRL, Node B, Zurich Instruments |
| Upload service, `scripts/dapp` | a folder of files per session and user | submitFiles, prepareData | the lookup and the load of a launch |
| Workspace service, `scripts/boots` | folders per user | prepare, delete | |
| Circuit viewer, `scripts/q3d/web` | circuit, backend, gate library with its cache, current data, scene | load, transpile and render, apply a library | the backend and sample lists, the transpiler |
| Other services, `scripts/*` | none, or the result of one request | convert, optimise, draw circuits | quantum libraries |

A connection is accepted in `dap/Impl.cpp`, which starts a detached thread for
it (`onClientConnected`). That thread creates the session, binds the socket,
which starts the receiver and the dispatcher, registers the handlers, and then
only waits. From then on everything happens in handlers on the dispatcher,
which refer to the waiting thread's stack frame. A Launch puts the session into
the storage, under an id the client chooses; the WebSocket thread finds it
there. Sessions are destroyed by whoever drops the last reference: their own
thread, or the dispatcher of another session that cleans the storage up.

### What is hard here

* Four threads per connection with different views of its end: the receiver
  sees the closed socket, the dispatcher the closed inbox, the session thread
  an event, the destroyer all of them.
* Handlers run while the session thread registers others, and run on after it
  has returned.
* Objects that are destroyed under a lock (`SessionStorage::add`) or without
  one (`cleanup`) by a destructor that joins threads.
* A lock and a channel that notify as seldom as possible.
* A close that must wake a thread blocked in `recv` under a lock which close
  itself needs.
* Two indices for one position in the circuit, a line table and a current line
  that must stay together over launches, steps and jumps in any order.
* A stream that arrives in pieces of any size, ends anywhere and may hold
  something else than messages, under two threads that number their messages
  before they take the lock under which they are written.
* Folders that several threads of the upload service clear, fill, copy and the
  debugger reads, without a lock.
* A page whose handlers interleave at their awaits, in any order of answers, on
  one scene, one library and one circuit.
* Rows of a table that are written by requests, a worker and a status check
  that waits for a remote service between its read and its write; writes that
  fail, and restarts.

### What makes each part correct

* Debugger: instructions run once and in order; the reported line is the line
  of the next instruction; a program reported as terminated has been executed as
  far as its table of lines goes; Continue misses no breakpoint and comes back;
  stepping makes progress.
* Channel, lock: no lost wakeup, no starvation but by readers, the abstract
  behaviour their users rely on.
* Socket: no call on a closed descriptor, no double close, no lost descriptor,
  and a close that ends.
* Session: answers in order, every request accounted for, those the receiver
  rejects included, no use of the dead frame by the handler that ended the
  session, the destruction ends.
* Storage: nobody finds a destroyed session, a live one is found, the lock is
  given back, nobody joins itself.
* Framing: the bodies come out whole, in order and once, without waiting for
  more than they need; after junk nothing is taken for a message.
* Uploads: a folder holds what the last request sent, a launch loads a whole
  file, of the folder `default` or else of its session, and a request fails for
  what is wrong with it, unless requests overlap.
* Viewer: the scene is the current data in the current library, what is shown is
  alive, and the status line names its source.
* Jobs: a finished job keeps its status, has its results and an end time, and
  none is left undecided.

## 2. Modules

| Module | Models | Kind |
|---|---|---|
| `SourceMap` | line splitter and line tables of `BaseQVM.cpp`, `Utils.cpp` | operators |
| `Debugger` | `Debugger.cpp`, `QppQVM.cpp`, `prepareSource`, the debugging handlers of `QSCore.cpp` | state machine |
| `MCDebugger` | the programs `Debugger` is checked with | model values |
| `DebuggerProofs` | theorems about `Debugger` | proofs |
| `FifoChannel` | what a channel promises | abstract specification |
| `Chan` | `dap/chan.h` | state machine, implements `FifoChannel` |
| `SharedLock` | what a reader/writer lock promises | abstract specification |
| `RWMutex` | `dap/rwmutex.h` | state machine, implements `SharedLock` |
| `Socket` | the shared socket of `dap/socket.cpp` under three threads | state machine |
| `SharedObjectProofs` | theorems about `Chan`, `RWMutex` and `Socket` | proofs |
| `DebugSession` | one connection: `QSCore.cpp`, `dap/session.cpp`, `Event.cpp` | state machine |
| `SessionStorage` | `SessionStorage.cpp` and the lifetime of sessions | state machine |
| `DebugSessionProofs` | theorems about `DebugSession` | proofs |
| `SessionStorageProofs` | theorems about `SessionStorage` | proofs |
| `MessageStream` | what the framing promises | abstract specification |
| `Framing` | `dap/content_stream.cpp`, the sending part of `dap/session.cpp` | state machine, implements `MessageStream` |
| `MCFraming` | bodies and junk `Framing` is checked with | model values |
| `FramingProofs` | theorems about `Framing` | proofs |
| `JobRegistry` | the `jobs` table of `scripts/db/server.py` | state machine |
| `JobRegistryProofs` | theorems about `JobRegistry` | proofs |
| `SourceFolder` | `submitFiles` and `prepareData` of `scripts/dapp/app.py`, the lookup of `BaseQVM.cpp` and `Utils.cpp` | state machine |
| `MCSourceFolder` | the uploads `SourceFolder` is checked with | model values |
| `SourceFolderProofs` | theorems about `SourceFolder` | proofs |
| `Viewer` | `scripts/q3d/web`: page, viewer, renderer, gate libraries | state machine |
| `ViewerProofs` | theorems about `Viewer` | proofs |

How they fit together: `Debugger` EXTENDS `SourceMap`. `DebugSession` uses the
inbox through the abstraction `FifoChannel` of `Chan`, and a debugger reduced
to whether a step ends the program. `Socket` uses the lock through the
abstraction `SharedLock` of `RWMutex` (`Blocking = {}` is what a writer waits
for), and gives `DebugSession` what it relies on: a close wakes the receiver.
`SessionStorage` follows a session of `DebugSession` from its last wait on, with
several sessions at once. `Framing` is one direction of the wire of
`DebugSession`, where a message is one step; `MessageStream` is what
`DebugSession` relies on. `SourceFolder` ends where a `Program` of `Debugger`
begins: with the text a launch has loaded.

Each module starts with the correspondence of its variables to fields. Names of
actions are those of the functions; a definition introduced as `Mutant` is a
plausible mistake in the definition that follows it, and is used by no
specification.

### Choices worth knowing

* A file is the sequence of the kinds of its lines, the only thing the code
  looks at. What the external front ends answer is part of a program
  (`Debugger!Program`).
* A front end may take the process with it (`frontEnd = "dies"`): no processor
  exists for some Python frameworks and the null pointer is used, and the JSON of
  the C++ translator may hold fields of a type nobody catches.
* `ASSERT` evaluates its argument a second time to return it, so a run whose
  first look at the source gave anything but success looks again, at whatever is
  there by then (`RunOnSecondLook`).
* Use of an iterator that belongs to no circuit, or of a null engine, is a
  choice between the process's end, a stray instruction and an iterator that
  happens to be at its end.
* A handler is the sequence of its steps that another thread can see
  (`DebugSession!Handler`); what it does to the debugger is in `Debugger`.
* A message the client sends is good, has arguments that do not fit its command,
  or is garbled; the receiver reports the last two and forgets them
  (`DebugSession!Receive`). A Disconnect without arguments is one that does not
  fit. A message that is no message of the framing at all ends the receiver, and
  is in `Framing` only.
* `Send` never blocks in `DebugSession`; a write to a socket whose peer reads
  nothing may.
* Undefined behaviour of a use after free or of a data race stops the
  behaviour with a flag; the properties say under which conditions the flag can
  be set.
* Every write to the jobs table is a transaction that may fail.
* Bytes are the members of a small alphabet in which the header's name is three
  letters and a number has the base `Base` (two in the run, two to ten in the
  proofs); a body may hold all of them, the text of a header too, but starts with
  a brace, as every JSON object does. A length counts modulo `SizeLimit`, as
  `size_t` does modulo 2^64. Only the mode the server sets (`kClose`) is modelled.
* Junk is any bytes that the reader can tell from a message (`JunkAssumption`):
  a reader that starts at them meets, before it takes anything for a body, a
  name or an end of a header that is another one. `Refused` says so of the bytes
  alone. What it leaves out is named in section 3.
* A folder has three files: two of one name, one of them in a subfolder, and one
  that has the subfolder's own name, so that names can be in each other's way.
  One of the sessions is `default`, whose folder every launch looks in first.
* What a file holds is the request that wrote it, or a mixture. Begin and end of
  a request keep account of who was alone (`alone`, `expected`); that account is
  not in the code.
* An import of a gate library is numbered, because the page adds the time to the
  module's name and so gets a new module with an empty cache each time.

## 3. Runs

`tlc -config X.cfg M` in this directory. "Violation" runs show where the code
differs from what a comment says of it.

| Run | Module, cfg | Shows | States |
|---|---|---|---|
| debugger | `MCDebugger`, `Debugger.cfg` | execution in order, reported line, honest termination, exact Continue, progress | 95,000 |
| chan | `Chan`, `Chan.cfg` | no lost wakeup, refinement of `FifoChannel` with fairness | 2,500 |
| session | `DebugSession`, `DebugSession.cfg` | answers, accounting of requests, end of the session | 519,000 |
| session_closed | `DebugSession`, `DebugSessionClosed.cfg` | violation: a configured client that disappears leaves its session thread in `terminate.wait` | |
| storage | `SessionStorage`, `SessionStorage.cfg` | lookups, eviction, locks and joins of two sessions | 1,240,000 |
| rwmutex | `RWMutex`, `RWMutex.cfg` | no lost wakeup, starvation only by readers, refinement of `SharedLock`, no deadlock | 330 |
| socket | `Socket`, `Socket.cfg` | descriptor safety, close and receiver come to their end | 2,400 |
| framing | `MCFraming`, `Framing.cfg` | refinement of `MessageStream` with fairness, junk, the order of numbers | 643,000 |
| jobs | `JobRegistry`, `JobRegistry.cfg` | rows under concurrent requests, failures and restarts | 116,000 |
| jobs_qctrl | `JobRegistry`, `JobRegistryQctrl.cfg` | violation: an accepted Q-CTRL job becomes an error | |
| sources | `MCSourceFolder`, `SourceFolder.cfg` | folders under uploads and mirrors, what a launch loads, why a request is refused | 2,960,000 |
| viewer | `Viewer`, `Viewer.cfg` | scene, caches and status line for clicks and answers in any order | 2,080,000 |

The properties behind the table:

* debugger: `ExecutedInOrder`, `InstructionModeLine`, `TerminatedMeansDone`,
  `ContinueSkipsNoBreakpoint` (by instructions), `ContinueFindsNext` (by
  lines), `NextMakesProgress`, `ContinueReturns`.
* chan: `NoTakerForgotten`, `ImplementsFifo`; rwmutex: `NoLostWakeup`,
  `ImplementsSharedLock`, `StarvedByReadersOnly`.
* session: `AnswersInOrder`, `RequestsAccountedFor`, `EndingIsTheLastUse`,
  `DestructionEnds`, `TerminationIsServed`, `AcceptedIsAnswered`;
  session_closed: `ClosedSessionEnds`.
* storage: `NobodyFindsDestroyed`, `LiveSessionIsFound`, `OnlyLateLaunchHurts`,
  `LockIsReleased`.
* socket: `NoUseAfterClose`, `LostByErrorOnly`, `CloseEnds`, `ReceiverEnds`.
* framing: `ImplementsStream`, `NothingAfterJunk`, `OvertakenByOthersOnly`,
  `TypeOK`.
* jobs: `DoneHasCounts`, `NothingLeftUndecided`, `DoneIsFinal`; jobs_qctrl:
  `AcceptedStaysQueued`.
* sources: `FolderIsWhatWasSent`, `LaunchLoadsWhatWasSent`, `RefusedForAReason`.
* viewer: `SceneIsCurrent`, `ShownIsAlive`, `LeakNeedsOverlap`,
  `StatusTellsSource`.

The type invariants of all other modules that have one, `Exclusion`,
`NeverClosedTwice` and `TerminalHasEndTime` are proved (section 4) and not
checked again by a run.

Deadlock is checked for the channel, the lock and wherever the configuration
does not say otherwise. The other systems may stop: a process that is gone, a
client that sends nothing more, requests, imports and clicks that are bounded.

### Bounds, and why they are enough

* `Debugger.cfg`: sixteen programs, one for each path through preparation and
  mapping (plain, with dropped lines, with a broadcast gate, throwing, without
  operations, Python with a docstring, C++ with a loop, unmapped, faulty or
  surplus instructions, unreadable, untranslated, one that takes the process with
  it, demo, missing, unknown). Two
  launches in any combination are what it takes to mix the state of one with
  the tables of another. `MaxLine = 4` is past the end of every file.
  `ContinueGuard = 4` stands for the 1,000,000 of the code: longer than every
  circuit, so that both ends of the loop happen. Initial lines -1, 0 and 3
  stand for what the uninitialised field can hold.
* `Chan.cfg`: two takers and two values are what distinguishes order and
  competing takers; a queue of three has an end, a middle and an empty state.
* `DebugSession.cfg`: three requests, so that one can be answered, one ends the
  session and one is queued behind it, each good, garbled, or a Disconnect whose
  arguments do not fit; the commands are one of each kind of
  effect on the threads (announce, store, step, end, configure). A Continue, and
  the handlers that only answer, differ from these in nothing other threads see.
* `DebugSessionClosed.cfg`: configurationDone and one more request, the least it
  takes to reach `terminate.wait` and to leave.
* `SessionStorage.cfg`: two sessions, two ids, three launches: a shared id, a
  change of id, a launch after the end. A session that destroys another that is
  waiting for the lock happens at depth 10, a self-join at 11, a use after free
  at 14.
* `RWMutex.cfg`: four threads give two waiting writers beside a reader and a
  writer, the case in which a notification reaches one of several.
* `Socket.cfg`: one receiver, one sender (senders exclude each other by
  `sendMutex`), one destroyer with its two closes; three messages.
* `Framing.cfg`: two threads with two messages between them, a short one and one
  whose body is the text of a whole header, over any split into pieces, one cut
  anywhere, and six kinds of junk (no header, no length, length zero, a missing
  end of line, another field, a length that does not fit). Two messages are what
  it takes for one to overtake the other and for what is left in `buf` to meet
  the next header.
* `SourceFolder.cfg`: three requests of any kind on the folder `default` and two
  sessions, so that two writers and a launch, or an upload, a mirror of it and a
  launch, can overlap; uploads to the folder, to its subfolder, to both, one that
  goes bad, one of a file with the subfolder's name, and two in which that file
  and the subfolder are in each other's way. Requests are symmetric, and so are
  the two sessions that are not `default`.
* `Viewer.cfg`: four imports (the first and three clicks on Apply) so that two
  are under way while a third is in use, two renderings, two loads among three
  circuits, one of them empty.
* `JobRegistry.cfg`: two jobs of any backend and two checks of the same job.

### Fairness

* `Debugger`: the loop of a Continue runs on its own thread and is not stopped.
* `Chan`, `DebugSession`, `SessionStorage`: threads run, and a mutex that is
  free can be had. Nobody has to put, to close, to send or to launch.
* `RWMutex`: a thread that holds the lock gives it back and one that was woken
  looks at the counter. Both need the mutex, which is free only now and then,
  hence strong fairness; nobody has to ask for the lock.
* `Socket`: calls return, but `recv` and `send` only when the peer, a shutdown
  or an error makes them.
* `Framing`: the receiver is a thread of its own and runs; nobody has to send.
* `JobRegistry`, `SourceFolder`, `Viewer`: none, their properties are safety
  properties, and a provider, a server or a user may stay silent for ever.

### What a property leaves out

`EndingIsTheLastUse` and `OnlyLateLaunchHurts` say when undefined behaviour
is possible, not that it is impossible: a client that sends requests behind the
one that ends its session can reach it. `InstructionModeLine` holds only for
circuits in which no instruction throws. `TerminatedMeansDone` speaks of
programs stepped by instructions, takes an instruction that threw for done, and
excepts the instructions of a circuit beyond the end of a shorter table, without
which the code does report the end. `RequestsAccountedFor` lets the receiver
reject what is garbled or does not fit. `NothingLeftUndecided` excepts jobs
whose last write failed or whose worker was killed. `OvertakenByOthersOnly` allows the
numbers on the wire to be out of order between threads. `FolderIsWhatWasSent`
and `LaunchLoadsWhatWasSent` say nothing of requests that overlap: mixed files
are possible then. `RefusedForAReason` speaks of a copy only when it is known
what was sent to both folders. `ShownIsAlive` excepts the time of an import and what comes
after one that failed; `StatusTellsSource` excepts circuits that were loaded
while the answer was awaited.

### Where the code differs from what it says

Two runs expect a violation (session_closed, jobs_qctrl; "findings" in
`PROJECT.json`). Other differences met while modelling, which no run states:

* A run that found nothing at its first look loads the source again
  (`Typedefs.h:76`, `qvm/QppQVM.cpp:77`) and, if the file is there by then,
  answers success without executing it. No text says what it should do.
* A Disconnect without arguments, which the protocol allows, does not
  deserialize (`dap/session.cpp:357`); it is never answered and ends nothing.
* A step over a mapped line executes the next instruction of the circuit
  (`qvm/QppQVM.cpp:182`), not the one the table holds for the line, as the
  comment at `qvm/BaseQVM.cpp:321` promises.
* An Initialize answered before the sent handler is registered
  (`QSCore.cpp:430`) is followed by no InitializedEvent, which the comment at
  `QSCore.cpp:426` promises. In the model: `InitializeSent` with
  `registered = 2` or less.
* A socket on which `isOpen` met an error is given up without being closed
  (`dap/socket.cpp:171`), although `close` promises to close it (190).
* A length that wraps around in `ContentReader::read`, or a length of zero
  followed directly by a header, lets the reader find messages after junk; the
  junk of `MCFraming` leaves both out.
* `prepareData` of a session onto itself opens each file for writing before it
  has read it, and empties it; the account of `SourceFolder` excepts it.
* The page in `scripts/q3d3` uses `OrbitControls` without importing it and
  cannot start.

## 4. Proofs

Checked by `tlapm M.tla`; each holds for every value of the constants that meets
the named assumptions, without bound on states.

* `DebuggerProofs`. The inductive invariant `IInv` is that of the engine
  (`EngineInv`), the types of the session, `TerminatedMeansDone`,
  `ContinueSkipsNoBreakpoint`, and that a running Continue has sent nothing yet
  (`QuietWhileRunning`). `EngineInv` adds to the engine's types that a valid
  iterator has an engine (`EngineReady`), that it is at most one past the
  circuit and that the history is as long as it has advanced while nothing
  throws (`HistoryCounted`), that the executed instructions come in circuit
  order (`ExecutedInOrder`), and that the line shown is that of the next
  instruction (`InstructionModeLine`). `ExecutedInOrder` is not inductive
  alone: the step appends `mIt`, so it needs the range of `mIt`;
  `TerminatedMeansDone` needs `HistoryCounted` at the end of the program. The
  lines of a program are data: lemmas state what the mapping operators return
  as far as types go. Two action properties follow from the types:
  `ContinueFindsNext`, since the loop modulo the number of lines meets each line
  of the file in the iteration that is its cyclic distance
  (`ScanVisitsEachLine`), so the first hit is the nearest breakpoint; and
  `NextMakesProgress`, by the branches of `stepForward` (`NextAdvances`).
* `SharedObjectProofs`. The three objects that the threads of a connection
  share, in one module that EXTENDS all three, which is why some definitions of
  `Chan`, `Socket` and `RWMutex` carry the object's name (`ChanTypeOK`).
  Channel: `NoTakerForgotten` is inductive together with the types: a waiter is
  there only over an empty, open queue, so a put into a queue that was not empty
  has nobody to wake. `ChanIsFifo` is the step simulation: initial states map to
  initial states and each step to a step of `FifoChannel` or a stutter.
  Lock: the invariant counts: `readLocks` is the number of readers and
  `pendingWriteLocks` the number of waiting writers; the mutex is kept exactly
  while somebody writes; sleeping writers without a reader and without a writer
  have one that was notified. `ImplementsSharedLock` follows as a simulation,
  since the abstract specification has no fairness.
  Socket: the descriptor is closed only by a thread that saw `s` open under the
  write lock, the threads in `recv` and `send` came in over an open `s` and keep
  it open, and `s` is given up over an open descriptor only after an error.
* `DebugSessionProofs`. The places a request can be in are in order: whoever is
  further on its way was sent earlier (`InOrder`: answered, in service, in the
  inbox, on the wire), and each is in one place (`Accounted`). `AnswersInOrder`
  is not inductive alone: the next answer is the youngest only because the
  running request is older than the inbox. What is left of a handler is one of
  fourteen sequences (`Works`) with one reply; `fire` is followed by the reply
  only, so the handler that ends the session touches nothing of the dead frame
  (`Fired`).
* `SessionStorageProofs`. Who is referenced is neither gone nor being destroyed
  by anybody, and nobody is destroyed by two (`OwnersKnown`); an id is marked for
  removal only if a session that launched under it has ended (`MarksKnown`); a
  session whose client sent no late Launch is in no handler of one when it ends
  (`OnTime`).
* `JobRegistryProofs`. The invariant ties the row of a job to how far its request
  has come and to what its provider has done, and a status check to what it may
  still write: a check that saw a finished job can only write that it finished.
  `DoneIsFinal` is an action property and follows from it.
* `ViewerProofs`. The scene is drawn by whoever replaces the data or the library,
  so it follows both (`SceneHasData`); while nothing overlaps there is one import
  and no cache (`OneAtATime`); a request has the text of the source the page
  names, or was overtaken (`RequestsTellSource`).
* `FramingProofs`. Of the types the one with content is that of `got`: only
  whole bodies are handed on, wherever the stream is cut (`Whole`, `StaysWhole`);
  it needs the invariant. That says that there are the bytes `W` that were ever
  written, the bodies `B` whose headers were, the ends `c` of their frames and a
  position `p`, such that: frame i stands in `W` from `c[i - 1]` to `c[i]` and is
  message i (`Frames`); behind the last frame is nothing, one header whose sender
  is writing, or junk (`Behind`); `buf` and then `wire` are what follows `p`, all
  of it while the connection is up (`Ahead`); and the reader is between two
  frames, or inside a header at a place that `ReadsLength` and `Lengths` compute
  from `W` and that either announces the next body or ends in a contradiction
  (`Between`, `Within`). The witnesses are hidden by quantifiers, as nothing of
  the program holds them. A reader that cannot go on is over, or gives up on what
  is left of a cut connection (`Over`, `GivesUp`): an empty `buf`, or the
  beginning of a body, whose brace is no header. The steps of the senders make
  `W` longer (`ReadsGrow`), those of the reader move `p`, one lemma for each.
  `NothingAfterJunk`, the types and the safety part of `ImplementsStream`
  (`FramesAreAStream`) follow; `OvertakenByOthersOnly` needs the senders' half,
  that what a thread carries is younger than all it has sent (`NumbersOK`).
  The text of a number is a recursive function. That it exists is shown first,
  from finite approximations (`UpToExists`), and then that it spells the number
  (`DecimalSpells`), by way of the least counterexample.
* `SourceFolderProofs`. For a request that is alone, how far it has come is what
  its folder holds: an upload has written the entries it dealt with and nothing
  else (`UploadProgress`), a mirror the files that are no longer on its list,
  from a folder that stays (`MirrorProgress`), a launch has found nothing at the
  places it has looked at, and still finds what it found (`LaunchProgress`).
  The subfolder of a folder that is at rest is there for its file only (`Tidy`),
  so nothing an earlier request left is in the way of a later one: what is in the
  way of an upload is an entry of its own (`IsBlocked`), what is in the way of a
  copy is a clash of the two folders (`MirrorFailsInClash`). Whoever is alone
  shares no folder with a writer (`AloneIsAlone`), so the steps of the others
  leave it that (`OthersKeep`).
  `LaunchLoadsWhatWasSent` and `RefusedForAReason` are action properties and
  follow at the load and at the steps that refuse.

Only model-checked, because it is out of the prover's reach: liveness
(`ContinueReturns`, `StarvedByReadersOnly`, `CloseEnds`, `ReceiverEnds`,
`DestructionEnds`, `TerminationIsServed`, `AcceptedIsAnswered`, `LockIsReleased`,
and the fairness part of `ImplementsFifo` and `ImplementsStream`). Every
invariant and every action property of a passing run is proved.

## 5. Not modelled

JSON; accept and stop of the server; the state vector and the front end that
shows it; the CUDA-Q engine, which the constructor of `Debugger` replaces; the
command line modes; signals (a send on a reset connection raises one); users,
keys and nodes in the gateway; `submitFile` and the reading endpoints of the
upload service; a path of a launch that exists on the debugger's own machine;
failures to remove a file that `clear_folder` logs and goes on from; files that
appear during a mirror's walk; the workspace service; a commit to the jobs table
that takes effect and still raises; the moment between the change of the library
and the redraw in the viewer (two microtasks); malformed answers to the viewer, positions and colours of what it
draws, and the other viewer in `scripts/q3d2`; the remaining services, which
keep no state between requests; vendored code. The components of
`PROJECT.json` say why, one by one.

Counted in lines, nearly all JavaScript of the repository is vendored:
`three.module.js` and `OrbitControls.js` are there in four copies and make up
some 218,000 of 221,000 lines, and of the rest the viewer's own files are there
three times. `Viewer` maps the page and the four modules of one copy.

## 6. Plan

Done: the debug engine, the transport from lock to framing, the session, the
storage, the jobs, the uploads, the viewer, and proofs about each of them.

Next, in this order:

1. `WebSocket`: lifetime of `WSSession`, its asynchronous writes and the active
   session.
2. `DapServer`: accept against stop. `Account`: the default account that IBM
   requests overwrite. The table of users: looked up and inserted in two steps
   (`server.py:1014`).
3. Workspaces of `scripts/boots`: prepare, which tests, makes, copies and
   creates a venv (`app.py:92`), against delete.
4. The splitting algorithm of `scripts/aiqasm` as an operator against a
   reference definition.
