------------------------------- MODULE Viewer -------------------------------
(***************************************************************************)
(* The page of the circuit viewer (scripts/q3d/web: index.html,            *)
(* qpu_viewer.js, render_default.js and the two gate libraries).  The page *)
(* has one thread; what interleaves are its handlers, at their awaits:     *)
(* loading a circuit, having it transpiled and rendered, and changing the  *)
(* gate library, which is imported anew each time and may hold a cache of  *)
(* geometries and materials.  Clicks come at any moment, and answers in    *)
(* any order or never.  An action is what runs up to the next await.       *)
(***************************************************************************)
EXTENDS Naturals, Sequences, FiniteSets

CONSTANTS
  Texts,      \* the circuits a user has, as samples or files
  Empty,      \* one of them: the file with nothing in it
  Json,       \* the circuit of the page's data parameter
  None,       \* null
  MaxImports, MaxRenders, MaxLoads  \* bounds on what the user clicks

Kinds == {"default", "fun"}     \* gate_lib_default.js and gate_lib_fun.js
Lists == {"backends", "samples"}

ASSUME TextsAssumption == Empty \in Texts /\ Json \notin Texts /\ None \notin Texts \cup {Json}
ASSUME NoneAssumption == None \notin [id : Nat, text : Texts \cup {Json}]
ASSUME BoundsAssumption == MaxImports \in Nat /\ MaxRenders \in Nat /\ MaxLoads \in Nat

VARIABLES
  stage,       \* "starting", "ready", "dead": of the page's module
  fetching,    \* the lists that are being fetched
  backend,     \* elBackend.value: there is one to choose
  text,        \* qasmText
  source,      \* qasmSource
  enabled,     \* elRender is enabled
  loads,       \* the circuits that are being loaded
  loadsBegun,
  kind,        \* kind[n]: the library the n-th import is of
  imports,     \* the imports that are not done
  gateLib,     \* ctx.gateLib: the import it came from
  cached,      \* the libraries whose cache is filled
  asked,       \* the transpile requests without an answer
  rendersBegun,
  booting,     \* the data parameter is still to be loaded
  currentData, \* ctx.currentData
  scene,       \* the data that is shown, and the library it was drawn with
  status,      \* what the status line says of a rendering
  overlapped,  \* something was drawn or imported while an import was under way
  failed,      \* an import has failed since the last drawing
  overtaken    \* the renderings during which another circuit was loaded

textVars   == <<text, source, enabled, loads, loadsBegun>>
libVars    == <<kind, imports>>
dataVars   == <<asked, rendersBegun, booting>>
pageVars   == <<stage, fetching, backend>>
drawVars   == <<cached, scene, overlapped, failed>>
vars == <<textVars, libVars, gateLib, dataVars, pageVars, drawVars,
          currentData, status, overtaken>>

Init ==
  /\ stage = "starting" /\ fetching = Lists /\ backend = FALSE
  /\ text = None /\ source = None /\ enabled = FALSE
  /\ loads = {} /\ loadsBegun = 0
  /\ \E k \in Kinds : kind = <<k>>
  /\ imports = {1} /\ gateLib = 0 /\ cached = {}
  /\ asked = {} /\ rendersBegun = 0 /\ booting \in BOOLEAN
  /\ currentData = None /\ scene = None /\ status = None
  /\ overlapped = FALSE /\ failed = FALSE /\ overtaken = {}

\* The handlers are attached once the first library is there.
Ready == stage = "ready"

-----------------------------------------------------------------------------
(* Drawing: renderFromData, renderQPU, ensure.                             *)

Caches(n) == n > 0 /\ kind[n] = "default"

\* The scene is cleared and drawn with the library, whose cache is filled.
Draw(data, lib) ==
  /\ scene' = [data |-> data, lib |-> lib]
  /\ cached' = IF Caches(lib) THEN cached \cup {lib} ELSE cached
  /\ failed' = FALSE
  /\ overlapped' = (overlapped \/ imports' # {})

-----------------------------------------------------------------------------
(* The gate library: setGateLibrary and the handler of Apply.              *)

\* The library of the page, before anything else is there.
FirstLibrary ==
  /\ stage = "starting"
  /\ imports' = {}
  /\ \/ stage' = "ready" /\ gateLib' = 1
     \/ stage' = "dead" /\ UNCHANGED gateLib
  /\ UNCHANGED <<textVars, kind, dataVars, fetching, backend, drawVars,
                 currentData, status, overtaken>>

\* Mutant: nothing is disposed of.
DisposeNot == cached' = cached

\* dispose() of the library in use, before the await.
Dispose == cached' = cached \ {gateLib}

Apply(k) ==
  /\ Ready
  /\ Len(kind) < MaxImports
  /\ Dispose
  /\ kind' = Append(kind, k)
  /\ imports' = imports \cup {Len(kind) + 1}
  /\ overlapped' = (overlapped \/ imports # {})
  /\ UNCHANGED <<textVars, gateLib, dataVars, pageVars, scene, failed,
                 currentData, status, overtaken>>

\* Mutant: the new library waits for the next rendering.
ImportedUnshown(n) ==
  /\ Ready /\ n \in imports
  /\ imports' = imports \ {n}
  /\ gateLib' = n
  /\ status' = None
  /\ UNCHANGED <<textVars, kind, dataVars, pageVars, drawVars, currentData, overtaken>>

\* Mutant: dispose() comes last, when the library in use is the new one.
ImportedDisposing(n) ==
  /\ Ready /\ n \in imports
  /\ imports' = imports \ {n}
  /\ gateLib' = n
  /\ status' = None
  /\ scene' = IF currentData # None THEN [data |-> currentData, lib |-> n] ELSE scene
  /\ cached' = cached \ {n}
  /\ failed' = FALSE
  /\ UNCHANGED <<textVars, kind, dataVars, pageVars, overlapped, currentData, overtaken>>

\* The import is there: the library is the current one, and what is shown is
\* drawn again with it.
Imported(n) ==
  /\ Ready /\ n \in imports
  /\ imports' = imports \ {n}
  /\ gateLib' = n
  /\ status' = None
  /\ IF currentData # None THEN Draw(currentData, n) ELSE UNCHANGED drawVars
  /\ UNCHANGED <<textVars, kind, dataVars, pageVars, currentData, overtaken>>

\* No module, or one without getMeshForGate.
ImportFails(n) ==
  /\ Ready /\ n \in imports
  /\ imports' = imports \ {n}
  /\ failed' = TRUE
  /\ status' = None
  /\ UNCHANGED <<textVars, kind, gateLib, dataVars, pageVars, cached, scene,
                 overlapped, currentData, overtaken>>

-----------------------------------------------------------------------------
(* The circuit: samples, files, and the button that needs one.             *)

\* enableRenderIfReady
Renderable(qasm, hasBackend) == qasm \notin {None, Empty} /\ hasBackend

\* fetchBackends; a failure or an empty list leaves nothing to choose.
\* fetchSamples only fills a menu.
ListFetched(list) ==
  /\ Ready /\ list \in fetching
  /\ fetching' = fetching \ {list}
  /\ \/ list = "backends" /\ backend' = TRUE /\ enabled' = Renderable(text, TRUE)
     \/ UNCHANGED <<backend, enabled>>
  /\ status' = None
  /\ UNCHANGED <<stage, text, source, loads, loadsBegun, libVars, gateLib,
                 dataVars, drawVars, currentData, overtaken>>

\* A file is read silently; a sample, once there is a menu of them, is not.
Tells == "samples" \notin fetching /\ status' = None
Silent == UNCHANGED status

\* Load sample, or a file that was picked.
Load(qasm) ==
  /\ Ready
  /\ loadsBegun < MaxLoads
  /\ loadsBegun' = loadsBegun + 1
  /\ loads' = loads \cup {qasm}
  /\ Tells \/ Silent
  /\ UNCHANGED <<text, source, enabled, libVars, gateLib, dataVars, pageVars,
                 drawVars, currentData, overtaken>>

\* Mutant: the source is not kept.
LoadedUnnamed(qasm) ==
  /\ qasm \in loads
  /\ loads' = loads \ {qasm}
  /\ text' = qasm /\ source' = (IF source = None THEN qasm ELSE source)
  /\ enabled' = Renderable(qasm, backend)
  /\ overtaken' = overtaken \cup {request.id : request \in asked}
  /\ status' = None
  /\ UNCHANGED <<loadsBegun, libVars, gateLib, dataVars, pageVars, drawVars, currentData>>

Loaded(qasm) ==
  /\ qasm \in loads
  /\ loads' = loads \ {qasm}
  /\ text' = qasm /\ source' = qasm
  /\ enabled' = Renderable(qasm, backend)
  /\ overtaken' = overtaken \cup {request.id : request \in asked}
  /\ status' = None
  /\ UNCHANGED <<loadsBegun, libVars, gateLib, dataVars, pageVars, drawVars, currentData>>

LoadFails(qasm) ==
  /\ qasm \in loads
  /\ loads' = loads \ {qasm}
  /\ Tells \/ Silent
  /\ UNCHANGED <<text, source, enabled, loadsBegun, libVars, gateLib, dataVars,
                 pageVars, drawVars, currentData, overtaken>>

-----------------------------------------------------------------------------
(* Rendering: the handler of RENDER, and the data parameter.               *)

\* The circuit is sent as it is now.
Render ==
  /\ Ready /\ enabled
  /\ text \notin {None, Empty} /\ backend
  /\ rendersBegun < MaxRenders
  /\ rendersBegun' = rendersBegun + 1
  /\ asked' = asked \cup {[id |-> rendersBegun', text |-> text]}
  /\ status' = None
  /\ UNCHANGED <<textVars, libVars, gateLib, booting, pageVars, drawVars,
                 currentData, overtaken>>

\* The answer becomes the current data and is drawn; the status line names
\* the source as it is by now.
Answered(request) ==
  /\ request \in asked
  /\ asked' = asked \ {request}
  /\ currentData' = request
  /\ UNCHANGED libVars
  /\ Draw(request, gateLib)
  /\ status' = [id |-> request.id, text |-> source]
  /\ UNCHANGED <<textVars, gateLib, rendersBegun, booting, pageVars, overtaken>>

RenderFails(request) ==
  /\ request \in asked
  /\ asked' = asked \ {request}
  /\ status' = None
  /\ UNCHANGED <<textVars, libVars, gateLib, rendersBegun, booting, pageVars,
                 drawVars, currentData, overtaken>>

\* Last in the page's module, after both lists; the button is looked at again.
BootData ==
  /\ Ready /\ fetching = {} /\ booting
  /\ booting' = FALSE
  /\ \/ /\ currentData' = [id |-> 0, text |-> Json]
        /\ UNCHANGED libVars
        /\ Draw(currentData', gateLib)
     \/ UNCHANGED <<currentData, drawVars, libVars>>
  /\ enabled' = Renderable(text, backend)
  /\ status' = None
  /\ UNCHANGED <<text, source, loads, loadsBegun, gateLib, asked, rendersBegun,
                 pageVars, overtaken>>

Next ==
  \/ FirstLibrary
  \/ \E k \in Kinds : Apply(k)
  \/ \E n \in imports : Imported(n) \/ ImportFails(n)
  \/ \E list \in Lists : ListFetched(list)
  \/ \E qasm \in Texts : Load(qasm)
  \/ \E qasm \in loads : Loaded(qasm) \/ LoadFails(qasm)
  \/ Render
  \/ \E request \in asked : Answered(request) \/ RenderFails(request)
  \/ BootData

Spec == Init /\ [][Next]_vars

-----------------------------------------------------------------------------
(* Properties.                                                             *)

Data == [id : 0..MaxRenders, text : Texts \cup {Json}]

\* Every variable keeps its type.
TypeOK ==
  /\ stage \in {"starting", "ready", "dead"} /\ fetching \subseteq Lists
  /\ backend \in BOOLEAN /\ enabled \in BOOLEAN /\ booting \in BOOLEAN
  /\ text \in Texts \cup {None} /\ source \in Texts \cup {None}
  /\ loads \subseteq Texts /\ loadsBegun \in 0..MaxLoads
  /\ kind \in Seq(Kinds) /\ imports \subseteq 1..Len(kind)
  /\ gateLib \in 0..Len(kind) /\ cached \subseteq 1..Len(kind)
  /\ asked \subseteq Data /\ rendersBegun \in 0..MaxRenders
  /\ currentData \in Data \cup {None}
  /\ scene = None \/ scene \in [data : Data, lib : 1..Len(kind)]
  /\ status = None \/ status \in [id : 0..MaxRenders, text : Texts \cup {None}]
  /\ overtaken \subseteq 1..MaxRenders

\* The scene is the current data drawn with the current library, in whatever
\* order answers and imports arrive: whoever replaces one of them draws again
\* (the handlers of Apply and RENDER, index.html).
SceneIsCurrent ==
  currentData # None => scene = [data |-> currentData, lib |-> gateLib]

\* What is on the screen was disposed of only while a library is being loaded,
\* or when it could not be (setGateLibrary disposes before it imports).
ShownIsAlive ==
  scene # None /\ imports = {} /\ ~failed /\ Caches(scene.lib) => scene.lib \in cached

\* A library that is no longer used keeps its cache only if something was drawn
\* with it, or another library applied, while its successor was being imported
\* (setGateLibrary and dispose, gate_lib_default.js).
LeakNeedsOverlap == cached \subseteq {gateLib} \/ overlapped

\* A rendering the status line reports is the one that is shown, and is of the
\* source it names, unless that was replaced while the answer was awaited
\* (qasmSource is read after the await, index.html).
StatusTellsSource ==
  status # None =>
    /\ scene.data.id = status.id
    /\ scene.data.text = status.text \/ status.id \in overtaken

==============================================================================
