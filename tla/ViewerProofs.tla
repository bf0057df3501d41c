---------------------------- MODULE ViewerProofs ----------------------------
(***************************************************************************)
(* Proofs about Viewer, for any circuits and any number of clicks.         *)
(***************************************************************************)
EXTENDS Viewer, TLAPS

USE TextsAssumption, NoneAssumption, BoundsAssumption

\* Nothing is asked, loaded or shown before the first library is there.
NothingEarly ==
  /\ Ready => gateLib > 0
  /\ ~Ready => asked = {} /\ loads = {} /\ currentData = None /\ cached = {}
  /\ stage = "starting" => imports = {1}

\* There is a scene just when there are data, and a cache only after a scene.
SceneHasData ==
  /\ currentData = None => scene = None /\ cached = {}
  /\ currentData # None => scene = [data |-> currentData, lib |-> gateLib]

\* As long as nothing overlaps there is one import at a time, and no cache
\* while it is under way.
OneAtATime ==
  ~overlapped => /\ \A m, n \in imports : m = n
                 /\ imports # {} => cached = {}
                 /\ cached \subseteq {gateLib}

\* A request has the text of the source the page names, or was overtaken.
RequestsTellSource ==
  /\ text = source
  /\ \A request \in asked : request.text = source \/ request.id \in overtaken

\* The requests are numbered from 1.
RequestsNumbered == \A request \in asked : request.id \in 1..MaxRenders

\* The button offers to render exactly when there is a circuit and a backend,
\* whichever of them comes last (enableRenderIfReady).
ButtonIsFresh == enabled = Renderable(text, backend)

\* The inductive invariant.
IInv == /\ TypeOK /\ NothingEarly /\ SceneHasData /\ ShownIsAlive /\ OneAtATime
        /\ RequestsNumbered /\ RequestsTellSource /\ StatusTellsSource /\ ButtonIsFresh

-----------------------------------------------------------------------------

\* The page as it is loaded.
LEMMA InitIInv == Init => IInv
<1> SUFFICES ASSUME Init PROVE IInv
  OBVIOUS
<1>1. PICK k \in Kinds : kind = <<k>>
  BY DEF Init
<1>2. kind \in Seq(Kinds) /\ Len(kind) = 1
  BY <1>1
<1>3. TypeOK
  <2>1. /\ kind \in Seq(Kinds) /\ imports \subseteq 1..Len(kind)
        /\ gateLib \in 0..Len(kind) /\ cached \subseteq 1..Len(kind)
    BY <1>2 DEF Init
  <2>2. /\ text \in Texts \cup {None} /\ source \in Texts \cup {None}
        /\ loads \subseteq Texts /\ loadsBegun \in 0..MaxLoads
    BY DEF Init
  <2>4. /\ stage \in {"starting", "ready", "dead"} /\ fetching \subseteq Lists
        /\ backend \in BOOLEAN /\ enabled \in BOOLEAN /\ booting \in BOOLEAN
    BY DEF Init
  <2>3. /\ asked \subseteq Data /\ rendersBegun \in 0..MaxRenders
        /\ currentData = None /\ scene = None /\ status = None
        /\ overtaken \subseteq 1..MaxRenders
    BY DEF Init
  <2>5. QED
    BY <2>1, <2>2, <2>3, <2>4 DEF TypeOK
<1>4. NothingEarly /\ SceneHasData /\ ShownIsAlive /\ OneAtATime
  BY DEF Init, NothingEarly, SceneHasData, ShownIsAlive, OneAtATime, Ready
<1>5. RequestsTellSource /\ StatusTellsSource /\ ButtonIsFresh
  BY DEF Init, RequestsTellSource, StatusTellsSource, ButtonIsFresh, Renderable
<1>6. QED
  BY <1>3, <1>4, <1>5 DEF Init, IInv, RequestsNumbered

\* A record of data is data, and never None.
LEMMA DataIsNotNone ==
  ASSUME NEW data \in Data PROVE data # None
BY DEF Data

\* What drawing does, when what is drawn becomes the current data.
LEMMA Drawing ==
  ASSUME IInv, NEW data \in Data, NEW lib \in 1..Len(kind), Draw(data, lib),
         kind' = kind, currentData' = data, gateLib' = lib,
         imports' \subseteq imports, stage = "ready", stage' = "ready",
         lib = gateLib \/ (lib \in imports /\ imports' = imports \ {lib})
  PROVE  /\ scene' \in [data : Data, lib : 1..Len(kind')]
         /\ cached' \subseteq 1..Len(kind')
         /\ scene'.data = data
         /\ SceneHasData' /\ ShownIsAlive' /\ OneAtATime'
<1>1. TypeOK /\ data # None /\ Len(kind) \in Nat
  BY DataIsNotNone DEF IInv, TypeOK
<1>2. /\ scene' = [data |-> data, lib |-> lib]
      /\ cached' = (IF Caches(lib) THEN cached \cup {lib} ELSE cached)
      /\ overlapped' = (overlapped \/ imports' # {})
  BY DEF Draw
<1>3. scene' \in [data : Data, lib : 1..Len(kind')] /\ cached' \subseteq 1..Len(kind')
  BY <1>1, <1>2 DEF TypeOK
<1>4. SceneHasData'
  BY <1>1, <1>2 DEF SceneHasData
<1>5. ShownIsAlive'
  BY <1>2 DEF ShownIsAlive, Caches
<1>6. OneAtATime'
  <2> SUFFICES ASSUME ~overlapped' PROVE imports' = {} /\ cached' \subseteq {lib}
    BY <1>2 DEF OneAtATime
  <2>1. ~overlapped /\ imports' = {}
    BY <1>2
  <2>2. cached \subseteq {lib}
    BY <2>1 DEF IInv, OneAtATime
  <2>3. QED
    BY <1>2, <2>1, <2>2
<1>7. QED
  BY <1>2, <1>3, <1>4, <1>5, <1>6

-----------------------------------------------------------------------------
(* The inductive invariant, action by action.                              *)

\* The first library is there, or the page is dead.
LEMMA FirstLibraryIInv ==
  ASSUME IInv, FirstLibrary PROVE IInv'
<1>1. TypeOK' /\ ButtonIsFresh'
  BY DEF IInv, FirstLibrary, TypeOK, ButtonIsFresh, textVars, dataVars, drawVars, NothingEarly
<1>2. /\ currentData = None /\ scene = None /\ cached = {} /\ asked = {} /\ loads = {}
      /\ UNCHANGED <<currentData, scene, cached, asked, loads, text, source, status, failed,
                     overtaken, kind, overlapped>>
  BY DEF IInv, FirstLibrary, NothingEarly, SceneHasData, Ready, textVars, dataVars, drawVars
<1>3. NothingEarly'
  BY <1>2 DEF FirstLibrary, NothingEarly, Ready, IInv
<1>4. SceneHasData' /\ ShownIsAlive'
  BY <1>2 DEF SceneHasData, ShownIsAlive
<1>5. OneAtATime'
  BY <1>2 DEF FirstLibrary, OneAtATime
<1>6. RequestsTellSource' /\ StatusTellsSource'
  BY <1>2 DEF IInv, RequestsTellSource, StatusTellsSource
<1>7. QED
  BY <1>1, <1>2, <1>3, <1>4, <1>5, <1>6 DEF IInv, RequestsNumbered

\* dispose() empties the cache of the library in use, and what is shown is to
\* be drawn again.
LEMMA ApplyIInv ==
  ASSUME IInv, NEW k \in Kinds, Apply(k) PROVE IInv'
<1>1. /\ TypeOK /\ Ready /\ stage' = stage /\ gateLib' = gateLib
      /\ UNCHANGED <<textVars, dataVars, pageVars, scene, failed, currentData, status, overtaken>>
      /\ cached' = cached \ {gateLib} /\ kind' = Append(kind, k)
      /\ imports' = imports \cup {Len(kind) + 1}
      /\ overlapped' = (overlapped \/ imports # {})
  BY DEF IInv, Apply, Dispose, pageVars
<1>2. /\ kind' \in Seq(Kinds) /\ Len(kind') = Len(kind) + 1 /\ Len(kind) \in Nat
  BY <1>1 DEF TypeOK
<1>3. imports' \subseteq 1..Len(kind') /\ cached' \subseteq 1..Len(kind') /\ gateLib' \in 0..Len(kind')
  <2>1. imports \subseteq 1..Len(kind) /\ cached \subseteq 1..Len(kind) /\ gateLib \in 0..Len(kind)
    BY <1>1 DEF TypeOK
  <2>2. 1..Len(kind) \subseteq 1..Len(kind') /\ Len(kind) + 1 \in 1..Len(kind')
    BY <1>2
  <2>3. imports' \subseteq 1..Len(kind')
    BY <1>1, <2>1, <2>2
  <2>4. cached' \subseteq 1..Len(kind')
    BY <1>1, <2>1, <2>2
  <2>5. gateLib' \in 0..Len(kind')
    BY <1>1, <1>2, <2>1
  <2>6. QED
    BY <2>3, <2>4, <2>5
<1>4. scene' = None \/ scene' \in [data : Data, lib : 1..Len(kind')]
  BY <1>1, <1>2 DEF TypeOK
<1>5. TypeOK'
  BY <1>1, <1>2, <1>3, <1>4 DEF TypeOK, textVars, dataVars, pageVars
<1>6. NothingEarly'
  BY <1>1 DEF IInv, NothingEarly, Ready, textVars, dataVars
<1>7. SceneHasData' /\ ShownIsAlive'
  BY <1>1 DEF IInv, SceneHasData, ShownIsAlive
<1>8. OneAtATime'
  BY <1>1 DEF IInv, OneAtATime
<1>9. RequestsNumbered' /\ RequestsTellSource' /\ StatusTellsSource' /\ ButtonIsFresh'
  BY <1>1 DEF IInv, RequestsNumbered, RequestsTellSource, StatusTellsSource, ButtonIsFresh, textVars,
              dataVars, pageVars
<1>10. QED
  BY <1>5, <1>6, <1>7, <1>8, <1>9 DEF IInv

\* A library that arrives becomes the current one, and the scene is drawn anew.
LEMMA ImportedIInv ==
  ASSUME IInv, NEW n \in imports, Imported(n) PROVE IInv'
<1>1. /\ TypeOK /\ stage = "ready" /\ stage' = "ready" /\ imports' = imports \ {n}
      /\ gateLib' = n /\ status' = None /\ n \in 1..Len(kind) /\ n > 0 /\ Len(kind) \in Nat
      /\ kind' = kind /\ currentData' = currentData
      /\ UNCHANGED <<textVars, dataVars, pageVars, overtaken>>
  BY DEF IInv, TypeOK, Imported, Ready, pageVars
<1>2. /\ scene' = None \/ scene' \in [data : Data, lib : 1..Len(kind')]
      /\ cached' \subseteq 1..Len(kind')
      /\ SceneHasData' /\ ShownIsAlive' /\ OneAtATime'
  <2>1. CASE currentData # None
    <3>1. Draw(currentData, n) /\ currentData \in Data
      BY <1>1, <2>1 DEF Imported, TypeOK
    <3>2. QED
      BY <1>1, <3>1, Drawing
  <2>2. CASE currentData = None
    <3>1. UNCHANGED drawVars /\ scene = None /\ cached = {}
      BY <2>2 DEF Imported, IInv, SceneHasData
    <3>2. QED
      BY <1>1, <2>2, <3>1 DEF drawVars, SceneHasData, ShownIsAlive, OneAtATime, IInv, TypeOK
  <2>3. QED
    BY <2>1, <2>2
<1>3. TypeOK'
  BY <1>1, <1>2 DEF TypeOK, textVars, dataVars, pageVars
<1>4. NothingEarly'
  BY <1>1 DEF NothingEarly, Ready
<1>5. RequestsNumbered' /\ RequestsTellSource' /\ StatusTellsSource' /\ ButtonIsFresh'
  BY <1>1 DEF IInv, RequestsNumbered, RequestsTellSource, StatusTellsSource, ButtonIsFresh, textVars,
              dataVars, pageVars
<1>6. QED
  BY <1>2, <1>3, <1>4, <1>5 DEF IInv

\* An import that fails leaves the old library and the old scene.
LEMMA ImportFailsIInv ==
  ASSUME IInv, NEW n \in imports, ImportFails(n) PROVE IInv'
<1>1. /\ TypeOK /\ Ready /\ imports' = imports \ {n} /\ failed' /\ status' = None
      /\ UNCHANGED <<textVars, kind, gateLib, dataVars, pageVars, cached, scene,
                     overlapped, currentData, overtaken>>
  BY DEF IInv, ImportFails
<1>2. TypeOK'
  BY <1>1 DEF TypeOK, textVars, dataVars, pageVars
<1>3. NothingEarly' /\ SceneHasData' /\ ShownIsAlive'
  BY <1>1 DEF IInv, NothingEarly, SceneHasData, ShownIsAlive, Ready, textVars, dataVars, pageVars
<1>4. OneAtATime'
  BY <1>1 DEF IInv, OneAtATime
<1>5. RequestsNumbered' /\ RequestsTellSource' /\ StatusTellsSource' /\ ButtonIsFresh'
  BY <1>1 DEF IInv, RequestsNumbered, RequestsTellSource, StatusTellsSource, ButtonIsFresh, textVars,
              dataVars, pageVars
<1>6. QED
  BY <1>2, <1>3, <1>4, <1>5 DEF IInv

\* A list arrives, and the button is looked at again.
LEMMA ListFetchedIInv ==
  ASSUME IInv, NEW list \in Lists, ListFetched(list) PROVE IInv'
<1>1. /\ TypeOK /\ stage' = stage /\ fetching' \subseteq fetching /\ status' = None
      /\ UNCHANGED <<text, source, loads, loadsBegun, libVars, gateLib,
                     dataVars, drawVars, currentData, overtaken>>
      /\ \/ backend' = TRUE /\ enabled' = Renderable(text, TRUE)
         \/ UNCHANGED <<backend, enabled>>
  BY DEF IInv, ListFetched
<1>2. backend' \in BOOLEAN /\ enabled' \in BOOLEAN
  BY <1>1 DEF TypeOK, Renderable
<1>3. TypeOK'
  BY <1>1, <1>2 DEF TypeOK, libVars, dataVars, drawVars
<1>4. NothingEarly' /\ SceneHasData' /\ ShownIsAlive' /\ OneAtATime'
  BY <1>1 DEF IInv, NothingEarly, SceneHasData, ShownIsAlive, OneAtATime, Ready, Caches,
              libVars, dataVars, drawVars
<1>5. RequestsNumbered' /\ RequestsTellSource' /\ StatusTellsSource'
  BY <1>1 DEF IInv, RequestsNumbered, RequestsTellSource, StatusTellsSource, dataVars
<1>6. ButtonIsFresh'
  BY <1>1 DEF IInv, ButtonIsFresh
<1>7. QED
  BY <1>3, <1>4, <1>5, <1>6 DEF IInv

\* Loading a circuit begins, or fails.
LEMMA LoadIInv ==
  ASSUME IInv, NEW qasm \in Texts, Load(qasm) \/ (qasm \in loads /\ LoadFails(qasm))
  PROVE  IInv'
<1>1. /\ TypeOK /\ loads' \subseteq Texts /\ loadsBegun' \in 0..MaxLoads
      /\ ~Ready => loads' = loads \/ loads' \subseteq loads
      /\ status' = None \/ status' = status
      /\ UNCHANGED <<text, source, enabled, libVars, gateLib, dataVars, pageVars,
                     drawVars, currentData, overtaken>>
  BY DEF IInv, TypeOK, Load, LoadFails, Tells, Silent
<1>2. TypeOK'
  BY <1>1 DEF TypeOK, libVars, dataVars, drawVars, pageVars
<1>3. NothingEarly' /\ SceneHasData' /\ ShownIsAlive' /\ OneAtATime'
  BY <1>1 DEF IInv, NothingEarly, SceneHasData, ShownIsAlive, OneAtATime, Ready, Caches,
              libVars, dataVars, drawVars, pageVars
<1>4. RequestsNumbered' /\ RequestsTellSource' /\ StatusTellsSource' /\ ButtonIsFresh'
  BY <1>1 DEF IInv, RequestsNumbered, RequestsTellSource, StatusTellsSource, ButtonIsFresh, dataVars,
              drawVars, pageVars
<1>5. QED
  BY <1>2, <1>3, <1>4 DEF IInv

\* Another circuit overtakes every request that is out.
LEMMA LoadedIInv ==
  ASSUME IInv, NEW qasm \in loads, Loaded(qasm) PROVE IInv'
<1>1. /\ TypeOK /\ qasm \in Texts /\ loads' = loads \ {qasm} /\ text' = qasm /\ source' = qasm
      /\ enabled' = Renderable(qasm, backend) /\ status' = None
      /\ overtaken' = overtaken \cup {request.id : request \in asked}
      /\ UNCHANGED <<loadsBegun, libVars, gateLib, dataVars, pageVars, drawVars, currentData>>
  BY DEF IInv, TypeOK, Loaded
<1>2. overtaken' \subseteq 1..MaxRenders
  <2>1. overtaken \subseteq 1..MaxRenders
    BY <1>1 DEF TypeOK
  <2>2. \A request \in asked : request.id \in 1..MaxRenders
    BY <1>1 DEF IInv, TypeOK, RequestsNumbered
  <2>3. QED
    BY <1>1, <2>1, <2>2
<1>3. TypeOK'
  <2>1. enabled' \in BOOLEAN
    BY <1>1 DEF TypeOK, Renderable
  <2>2. QED
    BY <1>1, <1>2, <2>1 DEF TypeOK, libVars, dataVars, drawVars, pageVars
<1>4. NothingEarly' /\ SceneHasData' /\ ShownIsAlive' /\ OneAtATime'
  BY <1>1 DEF IInv, NothingEarly, SceneHasData, ShownIsAlive, OneAtATime, Ready, Caches,
              libVars, dataVars, drawVars, pageVars
<1>5. RequestsNumbered' /\ RequestsTellSource' /\ StatusTellsSource' /\ ButtonIsFresh'
  BY <1>1 DEF IInv, RequestsNumbered, RequestsTellSource, StatusTellsSource, ButtonIsFresh, dataVars, pageVars
<1>6. QED
  BY <1>3, <1>4, <1>5 DEF IInv

\* A request takes the text as it is, and the page names its source.
LEMMA RenderIInv ==
  ASSUME IInv, Render PROVE IInv'
<1> DEFINE request == [id |-> rendersBegun + 1, text |-> text]
<1>1. /\ TypeOK /\ Ready /\ status' = None /\ text \in Texts
      /\ rendersBegun' = rendersBegun + 1 /\ rendersBegun' \in 1..MaxRenders
      /\ asked' = asked \cup {request}
      /\ UNCHANGED <<textVars, libVars, gateLib, booting, pageVars, drawVars, currentData, overtaken>>
  BY DEF IInv, TypeOK, Render
<1>2. request \in Data /\ request.id \in 1..MaxRenders /\ request.text = text
  BY <1>1 DEF Data
<1> HIDE DEF request
<1>3. TypeOK' /\ RequestsNumbered'
  BY <1>1, <1>2 DEF IInv, RequestsNumbered, TypeOK, textVars, libVars, drawVars, pageVars
<1>4. NothingEarly' /\ SceneHasData' /\ ShownIsAlive' /\ OneAtATime'
  BY <1>1 DEF IInv, NothingEarly, SceneHasData, ShownIsAlive, OneAtATime, Ready, Caches,
              textVars, libVars, drawVars, pageVars
<1>5. RequestsTellSource' /\ StatusTellsSource' /\ ButtonIsFresh'
  BY <1>1, <1>2 DEF IInv, RequestsTellSource, StatusTellsSource, ButtonIsFresh, textVars, pageVars
<1>6. QED
  BY <1>3, <1>4, <1>5 DEF IInv

\* An answer is drawn with the library that is current when it comes.
LEMMA AnsweredIInv ==
  ASSUME IInv, NEW request \in asked, Answered(request) PROVE IInv'
<1>1. /\ TypeOK /\ stage = "ready" /\ request \in Data /\ request.id \in 1..MaxRenders
      /\ asked' = asked \ {request} /\ currentData' = request
      /\ status' = [id |-> request.id, text |-> source]
      /\ UNCHANGED <<textVars, libVars, gateLib, rendersBegun, booting, pageVars, overtaken>>
      /\ Draw(request, gateLib)
  BY DEF IInv, TypeOK, NothingEarly, Ready, Answered, RequestsNumbered
<1>2. gateLib \in 1..Len(kind)
  BY <1>1 DEF IInv, TypeOK, NothingEarly, Ready
<1>3. /\ scene' \in [data : Data, lib : 1..Len(kind')] /\ cached' \subseteq 1..Len(kind')
      /\ scene'.data = request /\ SceneHasData' /\ ShownIsAlive' /\ OneAtATime'
  <2>1. PICK lib \in 1..Len(kind) : lib = gateLib
    BY <1>2
  <2>2. /\ Draw(request, lib) /\ gateLib' = lib /\ kind' = kind /\ imports' = imports
        /\ stage' = "ready"
    BY <1>1, <2>1 DEF libVars, pageVars
  <2>3. QED
    BY <1>1, <2>1, <2>2, Drawing
<1>4. TypeOK'
  <2>1. status' \in [id : 0..MaxRenders, text : Texts \cup {None}]
    BY <1>1 DEF TypeOK, Data
  <2>2. QED
    BY <1>1, <1>3, <2>1 DEF TypeOK, textVars, libVars, pageVars
<1>5. NothingEarly' /\ RequestsNumbered'
  BY <1>1 DEF IInv, NothingEarly, Ready, RequestsNumbered, libVars, pageVars
<1>6. RequestsTellSource' /\ StatusTellsSource' /\ ButtonIsFresh'
  BY <1>1, <1>3 DEF IInv, RequestsTellSource, StatusTellsSource, ButtonIsFresh, textVars, pageVars
<1>7. QED
  BY <1>3, <1>4, <1>5, <1>6 DEF IInv

\* A request that fails changes nothing that is shown.
LEMMA RenderFailsIInv ==
  ASSUME IInv, NEW request \in asked, RenderFails(request) PROVE IInv'
<1>1. /\ TypeOK /\ asked' = asked \ {request} /\ status' = None
      /\ UNCHANGED <<textVars, libVars, gateLib, rendersBegun, booting, pageVars,
                     drawVars, currentData, overtaken>>
  BY DEF IInv, RenderFails
<1>2. TypeOK'
  BY <1>1 DEF TypeOK, textVars, libVars, drawVars, pageVars
<1>3. /\ NothingEarly' /\ SceneHasData' /\ ShownIsAlive' /\ OneAtATime' /\ RequestsNumbered'
  BY <1>1 DEF IInv, NothingEarly, SceneHasData, ShownIsAlive, OneAtATime, RequestsNumbered, Ready,
              Caches, textVars, libVars, drawVars, pageVars
<1>4. RequestsTellSource' /\ StatusTellsSource' /\ ButtonIsFresh'
  BY <1>1 DEF IInv, RequestsTellSource, StatusTellsSource, ButtonIsFresh, textVars, pageVars
<1>5. QED
  BY <1>2, <1>3, <1>4 DEF IInv

\* The circuit of the data parameter is drawn, or is no circuit.
LEMMA BootDataIInv ==
  ASSUME IInv, BootData PROVE IInv'
<1> DEFINE json == [id |-> 0, text |-> Json]
<1>1. /\ TypeOK /\ stage = "ready" /\ booting' = FALSE /\ status' = None
      /\ enabled' = Renderable(text, backend)
      /\ UNCHANGED <<text, source, loads, loadsBegun, gateLib, asked, rendersBegun,
                     pageVars, overtaken, libVars>>
  BY DEF IInv, BootData, Ready
<1>2. json \in Data /\ gateLib \in 1..Len(kind)
  BY <1>1 DEF Data, IInv, TypeOK, NothingEarly, Ready
<1>3. /\ scene' = None \/ scene' \in [data : Data, lib : 1..Len(kind')]
      /\ cached' \subseteq 1..Len(kind') /\ currentData' \in Data \cup {None}
      /\ SceneHasData' /\ ShownIsAlive' /\ OneAtATime'
  <2>1. CASE currentData' = json /\ Draw(json, gateLib)
    <3>1. PICK lib \in 1..Len(kind) : lib = gateLib
      BY <1>2
    <3>2. /\ Draw(json, lib) /\ gateLib' = lib /\ kind' = kind /\ imports' = imports
          /\ stage' = "ready"
      BY <1>1, <2>1, <3>1 DEF libVars, pageVars
    <3>3. QED
      BY <1>1, <1>2, <2>1, <3>1, <3>2, Drawing
  <2>2. CASE UNCHANGED <<currentData, drawVars, libVars>>
    BY <1>1, <2>2 DEF IInv, TypeOK, SceneHasData, ShownIsAlive, OneAtATime, Caches, drawVars, libVars
  <2>3. QED
    BY <2>1, <2>2 DEF BootData
<1>4. TypeOK'
  <2>1. enabled' \in BOOLEAN
    BY <1>1 DEF TypeOK, Renderable
  <2>2. QED
    BY <1>1, <1>3, <2>1 DEF TypeOK, libVars, pageVars
<1>5. NothingEarly' /\ RequestsNumbered'
  BY <1>1 DEF IInv, NothingEarly, Ready, RequestsNumbered, libVars, pageVars
<1>6. RequestsTellSource' /\ StatusTellsSource' /\ ButtonIsFresh'
  BY <1>1 DEF IInv, RequestsTellSource, StatusTellsSource, ButtonIsFresh, pageVars
<1>7. QED
  BY <1>3, <1>4, <1>5, <1>6 DEF IInv

\* Every step keeps the invariant.
LEMMA NextIInv == IInv /\ [Next]_vars => IInv'
<1> SUFFICES ASSUME IInv, [Next]_vars PROVE IInv'
  OBVIOUS
<1>1. CASE FirstLibrary \/ Render \/ BootData
  BY <1>1, FirstLibraryIInv, RenderIInv, BootDataIInv
<1>2. ASSUME NEW k \in Kinds, Apply(k) PROVE IInv'
  BY <1>2, ApplyIInv
<1>3. ASSUME NEW n \in imports, Imported(n) \/ ImportFails(n) PROVE IInv'
  BY <1>3, ImportedIInv, ImportFailsIInv
<1>4. ASSUME NEW list \in Lists, ListFetched(list) PROVE IInv'
  BY <1>4, ListFetchedIInv
<1>5. ASSUME NEW qasm \in Texts, Load(qasm) PROVE IInv'
  BY <1>5, LoadIInv
<1>6. ASSUME NEW qasm \in loads, Loaded(qasm) \/ LoadFails(qasm) PROVE IInv'
  <2>1. qasm \in Texts
    BY DEF IInv, TypeOK
  <2>2. QED
    BY <1>6, <2>1, LoadedIInv, LoadIInv
<1>7. ASSUME NEW request \in asked, Answered(request) \/ RenderFails(request) PROVE IInv'
  BY <1>7, AnsweredIInv, RenderFailsIInv
<1>8. CASE UNCHANGED vars
  <2>1. TypeOK' /\ NothingEarly' /\ SceneHasData' /\ ShownIsAlive' /\ OneAtATime'
    BY <1>8 DEF vars, IInv, TypeOK, NothingEarly, SceneHasData, ShownIsAlive, OneAtATime, Ready,
                Caches, textVars, libVars, dataVars, pageVars, drawVars
  <2>2. RequestsNumbered' /\ RequestsTellSource' /\ StatusTellsSource' /\ ButtonIsFresh'
    BY <1>8 DEF vars, IInv, RequestsNumbered, RequestsTellSource, StatusTellsSource,
                ButtonIsFresh, textVars, dataVars, pageVars, drawVars
  <2>3. QED
    BY <2>1, <2>2 DEF IInv
<1>9. QED
  BY <1>1, <1>2, <1>3, <1>4, <1>5, <1>6, <1>7, <1>8 DEF Next

-----------------------------------------------------------------------------
(* Theorems.                                                               *)

\* The invariant holds in every reachable state of the page.
THEOREM ViewerInvariant == Spec => []IInv
BY InitIInv, NextIInv, PTL DEF Spec

\* Every variable of the page keeps its type.
THEOREM ViewerTypeCorrect == Spec => []TypeOK
<1>1. IInv => TypeOK
  BY DEF IInv
<1>2. QED
  BY <1>1, ViewerInvariant, PTL

\* What is shown is the last answer drawn with the last library, in whatever
\* order the answers and the libraries came.
THEOREM SceneFollows == Spec => []SceneIsCurrent
<1>1. IInv => SceneIsCurrent
  BY DEF IInv, SceneHasData, SceneIsCurrent
<1>2. QED
  BY <1>1, ViewerInvariant, PTL

\* With no import under way and none failed since, nothing on the screen was
\* disposed of.
THEOREM SceneAlive == Spec => []ShownIsAlive
<1>1. IInv => ShownIsAlive
  BY DEF IInv
<1>2. QED
  BY <1>1, ViewerInvariant, PTL

\* A cache is left behind only by clicks that overlap an import.
THEOREM LeakIsOverlap == Spec => []LeakNeedsOverlap
<1>1. IInv => LeakNeedsOverlap
  BY DEF IInv, OneAtATime, LeakNeedsOverlap
<1>2. QED
  BY <1>1, ViewerInvariant, PTL

\* The status line names the source of what is shown, unless it was replaced
\* while the answer was awaited.
THEOREM StatusFollows == Spec => []StatusTellsSource
<1>1. IInv => StatusTellsSource
  BY DEF IInv
<1>2. QED
  BY <1>1, ViewerInvariant, PTL
==============================================================================
