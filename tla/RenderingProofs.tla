-------------------------- MODULE RenderingProofs --------------------------
(***************************************************************************)
(* Proofs about Rendering for every value of its parameters: the input     *)
(* half of ImGui and the frame by an inductive invariant for each, and     *)
(* the materials by the theorems of their own proof module, of which the   *)
(* frame's proof uses the lemmas too.                                      *)
(***************************************************************************)
EXTENDS Rendering, MaterialsProofs

ShadingFacts == INSTANCE MaterialsProofs WITH
  Names <- ShadedNames, Locations <- ShadedLocations, MaxMaterials <- ShadedMaterials,
  shaders <- mShaders, count <- mCount, versions <- mVersions, uniforms <- mUniforms,
  dirty <- mDirty, materials <- mMaterials, alive <- mAlive, current <- mCurrent, gl <- mGl,
  undefined <- mUndefined, wasSet <- mWasSet, overwritten <- mOverwritten,
  replaced <- mReplaced

\* While the subject is one component, every step is one of its own.
LEMMA PartsApart ==
  RenderingNext \/ UNCHANGED renderingVars =>
    [RendererNext]_allVars /\ [Shading!Next]_shadeVars /\ [Input!Next]_inputVars
  BY DEF RenderingNext, IsSubject, renderingVars

----------------------------------------------------------------------------
(* The input half of ImGuiManager.                                         *)

\* What waits for the next frame is what has happened since the last one, and a
\* drag that the window has followed is as long as the way of the mouse, wraps
\* aside, whether or not a frame has looked at the mouse meanwhile.
InputInv ==
  /\ iDown = iBefore.held \union iBefore.pressed /\ iLatch = iPressed
  /\ iSeen = 0 /\ iWheel = iScrolled /\ iWheel \in Int
  /\ iKeysDown = iKeys /\ iKeys \subseteq CtrlKeys
  /\ iCtrl = (iKeys # {})
  /\ iX \in 0 .. ScreenWidth - 1 /\ iClicked \in Int /\ iTravel \in Int /\ iWraps \in Nat
  /\ iTracked \in BOOLEAN /\ iFocused \in BOOLEAN /\ (iTracked => iFocused)
  /\ FirstButton \in iDown /\ iTracked =>
       ((iX - WindowX) - iClicked) - iTravel \in -(2 * iWraps) .. 2 * iWraps

\* The smaller of two numbers.
LEMMA SmallerOfTwo ==
  ASSUME NEW a \in Int, NEW b \in Int
  PROVE  Input!Min({a, b}) = IF a <= b THEN a ELSE b
  <1> DEFINE m == IF a <= b THEN a ELSE b
  <1>1. m \in {a, b} /\ \A c \in {a, b} : m =< c
    OBVIOUS
  <1>2. \A d \in {a, b} : (\A c \in {a, b} : d =< c) => d = m
    OBVIOUS
  <1> QED
    BY <1>1, <1>2 DEF Input!Min

\* begin_frame moves the mouse to the other side of the screen, and the place of
\* the click with it, give or take two pixels.
LEMMA FrameKeepsDrag ==
  ASSUME Input!InputAssumption, InputInv, NEW dragging \in BOOLEAN, Input!BeginFrame(dragging)
  PROVE  /\ iX' \in 0 .. ScreenWidth - 1 /\ iClicked' \in Int
         /\ iTravel' \in Int /\ iWraps' \in Nat
         /\ FirstButton \in iDown' /\ iTracked' =>
              ((iX' - WindowX) - iClicked') - iTravel' \in -(2 * iWraps') .. 2 * iWraps'
  <1> DEFINE wrap == Input!Wrap(dragging)
             to == IF iFocused THEN Input!Min({wrap.x, ScreenWidth - 1}) ELSE iX
             click == FirstButton \in iDown' \ iDown
  <1>1. /\ dragging => FirstButton \in iDown
        /\ iX' = to
        /\ iMouse' = IF iFocused THEN to - WindowX ELSE -1
        /\ iDown' = iLatch \union iHeld
        /\ iClicked' = IF click THEN iMouse' ELSE iClicked + wrap.by
        /\ iTravel' = IF click \/ iDown' = {} THEN 0 ELSE iTravel
        /\ iTracked' = IF click THEN iFocused ELSE iTracked
        /\ iWraps' = IF click \/ iDown' = {} THEN 0 ELSE iWraps + wrap.n
    BY DEF Input!BeginFrame
  <1>2. /\ ScreenWidth \in Nat /\ ScreenWidth > 3 /\ WindowX \in 0 .. ScreenWidth - 1
        /\ iX \in 0 .. ScreenWidth - 1 /\ iClicked \in Int /\ iTravel \in Int /\ iWraps \in Nat
    BY DEF InputInv, Input!InputAssumption
  <1>3. \/ wrap.x = iX /\ wrap.by = 0 /\ wrap.n = 0
        \/ wrap.x = ScreenWidth /\ wrap.by = ScreenWidth /\ wrap.n = 1 /\ iX = 0
        \/ wrap.x = 1 /\ wrap.by = -ScreenWidth /\ wrap.n = 1 /\ iX = ScreenWidth - 1
    BY <1>2 DEF Input!Wrap
  <1> HIDE DEF wrap
  <1>4. wrap.x \in Int /\ wrap.by \in Int /\ wrap.n \in Nat
    BY <1>2, <1>3
  <1>5. Input!Min({wrap.x, ScreenWidth - 1}) =
          IF wrap.x <= ScreenWidth - 1 THEN wrap.x ELSE ScreenWidth - 1
    BY <1>2, <1>4, SmallerOfTwo
  <1>6. /\ to \in 0 .. ScreenWidth - 1
        /\ iFocused => (to - wrap.by) - iX \in -(2 * wrap.n) .. 2 * wrap.n
    <2>1. CASE ~iFocused
      BY <1>2, <2>1
    <2>2. CASE iFocused
      <3>1. to = IF wrap.x <= ScreenWidth - 1 THEN wrap.x ELSE ScreenWidth - 1
        BY <1>5, <2>2
      <3> HIDE DEF to
      <3>2. CASE wrap.x = iX /\ wrap.by = 0 /\ wrap.n = 0
        BY <1>2, <3>1, <3>2
      <3>3. CASE wrap.x = ScreenWidth /\ wrap.by = ScreenWidth /\ wrap.n = 1 /\ iX = 0
        BY <1>2, <3>1, <3>3
      <3>4. CASE wrap.x = 1 /\ wrap.by = -ScreenWidth /\ wrap.n = 1 /\ iX = ScreenWidth - 1
        BY <1>2, <3>1, <3>4
      <3> QED
        BY <1>3, <3>2, <3>3, <3>4
    <2> QED
      BY <2>1, <2>2
  <1> HIDE DEF to
  <1>7. /\ iX' \in 0 .. ScreenWidth - 1 /\ iClicked' \in Int
        /\ iTravel' \in Int /\ iWraps' \in Nat
    BY <1>1, <1>2, <1>4, <1>6
  <1>8. ASSUME click, iTracked'
        PROVE  ((iX' - WindowX) - iClicked') - iTravel' = 0
    BY <1>1, <1>2, <1>6, <1>8
  <1>9. ASSUME ~click, FirstButton \in iDown', iTracked'
        PROVE  ((iX' - WindowX) - iClicked') - iTravel' \in -(2 * iWraps') .. 2 * iWraps'
    <2>1. /\ ((iX - WindowX) - iClicked) - iTravel \in -(2 * iWraps) .. 2 * iWraps
          /\ iFocused
      BY <1>1, <1>9 DEF InputInv
    <2>2. /\ iX' = to /\ iClicked' = iClicked + wrap.by /\ iTravel' = iTravel
          /\ iWraps' = iWraps + wrap.n
      BY <1>1, <1>9
    <2> QED
      BY <1>2, <1>4, <1>6, <2>1, <2>2
  <1>10. click => iTravel' = 0 /\ iWraps' = 0
    BY <1>1
  <1> QED
    BY <1>7, <1>8, <1>9, <1>10

\* The callbacks and begin_frame keep the invariant.
LEMMA InputStep ==
  ASSUME Input!InputAssumption, InputInv, [Input!Next]_inputVars
  PROVE  InputInv'
  <1> USE DEF Input!history, Input!device, Input!io
  <1>1. ASSUME NEW b \in Buttons, NEW action \in {"press", "release"}, Input!OnMouse(b, action)
        PROVE  InputInv'
    BY <1>1 DEF InputInv, Input!OnMouse, Input!Latched
  <1>2. ASSUME NEW k \in CtrlKeys, NEW action \in {"press", "release"}, Input!OnKey(k, action)
        PROVE  InputInv'
    <2>1. /\ iKeysDown' = iKeys' /\ iKeys' \subseteq CtrlKeys
          /\ iCtrl' = (iKeys' # {})
      BY <1>2 DEF InputInv, Input!OnKey, Input!Modifier
    <2>2. UNCHANGED <<iFocused, iHeld, iX, iDown, iMouse, iClicked, iLatch, iWheel,
                      iPressed, iBefore, iScrolled, iSeen, iTravel, iTracked, iWraps>>
      BY <1>2 DEF Input!OnKey
    <2> QED
      BY <2>1, <2>2 DEF InputInv
  <1>3. ASSUME NEW offset \in {-1, 1}, Input!OnScroll(offset)
        PROVE  InputInv'
    BY <1>3 DEF InputInv, Input!OnScroll
  <1>4. ASSUME NEW to \in 0 .. ScreenWidth - 1, Input!MoveMouse(to)
        PROVE  InputInv'
    <2>1. /\ iX' = to /\ iTravel' = IF iDown = {} THEN 0 ELSE iTravel + to - iX
          /\ UNCHANGED <<iFocused, iHeld, iKeys, iKeysDown, iCtrl, iDown, iMouse, iClicked,
                         iLatch, iWheel, iPressed, iBefore, iScrolled, iSeen, iTracked, iWraps>>
      BY <1>4 DEF Input!MoveMouse
    <2>2. WindowX \in Int /\ ScreenWidth \in Nat
      BY DEF Input!InputAssumption
    <2> QED
      BY <2>1, <2>2 DEF InputInv
  <1>5. ASSUME Input!Focus
        PROVE  InputInv'
    BY <1>5 DEF InputInv, Input!Focus
  <1>6. ASSUME NEW dragging \in BOOLEAN, Input!BeginFrame(dragging)
        PROVE  InputInv'
    <2>1. /\ iX' \in 0 .. ScreenWidth - 1 /\ iClicked' \in Int
          /\ iTravel' \in Int /\ iWraps' \in Nat
          /\ FirstButton \in iDown' /\ iTracked' =>
               ((iX' - WindowX) - iClicked') - iTravel' \in -(2 * iWraps') .. 2 * iWraps'
      BY <1>6, FrameKeepsDrag
    <2>2. /\ iDown' = iBefore'.held \union iBefore'.pressed /\ iLatch' = iPressed'
          /\ iSeen' = 0 /\ iWheel' = iScrolled' /\ iWheel' \in Int
          /\ UNCHANGED <<iKeys, iKeysDown, iCtrl, iFocused>>
          /\ iTracked' \in {iFocused, iTracked}
      BY <1>6 DEF InputInv, Input!BeginFrame
    <2> QED
      BY <2>1, <2>2 DEF InputInv
  <1>7. CASE UNCHANGED inputVars
    BY <1>7 DEF InputInv, inputVars
  <1> QED
    BY <1>1, <1>2, <1>3, <1>4, <1>5, <1>6, <1>7 DEF Input!Next

\* Whatever buttons, keys and screen there are, a frame gets every click, turn of
\* the wheel and modifier since the one before, and a drag is as long as the way
\* of the mouse.
THEOREM InputIsSeen == RenderingSpec => []InputSeen
  <1>1. RenderingInit => InputInv
    <2> SUFFICES ASSUME RenderingInit
                 PROVE  InputInv
      OBVIOUS
    <2>1. Input!Init /\ Input!InputAssumption
      BY RenderingAssumption DEF RenderingInit, RenderingStart
    <2>2. /\ iDown = {} /\ iBefore.held = {} /\ iBefore.pressed = {}
          /\ iLatch = {} /\ iPressed = {} /\ iSeen = 0 /\ iWheel = 0 /\ iScrolled = 0
          /\ iKeysDown = {} /\ iKeys = {} /\ iX = WindowX /\ iClicked = 0
          /\ iTravel = 0 /\ iWraps = 0
      BY <2>1 DEF Input!Init
    <2>3. iTracked = FALSE /\ iFocused = TRUE /\ iCtrl = FALSE
      BY <2>1 DEF Input!Init
    <2>4. iX \in 0 .. ScreenWidth - 1
      BY <2>1, <2>2 DEF Input!InputAssumption
    <2>5. iCtrl = (iKeys # {})
      BY <2>2, <2>3
    <2>6. /\ iDown = iBefore.held \union iBefore.pressed /\ iLatch = iPressed
          /\ iSeen = 0 /\ iWheel = iScrolled /\ iWheel \in Int
          /\ iKeysDown = iKeys /\ iKeys \subseteq CtrlKeys
          /\ iClicked \in Int /\ iTravel \in Int /\ iWraps \in Nat
          /\ FirstButton \notin iDown
      BY <2>2
    <2>7. iTracked \in BOOLEAN /\ iFocused \in BOOLEAN /\ (iTracked => iFocused)
      BY <2>3
    <2> QED
      BY <2>4, <2>5, <2>6, <2>7 DEF InputInv
  <1>2. InputInv /\ [RenderingNext]_renderingVars => InputInv'
    BY PartsApart, InputStep, RenderingAssumption
  <1>3. InputInv => InputSeen
    <2> SUFFICES ASSUME InputInv, FirstButton \in iDown, iTracked, iMouse = iX - WindowX
                 PROVE  (iMouse - iClicked) - iTravel \in -(2 * iWraps) .. 2 * iWraps
      BY DEF InputInv, InputSeen, Input!ClicksSeen, Input!WheelSeen, Input!ModifierHeld,
             Input!DragKept
    <2> QED
      BY DEF InputInv
  <1> QED
    BY <1>1, <1>2, <1>3, PTL DEF RenderingSpec

----------------------------------------------------------------------------
(* Materials and uniforms.                                                 *)

\* Shading names the same steps here and in its proof module.
LEMMA ShadingTerms ==
  Shading!Next <=> ShadingFacts!Next
  BY DEF Shading!Next, Shading!vars, Shading!storage, Shading!history, Shading!Programs,
         Shading!None, Shading!UniformsOf, Shading!Orders, Shading!Filed,
         Shading!CreateShaderFromSource, Shading!CreateShader, Shading!AddMaterial,
         Shading!Construct, Shading!Bind, Shading!CreateMaterial, Shading!NextVersion,
         Shading!Clone, Shading!CloneMaterial, Shading!DestroyMaterial, Shading!Unbind,
         Shading!MarkDirty, Shading!SetValue, Shading!DirtyOf, Shading!Pushed, Shading!Push,
         Shading!PushUniforms, Shading!Max, Shading!Cardinality, Shading!Bijection,
         Shading!Injection, Shading!Surjection, Shading!IsInjective,
         ShadingFacts!Next, ShadingFacts!vars, ShadingFacts!storage, ShadingFacts!history,
         ShadingFacts!Programs, ShadingFacts!None, ShadingFacts!UniformsOf,
         ShadingFacts!Orders, ShadingFacts!Filed, ShadingFacts!CreateShaderFromSource,
         ShadingFacts!CreateShader, ShadingFacts!AddMaterial, ShadingFacts!Construct,
         ShadingFacts!Bind, ShadingFacts!CreateMaterial, ShadingFacts!NextVersion,
         ShadingFacts!Clone, ShadingFacts!CloneMaterial, ShadingFacts!DestroyMaterial,
         ShadingFacts!Unbind, ShadingFacts!MarkDirty, ShadingFacts!SetValue,
         ShadingFacts!DirtyOf, ShadingFacts!Pushed, ShadingFacts!Push,
         ShadingFacts!PushUniforms, ShadingFacts!Max, ShadingFacts!Cardinality,
         ShadingFacts!Bijection, ShadingFacts!Injection, ShadingFacts!Surjection,
         ShadingFacts!IsInjective

\* What holds at the start and of every step of the materials in the composition.
LEMMA ShadingSteps ==
  /\ RenderingInit => ShadingFacts!Init
  /\ [RenderingNext]_renderingVars => [ShadingFacts!Next]_(ShadingFacts!vars)
  /\ ShadingFacts!MaterialsAssumption
  <1>1. RenderingInit => ShadingFacts!Init
    BY DEF RenderingInit, RenderingStart, Shading!Init, ShadingFacts!Init,
           Shading!Programs, ShadingFacts!Programs
  <1>2. [RenderingNext]_renderingVars => [ShadingFacts!Next]_(ShadingFacts!vars)
    BY PartsApart, ShadingTerms
    DEF shadeVars, ShadingFacts!vars, ShadingFacts!storage, ShadingFacts!history
  <1>3. ShadingFacts!MaterialsAssumption
    BY RenderingAssumption
    DEF Shading!MaterialsAssumption, ShadingFacts!MaterialsAssumption,
        Shading!IsFiniteSet, ShadingFacts!IsFiniteSet
  <1> QED
    BY <1>1, <1>2, <1>3

\* For any names, locations, programs and materials, a uniform that was set is
\* dirty or has its value in the GL.
THEOREM CleanIsInTheGL == RenderingSpec => []PushedOrDirty
  <1>1. ShadingFacts!Spec => []ShadingFacts!CleanIsPushed
    BY ShadingSteps, ShadingFacts!CleanUniformsPushed
  <1>2. ShadingFacts!CleanIsPushed => PushedOrDirty
    BY DEF ShadingFacts!CleanIsPushed, PushedOrDirty, Shading!CleanIsPushed
  <1> QED
    BY <1>1, <1>2, ShadingSteps, PTL DEF RenderingSpec, ShadingFacts!Spec

\* Versions share no uniforms, a uniform of a living newest material names a
\* living one, and no program is lost.
THEOREM MaterialsAreKept == RenderingSpec => []MaterialsKept
  <1>1. ShadingFacts!Spec =>
          [](ShadingFacts!VersionsApart /\ ShadingFacts!NewestKeepsUniforms
             /\ ShadingFacts!NoProgramLost)
    BY ShadingSteps, ShadingFacts!VersionsKept
  <1>2. ShadingFacts!VersionsApart /\ ShadingFacts!NewestKeepsUniforms
        /\ ShadingFacts!NoProgramLost => MaterialsKept
    BY DEF ShadingFacts!VersionsApart, ShadingFacts!NewestKeepsUniforms,
           ShadingFacts!NoProgramLost, ShadingFacts!Max, MaterialsKept,
           Shading!VersionsApart, Shading!NewestKeepsUniforms, Shading!NoProgramLost,
           Shading!Max
  <1> QED
    BY <1>1, <1>2, ShadingSteps, PTL DEF RenderingSpec, ShadingFacts!Spec

----------------------------------------------------------------------------
(* The frame.                                                              *)

Building == {"shader", "material", "meshes"}
Drawing  == {"render", "end", "projection", "imgui_push", "lists"}
Framing  == {"update", "push", "unbind"} \union Drawing

\* Material m is the first of program m, with a uniform at every location.
Complete(m) ==
  /\ m \in DOMAIN materials
  /\ materials[m].program = m
  /\ \A l \in Locations : \E u \in materials[m].uniforms : uniforms[u].location = l

\* How far the making of the game's material, 1, and of ImGui's, 2, has got.
Made ==
  /\ font \in {0, ImGui}
  /\ phase \in Building => font = 0
  /\ phase \in Framing => font = ImGui
  /\ phase = "shader" => count = 0
  /\ phase \in {"shader", "material"} => materials = <<>>
  /\ phase = "material" => shaders[Game] = 1
  /\ phase \in {"material", "meshes", "imgui_shader"} \/ (phase = "begin" /\ font = 0) =>
       count = 1
  /\ phase = "imgui_material" => count = 2 /\ shaders[ImGui] = 2
  /\ phase \in {"meshes", "imgui_shader", "imgui_material"} \/ (phase = "begin" /\ font = 0) =>
       Len(materials) = 1
  /\ phase \notin {"shader", "material"} => Complete(1)
  /\ phase = "device_objects" \/ font = ImGui => Complete(2)

\* A program has a uniform at every location, and nothing is cloned.
Unversioned ==
  /\ \A p \in 1 .. count, l \in Locations : \E u \in UniformsOf(p, 0) : uniforms[u].location = l
  /\ \A u \in DOMAIN uniforms : uniforms[u].version = 0
  /\ overwritten = {}

\* Bindings, or what is saved of them, as a record.
BindingsOf(p, v, a, e, t) ==
  [program |-> p, vao |-> v, array |-> a, element |-> e, texture |-> t]

SavedWhole ==
  saved = BindingsOf(saved.program, saved.vao, saved.array, saved.element, saved.texture)

\* What is bound: the mesh's vertex array, with its own element buffer in it,
\* but for the time of ImGui's draw lists; and what is saved of it.
Bound ==
  /\ DOMAIN element = Arrays
  /\ SavedWhole
  /\ phase \in Building => vao = 0 /\ todo = Meshes
  /\ phase \notin Building => \A mesh \in Meshes :
       element[mesh] = mesh /\ vao = IF phase = "lists" THEN ImGui ELSE mesh
  /\ scissor = IF phase \in {"projection", "imgui_push", "lists"} THEN TRUE ELSE FALSE
  /\ phase \in {"imgui_shader", "imgui_material", "device_objects", "update"} =>
       /\ saved.vao = vao /\ saved.array = array
       /\ saved.element = element[vao] /\ saved.texture = texture
  /\ phase \in {"projection", "imgui_push", "lists"} =>
       saved.vao \in Meshes /\ saved.element = saved.vao
  /\ phase = "unbind" => saved = Bindings

\* Who was the last to draw, with what, and whose uniforms are all in the GL.
Drawn ==
  /\ phase = "render" => dirty \intersect materials[1].uniforms = {}
  /\ phase = "lists" => dirty \intersect materials[2].uniforms = {} /\ current = 2
  /\ phase \notin Drawing \union {"unbind"} => draw = NoDraw
  /\ phase \in {"render", "end", "projection", "imgui_push"} /\ draw # NoDraw =>
       draw.by \in Meshes
  /\ draw # NoDraw =>
       /\ draw.by \in Meshes \union {ImGui}
       /\ draw.program = MaterialOf(draw.by)
       /\ draw.vao = draw.by /\ draw.element = draw.by
       /\ draw.scissor = IF draw.by = ImGui THEN TRUE ELSE FALSE
       /\ phase \in Drawing =>
            \A u \in materials[MaterialOf(draw.by)].uniforms \intersect wasSet :
              draw.values[uniforms[u].location] = uniforms[u].elements

FrameInv == MaterialsInv /\ Made /\ Unversioned /\ Bound /\ Drawn

\* What a uniform or material is of never changes, and none goes away.
FieldsKept ==
  /\ DOMAIN uniforms \subseteq DOMAIN uniforms'
  /\ \A u \in DOMAIN uniforms :
       /\ uniforms'[u].program = uniforms[u].program
       /\ uniforms'[u].version = uniforms[u].version
       /\ uniforms'[u].location = uniforms[u].location
  /\ DOMAIN materials \subseteq DOMAIN materials'
  /\ \A m \in DOMAIN materials : materials'[m] = materials[m]

\* So a material that has its uniforms keeps them.
LEMMA CompleteStays ==
  ASSUME MaterialsInv, FieldsKept, NEW m, Complete(m)
  PROVE  Complete(m)'
  BY DEF MaterialsInv, Versioned, FieldsKept, Complete

\* A new program has a uniform at every location.
LEMMA ShaderStep ==
  ASSUME MaterialsAssumption, MaterialsInv, Unversioned,
         NEW name \in Names, CreateShaderFromSource(name)
  PROVE  /\ MaterialsInv' /\ Unversioned' /\ FieldsKept
         /\ \A u \in DOMAIN uniforms : uniforms'[u] = uniforms[u]
         /\ count' = count + 1 /\ shaders'[name] = count + 1
         /\ \A n \in Names : n # name => shaders'[n] = shaders[n]
         /\ UNCHANGED <<dirty, materials, current, gl, wasSet>>
  <1>1. MaterialsInv'
    BY ShaderKeeps
  <1>2. /\ DOMAIN uniforms \subseteq DOMAIN uniforms'
        /\ \A u \in DOMAIN uniforms : uniforms'[u] = uniforms[u]
        /\ \A u \in DOMAIN uniforms' \ DOMAIN uniforms :
             uniforms'[u].program = count + 1 /\ uniforms'[u].version = 0
        /\ \A l \in Locations : \E u \in DOMAIN uniforms' \ DOMAIN uniforms :
             uniforms'[u].location = l
    BY ProgramCreated DEF MaterialsInv
  <1>3. /\ count' = count + 1 /\ shaders' = [shaders EXCEPT ![name] = count + 1]
        /\ UNCHANGED <<dirty, materials, current, gl, wasSet, overwritten>>
    BY DEF CreateShaderFromSource, Filed
  <1>4. shaders \in [Names -> 0 .. MaxPrograms] /\ count \in Nat
    BY DEF MaterialsInv, TypeOK, MaterialsAssumption
  <1>5. FieldsKept
    BY <1>2, <1>3 DEF FieldsKept
  <1>6. ASSUME NEW p \in 1 .. count', NEW l \in Locations
        PROVE  \E u \in UniformsOf(p, 0)' : uniforms'[u].location = l
    <2>1. CASE p = count + 1
      BY <1>2, <2>1 DEF UniformsOf
    <2>2. CASE p \in 1 .. count
      <3>1. PICK u \in UniformsOf(p, 0) : uniforms[u].location = l
        BY <2>2 DEF Unversioned
      <3> QED
        BY <1>2, <3>1 DEF UniformsOf
    <2> QED
      BY <1>3, <1>4, <2>1, <2>2
  <1>7. Unversioned'
    BY <1>2, <1>3, <1>6 DEF Unversioned
  <1> QED
    BY <1>1, <1>2, <1>3, <1>4, <1>5, <1>7

\* create_material makes a material that has a uniform at every location.
LEMMA MaterialStep ==
  ASSUME MaterialsAssumption, MaterialsInv, Unversioned,
         NEW p \in 1 .. count, CreateMaterial(p)
  PROVE  /\ MaterialsInv' /\ Unversioned' /\ FieldsKept
         /\ Len(materials') = Len(materials) + 1
         /\ p = Len(materials) + 1 => Complete(p)'
         /\ current' = p
         /\ UNCHANGED <<shaders, count, dirty, gl, wasSet>>
         /\ \A u \in DOMAIN uniforms : uniforms'[u].elements = uniforms[u].elements
  <1> DEFINE S == UniformsOf(p, 0)
  <1>1. MaterialsInv'
    BY CreateKeeps
  <1>2. /\ S \subseteq DOMAIN uniforms /\ p \in Programs
        /\ uniforms \in Seq(UniformType) /\ Construct(uniforms, p, 0, S)
    BY DEF UniformsOf, MaterialsInv, TypeOK, CreateMaterial, Programs, MaterialsAssumption
  <1>3. TakenOver(uniforms, p, 0, S)
    BY <1>2, MaterialConstructed DEF MaterialsInv
  <1>4. /\ current' = p
        /\ UNCHANGED <<shaders, count, dirty, gl, wasSet, overwritten>>
    BY DEF CreateMaterial, Bind, storage, history
  <1>5. FieldsKept /\ \A u \in DOMAIN uniforms : uniforms'[u].elements = uniforms[u].elements
    BY <1>3 DEF TakenOver, FieldsKept
  <1>6. \A l \in Locations : \E u \in S : uniforms[u].location = l
    BY DEF Unversioned
  <1>7. Unversioned'
    <2>1. \A q : UniformsOf(q, 0)' = UniformsOf(q, 0)
      BY <1>3 DEF UniformsOf, TakenOver
    <2>2. ASSUME NEW q \in 1 .. count', NEW l \in Locations
          PROVE  \E u \in UniformsOf(q, 0)' : uniforms'[u].location = l
      <3>1. PICK u \in UniformsOf(q, 0) : uniforms[u].location = l
        BY <1>4 DEF Unversioned
      <3>2. u \in DOMAIN uniforms
        BY DEF UniformsOf
      <3> QED
        BY <1>3, <2>1, <3>1, <3>2 DEF TakenOver
    <2> QED
      BY <1>3, <1>4, <2>2 DEF Unversioned, TakenOver
  <1>8. ASSUME p = Len(materials) + 1
        PROVE  Complete(p)'
    <2>1. /\ p \in DOMAIN materials'
          /\ materials'[p] = [program |-> p, version |-> 0, uniforms |-> S]
      BY <1>3, <1>8 DEF TakenOver
    <2>2. \A l \in Locations : \E u \in S : uniforms'[u].location = l
      BY <1>2, <1>3, <1>6 DEF TakenOver
    <2> QED
      BY <2>1, <2>2 DEF Complete
  <1>9. Len(materials') = Len(materials) + 1
    <2>1. materials' \in Seq(MaterialType)
      BY <1>3 DEF TakenOver
    <2>2. materials' = Append(materials, [program |-> p, version |-> 0, uniforms |-> S])
      BY <1>2 DEF Construct
    <2> QED
      BY <2>2 DEF MaterialsInv, TypeOK
  <1> QED
    BY <1>1, <1>4, <1>5, <1>7, <1>8, <1>9

\* The uniform at a location of a complete material is set, or has the value.
LEMMA GiveStep ==
  ASSUME MaterialsAssumption, MaterialsInv, Unversioned, NEW m, Complete(m),
         NEW l \in Locations, NEW value \in Values, Give(UniformAt(m, l), value)
  PROVE  /\ MaterialsInv' /\ Unversioned' /\ FieldsKept
         /\ UNCHANGED <<shaders, count, materials, current, gl>>
         /\ dirty' \subseteq dirty \union materials[m].uniforms
         /\ wasSet' \subseteq wasSet \union materials[m].uniforms
         /\ \A u \in DOMAIN uniforms :
              u \notin materials[m].uniforms => uniforms'[u] = uniforms[u]
  <1> DEFINE w == UniformAt(m, l)
  <1>1. w \in materials[m].uniforms /\ w \in DOMAIN uniforms
    BY DEF UniformAt, Complete, MaterialsInv, Versioned
  <1> HIDE DEF w
  <1>2. CASE SetValue(w, value)
    <2>1. MaterialsInv'
      BY <1>1, <1>2, SetKeeps
    <2>2. /\ DOMAIN uniforms' = DOMAIN uniforms
          /\ \A u \in DOMAIN uniforms : u # w => uniforms'[u] = uniforms[u]
          /\ \A u \in DOMAIN uniforms :
               /\ uniforms'[u].program = uniforms[u].program
               /\ uniforms'[u].version = uniforms[u].version
               /\ uniforms'[u].location = uniforms[u].location
      BY <1>1, <1>2, UniformSet DEF MaterialsInv
    <2>3. /\ UNCHANGED <<shaders, count, materials, current, gl, overwritten>>
          /\ dirty' = dirty \union {w} /\ wasSet' = wasSet \union {w}
      BY <1>2 DEF SetValue, MarkDirty, storage
    <2>4. FieldsKept
      BY <2>2, <2>3 DEF FieldsKept
    <2>5. Unversioned'
      <3>1. \A q : UniformsOf(q, 0)' = UniformsOf(q, 0)
        BY <2>2 DEF UniformsOf
      <3>2. ASSUME NEW q \in 1 .. count', NEW k \in Locations
            PROVE  \E u \in UniformsOf(q, 0)' : uniforms'[u].location = k
        <4>1. PICK u \in UniformsOf(q, 0) : uniforms[u].location = k
          BY <2>3 DEF Unversioned
        <4> QED
          BY <2>2, <3>1, <4>1 DEF UniformsOf
      <3> QED
        BY <2>2, <2>3, <3>2 DEF Unversioned
    <2> QED
      BY <1>1, <2>1, <2>2, <2>3, <2>4, <2>5
  <1>3. CASE UNCHANGED vars
    <2>1. UNCHANGED <<shaders, count, versions, uniforms, dirty, materials, alive, current, gl,
                      wasSet, overwritten, replaced>>
      BY <1>3 DEF vars, storage, history
    <2>2. MaterialsInv'
      BY <2>1, OthersKeep DEF storage, history
    <2>3. Unversioned' /\ FieldsKept
      BY <2>1 DEF Unversioned, UniformsOf, FieldsKept
    <2> QED
      BY <2>1, <2>2, <2>3
  <1> QED
    BY <1>2, <1>3 DEF Give, w

\* push_uniforms leaves no uniform of the material dirty, and every one that was
\* set has its value in the GL.
LEMMA PushStep ==
  ASSUME MaterialsAssumption, MaterialsInv, Unversioned, NEW m, Complete(m), PushUniforms(m)
  PROVE  /\ MaterialsInv' /\ Unversioned' /\ FieldsKept
         /\ current' = m /\ dirty' \intersect materials[m].uniforms = {}
         /\ UNCHANGED <<shaders, count, uniforms, materials, wasSet>>
  <1>1. m \in DOMAIN materials /\ materials[m].program = m
    BY DEF Complete
  <1>2. MaterialsInv'
    BY <1>1, PushKeeps
  <1>3. /\ current' = m /\ dirty' = dirty \ DirtyOf(m)
        /\ UNCHANGED <<shaders, count, uniforms, materials, wasSet>>
    BY <1>1 DEF PushUniforms, Pushed, Bind, storage
  <1>4. overwritten' = {}
    <2>1. DirtyOf(m) \subseteq DOMAIN uniforms
      BY DEF DirtyOf, MaterialsInv, TypeOK
    <2>2. \A u, w \in DOMAIN uniforms : uniforms[u].version = uniforms[w].version
      BY DEF Unversioned
    <2> QED
      BY <2>1, <2>2 DEF PushUniforms, Unversioned
  <1>5. Unversioned' /\ FieldsKept
    BY <1>3, <1>4 DEF Unversioned, UniformsOf, FieldsKept
  <1>6. ASSUME NEW u \in dirty, u \in materials[m].uniforms
        PROVE  u \in DirtyOf(m)
    BY <1>1, <1>6 DEF DirtyOf, MaterialsInv, TypeOK, Versioned, NewestNamed
  <1> QED
    BY <1>2, <1>3, <1>5, <1>6

\* With nothing dirty, the GL has what the uniforms of a material were set to.
LEMMA AllInTheGL ==
  ASSUME MaterialsInv, Unversioned, NEW m, Complete(m),
         dirty \intersect materials[m].uniforms = {}
  PROVE  \A u \in materials[m].uniforms \intersect wasSet :
           gl[m][uniforms[u].location] = uniforms[u].elements
  BY DEF MaterialsInv, CleanIsPushed, Versioned, Unversioned, Complete

\* Before the first call of the game nothing is made or bound.
LEMMA FrameStarts ==
  ASSUME RendererAssumption, RendererInit
  PROVE  FrameInv
  <1>1. MaterialsInv
    BY NothingMade DEF RendererAssumption, RendererInit
  <1>2. Made
    BY DEF RendererInit, Init, Made, Building, Framing, Drawing, RendererAssumption
  <1>3. Unversioned
    BY DEF RendererInit, Init, Unversioned
  <1>4. Bound
    <2>1. /\ phase = "shader" /\ todo = Meshes /\ vao = 0 /\ DOMAIN element = Arrays
          /\ scissor = FALSE
      BY DEF RendererInit
    <2>2. SavedWhole
      <3>1. saved = BindingsOf(0, 0, 0, 0, 0)
        BY DEF RendererInit, NoneSaved, BindingsOf
      <3>2. /\ saved.program = 0 /\ saved.vao = 0 /\ saved.array = 0
            /\ saved.element = 0 /\ saved.texture = 0
        BY <3>1 DEF BindingsOf
      <3> QED
        BY <3>1, <3>2 DEF SavedWhole
    <2>3. scissor = IF phase \in {"projection", "imgui_push", "lists"} THEN TRUE ELSE FALSE
      BY <2>1
    <2> QED
      BY <2>1, <2>2, <2>3 DEF Bound, Building
  <1>5. Drawn
    BY DEF RendererInit, Drawn, Drawing
  <1> QED
    BY <1>1, <1>2, <1>3, <1>4, <1>5 DEF FrameInv

\* The materials through a step of the frame: as before, or one of the calls.
LEMMA MaterialsInFrame ==
  ASSUME RendererAssumption, FrameInv, RendererNext
  PROVE  MaterialsInv' /\ Unversioned' /\ FieldsKept
  <1> USE DEF FrameInv
  <1>1. MaterialsAssumption /\ Game \in Names /\ ImGui \in Names
    BY DEF RendererAssumption
  <1>2. ASSUME UNCHANGED <<storage, uniforms, dirty, materials, alive, gl, history>>
        PROVE  MaterialsInv' /\ Unversioned' /\ FieldsKept
    <2>1. MaterialsInv'
      BY <1>2, OthersKeep
    <2> QED
      BY <1>2, <2>1 DEF Unversioned, UniformsOf, FieldsKept, storage, history
  <1>3. CASE GameShader
    BY <1>1, <1>3, ShaderStep DEF GameShader, CreateShader
  <1>4. CASE GameMaterial
    <2>1. shaders[Game] \in 1 .. count
      BY <1>4 DEF GameMaterial, Made
    <2> QED
      BY <1>1, <1>4, <2>1, MaterialStep DEF GameMaterial
  <1>5. CASE ImGuiShader
    BY <1>1, <1>5, ShaderStep DEF ImGuiShader
  <1>6. CASE ImGuiMaterial
    <2>1. shaders[ImGui] \in 1 .. count
      BY <1>6 DEF ImGuiMaterial, Made
    <2> QED
      BY <1>1, <1>6, <2>1, MaterialStep DEF ImGuiMaterial
  <1>7. CASE Update
    <2>1. Complete(1)
      BY <1>7 DEF Update, Made
    <2> QED
      BY <1>1, <1>7, <2>1, GiveStep DEF Update
  <1>8. CASE Projection
    <2>1. Complete(2)
      BY <1>8, RendererAssumption DEF Projection, Made, Framing, Drawing, RendererAssumption
    <2> QED
      BY <1>1, <1>8, <2>1, GiveStep DEF Projection
  <1>9. CASE PushGame
    <2>1. Complete(1)
      BY <1>9 DEF PushGame, Made
    <2> QED
      BY <1>1, <1>9, <2>1, PushStep DEF PushGame
  <1>10. CASE ImGuiPush
    <2>1. Complete(2)
      BY <1>10, RendererAssumption DEF ImGuiPush, Made, Framing, Drawing, RendererAssumption
    <2> QED
      BY <1>1, <1>10, <2>1, PushStep DEF ImGuiPush
  <1>11. CASE \/ (\E mesh \in Meshes : BuildMesh(mesh))
              \/ BeginFrame \/ CreateDeviceObjects
              \/ (\E mesh \in Meshes : RenderMesh(mesh))
              \/ EndFrame \/ (\E t \in Textures : DrawList(t)) \/ Restore \/ GameUnbind
    <2>1. UNCHANGED <<storage, uniforms, dirty, materials, alive, gl, history>>
      BY <1>11 DEF BuildMesh, BeginFrame, CreateDeviceObjects, RenderMesh, EndFrame, DrawList,
                   Restore, GameUnbind, Unbind, vars
    <2> QED
      BY <1>2, <2>1
  <1> QED
    BY <1>3, <1>4, <1>5, <1>6, <1>7, <1>8, <1>9, <1>10, <1>11 DEF RendererNext

\* Materials are made in the order of the phases.
LEMMA MadeKept ==
  ASSUME RendererAssumption, FrameInv, RendererNext
  PROVE  Made'
  <1> USE DEF FrameInv
  <1>1. /\ MaterialsAssumption /\ Game \in Names /\ ImGui \in Names /\ Game # ImGui
        /\ ImGui # 0
    BY DEF RendererAssumption
  <1>2. \A m : Complete(m) => Complete(m)'
    BY CompleteStays, MaterialsInFrame
  <1> HIDE DEF FrameInv
  <1>3. MaterialsInv /\ Unversioned /\ Made
    BY DEF FrameInv
  <1> USE DEF Goto, Building, Framing, Drawing
  <1>4. CASE GameShader
    <2>1. /\ phase = "shader" /\ phase' = "material" /\ CreateShaderFromSource(Game)
          /\ font' = font
      BY <1>4 DEF GameShader, CreateShader
    <2>2. count' = count + 1 /\ shaders'[Game] = count + 1 /\ materials' = materials
      BY <1>1, <1>3, <2>1, ShaderStep
    <2> QED
      BY <1>1, <1>3, <2>1, <2>2 DEF Made
  <1>5. CASE GameMaterial
    <2>1. /\ phase = "material" /\ phase' = "meshes" /\ CreateMaterial(shaders[Game])
          /\ font' = font
      BY <1>5 DEF GameMaterial
    <2>2. shaders[Game] = 1 /\ count = 1 /\ materials = <<>> /\ font = 0
      BY <1>3, <2>1 DEF Made
    <2>3. CreateMaterial(1) /\ 1 \in 1 .. count /\ Len(materials) = 0
      BY <2>1, <2>2
    <2>4. Len(materials') = 1 /\ Complete(1)' /\ count' = count
      BY <1>1, <1>3, <2>3, MaterialStep
    <2> QED
      BY <1>1, <2>1, <2>2, <2>4 DEF Made
  <1>6. CASE ImGuiShader
    <2>1. /\ phase = "imgui_shader" /\ phase' = "imgui_material"
          /\ CreateShaderFromSource(ImGui) /\ font' = font
      BY <1>6 DEF ImGuiShader
    <2>2. count' = count + 1 /\ shaders'[ImGui] = count + 1 /\ materials' = materials
      BY <1>1, <1>3, <2>1, ShaderStep
    <2> QED
      BY <1>1, <1>2, <1>3, <2>1, <2>2 DEF Made
  <1>7. CASE ImGuiMaterial
    <2>1. /\ phase = "imgui_material" /\ phase' = "device_objects"
          /\ CreateMaterial(shaders[ImGui]) /\ font' = font
      BY <1>7 DEF ImGuiMaterial
    <2>2. shaders[ImGui] = 2 /\ count = 2 /\ Len(materials) = 1
      BY <1>3, <2>1 DEF Made
    <2>3. CreateMaterial(2) /\ 2 \in 1 .. count
      BY <2>1, <2>2
    <2>4. Len(materials') = 2 /\ Complete(2)' /\ count' = count
      BY <1>1, <1>3, <2>2, <2>3, MaterialStep
    <2> QED
      BY <1>1, <1>2, <1>3, <2>1, <2>4 DEF Made
  <1>8. CASE CreateDeviceObjects
    BY <1>1, <1>2, <1>3, <1>8 DEF CreateDeviceObjects, Made
  <1>9. ASSUME NEW mesh \in Meshes, BuildMesh(mesh)
        PROVE  Made'
    <2>1. UNCHANGED <<count, shaders, materials, font>> /\ phase = "meshes"
          /\ phase' \in {"begin", "meshes"}
      BY <1>9 DEF BuildMesh, vars, storage
    <2> QED
      BY <1>1, <1>2, <1>3, <2>1 DEF Made
  <1>10. CASE BeginFrame
    <2>1. UNCHANGED <<count, shaders, materials, font>> /\ phase = "begin"
          /\ phase' = IF font = 0 THEN "imgui_shader" ELSE "update"
      BY <1>10 DEF BeginFrame, vars, storage
    <2> QED
      BY <1>1, <1>2, <1>3, <2>1 DEF Made
  <1>11. CASE \/ Update \/ PushGame \/ (\E mesh \in Meshes : RenderMesh(mesh))
              \/ EndFrame \/ Projection \/ ImGuiPush
              \/ (\E t \in Textures : DrawList(t)) \/ Restore \/ GameUnbind
    <2>1. font' = font
      BY <1>11 DEF Update, PushGame, RenderMesh, EndFrame, Projection, ImGuiPush, DrawList,
                   Restore, GameUnbind
    <2>2. phase \in Framing /\ phase' \in Framing \union {"begin"}
      BY <1>11 DEF Update, PushGame, RenderMesh, EndFrame, Projection, ImGuiPush, DrawList,
                   Restore, GameUnbind
    <2> QED
      BY <1>1, <1>2, <1>3, <2>1, <2>2 DEF Made
  <1> QED
    BY <1>4, <1>5, <1>6, <1>7, <1>8, <1>9, <1>10, <1>11 DEF RendererNext

\* The bindings through a frame: ImGui saves and restores them, and puts its
\* element buffer in no vertex array but its own.
LEMMA BoundKept ==
  ASSUME RendererAssumption, FrameInv, RendererNext
  PROVE  Bound'
  <1>1. PICK mesh \in Meshes : Meshes = {mesh}
    BY DEF RendererAssumption
  <1>2. 0 # mesh /\ 0 # ImGui /\ mesh # ImGui /\ Arrays = {mesh, 0, ImGui}
    BY <1>1 DEF RendererAssumption, Arrays
  <1>3. Bound
    BY DEF FrameInv
  <1> USE DEF Goto, Building, SavedWhole
  <1>4. ASSUME UNCHANGED <<bindings, scissor, saved, todo>>,
               phase \in {"shader", "material"} /\ phase' \in {"material", "meshes"}
        PROVE  Bound'
    BY <1>3, <1>4 DEF Bound, bindings
  <1>5. ASSUME UNCHANGED <<bindings, scissor, saved>>,
               \/ phase \in {"imgui_shader", "imgui_material"}
                  /\ phase' \in {"imgui_material", "device_objects"}
               \/ phase = "update" /\ phase' \in {"update", "push"}
               \/ phase \in {"push", "render"} /\ phase' \in {"render", "end"}
               \/ phase = "projection" /\ phase' = "imgui_push"
               \/ phase = "unbind" /\ phase' = "begin"
        PROVE  Bound'
    BY <1>3, <1>5 DEF Bound, bindings
  <1>6. CASE GameShader \/ GameMaterial
    BY <1>4, <1>6 DEF GameShader, GameMaterial
  <1>7. CASE ImGuiShader \/ ImGuiMaterial
    BY <1>5, <1>7 DEF ImGuiShader, ImGuiMaterial
  <1>8. CASE Update \/ PushGame \/ Projection \/ GameUnbind
    BY <1>5, <1>8 DEF Update, PushGame, Projection, GameUnbind
  <1>9. ASSUME NEW other \in Meshes, BuildMesh(other)
        PROVE  Bound'
    <2>1. /\ phase = "meshes" /\ vao = 0 /\ todo = Meshes /\ other = mesh
          /\ phase' = "begin" /\ vao' = mesh
          /\ element' = [element EXCEPT ![0] = mesh, ![mesh] = mesh]
          /\ UNCHANGED <<scissor, saved>>
      BY <1>1, <1>3, <1>9 DEF BuildMesh, Bound
    <2>2. DOMAIN element' = Arrays /\ element'[mesh] = mesh
      BY <1>2, <1>3, <2>1 DEF Bound
    <2> QED
      BY <1>1, <1>3, <2>1, <2>2 DEF Bound
  <1>10. CASE BeginFrame
    <2>1. /\ phase = "begin" /\ phase' \in {"imgui_shader", "update"}
          /\ saved' = Bindings /\ UNCHANGED <<vao, array, element, texture, scissor>>
      BY <1>10 DEF BeginFrame, bindings
    <2>2. /\ saved'.vao = vao /\ saved'.array = array /\ saved'.element = element[vao]
          /\ saved'.texture = texture
          /\ SavedWhole'
      BY <2>1 DEF Bindings, BindingsOf
    <2> QED
      BY <1>3, <2>1, <2>2 DEF Bound
  <1>11. CASE CreateDeviceObjects
    <2>1. /\ phase = "device_objects" /\ phase' = "update"
          /\ texture' = saved.texture /\ array' = saved.array /\ vao' = saved.vao
          /\ UNCHANGED <<element, scissor, saved>>
      BY <1>11 DEF CreateDeviceObjects
    <2> QED
      BY <1>3, <2>1 DEF Bound
  <1>12. ASSUME NEW other \in Meshes, RenderMesh(other)
         PROVE  Bound'
    <2>1. /\ phase = "render" /\ phase' \in {"render", "end"} /\ vao' = other /\ other = mesh
          /\ UNCHANGED <<array, element, texture, scissor, saved>>
      BY <1>1, <1>12 DEF RenderMesh
    <2>2. vao' = vao
      BY <1>1, <1>3, <2>1 DEF Bound
    <2> QED
      BY <1>3, <2>1, <2>2 DEF Bound
  <1>13. CASE EndFrame
    <2>1. /\ phase = "end" /\ phase' = "projection" /\ scissor' = TRUE
          /\ saved' = Bindings /\ UNCHANGED <<vao, array, element, texture>>
      BY <1>13 DEF EndFrame, bindings
    <2>2. /\ saved'.vao = vao /\ saved'.element = element[vao]
          /\ SavedWhole'
      BY <2>1 DEF Bindings, BindingsOf
    <2>3. vao = mesh /\ element[mesh] = mesh
      BY <1>1, <1>3, <2>1 DEF Bound
    <2> QED
      BY <1>1, <1>3, <2>1, <2>2, <2>3 DEF Bound
  <1>14. CASE ImGuiPush
    <2>1. /\ phase = "imgui_push" /\ phase' = "lists" /\ vao' = ImGui
          /\ UNCHANGED <<array, element, texture, scissor, saved>>
      BY <1>14 DEF ImGuiPush, ImGuiArray
    <2> QED
      BY <1>3, <2>1 DEF Bound
  <1>15. ASSUME NEW t \in Textures, DrawList(t)
         PROVE  Bound'
    <2>1. /\ phase = "lists" /\ phase' = phase /\ element' = [element EXCEPT ![vao] = ImGui]
          /\ UNCHANGED <<vao, scissor, saved>>
      BY <1>15 DEF DrawList
    <2>2. vao = ImGui
      BY <1>1, <1>3, <2>1 DEF Bound
    <2>3. DOMAIN element' = Arrays /\ element'[mesh] = element[mesh]
      BY <1>2, <1>3, <2>1, <2>2 DEF Bound
    <2> QED
      BY <1>1, <1>3, <2>1, <2>2, <2>3 DEF Bound
  <1>16. CASE Restore
    <2>1. /\ phase = "lists" /\ phase' = "unbind" /\ current' = saved.program
          /\ texture' = saved.texture /\ array' = saved.array /\ vao' = saved.vao
          /\ element' = [element EXCEPT ![vao] = saved.element]
          /\ scissor' = FALSE /\ saved' = saved
      BY <1>16 DEF Restore, RestoredArray
    <2>2. /\ vao = ImGui /\ saved.vao = mesh /\ saved.element = mesh
          /\ element[mesh] = mesh /\ DOMAIN element = Arrays
      BY <1>1, <1>3, <2>1 DEF Bound
    <2>3. DOMAIN element' = Arrays /\ element'[mesh] = mesh /\ vao' = mesh
      BY <1>2, <2>1, <2>2
    <2>4. saved' = Bindings'
      <3>1. Bindings' = BindingsOf(current', vao', array', element'[vao'], texture')
        BY DEF Bindings, BindingsOf
      <3>2. SavedWhole
        BY <1>3 DEF Bound
      <3>3. /\ current' = saved.program /\ vao' = saved.vao /\ array' = saved.array
            /\ element'[vao'] = saved.element /\ texture' = saved.texture
        BY <2>1, <2>2, <2>3
      <3>4. saved' = saved
        BY <2>1
      <3> QED
        BY <3>1, <3>2, <3>3, <3>4 DEF SavedWhole
    <2>5. scissor' = IF phase' \in {"projection", "imgui_push", "lists"} THEN TRUE ELSE FALSE
      BY <2>1
    <2>6. SavedWhole'
      BY <1>3, <2>1 DEF Bound, SavedWhole
    <2> QED
      BY <1>1, <2>1, <2>3, <2>4, <2>5, <2>6 DEF Bound
  <1> QED
    BY <1>6, <1>7, <1>8, <1>9, <1>10, <1>11, <1>12, <1>13, <1>14, <1>15, <1>16
    DEF RendererNext

\* Each draws with its own program, vertex array and element buffer, when no
\* uniform of its material is dirty.
LEMMA DrawnKept ==
  ASSUME RendererAssumption, FrameInv, RendererNext
  PROVE  Drawn'
  <1>1. PICK mesh \in Meshes : Meshes = {mesh}
    BY DEF RendererAssumption
  <1>2. mesh # ImGui /\ MaterialOf(mesh) = 1 /\ MaterialOf(ImGui) = 2
    BY <1>1 DEF RendererAssumption, MaterialOf
  <1>3. MaterialsInv /\ Unversioned /\ Drawn /\ Bound /\ MaterialsAssumption
    BY DEF FrameInv, RendererAssumption
  <1>4. phase \in Drawing \union {"push", "unbind"} => Complete(1) /\ Complete(2)
    BY DEF FrameInv, Made, Framing, Drawing, RendererAssumption
  <1> USE DEF Goto, Drawing
  <1>5. ASSUME phase' \notin Drawing \union {"unbind"}, draw' = NoDraw
        PROVE  Drawn'
    BY <1>5 DEF Drawn
  <1>6. ASSUME UNCHANGED <<draw, uniforms, materials, wasSet>>,
               \/ phase = "end" /\ phase' = "projection"
               \/ phase = "lists" /\ phase' = "unbind"
        PROVE  Drawn'
    BY <1>3, <1>6 DEF Drawn
  <1>7. CASE \/ GameShader \/ GameMaterial \/ (\E other \in Meshes : BuildMesh(other))
             \/ BeginFrame \/ ImGuiShader \/ ImGuiMaterial \/ CreateDeviceObjects \/ Update
    <2>1. /\ phase \notin Drawing \union {"unbind"} /\ draw' = draw
          /\ phase' \notin Drawing \union {"unbind"}
      BY <1>7 DEF GameShader, GameMaterial, BuildMesh, BeginFrame, ImGuiShader, ImGuiMaterial,
                  CreateDeviceObjects, Update
    <2>2. draw = NoDraw
      BY <1>3, <2>1 DEF Drawn
    <2> QED
      BY <1>5, <2>1, <2>2
  <1>8. CASE GameUnbind
    BY <1>5, <1>8 DEF GameUnbind
  <1>9. CASE PushGame
    <2>1. /\ phase = "push" /\ phase' = "render" /\ PushUniforms(1) /\ draw' = draw
      BY <1>9 DEF PushGame
    <2>2. dirty' \intersect materials'[1].uniforms = {}
      BY <1>3, <1>4, <2>1, PushStep
    <2>3. draw = NoDraw
      BY <1>3, <2>1 DEF Drawn
    <2> QED
      BY <2>1, <2>2, <2>3 DEF Drawn
  <1>10. ASSUME NEW other \in Meshes, RenderMesh(other)
         PROVE  Drawn'
    <2>1. /\ phase = "render" /\ phase' \in {"render", "end"} /\ other = mesh
          /\ UNCHANGED <<uniforms, dirty, materials, wasSet>>
          /\ current' = materials[1].program
          /\ draw' = DrawCall(mesh, [Bindings EXCEPT !.program = current', !.vao = mesh,
                                                     !.element = element[mesh]])
      BY <1>1, <1>10 DEF RenderMesh, Bind, history
    <2>2. /\ Complete(1) /\ materials[1].program = 1
          /\ dirty \intersect materials[1].uniforms = {}
      BY <1>3, <1>4, <2>1 DEF Complete, Drawn
    <2>3. element[mesh] = mesh /\ scissor = FALSE
      BY <1>1, <1>3, <2>1 DEF Bound, Building
    <2>4. /\ draw'.by = mesh /\ draw'.program = 1 /\ draw'.vao = mesh /\ draw'.element = mesh
          /\ draw'.scissor = FALSE /\ draw'.values = gl[1]
      BY <2>1, <2>2, <2>3 DEF DrawCall, Bindings
    <2>5. \A u \in materials[1].uniforms \intersect wasSet :
            gl[1][uniforms[u].location] = uniforms[u].elements
      BY <1>3, <2>2, AllInTheGL
    <2>6. \A u \in materials'[1].uniforms \intersect wasSet' :
            draw'.values[uniforms'[u].location] = uniforms'[u].elements
      BY <2>1, <2>4, <2>5
    <2>7. dirty' \intersect materials'[1].uniforms = {}
      BY <2>1, <2>2
    <2> QED
      BY <1>1, <1>2, <2>1, <2>4, <2>6, <2>7 DEF Drawn
  <1>11. CASE EndFrame
    BY <1>6, <1>11 DEF EndFrame, vars, history
  <1>12. CASE Projection
    <2>1. PICK l \in Locations, value \in Values : Give(UniformAt(2, l), value)
      BY <1>12 DEF Projection
    <2>2. phase = "projection" /\ phase' = "imgui_push" /\ draw' = draw
      BY <1>12 DEF Projection
    <2>3. Complete(1) /\ Complete(2)
      BY <1>4, <2>2
    <2>4. /\ materials' = materials
          /\ wasSet' \subseteq wasSet \union materials[2].uniforms
          /\ \A u \in DOMAIN uniforms :
               u \notin materials[2].uniforms => uniforms'[u] = uniforms[u]
      BY <1>3, <2>1, <2>3, GiveStep
    <2>5. \A u \in materials[1].uniforms :
            u \in DOMAIN uniforms /\ u \notin materials[2].uniforms
      BY <1>3, <2>3 DEF Complete, MaterialsInv, Versioned
    <2>6. draw # NoDraw => draw.by \in Meshes
      BY <1>3, <2>2 DEF Drawn
    <2>7. ASSUME draw # NoDraw,
                 NEW u \in materials'[MaterialOf(draw'.by)].uniforms \intersect wasSet'
          PROVE  draw'.values[uniforms'[u].location] = uniforms'[u].elements
      <3>1. draw.by = mesh
        BY <1>1, <2>6, <2>7
      <3>2. u \in materials[1].uniforms
        BY <1>2, <2>2, <2>4, <2>7, <3>1
      <3>3. uniforms'[u] = uniforms[u] /\ u \in wasSet
        BY <2>4, <2>5, <2>7, <3>2
      <3>4. draw.values[uniforms[u].location] = uniforms[u].elements
        BY <1>2, <1>3, <2>2, <2>7, <3>1, <3>2, <3>3 DEF Drawn
      <3> QED
        BY <2>2, <3>3, <3>4
    <2> QED
      BY <1>3, <2>2, <2>6, <2>7 DEF Drawn
  <1>13. CASE ImGuiPush
    <2>1. phase = "imgui_push" /\ phase' = "lists" /\ PushUniforms(2) /\ draw' = draw
      BY <1>13 DEF ImGuiPush
    <2>2. /\ dirty' \intersect materials'[2].uniforms = {} /\ current' = 2
          /\ UNCHANGED <<uniforms, materials, wasSet>>
      BY <1>3, <1>4, <2>1, PushStep
    <2> QED
      BY <1>3, <2>1, <2>2 DEF Drawn
  <1>14. ASSUME NEW t \in Textures, DrawList(t)
         PROVE  Drawn'
    <2>1. /\ phase = "lists" /\ phase' = "lists"
          /\ UNCHANGED <<uniforms, dirty, materials, wasSet, current>>
          /\ draw' = DrawCall(ImGui, [Bindings EXCEPT !.element = ImGui, !.texture = t])
      BY <1>14 DEF DrawList, vars, history
    <2>2. Complete(2) /\ current = 2 /\ dirty \intersect materials[2].uniforms = {}
      BY <1>3, <1>4, <2>1 DEF Drawn
    <2>3. vao = ImGui /\ scissor = TRUE
      BY <1>1, <1>3, <2>1 DEF Bound, Building
    <2>4. /\ draw'.by = ImGui /\ draw'.program = 2 /\ draw'.vao = ImGui
          /\ draw'.element = ImGui /\ draw'.scissor = TRUE /\ draw'.values = gl[2]
      BY <2>1, <2>2, <2>3 DEF DrawCall, Bindings
    <2>5. \A u \in materials[2].uniforms \intersect wasSet :
            gl[2][uniforms[u].location] = uniforms[u].elements
      BY <1>3, <2>2, AllInTheGL
    <2>6. \A u \in materials'[2].uniforms \intersect wasSet' :
            draw'.values[uniforms'[u].location] = uniforms'[u].elements
      BY <2>1, <2>4, <2>5
    <2>7. dirty' \intersect materials'[2].uniforms = {} /\ current' = 2
      BY <2>1, <2>2
    <2> QED
      BY <1>1, <1>2, <2>1, <2>4, <2>6, <2>7 DEF Drawn
  <1>15. CASE Restore
    BY <1>6, <1>15 DEF Restore, history
  <1> QED
    BY <1>7, <1>8, <1>9, <1>10, <1>11, <1>12, <1>13, <1>14, <1>15 DEF RendererNext

\* Every step of the frame keeps the invariant.
LEMMA FrameStep ==
  ASSUME RendererAssumption, FrameInv, [RendererNext]_allVars
  PROVE  FrameInv'
  <1>1. CASE RendererNext
    BY <1>1, MaterialsInFrame, MadeKept, BoundKept, DrawnKept DEF FrameInv
  <1>2. CASE UNCHANGED allVars
    <2>1. /\ UNCHANGED <<shaders, count, versions, uniforms, dirty, materials, alive, current,
                         gl, undefined, wasSet, overwritten, replaced>>
          /\ UNCHANGED <<phase, todo, font, vao, array, element, texture, scissor, saved, draw>>
      BY <1>2 DEF allVars, vars, storage, history, rendererVars, bindings
    <2>2. MaterialsInv'
      BY <2>1, OthersKeep DEF FrameInv, storage, history
    <2>3. Unversioned' /\ Made'
      BY <2>1 DEF FrameInv, Unversioned, UniformsOf, Made, Complete
    <2>4. Bound'
      BY <2>1 DEF FrameInv, Bound, SavedWhole, BindingsOf, Bindings
    <2>5. Drawn'
      BY <2>1 DEF FrameInv, Drawn
    <2> QED
      BY <2>2, <2>3, <2>4, <2>5 DEF FrameInv
  <1> QED
    BY <1>1, <1>2

\* What the frame is, in every state.
LEMMA FrameKept == RenderingSpec => []FrameInv
  <1>1. RendererAssumption
    BY RenderingAssumption
  <1>2. RenderingInit => FrameInv
    BY <1>1, FrameStarts DEF RenderingInit, RenderingStart
  <1>3. FrameInv /\ [RenderingNext]_renderingVars => FrameInv'
    BY <1>1, PartsApart, FrameStep
  <1> QED
    BY <1>2, <1>3, PTL DEF RenderingSpec

\* Whatever values the uniforms are given and textures are drawn, meshes and
\* ImGui draw with their own program, buffers and uniforms in every frame.
THEOREM MeantIsDrawn == RenderingSpec => []DrawnAsMeant
  <1>1. FrameInv => DrawnAsMeant
    <2> SUFFICES ASSUME FrameInv, draw # NoDraw
                 PROVE  DrawnAsMeant
      BY DEF DrawnAsMeant
    <2>1. Drawn /\ phase \in Drawing \union {"unbind"}
      BY DEF FrameInv, Drawn
    <2>2. Complete(1) /\ Complete(2)
      BY <2>1, RenderingAssumption
      DEF FrameInv, Made, Framing, Drawing, RendererAssumption
    <2>3. draw.program = materials[MaterialOf(draw.by)].program
      BY <2>1, <2>2 DEF Drawn, Complete, MaterialOf
    <2>4. draw.scissor = (draw.by = ImGui)
      BY <2>1 DEF Drawn
    <2> QED
      BY <2>1, <2>3, <2>4 DEF Drawn, DrawnAsMeant, Drawing
  <1> QED
    BY <1>1, FrameKept, PTL

\* ImGui gives back the bindings that it found, in every frame.
THEOREM StateIsGivenBack == RenderingSpec => []StateGivenBack
  <1>1. FrameInv => StateGivenBack
    <2> SUFFICES ASSUME FrameInv
                 PROVE  StateGivenBack
      OBVIOUS
    <2>1. Bound /\ SavedWhole
      BY DEF FrameInv, Bound
    <2>2. Bindings = BindingsOf(current, vao, array, element[vao], texture)
      BY DEF Bindings, BindingsOf
    <2>3. ASSUME saved.vao = vao, saved.array = array, saved.element = element[vao],
                 saved.texture = texture
          PROVE  [Bindings EXCEPT !.program = 0] = [saved EXCEPT !.program = 0]
      BY <2>1, <2>2, <2>3 DEF SavedWhole, BindingsOf
    <2>4. CASE phase = "update"
      BY <2>1, <2>3, <2>4 DEF Bound, StateGivenBack
    <2>5. CASE phase = "unbind"
      <3>1. saved = Bindings /\ scissor = FALSE
        BY <2>1, <2>5 DEF Bound
      <3>2. saved.program = current
        BY <2>2, <3>1 DEF BindingsOf
      <3> QED
        BY <2>5, <3>1, <3>2 DEF StateGivenBack
    <2> QED
      BY <2>4, <2>5 DEF StateGivenBack
  <1> QED
    BY <1>1, FrameKept, PTL
=============================================================================
