----------------------------- MODULE Rendering -----------------------------
(***************************************************************************)
(* The frame of the game with the materials inside it, and apart from it   *)
(* the materials under any order of calls and the input half of ImGui.     *)
(* They share nothing, so a behaviour is one of the component that subject *)
(* names; the others stay as they began.                                   *)
(***************************************************************************)
EXTENDS Renderer

CONSTANTS
  ShadedNames, ShadedLocations, ShadedMaterials,  \* as in Materials
  Buttons, FirstButton, CtrlKeys, ScreenWidth, WindowX, MaxScroll, MaxWraps  \* as in ImGuiInput

VARIABLES
  subject,
  mShaders, mCount, mVersions, mUniforms, mDirty, mMaterials, mAlive, mCurrent, mGl,
  mUndefined, mWasSet, mOverwritten, mReplaced,
  iFocused, iHeld, iKeys, iX, iLatch, iWheel, iKeysDown, iCtrl, iDown, iMouse, iClicked,
  iPressed, iBefore, iScrolled, iSeen, iTravel, iTracked, iWraps

Shading == INSTANCE Materials WITH
  Names <- ShadedNames, Locations <- ShadedLocations, MaxMaterials <- ShadedMaterials,
  shaders <- mShaders, count <- mCount, versions <- mVersions, uniforms <- mUniforms,
  dirty <- mDirty, materials <- mMaterials, alive <- mAlive, current <- mCurrent, gl <- mGl,
  undefined <- mUndefined, wasSet <- mWasSet, overwritten <- mOverwritten,
  replaced <- mReplaced

Input == INSTANCE ImGuiInput WITH
  focused <- iFocused, held <- iHeld, keys <- iKeys, x <- iX, latch <- iLatch,
  wheel <- iWheel, keysDown <- iKeysDown, ctrl <- iCtrl, down <- iDown, mouse <- iMouse,
  clicked <- iClicked, pressed <- iPressed, before <- iBefore, scrolled <- iScrolled,
  seen <- iSeen, travel <- iTravel, tracked <- iTracked, wraps <- iWraps

ASSUME RenderingAssumption ==
  RendererAssumption /\ Shading!MaterialsAssumption /\ Input!InputAssumption

----------------------------------------------------------------------------
shadeVars == <<mShaders, mCount, mVersions, mUniforms, mDirty, mMaterials, mAlive, mCurrent,
               mGl, mUndefined, mWasSet, mOverwritten, mReplaced>>
inputVars == <<iFocused, iHeld, iKeys, iX, iLatch, iWheel, iKeysDown, iCtrl, iDown, iMouse,
               iClicked, iPressed, iBefore, iScrolled, iSeen, iTravel, iTracked, iWraps>>
renderingVars == <<subject, allVars, shadeVars, inputVars>>

IsSubject(component) == subject = component /\ UNCHANGED subject

RenderingParts == {"frame", "materials", "input"}

RenderingStart == RendererInit /\ Shading!Init /\ Input!Init

RenderingInit == subject \in RenderingParts /\ RenderingStart

RenderingNext ==
  \/ IsSubject("frame") /\ RendererNext /\ UNCHANGED <<shadeVars, inputVars>>
  \/ IsSubject("materials") /\ Shading!Next /\ UNCHANGED <<allVars, inputVars>>
  \/ IsSubject("input") /\ Input!Next /\ UNCHANGED <<allVars, shadeVars>>

RenderingSpec == RenderingInit /\ [][RenderingNext]_renderingVars

----------------------------------------------------------------------------
\* Whatever materials are created, cloned and destroyed, a clean uniform has its
\* value in the GL (Materials!CleanIsPushed).
PushedOrDirty == subject = "materials" => Shading!CleanIsPushed

\* Versions of a program share no uniform, uniforms name the material that was
\* made last, and no program is lost, in any order of calls
\* (Materials!VersionsApart, NewestKeepsUniforms and NoProgramLost).
MaterialsKept == subject = "materials" =>
  Shading!VersionsApart /\ Shading!NewestKeepsUniforms /\ Shading!NoProgramLost

\* No click, turn of the wheel, modifier or stretch of a drag is lost between
\* the callbacks and the frames (ImGuiInput!ClicksSeen, WheelSeen, ModifierHeld
\* and DragKept).
InputSeen == subject = "input" =>
  Input!ClicksSeen /\ Input!WheelSeen /\ Input!ModifierHeld /\ Input!DragKept
=============================================================================
