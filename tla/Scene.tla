------------------------------- MODULE Scene -------------------------------
(***************************************************************************)
(* The components of the entities of a scene: TransformComponent and       *)
(* MeshComponent.  Each has an array and a table from entities to its      *)
(* indices, and takes a row out by moving the last one into its place.     *)
(* They share no state, so a behaviour is one of the component that        *)
(* subject names; the other stays as it began.                             *)
(***************************************************************************)
EXTENDS TransformComponent

CONSTANTS Meshes, MaxMeshes   \* Meshes and MaxData of MeshComponent

VARIABLES
  subject,
  mData, mMap, mGiven, mDamage

MeshMap == INSTANCE MeshComponent WITH
  MaxData <- MaxMeshes, data <- mData, map <- mMap, given <- mGiven, damage <- mDamage

ASSUME SceneAssumption == MeshMap!MeshAssumption

----------------------------------------------------------------------------
meshVars  == <<mData, mMap, mGiven, mDamage>>
sceneVars == <<subject, vars, meshVars>>

IsSubject(component) == subject = component /\ UNCHANGED subject

SceneInit ==
  /\ subject \in {"transforms", "meshes"}
  /\ Init /\ MeshMap!Init

SceneNext ==
  \/ IsSubject("transforms") /\ Next /\ UNCHANGED meshVars
  \/ IsSubject("meshes") /\ MeshMap!Next /\ UNCHANGED vars

SceneSpec == SceneInit /\ [][SceneNext]_sceneVars

----------------------------------------------------------------------------
\* Every entity keeps its mesh through the moves of destroy, and lookup finds
\* it (MeshComponent!MeshesKept).
MeshesKept == subject = "meshes" => MeshMap!MeshesKept
============================================================================
