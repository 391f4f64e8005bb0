---------------------------- MODULE MCRendering ----------------------------
(***************************************************************************)
(* An instance of Rendering for TLC.                                       *)
(***************************************************************************)
EXTENDS Rendering

\* The one mesh of the game, and the textures of the font and of an image.
CONSTANTS game, imgui, mesh1, font1, image1
ShaderNames  == {game, imgui}
GameMeshes   == {mesh1}
DrawTextures == {font1, image1}
=============================================================================
