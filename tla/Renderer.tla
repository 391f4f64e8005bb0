------------------------------ MODULE Renderer ------------------------------
(***************************************************************************)
(* A frame of the demo game: Init and UpdateAndRender of src/demo/game.cpp *)
(* with the vertex arrays of src/src/array_object.cpp, the meshes of       *)
(* src/src/mesh_component.cpp, the materials of module Materials and the   *)
(* rendering half of src/src/imgui_manager.cpp.  They share the bindings   *)
(* of the GL; every step is a call that changes them.                      *)
(*                                                                         *)
(* The GL keeps the element buffer in the vertex array that is bound.      *)
(* Draw lists have no user callbacks.                                      *)
(***************************************************************************)
EXTENDS Materials

CONSTANTS
  Meshes,    \* the vertex arrays of the game's meshes; all have its material
  Textures,  \* the textures of draw commands
  Game,      \* the path of the game's shader
  ImGui      \* the name of ImGui's shader

\* The game builds one mesh.
RendererAssumption ==
  /\ MaterialsAssumption
  /\ Names = {Game, ImGui} /\ Game # ImGui
  /\ \E mesh \in Meshes : Meshes = {mesh}
  /\ 0 \notin Meshes \union {ImGui} /\ ImGui \notin Meshes

VARIABLES
  phase,    \* the next call of the frame
  todo,     \* the meshes that are still to be rendered
  font,     \* font_texture_handle
  vao,      \* GL_VERTEX_ARRAY_BINDING; 0 for none
  array,    \* GL_ARRAY_BUFFER_BINDING: the owner of the buffer, or 0
  element,  \* GL_ELEMENT_ARRAY_BUFFER_BINDING of each vertex array, likewise
  texture,  \* GL_TEXTURE_BINDING_2D
  scissor,  \* GL_SCISSOR_TEST
  saved,    \* last_program .. last_vertex_array
  draw      \* history: the last draw call

bindings == <<vao, array, element, texture>>
rendererVars == <<phase, todo, font, bindings, scissor, saved, draw>>
allVars == <<vars, rendererVars>>

Arrays == Meshes \union {0, ImGui}
NoDraw == [by |-> 0]
NoneSaved == [program |-> 0, vao |-> 0, array |-> 0, element |-> 0, texture |-> 0]

RendererInit ==
  /\ Init
  /\ phase = "shader"
  /\ todo = Meshes
  /\ font = 0
  /\ vao = 0 /\ array = 0 /\ texture = 0 /\ scissor = FALSE
  /\ element = [a \in Arrays |-> 0]
  /\ saved = NoneSaved
  /\ draw = NoDraw

Goto(next) == phase' = next

Bindings == [program |-> current, vao |-> vao, array |-> array,
             element |-> element[vao], texture |-> texture]

----------------------------------------------------------------------------
(* Init of the game.                                                       *)

GameShader ==
  /\ phase = "shader" /\ Goto("material")
  /\ CreateShader(Game)
  /\ UNCHANGED <<todo, font, bindings, scissor, saved, draw>>

GameMaterial ==
  /\ phase = "material" /\ Goto("meshes")
  /\ CreateMaterial(shaders[Game])
  /\ UNCHANGED <<todo, font, bindings, scissor, saved, draw>>

\* The buffers of a mesh are filled, the element buffer in whichever vertex
\* array is bound; set_index_buffer and add_vertex_buffer bind the mesh's own.
BuildMesh(mesh) ==
  /\ phase = "meshes" /\ mesh \in todo
  /\ todo' = todo \ {mesh}
  /\ Goto(IF todo = {mesh} THEN "begin" ELSE "meshes")
  /\ vao' = mesh
  /\ array' = mesh
  /\ element' = [element EXCEPT ![vao] = mesh, ![mesh] = mesh]
  /\ UNCHANGED <<vars, font, texture, scissor, saved, draw>>

----------------------------------------------------------------------------
(* begin_frame.                                                            *)

BeginFrame ==
  /\ phase = "begin"
  /\ Goto(IF font = 0 THEN "imgui_shader" ELSE "update")
  /\ saved' = Bindings
  /\ UNCHANGED <<vars, todo, font, bindings, scissor, draw>>

ImGuiShader ==
  /\ phase = "imgui_shader" /\ Goto("imgui_material")
  /\ CreateShaderFromSource(ImGui)
  /\ UNCHANGED <<todo, font, bindings, scissor, saved, draw>>

ImGuiMaterial ==
  /\ phase = "imgui_material" /\ Goto("device_objects")
  /\ CreateMaterial(shaders[ImGui])
  /\ UNCHANGED <<todo, font, bindings, scissor, saved, draw>>

\* The rest of create_device_objects: its vertex array and font texture are
\* bound, and what was bound before is bound again.
CreateDeviceObjects ==
  /\ phase = "device_objects" /\ Goto("update")
  /\ font' = ImGui
  /\ texture' = saved.texture /\ array' = saved.array /\ vao' = saved.vao
  /\ UNCHANGED <<vars, todo, element, scissor, saved, draw>>

----------------------------------------------------------------------------
(* UpdateAndRender.                                                        *)

\* The uniform at location l of a material (Material::get).
UniformAt(m, l) == CHOOSE u \in materials[m].uniforms : uniforms[u].location = l

\* set_value, also with the value that the uniform has.
Give(u, value) == SetValue(u, value) \/ (uniforms[u].elements = value /\ UNCHANGED vars)

\* The game's uniforms get the values of this frame, one by one.
Update ==
  /\ phase = "update" /\ (Goto("update") \/ Goto("push"))
  /\ \E l \in Locations, value \in Values : Give(UniformAt(1, l), value)
  /\ todo' = Meshes
  /\ UNCHANGED <<font, bindings, scissor, saved, draw>>

PushGame ==
  /\ phase = "push" /\ Goto("render")
  /\ PushUniforms(1)
  /\ UNCHANGED <<todo, font, bindings, scissor, saved, draw>>

DrawCall(by, bound) ==
  [by |-> by, program |-> bound.program, vao |-> bound.vao, element |-> bound.element,
   texture |-> bound.texture, values |-> gl[bound.program], scissor |-> scissor]

\* render: material->bind() and vao->draw(), which binds the vertex array.
RenderMesh(mesh) ==
  /\ phase = "render" /\ mesh \in todo
  /\ todo' = todo \ {mesh}
  /\ Goto(IF todo = {mesh} THEN "end" ELSE "render")
  /\ Bind(materials[1].program)
  /\ vao' = mesh
  /\ draw' = DrawCall(mesh, [Bindings EXCEPT !.program = current', !.vao = mesh,
                                             !.element = element[mesh]])
  /\ UNCHANGED <<storage, uniforms, dirty, materials, alive, gl, undefined, history,
                 font, array, element, texture, scissor, saved>>

----------------------------------------------------------------------------
(* render_draw_lists.                                                      *)

EndFrame ==
  /\ phase = "end" /\ Goto("projection")
  /\ saved' = Bindings
  /\ scissor' = TRUE
  /\ UNCHANGED <<vars, todo, font, bindings, draw>>

\* The projection follows the size of the window.
Projection ==
  /\ phase = "projection" /\ Goto("imgui_push")
  /\ \E l \in Locations, value \in Values : Give(UniformAt(2, l), value)
  /\ UNCHANGED <<todo, font, bindings, scissor, saved, draw>>

\* Mutation: the lists are drawn with the array that is bound.
BoundArray == vao

ImGuiArray == ImGui

ImGuiPush ==
  /\ phase = "imgui_push" /\ Goto("lists")
  /\ PushUniforms(2)
  /\ vao' = ImGuiArray
  /\ UNCHANGED <<todo, font, array, element, texture, scissor, saved, draw>>

\* A draw list with one command for the texture t: the buffers are bound and
\* filled, the element buffer in ImGui's vertex array.
DrawList(t) ==
  /\ phase = "lists"
  /\ array' = ImGui
  /\ element' = [element EXCEPT ![vao] = ImGui]
  /\ texture' = t
  /\ draw' = DrawCall(ImGui, [Bindings EXCEPT !.element = ImGui, !.texture = t])
  /\ UNCHANGED <<vars, phase, todo, font, vao, scissor, saved>>

\* Mutation: the vertex array stays bound.
KeptArray == vao

RestoredArray == saved.vao

\* The element buffer is put back while ImGui's vertex array is still bound,
\* which keeps it until its next draw list; the game's array still has its own.
Restore ==
  /\ phase = "lists" /\ Goto("unbind")
  /\ current' = saved.program
  /\ texture' = saved.texture
  /\ array' = saved.array
  /\ element' = [element EXCEPT ![vao] = saved.element]
  /\ vao' = RestoredArray
  /\ scissor' = FALSE
  /\ UNCHANGED <<storage, uniforms, dirty, materials, alive, gl, undefined, history,
                 todo, font, saved, draw>>

GameUnbind ==
  /\ phase = "unbind" /\ Goto("begin")
  /\ Unbind(1)
  /\ draw' = NoDraw
  /\ UNCHANGED <<todo, font, bindings, scissor, saved>>

RendererNext ==
  \/ GameShader \/ GameMaterial \/ (\E mesh \in Meshes : BuildMesh(mesh))
  \/ BeginFrame \/ ImGuiShader \/ ImGuiMaterial \/ CreateDeviceObjects
  \/ Update \/ PushGame \/ (\E mesh \in Meshes : RenderMesh(mesh))
  \/ EndFrame \/ Projection \/ ImGuiPush
  \/ (\E t \in Textures : DrawList(t)) \/ Restore \/ GameUnbind

RendererSpec == RendererInit /\ [][RendererNext]_allVars

----------------------------------------------------------------------------
MaterialOf(by) == IF by = ImGui THEN 2 ELSE 1

\* Whoever draws, a mesh or ImGui, does so with its own program, vertex array
\* and element buffer, with the values that the uniforms of its material were
\* set to, and with the scissor test only for ImGui.  A uniform whose first
\* value was already in its memory is never pushed (set_value compares with
\* elements_ that nothing has initialised): it is not in wasSet.
DrawnAsMeant ==
  draw # NoDraw =>
    LET m == MaterialOf(draw.by)
    IN  /\ draw.program = materials[m].program
        /\ draw.vao = draw.by /\ draw.element = draw.by
        /\ draw.scissor = (draw.by = ImGui)
        /\ phase \in {"render", "end", "lists"} =>
             \A u \in materials[m].uniforms \intersect wasSet :
               draw.values[uniforms[u].location] = uniforms[u].elements

\* ImGui gives the GL back as it found it, to create its objects and to render:
\* the texture, the array buffer, the vertex array with the element buffer in
\* it and, after rendering, the program ("Restore modified GL state").
StateGivenBack ==
  /\ phase = "update" \/ phase = "unbind" =>
       [Bindings EXCEPT !.program = 0] = [saved EXCEPT !.program = 0]
  /\ phase = "unbind" => current = saved.program /\ ~scissor
=============================================================================
