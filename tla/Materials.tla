------------------------------ MODULE Materials ------------------------------
(***************************************************************************)
(* The shader programs, materials and uniforms of src/src/material.cpp and *)
(* src/src/uniform.cpp.  A uniform is a value in memory; setting it files  *)
(* it as dirty under the program and the version of the materials that it  *)
(* was added to, and push_uniforms sends the dirty ones of a material to   *)
(* the GL, which keeps one value for each location of a program, whatever  *)
(* the version.  Pointers to uniforms and materials are numbers, in the    *)
(* order of their creation; a program is its handle.                       *)
(*                                                                         *)
(* Sources compile, and every program has the same locations.  The hashes  *)
(* of names and of program and version do not collide.                     *)
(***************************************************************************)
EXTENDS Naturals, Sequences, FiniteSets, FiniteSetsExt, Functions

CONSTANTS
  Names,         \* the paths and names of shaders
  Locations,     \* the locations of the uniforms of a program
  Values,        \* the values of a uniform; 0 is what the GL starts with
  MaxPrograms,   \* bound on the programs created
  MaxMaterials   \* bound on the materials created

MaterialsAssumption ==
  /\ IsFiniteSet(Locations)
  /\ 0 \in Values
  /\ MaxPrograms \in Nat \ {0} /\ MaxMaterials \in Nat \ {0}

VARIABLES
  shaders,    \* shaders_: the program of a name, or 0
  count,      \* programs created; their handles are 1 .. count
  versions,   \* material_version_: of each program
  uniforms,   \* all uniforms: program, version, location, elements_, materials_
  dirty,      \* dirty_uniforms_: the uniforms filed under program and version
  materials,  \* all materials: program_handle_, version_, uniforms_
  alive,      \* the materials that have not been destroyed
  current,    \* GL: the program in use
  gl,         \* GL: the value of each location of each program
  undefined,  \* a destroyed material was read
  wasSet,     \* history: the uniforms that set_value changed
  overwritten,  \* history: the uniforms whose GL value another version wrote
  replaced    \* history: programs whose name was given to another

storage == <<shaders, count, versions>>
history == <<wasSet, overwritten, replaced>>
vars == <<storage, uniforms, dirty, materials, alive, current, gl, undefined, history>>

Programs == 1 .. MaxPrograms
None     == 0

Init ==
  /\ shaders = [n \in Names |-> 0]
  /\ count = 0
  /\ versions = [p \in Programs |-> 0]
  /\ uniforms = <<>> /\ dirty = {}
  /\ materials = <<>> /\ alive = {}
  /\ current = 0
  /\ gl = [p \in Programs |-> [l \in Locations |-> 0]]
  /\ undefined = FALSE
  /\ wasSet = {} /\ overwritten = {} /\ replaced = {}

\* multi_hash::get(uniforms_, hash of program and version)
UniformsOf(p, v) ==
  {u \in DOMAIN uniforms : uniforms[u].program = p /\ uniforms[u].version = v}

\* The GL enumerates uniforms in an order of its own, and so does a multi_hash
\* the entries of a key.
Orders(S) == Bijection(1 .. Cardinality(S), S)

----------------------------------------------------------------------------
(* Programs.                                                               *)

\* hash::set(shaders_, name, handles of the new program)
Filed(name) == [shaders EXCEPT ![name] = count + 1]

\* create_shader_from_source: a new program with a uniform for each location,
\* whose elements_ are whatever the memory held.
CreateShaderFromSource(name) ==
  /\ count < MaxPrograms
  /\ count' = count + 1
  /\ shaders' = Filed(name)
  /\ replaced' = replaced \union ({shaders[name]} \ {0})
  /\ \E active \in Orders(Locations), held \in [Locations -> Values] :
       uniforms' = uniforms \o [i \in DOMAIN active |->
         [program |-> count + 1, version |-> 0, location |-> active[i],
          elements |-> held[active[i]], material |-> None]]
  /\ UNCHANGED <<versions, dirty, materials, alive, current, gl, undefined,
                 wasSet, overwritten>>

\* create_shader: from the file, unless the path has a program already.
CreateShader(path) == shaders[path] = 0 /\ CreateShaderFromSource(path)

----------------------------------------------------------------------------
(* Materials.                                                              *)

\* Mutation: add_material keeps the material that came first.
AddMaterialFirst(us, mat, S) ==
  [u \in DOMAIN us |->
     IF u \in S /\ us[u].material = None THEN [us[u] EXCEPT !.material = mat] ELSE us[u]]

\* add_material of each uniform in S: the location is the key, and another
\* material of the same location takes the place of the one before.
AddMaterial(us, mat, S) ==
  [u \in DOMAIN us |-> IF u \in S THEN [us[u] EXCEPT !.material = mat] ELSE us[u]]

\* The constructor of Material, for the next material; us are the uniforms.
Construct(us, p, v, S) ==
  /\ uniforms' = AddMaterial(us, Len(materials) + 1, S)
  /\ materials' = Append(materials, [program |-> p, version |-> v, uniforms |-> S])
  /\ alive' = alive \union {Len(materials) + 1}

Bind(p) == current' = p

CreateMaterial(p) ==
  /\ Len(materials) < MaxMaterials
  /\ Construct(uniforms, p, 0, UniformsOf(p, 0))
  /\ Bind(p)
  /\ UNCHANGED <<storage, dirty, gl, undefined, history>>

NextVersion(m) == versions[materials[m].program] + 1

\* Uniform::clone copies the value, and not the material it is added to.
Clone(u, v) == [uniforms[u] EXCEPT !.version = v, !.material = None]

\* The clones of the uniforms are not marked as dirty.
CloneMaterial(m) ==
  /\ Len(materials) < MaxMaterials
  /\ LET p == materials[m].program
         v == NextVersion(m)
     IN  /\ versions' = [versions EXCEPT ![p] = v]
         /\ \E originals \in Orders(UniformsOf(p, materials[m].version)) :
              LET clones == [i \in DOMAIN originals |-> Clone(originals[i], v)]
              IN  Construct(uniforms \o clones, p, v,
                            Len(uniforms) + 1 .. Len(uniforms) + Len(clones))
  /\ UNCHANGED <<shaders, count, dirty, current, gl, undefined, history>>

\* The last shared pointer to a material goes.
DestroyMaterial(m) ==
  /\ alive' = alive \ {m}
  /\ UNCHANGED <<storage, uniforms, dirty, materials, current, gl, undefined, history>>

Unbind(m) ==
  /\ current' = IF current = materials[m].program THEN 0 ELSE current
  /\ UNCHANGED <<storage, uniforms, dirty, materials, alive, gl, undefined, history>>

----------------------------------------------------------------------------
(* Uniforms.                                                               *)

\* mark_dirty asks the material for its program and version to file the uniform.
MarkDirty(u) ==
  /\ dirty' = dirty \union {u}
  /\ undefined' = (uniforms[u].material \notin alive)

\* set_value and, if the value is new, notify_dirty.  A uniform that no client
\* got from a material (Material::get) is not set.
SetValue(u, value) ==
  /\ uniforms[u].material # None
  /\ uniforms[u].elements # value
  /\ uniforms' = [uniforms EXCEPT ![u].elements = value]
  /\ MarkDirty(u)
  /\ wasSet' = wasSet \union {u}
  /\ UNCHANGED <<storage, materials, alive, current, gl, overwritten, replaced>>

\* The uniforms filed as dirty for a material.
DirtyOf(m) ==
  {u \in dirty : LET of == materials[uniforms[u].material]
                 IN  of.program = materials[m].program /\ of.version = materials[m].version}

\* Mutation: the uniforms of every version of the program count as pushed.
PushedOf(m) == {u \in dirty : uniforms[u].program = materials[m].program}

\* remove_all(dirty_uniforms_, hash of program and version)
Pushed(m) == DirtyOf(m)

\* glUniform for each of the uniforms in S: the location keeps one value.
Push(values, S) ==
  [l \in Locations |->
     LET at == {u \in S : uniforms[u].location = l}
     IN  IF at = {} THEN values[l] ELSE uniforms[Max(at)].elements]

PushUniforms(m) ==
  LET p == materials[m].program
      overwrites(u) == \E w \in DirtyOf(m) :
        /\ uniforms[u].location = uniforms[w].location
        /\ uniforms[u].program = p /\ uniforms[u].version # uniforms[w].version
  IN  /\ Bind(p)
      /\ gl' = [gl EXCEPT ![p] = Push(@, DirtyOf(m))]
      /\ dirty' = dirty \ Pushed(m)
      /\ overwritten' = (overwritten \ DirtyOf(m)) \union {u \in DOMAIN uniforms : overwrites(u)}
      /\ UNCHANGED <<storage, uniforms, materials, alive, undefined, wasSet, replaced>>

Next ==
  /\ ~undefined
  /\ \/ \E n \in Names : CreateShaderFromSource(n) \/ CreateShader(n)
     \/ \E p \in 1 .. count : CreateMaterial(p)
     \/ \E u \in DOMAIN uniforms, value \in Values : SetValue(u, value)
     \/ \E m \in alive :
          CloneMaterial(m) \/ DestroyMaterial(m) \/ Unbind(m) \/ PushUniforms(m)

Spec == Init /\ [][Next]_vars

----------------------------------------------------------------------------
\* A uniform that was set and is not filed as dirty has its value in the GL,
\* unless a material of another version has written the location since: going
\* from one version to another and back is what push_uniforms does not handle
\* ("TODO: TR Handle going from v0 to v1 back to v0 of shader").
CleanIsPushed ==
  \A u \in wasSet \ (dirty \union overwritten) :
    gl[uniforms[u].program][uniforms[u].location] = uniforms[u].elements

\* A version of a program has one uniform for each location, so that no two
\* materials that were cloned apart set each other's values (clone_material).
VersionsApart ==
  \A u, w \in DOMAIN uniforms :
    /\ uniforms[u].program = uniforms[w].program
    /\ uniforms[u].version = uniforms[w].version
    /\ uniforms[u].location = uniforms[w].location
    => u = w

\* Setting a uniform reads no destroyed material while the material that was
\* made last for the program and version is alive, whatever became of the ones
\* before it (add_material, notify_dirty).
NewestKeepsUniforms ==
  \A u \in DOMAIN uniforms :
    LET users == {m \in DOMAIN materials : u \in materials[m].uniforms}
    IN  users # {} /\ Max(users) \in alive => uniforms[u].material \in alive

\* No program is lost: the destructor finds each in shaders_, except those
\* whose name was given to another program (create_shader_from_source).
NoProgramLost ==
  \A p \in 1 .. count : (\E n \in Names : shaders[n] = p) \/ p \in replaced
=============================================================================
