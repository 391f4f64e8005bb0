-------------------------- MODULE MaterialsProofs --------------------------
(***************************************************************************)
(* Proofs about Materials for any names, locations and values and any      *)
(* number of programs and materials: which uniform belongs to which        *)
(* version of which program, and what the GL has of it.                    *)
(***************************************************************************)
EXTENDS Materials, FiniteSetTheorems, SequenceTheorems, TLAPS

UniformType ==
  [program : Programs, version : Nat, location : Locations, elements : Values, material : Nat]

MaterialType == [program : Programs, version : Nat, uniforms : SUBSET Nat]

TypeOK ==
  /\ shaders \in [Names -> 0 .. MaxPrograms]
  /\ count \in 0 .. MaxPrograms
  /\ versions \in [Programs -> Nat]
  /\ uniforms \in Seq(UniformType)
  /\ materials \in Seq(MaterialType)
  /\ dirty \subseteq DOMAIN uniforms /\ wasSet \subseteq DOMAIN uniforms
  /\ alive \subseteq DOMAIN materials
  /\ gl \in [Programs -> [Locations -> Values]]

\* Uniforms and materials are of a program and of one of its versions.
Versioned ==
  /\ \A u \in DOMAIN uniforms :
       uniforms[u].program <= count /\ uniforms[u].version <= versions[uniforms[u].program]
  /\ \A m \in DOMAIN materials :
       /\ materials[m].program <= count
       /\ materials[m].version <= versions[materials[m].program]
       /\ materials[m].uniforms \subseteq DOMAIN uniforms
       /\ \A u \in materials[m].uniforms :
            /\ uniforms[u].program = materials[m].program
            /\ uniforms[u].version = materials[m].version

\* A uniform names the newest of the materials that have it, which is of its
\* program and version; what is set or dirty has a material.
NewestNamed ==
  /\ \A u \in DOMAIN uniforms :
       LET m == uniforms[u].material
       IN  /\ m # None => /\ m \in DOMAIN materials /\ u \in materials[m].uniforms
                          /\ materials[m].program = uniforms[u].program
                          /\ materials[m].version = uniforms[u].version
           /\ \A k \in DOMAIN materials : u \in materials[k].uniforms => k <= m
  /\ \A u \in dirty \union wasSet : uniforms[u].material # None

MaterialsInv ==
  TypeOK /\ Versioned /\ NewestNamed /\ VersionsApart /\ CleanIsPushed /\ NoProgramLost

----------------------------------------------------------------------------
\* Before the first program there is nothing to be wrong.
LEMMA NothingMade ==
  ASSUME MaterialsAssumption, Init
  PROVE  MaterialsInv
  <1> USE DEF MaterialsAssumption, Init
  <1>1. TypeOK
    BY DEF TypeOK, Programs
  <1>2. Versioned /\ NewestNamed /\ VersionsApart /\ CleanIsPushed /\ NoProgramLost
    BY DEF Versioned, NewestNamed, VersionsApart, CleanIsPushed, NoProgramLost
  <1> QED
    BY <1>1, <1>2 DEF MaterialsInv

\* What is appended to a sequence comes after what was in it.
LEMMA Appended ==
  ASSUME NEW T, NEW s \in Seq(T), NEW n \in Nat, NEW f \in [1 .. n -> T]
  PROVE  /\ s \o f \in Seq(T)
         /\ DOMAIN (s \o f) = 1 .. Len(s) + n /\ DOMAIN s = 1 .. Len(s) /\ Len(s) \in Nat
         /\ \A i \in DOMAIN s : (s \o f)[i] = s[i]
         /\ \A i \in (Len(s) + 1) .. (Len(s) + n) :
              i - Len(s) \in 1 .. n /\ (s \o f)[i] = f[i - Len(s)]
  <1>1. f \in Seq(T) /\ Len(f) = n
    BY DEF Seq
  <1> QED
    BY <1>1

\* What a uniform or material of the right type has for fields.
LEMMA FieldTypes ==
  ASSUME TypeOK
  PROVE  /\ \A u \in DOMAIN uniforms :
              /\ uniforms[u] \in UniformType
              /\ uniforms[u].program \in Programs /\ uniforms[u].version \in Nat
              /\ uniforms[u].location \in Locations /\ uniforms[u].elements \in Values
              /\ uniforms[u].material \in Nat
         /\ \A m \in DOMAIN materials :
              /\ materials[m] \in MaterialType
              /\ materials[m].program \in Programs /\ materials[m].version \in Nat
              /\ m \in Nat \ {0}
         /\ DOMAIN uniforms = 1 .. Len(uniforms) /\ Len(uniforms) \in Nat
         /\ DOMAIN materials = 1 .. Len(materials) /\ Len(materials) \in Nat
         /\ \A p \in Programs : p \in Nat
  <1>1. ASSUME NEW u \in DOMAIN uniforms
        PROVE  uniforms[u] \in UniformType
    BY DEF TypeOK
  <1>2. ASSUME NEW m \in DOMAIN materials
        PROVE  materials[m] \in MaterialType
    BY DEF TypeOK
  <1>3. ASSUME NEW u \in DOMAIN uniforms
        PROVE  /\ uniforms[u].program \in Programs /\ uniforms[u].version \in Nat
               /\ uniforms[u].location \in Locations /\ uniforms[u].elements \in Values
               /\ uniforms[u].material \in Nat
    BY <1>1 DEF UniformType
  <1>4. ASSUME NEW m \in DOMAIN materials
        PROVE  materials[m].program \in Programs /\ materials[m].version \in Nat
    BY <1>2 DEF MaterialType
  <1>5. /\ DOMAIN uniforms = 1 .. Len(uniforms) /\ Len(uniforms) \in Nat
        /\ DOMAIN materials = 1 .. Len(materials) /\ Len(materials) \in Nat
    BY DEF TypeOK
  <1> QED
    BY <1>1, <1>2, <1>3, <1>4, <1>5 DEF Programs

\* The uniforms of a new program: one for each location, in the order of the GL.
LEMMA ProgramCreated ==
  ASSUME MaterialsAssumption, TypeOK, NEW name \in Names, CreateShaderFromSource(name)
  PROVE  /\ uniforms' \in Seq(UniformType)
         /\ DOMAIN uniforms \subseteq DOMAIN uniforms'
         /\ \A u \in DOMAIN uniforms : uniforms'[u] = uniforms[u]
         /\ \A u \in DOMAIN uniforms' \ DOMAIN uniforms :
              /\ uniforms'[u].program = count + 1 /\ uniforms'[u].version = 0
              /\ uniforms'[u].material = None
         /\ \A u, w \in DOMAIN uniforms' \ DOMAIN uniforms :
              uniforms'[u].location = uniforms'[w].location => u = w
         /\ \A l \in Locations : \E u \in DOMAIN uniforms' \ DOMAIN uniforms :
              uniforms'[u].location = l
  <1> DEFINE n == Cardinality(Locations)
  <1>1. n \in Nat
    BY FS_CardinalityType DEF MaterialsAssumption
  <1>2. PICK active \in Orders(Locations), held \in [Locations -> Values] :
          uniforms' = uniforms \o [i \in DOMAIN active |->
            [program |-> count + 1, version |-> 0, location |-> active[i],
             elements |-> held[active[i]], material |-> None]]
    BY DEF CreateShaderFromSource
  <1>3. /\ active \in [1 .. n -> Locations]
        /\ \A i, j \in 1 .. n : active[i] = active[j] => i = j
        /\ \A l \in Locations : \E i \in 1 .. n : active[i] = l
    BY DEF Orders, Bijection, Injection, Surjection, IsInjective
  <1> DEFINE f == [i \in 1 .. n |->
            [program |-> count + 1, version |-> 0, location |-> active[i],
             elements |-> held[active[i]], material |-> None]]
  <1>4. uniforms' = uniforms \o f
    BY <1>2, <1>3
  <1>5. f \in [1 .. n -> UniformType]
    BY <1>3 DEF UniformType, CreateShaderFromSource, Programs, None, TypeOK, MaterialsAssumption
  <1>6. \A i \in 1 .. n : /\ f[i].program = count + 1 /\ f[i].version = 0
                          /\ f[i].material = None /\ f[i].location = active[i]
    OBVIOUS
  <1> HIDE DEF n, f
  <1>7. uniforms \in Seq(UniformType)
    BY DEF TypeOK
  <1>8. /\ uniforms' \in Seq(UniformType)
        /\ DOMAIN uniforms' = 1 .. Len(uniforms) + n
        /\ DOMAIN uniforms = 1 .. Len(uniforms) /\ Len(uniforms) \in Nat
        /\ \A u \in DOMAIN uniforms : uniforms'[u] = uniforms[u]
        /\ \A u \in (Len(uniforms) + 1) .. (Len(uniforms) + n) :
             u - Len(uniforms) \in 1 .. n /\ uniforms'[u] = f[u - Len(uniforms)]
    BY <1>1, <1>4, <1>5, <1>7, Appended
  <1>9. DOMAIN uniforms' \ DOMAIN uniforms = (Len(uniforms) + 1) .. (Len(uniforms) + n)
    BY <1>1, <1>8
  <1>10. ASSUME NEW u \in DOMAIN uniforms' \ DOMAIN uniforms,
                NEW w \in DOMAIN uniforms' \ DOMAIN uniforms,
                uniforms'[u].location = uniforms'[w].location
         PROVE  u = w
    <2>1. u - Len(uniforms) \in 1 .. n /\ w - Len(uniforms) \in 1 .. n
      BY <1>8, <1>9
    <2>2. active[u - Len(uniforms)] = active[w - Len(uniforms)]
      BY <1>6, <1>8, <1>9, <1>10, <2>1
    <2>3. u - Len(uniforms) = w - Len(uniforms)
      BY <1>3, <2>1, <2>2
    <2> QED
      BY <1>1, <1>8, <1>9, <2>3
  <1>11. ASSUME NEW u \in DOMAIN uniforms' \ DOMAIN uniforms
         PROVE  /\ uniforms'[u].program = count + 1 /\ uniforms'[u].version = 0
                /\ uniforms'[u].material = None
    BY <1>6, <1>8, <1>9
  <1>12. DOMAIN uniforms \subseteq DOMAIN uniforms'
    BY <1>1, <1>8
  <1>13. ASSUME NEW l \in Locations
         PROVE  \E u \in DOMAIN uniforms' \ DOMAIN uniforms : uniforms'[u].location = l
    <2>1. PICK i \in 1 .. n : active[i] = l
      BY <1>3
    <2>2. Len(uniforms) + i \in (Len(uniforms) + 1) .. (Len(uniforms) + n)
      BY <1>1, <1>8
    <2>3. (Len(uniforms) + i) - Len(uniforms) = i
      BY <1>1, <1>8
    <2>4. uniforms'[Len(uniforms) + i].location = l
      BY <1>6, <1>8, <2>1, <2>2, <2>3
    <2> QED
      BY <1>9, <2>2, <2>4
  <1> QED
    BY <1>8, <1>10, <1>11, <1>12, <1>13

\* create_shader_from_source files the new uniforms under a program that nothing
\* else has, and every program it takes the name from counts as replaced.
LEMMA ShaderKeeps ==
  ASSUME MaterialsAssumption, MaterialsInv, NEW name \in Names, CreateShaderFromSource(name)
  PROVE  MaterialsInv'
  <1> USE DEF MaterialsInv
  <1>1. /\ uniforms' \in Seq(UniformType)
        /\ DOMAIN uniforms \subseteq DOMAIN uniforms'
        /\ \A u \in DOMAIN uniforms : uniforms'[u] = uniforms[u]
        /\ \A u \in DOMAIN uniforms' \ DOMAIN uniforms :
             /\ uniforms'[u].program = count + 1 /\ uniforms'[u].version = 0
             /\ uniforms'[u].material = None
        /\ \A u, w \in DOMAIN uniforms' \ DOMAIN uniforms :
             uniforms'[u].location = uniforms'[w].location => u = w
    BY ProgramCreated
  <1>2. /\ count' = count + 1 /\ count < MaxPrograms
        /\ shaders' = [shaders EXCEPT ![name] = count + 1]
        /\ replaced' = replaced \union ({shaders[name]} \ {0})
        /\ UNCHANGED <<versions, dirty, materials, alive, gl, wasSet, overwritten>>
    BY DEF CreateShaderFromSource, Filed
  <1>3. /\ count \in Nat /\ MaxPrograms \in Nat
        /\ \A u \in DOMAIN uniforms : uniforms[u].program \in Nat
        /\ \A u \in DOMAIN uniforms' : /\ uniforms'[u] \in UniformType
                                       /\ uniforms'[u].program \in Programs
    <2>1. \A u \in DOMAIN uniforms' : uniforms'[u] \in UniformType
      BY <1>1
    <2>2. \A u \in DOMAIN uniforms' : uniforms'[u].program \in Programs
      BY <2>1 DEF UniformType
    <2> QED
      BY <2>1, <2>2, FieldTypes DEF TypeOK, MaterialsAssumption
  <1>4. TypeOK'
    BY <1>1, <1>2, <1>3 DEF TypeOK
  <1>5. Versioned'
    <2>1. ASSUME NEW u \in DOMAIN uniforms'
          PROVE  /\ uniforms'[u].program <= count'
                 /\ uniforms'[u].version <= versions'[uniforms'[u].program]
      <3>1. CASE u \in DOMAIN uniforms
        BY <1>1, <1>2, <1>3, <3>1 DEF Versioned
      <3>2. CASE u \notin DOMAIN uniforms
        BY <1>1, <1>2, <1>3, <3>2 DEF TypeOK
      <3> QED
        BY <3>1, <3>2
    <2>2. ASSUME NEW m \in DOMAIN materials'
          PROVE  /\ materials'[m].program <= count'
                 /\ materials'[m].version <= versions'[materials'[m].program]
                 /\ materials'[m].uniforms \subseteq DOMAIN uniforms'
                 /\ \A u \in materials'[m].uniforms :
                      /\ uniforms'[u].program = materials'[m].program
                      /\ uniforms'[u].version = materials'[m].version
      <3>1. materials[m].program \in Nat
        BY <1>2, FieldTypes
      <3> QED
        BY <1>1, <1>2, <1>3, <3>1 DEF Versioned
    <2> QED
      BY <2>1, <2>2 DEF Versioned
  <1>6. NewestNamed'
    <2>1. ASSUME NEW u \in DOMAIN uniforms' \ DOMAIN uniforms, NEW k \in DOMAIN materials
          PROVE  u \notin materials[k].uniforms
      BY <2>1 DEF Versioned
    <2> QED
      BY <1>1, <1>2, <2>1 DEF NewestNamed, TypeOK, None
  <1>7. VersionsApart'
    BY <1>1, <1>3 DEF VersionsApart, Versioned
  <1>8. CleanIsPushed'
    BY <1>1, <1>2 DEF CleanIsPushed, TypeOK
  <1>9. NoProgramLost'
    <2> SUFFICES ASSUME NEW p \in 1 .. count'
                 PROVE  (\E n \in Names : shaders'[n] = p) \/ p \in replaced'
      BY DEF NoProgramLost
    <2>1. shaders'[name] = count + 1
      BY <1>2 DEF TypeOK
    <2>2. CASE p = count + 1
      BY <2>1, <2>2
    <2>3. CASE p \in 1 .. count
      <3>1. (\E n \in Names : shaders[n] = p) \/ p \in replaced
        BY <2>3 DEF NoProgramLost
      <3>2. ASSUME NEW n \in Names, shaders[n] = p
            PROVE  shaders'[n] = p \/ p \in replaced'
        BY <1>2, <2>3, <3>2 DEF TypeOK
      <3> QED
        BY <1>2, <3>1, <3>2
    <2> QED
      BY <1>2, <1>3, <2>2, <2>3
  <1> QED
    BY <1>4, <1>5, <1>6, <1>7, <1>8, <1>9

\* The uniforms are those in us, and the next material has the ones in S.
TakenOver(us, p, v, S) ==
  /\ uniforms' \in Seq(UniformType) /\ DOMAIN uniforms' = DOMAIN us
  /\ \A u \in DOMAIN us :
       /\ uniforms'[u].program = us[u].program /\ uniforms'[u].version = us[u].version
       /\ uniforms'[u].location = us[u].location
       /\ uniforms'[u].elements = us[u].elements
       /\ uniforms'[u].material = IF u \in S THEN Len(materials) + 1 ELSE us[u].material
  /\ materials' \in Seq(MaterialType)
  /\ DOMAIN materials' = DOMAIN materials \union {Len(materials) + 1}
  /\ Len(materials) + 1 \in Nat \ {0}
  /\ \A m \in DOMAIN materials : materials'[m] = materials[m] /\ m < Len(materials) + 1
  /\ materials'[Len(materials) + 1] = [program |-> p, version |-> v, uniforms |-> S]
  /\ alive' = alive \union {Len(materials) + 1}

\* The new material takes over the uniforms in S, which are of its program and
\* version: what was said of the uniforms in us before still holds.
LEMMA MaterialConstructed ==
  ASSUME MaterialsAssumption, TypeOK,
         NEW us \in Seq(UniformType), NEW p \in Programs, NEW v \in Nat,
         NEW S, S \subseteq DOMAIN us, Construct(us, p, v, S)
  PROVE  TakenOver(us, p, v, S)
  <1> DEFINE next == Len(materials) + 1
             new == [program |-> p, version |-> v, uniforms |-> S]
  <1>1. /\ materials \in Seq(MaterialType) /\ Len(materials) \in Nat
        /\ DOMAIN materials = 1 .. Len(materials)
    BY DEF TypeOK
  <1>2. /\ uniforms' = [u \in DOMAIN us |->
                          IF u \in S THEN [us[u] EXCEPT !.material = next] ELSE us[u]]
        /\ materials' = Append(materials, new)
        /\ alive' = alive \union {next}
    BY DEF Construct, AddMaterial
  <1>3. DOMAIN us = 1 .. Len(us) /\ Len(us) \in Nat
    OBVIOUS
  <1>4. new \in MaterialType
    BY <1>3 DEF MaterialType
  <1>5. next \in Nat \ {0}
    BY <1>1
  <1> HIDE DEF next, new
  <1>6. ASSUME NEW u \in DOMAIN us
        PROVE  /\ uniforms'[u] \in UniformType
               /\ uniforms'[u].program = us[u].program /\ uniforms'[u].version = us[u].version
               /\ uniforms'[u].location = us[u].location
               /\ uniforms'[u].elements = us[u].elements
               /\ uniforms'[u].material = IF u \in S THEN next ELSE us[u].material
    <2>1. us[u] \in UniformType
      OBVIOUS
    <2>2. CASE u \in S
      BY <1>2, <1>5, <2>1, <2>2 DEF UniformType
    <2>3. CASE u \notin S
      BY <1>2, <2>1, <2>3 DEF UniformType
    <2> QED
      BY <2>2, <2>3
  <1>7. DOMAIN uniforms' = 1 .. Len(us)
    BY <1>2, <1>3
  <1>8. uniforms' \in [1 .. Len(us) -> UniformType]
    BY <1>2, <1>3, <1>6, <1>7
  <1>9. uniforms' \in Seq(UniformType)
    BY <1>3, <1>8 DEF Seq
  <1>10. /\ materials' \in Seq(MaterialType) /\ DOMAIN materials' = 1 .. next
         /\ \A m \in DOMAIN materials : materials'[m] = materials[m] /\ m < next
         /\ materials'[next] = new
    BY <1>1, <1>2, <1>4 DEF next
  <1>11. DOMAIN materials' = DOMAIN materials \union {next}
    BY <1>1, <1>10 DEF next
  <1> QED
    BY <1>2, <1>3, <1>5, <1>6, <1>7, <1>9, <1>10, <1>11 DEF next, new, TakenOver
\* A new material that takes over the uniforms in S, some of them new, is the
\* newest that they have.
LEMMA NewestHandedOver ==
  ASSUME TypeOK, Versioned, NewestNamed,
         NEW p, NEW v, NEW next, next \in Nat \ {0},
         NEW S, S \subseteq DOMAIN uniforms',
         DOMAIN uniforms \subseteq DOMAIN uniforms',
         \A u \in DOMAIN uniforms :
           /\ uniforms'[u].program = uniforms[u].program
           /\ uniforms'[u].version = uniforms[u].version
           /\ uniforms'[u].material = IF u \in S THEN next ELSE uniforms[u].material,
         \A u \in DOMAIN uniforms' \ DOMAIN uniforms :
           u \in S /\ uniforms'[u].material = next,
         \A u \in S : uniforms'[u].program = p /\ uniforms'[u].version = v,
         DOMAIN materials' = DOMAIN materials \union {next},
         \A m \in DOMAIN materials : materials'[m] = materials[m] /\ m < next,
         materials'[next] = [program |-> p, version |-> v, uniforms |-> S],
         UNCHANGED <<dirty, wasSet>>
  PROVE  NewestNamed'
  <1>1. ASSUME NEW u \in DOMAIN uniforms', u \in S
        PROVE  /\ uniforms'[u].material = next
               /\ uniforms'[u].program = p /\ uniforms'[u].version = v
               /\ \A k \in DOMAIN materials' : k <= next
    BY <1>1, FieldTypes
  <1>2. ASSUME NEW u \in DOMAIN uniforms', u \notin S
        PROVE  LET m == uniforms'[u].material
               IN  /\ m # None => /\ m \in DOMAIN materials' /\ u \in materials'[m].uniforms
                                  /\ materials'[m].program = uniforms'[u].program
                                  /\ materials'[m].version = uniforms'[u].version
                   /\ \A k \in DOMAIN materials' : u \in materials'[k].uniforms => k <= m
    BY <1>2, FieldTypes DEF NewestNamed
  <1>3. ASSUME NEW u \in dirty \union wasSet
        PROVE  uniforms'[u].material # None
    BY <1>3 DEF NewestNamed, None, TypeOK
  <1>4. /\ materials'[next].program = p /\ materials'[next].version = v
        /\ materials'[next].uniforms = S
    OBVIOUS
  <1>5. ASSUME NEW u \in DOMAIN uniforms'
        PROVE  LET m == uniforms'[u].material
               IN  /\ m # None => /\ m \in DOMAIN materials' /\ u \in materials'[m].uniforms
                                  /\ materials'[m].program = uniforms'[u].program
                                  /\ materials'[m].version = uniforms'[u].version
                   /\ \A k \in DOMAIN materials' : u \in materials'[k].uniforms => k <= m
    BY <1>1, <1>2, <1>4
  <1> QED
    BY <1>3, <1>5 DEF NewestNamed

\* create_material hands the uniforms of version 0 to the new material.
LEMMA CreateKeeps ==
  ASSUME MaterialsAssumption, MaterialsInv, NEW p \in 1 .. count, CreateMaterial(p)
  PROVE  MaterialsInv'
  <1> DEFINE next == Len(materials) + 1
             S == UniformsOf(p, 0)
  <1> USE DEF MaterialsInv
  <1>1. Construct(uniforms, p, 0, S)
    BY DEF CreateMaterial
  <1>2. /\ S \subseteq DOMAIN uniforms /\ p \in Programs /\ p <= count
        /\ \A u \in S : uniforms[u].program = p /\ uniforms[u].version = 0
    BY DEF UniformsOf, Programs, TypeOK, MaterialsAssumption
  <1> HIDE DEF S
  <1>3. /\ uniforms' \in Seq(UniformType) /\ DOMAIN uniforms' = DOMAIN uniforms
        /\ \A u \in DOMAIN uniforms :
             /\ uniforms'[u].program = uniforms[u].program
             /\ uniforms'[u].version = uniforms[u].version
             /\ uniforms'[u].location = uniforms[u].location
             /\ uniforms'[u].elements = uniforms[u].elements
             /\ uniforms'[u].material = IF u \in S THEN next ELSE uniforms[u].material
        /\ materials' \in Seq(MaterialType)
        /\ DOMAIN materials' = DOMAIN materials \union {next}
        /\ next \in Nat \ {0}
        /\ \A m \in DOMAIN materials : materials'[m] = materials[m] /\ m < next
        /\ materials'[next] = [program |-> p, version |-> 0, uniforms |-> S]
        /\ alive' = alive \union {next}
    <2>1. uniforms \in Seq(UniformType)
      BY DEF TypeOK
    <2>2. TakenOver(uniforms, p, 0, S)
      BY <1>1, <1>2, <2>1, MaterialConstructed
    <2> QED
      BY <2>2 DEF TakenOver
  <1> HIDE DEF next
  <1>4. UNCHANGED <<shaders, count, versions, dirty, gl, wasSet, overwritten, replaced>>
    BY DEF CreateMaterial, storage, history
  <1>5. TypeOK'
    BY <1>3, <1>4 DEF TypeOK
  <1>6. Versioned'
    <2>1. ASSUME NEW u \in DOMAIN uniforms'
          PROVE  /\ uniforms'[u].program <= count'
                 /\ uniforms'[u].version <= versions'[uniforms'[u].program]
      BY <1>3, <1>4 DEF Versioned
    <2>2. ASSUME NEW m \in DOMAIN materials
          PROVE  /\ materials'[m].program <= count'
                 /\ materials'[m].version <= versions'[materials'[m].program]
                 /\ materials'[m].uniforms \subseteq DOMAIN uniforms'
                 /\ \A u \in materials'[m].uniforms :
                      /\ uniforms'[u].program = materials'[m].program
                      /\ uniforms'[u].version = materials'[m].version
      BY <1>3, <1>4 DEF Versioned
    <2>3. /\ materials'[next].program <= count'
          /\ materials'[next].version <= versions'[materials'[next].program]
          /\ materials'[next].uniforms \subseteq DOMAIN uniforms'
          /\ \A u \in materials'[next].uniforms :
               /\ uniforms'[u].program = materials'[next].program
               /\ uniforms'[u].version = materials'[next].version
      <3>1. /\ materials'[next].program = p /\ materials'[next].version = 0
            /\ materials'[next].uniforms = S
        BY <1>3
      <3> QED
        <4>1. versions[p] \in Nat
          BY <1>2 DEF TypeOK
        <4> QED
          BY <1>2, <1>3, <1>4, <3>1, <4>1
    <2> QED
      BY <1>3, <2>1, <2>2, <2>3 DEF Versioned
  <1>7. NewestNamed'
    BY <1>2, <1>3, <1>4, NewestHandedOver
  <1>8. VersionsApart'
    BY <1>3 DEF VersionsApart
  <1>9. CleanIsPushed'
    BY <1>3, <1>4 DEF CleanIsPushed, TypeOK
  <1>10. NoProgramLost'
    BY <1>4 DEF NoProgramLost
  <1> QED
    BY <1>5, <1>6, <1>7, <1>8, <1>9, <1>10
\* The uniforms in us are those there were and, after them, n clones for version
\* v of the uniforms in S, in the order of originals.
ClonesAppended(us, originals, v, S, n) ==
  /\ us \in Seq(UniformType)
  /\ DOMAIN uniforms \subseteq DOMAIN us
  /\ \A u \in DOMAIN uniforms : us[u] = uniforms[u]
  /\ DOMAIN us \ DOMAIN uniforms = (Len(uniforms) + 1) .. (Len(uniforms) + n)
  /\ \A u \in DOMAIN us \ DOMAIN uniforms :
       \E o \in S :
         /\ originals[u - Len(uniforms)] = o
         /\ us[u].program = uniforms[o].program /\ us[u].version = v
         /\ us[u].location = uniforms[o].location
  /\ \A u, w \in DOMAIN us \ DOMAIN uniforms :
       originals[u - Len(uniforms)] = originals[w - Len(uniforms)] => u = w

\* A clone is of another version and names no material yet.
LEMMA CloneType ==
  ASSUME TypeOK, NEW u \in DOMAIN uniforms, NEW v \in Nat
  PROVE  /\ Clone(u, v) \in UniformType
         /\ Clone(u, v).program = uniforms[u].program /\ Clone(u, v).version = v
         /\ Clone(u, v).location = uniforms[u].location
  <1> DEFINE r == uniforms[u]
             c1 == [r EXCEPT !.version = v]
             c == [c1 EXCEPT !.material = None]
  <1>1. r \in UniformType
    BY FieldTypes
  <1> HIDE DEF r
  <1>2. /\ c1 \in UniformType
        /\ c1.program = r.program /\ c1.version = v /\ c1.location = r.location
    BY <1>1 DEF UniformType
  <1>3. Clone(u, v) = c
    BY DEF Clone, r
  <1> HIDE DEF c1
  <1>4. /\ c \in UniformType
        /\ c.program = c1.program /\ c.version = c1.version /\ c.location = c1.location
    BY <1>2 DEF UniformType, None
  <1> QED
    BY <1>2, <1>3, <1>4 DEF r

\* The clones of the uniforms in S: each has a place after all the others.
LEMMA UniformsCloned ==
  ASSUME TypeOK, NEW v \in Nat, NEW S, S \subseteq DOMAIN uniforms,
         NEW originals \in Orders(S), NEW clones,
         clones = [i \in DOMAIN originals |-> Clone(originals[i], v)]
  PROVE  ClonesAppended(uniforms \o clones, originals, v, S, Len(clones))
  <1> DEFINE n == Cardinality(S)
             us == uniforms \o clones
  <1>1. n \in Nat
    <2>1. IsFiniteSet(DOMAIN uniforms)
      BY FieldTypes, FS_Interval
    <2> QED
      BY <2>1, FS_Subset, FS_CardinalityType
  <1>2. /\ originals \in [1 .. n -> S]
        /\ \A i, j \in 1 .. n : originals[i] = originals[j] => i = j
    BY DEF Orders, Bijection, Injection, IsInjective
  <1> HIDE DEF n
  <1>3. ASSUME NEW i \in 1 .. n
        PROVE  /\ clones[i] \in UniformType
               /\ clones[i].program = uniforms[originals[i]].program
               /\ clones[i].version = v
               /\ clones[i].location = uniforms[originals[i]].location
    <2>1. originals[i] \in DOMAIN uniforms /\ clones[i] = Clone(originals[i], v)
      BY <1>2
    <2> QED
      BY <2>1, CloneType
  <1>4. clones \in [1 .. n -> UniformType]
    BY <1>2, <1>3
  <1>5. clones \in Seq(UniformType) /\ Len(clones) = n
    BY <1>1, <1>4 DEF Seq
  <1>6. uniforms \in Seq(UniformType)
    BY DEF TypeOK
  <1>7. /\ us \in Seq(UniformType)
        /\ DOMAIN us = 1 .. Len(uniforms) + n
        /\ DOMAIN uniforms = 1 .. Len(uniforms) /\ Len(uniforms) \in Nat
        /\ \A u \in DOMAIN uniforms : us[u] = uniforms[u]
        /\ \A u \in (Len(uniforms) + 1) .. (Len(uniforms) + n) :
             u - Len(uniforms) \in 1 .. n /\ us[u] = clones[u - Len(uniforms)]
    BY <1>1, <1>4, <1>6, Appended
  <1> HIDE DEF us
  <1>8. DOMAIN us \ DOMAIN uniforms = (Len(uniforms) + 1) .. (Len(uniforms) + n)
    BY <1>1, <1>7
  <1>9. ASSUME NEW u \in DOMAIN us \ DOMAIN uniforms
        PROVE  \E o \in S :
                 /\ originals[u - Len(uniforms)] = o
                 /\ us[u].program = uniforms[o].program /\ us[u].version = v
                 /\ us[u].location = uniforms[o].location
    BY <1>2, <1>3, <1>7, <1>8
  <1>10. ASSUME NEW u \in DOMAIN us \ DOMAIN uniforms, NEW w \in DOMAIN us \ DOMAIN uniforms,
                originals[u - Len(uniforms)] = originals[w - Len(uniforms)]
         PROVE  u = w
    <2>1. /\ u - Len(uniforms) \in 1 .. n /\ w - Len(uniforms) \in 1 .. n
          /\ u \in Int /\ w \in Int
      BY <1>1, <1>7, <1>8
    <2>2. u - Len(uniforms) = w - Len(uniforms)
      BY <1>2, <1>10, <2>1
    <2> QED
      BY <1>7, <2>1, <2>2
  <1>11. DOMAIN uniforms \subseteq DOMAIN us
    BY <1>1, <1>7
  <1> QED
    BY <1>5, <1>7, <1>8, <1>9, <1>10, <1>11 DEF us, ClonesAppended

\* clone_material makes a version that nothing was of before, with a uniform for
\* each that the cloned one's version has.
LEMMA CloneKeeps ==
  ASSUME MaterialsAssumption, MaterialsInv, NEW m \in DOMAIN materials, CloneMaterial(m)
  PROVE  MaterialsInv'
  <1> DEFINE next == Len(materials) + 1
             p == materials[m].program
             v == versions[p] + 1
             O == UniformsOf(p, materials[m].version)
  <1> USE DEF MaterialsInv
  <1>1. /\ versions' = [versions EXCEPT ![p] = v]
        /\ UNCHANGED <<shaders, count, dirty, gl, wasSet, overwritten, replaced>>
    BY DEF CloneMaterial, NextVersion, history
  <1>2. PICK originals \in Orders(O) :
          LET clones == [i \in DOMAIN originals |-> Clone(originals[i], v)]
          IN  Construct(uniforms \o clones, p, v,
                        Len(uniforms) + 1 .. Len(uniforms) + Len(clones))
    BY DEF CloneMaterial, NextVersion
  <1> DEFINE clones == [i \in DOMAIN originals |-> Clone(originals[i], v)]
             us == uniforms \o clones
             S == Len(uniforms) + 1 .. Len(uniforms) + Len(clones)
  <1>3. Construct(us, p, v, S)
    BY <1>2
  <1>4. /\ p \in Programs /\ p <= count /\ v \in Nat /\ versions[p] \in Nat /\ versions[p] < v
        /\ versions' \in [Programs -> Nat] /\ versions'[p] = v
        /\ \A q \in Programs : q # p => versions'[q] = versions[q]
        /\ \A q \in Programs : versions[q] \in Nat /\ versions[q] <= versions'[q]
    <2>1. p \in Programs /\ p <= count
      BY FieldTypes DEF Versioned
    <2>2. versions \in [Programs -> Nat]
      BY DEF TypeOK
    <2> HIDE DEF p
    <2> QED
      BY <1>1, <2>1, <2>2
  <1>5. /\ O \subseteq DOMAIN uniforms
        /\ \A o \in O : uniforms[o].program = p
        /\ \A o, q \in O : uniforms[o].location = uniforms[q].location => o = q
    BY DEF UniformsOf, VersionsApart
  <1> HIDE DEF O
  <1>6. /\ us \in Seq(UniformType)
        /\ DOMAIN uniforms \subseteq DOMAIN us
        /\ \A u \in DOMAIN uniforms : us[u] = uniforms[u]
        /\ DOMAIN us \ DOMAIN uniforms = S
        /\ \A u \in S :
             \E o \in O :
               /\ originals[u - Len(uniforms)] = o
               /\ us[u].program = uniforms[o].program /\ us[u].version = v
               /\ us[u].location = uniforms[o].location
        /\ \A u, w \in S :
             originals[u - Len(uniforms)] = originals[w - Len(uniforms)] => u = w
    <2> HIDE DEF p, v
    <2>1. ClonesAppended(us, originals, v, O, Len(clones))
      BY <1>4, <1>5, UniformsCloned
    <2> QED
      BY <2>1 DEF ClonesAppended
  <1> HIDE DEF p, v, clones, us, S
  <1>7. S \subseteq DOMAIN us
    BY <1>6
  <1>8. /\ uniforms' \in Seq(UniformType) /\ DOMAIN uniforms' = DOMAIN us
        /\ \A u \in DOMAIN us :
             /\ uniforms'[u].program = us[u].program
             /\ uniforms'[u].version = us[u].version
             /\ uniforms'[u].location = us[u].location
             /\ uniforms'[u].elements = us[u].elements
             /\ uniforms'[u].material = IF u \in S THEN next ELSE us[u].material
        /\ materials' \in Seq(MaterialType)
        /\ DOMAIN materials' = DOMAIN materials \union {next}
        /\ next \in Nat \ {0}
        /\ \A k \in DOMAIN materials : materials'[k] = materials[k] /\ k < next
        /\ materials'[next] = [program |-> p, version |-> v, uniforms |-> S]
        /\ alive' = alive \union {next}
    <2>1. TakenOver(us, p, v, S)
      BY <1>3, <1>4, <1>6, <1>7, MaterialConstructed
    <2> QED
      BY <2>1 DEF TakenOver, next
  <1> HIDE DEF next
  <1>9. /\ \A u \in DOMAIN uniforms : u \notin S
        /\ \A u \in S : uniforms'[u].program = p /\ uniforms'[u].version = v
        /\ \A u \in DOMAIN uniforms :
             /\ uniforms'[u].program = uniforms[u].program
             /\ uniforms'[u].version = uniforms[u].version
             /\ uniforms'[u].location = uniforms[u].location
             /\ uniforms'[u].elements = uniforms[u].elements
             /\ uniforms'[u].material = uniforms[u].material
        /\ \A u \in DOMAIN uniforms' : u \in DOMAIN uniforms \/ u \in S
    <2>1. \A u \in DOMAIN uniforms : u \notin S
      BY <1>6
    <2>2. ASSUME NEW u \in S
          PROVE  uniforms'[u].program = p /\ uniforms'[u].version = v
      <3>1. PICK o \in O : us[u].program = uniforms[o].program /\ us[u].version = v
        BY <1>6
      <3> QED
        BY <1>5, <1>7, <1>8, <3>1
    <2>3. ASSUME NEW u \in DOMAIN uniforms
          PROVE  /\ uniforms'[u].program = uniforms[u].program
                 /\ uniforms'[u].version = uniforms[u].version
                 /\ uniforms'[u].location = uniforms[u].location
                 /\ uniforms'[u].elements = uniforms[u].elements
                 /\ uniforms'[u].material = uniforms[u].material
      BY <1>6, <1>8, <2>1
    <2>4. \A u \in DOMAIN uniforms' : u \in DOMAIN uniforms \/ u \in S
      BY <1>6, <1>8
    <2> QED
      BY <2>1, <2>2, <2>3, <2>4
  <1>10. TypeOK'
    BY <1>1, <1>4, <1>6, <1>8 DEF TypeOK
  <1>11. Versioned'
    <2>1. ASSUME NEW u \in DOMAIN uniforms'
          PROVE  /\ uniforms'[u].program <= count'
                 /\ uniforms'[u].version <= versions'[uniforms'[u].program]
      <3>1. CASE u \in S
        BY <1>1, <1>4, <1>9, <3>1
      <3>2. CASE u \in DOMAIN uniforms
        BY <1>1, <1>4, <1>9, <3>2, FieldTypes DEF Versioned
      <3> QED
        BY <1>9, <3>1, <3>2
    <2>2. ASSUME NEW k \in DOMAIN materials
          PROVE  /\ materials'[k].program <= count'
                 /\ materials'[k].version <= versions'[materials'[k].program]
                 /\ materials'[k].uniforms \subseteq DOMAIN uniforms'
                 /\ \A u \in materials'[k].uniforms :
                      /\ uniforms'[u].program = materials'[k].program
                      /\ uniforms'[u].version = materials'[k].version
      <3>1. materials'[k] = materials[k] /\ materials[k].program \in Programs
        BY <1>8, FieldTypes
      <3>2. /\ materials[k].program <= count
            /\ materials[k].version <= versions[materials[k].program]
            /\ materials[k].uniforms \subseteq DOMAIN uniforms
            /\ \A u \in materials[k].uniforms :
                 /\ uniforms[u].program = materials[k].program
                 /\ uniforms[u].version = materials[k].version
        BY DEF Versioned
      <3>3. materials'[k].version <= versions'[materials'[k].program]
        BY <1>4, <3>1, <3>2, FieldTypes
      <3> QED
        BY <1>1, <1>6, <1>8, <1>9, <3>1, <3>2, <3>3
    <2>3. /\ materials'[next].program <= count'
          /\ materials'[next].version <= versions'[materials'[next].program]
          /\ materials'[next].uniforms \subseteq DOMAIN uniforms'
          /\ \A u \in materials'[next].uniforms :
               /\ uniforms'[u].program = materials'[next].program
               /\ uniforms'[u].version = materials'[next].version
      <3>1. /\ materials'[next].program = p /\ materials'[next].version = v
            /\ materials'[next].uniforms = S
        BY <1>8
      <3> QED
        BY <1>1, <1>4, <1>7, <1>8, <1>9, <3>1
    <2> QED
      BY <1>8, <2>1, <2>2, <2>3 DEF Versioned
  <1>12. NewestNamed'
    <2>1. /\ S \subseteq DOMAIN uniforms' /\ DOMAIN uniforms \subseteq DOMAIN uniforms'
          /\ \A u \in DOMAIN uniforms :
               /\ uniforms'[u].program = uniforms[u].program
               /\ uniforms'[u].version = uniforms[u].version
               /\ uniforms'[u].material = IF u \in S THEN next ELSE uniforms[u].material
          /\ \A u \in DOMAIN uniforms' \ DOMAIN uniforms :
               u \in S /\ uniforms'[u].material = next
      BY <1>6, <1>7, <1>8, <1>9
    <2>2. UNCHANGED <<dirty, wasSet>>
      BY <1>1
    <2> QED
      BY <1>8, <1>9, <2>1, <2>2, NewestHandedOver
  <1>13. VersionsApart'
    <2> SUFFICES ASSUME NEW u \in DOMAIN uniforms', NEW w \in DOMAIN uniforms',
                        uniforms'[u].program = uniforms'[w].program,
                        uniforms'[u].version = uniforms'[w].version,
                        uniforms'[u].location = uniforms'[w].location
                 PROVE  u = w
      BY DEF VersionsApart
    <2>1. \A x \in DOMAIN uniforms : uniforms[x].program = p => uniforms[x].version < v
      BY <1>4, FieldTypes DEF Versioned
    <2>2. CASE u \in S /\ w \in S
      <3>1. PICK o \in O : /\ originals[u - Len(uniforms)] = o
                           /\ us[u].location = uniforms[o].location
        BY <1>6, <2>2
      <3>2. PICK q \in O : /\ originals[w - Len(uniforms)] = q
                           /\ us[w].location = uniforms[q].location
        BY <1>6, <2>2
      <3>3. uniforms[o].location = uniforms[q].location
        BY <1>7, <1>8, <2>2, <3>1, <3>2
      <3>4. o = q
        BY <1>5, <3>3
      <3> QED
        BY <1>6, <2>2, <3>1, <3>2, <3>4
    <2>3. CASE u \in DOMAIN uniforms /\ w \in DOMAIN uniforms
      BY <1>9, <2>3 DEF VersionsApart
    <2>4. CASE u \in S /\ w \in DOMAIN uniforms
      BY <1>4, <1>9, <2>1, <2>4, FieldTypes
    <2>5. CASE u \in DOMAIN uniforms /\ w \in S
      BY <1>4, <1>9, <2>1, <2>5, FieldTypes
    <2> QED
      BY <1>9, <2>2, <2>3, <2>4, <2>5
  <1>14. CleanIsPushed'
    BY <1>1, <1>9 DEF CleanIsPushed, TypeOK
  <1>15. NoProgramLost'
    BY <1>1 DEF NoProgramLost
  <1> QED
    BY <1>10, <1>11, <1>12, <1>13, <1>14, <1>15
\* Setting a uniform changes its value only.
LEMMA UniformSet ==
  ASSUME TypeOK, NEW u \in DOMAIN uniforms, NEW value \in Values, SetValue(u, value)
  PROVE  /\ uniforms' \in Seq(UniformType) /\ DOMAIN uniforms' = DOMAIN uniforms
         /\ \A w \in DOMAIN uniforms : w # u => uniforms'[w] = uniforms[w]
         /\ \A w \in DOMAIN uniforms :
              /\ uniforms'[w].program = uniforms[w].program
              /\ uniforms'[w].version = uniforms[w].version
              /\ uniforms'[w].location = uniforms[w].location
              /\ uniforms'[w].material = uniforms[w].material
  <1>1. uniforms[u] \in UniformType
    BY FieldTypes
  <1>2. [uniforms[u] EXCEPT !.elements = value] \in UniformType
    BY <1>1 DEF UniformType
  <1>3. uniforms' = [uniforms EXCEPT ![u] = [uniforms[u] EXCEPT !.elements = value]]
    BY DEF SetValue
  <1>4. uniforms \in Seq(UniformType)
    BY DEF TypeOK
  <1>5. uniforms' \in Seq(UniformType) /\ DOMAIN uniforms' = DOMAIN uniforms
    BY <1>2, <1>3, <1>4
  <1>6. \A w \in DOMAIN uniforms : w # u => uniforms'[w] = uniforms[w]
    BY DEF SetValue
  <1>7. /\ uniforms'[u].program = uniforms[u].program
        /\ uniforms'[u].version = uniforms[u].version
        /\ uniforms'[u].location = uniforms[u].location
        /\ uniforms'[u].material = uniforms[u].material
    BY <1>1, <1>3 DEF UniformType
  <1> QED
    BY <1>5, <1>6, <1>7

\* Setting a uniform files it as dirty: the GL may have its old value.
LEMMA SetKeeps ==
  ASSUME MaterialsAssumption, MaterialsInv, NEW u \in DOMAIN uniforms, NEW value \in Values,
         SetValue(u, value)
  PROVE  MaterialsInv'
  <1> USE DEF MaterialsInv
  <1>1. /\ uniforms[u].material # None
        /\ uniforms' = [uniforms EXCEPT ![u].elements = value]
        /\ dirty' = dirty \union {u} /\ wasSet' = wasSet \union {u}
        /\ UNCHANGED <<shaders, count, versions, materials, alive, gl, overwritten, replaced>>
    BY DEF SetValue, MarkDirty, storage
  <1>2. /\ uniforms' \in Seq(UniformType) /\ DOMAIN uniforms' = DOMAIN uniforms
        /\ \A w \in DOMAIN uniforms : w # u => uniforms'[w] = uniforms[w]
        /\ \A w \in DOMAIN uniforms :
             /\ uniforms'[w].program = uniforms[w].program
             /\ uniforms'[w].version = uniforms[w].version
             /\ uniforms'[w].location = uniforms[w].location
             /\ uniforms'[w].material = uniforms[w].material
    BY UniformSet DEF MaterialsInv
  <1>3. TypeOK'
    BY <1>1, <1>2 DEF TypeOK
  <1>4. Versioned'
    BY <1>1, <1>2 DEF Versioned
  <1>5. NewestNamed'
    BY <1>1, <1>2 DEF NewestNamed, TypeOK
  <1>6. VersionsApart'
    BY <1>2 DEF VersionsApart
  <1>7. CleanIsPushed'
    BY <1>1, <1>2 DEF CleanIsPushed, TypeOK
  <1>8. NoProgramLost'
    BY <1>1 DEF NoProgramLost
  <1> QED
    BY <1>3, <1>4, <1>5, <1>6, <1>7, <1>8

\* The dirty uniforms of a material are of its program and version, one for a
\* location, so push_uniforms leaves the value of each in the GL.
LEMMA DirtyPushed ==
  ASSUME MaterialsInv, NEW m \in DOMAIN materials, NEW values
  PROVE  /\ DirtyOf(m) \subseteq dirty
         /\ \A u \in DirtyOf(m) : /\ uniforms[u].program = materials[m].program
                                  /\ uniforms[u].version = materials[m].version
         /\ \A u \in DirtyOf(m) :
              Push(values, DirtyOf(m))[uniforms[u].location] = uniforms[u].elements
         /\ \A l \in Locations : (\A u \in DirtyOf(m) : uniforms[u].location # l) =>
              Push(values, DirtyOf(m))[l] = values[l]
  <1> USE DEF MaterialsInv
  <1>1. ASSUME NEW u \in DirtyOf(m)
        PROVE  /\ u \in dirty /\ u \in DOMAIN uniforms /\ u \in Nat
               /\ uniforms[u].program = materials[m].program
               /\ uniforms[u].version = materials[m].version
    BY FieldTypes DEF DirtyOf, NewestNamed, TypeOK
  <1>2. ASSUME NEW u \in DirtyOf(m)
        PROVE  Push(values, DirtyOf(m))[uniforms[u].location] = uniforms[u].elements
    <2> DEFINE l == uniforms[u].location
               at == {w \in DirtyOf(m) : uniforms[w].location = l}
    <2>1. at = {u}
      BY <1>1 DEF VersionsApart
    <2>2. Max({u}) = u
      BY <1>1 DEF Max
    <2>3. l \in Locations
      BY <1>1, FieldTypes
    <2> QED
      BY <2>1, <2>2, <2>3 DEF Push
  <1>3. ASSUME NEW l \in Locations, \A u \in DirtyOf(m) : uniforms[u].location # l
        PROVE  Push(values, DirtyOf(m))[l] = values[l]
    BY <1>3 DEF Push
  <1> QED
    BY <1>1, <1>2, <1>3

\* push_uniforms: what was dirty of this version is in the GL afterwards, and
\* what it wrote over belongs to another version.
LEMMA PushKeeps ==
  ASSUME MaterialsAssumption, MaterialsInv, NEW m \in DOMAIN materials, PushUniforms(m)
  PROVE  MaterialsInv'
  <1> USE DEF MaterialsInv
  <1> DEFINE p == materials[m].program
             D == DirtyOf(m)
             overwrites(u) == \E w \in D :
               /\ uniforms[u].location = uniforms[w].location
               /\ uniforms[u].program = p /\ uniforms[u].version # uniforms[w].version
  <1>1. /\ gl' = [gl EXCEPT ![p] = Push(gl[p], D)]
        /\ dirty' = dirty \ D
        /\ overwritten' = (overwritten \ D) \union {u \in DOMAIN uniforms : overwrites(u)}
        /\ UNCHANGED <<shaders, count, versions, uniforms, materials, alive, wasSet, replaced>>
    BY DEF PushUniforms, Pushed, storage
  <1>2. p \in Programs /\ gl \in [Programs -> [Locations -> Values]]
    BY FieldTypes DEF TypeOK
  <1>3. /\ D \subseteq dirty
        /\ \A u \in D : uniforms[u].program = p /\ uniforms[u].version = materials[m].version
        /\ \A u \in D : Push(gl[p], D)[uniforms[u].location] = uniforms[u].elements
        /\ \A l \in Locations : (\A u \in D : uniforms[u].location # l) =>
             Push(gl[p], D)[l] = gl[p][l]
    BY DirtyPushed
  <1> HIDE DEF D, p
  <1>4. Push(gl[p], D) \in [Locations -> Values]
    <2>1. ASSUME NEW l \in Locations
          PROVE  Push(gl[p], D)[l] \in Values
      <3>1. CASE \A u \in D : uniforms[u].location # l
        BY <1>2, <1>3, <3>1
      <3>2. ASSUME NEW u \in D, uniforms[u].location = l
            PROVE  Push(gl[p], D)[l] \in Values
        BY <1>3, <3>2, FieldTypes DEF TypeOK
      <3> QED
        BY <3>1, <3>2
    <2>2. Push(gl[p], D) = [l \in Locations |-> Push(gl[p], D)[l]]
      BY DEF Push
    <2> QED
      BY <2>1, <2>2
  <1>5. TypeOK'
    BY <1>1, <1>2, <1>4 DEF TypeOK
  <1>6. Versioned' /\ VersionsApart' /\ NoProgramLost'
    BY <1>1 DEF Versioned, VersionsApart, NoProgramLost
  <1>7. NewestNamed'
    BY <1>1 DEF NewestNamed
  <1>8. CleanIsPushed'
    <2> SUFFICES ASSUME NEW u \in wasSet, u \notin dirty', u \notin overwritten'
                 PROVE  gl'[uniforms[u].program][uniforms[u].location] = uniforms[u].elements
      BY <1>1 DEF CleanIsPushed
    <2>1. /\ u \in DOMAIN uniforms /\ uniforms[u].program \in Programs
          /\ uniforms[u].location \in Locations
      BY FieldTypes DEF TypeOK
    <2>2. CASE u \in D
      BY <1>1, <1>2, <1>3, <2>1, <2>2
    <2>3. CASE u \notin D /\ uniforms[u].program # p
      <3>1. u \notin dirty /\ u \notin overwritten
        BY <1>1, <2>3
      <3> QED
        BY <1>1, <1>2, <2>1, <2>3, <3>1 DEF CleanIsPushed
    <2>4. CASE u \notin D /\ uniforms[u].program = p
      <3>1. u \notin dirty /\ u \notin overwritten
        BY <1>1, <2>4
      <3>2. ASSUME NEW w \in D, uniforms[w].location = uniforms[u].location
            PROVE  FALSE
        <4>1. w \in DOMAIN uniforms
          BY <1>3 DEF TypeOK
        <4>2. CASE uniforms[w].version = uniforms[u].version
          BY <1>3, <2>1, <2>4, <3>2, <4>1, <4>2 DEF VersionsApart
        <4>3. CASE uniforms[w].version # uniforms[u].version
          BY <1>1, <2>1, <2>4, <3>2, <4>3
        <4> QED
          BY <4>2, <4>3
      <3>3. gl'[p][uniforms[u].location] = gl[p][uniforms[u].location]
        BY <1>1, <1>2, <1>3, <2>1, <3>2
      <3> QED
        BY <2>4, <3>1, <3>3 DEF CleanIsPushed
    <2> QED
      BY <2>2, <2>3, <2>4
  <1> QED
    BY <1>5, <1>6, <1>7, <1>8

\* Binding, unbinding and the end of a material change none of it.
LEMMA OthersKeep ==
  ASSUME MaterialsInv,
         UNCHANGED <<storage, uniforms, dirty, materials, gl, history>>,
         alive' \subseteq alive
  PROVE  MaterialsInv'
  BY DEF MaterialsInv, TypeOK, Versioned, NewestNamed, VersionsApart, CleanIsPushed,
         NoProgramLost, storage, history

\* Every call on the materials keeps the invariant.
LEMMA MaterialsStep ==
  ASSUME MaterialsAssumption, MaterialsInv, [Next]_vars
  PROVE  MaterialsInv'
  <1>1. ASSUME NEW n \in Names, CreateShaderFromSource(n) \/ CreateShader(n)
        PROVE  MaterialsInv'
    BY <1>1, ShaderKeeps DEF CreateShader
  <1>2. ASSUME NEW p \in 1 .. count, CreateMaterial(p)
        PROVE  MaterialsInv'
    BY <1>2, CreateKeeps
  <1>3. ASSUME NEW u \in DOMAIN uniforms, NEW value \in Values, SetValue(u, value)
        PROVE  MaterialsInv'
    BY <1>3, SetKeeps
  <1>4. ASSUME NEW m \in alive, CloneMaterial(m)
        PROVE  MaterialsInv'
    BY <1>4, CloneKeeps DEF MaterialsInv, TypeOK
  <1>5. ASSUME NEW m \in alive, PushUniforms(m)
        PROVE  MaterialsInv'
    BY <1>5, PushKeeps DEF MaterialsInv, TypeOK
  <1>6. ASSUME NEW m \in alive, DestroyMaterial(m) \/ Unbind(m)
        PROVE  MaterialsInv'
    <2>1. /\ UNCHANGED <<storage, uniforms, dirty, materials, gl, history>>
          /\ alive' \subseteq alive
      BY <1>6 DEF DestroyMaterial, Unbind
    <2> QED
      BY <2>1, OthersKeep
  <1>7. CASE UNCHANGED vars
    <2>1. /\ UNCHANGED <<storage, uniforms, dirty, materials, gl, history>>
          /\ alive' \subseteq alive
      BY <1>7 DEF vars
    <2> QED
      BY <2>1, OthersKeep
  <1> QED
    BY <1>1, <1>2, <1>3, <1>4, <1>5, <1>6, <1>7 DEF Next

----------------------------------------------------------------------------
\* However materials are created, cloned, destroyed, set and pushed, a uniform
\* that was set and is not filed as dirty has its value in the GL, unless a
\* material of another version has written the location since.
THEOREM CleanUniformsPushed ==
  ASSUME MaterialsAssumption
  PROVE  Spec => []CleanIsPushed
  <1>1. Init => MaterialsInv
    BY NothingMade
  <1>2. MaterialsInv /\ [Next]_vars => MaterialsInv'
    BY MaterialsStep
  <1>3. MaterialsInv => CleanIsPushed
    BY DEF MaterialsInv
  <1> QED
    BY <1>1, <1>2, <1>3, PTL DEF Spec

\* A version of a program has one uniform for a location, the uniforms of the
\* newest material of a version are not marked dirty through a destroyed one,
\* and every program is found by a name or was replaced.
THEOREM VersionsKept ==
  ASSUME MaterialsAssumption
  PROVE  Spec => [](VersionsApart /\ NewestKeepsUniforms /\ NoProgramLost)
  <1>1. Init => MaterialsInv
    BY NothingMade
  <1>2. MaterialsInv /\ [Next]_vars => MaterialsInv'
    BY MaterialsStep
  <1>3. MaterialsInv => VersionsApart /\ NewestKeepsUniforms /\ NoProgramLost
    <2> SUFFICES ASSUME MaterialsInv
                 PROVE  NewestKeepsUniforms
      BY DEF MaterialsInv
    <2> SUFFICES ASSUME NEW u \in DOMAIN uniforms,
                        {m \in DOMAIN materials : u \in materials[m].uniforms} # {},
                        Max({m \in DOMAIN materials : u \in materials[m].uniforms}) \in alive
                 PROVE  uniforms[u].material \in alive
      BY DEF NewestKeepsUniforms
    <2> DEFINE users == {m \in DOMAIN materials : u \in materials[m].uniforms}
               newest == uniforms[u].material
    <2>1. newest \in Nat /\ \A k \in users : k \in Nat \ {0} /\ k <= newest
      BY FieldTypes DEF MaterialsInv, NewestNamed
    <2>2. newest # None
      BY <2>1 DEF None
    <2>3. newest \in users
      BY <2>2 DEF MaterialsInv, NewestNamed
    <2>4. Max(users) = newest
      <3> HIDE DEF users, newest
      <3>1. \A k \in users : newest >= k
        BY <2>1
      <3>2. \A k \in users : (\A j \in users : k >= j) => k = newest
        BY <2>1, <2>3
      <3> QED
        BY <2>3, <3>1, <3>2 DEF Max
    <2> QED
      BY <2>4
  <1> QED
    BY <1>1, <1>2, <1>3, PTL DEF Spec
=============================================================================
