---------------------------- MODULE VertexLayout ----------------------------
(***************************************************************************)
(* How src/include/array_object.h lays the attributes of src/include/      *)
(* attribute.h out in a vertex buffer: add_vertex_buffer is called with    *)
(* attributes and gaps, in the order in which they lie in a vertex, and    *)
(* points the locations of a vertex array at them.                         *)
(***************************************************************************)
EXTENDS Integers, Sequences

CONSTANTS
  Layouts,   \* the sequences of attributes and gaps that clients pass
  Buffers,   \* vertex buffers
  Offsets,   \* where the vertices begin in a buffer
  MaxCalls   \* bound on the calls of add_vertex_buffer

VARIABLES
  pointers,  \* GL: the attribute pointer of each location that is enabled
  array,     \* GL_ARRAY_BUFFER_BINDING
  calls      \* history: the calls of add_vertex_buffer: buffer, offset, layout

vars == <<pointers, array, calls>>

----------------------------------------------------------------------------
(* Attributes: location, scalar type of the shader, type of the data in    *)
(* the buffer, components, and whether they are normalized.                *)

IntegralTypes == {"byte", "short", "int"}   \* and their unsigned forms
FloatTypes    == IntegralTypes \union {"half", "float", "double"}

DataTypes(scalar) ==
  IF scalar = "float" THEN FloatTypes
  ELSE IF scalar = "double" THEN {"double"} ELSE IntegralTypes

\* DataOption of int, unsigned int and double has no Normalized.
IsAttribute(e) ==
  /\ e.kind = "attribute"
  /\ e.scalar \in {"float", "int", "double"}
  /\ e.type \in DataTypes(e.scalar)
  /\ e.components \in 1 .. 4
  /\ e.normalized => e.scalar = "float"

IsGap(e) == e.kind = "gap" /\ e.size \in Nat

LayoutsAssumption ==
  /\ Offsets \subseteq Nat
  /\ \A layout \in Layouts :
       /\ layout \in Seq({layout[i] : i \in DOMAIN layout})
       /\ \A i \in DOMAIN layout : IsAttribute(layout[i]) \/ IsGap(layout[i])

BytesOf(type) ==
  CASE type = "byte" -> 1
    [] type \in {"short", "half"} -> 2
    [] type \in {"int", "float"} -> 4
    [] type = "double" -> 8

\* Mutation: the size of the scalar type of the shader.
SizeOfScalar(e) ==
  IF e.kind = "gap" THEN e.size ELSE e.components * BytesOf(e.scalar)

\* attribute_traits::size
Size(e) == IF e.kind = "gap" THEN e.size ELSE e.components * BytesOf(e.type)

\* AttributeKind of add_vertex_attribute, by the scalar type.
AttributeKind(e) ==
  CASE e.scalar = "float" -> IF e.normalized THEN "GenericNormalized" ELSE "Generic"
    [] e.scalar = "int" -> "Integral"
    [] e.scalar = "double" -> "Double"

\* How far add_vertex_buffer_internal has moved the offset when it comes to
\* element i, and at the index after the last one, stride_of_interleaved.
Begins(layout) ==
  LET at[i \in 1 .. Len(layout) + 1] ==
        IF i = 1 THEN 0 ELSE at[i - 1] + Size(layout[i - 1])
  IN  at

Stride(layout) == Begins(layout)[Len(layout) + 1]

AttributesOf(layout) == {i \in DOMAIN layout : layout[i].kind = "attribute"}

\* The locations of a layout, and its last attribute for one of them.
Given(layout) == {layout[i].location : i \in AttributesOf(layout)}

LastOf(layout, l) ==
  CHOOSE i \in AttributesOf(layout) :
    /\ layout[i].location = l
    /\ \A j \in AttributesOf(layout) : layout[j].location = l => j <= i

\* attribute_pointer for attribute i of a call.
Pointer(c, i) ==
  [buffer |-> c.buffer, components |-> c.layout[i].components, type |-> c.layout[i].type,
   kind |-> AttributeKind(c.layout[i]), stride |-> Stride(c.layout),
   offset |-> c.offset + Begins(c.layout)[i]]

----------------------------------------------------------------------------
Init ==
  /\ pointers = <<>>
  /\ array = 0
  /\ calls = <<>>

\* add_vertex_buffer: attribute_pointer for each attribute, in order, with the
\* buffer bound; a location that comes again gets the later pointer.
AddVertexBuffer(buffer, offset, layout) ==
  /\ Len(calls) < MaxCalls
  /\ LET c == [buffer |-> buffer, offset |-> offset, layout |-> layout]
     IN  /\ pointers' = [l \in Given(layout) \union DOMAIN pointers |->
              IF l \in Given(layout) THEN Pointer(c, LastOf(layout, l)) ELSE pointers[l]]
         /\ calls' = Append(calls, c)
  /\ array' = IF AttributesOf(layout) = {} THEN array ELSE buffer

Next == \E b \in Buffers, o \in Offsets, layout \in Layouts : AddVertexBuffer(b, o, layout)

Spec == Init /\ [][Next]_vars

----------------------------------------------------------------------------
\* The bytes that the GL reads through pointer p for vertex n.
Bytes(p, n) ==
  p.offset + n * p.stride .. p.offset + n * p.stride + p.components * BytesOf(p.type) - 1

\* The room that an element takes in a vertex, and where the bytes of element i
\* of vertex n are that the client put behind one another.
Room(e) == IF e.kind = "gap" THEN e.size ELSE e.components * BytesOf(e.type)
RoomOf(layout) ==
  LET sum[k \in 0 .. Len(layout)] == IF k = 0 THEN 0 ELSE sum[k - 1] + Room(layout[k])
  IN  sum

Placed(c, i, n) ==
  LET at == c.offset + n * RoomOf(c.layout)[Len(c.layout)] + RoomOf(c.layout)[i - 1]
  IN  at .. at + Room(c.layout[i]) - 1

\* The attributes of one call never read each other's bytes, neither of the
\* same vertex nor of the next: gaps and sizes go into stride and offsets alike.
AttributesApart ==
  calls # <<>> =>
    LET layout == calls[Len(calls)].layout
    IN  (\A i, j \in AttributesOf(layout) : i # j => layout[i].location # layout[j].location)
          => \A l, k \in Given(layout), n \in 0 .. 1 :
               l # k \/ n # 0 => Bytes(pointers[l], 0) \intersect Bytes(pointers[k], n) = {}

\* Every location reads the data of the last call that named it, whatever calls
\* for other buffers came after.
LastCallRead ==
  \A l \in DOMAIN pointers :
    LET naming == {k \in DOMAIN calls : l \in Given(calls[k].layout)}
        c == calls[CHOOSE k \in naming : \A j \in naming : j <= k]
    IN  /\ pointers[l].buffer = c.buffer
        /\ \E i \in AttributesOf(c.layout) :
             /\ c.layout[i].location = l
             /\ \A n \in 0 .. 1 : Bytes(pointers[l], n) = Placed(c, i, n)
             /\ pointers[l].kind = "Integral" <=> c.layout[i].scalar = "int"
=============================================================================
