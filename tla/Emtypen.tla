------------------------------ MODULE Emtypen ------------------------------
(***************************************************************************)
(* The generator of erased types, src/type_erasure/emtypen/emtypen.cpp: it *)
(* visits the syntax tree of an archetype file, which libclang makes, and  *)
(* prints a form filled with the members of each archetype.  The tree is   *)
(* given by its cursors in the order of the visit, 1 to the number of      *)
(* them, each with its kind and its parent; 0 is the translation unit.     *)
(* What is printed is the list of structs, each with the namespaces that   *)
(* are open around it and its member functions; a token is its class.      *)
(***************************************************************************)
EXTENDS Naturals, Sequences, FiniteSetsExt, SequencesExt

CONSTANTS
  MaxCursors,  \* bound on the cursors of a file
  MaxTokens    \* bound on the tokens of a member function

EmtypenAssumption == MaxCursors \in Nat /\ MaxTokens \in Nat

VARIABLES
  file,     \* the cursors: their kind, parent and whether in the main file
  next,     \* the cursor that is visited next
  recurse,  \* the cursors whose visit returned CXChildVisit_Recurse
  current_namespaces,
  current_struct,    \* 0 for the null cursor
  member_functions,
  printed,  \* the structs printed: cursor, open namespaces and members
  phase     \* "visit" or "terminated"

data == <<recurse, current_namespaces, current_struct, member_functions>>
vars == <<file, next, data, printed, phase>>

Kinds == {"namespace", "struct", "method", "other"}

Parent(n) == file[n].parent
Kind(n)   == IF n = 0 THEN "unit" ELSE file[n].kind

\* The cursors that enclose n, itself included, from the inside out.
Enclosing(f, n) ==
  LET up[k \in 0 .. Len(f)] ==
        IF k = 0 THEN n ELSE IF up[k - 1] = 0 THEN 0 ELSE f[up[k - 1]].parent
  IN  {up[k] : k \in 0 .. Len(f)} \ {0}

\* What libclang hands over: a tree in preorder.  Included files come whole.
IsFile(f) ==
  \A n \in DOMAIN f :
    LET p == f[n].parent
    IN  /\ p = 0 \/ (p < n /\ p \in Enclosing(f, n - 1))
        /\ p # 0 => /\ f[n].main = f[p].main
                    /\ f[p].kind \in {"namespace", "struct"}
        /\ f[n].kind = "namespace" => p = 0 \/ f[p].kind = "namespace"
        /\ f[n].kind = "method" => p # 0

\* Built up cursor by cursor, so that TLC never enumerates all sequences.
Files ==
  LET grow[n \in 0 .. MaxCursors] ==
        IF n = 0 THEN {<<>>}
        ELSE UNION {{g \in {Append(f, c) : c \in [kind : Kinds, parent : 0 .. n - 1,
                                                  main : BOOLEAN]} : IsFile(g)}
                    : f \in grow[n - 1]}
  IN  grow[MaxCursors]

Init ==
  /\ file \in Files
  /\ next = 1 /\ recurse = {0}
  /\ current_namespaces = <<>> /\ current_struct = 0 /\ member_functions = <<>>
  /\ printed = <<>>
  /\ phase = "visit"

----------------------------------------------------------------------------
(* member_params, over the tokens of a member function.                    *)

FirstOf(tokens, S) == Min({i \in DOMAIN tokens : tokens[i] \in S} \union {Len(tokens) + 1})

\* The signature ends before the first brace or semicolon.
Signature(tokens) == SubSeq(tokens, 1, FirstOf(tokens, {"brace", "semicolon"}) - 1)

\* A const behind any closing parenthesis makes the function const.
Constness(tokens) ==
  \E i \in 1 .. FirstOf(tokens, {"brace", "semicolon"}) - 1 :
    tokens[i] = "const" /\ FirstOf(tokens, {"close"}) < i

----------------------------------------------------------------------------
(* find_expansion_lines and close_struct, over the lines of a form: a line   *)
(* is a text, has a tag, or is the members that replaced a tag.            *)

Tags == {"nonvirtual", "pure_virtual", "virtual"}

\* The last line with the tag, or the first line of the form.
ExpansionLine(form, tag) ==
  LET S == {i \in DOMAIN form : form[i] = <<"tag", tag>>} IN IF S = {} THEN 1 ELSE Max(S)

\* The three lines are overwritten, in this order.
Fill(form) ==
  [form EXCEPT ![ExpansionLine(form, "nonvirtual")]   = <<"members", "nonvirtual">>,
               ![ExpansionLine(form, "pure_virtual")] = <<"members", "pure_virtual">>,
               ![ExpansionLine(form, "virtual")]      = <<"members", "virtual">>]

----------------------------------------------------------------------------
(* visit.                                                                  *)

InnermostOf(n, kind) ==
  LET S == {e \in Enclosing(file, n) : Kind(e) = kind} IN IF S = {} THEN 0 ELSE Max(S)

\* The open namespaces are closed down to the parent's, unless the parent is
\* in none.
Left(n) ==
  LET enclosing == InnermostOf(Parent(n), "namespace")
      S == {i \in DOMAIN current_namespaces : current_namespaces[i] = enclosing}
  IN  IF enclosing = 0 THEN current_namespaces
      ELSE SubSeq(current_namespaces, 1, IF S = {} THEN 0 ELSE Max(S))

\* Mutation: the members of the struct are kept for the next one.
MembersKept == member_functions

MembersCleared == <<>>

LeavesStruct(n) == current_struct # 0 /\ InnermostOf(Parent(n), "struct") # current_struct

\* close_struct resizes the text of no members to its size less one, which
\* throws; otherwise it prints the struct, among the namespaces that are open.
CloseStruct(namespaces) ==
  /\ printed' = IF member_functions = <<>> THEN printed
                ELSE Append(printed, [struct |-> current_struct, within |-> namespaces,
                                      members |-> member_functions])
  /\ phase' = IF member_functions = <<>> THEN "terminated" ELSE "visit"

\* Namespaces and then the struct are closed when the cursor is outside of
\* them; what happens then depends on the kind of the cursor.
Visit(n) ==
  LET namespaces == Left(n)
      left == LeavesStruct(n)
      inside == IF left THEN 0 ELSE current_struct
      members == IF left THEN MembersCleared ELSE member_functions
      main == file[n].main
      kind == Kind(n)
  IN  /\ Parent(n) \in recurse
      /\ IF left THEN CloseStruct(namespaces) ELSE UNCHANGED <<printed, phase>>
      /\ current_namespaces' = IF kind = "namespace" /\ main THEN Append(namespaces, n)
                               ELSE namespaces
      /\ current_struct' = IF kind = "struct" /\ main /\ inside = 0 THEN n ELSE inside
      /\ member_functions' = IF kind = "method" /\ main THEN Append(members, n) ELSE members
      /\ recurse' = IF kind = "namespace" \/ (kind = "struct" /\ main /\ inside = 0)
                      THEN recurse \union {n} ELSE recurse

Step ==
  /\ phase = "visit" /\ next <= Len(file)
  /\ IF Parent(next) \in recurse THEN Visit(next) ELSE UNCHANGED <<data, printed, phase>>
  /\ next' = next + 1
  /\ UNCHANGED file

\* The end of main: the last struct, then the namespaces.
Finish ==
  /\ phase = "visit" /\ next = Len(file) + 1
  /\ next' = next + 1
  /\ IF current_struct = 0 THEN UNCHANGED <<printed, phase>> ELSE CloseStruct(current_namespaces)
  /\ current_namespaces' = <<>>
  /\ UNCHANGED <<file, recurse, current_struct, member_functions>>

Next == Step \/ Finish

Spec == Init /\ [][Next]_vars

----------------------------------------------------------------------------
Archetypes ==
  {n \in DOMAIN file : Kind(n) = "struct" /\ file[n].main /\ InnermostOf(Parent(n), "struct") = 0}
Members(s) == {n \in DOMAIN file : Kind(n) = "method" /\ Parent(n) = s}
NamespacesOf(n) == {e \in Enclosing(file, n) : Kind(e) = "namespace"}

\* The list has the cursors of S, each once and in the order of the file.
InOrder(list, S) ==
  /\ {list[i] : i \in DOMAIN list} = S
  /\ \A i, j \in DOMAIN list : i < j => list[i] < list[j]

\* A member function that is defined outside of its archetype is taken for a
\* member of the next one: such files are left out here.
InsideOnly == \A n \in DOMAIN file : Kind(n) = "method" => Kind(Parent(n)) = "struct"

\* Every archetype is printed exactly once, in order, with its own member
\* functions and no others, whatever lies between them ("The form will be
\* repeated in the output once for each archetype"); an archetype without
\* member functions ends the program.
ArchetypesPrinted ==
  InsideOnly =>
    /\ phase = "terminated" => \E s \in Archetypes : Members(s) = {}
    /\ next = Len(file) + 2 /\ phase = "visit" =>
         /\ InOrder([i \in DOMAIN printed |-> printed[i].struct], Archetypes)
         /\ \A i \in DOMAIN printed :
              /\ printed[i].members # <<>>
              /\ InOrder(printed[i].members, Members(printed[i].struct))

\* An archetype is printed in its namespaces if the file has one nest of
\* namespaces, none of which ends before the last archetype.
OneNestPreserved ==
  (\A n, m \in DOMAIN file :
     /\ file[n].main
     /\ Kind(n) = "namespace" /\ n < m => n \in Enclosing(file, m)) =>
    \A i \in DOMAIN printed : InOrder(printed[i].within, NamespacesOf(printed[i].struct))

\* "emtypen will preserve ... the namespaces in which the archetypes are
\* declared, if any" (the manual, lines 516-518).
NamespacesPreserved ==
  \A i \in DOMAIN printed : InOrder(printed[i].within, NamespacesOf(printed[i].struct))

\* read() is called in every const member function and write() in every other
\* one, as long as no parameter's type has parentheses (member_params).
ConstnessFound ==
  next = 1 =>
    \A before, params \in BoundedSeq({"const", "name"}, MaxTokens), after \in {<<>>, <<"const">>},
       end \in {<<"semicolon">>, <<"brace", "const", "endbrace">>} :
      LET tokens == before \o <<"open">> \o params \o <<"close">> \o after \o end
      IN  Constness(tokens) = (Last(Signature(tokens)) = "const")

Lines == {<<"text">>} \union {<<"tag", tag>> : tag \in Tags}
Forms == {f \in UNION {[1 .. n -> Lines] : n \in 1 .. 4} :
            \A tag \in Tags : \E i \in DOMAIN f : \A j \in DOMAIN f : f[j] = <<"tag", tag>> <=> j = i}

\* A form with each of the three tags once keeps its other lines and has every
\* tag replaced by its members (find_expansion_lines, close_struct).
FormsFilled ==
  next = 1 => \A f \in Forms :
    Fill(f) = [i \in DOMAIN f |-> IF f[i] = <<"text">> THEN f[i] ELSE <<"members", f[i][2]>>]
=============================================================================
