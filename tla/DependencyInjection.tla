------------------------ MODULE DependencyInjection ------------------------
(***************************************************************************)
(* The injector of src/include/dependency_injection.h and                  *)
(* src/src/dependency_injection.cpp: factories are added with the types    *)
(* they need, and build_injector makes one instance of each type, in the   *)
(* order of a depth-first search of the graph of dependents.  The graph is *)
(* kept in unordered containers: the search takes their elements in any    *)
(* order.  XASSERT aborts in a development build and is nothing in others, *)
(* where an instance that is missing is dereferenced all the same.         *)
(***************************************************************************)
EXTENDS Naturals, Sequences

CONSTANTS
  Types,
  MaxAdds  \* bound on the calls of add

VARIABLES
  development,  \* the build defines DEVELOPMENT
  phase,        \* "config", "visit", "run", "built", "aborted" or "undefined"
  adds,         \* how often add was called
  needs,        \* the parameters of the factory last added for a type
  dependents,   \* dependents_ of each node
  mark,         \* mark_ of each node; "none" for a type that is not in graph_
  provided,     \* the types with has_initializer_
  path,         \* the calls of toposort_visit_node: node and dependents to visit
  output,       \* the stack of initializers, its top first
  instances     \* instance_map_

configVars == <<adds, needs, dependents, provided>>
vars == <<development, phase, configVars, mark, path, output, instances>>

Init ==
  /\ development \in BOOLEAN
  /\ phase = "config"
  /\ adds = 0
  /\ needs = [t \in Types |-> {}]
  /\ dependents = [t \in Types |-> {}]
  /\ mark = [t \in Types |-> "none"]
  /\ provided = {}
  /\ path = <<>>
  /\ output = <<>>
  /\ instances = {}

\* add makes nodes of the type and of what it needs.  A second factory for a
\* type replaces the first, but not the edges that the first one made.
Add(t, deps) ==
  /\ phase = "config" /\ adds < MaxAdds
  /\ adds' = adds + 1
  /\ needs' = [needs EXCEPT ![t] = deps]
  /\ provided' = provided \union {t}
  /\ dependents' = [u \in Types |-> dependents[u] \union {x \in {t} : u \in deps}]
  /\ mark' = [u \in Types |-> IF u \in deps \union {t} THEN "unmarked" ELSE mark[u]]
  /\ UNCHANGED <<development, phase, path, output, instances>>

BuildInjector ==
  /\ phase = "config"
  /\ phase' = "visit"
  /\ UNCHANGED <<development, configVars, mark, path, output, instances>>

----------------------------------------------------------------------------
(* toposort_visit_node.                                                    *)

\* An unmarked node is entered, on top of the calls below it.
Visit(n, calls) ==
  /\ mark[n] = "unmarked"
  /\ mark' = [mark EXCEPT ![n] = "temp"]
  /\ path' = <<[node |-> n, todo |-> dependents[n]]>> \o calls
  /\ UNCHANGED <<phase, output>>

\* The call for node n: a node that is being visited is part of a cycle, one
\* that was visited is left alone.
Enter(n, calls) ==
  \/ /\ mark[n] = "temp" /\ development
     /\ phase' = "aborted"
     /\ UNCHANGED <<mark, path, output>>
  \/ /\ mark[n] = "perm" \/ (mark[n] = "temp" /\ ~development)
     /\ path' = calls
     /\ UNCHANGED <<phase, mark, output>>
  \/ Visit(n, calls)

VisitRoot ==
  /\ phase = "visit" /\ path = <<>>
  /\ \E n \in Types : Visit(n, <<>>)
  /\ UNCHANGED <<development, configVars, instances>>

VisitDependent ==
  /\ phase = "visit" /\ path # <<>>
  /\ \E d \in Head(path).todo :
       Enter(d, <<[Head(path) EXCEPT !.todo = @ \ {d}]>> \o Tail(path))
  /\ UNCHANGED <<development, configVars, instances>>

\* Mutation: the initializers are run in the order in which they are found.
LeaveToQueue ==
  /\ phase = "visit" /\ path # <<>> /\ Head(path).todo = {}
  /\ mark' = [mark EXCEPT ![Head(path).node] = "perm"]
  /\ output' = IF Head(path).node \in provided THEN Append(output, Head(path).node) ELSE output
  /\ path' = Tail(path)
  /\ UNCHANGED <<development, phase, configVars, instances>>

Leave ==
  /\ phase = "visit" /\ path # <<>> /\ Head(path).todo = {}
  /\ mark' = [mark EXCEPT ![Head(path).node] = "perm"]
  /\ output' = IF Head(path).node \in provided THEN <<Head(path).node>> \o output ELSE output
  /\ path' = Tail(path)
  /\ UNCHANGED <<development, phase, configVars, instances>>

\* unmarked_nodes is empty.
EndVisits ==
  /\ phase = "visit" /\ path = <<>>
  /\ \A n \in Types : mark[n] # "unmarked"
  /\ phase' = "run"
  /\ UNCHANGED <<development, configVars, mark, path, output, instances>>

\* The initializer on top gets the instances its factory needs, get_instance
\* for each, and puts the new instance into the map.
RunInitializer ==
  /\ phase = "run" /\ output # <<>>
  /\ LET t == Head(output)
     IN  IF needs[t] \subseteq instances
           THEN instances' = instances \union {t} /\ phase' = phase
           ELSE /\ phase' = IF development THEN "aborted" ELSE "undefined"
                /\ instances' = instances
  /\ output' = Tail(output)
  /\ UNCHANGED <<development, configVars, mark, path>>

EndRun ==
  /\ phase = "run" /\ output = <<>>
  /\ phase' = "built"
  /\ UNCHANGED <<development, configVars, mark, path, output, instances>>

Next ==
  \/ \E t \in Types, deps \in SUBSET Types : Add(t, deps)
  \/ BuildInjector \/ VisitRoot \/ VisitDependent \/ Leave \/ EndVisits
  \/ RunInitializer \/ EndRun

Spec == Init /\ [][Next]_vars

----------------------------------------------------------------------------
Cyclic == \E S \in SUBSET Types : S # {} /\ \A t \in S : dependents[t] \intersect S # {}
Satisfied == \A t \in provided : needs[t] \subseteq provided

\* Whatever the order of the unordered containers, factories that need only
\* what others provide, without a cycle, are all run, each after those that make
\* its parameters.
BuildsInOrder ==
  ~Cyclic /\ Satisfied =>
    /\ phase \notin {"aborted", "undefined"}
    /\ phase = "built" => instances = provided

\* In a development build a cycle, also one left by a factory that was replaced,
\* is reported before any factory has run ("appears to be part of a cycle").
CycleReported == Cyclic /\ development => phase \notin {"run", "built"}
=============================================================================
