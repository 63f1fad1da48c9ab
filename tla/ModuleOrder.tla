---------------------------- MODULE ModuleOrder ----------------------------
(***************************************************************************)
(* What the loader promises its clients, which type-check the modules and  *)
(* emit their initialisation in the order it returns: every file is read   *)
(* once, and a module is put into the order once, after everything it      *)
(* imports.  How the files are found and visited is left open.             *)
(***************************************************************************)
EXTENDS Sequences, Functions

CONSTANTS File,     \* every file there is
          Unread    \* what is known of a file before it is read

VARIABLES graph,    \* the set of files each file imports, or Unread
          order     \* the modules, dependencies first

vars == <<graph, order>>

Init == /\ graph = [f \in File |-> Unread]
        /\ order = <<>>

Read(f) == /\ graph[f] = Unread
           /\ graph'[f] # Unread /\ graph'[f] \subseteq File
           /\ graph' = [graph EXCEPT ![f] = graph'[f]]
           /\ UNCHANGED order

Emit(f) == /\ f \notin Range(order)
           /\ graph[f] # Unread
           /\ graph[f] \subseteq Range(order)
           /\ order' = Append(order, f)
           /\ UNCHANGED graph

Next == \E f \in File : Emit(f) \/ Read(f)

Spec == Init /\ [][Next]_vars
=============================================================================
