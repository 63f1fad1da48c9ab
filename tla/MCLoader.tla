------------------------------ MODULE MCLoader ------------------------------
(***************************************************************************)
(* Instances of Loader for TLC: a user directory and the standard library, *)
(* which has a module of the same base name as one of the user's.          *)
(***************************************************************************)
EXTENDS Loader

At(d, nm) == [dir |-> d, name |-> nm]

MCDir     == {"user", "lib"}
MCName    == {"main", "a", "b", "c"}
MCSearch  == <<"lib">>
MCEntry   == At("user", "main")
MCBuiltins == At("none", "builtins")
MCFiles   == {MCEntry, At("user", "a"), At("user", "b"), At("lib", "a"), At("lib", "c")}

\* main has two classes, a one, and every user module a generator.
MCClasses ==
  [p \in MCFiles \cup {MCBuiltins} |-> IF p.name \in {"main", "builtins"} THEN 2 ELSE 1]
MCGenerators ==
  [p \in MCFiles \cup {MCBuiltins} |-> IF p.name \in {"main", "a"} THEN 1 ELSE 0]
=============================================================================
