------------------------------- MODULE Loader -------------------------------
(***************************************************************************)
(* From an entry file to a checked list of modules: loader/loader.go,      *)
(* followed by the class numbering of types/checker.go and of the          *)
(* generator classes of codegen/generators.go.                             *)
(*                                                                         *)
(* A file is a directory and a base name.  Which files exist is fixed;     *)
(* what a file imports is chosen when it is read, so one behaviour is one  *)
(* run of the compiler on one source tree and all trees are covered.       *)
(***************************************************************************)
EXTENDS Naturals, Sequences, SequencesExt, FiniteSets

CONSTANTS Dir, Name,
          Search,      \* stdlibSearchPaths()
          Files,       \* the files that exist
          Entry,
          Builtins,    \* the synthetic module "<builtins>"
          NoFile,
          MaxImports,  \* bound on the import statements of a file
          Classes,     \* how many classes each module declares
          Generators   \* how many generator functions each module declares

Path == [dir : Dir, name : Name]

ASSUME LoaderAssumption ==
  /\ Search \in Seq(Dir)
  /\ Files \subseteq Path
  /\ Entry \in Files
  /\ Builtins \notin Files
  /\ NoFile \notin Files /\ \A S \in SUBSET Files : S # NoFile
  /\ MaxImports \in Nat
  /\ Classes \in [Files \cup {Builtins} -> Nat]
  /\ Generators \in [Files \cup {Builtins} -> Nat]

VARIABLES cache,     \* paths with a parsed module
          program,   \* the imports of a cached module, in source order
          grey,      \* paths on the DFS stack
          stack,     \* the DFS stack
          at,        \* the import each active loadPath is at
          deps,      \* Deps of each module: base names, without repetition
          order,     \* modules, dependencies first
          status,    \* "load", "check", "emit", "done", or how it failed
          k,         \* position in order of the module being checked or emitted
          bound,     \* what each import of a checked module was bound to
          ctr,       \* classIDCtr
          ids,       \* class ids of each module
          genIds     \* ids of its generator classes

dfs  == <<cache, program, grey, stack, at, deps>>
nums == <<k, bound, ctr, ids, genIds>>
vars == <<dfs, order, status, nums>>

Failures == {"cycle", "missing", "invalid"}

-----------------------------------------------------------------------------
\* The first directory that has the file: the importer's own, then the search
\* path.
Resolve(dir, nm) ==
  LET dirs == <<dir>> \o Search
      hits == {i \in DOMAIN dirs : [dir |-> dirs[i], name |-> nm] \in Files}
  IN  IF hits = {} THEN NoFile
      ELSE [dir |-> dirs[CHOOSE i \in hits : \A j \in hits : i <= j], name |-> nm]

Target(p, i) == Resolve(p.dir, program[p][i])

Imports(p)   == {Target(p, i) : i \in DOMAIN program[p]}

\* Mutant: two modules of the same base name keep the later one.
FindLast(id) == order[CHOOSE i \in DOMAIN order :
                        /\ order[i].name = id
                        /\ \A j \in DOMAIN order : order[j].name = id => j <= i]

\* findByID: the first module of that base name.
FindByID(id) == order[CHOOSE i \in DOMAIN order :
                        /\ order[i].name = id
                        /\ \A j \in DOMAIN order : order[j].name = id => i <= j]

current == stack[Len(stack)]

-----------------------------------------------------------------------------
Init == /\ cache = {} /\ grey = {} /\ stack = <<>> /\ order = <<>>
        /\ program = [p \in Files |-> <<>>]
        /\ at = [p \in Files |-> 1]
        /\ deps = [p \in Files |-> <<>>]
        /\ status = "load"
        /\ k = 0 /\ ctr = 0
        /\ bound = [p \in Files |-> <<>>]
        /\ ids = [p \in Files \cup {Builtins} |-> {}]
        /\ genIds = [p \in Files \cup {Builtins} |-> {}]

Fail(s) == status' = s /\ UNCHANGED <<dfs, order, nums>>

\* Mutant: the module is not put into the cache before its imports are loaded.
OpenUncached(p) ==
  \E prog \in SeqOf(Name, MaxImports) :
    /\ program' = [program EXCEPT ![p] = prog]
    /\ grey' = grey \cup {p}
    /\ stack' = Append(stack, p)
    /\ UNCHANGED <<cache, at, deps, order, status, nums>>

\* loadPath of a file that is not in the cache, up to its loop over imports.
Open(p) ==
  \/ \E prog \in SeqOf(Name, MaxImports) :
       /\ program' = [program EXCEPT ![p] = prog]
       /\ cache' = cache \cup {p}
       /\ grey' = grey \cup {p}
       /\ stack' = Append(stack, p)
       /\ UNCHANGED <<at, deps, order, status, nums>>
  \/ Fail("invalid")

LoadEntry == /\ status = "load" /\ cache = {}
             /\ Open(Entry)

\* Mutant: the loop does not go on to the next import.
NoteDepStay(p, id) == /\ deps' = [deps EXCEPT ![p] = IF id \in ToSet(@) THEN @ ELSE Append(@, id)]
                      /\ UNCHANGED at

\* The end of one turn of the loop in loadPath(p): note the dependency.
NoteDep(p, id) == /\ deps' = [deps EXCEPT ![p] = IF id \in ToSet(@) THEN @ ELSE Append(@, id)]
                  /\ at' = [at EXCEPT ![p] = @ + 1]

\* Mutant: the cache is asked before the grey set.
ImportCacheFirst ==
  /\ status = "load" /\ stack # <<>> /\ at[current] <= Len(program[current])
  /\ LET q == Target(current, at[current]) IN
       \/ q = NoFile /\ Fail("missing")
       \/ /\ q \in cache
          /\ NoteDep(current, q.name)
          /\ UNCHANGED <<cache, program, grey, stack, order, status, nums>>
       \/ q # NoFile /\ q \notin cache /\ Open(q)

\* Mutant: a dependency is only noted when its module was not loaded before.
ImportForgets ==
  /\ status = "load" /\ stack # <<>> /\ at[current] <= Len(program[current])
  /\ LET q == Target(current, at[current]) IN
       \/ /\ q \in cache \ grey
          /\ at' = [at EXCEPT ![current] = @ + 1]
          /\ UNCHANGED <<cache, program, grey, stack, deps, order, status, nums>>
       \/ q # NoFile /\ q \notin cache /\ Open(q)

\* One import statement of the module on top of the stack.
Import ==
  /\ status = "load" /\ stack # <<>> /\ at[current] <= Len(program[current])
  /\ LET q == Target(current, at[current]) IN
       \/ q = NoFile /\ Fail("missing")
       \/ q \in grey /\ Fail("cycle")
       \/ /\ q \in cache \ grey
          /\ NoteDep(current, q.name)
          /\ UNCHANGED <<cache, program, grey, stack, order, status, nums>>
       \/ q # NoFile /\ q \notin cache /\ Open(q)

\* Mutant: loadPath forgets to take the module off the grey set.
LeaveGrey == /\ status = "load" /\ stack # <<>> /\ at[current] > Len(program[current])
             /\ stack' = Front(stack)
             /\ order' = Append(order, current)
             /\ IF Len(stack) > 1 THEN NoteDep(stack[Len(stack) - 1], current.name)
                                  ELSE UNCHANGED <<deps, at>>
             /\ UNCHANGED <<grey, cache, program, status, nums>>

\* loadPath returns: the module is complete, its importer goes on.
Return == /\ status = "load" /\ stack # <<>> /\ at[current] > Len(program[current])
          /\ stack' = Front(stack)
          /\ grey' = grey \ {current}
          /\ order' = Append(order, current)
          /\ IF Len(stack) > 1 THEN NoteDep(stack[Len(stack) - 1], current.name)
                               ELSE UNCHANGED <<deps, at>>
          /\ UNCHANGED <<cache, program, status, nums>>

\* The synthetic builtins module goes first and is checked first.
AddBuiltins == /\ status = "load" /\ stack = <<>> /\ cache # {}
               /\ order' = <<Builtins>> \o order
               /\ ids' = [ids EXCEPT ![Builtins] = 1 .. Classes[Builtins]]
               /\ ctr' = Classes[Builtins]
               /\ status' = "check" /\ k' = 2
               /\ UNCHANGED <<dfs, bound, genIds>>

\* Mutant: every checker counts from zero (no SetClassIDSource).
CheckOwnCounter ==
  /\ status = "check" /\ k <= Len(order)
  /\ LET m == order[k] IN
       \/ /\ bound' = [bound EXCEPT ![m] = [i \in DOMAIN deps[m] |-> FindByID(deps[m][i])]]
          /\ ids' = [ids EXCEPT ![m] = 1 .. Classes[m]]
          /\ k' = k + 1
          /\ UNCHANGED <<dfs, order, status, ctr, genIds>>
       \/ Fail("invalid")

\* Check one module against the exports of the modules it is bound to.
Check ==
  /\ status = "check" /\ k <= Len(order)
  /\ LET m == order[k] IN
       \/ /\ bound' = [bound EXCEPT ![m] = [i \in DOMAIN deps[m] |-> FindByID(deps[m][i])]]
          /\ ids' = [ids EXCEPT ![m] = ctr + 1 .. ctr + Classes[m]]
          /\ ctr' = ctr + Classes[m]
          /\ k' = k + 1
          /\ UNCHANGED <<dfs, order, status, genIds>>
       \/ Fail("invalid")

\* GenerateAll: two classes of one name end the compilation.
BeginEmit == /\ status = "check" /\ k > Len(order)
             /\ \/ /\ status' = "emit" /\ k' = 1
                   /\ UNCHANGED <<dfs, order, bound, ctr, ids, genIds>>
                \/ Fail("invalid")

AllIds == UNION {ids[m] \cup genIds[m] : m \in Files \cup {Builtins}}

\* The largest id given so far.
MaxId == CHOOSE i \in AllIds \cup {0} : \A j \in AllIds : j <= i

\* registerGenerator for the generator functions of one module: nextClassID is
\* one more than the largest id known.  A parameter with a default or a star, or
\* without a type, ends the compilation.
RegisterGenerators ==
  /\ status = "emit" /\ k <= Len(order)
  /\ LET m == order[k] IN
       \/ /\ genIds' = [genIds EXCEPT ![m] = MaxId + 1 .. MaxId + Generators[m]]
          /\ k' = k + 1
          /\ UNCHANGED <<dfs, order, status, bound, ctr, ids>>
       \/ Generators[m] > 0 /\ Fail("invalid")

EndEmit == /\ status = "emit" /\ k > Len(order)
           /\ status' = "done"
           /\ UNCHANGED <<dfs, order, nums>>

Step == \/ LoadEntry \/ Import \/ Return \/ AddBuiltins
        \/ Check \/ BeginEmit \/ RegisterGenerators \/ EndEmit

Ended == status \in Failures \cup {"done"} /\ UNCHANGED vars

Next == Step \/ Ended

\* The compiler is one sequential program: it does not stop between steps.
Spec == Init /\ [][Next]_vars /\ WF_vars(Step)

-----------------------------------------------------------------------------
Started == order # <<>> /\ order[1] = Builtins

\* The modules in order, without the synthetic one.
Loaded == IF Started THEN Tail(order) ELSE order

\* Type correctness.
TypeOK == /\ cache \subseteq Files /\ grey \subseteq cache
          /\ program \in [Files -> Seq(Name)]
          /\ stack \in Seq(Files)
          /\ at \in [Files -> Nat]
          /\ deps \in [Files -> Seq(Name)]
          /\ order \in Seq(Files \cup {Builtins})
          /\ status \in {"load", "check", "emit", "done"} \cup Failures
          /\ k \in Nat /\ ctr \in Nat

\* A reported cycle is one: the chain in the message runs from import to import
\* and its last module imports one that is already on it.  No cycle admits the
\* order of LoadsInOrder, so detection is exact.
CycleIsReal ==
  status = "cycle" =>
    /\ \A i \in 1 .. Len(stack) - 1 : stack[i + 1] \in Imports(stack[i])
    /\ Imports(current) \cap ToSet(stack) # {}

\* When loading succeeds the order holds the entry, last, and just the files
\* that are needed for it, each once; and a module is only bound to modules that
\* were checked before it, so their exports exist.
ModulesAreReady ==
  /\ Started =>
       /\ Loaded[Len(Loaded)] = Entry
       /\ Cardinality(ToSet(Loaded)) = Len(Loaded)
       /\ ToSet(Loaded) = cache
       /\ \A p \in cache \ {Entry} : \E q \in cache : p \in Imports(q)
  /\ \A i \in 2 .. Len(order) : order[i] \in Files =>
       \A m \in ToSet(bound[order[i]]) : m \in ToSet(SubSeq(order, 1, i - 1))

\* Every file is read once, and enters the order after all it imports.
Graph == [p \in Files |-> IF p \in cache THEN Imports(p) \cap Files ELSE NoFile]

Order == INSTANCE ModuleOrder WITH File <- Files, Unread <- NoFile,
                                   graph <- Graph, order <- Loaded

LoadsInOrder == Order!Spec

UniqueNames == \A i, j \in DOMAIN order : order[i].name = order[j].name => i = j

\* What a checked module was bound to are the files its imports resolve to.
BindsWhatItImports ==
  status # "load" =>
    \A p \in Files : bound[p] # <<>> =>
      /\ Len(bound[p]) = Len(deps[p])
      /\ \A i \in DOMAIN deps[p] : bound[p][i] = Resolve(p.dir, deps[p][i])
      /\ ToSet(bound[p]) = Imports(p)

\* It is so in every program whose modules have different base names.
BindsByName == UniqueNames => BindsWhatItImports

\* No two classes of the program, written or made for a generator, have the same
\* id, on which isinstance and except clauses rely.
IdsUnique ==
  LET given(m) == ids[m] \cup genIds[m] IN
    \A m \in Files \cup {Builtins} :
      /\ ids[m] \cap genIds[m] = {}
      /\ \A q \in Files \cup {Builtins} : q # m => given(m) \cap given(q) = {}

\* Loading, checking and numbering end on every source tree, cyclic or not.
Ends == <>(status \in Failures \cup {"done"})
=============================================================================
