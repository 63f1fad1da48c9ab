# A TLA+ verification of spython

spython compiles a statically typed subset of Python to LLVM IR: a lexer, a
parser, a module loader, a type checker and a code generator in Go, a runtime in
C, and a standard library in spython and C.  This directory holds TLA+ modules
of the parts where control is hard, the TLC runs that check them on small
instances, and theorems about them that TLAPS proves for all instances.

Contents: [inventory](#inventory), [plan](#plan), one section per modelled part
([leaving blocks](#leaving-blocks-exclowering),
[loading modules](#loading-modules-loader),
[hash tables](#hash-tables-hashtable-and-tableloop),
[name resolution with a deadline](#name-resolution-with-a-deadline-dnsjob),
[block structure](#block-structure-layout),
[expressions](#expressions-expressions), [arguments](#arguments-of-calls-calls),
[classes](#classes-classtable-and-classes), [generators](#generators-generators),
[lists](#lists-lists)),
[what is proved and what is only checked](#what-is-proved-and-what-is-only-checked),
[what is not modelled](#what-is-not-modelled).

`PROJECT.json` lists the components, runs, mutants, the map from each definition
to the lines it models, findings, hazards and theorems.  To run: `tlc -workers 2
-config ExcRules.cfg MCExcLowering.tla`, and `tlapm ExcLoweringProofs.tla`.

## Inventory

| component | state | operations | what is hard | what makes it correct |
| --- | --- | --- | --- | --- |
| exception lowering (`codegen/exceptions.go`, parts of `codegen.go`, `generators.go`) | `finallyStack`, break and continue labels at compile time; the frames and `pending` slots of the emitted code | try, raise, return, break, continue, iterator loops | a path that forgets a pop does damage later, elsewhere; finally blocks chained at compile time and resumed at run time | the emitted code follows Python's control-flow rules |
| runtime exception state (`runtime/runtime.c`) | `spy_exc_top`, `spy_exc_inflight` | push, pop, throw, rethrow, current, clear | one pointer for all nested tries | the chain is exact; the pointer is what is owed |
| module loader (`loader/loader.go`, `builtins.go`) | cache, grey set, stack, order, class counter | load, resolve, check in order | recursion over any import graph; identity by base name after loading by path | dependencies first, cycles reported and only cycles, imports bound to the files they resolve to, ids unique |
| runtime hash tables (`runtime/runtime.c`) | slots, capacity, length | get, set, contains, discard, clear, resize, next | deletion without tombstones; growth through the public insertion; loops over slots that move | a table is a finite function; every probe ends |
| socket name resolution (`stdlib/socket.c`) | the `DnsJob` shared by two threads | call, poll, abandon, resolve, publish, free | who frees, after a race of deadline and answer; reuse of memory by the next call | one owner, own answer, returns in time |
| generators (`codegen/generators.go`) | the fields of the synthesised class, its state number | `__next__`, yield, exhaustion | what survives a yield, try and return in a generator | a generator yields what its body would print |
| classes and calls (`codegen/classes.go`, `codegen.go`, `types/checker.go`) | field indices, vtable slots, method tables | layout, override, super, argument matching | slots inherited at the right index; defaults, keywords and stars | a call reaches the method and parameters Python picks |
| lists, strings, slices (`runtime/runtime.c`) | data, length, capacity | append, extend, insert, pop, sort, slice | mutation while a loop or a sort key walks the list; arithmetic at the ends of int64 | elements neither lost nor read beyond the length |
| lexer (`lexer/lexer.go`) | the indentation stack, bracket depth | next token | dedent to a level never opened; blank lines and brackets | INDENT and DEDENT balance and follow the text |
| parser (`parser/parser.go`) | position in the tokens, the call stack | recursive descent | blocks known only by the calls that are active; precedence and lookahead | the tree nests as the lines do; a file laid out as Python wants is not rejected for it |
| type checker (`types/*.go`) | environments, class types | check, narrow, assign | subtyping of containers, overriding | no accepted program breaks a representation |
| sockets, files, TLS, requests (`stdlib/*.c`, `*.spy`) | descriptors, timeouts, buffers | open, read, close, redirect, receive | double close, leaks on error, partial reads | a descriptor is closed once |
| algorithms (`stdlib/heapq.spy`, `bisect.spy`, ...) | lists | push, pop, search | the last parent, the empty list | the heap order; the insertion point |
| driver, diagnostics, system libraries | none of their own | wrappers over the operating system | none within reach | - |

How they meet: the loader calls lexer and parser on each file, then the checker on
each module in its order, then hands the order to the code generator, which
relies on it for initialisation and on the checker's class ids for `isinstance`
and `except`.  The emitted code calls the runtime: the exception chain is shared
by every function, and tables are walked by emitted loops slot by slot.  The
only second thread in a spython process is the resolver of `socket.c`.

## Plan

| order | modules | composes | state |
| --- | --- | --- | --- |
| 1 | `PyFlow` (abstract), `ExcLowering`, `ExcRefinement`, `ExcLoweringProofs` | emitted code with the runtime's chain | done |
| 2 | `ModuleOrder` (abstract), `Loader`, `LoaderProofs` | loader, checker's numbering, generator classes | done |
| 3 | `KeyValueStore` (abstract), `HashTable`, `TableLoop`, `IterationProofs` | tables under emitted loops | done |
| 4 | `DnsJob`, `DnsJobProofs` | caller, threads, heap | done |
| 5 | `PyLayout` (abstract), `Layout`, `LayoutProofs` | lexer with parser | done |
| 6 | `PyGenerators` (abstract), `Generators`, `IterationProofs` | the resume function with the frames of 1 and the loops over iterators | done |
| 7 | `PyBind` (abstract), `Calls`, `CallsProofs`; `ClassTable`, `PyClasses` (abstract), `Classes`, `ClassesProofs` | parser, checker and code generator | done |
| 8 | `PyLists` (abstract), `Lists`, `ListsProofs` | emitted loops with the runtime, slices in w-bit integers | done |
| 9 | `PyGrammar` (abstract), `Expressions` | the precedence climb against the grammar | done |
| 10 | `Scopes`: the checker's block scopes against the one slot per name of the emitted function | checker and code generator | left |
| 11 | `HeapQueue`; descriptors of `socket.spy`, `io.spy`, `requests.spy` | algorithms; partial failure | left |

Runs: one per component and question, with bounds that let every interesting
case happen (two nested constructs of each kind, two modules of one base name,
a table that grows once, two lookups in flight).  The theorem still worth
proving is `ParsesBack`.

## Leaving blocks: `ExcLowering`

### The code

A `try` is compiled to straight branches plus one `setjmp`
(`codegen/exceptions.go`, `emitTryStmt`).  The emitted code fills in a frame,
links it at the head of the runtime's chain (`spy_exc_push`) and calls
`setjmp`; a `raise` stores the object in `spy_exc_inflight` and longjmps to the
head of the chain (`spy_exc_throw`).  Whoever pushed a frame must pop it
(`spy_exc_pop`) on every way out of the block.  A `finally` is one block of code
entered from all sides; a stack slot (`pending`) says what to do when it ends:
fall through, rethrow, return, break or continue.  A `for` over an iterator is
a try of its own around `__next__` that catches `StopIteration`
(`codegen/generators.go`, `emitForIter`).

What is hard about it: the chain is global, so a path that forgets a pop does
damage much later, in other code; the in-flight pointer is one word for all
nested tries; `finally` blocks are chained at compile time through
`g.finallyStack`, whose top at the point of the exit need not be the block that
is running when the exit is resumed.

### The model

| TLA+ | code |
| --- | --- |
| `ctx[i]`, kinds `func`, `loop`, `iter`, `try` | the nest of active constructs, over all active functions; the frame (`jmp_buf`) of the construct at position `i` is called `i` |
| `phase` | where in the construct control is: the body, a handler, the finally block; for an iterator loop before (`head`) and inside (`next`) the call of `__next__` |
| `pending` | the stack slot of the same name (`finallyPending*`) |
| `spy_exc_top`, `prev` | `spy_exc_top` and the `prev` field of each `SpyExcFrame` |
| `spy_exc_inflight` | the pointer of the same name |
| `pc` | `run`: in user code; `land`: `setjmp` has just returned 1; `done`, `abort`: the program is over; `stale`: longjmp into the frame of a block control has left (its function is gone, or its pad runs once more; the model stops); `segv`: the dispatch reads the vtable of NULL |
| `Armed(r)` | the frame of `r` is pushed at this point of the emitted code |
| `Enter*`, `*End` | entering a construct and reaching its end |
| `Return`, `BreakContinue` | the three exits, as `emitReturn`, `emitStmt` and `routeExit` emit them |
| `Raise`, `Catch`, `PassOn`, `OweAndFinally`, `LandIter`, `NullDispatch` | the throw and every branch of a landing pad |
| `Rethrow`, `RethrowElsewhere` | `spy_exc_rethrow` from a pad, by whose frame heads the chain then |
| `FinallyEnd` | the switch on `pending` and `resolveExitTarget` |

The environment is any program the checker accepts whose generators neither
yield nor return inside a try: in user code every construct may be entered,
ended, left or raised from, so one behaviour of the model is one execution of one
program and the state space covers all such programs whose nest stays within
`MaxDepth`.  A generator's return (codegen.go:2307, straight to its exhausted
label) and yield (generators.go:533, a `ret`) need no branch of `Return` then: no
finally is open that they would pass by, and a `__next__` that ends is a function
that raises `StopIteration`, one that gives a value a function that returns.
Exceptions are told apart only by which clauses catch them: `Exc` has
`StopIteration` and one other.

The buffer of a try is allocated once per statement, at the entry of its
function, and a position of `ctx` stands for it.  The two differ only when a
frame stays on the chain after control has left its block: what is later pushed
at that position is the same buffer, if it is the same statement in a loop, or
another one.  In the first case the frame is its own `prev`, its `setjmp` is
live, and the pad that pops it and rethrows lands in itself (`Rethrow`); in the
second the frame on the chain is gone (`RethrowElsewhere`).

`Features` names the shapes of program the lowering gets wrong.  A shape that is
not listed is not taken.

* `exit_try_body`: return, break or continue leaves the body of a try that has
  no finally: nothing pops the frame, and the next raise jumps into a function
  or a block that is gone, or, when a loop has brought control back into the same
  try, its pad rethrows into itself for ever.
* `exit_two_finallys`: the exit has two open finallys to go through; when the
  inner one ends, the exit is resumed without popping the frame of the outer one.
* `handle_in_rethrow`: an exception is handled (a try with clauses, or an
  iterator loop, is entered) while a finally block that owes a rethrow runs; the
  handler clears the in-flight pointer, and the rethrow throws NULL.

`PyFlow` is what the lowering promises: Python's rules, with no chain, no
buffers and no in-flight pointer.  A completion (normal, raise, return, break,
continue) goes in one step to the innermost construct that intercepts it.
`ExcRefinement` maps the nest of `ExcLowering` to the one of `PyFlow`.  While an
exception is on its way (`pc = "land"`) the mapping already shows the construct
it must arrive at, so each landing has to be a stutter: a landing that changed
the destination would be a violation.

### The runs

* `exc_rules` (Features = {}, MaxDepth 4): the chain holds exactly the frames of
  the constructs that want an exception (`HandlerDiscipline`); the in-flight
  pointer is what the innermost running finally owes (`InflightIsOwed`); a try
  with a finally is never left except through it (`FinallyRuns`); a pad rethrows
  only into a frame further out (`RethrowsOutward`), and every landing ends in user
  code or the end of the program, over however many rethrows (`UnwindEnds`); every
  step is a step of Python's rules (`ImplementsPython`).
* `exc_any_program` (all shapes, MaxDepth 4): types.  This run fires the wrong
  jumps too.
* `exc_stale` (`exit_try_body`): what the header of the runtime says of the
  frames is false for this shape; TLC finds the landing in a frame that is gone.
  It is the finding listed in PROJECT.json.

For `exit_try_body` the rethrows are wrong too (TLC finds both properties violated
when `ExcRules.cfg` admits it).  In

    while c:
        try:
            if x: continue
            raise E1
        except E2: ...

the second turn pushes the buffer that still heads the chain, which makes it its
own `prev`; the pop of the pad changes nothing, and `spy_exc_rethrow` returns to the
same `setjmp` for ever.  With two such tries in each other the inner one's pad
takes turns with the outer one's; the model stops at the first of these landings
(`stale`), so `UnwindEnds` is a statement about the fragment.

Why depth 4 is enough: a rule relates a construct that is left or jumped to, a
construct between, a function boundary and the construct where control is; four
positions hold every such combination below `main`, for instance a try with a
finally whose finally block calls a function that raises inside a loop.  The
theorems remove the bound for all but `UnwindEnds`.

Fairness: weak fairness of `Land` only.  After `setjmp` returns 1 the emitted
code is straight-line until it reaches user code or the next `longjmp`; nothing
can keep it waiting.  User code itself has no fairness: a program may loop.

### The proofs (`ExcLoweringProofs`)

`TypeCorrect` and `ChainIsExact` hold for every `MaxDepth`, every set of
exceptions and every program without `exit_try_body` and `exit_two_finallys`
(`NoUnarmedExits`), handling inside finally blocks included.  So does
`PadsRethrowOutward` (`RethrowsOutward`): the pad's frame is the innermost of the
nest, and what `HandlerDiscipline` says of its `prev` puts the head of the chain
further out once it is popped.  So there are at most as many landings in a row as
the nest is deep, which is why `UnwindEnds` should hold beyond the run's bound;
that step is an argument, not a theorem.  The chain
discipline is not inductive: `FinallyEnd` with a pending return cuts the nest at
the function, and that no pushed frame lies between was decided earlier, when
the return was routed.  `Shape` records for each finally block that owes an exit
what lies between it and the exit's target; `LandsOnTop` says that a landing
happens in the innermost construct.  `IInv` is the conjunction.  Every action
either cuts the nest or replaces what is above a cut by one construct, so the
lemmas on `Cut` (what the chain looks like after a cut, with and without a new
top) carry all cases.

`OneInflightIsEnough` (`InflightIsOwed`) and `FinallysRun` (`FinallyRuns`) need what
the running finally blocks owe.  `QInv` says it construct by construct (`QuietAt`):
a finally that resumes a jump has no other finally running in its function; one
that owes an exception owes a real one; nothing that could take an exception
stands above one that owes; an iterator loop is at its head only on top.  And
the pointer holds what the innermost owing block owes (`OwedIn`), or NULL.
`Kept` is the action `FinallyRuns` asks for, shown of every step beside `QInv`
(`NextSound`).  `OneInflightIsEnough` also needs `NoHandlingInRethrow`: with
`handle_in_rethrow` the pointer is cleared under a block that owes (see above).

`LoweringImplementsPython` (`ImplementsPython`, under both conditions) is the
refinement of `PyFlow`.  The two sides find the target of an exception
differently: the code by the head of a linked list that pushes and pops have
kept, the rules by searching the nest.  They agree because exactly the constructs
that have a frame can intercept an exception (`InterceptsRaise`), the head is the
last of them (`HandlerDiscipline`), and what cannot intercept does not matter
(`DeliverBelow`): a `longjmp` (`JumpView`) and each landing that passes an
exception on leave its abstract destination alone, so landings are stutters
(`LandImplements`).  For return, break and continue the same holds of the finally
blocks that `routeExit` finds and of the labels (`RouteDelivers`, `RetDelivers`,
`LabelDelivers`), and a finally that resumes a jump delivers it to what lies
below itself (`TopLetsOut`).

## Loading modules: `Loader`

### The code and the model

`Load` makes a depth-first walk over the import graph (`loadPath`), with a cache
of parsed modules by absolute path, a set of the paths on the walk's stack, and a
list to which a module is appended when all its imports are done.  It puts the
synthetic builtins module in front and type-checks the others in that order,
binding each dependency by its base name (`findByID`).  All checkers count
class ids with one counter; the code generator later numbers the classes it
makes for generators by a maximum.

| TLA+ | code |
| --- | --- |
| `Path`, `Files`, `Search` | a directory and a base name; what exists; `stdlibSearchPaths` |
| `cache`, `grey`, `stack`, `order`, `deps` | the fields of `loader` and `Module.Deps` |
| `program`, `at` | the import statements of each parsed file; where its loop over them is |
| `LoadEntry`, `Import`, `Return` | `loadPath`: its start, one turn of its loop, its end; a call and its return are the top of `stack` |
| `NoteDep` | the rest of the turn after the recursive call |
| `AddBuiltins`, `Check` | the second half of `Load` |
| `BeginEmit`, `RegisterGenerators`, `EndEmit` | `GenerateAll` as far as ids go, with its failures: two classes of one name, a generator whose parameters it does not take |
| `status` | which loop the compiler is in, or how it failed: a cycle, a missing import, an invalid file |

A file's imports are chosen when it is read, so the state space covers every
import graph.  Left out: the content of modules beyond their imports, sibling C
files and link flags.

`ModuleOrder` is the contract the checker and the code generator rely on: each
file is read once and is put into the order once, after everything it imports.

### The runs

* `loader`: five files in two directories, two of them with the same base name,
  at most two imports each, every graph (self-imports, diamonds, cycles of any
  length, imports of the entry).  Detection of cycles is exact in both
  directions: a reported chain is a cycle (`CycleIsReal`), and a run that
  succeeds has an order no cyclic graph admits (`LoadsInOrder`).
  `ModulesAreReady`: once the order is handed over it is every file that was
  read, once, the builtins first, and what a module binds has been checked
  before it.  `IdsUnique`: what `isinstance` and `except` need.  `Ends`: the walk
  ends on cyclic trees too.  `BindsByName`: in a program without repeated base
  names every import is bound to the file it resolves to.  With two modules of
  one base name it may not be, since `findByID` returns the first.

Two imports per file are enough for a diamond, a cycle and a repeated import in
one program; longer files only repeat turns of the same loop.

Fairness: weak fairness of `Step`.  The compiler is one sequential program that
never waits, so an enabled step is taken.

### The proofs (`LoaderProofs`)

For every set of files, search path, and import graph, with no bound on the
number of imports but `MaxImports`, any natural number: `LoaderTypeCorrect`,
`CyclesAreReal` and `LoaderImplementsOrder` (the refinement of `ModuleOrder`).
The step that has to be shown is that when `loadPath` returns, everything the
module imports is in the order.  It does not follow from the loop alone: an
import that was in the cache might be on the stack.  `IInv` therefore says:

* `GreyIsStack`: the grey set is the stack, without repetition;
* `Waiting`: each module on the stack but the top is at the import that is the
  next module of the stack;
* `Settled`: what is cached is on the stack or in the order, never both;
* `Passed`: all imports a module has passed are in the order;
* `OrderForm`: the order holds files, behind the builtins once these are added.

`OrderIsReady` (`ModulesAreReady`) and `NamesBindFiles` (`BindsByName`) need a second
strengthening, `JInv`: nothing is in the cache that no cached module imports and
the walk starts at the entry (`Rooted`, `Needed`), the order has no module twice
(`Once`), the names a module has noted are those of the imports it has passed
(`Noted`), each import of a module in the order stands before it (`Before`), and
a module is bound to what has the names it noted (`BoundByName`).  That the order
holds just what the entry needs is then an argument about paths: the first
module of a path from the entry that is not in the order would be an import of
one that is.  `ClassIdsUnique` (`IdsUnique`) has an invariant of its own, `IdInv`:
all ids given so far are up to the counter, in the checker's phase and in the
generator's, and each step takes its ids above it.

Only checked: `Ends`, which is a liveness property.

## Hash tables: `HashTable` and `TableLoop`

### The code and the model

`SpyMap` and `SpySet` are the same table: linear probing from `hash % cap`,
doubling at a load of 3/4 before an insertion, and, for sets, a discard that
empties the slot and re-inserts the rest of the probe run.  (The comment at
`runtime.c:1242` says the elements after the slot are not moved; the code moves
them, and it has to: the mutant `Leave` of the run loses them.)  Growth and
discard re-insert through the public functions, which test the load
themselves.

| TLA+ | code |
| --- | --- |
| `slots`, `cap`, `len` | `entries`, `cap`, `len` of either struct |
| `StopSlot`, `Found` | where the probe loop of get, contains, set, add and discard ends, and whether the key is there |
| `Insert` | the body of `spy_map_set` and `spy_set_add` after the load test |
| `Put`, `Grow`, `Move`, `PutAfterGrow` | a call below the load, and one that resizes: `map_resize`, each turn of its loop, the insertion it had put off |
| `Discard`, `Reinsert`, `DiscardEnd` | `spy_set_discard`, each turn of its inner loop |
| `Clear` | `spy_map_clear` |
| `op`, `old`, `i`, `arg` | which of these loops the table is in, and its locals |
| `hash` | the hash of each key, chosen at first: any function into `Hashes` |

Growth and discard are taken apart although nothing runs beside them, because
their invariants live between two re-insertions.  `Move` and `Reinsert` insert
without a test for growth; that the code's test never asks for one there is
`NeverFull`.

`KeyValueStore` is a dict or set as the language has it; `HashTable` implements
it with the entries in the slots and those still to be moved as the store.

`TableLoop` adds the loop that `emitForSet` and `emitForMap` emit: an index of
the next slot, moved by `spy_set_next` and `spy_map_next`; between two turns the
body does anything to the table.  One watched key, any that is in the table when
the loop starts, counts how often the body ran for it.  `spy_map_keys`,
`spy_map_values` and `spy_map_extend` are loops of the same kind with a body that
does not touch the table.

### The runs

* `table_loop`: four keys, two values, a table of four slots that the fourth
  entry makes grow to eight, and every hash function into {0, 3, 4, 7}: hashes
  that collide at both sizes, at the first only, and that wrap around the end at
  either.  `MAP_INIT_CAP` is 16 in the code; nothing depends on it but that it
  is at least 2, as the proofs show.  A second growth needs no case the first
  does not have.  Keys and values are symmetric; no liveness is checked.

`SteadyLoopIsExact` is about loops during which the table neither grew nor lost
an entry.  A body that only assigns to keys that are there already is not always
such a loop: `spy_map_set` tests the load before it looks for the key
(`runtime.c:1019`), so the table may grow under it.

### The proofs (`IterationProofs`)

`IterationProofs` holds the theorems about what programs iterate over, tables and
generators.  For every set of keys and values, every hash function and every initial
capacity of at least 2: `TableTypeCorrect`, `LookupsAreExact`,
`TablesAreNeverFull`, `TablesImplementStore`.  `LookupIsExact` says nothing
about the states inside growth and discard, so `IInv` has

* `Unique` and `Reachable`: no key twice; from the home of each entry to its
  slot there is no empty slot;
* `Growing`, `Apart`: during growth the capacity is twice the old one, and what
  is still to be moved is not yet in the new table;
* `Broken`, `InRun`, `RunEnds`: during discard only probe runs through the one
  slot that was emptied may be broken, only behind the index of the loop, and
  the run ends before the loop has gone round.

`SteadyLoopsAreExact` (`SteadyLoopIsExact`) rests on `LoopsUseTables`: a program with
a loop over a table is one that uses the table, so `IInv` holds in it too.
`LInv` adds that in a steady loop the watched key is in one slot and the body has
run for it exactly if the index is past that slot.

## Name resolution with a deadline: `DnsJob`

### The code and the model

`gethostbyname_timeout` gives a job to a detached thread and polls it every 10
ms.  When the deadline passes it marks the job abandoned, and the thread frees
it; if the thread is done by then, the caller frees it.  The thread reads the
host from the job and writes the address into it without the lock.

| TLA+ | code |
| --- | --- |
| `heap`, `Job` | what `calloc` handed out; `made_for` is a history variable |
| `pc`, `job`, `host`, `got`, `left` | the caller's locals; `left` is the polls that fit into what is left of `seconds` |
| `result` | what the call returned: `spy_socket_last_err` and the string |
| `Call`, `CallFails`, `CallPlain` | the start; its early failures; `seconds <= 0` |
| `CallerLocks`, `Poll`, `Clock` | one turn of the poll loop |
| `Abandon`, `Release` | after the deadline; destroy and free, by the caller |
| `Resolve`, `WorkerLocks`, `Publish`, `Leave` | `dns_worker` |

Calls follow one another for ever and there is no bound on them: threads and
addresses are finite sets that are used again, which is what makes a late
answer dangerous.  An address is identified with the host it belongs to.
Critical sections are a step for the lock and a step for the rest, which no
other party can interrupt by the lock.

### The run and the fairness

`dns_job` has two hosts, two threads, two addresses and a deadline of two polls:
an abandoned thread may be at any point while a second call, at the next or at
the same address, is at any other.  A third thread would be one more abandoned
one.  Safety: `OneOwner` (who frees), `JobIsOwn` (nobody uses what is not his),
`AnswerIsOwn`.  Liveness: `CallReturns` and `JobsAreFreed`, under weak fairness of
the caller and of each thread outside `Resolve`: the operating system schedules
runnable threads, the mutex is held for a few instructions, and nothing is
assumed of `getaddrinfo`, which may take for ever.

### The proofs (`DnsJobProofs`)

For any sets of hosts, threads and addresses and any deadline:
`DnsTypeCorrect`, `JobsHaveOneOwner`, `ThreadsUseTheirOwnJob`, `AnswersAreOwn`.
`OneOwner` is not inductive: that an abandoned job has a thread left to free it
depends on the order of `done` and `abandoned` under the lock.  `IInv` says for
each thread what holds of the job it works on (`WorkingInv`: allocated, its own,
not done) or is about to free (`LeavingInv`: done, abandoned, not the
caller's), for the caller what holds of its job (`CallerInv`: abandoned only
between a late answer and the free), and for each allocated job that a thread
still works on it until it is done (`JobInv`).

## Block structure: `Layout`

### The code

Nothing in the compiler holds the block structure of a file.  The lexer keeps a
stack of the indentations that are open and turns a change of it into INDENT and
DEDENT tokens (`handleIndentation`, and the end of `Tokens`).  The parser is a
recursive descent: the blocks that are open are the calls that are active
(`parseBlock`, `parseClassDef`, `parseIfStmt`, `parseTryStmt`).  It never sees a
width and the lexer never sees a block, so whether a line ends up in the block
it was written in depends on both, over all the lines before it.

### The model

| TLA+ | code |
| --- | --- |
| `indents` | `Lexer.indents` |
| `line`, `pos` | the line in `source` and where in it the lexer is: before the line, in `handleIndentation` (a DEDENT or none emitted), behind it, at the end of the file |
| `tok` | the next token of the slice `Tokens` returns |
| `calls` | the parser's Go call stack: runs of statements in turn with the statement each belongs to |
| `at` | how far that statement's function is: `function` behind `@extern`, `newline` and `indent` inside `consumeNewline` and `parseBlock`, `block` while the block is parsed, `after` it when it looks for a clause |
| `BlankLine`, `TakeLine`, `Indent`, `Dedent`, `Word`, `Newline`, `FinalDedent`, `Eof` | the paths through `Tokens` and `handleIndentation` |
| `SkipNewline`, `EnterBlock`, `ParseStatement`, `DecoratedDef`, `LeaveBlock`, `Clause`, `Return`, `Accept`, `Reject` | the paths through the parser's statements |
| `py` | history: the structure the lines so far mean, by `PyLayout` |

The code lexes the whole file and then parses it.  Here the parser takes each
token as it comes, with one token between the two: the lexer does not depend on
the parser and the parser looks one token ahead, so the tree is the same.  A
lexer error is not modelled; it would end the compilation before the parser
runs.  A line is a logical one: inside brackets a newline is whitespace.  A
statement up to its newline or colon is one token named for its kind, `broken`
stands for all that no production accepts, and a second statement on one line
is possible.  So one behaviour is one file, and the space covers all files over
the given widths.

`PyLayout` says what the lines mean without tokens or calls, a line at a time:
a line at the indentation of an open block closes the blocks inside, a clause
continues the last statement of its block, a header is followed by a deeper
line, a class holds functions, a try needs a clause.

### The run

`layout` has three widths (0, 1, 2) and files of any length: with three widths two
levels can be closed at once, a line can come back to a width between two
levels, and an if can stand with its else in a try with its except in a
class.  A fourth width multiplies the states by twelve and brings only deeper
nests of the same; it passes too, in more than two minutes.

* `LevelsMatchBlocks`: as many levels as blocks, but for the token between.
* `BlocksAsWritten`: after each line the calls and the levels together are
  the structure `PyLayout` gives, width by width and statement by statement.
* `AcceptsAsPython`: a file laid out by Python's rules is rejected only for
  a blank or comment line directly behind a header (`consumeNewline` takes
  one NEWLINE and `parseBlock` expects INDENT), or because it is not complete;
  and what is accepted is whole.

The properties of this run speak of files up to the first line where the code
does not read what Python does (`py.ok`).  There are two kinds of such lines.  A dedent to a
width between two levels, which Python refuses, is taken into the outer block
(`NoProgram`).  And a blank line that ends in `\r`, or has spaces behind tabs,
is not taken for blank: Python skips it, the code opens or ends blocks by its
width (`NotRead`).

The comment in `handleIndentation` says that blank lines are skipped; for the
second kind they are not.  A file with CRLF ends has such a line wherever it has
an empty one, and nothing between `os.ReadFile` and the lexer takes the `\r` away,
so the code may refuse, or take otherwise, a file with CRLF ends that Python reads.

### The proofs (`LayoutProofs`)

For all widths and files of any length: `LayoutTypeCorrect` and `LevelsAreBlocks`.
`LevelsMatchBlocks` is about the number of blocks and the calls hold blocks and
statements, so `LayoutInv` adds that the two kinds alternate from the file
outwards: pushing a statement on a block, or a block on a statement, changes
the depth by none or by one.

`BlocksAreAsWritten` (`BlocksAsWritten`) and `AcceptedAsPython` (`AcceptsAsPython`)
compare the state with `py`, which already means the whole line when the lexer
has only seen where it begins.  `ReadInv` therefore says for each point inside a
line what is left to do (`InStep`): reading the rest of the line, by `PyLayout`,
in the blocks that levels and calls make now (`Open`) gives `py`.  It is
`Py!Line` while the indentation is looked at (`LineLeft`), `Py!PlaceIn` once it is
settled (`Entering` before the block of a header, `Placing` otherwise), and
nothing when the word has been taken (`Read`).  Each DEDENT closes one block, and
`LineOutside` says that the line means the same in what is left, if the block it
closes could end; `LineHere` and `LineDue` are the other two cases of a line.
At the end of the file only whether anything is unfinished is compared
(`Finished`).  `Shaped` knows of the calls that only the file's own block is named
so, that a decorator waits for its function and for nothing else, and that a
statement under a block is inside that block.

## Expressions: `Expressions`

### The code and the model

Expressions are parsed by precedence climbing: `parseExprPrec(k)` takes a unary
operand and then every operator that binds at least as tightly as `k`, and calls
itself for the right operands; the levels below it are functions of their own
(`parseUnary`, `parsePower`, `parsePrimary` with its postfix loop).  The tree is
a by-product of which call is active when an operator is met, so one wrong
minimum changes what `a - b - c` or `-x ** 2` means and no error is reported.

| TLA+ | code |
| --- | --- |
| `input`, `pos` | the tokens of one expression and the parser's place in them |
| `stack` | the active Go calls, each with the minimum it was called with and the parts it has parsed so far |
| `verdict` | the tree that was returned, or the error |
| `ExprMember`, `ExprBinary`, `ExprRight`, `ExprEnd` | the loop of `parseExprPrec`: `in` and `not in`, the other operators, the return |
| `Unary`, `Power`, `Primary`, `Paren`, `Brace`, `Postfix`, ... | the other functions, one action per way through them |

`PyGrammar` makes each phrase from the grammar: a text with its tree, with
parentheses exactly where the levels of Python's grammar need them.  It has no
numbers and no stack; chained comparisons, which spython parses as nested ones,
are not made.

### The run

`expressions` parses every phrase with up to three operators of the kinds whose
precedences meet (`or`, `and`, `<`, `+`, `*`, `**`, `not`, `-`), every phrase of
up to two forms of all kinds (brackets, calls with all kinds of arguments,
slices, displays, lambdas), and each of the short ones with one token left out.
`ParsesBack`: the parser returns the tree the phrase was made from, and never
ends in a state it has no step for: deadlock is checked and only a
verdict (`Finished`) may stand still.  Three operators are enough for one to be
taken by the wrong neighbour on either side; a fourth is a repetition of the
same loop.

## Arguments of calls: `Calls`

### The code and the model

Arguments are matched to parameters twice: by the checker (`matchCallArgs`),
which decides whether the call is right, and by the generator (`emitUserCall`),
which computes what goes into each slot and relies on the checker having
decided that something does.  Defaults, keyword-only parameters, `*args`,
`**kwargs` and unpacked lists and maps go through both.

| TLA+ | code |
| --- | --- |
| `params`, `Declarable` | the parameter list of a `def`, and which of them `parseFuncDef` takes |
| `Register`, `Registered`; `declared`, `kwOnlyStart` | the loop of `registerFuncSignature` over the parameters and its locals `paramNames`, `paramDefaults` and `kwOnlyStart` |
| `VarArgs`, `Kwargs` | the rest of its `FuncType` |
| `args`, `kws` | a call: positional and keyword arguments, each perhaps unpacked |
| `filled`, `posIdx` | the locals of `matchCallArgs` |
| `namedVals`, `overflow`, `leftoverKw` | the locals of `prepareCallArgs` |
| `parts` | the operands of the emitted call, in its order |

`PyBind` gives each parameter its value as Python does, at once and from the
names alone.

### The run

`calls`: every list of up to four parameters of all kinds in any order, up to
three arguments (each one value, an unpacked empty list, or one of two), up to two
keywords (known, unknown, repeated, an unpacked map).  Deadlock is not
checked: a call ends.  `SameMatch`: the two matchings agree, so that the
generator's internal error is never reached.  `BindsAsPython`: an accepted call
binds what Python binds, and Python accepts it.  A call that gives a keyword twice
is exempt: where the keyword goes into `**kwargs` the code takes such a call and
the last value wins, while Python raises `TypeError`, and nothing in the repository
says which of them is meant.  `RejectsAsPython`: a rejected call is an error in Python or one of the forms
the checker does not take (`NotTaken`).  Outside these: an unpacked map with the
name of a parameter among its keys (`MapNamesParameter`; Python binds it, spython
puts it into `**kwargs`), the order in which arguments are evaluated, and types.

### The proof (`CallsProofs`)

`MatchingsAgree`: `SameMatch` for any definition and any call.  The two passes
never hold the same state: the generator starts when the checker has long
finished, and its cursor stops at the first keyword-only parameter where the
checker's counts on.  So `MatchInv` says of each pass what it has filled as a
function of the arguments it has seen (`Given`): as many parameters as there are
single values before the current argument, up to the star, and those that
keywords before the current one name.

`RejectionsAgree`: `RejectsAsPython` for any definition and any call.  The checker
rejects at the argument it looks at; Python's rule is about the whole call.
Three things connect them.  `Signing` says of the loop over the parameters that
what it has declared is what was written with one star left out, so that the
first `kwOnlyStart` parameters are those Python fills by position.  `Taken` says of the
lists unpacked so far that all of them came behind the arguments for those
parameters.  And the number of values of a call (`ValuesLength`) is at least that of its
arguments that are not unpacked, and just that when none is: an induction over the
arguments, since the reference concatenates them (`FlattenIsLoop`).  Then each of
the five rejections is one of Python's, or of `NotTaken`.

`BindingsAgree`: `BindsAsPython` for any definition and any call.  It needs the values as
well as what has one, and so a second layer over the first: `Accepted`, all that
the checker has found of a call that it takes; `Shape`, where the stars of the
parameter list stand, which settles the order of the operands; and `ValuesInv`, which
says of each of the generator's loops what it has bound so far (`PositionsBound`,
`KeywordsBound`) and what it has kept for the stars (`RestKept`, `LeftoverKept`).
`AcceptedByPython` then refutes each of Python's five errors, and
`OperandsAgree` compares the operands with the parameters one by one.  The two folds, over
lists (`ConcatTail`) and over maps (`MapsMerged`), are inductions; maps are merged
in any order, since no key is given twice.

The assumption (`CallsAssumption`) is what the parser builds: lists of parameters of the
three kinds; an argument which is not unpacked is one value, a keyword which is
not has one key.

## Classes: `ClassTable` and `Classes`

### The code and the model

A class is known by offsets: the index of a field and the slot of a method are
computed from the static type of an expression, and only the pointer to the
method table at the start of the object knows the object's class.  Whether the
right cell is read depends on four passes over all classes having agreed.

| TLA+ | code |
| --- | --- |
| `decl` | the class definitions of a program |
| `RegisterType`, `RegisterMethods`, `InferFields` | the checker's passes: `registerClassType`, `registerClassMethods`, `inferClassFields` |
| `ComputeSlots`, `tables` | `computeSlots`; `slotOrder` and `slotOwner` of the generator, in one: the function in each slot |
| `AddAll` | the loops of `inferFieldsFromStmts` and `computeSlots`, which append what is not there yet |
| `ProgramAssumption` | what the parser can build: no two methods of one name in a class |
| `object` | an instance: its method table, and its fields by index |
| `static` | the type of the name it goes by |
| `running` | the method that runs, for `self` and `super()` |
| `Construct`, `ReadField`, `WriteField`, `CallMethod`, `CallSuper`, `PrintObject`, `IsInstance`, `Widen`, `ThroughList` | what the emitted code does at each kind of expression |

`PyClasses` has a dict of fields by name and looks methods up by name along the
bases.

### The run

`classes`: three classes with any bases, each with any of eight bodies that
define, override, reorder, and clash.  Three are the least for an override two
levels down, a `super()` that skips a class, and two classes with a common base.
`AcceptsCompatible`: refused are exactly the programs with a base not defined
yet, an override of another signature, or a field of two types.  `WellTyped`: the
object is of its static class or one below, and each cell holds a value of the
type its class gives it; nothing checks this at run time.  `RunsAsPython`: what
is read, called and asked is what Python's rules by name give.  One object and
the innermost method are on record: calls of methods nest without sharing
more than the object.  Deadlock is not checked: a refused program stops.

Left out by guards or by the choice of programs: a class that inherits the
synthesised `__str__` (it prints the base's fields), fields that are read
before they are assigned, a direct call of `__init__`, an override with other
parameter names or defaults (the checker compares types only), lists of a
wider element type that keep a second name, an instance passed as `Any`.

### The proofs (`ClassesProofs`)

For any number of classes with any bases, methods and fields: `TablesAreTyped`
(`TypeOK`), `StaticTypesHold` (`WellTyped`), `RefusesIncompatible`
(`AcceptsCompatible`) and `ClassesRunAsPython` (`RunsAsPython`).

* `CInv`: the program stands at one class of one pass (`Standing`); each class has
  what the passes it has been through compute of it, and a refused program is
  not `Compatible`.
* From the results of a pass follows what a class looks like from all its bases,
  not just the next: `FieldsRight` (each field once, at the same offset in every
  class that inherits it, of the type every assignment along the bases gives
  it), `MethodsRight`, `SlotsRight` (each slot at the same index below, in it the
  nearest definition).  These go along the bases by `GroundedInduction`, the loops
  of `AddAll` by `LoopInduction`; both take a set of indices and a least
  counterexample.
* `RInv`: the object is of its variable's class and of the class whose method
  runs, and has one cell for each field of its own class, of that field's type.
* For the refinement, what the recursive lookup of `PyClasses` gives is shown to
  be the greatest ancestor that defines the name: the function so defined
  satisfies the recursive equation, and two functions that satisfy it agree at
  the least class where they might not.

`AcceptsCompatible` is stronger than a soundness property: it says of each
refused program that it breaks one of the three rules, so comparing each class
with its base alone refuses nothing too much.

## Generators: `Generators`

### The code and the model

A generator function is compiled to a class: parameters, locals and the iterators of its
loops become fields, and `__next__` is the body with a switch at its start that
jumps to the label behind the yield where it stopped
(`codegen/generators.go`).  Nothing else survives a yield.  The end is thrown as
`StopIteration` into the frame which every loop over an iterator pushes around
its call of `__next__`.

| TLA+ | code |
| --- | --- |
| `program` | the bodies of two generator functions, one calling the other |
| `heap[o].state`, `env`, `iters` | the fields of a generator object: its state number, its locals, one slot per loop |
| `ResumeState`, `IterSlot` | the numbering of yields and of loops, done in two passes over the body |
| `calls` | the activations of `__next__` |
| `frames`, `thrown` | the runtime's exception chain and the in-flight exception |
| `Dispatch`, `Yield`, `StartLoop`, `Pull`, `TakeValue`, `Finish`, `Raise`, `Land` | the emitted switch, a yield, the parts of a loop over an iterator, the ways out |
| `Make`, `NextOf`, `TakeResult` | the module, which makes generators and calls `next` on them in any order |

`PyGenerators` runs a body through without ever stopping, and writes the yielded
values down; no state number, no slots and no frames.

### The run

`generators`: every body of up to four statements and five longer ones with
loops in loops, over four inner generators; two objects of the outer function,
four calls of `next` on each, in any order.  Numbers wrap at 4;
`PyGenerators` runs a body for 25 statements, enough for the first four values of
each (`FuelIsEnough`, which TLC evaluates: 50 statements answer nothing else), and a
body that loops without yielding does so in the model as well.  `DeliversAsPython`: each object yields its own values whatever other
objects do in between, then its error or `StopIteration` for ever.
`FramesMatchCalls`: no way in or out of a loop leaves a frame or lacks one.
Deadlock is not checked: the module ends when its calls are used up.

Left out, since locals of the resume function are lost or a frame
is gone after a return: yield or return inside a try, yield inside a `for` over a
range, list, set, string or map.  Left out too: `next` after an error,
`StopIteration` raised by a body itself, a generator that calls itself while it
runs, two loops on one iterator.

### The proofs (`IterationProofs`)

`FramesMatch`: `FramesMatchCalls` for any two functions, any objects and any calls of
`next`.  `ControlInv` adds that there is at most one result, and that an exception
is thrown by an activation while no result is on its way: otherwise `Land` could
find no frame, or take the one a returning call is about to pop.

`GeneratorsDeliver` and `GeneratorsAsPython`: what the calls of `next` give is what
Python's generator gives, for any two bodies, the inner one without a loop over
a generator (`GeneratorAssumption`), any objects and any order of calls.  The
compiled generator stops and goes on, Python's run in `PyGenerators` does not, so
the invariant `Tracked` keeps for each object a state of Python's run that is in step
with it, and each action moves one of them by a statement or by none:

* `Objects`: the state is reached by the run of its body on its argument
  (`Reached`), the locals are the same, and where the object is to go on - in its
  activation, or by the switch on its state number if it has none - is where the
  run stands (`PlaceOK`).  This is where both numberings matter: `YieldIs` and
  its like give the statement, `ResumeIs` that the state number leads back behind
  the yield, `SlotIs` that each loop has a slot of its own.
* `LoopsOK`: a loop that is open in the run has its iterator in its slot, an
  object nobody else calls (`O`), which has given as many values as the run has
  taken, one more while a value is being handed over.
* `Control`: the activations are an object of the module and the iterator of the
  loop where it waits; an exception in flight is the end of the run that threw
  it, and a `StopIteration` left state -1 behind.
* `Mains`: what the module got from an object is what its run has yielded so far,
  in order; after the end, the end.

Jumps need the shape of bodies: an end leads to its loop, a `break` behind it, and
the loops that are open at a place are those whose brackets are around it
(`EndIs`, `LoopIs`, `OpenLoopsKept`, by counting brackets); so a run is never in the
middle of a loop it has not started.  A run of the inner generator that is long enough
is needed before the outer one is right: `Reached` says it for every length from
some `M` on, and each statement may raise `M`.  `GeneratorsDeliver` therefore assumes
nothing about `Fuel`; `GeneratorsAsPython`, about the property the run checks, assumes
`FuelSuffices`: no longer run answers the first `MaxNext` calls differently.

## Lists: `Lists`

### The code and the model

`SpyList` is a block with a length and a capacity.  A loop over a list is
emitted with the length read once; `extend` reads it at each turn; a
sort with a key calls a closure for each element and then reads as many cells
as it counted at first.  Between these the user's code may do anything to any
list, and only `spy_list_get` and `spy_list_set` test an index.

| TLA+ | code |
| --- | --- |
| `heap` | the `SpyList` of each object: `len`, `cap`, `data`; `Junk` is memory nobody has written |
| `frames` | the loops, extends and sorts that are active, with their C locals |
| `spy_list_*`, `spy_slice_resolve` | the functions of that name |
| `AppendTo`, `Insert`, `Pop`, `Remove`, `SetItem`, `Sort`, `SliceOf`, ... | one operation each |
| `BeginWalk`, `Turn`, `BeginExtend`, `Extend`, `BeginSort`, `KeyReturns` | the start and each turn of a loop, an extend, a sort with a key |
| `Leave` | break, or an exception, leaves loops and sorts |
| `pc` | `abort`: `exit(1)` with a message; `undef`: a signed overflow in slice arithmetic |

Python integers have no width; those of a slice have 64 bits, here `W`.
`PyLists` is sequences with the same loops.  `out` holds what an operation was
asked for besides what it returned: which value was appended or removed, at
which index it was inserted or set, in which direction was sorted, which list was
added.  `PyLists` reads the request there and says what the list must be then
(`Change`), so an insert at another place or a sort the other way round is no
step of it.

`wild` becomes true when a program does what nothing is promised for: a key function
that uses the list being sorted, a loop whose list has another length when a
turn begins (Python would go on with the new length; the code aborts, or misses
elements), a list extended by itself (the code reads its source through a
block that has moved), and a slice step too large to be added to a length.
`MemoryOK` is checked and proved for wild programs too, `ListsAsPython` for the
others.

Left out: negative indices of items and of insert, which the code does not
count from the end (items abort, insert takes 0); `index` of an absent element
gives -1 and errors end the process where Python raises; the key function
is not called for a list of one element; the arrays of a sort are leaked when the key
function raises.

### The run

`lists`: two lists of up to three elements out of two, an initial capacity of 2
so that one block grows, two loops or sorts in each other with three turns
together, four-bit integers with bounds around both ends of a list and of the
range and every kind of step.  `InitCap` is 8 in the code; that nothing
depends on it is part of the theorem.  Slices are tried outside loops only
(`SliceDepth`), since they read no loop's state.  The two lists are symmetric.  The view leaves out `out`,
which no step reads and which the refinement compares in the step that sets it, and the content of cells that no step
may read any more.  Deadlock is not checked: an aborted program stops.

### The proofs (`ListsProofs`)

`ListsMemory`: `MemoryOK` for any number of lists, elements of any kind, lists of any length,
any nest of loops and sorts, any bounds and steps of slices.  It is inductive.
What carries it is that no operation makes a block smaller or unwrites a cell
(`Keeps`): a sort may find the list shorter than it counted, but the cells it
will read are still there.  Slices need the arithmetic of `SliceCells`: each
index from a resolved start, step and length lies in the list.

`ListsImplementPython`: `ListsAsPython`, in the same generality.  A block is seen as the
sequence of its elements (`Own`), and the lemmas `OwnAppend`, `OwnInsert`, ...,
`OwnSort`, `OwnSlice` say of each runtime function that it does to the block
what Python does to the sequence.  The sort is the hard one: whichever order
its comparison allows is the order by rank (`Counted`), which there is only one
of; and of slices that what `spy_slice_resolve` clamps and rounds are the places
Python means, from either end and in either direction (`PlacesAre`, `CountIs`).
Steps then need an invariant besides `MemoryOK`, `UseOK`: no list is longer than
`MaxLen`; an extend is the innermost of what goes on; and until the program does
something wild, a list that is sorted has the length the sort began with, and
an extend reads another list, which is not being sorted.  An
extend is one step in Python and a turn for each element here; the rest of its
source counts as there already (`Elements`), so that its first step is
Python's and its turns are seen as nothing.  The proof assumes that lengths stay
below the largest integer (`ListAssumption`).

## What is proved and what is only checked

Theorems hold for every value of the constants under the module's named
assumption (`ExcAssumption` and the like), which TLC also evaluates.  The runs
check on a small instance each property a theorem states but the types of the
hash table (`TableTypeCorrect`), and in addition one that has no proof yet:

* `ParsesBack`: its reference is recursive over the text; a proof for every text is
  an induction over it.

`ExcLoweringProofs` has two conditions besides: `NoUnarmedExits`, the program
shapes for which the emitted code is right (for `exit_try_body` it is not, as
`exc_stale` shows), and for two theorems `NoHandlingInRethrow`.  `GeneratorsAsPython` has `FuelSuffices`.

Recursion is no obstacle as such: what a recursive function computes is shown by
naming a function that satisfies its equation, and inductions over numbers,
loops and bases go by a least counterexample in a set (`LeastNat`,
`LoopInduction`, `BaseInduction`), since the library's induction theorems take an
operator and cannot be instantiated.

Out of the prover's reach and left to TLC: liveness under fairness (`UnwindEnds`,
`Ends`, `CallReturns`, `JobsAreFreed`) and `ENABLED`; anything in a
module with a RECURSIVE operator.

## What is not modelled

Left on the [plan](#plan): scopes, `heapq`, descriptors.  Within modelled
components: strings and conversions of the runtime; arithmetic, comparisons and
closures in the emitted code, and the order in which operands are evaluated; the
checker's containers, unions and narrowing; annotations, imports and assignment
targets in the parser; sibling C files in the loader.  Not planned:
diagnostics, the driver (it runs clang on temporary files), the text and
encoding libraries (byte-by-byte transformations or external C libraries), and
the wrappers over the operating system.
