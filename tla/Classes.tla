------------------------------ MODULE Classes ------------------------------
(***************************************************************************)
(* The classes of ClassTable at run time.  A program holds one object in a   *)
(* variable and does to it whatever the checker allows: it reads and        *)
(* writes fields, calls methods, goes up with super(), asks isinstance, and  *)
(* moves the object into variables and lists of a wider static type.  Every *)
(* field index and every slot comes from the static type of the expression;  *)
(* only the vtable in the object knows its class.                           *)
(*                                                                          *)
(* One method at a time is on record, the innermost: when it returns, its    *)
(* caller goes on as the module does, with the object as it finds it.        *)
(***************************************************************************)
EXTENDS ClassTable

CONSTANT Zero       \* what the fields of a new object hold

VARIABLES static,   \* the class the variable is declared or inferred with
          object,   \* [class, cells]: the vtable and the fields by offset
          running,  \* the method that runs, [class, name]
          seen      \* what the last expression gave

vars == <<tableVars, static, object, running, seen>>

NoObject == [class |-> None, cells |-> <<>>]
TopLevel == [class |-> None, name |-> "module"]
Nothing  == "nothing"

Init == /\ TablesInit
        /\ static = None /\ object = NoObject /\ running = TopLevel /\ seen = Nothing

Can     == pass = "run"
Holding == Can /\ object # NoObject

\* The type of the name the object goes by: in a method, self has the class
\* that defines the method, whatever object it was called on.
Self == IF running = TopLevel THEN static ELSE running.class

\* A value is known by its type.
Store(i, v) == object' = [object EXCEPT !.cells[i] = v]
Result(b)   == seen' = IF b THEN "True" ELSE "False"
Invoke(target) == /\ running' = [class |-> target.class, name |-> target.name]
                  /\ seen' = Nothing
                  /\ UNCHANGED <<object, static>>
-----------------------------------------------------------------------------
\* emitConstructorCall: a zeroed instance, its vtable, then the __init__ of
\* the nearest class that has one.
Construct(c) ==
  /\ Can /\ running = TopLevel
  /\ object' = [class |-> c, cells |-> [i \in DOMAIN types[c].fields |-> Zero]]
  /\ static' = c
  /\ running' = IF FindInitOwner(c) = None THEN TopLevel
                ELSE [class |-> FindInitOwner(c), name |-> "__init__"]
  /\ seen' = Nothing

\* checkAttrAssignStmt, emitAttrAssignStmt.
WriteField(f) ==
  /\ Holding
  /\ HasField(Self, f)
  /\ Store(FieldIdx(Self, f), FieldType(Self, f))
  /\ seen' = Nothing /\ UNCHANGED <<static, running>>

\* emitExpr of an attribute.  The program reads no field it has not assigned.
ReadField(f) ==
  /\ Holding
  /\ HasField(Self, f)
  /\ object.cells[FieldIdx(Self, f)] # Zero
  /\ seen' = object.cells[FieldIdx(Self, f)]
  /\ UNCHANGED <<object, static, running>>

\* emitVirtualCall: the slot of the static class, in the vtable of the object.
StaticTarget(m)  == VTable(Self)[Slot(Self, m)]
VirtualTarget(m) == VTable(object.class)[Slot(Self, m)]

CallMethod(m) ==
  /\ Holding
  /\ m \in DOMAIN types[Self].methods /\ m # "__init__"
  /\ ~HasField(Self, m)
  /\ Invoke(VirtualTarget(m))

\* printInstance, and str(): __str__ has a slot in every class.  A class that
\* inherits the synthesized one is left out: its objects would appear as
\* objects of the base that function was made for.
InheritsDefault(c) == types[c].base # None /\ FindMethodOwner(c, "__str__") = None

PrintObject ==
  /\ Holding
  /\ ~InheritsDefault(object.class)
  /\ Invoke(VirtualTarget("__str__"))

\* emitSuperCall: from the base of the class whose method this is, unvirtually.
CallSuper(m) ==
  /\ Holding /\ running # TopLevel
  /\ types[running.class].base # None
  /\ LET owner == FindMethodOwner(types[running.class].base, m)
     IN  owner # None /\ Invoke([class |-> owner, name |-> m])

Return == /\ Can /\ running # TopLevel
          /\ running' = TopLevel
          /\ seen' = Nothing /\ UNCHANGED <<object, static>>

\* emitIsInstanceVtabWalk: class ids, from the object's vtable along the bases'.
VtabWalk(c, id) == LET walk[v \in Class] ==
                         types[v].id = id \/ (types[v].base # None /\ walk[types[v].base])
                   IN  walk[c]

IsInstance(c) == /\ Holding
                 /\ Result(VtabWalk(object.class, types[c].id))
                 /\ UNCHANGED <<object, static, running>>
-----------------------------------------------------------------------------
\* IsAssignable: into a variable, parameter or result annotated with class c.
Widen(c) == /\ Holding /\ running = TopLevel
            /\ IsSubclassOf(static, c)
            /\ static' = c
            /\ UNCHANGED <<object, running, seen>>

\* mergeInstanceTypes: the first of b's ancestors that is one of a's.
Common(a, b) == Ancestors[a] \cap Ancestors[b]
MergeToLast(a, b) == b
MergeInstanceTypes(a, b) == CHOOSE c \in Common(a, b) : \A d \in Common(a, b) : d <= c

\* checkListLit: [p, q], and p read back from it, where q is of class c.
ThroughList(c) ==
  /\ Holding /\ running = TopLevel
  /\ Common(static, c) # {}
  /\ static' = MergeInstanceTypes(static, c)
  /\ UNCHANGED <<object, running, seen>>

MethodNames == UNION {OwnMethods(c) : c \in Class}

Execute == /\ UNCHANGED tableVars
           /\ \/ \E c \in Class : Construct(c) \/ Widen(c) \/ ThroughList(c) \/ IsInstance(c)
              \/ \E f \in Attr : ReadField(f) \/ WriteField(f)
              \/ \E m \in MethodNames : CallMethod(m) \/ CallSuper(m)
              \/ PrintObject \/ Return

Next == \/ Compile /\ UNCHANGED <<static, object, running, seen>>
        \/ Execute

Spec == Init /\ [][Next]_vars
-----------------------------------------------------------------------------
\* Every class has each field and each slot once, and an object one cell for
\* each field its class has (emitClassTypes, emitConstructorCall).
TypeOK ==
  /\ pass \in {"types", "methods", "fields", "slots", "run", "refused"}
  /\ next \in 1..(Count + 1)
  /\ \A c \in Class :
       /\ types[c].base \in 0..Count /\ types[c].id \in 0..Count
       /\ \A i \in DOMAIN types[c].fields :
            types[c].fields[i].name \in Attr /\ types[c].fields[i].type \in FieldTypes
       /\ Cardinality(Names(types[c].fields)) = Len(types[c].fields)
       /\ Cardinality(Names(tables[c])) = Len(tables[c])
  /\ static \in 0..Count /\ running.class \in 0..Count
  /\ object # NoObject => Len(object.cells) = Len(types[object.class].fields)

\* Whatever the object goes by, its class is one of that type's subclasses, and
\* what its fields hold has the type its own class gives them (checkAssignStmt,
\* checkListLit, emitMethodFuncDef: nothing is checked at run time).
WellTyped ==
  object # NoObject =>
    /\ IsSubclassOf(object.class, static)
    /\ running # TopLevel => IsSubclassOf(object.class, running.class)
    /\ \A i \in DOMAIN object.cells :
         object.cells[i] \in {Zero, types[object.class].fields[i].type}

\* A program is refused only for a base that is not defined yet, an override of
\* another signature, or a field of two types, anywhere along the bases
\* (registerClassType, registerClassMethods, inferClassFields).
Compatible ==
  LET above == AncestorsIn([c \in Class |-> decl[c].base])
  IN  /\ \A c \in Class : decl[c].base < c
      /\ \A c \in Class : \A d \in above[c] :
           /\ \A i \in DOMAIN decl[c].sets, j \in DOMAIN decl[d].sets :
                decl[c].sets[i].name = decl[d].sets[j].name =>
                  decl[c].sets[i].type = decl[d].sets[j].type
           /\ \A m \in (OwnMethods(c) \cap OwnMethods(d)) \ {"__init__"} :
                OwnSig(c, m) = OwnSig(d, m)
AcceptsCompatible == /\ pass = "run" => Compatible
                     /\ pass = "refused" => ~Compatible

\* Offsets, slots and static types come to Python's dicts and lookups by name:
\* a field read gives what was last stored under its name, through whatever
\* class; a call runs the method Python would run, super() goes to the next
\* class above the one whose method runs, and isinstance tells subclasses.
PyDict == [a \in Attr |-> IF object # NoObject /\ HasField(object.class, a)
                          THEN object.cells[FieldIdx(object.class, a)] ELSE Zero]
Py == INSTANCE PyClasses
        WITH Values <- FieldTypes, Unset <- Zero,
             base <- [c \in Class |-> decl[c].base],
             own <- [c \in Class |-> OwnMethods(c)],
             object <- [class |-> object.class, dict |-> PyDict]
RunsAsPython == Py!Spec
=============================================================================
