----------------------------- MODULE ClassTable -----------------------------
(***************************************************************************)
(* The class definitions of a module on their way through the compiler.    *)
(* The checker goes over them three times: it registers their names and     *)
(* bases, then their method signatures, then infers their fields from       *)
(* __init__; the code generator then gives every class a struct and a       *)
(* table of methods.  Classes are numbered in the order they are written.  *)
(***************************************************************************)
EXTENDS Naturals, Sequences, FiniteSets

CONSTANTS Count,      \* the classes are 1..Count
          Programs,   \* class -> what its definition says
          Attr, FieldTypes

Class == 1..Count
None  == 0
Names(seq) == {seq[i].name : i \in DOMAIN seq}

\* What the parser builds of a class: its base, the methods of its body and the
\* assignments to fields of self in its __init__.  No method is there twice: the
\* module would have two functions of one name.
Definition == [base    : 0..Count,
               methods : Seq([name : STRING, sig : STRING]),
               sets    : Seq([name : Attr, type : FieldTypes])]

ASSUME ProgramAssumption ==
  /\ Count \in Nat
  /\ Programs \subseteq [Class -> Definition]
  /\ \A p \in Programs : \A c \in Class : \A i, j \in DOMAIN p[c].methods :
       p[c].methods[i].name = p[c].methods[j].name => i = j

VARIABLES decl,       \* the definition of each class
          pass, next, \* the pass, and the class it is at
          types,      \* ClassType of each class
          tables      \* slotOrder and slotOwner of each class, in one: the
                      \* function in each slot, as [class, name]

tableVars == <<decl, pass, next, types, tables>>

IndexOf(seq, name) == CHOOSE i \in DOMAIN seq : seq[i].name = name

Unregistered == [base |-> None, fields |-> <<>>, methods |-> <<>>, id |-> 0]

TablesInit == /\ decl \in Programs
              /\ pass = "types" /\ next = 1
              /\ types = [c \in Class |-> Unregistered]
              /\ tables = [c \in Class |-> <<>>]

Pass(p) == pass = p /\ next \in Class
Refuse  == pass' = "refused" /\ UNCHANGED <<decl, next, types, tables>>
Advance == next' = next + 1 /\ UNCHANGED <<decl, pass>>
-----------------------------------------------------------------------------
\* registerClassType: the base is a class registered before.
RegisterType ==
  /\ Pass("types")
  /\ LET base == decl[next].base
     IN  IF base # None /\ types[base] = Unregistered
         THEN Refuse
         ELSE /\ types' = [types EXCEPT ![next].base = base, ![next].id = next]
              /\ Advance /\ UNCHANGED tables

\* registerClassMethods: the base's signatures, then the class's own.
Inherited(c) == IF types[c].base = None THEN <<>> ELSE types[types[c].base].methods
OwnMethods(c) == Names(decl[c].methods)
OwnSig(c, m) == decl[c].methods[IndexOf(decl[c].methods, m)].sig

\* An override has the signature it overrides; __init__ is exempt.
MismatchedAny(c) == \E m \in OwnMethods(c) \cap DOMAIN Inherited(c) :
                       Inherited(c)[m] # OwnSig(c, m)
Mismatched(c) == \E m \in OwnMethods(c) \cap DOMAIN Inherited(c) :
                    m # "__init__" /\ Inherited(c)[m] # OwnSig(c, m)

RegisterMethods ==
  /\ Pass("methods")
  /\ IF Mismatched(next)
     THEN Refuse
     ELSE /\ types' = [types EXCEPT ![next].methods =
                         [m \in DOMAIN Inherited(next) \cup OwnMethods(next) |->
                            IF m \in OwnMethods(next) THEN OwnSig(next, m)
                            ELSE Inherited(next)[m]]]
          /\ Advance /\ UNCHANGED tables

\* inferFieldsFromStmts and computeSlots append what has a name that is not there.
AddAgain(seq, e, skip) == Append(seq, e)
Add(seq, e, skip) == IF e.name \in Names(seq) \cup skip THEN seq ELSE Append(seq, e)
AddAll(seq, new, skip) ==
  LET after[n \in 0..Len(new)] == IF n = 0 THEN seq ELSE Add(after[n - 1], new[n], skip)
  IN  after[Len(new)]

\* self.f = v declares a field, or meets the one there is.
Conflict(fields, sets) == \E i \in DOMAIN sets :
  fields[IndexOf(fields, sets[i].name)].type # sets[i].type

\* inferClassFields: the base's fields come first.
BaseFields(c) == IF types[c].base = None THEN <<>> ELSE types[types[c].base].fields

InferFields ==
  /\ Pass("fields")
  /\ LET fields == AddAll(BaseFields(next), decl[next].sets, {})
     IN  IF Conflict(fields, decl[next].sets)
         THEN Refuse
         ELSE /\ types' = [types EXCEPT ![next].fields = fields]
              /\ Advance /\ UNCHANGED tables

\* computeSlots: the base's slots, which an override takes over, then those of new
\* methods, then one for each of the two methods every object has.
OverBase(c) == LET base == IF types[c].base = None THEN <<>> ELSE tables[types[c].base]
               IN  [i \in DOMAIN base |-> IF base[i].name \in OwnMethods(c)
                                         THEN [base[i] EXCEPT !.class = c] ELSE base[i]]
OwnSlots(c) == LET n == Len(decl[c].methods) IN
                 [i \in 1..n + 2 |->
                    [class |-> c, name |-> CASE i <= n     -> decl[c].methods[i].name
                                             [] i = n + 1 -> "__str__"
                                             [] i = n + 2 -> "__repr__"]]

ComputeSlots ==
  /\ Pass("slots")
  /\ tables' = [tables EXCEPT ![next] = AddAll(OverBase(next), OwnSlots(next), {"__init__"})]
  /\ Advance /\ UNCHANGED types

NextPass ==
  /\ next = Count + 1
  /\ \E i \in 1..4 : /\ pass = <<"types", "methods", "fields", "slots">>[i]
                     /\ pass' = <<"methods", "fields", "slots", "run">>[i]
  /\ next' = 1
  /\ UNCHANGED <<decl, types, tables>>

Compile == RegisterType \/ RegisterMethods \/ InferFields \/ ComputeSlots \/ NextPass
-----------------------------------------------------------------------------
(* What the checker and the generator ask of the registered classes.       *)

\* IsSubclassOf: along the bases, which come before the class.
AncestorsIn(base) == LET up[c \in Class] ==
                           {c} \cup IF base[c] = None THEN {} ELSE up[base[c]]
                     IN  up
Ancestors == AncestorsIn([c \in Class |-> types[c].base])
IsSubclassOf(c, d) == d \in Ancestors[c]

\* findMethodOwner, findInitOwner: the nearest class that defines the method.
Definers(c, m) == {d \in Ancestors[c] : m \in OwnMethods(d)}
FindMethodOwner(c, m) == IF Definers(c, m) = {} THEN None
                         ELSE CHOOSE d \in Definers(c, m) : \A e \in Definers(c, m) : e <= d
FindInitOwner(c) == FindMethodOwner(c, "__init__")

\* emitVTable: the functions of a class's methods, by slot.
VTable(c)  == tables[c]
Slot(c, m) == IndexOf(tables[c], m)

HasField(c, f)   == f \in Names(types[c].fields)
FieldIdx(c, f)   == IndexOf(types[c].fields, f)
FieldType(c, f)  == types[c].fields[FieldIdx(c, f)].type
=============================================================================
