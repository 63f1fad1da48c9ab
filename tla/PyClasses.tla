----------------------------- MODULE PyClasses -----------------------------
(***************************************************************************)
(* What classes mean in Python: an object knows its class and has a dict of *)
(* attributes; a method is looked up by name in the object's class and then *)
(* along its bases, and super() looks it up above the class whose method is *)
(* running.  There are no static types, slots or offsets.                  *)
(***************************************************************************)
EXTENDS Naturals

CONSTANTS Count, Attr, Values, Unset

VARIABLES base,     \* class -> its base, or 0
          own,      \* class -> the methods its body defines
          object,   \* [class, dict], or NoObject
          running,  \* the method that runs, [class, name], or TopLevel
          seen      \* what the last expression gave

vars == <<base, own, object, running, seen>>

Class    == 1..Count
NoObject == [class |-> 0, dict |-> [a \in Attr |-> Unset]]
TopLevel == [class |-> 0, name |-> "module"]
Nothing  == "nothing"

\* The class that gives class c its method m, or 0.
Lookup(c, m) == LET up[d \in 0..Count] == IF d = 0 \/ m \in own[d] THEN d ELSE up[base[d]]
                IN  up[c]
Subclass(c) == LET up[d \in Class] == d = c \/ (base[d] # 0 /\ up[base[d]])
               IN  up

Init == /\ object = NoObject /\ running = TopLevel /\ seen = Nothing

Run(class, name) == running' = [class |-> class, name |-> name]

Make(c) == /\ object' = [class |-> c, dict |-> NoObject.dict]
           /\ IF Lookup(c, "__init__") = 0 THEN running' = TopLevel
              ELSE Run(Lookup(c, "__init__"), "__init__")
           /\ seen' = Nothing

Set(a, v) == /\ object # NoObject
             /\ object' = [object EXCEPT !.dict[a] = v]
             /\ seen' = Nothing /\ UNCHANGED running

Get(a) == /\ object # NoObject /\ object.dict[a] # Unset
          /\ seen' = object.dict[a]
          /\ UNCHANGED <<object, running>>

\* A method nobody defines is object's own, said to run in the object's class.
Call(m) == /\ object # NoObject
           /\ LET c == Lookup(object.class, m)
              IN  /\ c # 0 \/ m = "__str__"
                  /\ Run(IF c = 0 THEN object.class ELSE c, m)
           /\ seen' = Nothing /\ UNCHANGED object

Super(m) == /\ running # TopLevel
            /\ LET c == Lookup(base[running.class], m) IN c # 0 /\ Run(c, m)
            /\ seen' = Nothing /\ UNCHANGED object

Return == /\ running # TopLevel /\ running' = TopLevel
          /\ seen' = Nothing /\ UNCHANGED object

Ask(c) == /\ object # NoObject
          /\ seen' = IF Subclass(c)[object.class] THEN "True" ELSE "False"
          /\ UNCHANGED <<object, running>>

Next == /\ UNCHANGED <<base, own>>
        /\ \/ \E c \in Class : Make(c) \/ Ask(c)
           \/ \E a \in Attr : Get(a) \/ \E v \in Values : Set(a, v)
           \/ \E m \in {"__str__"} \cup UNION {own[c] : c \in Class} : Call(m) \/ Super(m)
           \/ Return

Spec == Init /\ [][Next]_vars
=============================================================================
