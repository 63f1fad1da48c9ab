------------------------------- MODULE Calls -------------------------------
(***************************************************************************)
(* A function is defined and called: the parser and checker take the        *)
(* parameter list apart (parseFuncDef, registerFuncSignature), the checker   *)
(* matches the call's arguments with it (matchCallArgs), and the code        *)
(* generator matches them again, on its own, to emit the call               *)
(* (prepareCallArgs).  The callee takes the parts in the order it declares   *)
(* its parameters.                                                          *)
(*                                                                          *)
(* Types are left out: every argument has a type its parameter accepts.     *)
(***************************************************************************)
EXTENDS Integers, Sequences

CONSTANTS ParamLists,   \* parameters as written, [name, kind, default]
          ArgLists,     \* positional arguments as written, [star, list]
          KwLists       \* keyword arguments as written, [star, map]

IsList(l) == Len(l) \in Nat /\ l = [n \in 1..Len(l) |-> l[n]]

\* What is not unpacked is one value; a keyword that is not, one key.
CallsAssumption ==
  /\ \A l \in ParamLists \cup ArgLists \cup KwLists : IsList(l)
  /\ \A l \in ParamLists : \A p \in DOMAIN l : l[p].kind \in {"named", "*", "**"}
  /\ \A l \in ArgLists : \A a \in DOMAIN l :
       IsList(l[a].list) /\ (~l[a].star => Len(l[a].list) = 1)
  /\ \A l \in KwLists : \A k \in DOMAIN l :
       ~l[k].star => \E key \in DOMAIN l[k].map : DOMAIN l[k].map = {key}

ASSUME CallsAssumption

VARIABLES params, args, kws,      \* the definition and the call
          declared, kwOnlyStart,  \* registerFuncSignature: the named parameters, and how
                                  \* many come before the star; -1: not known yet
          pc,
          i,                      \* the index of the loop that is running
          filled,                 \* matchCallArgs: the parameters that have a value
          posIdx,
          namedVals,              \* prepareCallArgs: <<>> or <<value>> for each
          overflow, leftoverKw,
          parts                   \* the operands of the emitted call

source == <<params, args, kws>>
sign   == <<declared, kwOnlyStart>>
match  == <<filled, posIdx>>
emit   == <<namedVals, overflow, leftoverKw, parts>>
vars   == <<source, sign, pc, i, match, emit>>

Py == INSTANCE PyBind

Init == /\ params \in ParamLists
        /\ args = <<>> /\ kws = <<>>
        /\ pc = "define"
        /\ declared = <<>> /\ kwOnlyStart = -1
        /\ i = 1 /\ posIdx = 1
        /\ filled = {} /\ namedVals = <<>>
        /\ overflow = <<>> /\ leftoverKw = <<>> /\ parts = <<>>
-----------------------------------------------------------------------------
Before(p, kind) == \E q \in 1..(p - 1) : params[q].kind = kind

\* The parameter list parseFuncDef lets through.
Declarable ==
  \A p \in DOMAIN params :
    CASE params[p].kind = "**" -> ~Before(p, "**")
      [] params[p].kind = "*" -> ~Before(p, "*") /\ ~Before(p, "**")
      [] OTHER ->
           /\ ~Before(p, "**")
           /\ ~Before(p, "*") /\ ~params[p].default =>
                \A q \in 1..(p - 1) : ~params[q].default

Define == /\ pc = "define"
          /\ pc' = IF Declarable THEN "register" ELSE "undefined"
          /\ UNCHANGED <<source, sign, i, match, emit>>

More(at, list) == pc = at /\ i <= Len(list)

\* registerFuncSignature
KnownStart == IF kwOnlyStart = -1 THEN Len(declared) ELSE kwOnlyStart

Register ==
  /\ More("register", params)
  /\ \/ /\ params[i].kind = "named"
        /\ declared' = Append(declared, params[i])
        /\ UNCHANGED kwOnlyStart
     \/ /\ params[i].kind = "*"
        /\ kwOnlyStart' = KnownStart
        /\ UNCHANGED declared
     \/ /\ params[i].kind = "**"
        /\ UNCHANGED sign
  /\ i' = i + 1
  /\ UNCHANGED <<source, pc, match, emit>>

Registered == /\ pc = "register" /\ i > Len(params)
              /\ kwOnlyStart' = KnownStart
              /\ pc' = "defined" /\ i' = 1
              /\ UNCHANGED <<source, declared, match, emit>>

\* FuncType.
nNamed       == Len(declared)
ParamName(p) == declared[p].name
VarArgs      == \E p \in DOMAIN params : params[p].kind = "*"
Kwargs       == \E p \in DOMAIN params : params[p].kind = "**"

Call == /\ pc = "defined"
        /\ args' \in ArgLists /\ kws' \in KwLists
        /\ pc' = "args"
        /\ UNCHANGED <<params, sign, i, match, emit>>
-----------------------------------------------------------------------------
(* matchCallArgs *)

\* The loop goes on when ok, else the call is an error.
CheckedArg(ok) ==
  /\ IF ok THEN i' = i + 1 /\ UNCHANGED pc ELSE pc' = "rejected" /\ UNCHANGED i
  /\ UNCHANGED <<source, sign, emit>>

CheckUnpack ==
  /\ More("args", args) /\ args[i].star
  /\ CheckedArg(VarArgs /\ posIdx > kwOnlyStart)
  /\ UNCHANGED match

CheckPositional ==
  /\ More("args", args) /\ ~args[i].star
  /\ CheckedArg(posIdx <= kwOnlyStart \/ VarArgs)
  /\ filled' = IF posIdx <= kwOnlyStart THEN filled \cup {posIdx} ELSE filled
  /\ posIdx' = IF posIdx <= kwOnlyStart \/ VarArgs THEN posIdx + 1 ELSE posIdx

ArgsChecked == /\ pc = "args" /\ i > Len(args)
               /\ pc' = "kws" /\ i' = 1
               /\ UNCHANGED <<source, sign, match, emit>>

CheckDoubleUnpack == /\ More("kws", kws) /\ kws[i].star
                     /\ CheckedArg(Kwargs)
                     /\ UNCHANGED match

\* The parameter of keyword k, or none.
Matching(k) == {p \in 1..nNamed : ParamName(p) \in DOMAIN k.map}

CheckKeyword ==
  /\ More("kws", kws) /\ ~kws[i].star
  /\ LET m == Matching(kws[i])
     IN  /\ CheckedArg(IF m = {} THEN Kwargs ELSE m \cap filled = {})
         /\ filled' = filled \cup m
  /\ UNCHANGED posIdx

\* Mutant: defaults are looked for in positional parameters only.
KwsCheckedPositional ==
  /\ pc = "kws" /\ i > Len(kws)
  /\ pc' = IF \A p \in 1..nNamed : p \in filled \/ (declared[p].default /\ p <= kwOnlyStart)
           THEN "emit args" ELSE "rejected"
  /\ i' = 1 /\ posIdx' = 1
  /\ namedVals' = [p \in 1..nNamed |-> <<>>]
  /\ UNCHANGED <<source, sign, filled, overflow, leftoverKw, parts>>

KwsChecked ==
  /\ pc = "kws" /\ i > Len(kws)
  /\ pc' = IF \A p \in 1..nNamed : p \in filled \/ declared[p].default
           THEN "emit args" ELSE "rejected"
  /\ i' = 1 /\ posIdx' = 1
  /\ namedVals' = [p \in 1..nNamed |-> <<>>]
  /\ UNCHANGED <<source, sign, filled, overflow, leftoverKw, parts>>
-----------------------------------------------------------------------------
(* prepareCallArgs *)

BindArg ==
  /\ More("emit args", args)
  /\ LET named == ~args[i].star /\ posIdx <= kwOnlyStart
     IN  /\ namedVals' = IF named THEN [namedVals EXCEPT ![posIdx] = args[i].list] ELSE namedVals
         /\ posIdx' = IF named THEN posIdx + 1 ELSE posIdx
         /\ overflow' = IF named THEN overflow ELSE Append(overflow, args[i])
  /\ i' = i + 1
  /\ UNCHANGED <<source, sign, pc, filled, leftoverKw, parts>>

ArgsBound == /\ pc = "emit args" /\ i > Len(args)
             /\ pc' = "emit kws" /\ i' = 1
             /\ UNCHANGED <<source, sign, match, emit>>

\* Mutant: an unpacked map fills named parameters that are still open.
BindKeywordOpen ==
  /\ More("emit kws", kws)
  /\ LET slots == {p \in Matching(kws[i]) : namedVals[p] = <<>>}
     IN  IF slots = {}
         THEN leftoverKw' = Append(leftoverKw, kws[i]) /\ UNCHANGED namedVals
         ELSE /\ namedVals' = [p \in 1..nNamed |->
                    IF p \in slots THEN <<kws[i].map[ParamName(p)]>> ELSE namedVals[p]]
              /\ UNCHANGED leftoverKw
  /\ i' = i + 1
  /\ UNCHANGED <<source, sign, pc, match, overflow, parts>>

BindKeyword ==
  /\ More("emit kws", kws)
  /\ LET slots == {p \in Matching(kws[i]) : ~kws[i].star /\ namedVals[p] = <<>>}
     IN  IF slots = {}
         THEN leftoverKw' = Append(leftoverKw, kws[i]) /\ UNCHANGED namedVals
         ELSE /\ namedVals' = [p \in 1..nNamed |->
                    IF p \in slots THEN <<kws[i].map[ParamName(p)]>> ELSE namedVals[p]]
              /\ UNCHANGED leftoverKw
  /\ i' = i + 1
  /\ UNCHANGED <<source, sign, pc, match, overflow, parts>>

\* emitNamedSlot, where the slot has a value or a default.
Slot(p) == Py!One(IF namedVals[p] # <<>> THEN namedVals[p][1] ELSE Py!Default(ParamName(p)))
Slots(from, to) == [p \in 1..(to - from + 1) |-> Slot(from + p - 1)]

buildVarArgsList ==
  LET list[n \in 0..Len(overflow)] ==
        IF n = 0 THEN <<>> ELSE list[n - 1] \o overflow[n].list
  IN  list[Len(overflow)]

\* spy_map_set for one key, spy_map_extend for those of a map.
Extended(map, by) ==
  [k \in DOMAIN map \cup DOMAIN by |-> IF k \in DOMAIN by THEN by[k] ELSE map[k]]

buildKwargsMap ==
  LET map[n \in 0..Len(leftoverKw)] ==
        IF n = 0 THEN <<>> ELSE Extended(map[n - 1], leftoverKw[n].map)
  IN  map[Len(leftoverKw)]

\* Mutant: the named parameters first, then those of stars.
OperandsNamedFirst ==
  Slots(1, nNamed) \o (IF VarArgs THEN <<Py!Many(buildVarArgsList)>> ELSE <<>>)
  \o (IF Kwargs THEN <<Py!Keyed(buildKwargsMap)>> ELSE <<>>)

Operands == Slots(1, kwOnlyStart)
            \o (IF VarArgs THEN <<Py!Many(buildVarArgsList)>> ELSE <<>>)
            \o Slots(kwOnlyStart + 1, nNamed)
            \o (IF Kwargs THEN <<Py!Keyed(buildKwargsMap)>> ELSE <<>>)

\* emitUserCall
EmitCall ==
  /\ pc = "emit kws" /\ i > Len(kws)
  /\ \A p \in 1..nNamed : (namedVals[p] # <<>> \/ declared[p].default)
  /\ parts' = Operands
  /\ pc' = "called"
  /\ UNCHANGED <<source, sign, i, match, namedVals, overflow, leftoverKw>>

Next == \/ Define \/ Register \/ Registered \/ Call
        \/ CheckUnpack \/ CheckPositional \/ ArgsChecked
        \/ CheckDoubleUnpack \/ CheckKeyword \/ KwsChecked
        \/ BindArg \/ ArgsBound \/ BindKeyword \/ EmitCall

Spec == Init /\ [][Next]_vars
-----------------------------------------------------------------------------
(* The second matching agrees with the first: what the checker found filled *)
(* is what the generator has a value for, so that its "internal: parameter   *)
(* not statically filled" is never reached.                                 *)
SameMatch ==
  pc = "emit kws" /\ i > Len(kws) => {p \in 1..nNamed : namedVals[p] # <<>>} = filled

\* A ** map binds no named parameter here; in Python it may.
MapNamesParameter ==
  \E k \in DOMAIN kws : kws[k].star /\ DOMAIN kws[k].map \cap Py!Names(params) # {}

(* A call that is accepted, and in which no unpacked map has the name of a  *)
(* parameter for a key, gives every parameter what Python gives it, in the  *)
(* order the callee expects; Python itself accepts the call, unless a       *)
(* keyword is given twice.                                                  *)
BindsAsPython ==
  pc = "called" /\ ~MapNamesParameter =>
    IF Py!TwiceInCall(kws) THEN Py!Refused(params, args, kws)
    ELSE ~Py!Refused(params, args, kws) /\ parts = Py!Bound(params, args, kws)

\* Calls the checker does not take although Python may: a list unpacked before
\* the parameters that can be given by position, or into a function without
\* *args; a map unpacked into a function without **kwargs.
NotTaken ==
  \/ \E a \in DOMAIN args : args[a].star /\ (~VarArgs \/ a <= kwOnlyStart)
  \/ \E k \in DOMAIN kws : kws[k].star /\ ~Kwargs
  \/ MapNamesParameter

(* An error in a call is an error in Python too, but for those forms. *)
RejectsAsPython ==
  pc = "rejected" => Py!Refused(params, args, kws) \/ NotTaken
=============================================================================
