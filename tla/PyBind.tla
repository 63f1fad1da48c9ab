------------------------------- MODULE PyBind -------------------------------
(***************************************************************************)
(* How Python binds the arguments of a call to the parameters of a          *)
(* function, told parameter by parameter rather than argument by argument.  *)
(*                                                                          *)
(* A parameter is [name, kind, default] with kind "named", "*" or "**"; an  *)
(* argument is [star, list], the values it stands for; a keyword is [star,  *)
(* map], one key or those of an unpacked map.  What a parameter receives is *)
(* a part [one, list, map] of which only the field of its kind is filled.   *)
(***************************************************************************)
EXTENDS Naturals, Sequences, FiniteSets, SequencesExt

Part(one, list, map) == [one |-> one, list |-> list, map |-> map]
One(v)  == Part(<<v>>, <<>>, <<>>)
Many(l) == Part(<<>>, l, <<>>)
Keyed(m) == Part(<<>>, <<>>, m)

Default(name) == [from |-> "default", at |-> 0, of |-> name]

Values(args)  == FlattenSeq([i \in DOMAIN args |-> args[i].list])
Keys(kws)     == UNION {DOMAIN kws[i].map : i \in DOMAIN kws}
Given(kws, k) == LET i == CHOOSE i \in DOMAIN kws : k \in DOMAIN kws[i].map IN kws[i].map[k]

Names(params) == {params[p].name : p \in {q \in DOMAIN params : params[q].kind = "named"}}
Has(params, kind) == \E p \in DOMAIN params : params[p].kind = kind

\* The parameters that may be given by position come before any star.
ByPosition(params) ==
  {p \in DOMAIN params : \A q \in 1..p : params[q].kind = "named"}
Positioned(params, args) == {p \in ByPosition(params) : p <= Len(Values(args))}

TwiceInCall(kws) ==
  \E i, j \in DOMAIN kws : i # j /\ DOMAIN kws[i].map \cap DOMAIN kws[j].map # {}

\* The call raises TypeError.
Refused(params, args, kws) ==
  \/ Len(Values(args)) > Cardinality(ByPosition(params)) /\ ~Has(params, "*")
  \/ TwiceInCall(kws)
  \/ \E p \in Positioned(params, args) : params[p].name \in Keys(kws)
  \/ Keys(kws) \ Names(params) # {} /\ ~Has(params, "**")
  \/ \E p \in DOMAIN params : /\ params[p].kind = "named" /\ ~params[p].default
                              /\ p \notin Positioned(params, args)
                              /\ params[p].name \notin Keys(kws)

Bound(params, args, kws) ==
  LET receives(p) ==
        CASE params[p].kind = "*" ->
               Many(SubSeq(Values(args), p, Len(Values(args))))
          [] params[p].kind = "**" ->
               Keyed([k \in Keys(kws) \ Names(params) |-> Given(kws, k)])
          [] OTHER ->
               One(IF p \in Positioned(params, args) THEN Values(args)[p]
                   ELSE IF params[p].name \in Keys(kws) THEN Given(kws, params[p].name)
                   ELSE Default(params[p].name))
  IN  [p \in DOMAIN params |-> receives(p)]
=============================================================================
