----------------------------- MODULE MCClasses -----------------------------
(***************************************************************************)
(* Three classes: any bases, with any of a few bodies that define, override, *)
(* reorder and clash in methods and fields.                                 *)
(***************************************************************************)
EXTENDS Classes

Def(name, sig)    == [name |-> name, sig |-> sig]
Field(name, type) == [name |-> name, type |-> type]
Body(methods, sets) == [methods |-> methods, sets |-> sets]

Bodies == {
  Body(<<>>, <<>>),
  Body(<<Def("__init__", "0"), Def("f", "0")>>, <<Field("x", "int")>>),
  Body(<<Def("g", "0"), Def("f", "0"), Def("__init__", "1")>>, <<Field("y", "int"), Field("x", "int")>>),
  Body(<<Def("g", "0"), Def("__str__", "0")>>, <<>>),
  Body(<<Def("f", "0")>>, <<>>),
  Body(<<Def("f", "1")>>, <<>>),
  Body(<<Def("__init__", "0")>>, <<Field("y", "int")>>),
  Body(<<Def("__init__", "0")>>, <<Field("x", "str"), Field("x", "str")>>)}

MCPrograms == {[c \in Class |-> [base |-> b[c], methods |-> d[c].methods, sets |-> d[c].sets]] :
                 b \in {b \in [Class -> 0..Count] : b[1] = 0 /\ b[2] # 2 /\ b[3] # 3},
                 d \in [Class -> Bodies]}
=============================================================================
