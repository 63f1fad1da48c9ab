---------------------------- MODULE MCGenerators ----------------------------
(***************************************************************************)
(* Every body of up to MaxLen statements, and longer ones with loops in      *)
(* loops, over a few inner generators.                                      *)
(***************************************************************************)
EXTENDS Generators

CONSTANT MaxLen

Op(op)     == [op |-> op, var |-> "p"]
On(op, x)  == [op |-> op, var |-> x]

Menu == {On("yield", "p"), On("yield", "v"), On("add", "p"), On("while", "p"),
         On("for", "v"), Op("from"), Op("end"), Op("break"), Op("return"), Op("raise")}

Short == UNION {{b \in [1..n -> Menu] : WellFormed(b)} : n \in 1..MaxLen}

Long == {
  <<On("for", "v"), On("for", "v"), On("yield", "v"), Op("end"), On("yield", "p"), Op("end")>>,
  <<Op("from"), On("for", "v"), Op("from"), On("yield", "v"), Op("end"), Op("from")>>,
  <<On("while", "p"), On("for", "v"), On("yield", "v"), Op("break"), Op("end"), On("add", "p"), Op("end")>>,
  <<On("while", "p"), On("for", "p"), On("yield", "p"), Op("continue"), Op("end"), On("add", "p"), Op("end"), On("yield", "p")>>,
  <<On("for", "v"), On("while", "p"), On("yield", "v"), On("add", "p"), Op("end"), On("yield", "p"), Op("end"), Op("raise")>>}

Inner == {
  <<On("yield", "p")>>,
  <<On("while", "v"), On("yield", "v"), On("add", "v"), Op("end")>>,
  <<On("yield", "v"), Op("raise")>>,
  <<Op("return")>>}

WithLocal(b) == <<On("zero", "v")>> \o b

MCPrograms == {[outer |-> WithLocal(b), inner |-> WithLocal(c)] : b \in Short \cup Long, c \in Inner}

\* Fuel is enough: from twice as many statements next gets the same answers.
ASSUME FuelIsEnough ==
  \A pr \in Programs, p \in 0..(MaxMain - 1), n \in 1..MaxNext :
    Answer(YieldsOf(pr.outer, pr.inner, p, 2 * Fuel), n)
      = Answer(YieldsOf(pr.outer, pr.inner, p, Fuel), n)
=============================================================================
