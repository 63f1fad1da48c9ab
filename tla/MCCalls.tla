------------------------------- MODULE MCCalls -------------------------------
(***************************************************************************)
(* Parameter lists of up to MaxParams parameters of all kinds in any order, *)
(* calls with up to MaxArgs arguments and up to MaxKws keywords.            *)
(***************************************************************************)
EXTENDS Calls, TLC

CONSTANTS MaxParams, MaxArgs, MaxKws

Name == <<"a", "b", "c", "d">>
Kinds == {[kind |-> "named", default |-> FALSE], [kind |-> "named", default |-> TRUE],
          [kind |-> "*", default |-> FALSE], [kind |-> "**", default |-> FALSE]}

MCParamLists ==
  UNION {{[p \in 1..n |-> [name |-> Name[p]] @@ f[p]] : f \in [1..n -> Kinds]} : n \in 0..MaxParams}

Value(from, at, of) == [from |-> from, at |-> at, of |-> of]

\* An argument, or a list of no or two elements.
Arg(form, n) ==
  CASE form = "one" -> [star |-> FALSE, list |-> <<Value("arg", n, "")>>]
    [] form = "empty" -> [star |-> TRUE, list |-> <<>>]
    [] form = "two" -> [star |-> TRUE, list |-> <<Value("arg", n, "x"), Value("arg", n, "y")>>]

MCArgLists ==
  UNION {{[a \in 1..n |-> Arg(f[a], a)] : f \in [1..n -> {"one", "empty", "two"}]} :
           n \in 0..MaxArgs}

Kw(star, keys, n) == [star |-> star, map |-> [k \in keys |-> Value("kw", n, k)]]
KwForms == {<<FALSE, {"a"}>>, <<FALSE, {"c"}>>, <<FALSE, {"z"}>>,
            <<TRUE, {}>>, <<TRUE, {"y", "z"}>>, <<TRUE, {"b"}>>}

MCKwLists ==
  UNION {{[k \in 1..n |-> Kw(f[k][1], f[k][2], k)] : f \in [1..n -> KwForms]} : n \in 0..MaxKws}
=============================================================================
