----------------------------- MODULE MCBacktrack -----------------------------
(***************************************************************************)
(* Instances of Backtrack for TLC: the verified def-use graphs made of one  *)
(* pointer instruction p, three integer instructions n, m and k, a constant *)
(* expression and a few leaves, over the operand choices below.  They hold  *)
(* straight chains, shared operands, two instruction operands under one     *)
(* user, cycles through phi nodes, and every way to end a search.           *)
(***************************************************************************)
EXTENDS Backtrack

MCValues == {"p", "n", "m", "k", "ce", "symbol", "int", "parg", "narg"}

Op(k, o) == [kind |-> k, ops |-> o]

(* p has pointer type; n, m and k have integer type.                        *)
PChoices == {Op("phi", <<"p", "ce">>), Op("gep", <<"symbol", "n">>),
             Op("select", <<"m", "symbol", "parg">>), Op("unary", <<"int">>)}

NChoices == {Op("arith", <<"m", "k">>), Op("load", <<"p">>), Op("arith", <<"int", "m">>),
             Op("cmp", <<"p", "symbol">>), Op("phi", <<"n", "m">>)}

MChoices == {Op("load", <<"p">>), Op("logic", <<"narg", "int">>), Op("phi", <<"m", "k">>),
             Op("otherinst", <<>>), Op("sumexpr", <<"ce", "int">>)}

KChoices == {Op("load", <<"parg">>), Op("call", <<>>), Op("unary", <<"m">>)}

(* The constant expression, and the class of the symbol it refers to.       *)
CEChoices == {<<"castexpr", "global">>, <<"otherexpr", "function">>, <<"castexpr", "inert">>}

Leaf(k) == Op(k, <<>>)

(* With a sum for m, ce is an integer (ptrtoint); otherwise it is a pointer. *)
Graph(p, n, m, k, ce) ==
    LET node == [p |-> p, n |-> n, m |-> m, k |-> k,
                 ce |-> Op(ce[1], <<"symbol">>), symbol |-> Leaf(ce[2]),
                 int |-> Leaf("int"), parg |-> Leaf("argument"), narg |-> Leaf("argument")]
        ceIsPointer == m.kind # "sumexpr"
    IN  [kind |-> [v \in MCValues |-> node[v].kind],
         ops |-> [v \in MCValues |-> node[v].ops],
         pointer |-> {"p", "symbol", "parg"} \cup (IF ceIsPointer THEN {"ce"} ELSE {}),
         stores |-> {[ptr |-> "p", value |-> "n"], [ptr |-> "parg", value |-> "p"]}
                    \cup (IF ceIsPointer THEN {[ptr |-> "ce", value |-> "narg"]} ELSE {})]

(* Operands have the right type, and in SSA form a value depends on itself  *)
(* only through a phi node: no set of other values is such that each has an *)
(* operand in the set.                                                      *)
IsVerified(g) ==
    /\ "ce" \notin g.pointer => "ce" \notin ToSet(g.ops["p"])
    /\ ~ \E S \in (SUBSET {"p", "n", "m", "k"}) \ {{}} :
         \A v \in S : g.kind[v] # "phi" /\ ToSet(g.ops[v]) \cap S # {}

MCPrograms ==
    {g \in {Graph(p, n, m, k, ce) : p \in PChoices, n \in NChoices, m \in MChoices,
                                    k \in KChoices, ce \in CEChoices} : IsVerified(g)}
==============================================================================
