----------------------------- MODULE MCInstInst -----------------------------
(***************************************************************************)
(* Instances of InstInst for TLC: stores whose address and value depend on  *)
(* each other's operands through p (a pointer) and n, m (integers).         *)
(***************************************************************************)
EXTENDS InstInst

MCValues == {"p", "n", "m", "symbol", "int", "parg", "narg"}

Op(k, o) == [kind |-> k, ops |-> o]

PChoices == {Op("load", <<"symbol">>), Op("phi", <<"p", "parg">>),
             Op("select", <<"n", "symbol", "parg">>), Op("unary", <<"int">>),
             Op("unary", <<"narg">>),
             Op("gep", <<"parg", "m">>)}

NChoices == {Op("arith", <<"m", "narg">>), Op("logic", <<"m", "int">>), Op("load", <<"p">>),
             Op("cmp", <<"p", "symbol">>), Op("arith", <<"int", "m">>)}

MChoices == {Op("load", <<"p">>), Op("phi", <<"n", "int">>), Op("otherunary", <<"narg">>),
             Op("otherinst", <<>>), Op("call", <<>>)}

Leaf(k) == Op(k, <<>>)

Graph(p, n, m, symbol) ==
    LET node == [p |-> p, n |-> n, m |-> m, symbol |-> Leaf(symbol), int |-> Leaf("int"),
                 parg |-> Leaf("argument"), narg |-> Leaf("argument")]
    IN  [kind |-> [v \in MCValues |-> node[v].kind],
         ops |-> [v \in MCValues |-> node[v].ops],
         pointer |-> {"p", "symbol", "parg"},
         stores |-> {[ptr |-> "p", value |-> "n"], [ptr |-> "symbol", value |-> "p"],
                     [ptr |-> "parg", value |-> "m"]}]

(* SSA form: dependence cycles go through a phi node.                       *)
IsVerified(g) ==
    ~ \E S \in (SUBSET {"p", "n", "m"}) \ {{}} :
        \A v \in S : g.kind[v] # "phi" /\ ToSet(g.ops[v]) \cap S # {}

MCPrograms ==
    {g \in {Graph(p, n, m, s) : p \in PChoices, n \in NChoices, m \in MChoices,
                                s \in {"global", "function"}} : IsVerified(g)}
==============================================================================
