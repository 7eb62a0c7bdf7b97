----------------------------- MODULE MCLoopScan -----------------------------
(***************************************************************************)
(* Instances of LoopScan for TLC: main has two top-level loops and calls g, *)
(* g has one and may call h, main or an external function, and h calls k,   *)
(* three calls away from main.  The calls of main and of g may be invokes.  *)
(***************************************************************************)
EXTENDS LoopScan

MCFunctions == {"main", "g", "h", "k", "ext"}
MCNames == MCFunctions \cup {""}
MCInsts == {"s1", "s2", "s3", "s4", "s5", "c1", "c2", "c3"}

Body == [main |-> <<"s1", "c1", "s2">>, g |-> <<"s3", "c2">>, h |-> <<"s4", "c3">>,
         k |-> <<"s5">>, ext |-> <<>>]
LoopsOf == [main |-> <<<<"s1", "c1">>, <<"s2">>>>, g |-> <<<<"c2">>>>, h |-> <<>>,
            k |-> <<>>, ext |-> <<>>]

Callee(c1, c2) ==
    [x \in MCInsts |-> CASE x = "c1" -> c1
                         [] x = "c2" -> c2
                         [] x = "c3" -> "k"
                         [] OTHER -> None]

Verdict(v1, v2, v3, v4) ==
    [x \in MCInsts |-> CASE x = "s1" -> v1
                         [] x = "s2" -> v2
                         [] x = "s3" -> v3
                         [] x = "s4" -> v4
                         [] OTHER -> "interesting"]

MCModules ==
    {[functions |-> order, defined |-> {"main", "g", "h", "k"},
      body |-> Body, loops |-> LoopsOf, stores |-> {"s1", "s2", "s3", "s4", "s5"},
      callee |-> Callee(c1, c2), invokes |-> invokes,
      verdict |-> Verdict(v1, v2, v3, v4)] :
        order \in {<<"ext", "main", "g", "h", "k">>, <<"k", "g", "main", "ext", "h">>},
        c1 \in {"g", "ext", None}, c2 \in {"h", "main"}, invokes \in {{}, {"c1"}, {"c2"}},
        v1 \in {"interesting", "boring"}, v2 \in {"interesting", "boring"},
        v3 \in {"interesting", "boring", "exit"}, v4 \in {"interesting", "boring", "exit"}}

NoList == [FL |-> FALSE, functionList |-> {}, dop_dyn |-> FALSE, dyn_map |-> {}]

MCOptions ==
    {NoList,
     [NoList EXCEPT !.FL = TRUE, !.functionList = {""}],
     [NoList EXCEPT !.FL = TRUE, !.functionList = {"main", "h", ""}],
     [NoList EXCEPT !.dop_dyn = TRUE, !.dyn_map = {"s2", "c2"}],
     [NoList EXCEPT !.FL = TRUE, !.functionList = {"g"},
                    !.dop_dyn = TRUE, !.dyn_map = {"s2", "s3"}]}
==============================================================================
