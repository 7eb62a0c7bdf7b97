---------------------------- MODULE MCCallerWalk ----------------------------
(***************************************************************************)
(* Instances of CallerWalk for TLC: main, f and g have bodies, gets is a    *)
(* declaration; calls may be direct, repeated, mutual or recursive, and one *)
(* name is of no function.                                                  *)
(***************************************************************************)
EXTENDS CallerWalk

MCFunctions == {"main", "f", "g", "gets", "unknown"}

Uses(parents) == [n \in DOMAIN parents |-> [kind |-> "call", parent |-> parents[n]]]

MCModules ==
    {[named |-> MCFunctions \ {"unknown"}, defined |-> {"main", "f", "g"},
      users |-> [x \in MCFunctions |->
          CASE x = "main" -> ofMain
            [] x = "f" -> Uses(ofF)
            [] x = "g" -> Uses(ofG)
            [] x = "gets" -> Uses(ofGets)
            [] OTHER -> <<>>]] :
        ofMain \in {<<>>, <<[kind |-> "other", parent |-> "g"]>>},
        ofF \in {<<>>, <<"main">>, <<"main", "main", "g">>, <<"f", "main">>},
        ofG \in {<<>>, <<"f">>, <<"main", "f">>},
        ofGets \in {<<"g">>, <<"f", "g">>}}

MCLists ==
    {<<EmptyLine>>, <<"f">>, <<"g", "f", EmptyLine>>, <<"gets", "f", "f">>,
     <<"f", EmptyLine, "g", EmptyLine>>, <<"g", "unknown">>, <<"main", "g">>}
==============================================================================
