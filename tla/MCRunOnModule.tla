---------------------------- MODULE MCRunOnModule ----------------------------
(***************************************************************************)
(* Instances of RunOnModule for TLC: main has two loops and calls g, which  *)
(* has one and calls or invokes itself or calls ext, a declaration; h is    *)
(* called by nobody.                                                        *)
(* Lists are empty, terminated or not, hold blank lines, lines of two words *)
(* and names of no function; traces repeat a function, put a name and its   *)
(* number on two lines, lack a number or hold a word in its place.          *)
(***************************************************************************)
EXTENDS RunOnModule

MCFunctions == {"main", "g", "h", "ext", "unknown"}
MCNumbers == {"0", "3", "7"}
MCInsts == {"s1", "s2", "s3", "s4", "c1", "c2"}

MCDebugLine ==
    [x \in MCInsts |-> CASE x \in {"s1", "s3"} -> "3"
                         [] x = "s4" -> NoLocation
                         [] OTHER -> "7"]

Body == [x \in MCFunctions |->
    CASE x = "main" -> <<"s1", "c1", "s2">>
      [] x = "g" -> <<"s3", "c2">>
      [] x = "h" -> <<"s4">>
      [] OTHER -> <<>>]

LoopsOf == [x \in MCFunctions |->
    CASE x = "main" -> <<<<"s1", "c1">>, <<"s2">>>>
      [] x = "g" -> <<<<"c2">>>>
      [] x = "h" -> <<<<"s4">>>>
      [] OTHER -> <<>>]

MCModules ==
    {[functions |-> <<"main", "ext", "g", "h">>, defined |-> {"main", "g", "h"},
      body |-> Body, loops |-> LoopsOf, stores |-> {"s1", "s2", "s3", "s4"},
      callee |-> [x \in MCInsts |-> CASE x = "c1" -> "g" [] x = "c2" -> c2 [] OTHER -> None],
      invokes |-> invokes,
      verdict |-> [x \in MCInsts |-> IF x = "s3" THEN v3 ELSE "interesting"]] :
        c2 \in {"g", "ext"}, invokes \in {{}, {"c2"}}, v3 \in {"interesting", "exit"}}

NL == Newline

ListFiles ==
    {NotGiven, Unreadable, <<>>, <<NL>>, <<"g">>, <<"main", NL, "unknown", NL>>,
     <<NL, "h", NL, "main", "g">>, <<"g", "3", NL, "h", NL>>}

TraceFiles ==
    {NotGiven, Unreadable, <<>>, <<NL, NL>>, <<"main", "7", NL>>, <<"main", "7", NL, "main", "3">>,
     <<"g", NL, "7", NL, "h", "0", NL>>, <<"h", "3", NL>>, <<"main", "3", NL, "main">>,
     <<"main", NL, "g", "7", NL>>, <<"main", "3", "g", NL, "unknown", "7">>,
     <<"g", "7", NL, "main", "7", "3", NL>>}

MCCommands ==
    {[x \in {"function-list", "vuln-list", "dop-dyn", "danger"} |->
        CASE x = "danger" -> danger
          [] x = "function-list" -> names
          [] x = "vuln-list" -> vuln
          [] x = "dop-dyn" -> trace] :
       danger \in BOOLEAN, names \in ListFiles,
       vuln \in {NotGiven, Unreadable, <<>>, <<"g", NL, "ext", NL>>, <<"h", NL, "main">>},
       trace \in TraceFiles}
==============================================================================
