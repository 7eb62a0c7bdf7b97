----------------------------- MODULE MCDepGraph -----------------------------
(***************************************************************************)
(* Instances of DepGraph for TLC: a header with a class that is declared    *)
(* first and defined later, a class nested in a system class, a template    *)
(* with a base that may depend on its parameter, and two files that share   *)
(* the header and each have a class Local of their own.  b.cpp may not be   *)
(* found by the database or not be there to parse.                          *)
(***************************************************************************)
EXTENDS DepGraph

MCNames == {"A", "Local", "Base", "Outer", "Inner", "T<X>"}
MCFiles == {"a.cpp", "b.cpp"}

MCCursors == {"root a", "root b", "declare A", "define A", "A : base", "system", "inner",
              "inner : base", "template", "template : base", "local a", "local b", "local b : base"}

Node(kind, name, definition, children, usr) ==
    [kind |-> kind, displayname |-> name, definition |-> definition,
     children |-> children, usr |-> usr]

BaseOf(name) == Node("CXX_BASE_SPECIFIER", "Base", name, <<>>, FALSE)
HeaderCursors == <<"system", "declare A", "template", "define A">>

Tree(outer, dependent, innerBase, localBase) ==
    [x \in MCCursors |->
       CASE x = "root a" -> Node("other", "A", None, HeaderCursors \o <<"local a">>, FALSE)
         [] x = "root b" -> Node("other", "A", None, <<"local b">> \o HeaderCursors, FALSE)
         [] x = "declare A" -> Node("CLASS_DECL", "A", "A", <<>>, FALSE)
         [] x = "define A" -> Node("CLASS_DECL", "A", "A", <<"A : base">>, FALSE)
         [] x = "A : base" -> BaseOf("Outer")
         [] x = "system" -> Node("STRUCT_DECL", "Outer", "Outer", <<"inner">>, TRUE)
         [] x = "inner" -> Node("CLASS_DECL", "Inner", "Inner", <<"inner : base">>, outer)
         [] x = "inner : base" -> BaseOf(innerBase)
         [] x = "template" -> Node("CLASS_TEMPLATE", "T<X>", "T<X>",
                                   <<"A : base", "template : base">>, FALSE)
         [] x = "template : base" -> BaseOf(dependent)
         [] x = "local a" -> Node("STRUCT_DECL", "Local", "Local", <<>>, FALSE)
         [] x = "local b" -> Node("STRUCT_DECL", "Local", "Local", <<"local b : base">>, FALSE)
         [] OTHER -> BaseOf(localBase)]

Of(file) == [filename |-> file, named |-> TRUE]

MCCompdbs ==
    {[commands |-> commands, root |-> [x \in MCFiles |-> IF x = "a.cpp" THEN "root a" ELSE "root b"],
      resolved |-> resolved, parses |-> parses, writable |-> writable,
      cursor |-> Tree(outer, dependent, innerBase, localBase)] :
        commands \in {<<>>, <<Of("a.cpp")>>, <<Of("b.cpp"), Of("a.cpp")>>,
                      <<Of("a.cpp"), Of("b.cpp"), Of("a.cpp")>>,
                      <<Of("b.cpp"), Of("a.cpp"), [Of("b.cpp") EXCEPT !.named = FALSE]>>,
                      <<Of("a.cpp"), [Of("b.cpp") EXCEPT !.named = FALSE]>>},
        outer \in BOOLEAN, dependent \in {None, "Local"}, innerBase \in {None, "Outer"},
        localBase \in {"A", "Local"}, writable \in BOOLEAN,
        resolved \in {MCFiles, {"a.cpp"}}, parses \in {MCFiles, {"a.cpp"}}}
==============================================================================
