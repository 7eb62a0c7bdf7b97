---------------------------- MODULE MCOptPipeline ----------------------------
(***************************************************************************)
(* Instances of OptPipeline for TLC: the modules of the tests of CloneFuncs *)
(* (a recursive function) and Statistics (three globals and a string, a     *)
(* pointer to a function, an external function), and one that is empty of   *)
(* bodies and one whose names collide with those of clones.                 *)
(***************************************************************************)
EXTENDS OptPipeline

I32 == [pointers |-> 0, function |-> FALSE]
FunctionPointer == [pointers |-> 1, function |-> TRUE]

Alloca(T) == [kind |-> "alloca", type |-> T]
Call(name) == [kind |-> "call", callee |-> "function", to |-> name]
IndirectCall == [kind |-> "call", callee |-> "value"]
ConstantCall == [kind |-> "call", callee |-> "constant"]
Store == [kind |-> "store"]
Other == [kind |-> "other"]

Fun(name, blocks) == [name |-> name, section |-> "", blocks |-> blocks]

Fact == [globals |-> <<>>,
         functions |-> <<Fun(<<"fact">>, <<<<Alloca(I32), Store, Other>>, <<Store>>,
                                           <<Call(<<"fact">>), Store>>, <<Other>>>>)>>]

Basic == [globals |-> <<I32, PointerTo(I32), FunctionPointer, I32>>,
          functions |-> <<Fun(<<"fun">>, <<<<Alloca(I32), Store, Call(<<"printf">>), Other>>>>),
                          Fun(<<"printf">>, <<>>),
                          Fun(<<"main">>, <<<<Alloca(I32), Alloca(FunctionPointer), Store, Store,
                                              IndirectCall, Call(<<"fun">>), Other>>>>)>>]

Collision == [globals |-> <<PointerTo(FunctionPointer)>>,
              functions |-> <<Fun(<<"f">>, <<<<ConstantCall, Call(<<"f", 1>>)>>>>),
                              Fun(<<"f", 1>>, <<<<Alloca(PointerTo(FunctionPointer)), Other>>>>)>>]

MCPrograms == {Fact, Basic, Collision, [globals |-> <<>>, functions |-> <<Fun(<<"puts">>, <<>>)>>]}

(* The numbers that tests/test_runner.py of Statistics expects.             *)
ASSUME StatisticsTest ==
    Plus(SumOf(MapSeq(CountsOfGlobal, Basic.globals)),
         SumOf(MapSeq(CountsOfFunction, Basic.functions)))
      = [totalPointers |-> 5, functionPointers |-> 2, calls |-> 3, indirectCalls |-> 1,
         storeInstructions |-> 3]

MCPipelines ==
    {<<"mystats">>, <<"mystats", "clonefuncs", "mystats">>, <<"clonefuncs", "clonefuncs", "mystats">>,
     <<"myhello", "myhello2", "clonefuncs", "myhello2">>, <<"myhello2", "clonefuncs", "mystats">>,
     <<"clonefuncs", "myhello", "myhello2", "mystats", "mystats">>}

Line(tool, flags) == [tool |-> tool, flags |-> flags]

MCInvocations ==
    {Line("llc", flags) : flags \in {<<>>, <<"-noop-insertion">>, <<"-mnoop-insertion">>,
                                      <<"-noop-insertion", "-noop-insertion">>}}
      \cup {Line("clang -cc1", flags) :
              flags \in {<<>>, <<"-mnoop-insertion">>, <<"-mnoop-insertion", "-mnoop-insertion">>}}
      \cup {Line("clang", flags) :
              flags \in {<<"-fnoop-insertion">>, <<"-mnoop-insertion">>,
                         <<"-fnoop-insertion", "-fno-noop-insertion">>}}
==============================================================================
