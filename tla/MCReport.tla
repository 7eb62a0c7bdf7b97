------------------------------ MODULE MCReport ------------------------------
(***************************************************************************)
(* Instances of Report for TLC: one store with every combination of flags   *)
(* and every scope, beside one of four others.                              *)
(***************************************************************************)
EXTENDS Report

MCStores == {"s", "t"}

AddressSets == {{}, {"GLOBAL_VAR"}, {"FUNCTION_PTR", "ARGUMENT_PTR"}, {"ARGUMENT_PTR"}}
ValueSets == {{}, {"GLOBAL_VAR", "ARGUMENT_ANY"}, {"FUNCTION_PTR"}}

AnyRecord == [ptr: AddressSets, value: ValueSets, gadgetSet: SUBSET GadgetTypes, hasLoc: BOOLEAN]

OtherRecords ==
    [ptr: {{"GLOBAL_VAR"}}, value: {{}, {"GLOBAL_VAR"}},
     gadgetSet: {{"MOV"}, {"MOV", "DEREF", "CONDITIONAL"}}, hasLoc: {TRUE}]

MCMaps == {[x \in MCStores |-> IF x = "s" THEN r ELSE o] : r \in AnyRecord, o \in OtherRecords}
==============================================================================
