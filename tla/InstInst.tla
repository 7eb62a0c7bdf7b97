------------------------------- MODULE InstInst -------------------------------
(***************************************************************************)
(* llvm/DOP-Gadgets: class InstInst, the record built for one store.  Its   *)
(* constructor runs two Backtrack searches one after the other, on the      *)
(* address of the store and, only if that one is interesting, on the value  *)
(* stored; when both are, prepResult turns the sources and instruction      *)
(* stacks of each search into the sets of result types and gadget kinds     *)
(* the report is made of.                                                   *)
(*                                                                          *)
(* The two searches never run together, so they share the variables of      *)
(* module Backtrack; btd keeps the list of the first one.                   *)
(***************************************************************************)
EXTENDS Backtrack

VARIABLES
    store,        \* the operands of the store, one of ir.stores
    phase,        \* "ptr", "value", "prepPtr", "prepValue", "built" or "exited"
    btd,          \* sources found by the search of the address
    interesting,
    ptr, value    \* ResultVal: instList, resultSet, gadgetSet

recordVars == <<vars, store, phase, btd, interesting, ptr, value>>

(* Definitions introduced as a "Slip" are used only to show that a property *)
(* notices them.                                                            *)
EmptyResult == [instList |-> <<>>, resultSet |-> {}, gadgetSet |-> {}]

------------------------------------------------------------------------------
(* Slip: the two kinds of load are swapped.                                 *)
GadgetSwapped(v) ==
    CASE ir.kind[v] = "load" -> IF v \in ir.pointer THEN {"MOV"} ELSE {"DEREF"}
      [] ir.kind[v] = "arith" -> {"ARITHMETIC"}
      [] ir.kind[v] = "logic" -> {"LOGICAL"}
      [] ir.kind[v] \in {"select", "cmp"} -> {"CONDITIONAL"}
      [] OTHER -> {}

(* The gadget kinds one instruction of a stack stands for.  A load whose    *)
(* address points to a pointer yields a pointer.                            *)
Gadget(v) ==
    CASE ir.kind[v] = "load" -> IF v \in ir.pointer THEN {"DEREF"} ELSE {"MOV"}
      [] ir.kind[v] = "arith" -> {"ARITHMETIC"}
      [] ir.kind[v] = "logic" -> {"LOGICAL"}
      [] ir.kind[v] \in {"select", "cmp"} -> {"CONDITIONAL"}
      [] OTHER -> {}

StackValues(list) == UNION {ToSet(list[i].stack) : i \in DOMAIN list}

(* Slip: the casts are forgotten.                                           *)
UnpreparedCasts(list) == \E v \in StackValues(list) : ir.kind[v] \in {"unary", "otherunary"}

(* prepResult knows fewer instructions than the search: it exits on others. *)
Unprepared(list) == \E v \in StackValues(list) : ir.kind[v] = "otherunary"

(* Slip: the pair's second half is taken for its first.                     *)
PrepareSources(list) ==
    [instList |-> list,
     resultSet |-> {list[i].source : i \in DOMAIN list},
     gadgetSet |-> UNION {Gadget(v) : v \in StackValues(list)}]

(* prepResult: the bit masks are sets.                                      *)
Prepared(list) ==
    [instList |-> list,
     resultSet |-> {list[i].type : i \in DOMAIN list},
     gadgetSet |-> UNION {Gadget(v) : v \in StackValues(list)}]

------------------------------------------------------------------------------
RecordInit ==
    /\ ir \in Programs
    /\ store \in ir.stores
    /\ Start(store.ptr, TRUE)
    /\ phase = "ptr"
    /\ btd = <<>>
    /\ interesting = FALSE
    /\ ptr = EmptyResult
    /\ value = EmptyResult

(* One iteration of the search in progress.                                 *)
Trace ==
    /\ phase \in {"ptr", "value"}
    /\ Next
    /\ UNCHANGED <<store, phase, btd, interesting, ptr, value>>

(* Slip: the second search starts with the flags of the first.              *)
TraceValueKeepingLoad ==
    /\ phase = "ptr" /\ pc = "done" /\ result
    /\ isPointer' = FALSE /\ root' = store.value
    /\ worklist' = <<store.value>> /\ worklist_caller' = <<Store>>
    /\ visited' = {} /\ instruction' = <<>> /\ instList' = <<>>
    /\ result' = FALSE /\ pc' = "running"
    /\ btd' = instList
    /\ phase' = "value"
    /\ UNCHANGED <<ir, a_load, store, interesting, ptr, value>>

(* BTD.isInteresting() is true: BTS.isInteresting() is evaluated, on an     *)
(* object of its own.                                                       *)
TraceValue ==
    /\ phase = "ptr" /\ pc = "done" /\ result
    /\ isPointer' = FALSE /\ root' = store.value
    /\ worklist' = <<store.value>> /\ worklist_caller' = <<Store>>
    /\ visited' = {} /\ instruction' = <<>> /\ instList' = <<>>
    /\ a_load' = FALSE /\ result' = FALSE /\ pc' = "running"
    /\ btd' = instList
    /\ phase' = "value"
    /\ UNCHANGED <<ir, store, interesting, ptr, value>>

(* Slip: only a boring address ends the construction.                       *)
DismissAddress ==
    /\ phase = "ptr" /\ pc = "done" /\ ~result
    /\ phase' = "built"
    /\ UNCHANGED <<vars, store, btd, interesting, ptr, value>>

(* Either search says no: the record is left empty.                         *)
Dismiss ==
    /\ phase \in {"ptr", "value"} /\ pc = "done" /\ ~result
    /\ phase' = "built"
    /\ UNCHANGED <<vars, store, btd, interesting, ptr, value>>

Accept ==
    /\ phase = "value" /\ pc = "done" /\ result
    /\ interesting' = TRUE
    /\ ptr' = [ptr EXCEPT !.instList = btd]
    /\ value' = [value EXCEPT !.instList = instList]
    /\ phase' = "prepPtr"
    /\ UNCHANGED <<vars, store, btd>>

PrepPtr ==
    /\ phase = "prepPtr" /\ ~Unprepared(ptr.instList)
    /\ ptr' = Prepared(ptr.instList)
    /\ phase' = "prepValue"
    /\ UNCHANGED <<vars, store, btd, interesting, value>>

PrepValue ==
    /\ phase = "prepValue" /\ ~Unprepared(value.instList)
    /\ value' = Prepared(value.instList)
    /\ phase' = "built"
    /\ UNCHANGED <<vars, store, btd, interesting, ptr>>

(* prepResult: exit(1) on an instruction the search let through.            *)
AbortInPrep ==
    /\ \/ phase = "prepPtr" /\ Unprepared(ptr.instList)
       \/ phase = "prepValue" /\ Unprepared(value.instList)
    /\ phase' = "exited"
    /\ UNCHANGED <<vars, store, btd, interesting, ptr, value>>

RecordNext ==
    \/ Trace
    \/ TraceValue
    \/ Dismiss
    \/ Accept
    \/ PrepPtr
    \/ PrepValue
    \/ AbortInPrep

RecordSpec == RecordInit /\ [][RecordNext]_recordVars /\ WF_recordVars(RecordNext)

------------------------------------------------------------------------------
(* Properties.                                                              *)

ResultType == {"GLOBAL_VAR", "FUNCTION_PTR", "ARGUMENT_PTR", "ARGUMENT_ANY"}
GadgetType == {"DEREF", "ARITHMETIC", "LOGICAL", "MOV", "CONDITIONAL"}

RecordTypeOK ==
    /\ TypeOK
    /\ store \in ir.stores
    /\ phase \in {"ptr", "value", "prepPtr", "prepValue", "built", "exited"}
    /\ interesting \in BOOLEAN
    /\ \A r \in {ptr, value} :
         /\ \A i \in DOMAIN r.instList : r.instList[i].type \in ResultType
         /\ r.resultSet \subseteq ResultType
         /\ r.gadgetSet \subseteq GadgetType

(* The values an operand of the store depends on.                           *)
Slice(v) ==
    {w \in Values : \A S \in SUBSET Values :
        v \in S /\ (\A u \in S : ToSet(Traced(ir, u)) \subseteq S) => w \in S}

OfKind(S, kinds) == {v \in S : ir.kind[v] \in kinds}

AddressSources(S) == OfKind(S, {"global", "function"}) \cup (OfKind(S, {"argument"}) \cap ir.pointer)
ValueSources(S) == OfKind(S, {"global", "function", "argument"})

(* The verdict is about the two slices: a store is dropped only when one of *)
(* them holds no source; it is kept only when each has, by itself, a source *)
(* or a literal next to a load.                                             *)
VerdictMatchesBothSlices ==
    LET p == Slice(store.ptr)
        v == Slice(store.value)
        literal(S) == OfKind(S, {"int"}) # {} /\ OfKind(S, {"load"}) # {}
    IN  /\ phase = "built" /\ ~interesting =>
              AddressSources(p) = {} \/ ValueSources(v) = {}
        /\ interesting => /\ AddressSources(p) # {} \/ literal(p)
                          /\ ValueSources(v) # {} \/ literal(v)

(* A reported gadget kind is that of an instruction the operand depends on. *)
GadgetsComeFromSlice ==
    \A r \in {<<ptr, store.ptr>>, <<value, store.value>>} :
        LET S == Slice(r[2])
            loads == OfKind(S, {"load"})
            evidence == [DEREF |-> loads \cap ir.pointer, MOV |-> loads \ ir.pointer,
                         ARITHMETIC |-> OfKind(S, {"arith"}),
                         LOGICAL |-> OfKind(S, {"logic"}),
                         CONDITIONAL |-> OfKind(S, {"select", "cmp"})]
        IN  r[1].gadgetSet # {} => \A g \in r[1].gadgetSet : evidence[g] # {}

(* The class a source is reported under: what the value is, and for an      *)
(* argument which operand of the store it was found for.                    *)
ClassOf(s, ofAddress) ==
    CASE ir.kind[s] = "global" -> "GLOBAL_VAR"
      [] ir.kind[s] = "function" -> "FUNCTION_PTR"
      [] OTHER -> IF ofAddress THEN "ARGUMENT_PTR" ELSE "ARGUMENT_ANY"

(* r lists the given sources and no other value, each under its own class   *)
(* and with the gadget kinds of an instruction that uses it, and flags      *)
(* their classes and no other.                                              *)
Covers(r, sources, ofAddress) ==
    /\ {r.instList[i].source : i \in DOMAIN r.instList} = sources
    /\ r.resultSet = {ClassOf(s, ofAddress) : s \in sources}
    /\ \A i \in DOMAIN r.instList :
         LET rec == r.instList[i]
         IN  /\ rec.type = ClassOf(rec.source, ofAddress)
             /\ \/ rec.stack = <<>>
                \/ \E u \in ToSet(rec.stack) :
                     UsedThroughConstants(u, rec.source) /\ Gadget(u) \subseteq r.gadgetSet

(* The result set of a finished record names exactly the classes of the     *)
(* sources in the slice, each source is listed under the class it has, and  *)
(* the gadget kinds cover, for each source, an instruction that uses it.    *)
(* (A record kept because of a literal alone has no sources, so both its    *)
(* sets are empty and the report calls it a mov.)                           *)
ReportCoversEverySource ==
    phase = "built" /\ interesting =>
      /\ Covers(ptr, AddressSources(Slice(store.ptr)), TRUE)
      /\ Covers(value, ValueSources(Slice(store.value)), FALSE)

(* opt dies only on an instruction or constant expression it cannot handle, *)
(* and such an operand is never reported.                                   *)
ExitsOnlyOnUnhandled ==
    LET both == Slice(store.ptr) \cup Slice(store.value)
    IN  /\ pc = "exited" => OfKind(both, {"otherinst", "otherexpr"}) # {}
        /\ phase = "exited" => OfKind(both, {"otherunary"}) # {}
        /\ interesting => OfKind(both, {"otherinst", "otherexpr"}) = {}

(* Building the record of a store ends, with a record or with exit(1).      *)
RecordIsBuilt == <>(phase \in {"built", "exited"} \/ pc = "exited")
==============================================================================
