------------------------------ MODULE Backtrack ------------------------------
(***************************************************************************)
(* llvm/DOP-Gadgets: class Backtrack, the backward data-flow search that    *)
(* decides whether an operand of a store comes from memory an attacker may  *)
(* influence (a global, a function pointer, an argument, or data reached    *)
(* through a load).                                                         *)
(*                                                                          *)
(* The search is a depth-first walk over the def-use graph of LLVM values,  *)
(* driven by two parallel stacks: worklist holds the values still to be     *)
(* looked at and worklist_caller the user each of them was reached from.    *)
(* instruction is the stack of instructions that leads to the current value *)
(* and is copied into instList whenever a source is found.                  *)
(*                                                                          *)
(* The LLVM module is an input: ir gives every value its class (kind) and   *)
(* its operands in order (ops), and says which values have pointer type     *)
(* (pointer) and which pairs of them its stores use (stores).  Null         *)
(* operands, which no verified module holds, are left out.                  *)
(***************************************************************************)
EXTENDS Naturals, SequencesExt

CONSTANTS
    Values,    \* the llvm::Value objects of the module
    Store,     \* the StoreInst under analysis: the first caller
    Programs   \* the modules the search may be run on

VARIABLES
    ir,               \* the def-use graph, one of Programs
    isPointer,        \* TRUE: the pointer operand of the store, FALSE: the value
    root,             \* the operand the search starts from
    worklist,         \* stack of values to visit
    worklist_caller,  \* for each of them, the user it was pushed by
    visited,          \* values already visited
    instruction,      \* stack of instructions down to the current value
    instList,         \* the sources found, each with a copy of that stack
    a_load,           \* a load has been visited
    result,           \* the verdict so far
    pc                \* "running", "done" (returned) or "exited" (exit(1))

search == <<worklist, worklist_caller, visited, instruction, instList,
            a_load, result, pc>>
vars == <<ir, isPointer, root, search>>

------------------------------------------------------------------------------
(* The classes of values the code tells apart.  "unary" is the casts (but   *)
(* bitcast) and alloca, "otherunary" the other UnaryInstructions but load   *)
(* (extractvalue, va_arg, fneg); "vector" is insertelement, extractelement  *)
(* and shufflevector; "otherinst" is any instruction that falls through to  *)
(* visitInstruction.                                                        *)

HandledInsts == {"load", "gep", "bitcast", "phi", "arith", "logic", "unary",
                 "otherunary", "call", "select", "cmp", "vector"}
Instructions == HandledInsts \cup {"otherinst"}

(* Opcodes of constant expressions: "castexpr" is gep, bitcast, ptrtoint    *)
(* and inttoptr, "sumexpr" is add and sub, "otherexpr" any other opcode.    *)
TracedExprs == {"castexpr", "sumexpr"}
ConstExprs == TracedExprs \cup {"otherexpr"}

(* "inert" is every constant that is looked at and ignored.                 *)
Constants == ConstExprs \cup {"global", "function", "int", "inert"}
Kinds == Instructions \cup Constants \cup {"argument"}

FirstOperandOnly == {"load", "gep", "bitcast", "castexpr"}
AllOperands == {"phi", "arith", "logic", "unary", "otherunary", "cmp",
                "vector", "sumexpr"}

(* The operands a visit of v pushes, in the order they are pushed.          *)
Traced(g, v) ==
    LET ops == g.ops[v]
    IN  CASE g.kind[v] \in FirstOperandOnly -> <<ops[1]>>
          [] g.kind[v] = "select" -> <<ops[2], ops[3]>>
          [] g.kind[v] \in AllOperands -> ops
          [] OTHER -> <<>>

IsGraph(g) ==
    /\ g \in [kind: [Values -> Kinds], ops: [Values -> Seq(Values)],
              pointer: SUBSET Values, stores: SUBSET [ptr: Values, value: Values]]
    /\ \A st \in g.stores : st.ptr \in g.pointer
    /\ \A v \in Values :
         /\ g.kind[v] \in FirstOperandOnly => Len(g.ops[v]) >= 1
         /\ g.kind[v] = "select" => Len(g.ops[v]) = 3
         /\ g.kind[v] \in ConstExprs =>
              \A i \in DOMAIN g.ops[v] : g.kind[g.ops[v][i]] \in Constants

ASSUME ProgramsAssumption == \A g \in Programs : IsGraph(g)
ASSUME StoreAssumption == Store \notin Values

------------------------------------------------------------------------------
(* A definition introduced as a "Slip" is the one after it with a plausible *)
(* mistake; nothing uses it but the runs that show a property notices.      *)

Popped == Last(worklist)
Caller == Last(worklist_caller)

IsInstruction(v) == ir.kind[v] \in Instructions

(* Slip: the stack is not cut back.                                         *)
TrimToNothing(stack, caller) == stack

(* Slip: the user is cut off as well.                                       *)
TrimThrough(stack, caller) ==
    LET at == {n \in 1..Len(stack) : stack[n] = caller}
    IN  IF at = {} THEN <<>> ELSE SubSeq(stack, 1, Max(at) - 1)

(* while (!instruction.empty() && instruction.back() != ptr_caller)         *)
(*   instruction.pop_back();                                                *)
TrimTo(stack, caller) ==
    LET keeps(n) == n = 0 \/ stack[n] = caller
        depth == CHOOSE n \in 0..Len(stack) :
                   keeps(n) /\ \A m \in (n+1)..Len(stack) : ~keeps(m)
    IN  SubSeq(stack, 1, depth)

(* Slip: worklist_caller is not popped.                                     *)
VisitWithoutPop(pushed) ==
    /\ worklist' = Front(worklist) \o pushed
    /\ worklist_caller' = worklist_caller \o [i \in DOMAIN pushed |-> Popped]
    /\ visited' = visited \cup {Popped}

(* Slip: operands are pushed with the user's own user.                      *)
VisitWithOldCaller(pushed) ==
    /\ worklist' = Front(worklist) \o pushed
    /\ worklist_caller' = Front(worklist_caller) \o [i \in DOMAIN pushed |-> Caller]
    /\ visited' = visited \cup {Popped}

(* Pop the current value, mark it visited and push `pushed` with it as      *)
(* their caller.                                                            *)
Visit(pushed) ==
    /\ worklist' = Front(worklist) \o pushed
    /\ worklist_caller' = Front(worklist_caller) \o [i \in DOMAIN pushed |-> Popped]
    /\ visited' = visited \cup {Popped}

(* The search is at an unvisited value of one of the given classes.         *)
Visiting(kinds) ==
    /\ pc = "running"
    /\ worklist # <<>>
    /\ Popped \notin visited
    /\ ir.kind[Popped] \in kinds

(* instList.push_back(inst_pair_t(instruction, value_pair_t(type, ptr)))    *)
Record(type) ==
    /\ instList' = Append(instList,
                     [stack |-> instruction, type |-> type, source |-> Popped])
    /\ result' = TRUE

------------------------------------------------------------------------------
(* Slip: a value met again ends the search (return for continue).           *)
StopAtVisited ==
    /\ pc = "running"
    /\ worklist # <<>>
    /\ Popped \in visited
    /\ pc' = "done"
    /\ UNCHANGED <<ir, isPointer, root, worklist, worklist_caller, visited,
                   instruction, instList, a_load, result>>

(* An operand reached a second time is dropped with its caller.             *)
SkipVisited ==
    /\ pc = "running"
    /\ worklist # <<>>
    /\ Popped \in visited
    /\ worklist' = Front(worklist)
    /\ worklist_caller' = Front(worklist_caller)
    /\ UNCHANGED <<ir, isPointer, root, visited, instruction, instList,
                   a_load, result, pc>>

(* Slip: a_load tells only whether the last instruction is a load.          *)
VisitForgettingLoad ==
    /\ Visiting(HandledInsts)
    /\ instruction' = Append(TrimTo(instruction, Caller), Popped)
    /\ a_load' = (ir.kind[Popped] = "load")
    /\ Visit(Traced(ir, Popped))
    /\ UNCHANGED <<ir, isPointer, root, instList, result, pc>>

(* An instruction: cut the stack back to its user, push it, and push the    *)
(* operands its visitor traces.                                             *)
VisitInstruction ==
    /\ Visiting(HandledInsts)
    /\ instruction' = Append(TrimTo(instruction, Caller), Popped)
    /\ a_load' = (a_load \/ ir.kind[Popped] = "load")
    /\ Visit(Traced(ir, Popped))
    /\ UNCHANGED <<ir, isPointer, root, instList, result, pc>>

(* visitInstruction: exit(1) kills opt in the middle of the search.         *)
AbortOnInstruction ==
    /\ Visiting({"otherinst"})
    /\ instruction' = Append(TrimTo(instruction, Caller), Popped)
    /\ Visit(<<>>)
    /\ pc' = "exited"
    /\ UNCHANGED <<ir, isPointer, root, instList, a_load, result>>

(* Slip: a constant expression is marked and its operands are forgotten.    *)
IgnoreConstantExpr ==
    /\ Visiting(TracedExprs)
    /\ Visit(<<>>)
    /\ UNCHANGED <<ir, isPointer, root, instruction, instList, a_load, result, pc>>

VisitConstantExpr ==
    /\ Visiting(TracedExprs)
    /\ Visit(Traced(ir, Popped))
    /\ UNCHANGED <<ir, isPointer, root, instruction, instList, a_load, result, pc>>

AbortOnConstantExpr ==
    /\ Visiting({"otherexpr"})
    /\ Visit(<<>>)
    /\ pc' = "exited"
    /\ UNCHANGED <<ir, isPointer, root, instruction, instList, a_load, result>>

(* Slip: only instructions are marked visited.                              *)
VisitGlobalUnmarked ==
    /\ Visiting({"global"})
    /\ Record("GLOBAL_VAR")
    /\ worklist' = Front(worklist)
    /\ worklist_caller' = Front(worklist_caller)
    /\ UNCHANGED <<ir, isPointer, root, visited, instruction, a_load, pc>>

VisitGlobal ==
    /\ Visiting({"global"})
    /\ Record("GLOBAL_VAR")
    /\ Visit(<<>>)
    /\ UNCHANGED <<ir, isPointer, root, instruction, a_load, pc>>

(* Slip: a function is recorded as the global value it also is.             *)
VisitFunctionAsGlobal ==
    /\ Visiting({"function"})
    /\ Record("GLOBAL_VAR")
    /\ Visit(<<>>)
    /\ UNCHANGED <<ir, isPointer, root, instruction, a_load, pc>>

VisitFunction ==
    /\ Visiting({"function"})
    /\ Record("FUNCTION_PTR")
    /\ Visit(<<>>)
    /\ UNCHANGED <<ir, isPointer, root, instruction, a_load, pc>>

(* A literal counts only when some load was visited before it.              *)
VisitConstantInt ==
    /\ Visiting({"int"})
    /\ result' = (result \/ a_load)
    /\ Visit(<<>>)
    /\ UNCHANGED <<ir, isPointer, root, instruction, instList, a_load, pc>>

VisitInert ==
    /\ Visiting({"inert"})
    /\ Visit(<<>>)
    /\ UNCHANGED <<ir, isPointer, root, instruction, instList, a_load, result, pc>>

(* Slip: only pointer arguments count, for stored values too.               *)
VisitPointerArgument ==
    /\ Visiting({"argument"})
    /\ Visit(<<>>)
    /\ IF Popped \notin ir.pointer
       THEN UNCHANGED <<instList, result>>
       ELSE Record(IF isPointer THEN "ARGUMENT_PTR" ELSE "ARGUMENT_ANY")
    /\ UNCHANGED <<ir, isPointer, root, instruction, a_load, pc>>

(* An argument is a source of a stored value whatever its type, and of a    *)
(* store's address only when it is a pointer.                               *)
VisitArgument ==
    /\ Visiting({"argument"})
    /\ Visit(<<>>)
    /\ IF isPointer /\ Popped \notin ir.pointer
       THEN UNCHANGED <<instList, result>>
       ELSE Record(IF isPointer THEN "ARGUMENT_PTR" ELSE "ARGUMENT_ANY")
    /\ UNCHANGED <<ir, isPointer, root, instruction, a_load, pc>>

Return ==
    /\ pc = "running"
    /\ worklist = <<>>
    /\ pc' = "done"
    /\ UNCHANGED <<ir, isPointer, root, worklist, worklist_caller, visited,
                   instruction, instList, a_load, result>>

(* Backtrack::Backtrack: the operand is pushed with the store as caller.    *)
Start(r, p) ==
    /\ isPointer = p
    /\ root = r
    /\ worklist = <<r>>
    /\ worklist_caller = <<Store>>
    /\ visited = {}
    /\ instruction = <<>>
    /\ instList = <<>>
    /\ a_load = FALSE
    /\ result = FALSE
    /\ pc = "running"

Init ==
    /\ ir \in Programs
    /\ \E st \in ir.stores : Start(st.ptr, TRUE) \/ Start(st.value, FALSE)

Next ==
    \/ SkipVisited
    \/ VisitInstruction
    \/ AbortOnInstruction
    \/ VisitConstantExpr
    \/ AbortOnConstantExpr
    \/ VisitGlobal
    \/ VisitFunction
    \/ VisitConstantInt
    \/ VisitInert
    \/ VisitArgument
    \/ Return

(* The loop runs alone in opt's only thread: it keeps being scheduled.      *)
Spec == Init /\ [][Next]_vars /\ WF_vars(Next)

------------------------------------------------------------------------------
(* Properties.                                                              *)

(* The two stacks are pushed and popped together: they always have the same *)
(* length.  worklist_caller.back() on an empty vector would be undefined.   *)
TypeOK ==
    /\ IsGraph(ir)
    /\ isPointer \in BOOLEAN
    /\ root \in Values
    /\ worklist \in Seq(Values)
    /\ worklist_caller \in Seq(Values \cup {Store})
    /\ Len(worklist) = Len(worklist_caller)
    /\ visited \in SUBSET Values
    /\ instruction \in Seq({v \in Values : IsInstruction(v)})
    /\ instList \in Seq([stack: Seq(Values), source: Values,
                         type: {"GLOBAL_VAR", "FUNCTION_PTR", "ARGUMENT_PTR",
                                "ARGUMENT_ANY"}])
    /\ a_load \in BOOLEAN
    /\ result \in BOOLEAN
    /\ pc \in {"running", "done", "exited"}

(* Every pending value is paired with a user that has been visited and that *)
(* traces it; only the operand of the store itself is paired with the       *)
(* store, at the bottom.  The visitors push on two vectors by hand, ten     *)
(* times over: this is what keeps them telling the same story.              *)
PendingHasItsUser ==
    \A i \in DOMAIN worklist :
        \/ i = 1 /\ worklist[i] = root /\ worklist_caller[i] = Store
        \/ /\ worklist_caller[i] \in visited
           /\ worklist[i] \in ToSet(Traced(ir, worklist_caller[i]))

(* Nothing is lost on the way: an operand of a visited value has been       *)
(* visited or is still pending, and the search returns with nothing pending. *)
NothingLost ==
    LET known == visited \cup ToSet(worklist)
    IN  /\ root \in known
        /\ \A v \in visited : ToSet(Traced(ir, v)) \subseteq known
        /\ pc = "done" => worklist = <<>>

(* The search as the abstract graph search: marked nodes are visited.       *)
Search == INSTANCE GraphSearch WITH
            Nodes <- Values,
            edges <- [v \in Values |-> ToSet(Traced(ir, v))],
            start <- {root},
            reached <- visited,
            status <- pc

(* isInteresting visits only values its operand depends on through traced   *)
(* operands, and when it returns it has visited all of them: no early       *)
(* `continue` loses a subtree, cycles through phi nodes included.           *)
VisitsExactlyTheSlice == Search!Exact

(* The walk with its two stacks implements the abstract search, and it      *)
(* returns or exits.                                                        *)
ImplementsGraphSearch == Search!Spec

IsSource(v) ==
    \/ ir.kind[v] \in {"global", "function"}
    \/ ir.kind[v] = "argument" /\ (isPointer => v \in ir.pointer)

(* instList lists each visited source, and lists it once, however many      *)
(* paths lead to it.                                                        *)
SourcesRecordedOnce ==
    /\ {instList[i].source : i \in DOMAIN instList} = {v \in visited : IsSource(v)}
    /\ \A i, j \in DOMAIN instList : instList[i].source = instList[j].source => i = j

(* A store is dismissed only if nothing its operand depends on is a source, *)
(* and accepted only with a source or with a literal and a load in reach.   *)
VerdictMatchesSlice ==
    LET slice == Search!Reach
    IN  pc = "done" =>
          /\ (\E v \in slice : IsSource(v)) => result
          /\ result => \/ \E v \in slice : IsSource(v)
                       \/ /\ \E v \in slice : ir.kind[v] = "int"
                          /\ \E v \in slice : ir.kind[v] = "load"

(* A literal that can only be reached through a load makes the operand      *)
(* interesting.  (One reachable also without a load counts or not depending *)
(* on the order of the operands: a_load is one flag for the whole search.)  *)
LiteralBehindLoadCounts ==
    LET loadFree(S) ==
            /\ root \in S
            /\ \A v \in S : ir.kind[v] # "load" => ToSet(Traced(ir, v)) \subseteq S
        behindLoad(v) == \E S \in SUBSET Values : loadFree(S) /\ v \notin S
    IN  pc = "done" =>
          \A v \in Search!Reach : ir.kind[v] = "int" /\ behindLoad(v) => result

(* The instruction stack is a path of the def-use graph from the operand of *)
(* the store: cutting it back at the popped caller always finds the caller. *)
StackIsDefUsePath ==
    \A i \in DOMAIN instruction :
        IF i = 1 THEN instruction[i] = root
                 ELSE instruction[i] \in ToSet(Traced(ir, instruction[i-1]))

(* s is used by the instruction u, directly or inside constant expressions. *)
UsedThroughConstants(u, s) ==
    LET leaves == {v \in Values : ~IsInstruction(v)}
    IN  \A S \in SUBSET leaves :
            /\ ToSet(Traced(ir, u)) \cap leaves \subseteq S
            /\ \A v \in S : ToSet(Traced(ir, v)) \subseteq S
            => s \in S

(* The stack saved with a source holds an instruction that uses it (it is   *)
(* empty when the operand of the store is itself a constant): the gadget    *)
(* flags computed from it never miss the last step of the flow.             *)
RecordedStackHoldsUser ==
    \A i \in DOMAIN instList :
        LET rec == instList[i]
        IN  IF rec.stack = <<>>
            THEN ~IsInstruction(root)
            ELSE \E u \in ToSet(rec.stack) : UsedThroughConstants(u, rec.source)

(* DOPModule.cpp:155 says of the loop that it recovers "the instruction     *)
(* stack up till the ptr".  For a source that is not an instruction that    *)
(* would be the stack that ends with the instruction that uses it.          *)
RecordedStackEndsAtUser ==
    \A i \in DOMAIN instList :
        LET rec == instList[i]
        IN  rec.stack # <<>> => UsedThroughConstants(Last(rec.stack), rec.source)
==============================================================================
