------------------------------- MODULE LoopScan -------------------------------
(***************************************************************************)
(* llvm/DOP-Gadgets: the scan of DOPModule::runOnModule.  Every top-level   *)
(* loop of every defined function is selected or not by the command line;   *)
(* the stores of a selected loop, of the functions it calls and of the      *)
(* functions those call (two levels, no more) are analysed, and the         *)
(* interesting ones collected.                                              *)
(*                                                                          *)
(* The analysis of one store (module InstInst) is its verdict here.         *)
(***************************************************************************)
EXTENDS Naturals, SequencesExt

CONSTANTS
    Functions,   \* functions, which are also their names
    Names,       \* what a line of a list can be, names of functions among it
    Insts,       \* instructions
    None,        \* no known callee
    Modules,     \* the LLVM modules scanned
    Options      \* the command lines

VARIABLES
    module,            \* the module, one of Modules
    opt,               \* the options, one of Options
    f, l, i,           \* positions of the three nested loops: function,
                       \* top-level loop, instruction (0: not entered)
    total_loop, interesting_loop,
    interesting,       \* the current function has shown an interesting store
    result,            \* the stores collected: the keys of the map `result`
    status             \* "scanning", "reported" or "exited"

input == <<module, opt>>
position == <<f, l, i>>
counters == <<total_loop, interesting_loop>>
vars == <<input, position, counters, interesting, result, status>>

(* A module: its functions in order, those with a body, the instructions of *)
(* each body, the top-level loops of each function as the instructions of   *)
(* their blocks (nested loops included), the known callee of each call,     *)
(* which calls are invokes, and the verdict of InstInst on each store.      *)
IsModule(m) ==
    /\ m \in [functions: Seq(Functions), defined: SUBSET Functions,
              body: [Functions -> Seq(Insts)], loops: [Functions -> Seq(Seq(Insts))],
              stores: SUBSET Insts, callee: [Insts -> Functions \cup {None}],
              invokes: SUBSET Insts,
              verdict: [Insts -> {"interesting", "boring", "exit"}]]
    /\ IsInjective(m.functions)
    /\ \A g \in Functions :
         /\ g \notin m.defined => m.body[g] = <<>> /\ m.loops[g] = <<>>
         /\ \A k \in DOMAIN m.loops[g] : ToSet(m.loops[g][k]) \subseteq ToSet(m.body[g])
    /\ \A s \in m.stores : m.callee[s] = None

(* FL and dop_dyn tell whether the options are given, functionList the      *)
(* lines read and dyn_map the instructions of the dynamic trace.            *)
IsOption(o) ==
    o \in [FL: BOOLEAN, functionList: SUBSET Names,
           dop_dyn: BOOLEAN, dyn_map: SUBSET Insts]

ASSUME ModulesAssumption == \A m \in Modules : IsModule(m)
ASSUME OptionsAssumption == \A o \in Options : IsOption(o)

------------------------------------------------------------------------------
(* A definition introduced as a "Slip" is the one after it with a plausible *)
(* mistake; nothing uses it but the runs that show a property notices.      *)

Fun == module.functions[f]
Loops == module.loops[Fun]
Inst == Loops[l][i]

checkFunction(name) == opt.functionList = {} \/ name \in opt.functionList

(* The conditions before the label `desperate`.                             *)
Selected(fun, loop) ==
    \/ ~opt.dop_dyn /\ ~opt.FL
    \/ opt.FL /\ checkFunction(fun)
    \/ opt.dop_dyn /\ ToSet(loop) \cap opt.dyn_map # {}

(* What a CallInst calls; an invoke is another class of instruction.        *)
CalledFunction(x) == IF x \in module.invokes THEN None ELSE module.callee[x]

(* The functions the call graph node of fun has an edge to: an invoke is an *)
(* edge as well.                                                            *)
Callees(fun) == {module.callee[x] : x \in ToSet(module.body[fun])} \ {None}

StoresOf(fun) == ToSet(module.body[fun]) \cap module.stores

(* Slip: the callees of the callees are followed as well.                   *)
ExploredThreeDeep(x) ==
    LET fun == CalledFunction(x)
        second == Callees(fun)
        third == UNION {Callees(g) : g \in second}
    IN  IF fun = None THEN {x} \cap module.stores
        ELSE StoresOf(fun) \cup UNION {StoresOf(g) : g \in second \cup third}

(* The stores analysed because of one instruction of a selected loop: the   *)
(* instruction itself, or those of the function it calls and of that        *)
(* function's callees.  An invoke is passed over in the loop, and followed  *)
(* in the function called.                                                  *)
Explored(x) ==
    LET fun == CalledFunction(x)
    IN  IF fun = None THEN {x} \cap module.stores
        ELSE StoresOf(fun) \cup UNION {StoresOf(g) : g \in Callees(fun)}

Verdicts(S, v) == {s \in S : module.verdict[s] = v}

AtFunction == status = "scanning" /\ f <= Len(module.functions)
AtLoop == AtFunction /\ Fun \in module.defined /\ l <= Len(Loops)

------------------------------------------------------------------------------
SkipDeclaration ==
    /\ AtFunction
    /\ Fun \notin module.defined
    /\ f' = f + 1
    /\ UNCHANGED <<input, l, i, counters, interesting, result, status>>

SkipLoop ==
    /\ AtLoop /\ i = 0
    /\ ~Selected(Fun, Loops[l])
    /\ l' = l + 1
    /\ UNCHANGED <<input, f, i, counters, interesting, result, status>>

EnterLoop ==
    /\ AtLoop /\ i = 0
    /\ Selected(Fun, Loops[l])
    /\ total_loop' = total_loop + 1
    /\ i' = 1
    /\ UNCHANGED <<input, f, l, interesting_loop, interesting, result, status>>

(* One instruction of a selected loop: a store, a call or anything else.    *)
VisitInstruction ==
    /\ AtLoop /\ i \in 1..Len(Loops[l])
    /\ Verdicts(Explored(Inst), "exit") = {}
    /\ LET found == Verdicts(Explored(Inst), "interesting")
       IN  /\ interesting' = (interesting \/ found # {})
           /\ result' = result \cup found
    /\ i' = i + 1
    /\ UNCHANGED <<input, f, l, counters, status>>

(* Slip: a store that cannot be analysed is passed over.                    *)
PassOver ==
    /\ AtLoop /\ i \in 1..Len(Loops[l])
    /\ Verdicts(Explored(Inst), "exit") # {}
    /\ i' = i + 1
    /\ UNCHANGED <<input, f, l, counters, interesting, result, status>>

(* InstInst met something it cannot handle: exit(1) ends opt, and with it   *)
(* the report of everything found so far.                                   *)
Abort ==
    /\ AtLoop /\ i \in 1..Len(Loops[l])
    /\ Verdicts(Explored(Inst), "exit") # {}
    /\ status' = "exited"
    /\ UNCHANGED <<input, position, counters, interesting, result>>

(* Slip: the loop is not left.                                              *)
LeaveLoopLate ==
    /\ AtLoop /\ i > Len(Loops[l]) + 1
    /\ l' = l + 1
    /\ i' = 0
    /\ UNCHANGED <<input, f, counters, interesting, result, status>>

LeaveLoop ==
    /\ AtLoop /\ i > Len(Loops[l])
    /\ l' = l + 1
    /\ i' = 0
    /\ UNCHANGED <<input, f, counters, interesting, result, status>>

(* Slip: the flag survives the function.                                    *)
LeaveFunctionFlagged ==
    /\ AtFunction /\ Fun \in module.defined /\ l > Len(Loops)
    /\ interesting_loop' = IF interesting THEN interesting_loop + 1 ELSE interesting_loop
    /\ f' = f + 1
    /\ l' = 1
    /\ UNCHANGED <<input, i, total_loop, interesting, result, status>>

(* Slip: the loop index is not reset.                                       *)
LeaveFunctionAtLoop ==
    /\ AtFunction /\ Fun \in module.defined /\ l > Len(Loops)
    /\ interesting_loop' = IF interesting THEN interesting_loop + 1 ELSE interesting_loop
    /\ f' = f + 1
    /\ interesting' = FALSE
    /\ UNCHANGED <<input, l, i, total_loop, result, status>>

(* The end of the body of the loop over functions: the flag is declared in  *)
(* it, so it is counted once per function and starts afresh.                *)
LeaveFunction ==
    /\ AtFunction /\ Fun \in module.defined /\ l > Len(Loops)
    /\ interesting_loop' = IF interesting THEN interesting_loop + 1 ELSE interesting_loop
    /\ f' = f + 1
    /\ l' = 1
    /\ interesting' = FALSE
    /\ UNCHANGED <<input, i, total_loop, result, status>>

Report ==
    /\ status = "scanning" /\ f > Len(module.functions)
    /\ status' = "reported"
    /\ UNCHANGED <<input, position, counters, interesting, result>>

Init ==
    /\ module \in Modules
    /\ opt \in Options
    /\ f = 1 /\ l = 1 /\ i = 0
    /\ total_loop = 0 /\ interesting_loop = 0
    /\ interesting = FALSE
    /\ result = {}
    /\ status = "scanning"

Next ==
    \/ SkipDeclaration
    \/ SkipLoop
    \/ EnterLoop
    \/ VisitInstruction
    \/ Abort
    \/ LeaveLoop
    \/ LeaveFunction
    \/ Report

(* runOnModule runs alone in opt's only thread.                             *)
Spec == Init /\ [][Next]_vars /\ WF_vars(Next)

------------------------------------------------------------------------------
(* Properties.                                                              *)

TypeOK ==
    /\ f \in 1..(Len(module.functions) + 1)
    /\ l \in Nat \ {0}
    /\ i \in Nat
    /\ AtFunction => l <= Len(Loops) + 1
    /\ AtLoop => i <= Len(Loops[l]) + 1
    /\ total_loop \in Nat /\ interesting_loop \in Nat
    /\ interesting \in BOOLEAN
    /\ result \subseteq module.stores
    /\ status \in {"scanning", "reported", "exited"}

(* What the scan is for, written without its order: the selected loops of   *)
(* the module as pairs of a function and an index.                          *)
SelectedLoops ==
    UNION {{<<g, k>> : k \in {j \in DOMAIN module.loops[g] : Selected(g, module.loops[g][j])}} :
             g \in ToSet(module.functions) \cap module.defined}

LoopBody(fk) == ToSet(module.loops[fk[1]][fk[2]])

(* The stores a loop answers for: its own, those of the functions it calls  *)
(* with a CallInst, and those of the functions they call or invoke.         *)
InScope(body) ==
    LET called == {module.callee[x] : x \in body \ module.invokes} \ {None}
        reached == called \cup UNION {Callees(g) : g \in called}
    IN  (body \cap module.stores) \cup UNION {StoresOf(g) : g \in reached}

Scope == UNION {InScope(LoopBody(fk)) : fk \in SelectedLoops}

(* The report holds exactly the interesting stores within two calls of a    *)
(* selected loop, the first of them not an invoke, whatever the order of    *)
(* functions and however often a function is reached, and counts each       *)
(* selected loop once.                                                      *)
ReportIsExact ==
    status = "reported" =>
        /\ result = Verdicts(Scope, "interesting")
        /\ total_loop = Cardinality(SelectedLoops)

(* The first column counts the functions that have a selected loop with an  *)
(* interesting store in its scope.                                          *)
InterestingCountsFunctions ==
    status = "reported" =>
        interesting_loop = Cardinality({fk[1] : fk \in
            {x \in SelectedLoops : Verdicts(InScope(LoopBody(x)), "interesting") # {}}})

(* One store that cannot be analysed, in the scope of a selected loop,      *)
(* costs the whole report; nothing else does.                               *)
AllOrNothing ==
    /\ status = "exited" => Verdicts(Scope, "exit") # {}
    /\ status = "reported" => Verdicts(Scope, "exit") = {}

(* The scan ends in a report or in exit(1).                                 *)
ScanEnds == <>(status # "scanning")

(* The help of -function-list (DOPModule.cpp:16) calls it the "list of      *)
(* functions to ignore": no loop of a listed function is then scanned.      *)
ListedFunctionsIgnored ==
    opt.FL /\ AtLoop /\ i > 0 => Fun \notin opt.functionList
==============================================================================
