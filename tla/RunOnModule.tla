----------------------------- MODULE RunOnModule -----------------------------
(***************************************************************************)
(* llvm/DOP-Gadgets: the whole of DOPModule::runOnModule.  It composes the  *)
(* readers of the option files, the walk to callers on the names they give  *)
(* and the scan of the module on the options they give.                     *)
(***************************************************************************)
EXTENDS OptionFiles

CONSTANTS
    Insts, None, Modules,   \* as in LoopScan
    NoFunction,             \* as in CallerWalk
    NoLocation,             \* an instruction without a debug location
    DebugLine               \* the line of each instruction

VARIABLES
    dyn_map,                               \* the instructions of the trace
    module, f, l, i, total_loop, interesting_loop, interesting, result,
    scan,                                  \* variables of LoopScan
    taken, worklist, visited, walk         \* variables of CallerWalk

taking == <<cmd, reader, lists>>
scanning == <<f, l, i, total_loop, interesting_loop, interesting, result, scan>>
walking == <<taken, worklist, visited, walk>>
vars == <<taking, dyn_map, module, scanning, walking>>

ASSUME LinesAssumption == DebugLine \in [Insts -> Numbers \cup {NoLocation}]

Scan == INSTANCE LoopScan WITH
    status <- scan, Options <- {},
    opt <- [FL |-> Given("function-list"), functionList |-> ToSet(functionList),
            dop_dyn |-> Given("dop-dyn"), dyn_map |-> dyn_map]

(* A function with a body is one of the module's.                           *)
ASSUME ModulesAssumption ==
    \A m \in Modules : Scan!IsModule(m) /\ m.defined \subseteq ToSet(m.functions)

(* Functions are used by the instructions that call or invoke them.         *)
Parent(x) == CHOOSE g \in module.defined : x \in ToSet(module.body[g])

Walk == INSTANCE CallerWalk WITH
    Functions <- Names, Modules <- {}, Lists <- {}, status <- walk,
    module <- [named |-> ToSet(module.functions), defined |-> module.defined,
               users |-> [g \in Names |->
                 LET calls == {x \in UNION {ToSet(module.body[h]) : h \in module.defined} :
                                 module.callee[x] = g}
                 IN  [n \in 1..Cardinality(calls) |->
                        [kind |-> IF SetToSeq(calls)[n] \in module.invokes THEN "other" ELSE "call",
                         parent |-> Parent(SetToSeq(calls)[n])]]]]

------------------------------------------------------------------------------
Init ==
    /\ StartReader
    /\ module \in Modules
    /\ dyn_map = {}
    /\ f = 1 /\ l = 1 /\ i = 0 /\ total_loop = 0 /\ interesting_loop = 0
    /\ interesting = FALSE /\ result = {} /\ scan = "scanning"
    /\ taken = 0 /\ worklist = <<>> /\ visited = {} /\ walk = "choosing"

ReadOptions == TakeOptions /\ UNCHANGED <<dyn_map, module, scanning, walking>>

(* The names of -vuln-list are walked, and the walks end in exit(1).        *)
WalkCallers ==
    /\ stage = "walk"
    /\ UNCHANGED <<taking, dyn_map, module, scanning>>
    /\ Walk!Next

(* The bodies of the functions that the trace gives a line.                 *)
Traced == {g \in ToSet(module.functions) : temp_map[g] # Zero}
BodyOf(S) == UNION {ToSet(module.body[g]) : g \in S}

(* The instructions of the functions in the trace that are on their line.   *)
MapTrace ==
    /\ stage = "map"
    /\ \A x \in BodyOf(Traced) : DebugLine[x] # NoLocation
    /\ dyn_map' = UNION {{x \in BodyOf({g}) : DebugLine[x] = temp_map[g]} : g \in Traced}
    /\ stage' = "scan"
    /\ UNCHANGED <<cmd, text, stream, lists, module, scanning, walking>>

(* getLine of an empty location is an assertion that fails, or a null       *)
(* pointer followed.                                                        *)
MapCrash ==
    /\ stage = "map"
    /\ \E x \in BodyOf(Traced) : DebugLine[x] = NoLocation
    /\ stage' = "crashed"
    /\ UNCHANGED <<cmd, text, stream, lists, dyn_map, module, scanning, walking>>

ScanLoops ==
    /\ stage = "scan"
    /\ UNCHANGED <<taking, dyn_map, module, walking>>
    /\ Scan!Next

Next == ReadOptions \/ WalkCallers \/ MapTrace \/ MapCrash \/ ScanLoops

(* One thread, which does not stop between two steps.                       *)
Spec == Init /\ [][Next]_vars /\ WF_vars(Next)

------------------------------------------------------------------------------
(* The instructions a trace is about, from the text of its file.            *)
TracedInsts(file) ==
    UNION {{x \in BodyOf({g}) : LineIn(file, g) # Zero /\ DebugLine[x] = LineIn(file, g)} :
             g \in module.defined}

(* What the command line asks for, read off the texts.                      *)
Asked == INSTANCE LoopScan WITH
    status <- scan, Options <- {},
    opt <- [FL |-> Given("function-list"),
            functionList |-> IF Given("function-list") THEN TheLines(cmd["function-list"]) ELSE {},
            dop_dyn |-> Given("dop-dyn"),
            dyn_map |-> IF Given("dop-dyn") THEN TracedInsts(cmd["dop-dyn"]) ELSE {}]

(* A report is about exactly the loops that the files ask for: those of the *)
(* functions on a line of -function-list (so none if the file is empty) and *)
(* those with an instruction on the last line that the trace gives for its  *)
(* function.                                                                *)
ReportFollowsFiles == scan = "reported" => Asked!ReportIsExact

(* The pass ends in a report only if nothing else was asked for and every   *)
(* file opened, in a crash only if a list did not open (memory runs out) or *)
(* a traced function has an instruction without a debug location, and with  *)
(* -danger or -vuln-list never in a report.                                 *)
EndsAreExplained ==
    /\ scan = "reported" =>
         /\ ~cmd["danger"] /\ ~Given("vuln-list")
         /\ \A r \in Readers : Given(r) => cmd[r] # Unreadable
         /\ Given("dop-dyn") => WellFormed(cmd["dop-dyn"])
    /\ stage = "crashed" =>
         \/ Unreadable \in {cmd["function-list"], cmd["vuln-list"]}
         \/ /\ ~Given("vuln-list") /\ Given("dop-dyn")
            /\ \E g \in module.defined, x \in Insts :
                 /\ x \in BodyOf({g}) /\ DebugLine[x] = NoLocation
                 /\ LineIn(cmd["dop-dyn"], g) # Zero
    /\ (stage = "exited" \/ walk = "exited") => cmd["danger"] \/ Given("vuln-list")

(* The pass reads for ever exactly if it gets to a trace that does not open *)
(* or is not well formed.                                                   *)
Ended == stage \in {"exited", "crashed"} \/ walk = "exited" \/ scan # "scanning"

ReadsForEver ==
    /\ ~cmd["danger"] /\ cmd["function-list"] # Unreadable /\ ~Given("vuln-list")
    /\ Given("dop-dyn") /\ ~WellFormed(cmd["dop-dyn"])

EndsUnlessTraceIsMalformed ==
    [](ReadsForEver => ~Ended) /\ (~ReadsForEver ~> Ended)
==============================================================================
