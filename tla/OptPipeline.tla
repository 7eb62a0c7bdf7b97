----------------------------- MODULE OptPipeline -----------------------------
(***************************************************************************)
(* The passes of llvm/ that can be loaded together into opt, one after      *)
(* another on one module in one process (CloneFuncs, Statistics, Hello),    *)
(* and the code generator with NoopInsertion that takes up the result.      *)
(*                                                                          *)
(* The order in which passes run is that of LLVM's pass manager: module     *)
(* passes one by one, neighbouring function passes together, all of them on *)
(* one function before the next.                                            *)
(***************************************************************************)
EXTENDS CloneFuncs, Statistics, NoopInsertion

CONSTANT Pipelines   \* the passes on opt's command line

VARIABLES
    passes,         \* one of Pipelines
    p,              \* the position among them
    x, g,           \* the position among functions (0: not begun) and in a
                    \* group of function passes
    HelloCounter,   \* of the passes Hello and Hello2, which share it
    greetings,      \* the pass and the function of each line they print
    program,        \* the module before the first pass, never changed
    status          \* "running", "parsed", "coding", "emitted" or "refused"

statistics == <<counters, enabled, reports>>
hello == <<HelloCounter, greetings>>
coding == <<command, flag, option, noops>>
fixed == <<passes, program>>
vars == <<globals, functions, cloning, statistics, hello, coding, fixed, p, x, g, status>>

FunctionPasses == {"myhello", "myhello2"}
ASSUME PipelinesAssumption ==
    Pipelines \subseteq Seq({"clonefuncs", "mystats"} \cup FunctionPasses)

Running(pass) == status = "running" /\ p <= Len(passes) /\ passes[p] = pass
InFunctions == x \in DOMAIN functions
F == functions[x]

(* The function passes from the current position on.                        *)
Group == {n \in DOMAIN passes : n >= p /\ \A m \in p..n : passes[m] \in FunctionPasses}

------------------------------------------------------------------------------
Init ==
    /\ program \in Programs
    /\ globals = program.globals /\ functions = program.functions
    /\ passes \in Pipelines /\ command \in Invocations /\ enabled \in BOOLEAN
    /\ toClone = <<>> /\ LastUnique = 0
    /\ counters = NoCounts /\ reports = <<>>
    /\ HelloCounter = 0 /\ greetings = <<>>
    /\ flag = FALSE /\ option = FALSE /\ noops = <<>>
    /\ p = 1 /\ x = 0 /\ g = 0
    /\ status = "running"

StartCloning ==
    /\ Running("clonefuncs") /\ x = 0
    /\ CollectFunctions
    /\ x' = 1
    /\ UNCHANGED <<statistics, hello, coding, fixed, p, g, status>>

CloneNext ==
    /\ Running("clonefuncs") /\ x = 1
    /\ CloneFirst
    /\ UNCHANGED <<statistics, hello, coding, fixed, p, x, g, status>>

EndCloning ==
    /\ Running("clonefuncs") /\ x = 1 /\ toClone = <<>>
    /\ p' = p + 1 /\ x' = 0
    /\ UNCHANGED <<globals, functions, cloning, statistics, hello, coding, fixed, g, status>>

StartCounting ==
    /\ Running("mystats") /\ x = 0
    /\ CountGlobals
    /\ x' = 1
    /\ UNCHANGED <<cloning, hello, coding, fixed, p, g, status>>

CountNext ==
    /\ Running("mystats") /\ InFunctions
    /\ CountFunction(F)
    /\ x' = x + 1
    /\ UNCHANGED <<cloning, hello, coding, fixed, p, g, status>>

PrintStatistics ==
    /\ Running("mystats") /\ x > Len(functions)
    /\ PrintCounters
    /\ p' = p + 1 /\ x' = 0
    /\ UNCHANGED <<cloning, hello, coding, fixed, g, status>>

(* Slip: only one of the two passes counts.                                 *)
GreetUncounted ==
    /\ status = "running" /\ p + g \in Group /\ InFunctions
    /\ ~isDeclaration(F)
    /\ HelloCounter' =
         IF enabled /\ passes[p + g] = "myhello" THEN HelloCounter + 1 ELSE HelloCounter
    /\ greetings' = Append(greetings, <<passes[p + g], F.name>>)
    /\ g' = g + 1
    /\ UNCHANGED <<globals, functions, cloning, statistics, coding, fixed, p, x, status>>

(* runOnFunction of Hello or Hello2.                                        *)
Greet ==
    /\ status = "running" /\ p + g \in Group /\ InFunctions
    /\ ~isDeclaration(F)
    /\ HelloCounter' = IF enabled THEN HelloCounter + 1 ELSE HelloCounter
    /\ greetings' = Append(greetings, <<passes[p + g], F.name>>)
    /\ g' = g + 1
    /\ UNCHANGED <<globals, functions, cloning, statistics, coding, fixed, p, x, status>>

NextFunction ==
    /\ status = "running" /\ Group # {} /\ x <= Len(functions)
    /\ InFunctions => isDeclaration(F) \/ p + g \notin Group
    /\ x' = x + 1 /\ g' = 0
    /\ UNCHANGED <<globals, functions, cloning, statistics, hello, coding, fixed, p, status>>

EndGroup ==
    /\ status = "running" /\ Group # {} /\ x > Len(functions)
    /\ p' = p + Cardinality(Group) /\ x' = 0
    /\ UNCHANGED <<globals, functions, cloning, statistics, hello, coding, fixed, g, status>>

(* The module that opt writes goes to a code generator, or to the driver    *)
(* that starts one.                                                         *)
Written == status = "running" /\ p > Len(passes)

RunDriver ==
    /\ Written
    /\ RunFrontEnd
    /\ UNCHANGED <<globals, functions, cloning, statistics, hello, fixed, p, x, g, status>>

ReadCommandLine ==
    /\ Written
    /\ ParseCommandLineOptions \/ ParseCodeGenArgs
    /\ status' = "parsed"
    /\ UNCHANGED <<globals, functions, cloning, statistics, hello, fixed, p, x, g>>

StartCoding ==
    /\ status = "parsed"
    /\ InitTargetOptionsFromCodeGenFlags \/ initTargetOptions
    /\ x' = 1 /\ status' = "coding"
    /\ UNCHANGED <<globals, functions, cloning, statistics, hello, fixed, p, g>>

(* An unknown flag is an error.                                             *)
Refuse ==
    /\ Written
    /\ ~IsAccepted(command)
    /\ status' = "refused"
    /\ UNCHANGED <<globals, functions, cloning, statistics, hello, coding, fixed, p, x, g>>

Emit ==
    /\ status = "coding" /\ InFunctions
    /\ IF isDeclaration(F) THEN UNCHANGED coding ELSE EmitFunction(F)
    /\ x' = x + 1
    /\ UNCHANGED <<globals, functions, cloning, statistics, hello, fixed, p, g, status>>

EndCoding ==
    /\ status = "coding" /\ x > Len(functions)
    /\ status' = "emitted"
    /\ UNCHANGED <<globals, functions, cloning, statistics, hello, coding, fixed, p, x, g>>

Next ==
    \/ StartCloning \/ CloneNext \/ EndCloning
    \/ StartCounting \/ CountNext \/ PrintStatistics
    \/ Greet \/ NextFunction \/ EndGroup
    \/ RunDriver \/ ReadCommandLine \/ StartCoding \/ Refuse \/ Emit \/ EndCoding

Spec == Init /\ [][Next]_vars

------------------------------------------------------------------------------
(* How many times each definition of the program is in the module after n   *)
(* passes.                                                                  *)
Copies[n \in 0..Len(passes)] ==
    IF n = 0 THEN 1
    ELSE IF passes[n] = "clonefuncs" THEN 2 * Copies[n - 1] ELSE Copies[n - 1]

First == Len(Defined(program.functions))
Originals == {program.functions[n].name : n \in DOMAIN program.functions}

(* The definitions that the n-th pass finds.                                *)
Found(n) == First * Copies[n - 1]

IsCloneOf(copy, original) ==
    /\ Front(copy.name) = original.name
    /\ copy.blocks = original.blocks
    /\ copy.section = ".clone"

(* Each definition is cloned exactly once by each clonefuncs, clones of an  *)
(* earlier one included and those of the same one not: the definitions it   *)
(* adds are, one by one, the clones of those it found, so that they double  *)
(* and never more.  A clone is its original under another name, in its own  *)
(* section.  The program's functions stay as they were, nothing is added to *)
(* them but clones, names are unique, and all calls are calls of the        *)
(* program's functions: no clone is ever called.                            *)
ClonesMirrorOriginals ==
    /\ x = 0 \/ p > Len(passes) => Len(Definitions) = First * Copies[p - 1]
    /\ p <= Len(passes) => Len(Definitions) <= First * Copies[p]
    /\ \A n \in DOMAIN passes : passes[n] = "clonefuncs" =>
         \A k \in 1..Found(n) : Found(n) + k \in DOMAIN Definitions =>
           IsCloneOf(Definitions[Found(n) + k], Definitions[k])
    /\ SubSeq(functions, 1, Len(program.functions)) = program.functions
    /\ Cardinality({functions[n].name : n \in DOMAIN functions}) = Len(functions)
    /\ \A n \in Len(program.functions) + 1..Len(functions) :
         /\ ~isDeclaration(functions[n])
         /\ \A I \in ToSet(Insts(functions[n])) :
              I.kind = "call" /\ I.callee = "function" => I.to \in Originals

(* Every report adds to the one before it what the module holds when it is  *)
(* made: the program's globals once more, and the counts of its bodies as   *)
(* often as clonefuncs has doubled them.  Without assertions it is zero.    *)
Times(n, counts) == [s \in StatNames |-> n * counts[s]]
Bodies == SumOf(MapSeq(CountsOfFunction, program.functions))
Globals == SumOf(MapSeq(CountsOfGlobal, program.globals))
ReportsUpTo(n) == Cardinality({m \in 1..n : passes[m] = "mystats"})

ReportsAccumulate ==
    /\ Len(reports) = ReportsUpTo(p - 1)
    /\ \A n \in 1..p - 1 :
         LET k == ReportsUpTo(n)
         IN  passes[n] = "mystats" =>
               reports[k] =
                 IF enabled
                 THEN Plus(IF k = 1 THEN NoCounts ELSE reports[k - 1],
                           Plus(Globals, Times(Copies[n], Bodies)))
                 ELSE NoCounts

(* Between passes every Hello that has run has greeted every definition of  *)
(* its time, clones included: each of the program's own once, and as many   *)
(* in all as there were.  The shared counter is the number of greetings, so *)
(* a function counts twice if both passes run, or zero without assertions.  *)
GreetingsUpTo[n \in 0..Len(passes)] ==
    IF n = 0 THEN 0
    ELSE IF passes[n] \in FunctionPasses THEN GreetingsUpTo[n - 1] + First * Copies[n]
    ELSE GreetingsUpTo[n - 1]

GreetsEveryDefinition ==
    /\ HelloCounter = IF enabled THEN Len(greetings) ELSE 0
    /\ x = 0 =>
         /\ Len(greetings) = GreetingsUpTo[p - 1]
         /\ \A fun \in ToSet(Defined(program.functions)), pass \in FunctionPasses :
              Cardinality({k \in DOMAIN greetings : greetings[k] = <<pass, fun.name>>})
                = Cardinality({n \in 1..p - 1 : passes[n] = pass})

(* In emitted code every block of every definition, clones included, has    *)
(* one no-op in front if the tool that generates the code was given its own *)
(* flag, and none otherwise: neither the tool's parser nor the copy into    *)
(* the options of the target loses the flag, or sets it by itself.          *)
NoopsFollowBackEndFlag ==
    status = "emitted" =>
      /\ DOMAIN noops = {fun.name : fun \in ToSet(Definitions)}
      /\ \A fun \in ToSet(Definitions) :
           noops[fun.name] =
             [b \in DOMAIN fun.blocks |->
                IF \/ command.tool = "llc" /\ "-noop-insertion" \in ToSet(command.flags)
                   \/ command.tool = "clang -cc1" /\ "-mnoop-insertion" \in ToSet(command.flags)
                THEN 1 ELSE 0]
==============================================================================
