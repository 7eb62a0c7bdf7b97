----------------------------- MODULE CallerWalk -----------------------------
(***************************************************************************)
(* llvm/DOP-Gadgets: what runOnModule does with -vuln-list.  For each name  *)
(* in the file it walks backwards over call instructions from the function  *)
(* of that name to the functions that may call it, and then ends the        *)
(* process; the sets it found are not used.                                 *)
(***************************************************************************)
EXTENDS SequencesExt, Naturals

CONSTANTS
    Functions,   \* functions, which are also their names
    NoFunction,  \* the null Function pointer
    EmptyLine,   \* the name that is an empty string
    Modules,     \* the modules walked
    Lists        \* the names read from the list (module OptionFiles)

VARIABLES
    module,        \* one of Modules
    vulnFuncList,  \* the names read
    taken,         \* how many of them have been taken up
    worklist,      \* functions to look at, the last one first
    visited,       \* of the current walk
    status         \* "choosing", "walking" or "exited"

vars == <<module, vulnFuncList, taken, worklist, visited, status>>

(* A module: the functions it names, those with a body, and the users of    *)
(* each function in a defined function: call instructions, which may also   *)
(* only pass it as an argument, or others (invoke, a store of its address). *)
Users == [kind: {"call", "other"}, parent: Functions]

IsModule(m) ==
    /\ m \in [named: SUBSET Functions, defined: SUBSET Functions,
              users: [Functions -> Seq(Users)]]
    /\ m.defined \subseteq m.named
    /\ \A g \in Functions :
         /\ g \notin m.named => m.users[g] = <<>>
         /\ \A u \in ToSet(m.users[g]) : u.parent \in m.defined

(* The null pointer points to no function.                                  *)
ASSUME NoFunctionAssumption == NoFunction \notin Functions
ASSUME ModulesAssumption == \A m \in Modules : IsModule(m)
ASSUME ListsAssumption == Lists \subseteq Seq(Functions \cup {EmptyLine})

------------------------------------------------------------------------------
(* A definition introduced as a "Slip" is the one after it with a plausible *)
(* mistake; nothing uses it but the runs that show a property notices.      *)

getFunction(name) == IF name \in module.named THEN name ELSE NoFunction

(* What the loop over the users of g pushes, one function per call.         *)
CallingFuncs(g) ==
    LET users == module.users[g]
        pushed[n \in 0..Len(users)] ==
            IF n = 0 THEN <<>>
            ELSE IF users[n].kind = "call" THEN Append(pushed[n - 1], users[n].parent)
            ELSE pushed[n - 1]
    IN  pushed[Len(users)]

F == Last(worklist)
Rest == Front(worklist)

Init ==
    /\ module \in Modules
    /\ vulnFuncList \in Lists
    /\ taken = 0
    /\ worklist = <<>>
    /\ visited = {}
    /\ status = "choosing"

------------------------------------------------------------------------------
Choosing == status = "choosing" /\ taken < Len(vulnFuncList)

SkipEmpty ==
    /\ Choosing
    /\ vulnFuncList[taken + 1] = EmptyLine
    /\ taken' = taken + 1
    /\ UNCHANGED <<module, vulnFuncList, worklist, visited, status>>

(* Slip: the set of the walk before is kept.                                *)
StartKeeping ==
    /\ Choosing
    /\ vulnFuncList[taken + 1] # EmptyLine
    /\ taken' = taken + 1
    /\ worklist' = <<getFunction(vulnFuncList[taken + 1])>>
    /\ status' = "walking"
    /\ UNCHANGED <<module, vulnFuncList, visited>>

Start ==
    /\ Choosing
    /\ vulnFuncList[taken + 1] # EmptyLine
    /\ taken' = taken + 1
    /\ worklist' = <<getFunction(vulnFuncList[taken + 1])>>
    /\ visited' = {}
    /\ status' = "walking"
    /\ UNCHANGED <<module, vulnFuncList>>

Walking == status = "walking" /\ worklist # <<>>

(* Slip: a visited function is looked at again without being taken off.     *)
SkipInPlace ==
    /\ Walking
    /\ F = NoFunction \/ F \in visited \/ F \notin module.defined
    /\ worklist' = IF F \in visited THEN worklist ELSE Rest
    /\ UNCHANGED <<module, vulnFuncList, taken, visited, status>>

(* The three `continue`s: null, already visited, a declaration.             *)
Skip ==
    /\ Walking
    /\ F = NoFunction \/ F \in visited \/ F \notin module.defined
    /\ worklist' = Rest
    /\ UNCHANGED <<module, vulnFuncList, taken, visited, status>>

(* Slip: a declaration is visited too.                                      *)
VisitNamed ==
    /\ Walking
    /\ F \in module.named \ visited
    /\ visited' = visited \cup {F}
    /\ worklist' = Rest \o CallingFuncs(F)
    /\ UNCHANGED <<module, vulnFuncList, taken, status>>

Visit ==
    /\ Walking
    /\ F \in module.defined \ visited
    /\ visited' = visited \cup {F}
    /\ worklist' = Rest \o CallingFuncs(F)
    /\ UNCHANGED <<module, vulnFuncList, taken, status>>

EndWalk ==
    /\ status = "walking"
    /\ worklist = <<>>
    /\ status' = "choosing"
    /\ UNCHANGED <<module, vulnFuncList, taken, worklist, visited>>

(* exit(1), whatever was found.                                             *)
Exit ==
    /\ status = "choosing"
    /\ taken = Len(vulnFuncList)
    /\ status' = "exited"
    /\ UNCHANGED <<module, vulnFuncList, taken, worklist, visited>>

Next == SkipEmpty \/ Start \/ Skip \/ Visit \/ EndWalk \/ Exit

(* The pass runs in one thread that does not stop between two steps.        *)
Spec == Init /\ [][Next]_vars /\ WF_vars(Next)

------------------------------------------------------------------------------
(* The names, the walk and its set are well typed, and the list is taken up *)
(* in order.                                                                *)
TypeOK ==
    /\ vulnFuncList \in Seq(Functions \cup {EmptyLine})
    /\ taken \in 0..Len(vulnFuncList)
    /\ worklist \in Seq(Functions \cup {NoFunction})
    /\ visited \subseteq module.defined
    /\ status \in {"choosing", "walking", "exited"}
    /\ status # "walking" => worklist = <<>>

(* The functions with a call instruction that uses g.                       *)
Callers(g) == {u.parent : u \in {w \in ToSet(module.users[g]) : w.kind = "call"}}

(* The walk as a search, from a defined function, of the graph of callers.  *)
Walked == IF taken = 0 THEN NoFunction ELSE getFunction(vulnFuncList[taken])

Search == INSTANCE GraphSearch WITH
    Nodes <- Functions,
    edges <- [g \in Functions |-> Callers(g)],
    start <- {Walked} \cap module.defined,
    reached <- visited,
    status <- IF status = "walking" THEN "running" ELSE "done"

(* Between walks, visited is exactly the set of functions from which call   *)
(* instructions lead to the last function taken up, and never more during   *)
(* a walk: no walk is affected by the one before it, by cycles of calls or  *)
(* by a function used twice by one caller.                                  *)
VisitedIsExact ==
    taken > 0 /\ vulnFuncList[taken] # EmptyLine => Search!Exact

(* Every list that can be read is walked to the end, cyclic calls included, *)
(* and ends the process.                                                    *)
WalksEnd == <>(status = "exited")
==============================================================================
