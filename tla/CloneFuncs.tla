----------------------------- MODULE CloneFuncs -----------------------------
(***************************************************************************)
(* llvm/CloneFuncs: every function with a body is cloned into a section of  *)
(* its own.                                                                 *)
(***************************************************************************)
EXTENDS IRModule

VARIABLES
    toClone,      \* the functions still to be cloned
    LastUnique    \* the last number used to make a name unique

cloning == <<toClone, LastUnique>>

(* The first loop only collects: the second one changes the list that it    *)
(* goes over.                                                               *)
CollectFunctions ==
    /\ toClone' = Definitions
    /\ UNCHANGED <<globals, functions, LastUnique>>

(* A name that is taken is extended by the next number that makes it new.   *)
Unique(name) ==
    CHOOSE u \in LastUnique + 1..LastUnique + Len(functions) + 1 :
      /\ Append(name, u) \notin {functions[x].name : x \in DOMAIN functions}
      /\ \A v \in LastUnique + 1..u - 1 :
           Append(name, v) \in {functions[x].name : x \in DOMAIN functions}

(* CloneFunction copies the body; as the map it is given does not hold the  *)
(* function itself, calls of it stay calls of the original.                 *)
Clone(F) == [F EXCEPT !.name = Append(@, Unique(@)), !.section = ".clone"]

(* Slip: every turn of the loop clones the first definition.                *)
CloneFirstAgain ==
    /\ toClone # <<>>
    /\ LET F == Head(Definitions)
       IN  /\ functions' = Append(functions, Clone(F))
           /\ LastUnique' = Unique(F.name)
           /\ toClone' = Tail(toClone)
    /\ UNCHANGED globals

CloneFirst ==
    /\ toClone # <<>>
    /\ LET F == Head(toClone)
       IN  /\ functions' = Append(functions, Clone(F))
           /\ LastUnique' = Unique(F.name)
           /\ toClone' = Tail(toClone)
    /\ UNCHANGED globals
==============================================================================
