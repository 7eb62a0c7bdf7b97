----------------------------- MODULE Statistics -----------------------------
(***************************************************************************)
(* llvm/Statistics: counts over one module, added to counters that belong   *)
(* to the process, and a report of the counters.                            *)
(***************************************************************************)
EXTENDS IRModule

VARIABLES
    counters,   \* the STATISTIC variables
    enabled,    \* whether the build counts: without assertions LLVM's
                \* counters do nothing
    reports     \* what print has written

StatNames ==
    {"totalPointers", "functionPointers", "calls", "indirectCalls", "storeInstructions"}
NoCounts == [s \in StatNames |-> 0]
Plus(a, b) == [s \in StatNames |-> a[s] + b[s]]
SumOf(counts) ==
    LET sum[n \in 0..Len(counts)] == IF n = 0 THEN NoCounts ELSE Plus(sum[n - 1], counts[n])
    IN  sum[Len(counts)]

isPointerTy(T) == T.pointers > 0

(* However many pointers lead to the function.                              *)
isFunctionPointerType(T) == T.function

CountsOfType(T) ==
    [NoCounts EXCEPT !.totalPointers = IF isPointerTy(T) THEN 1 ELSE 0,
                     !.functionPointers = IF isFunctionPointerType(T) THEN 1 ELSE 0]

(* The type of a global is that of its address, the type of an alloca what  *)
(* it allocates.                                                            *)
CountsOfGlobal(T) == CountsOfType(PointerTo(T))

(* A call through a constant, a cast function for instance, is not indirect. *)
CountsOf(I) ==
    CASE I.kind = "alloca" -> CountsOfType(I.type)
      [] I.kind = "call" -> [NoCounts EXCEPT !.calls = 1,
                               !.indirectCalls = IF I.callee = "value" THEN 1 ELSE 0]
      [] I.kind = "store" -> [NoCounts EXCEPT !.storeInstructions = 1]
      [] OTHER -> NoCounts

MapSeq(Op(_), s) == [x \in DOMAIN s |-> Op(s[x])]
CountsOfFunction(F) == SumOf(MapSeq(CountsOf, Insts(F)))
Added(counts) == IF enabled THEN Plus(counters, counts) ELSE counters

CountGlobals ==
    /\ counters' = Added(SumOf(MapSeq(CountsOfGlobal, globals)))
    /\ UNCHANGED <<globals, functions, enabled, reports>>

CountFunction(F) ==
    /\ counters' = Added(CountsOfFunction(F))
    /\ UNCHANGED <<globals, functions, enabled, reports>>

(* Slip: the counters are reset once printed.                               *)
PrintAndReset ==
    /\ reports' = Append(reports, counters)
    /\ counters' = NoCounts
    /\ UNCHANGED <<globals, functions, enabled>>

PrintCounters ==
    /\ reports' = Append(reports, counters)
    /\ UNCHANGED <<globals, functions, counters, enabled>>
==============================================================================
