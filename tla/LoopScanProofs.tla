--------------------------- MODULE LoopScanProofs ---------------------------
(***************************************************************************)
(* Theorems about the scan of module LoopScan, for every module, every      *)
(* command line and every verdict of the analysis of a store.               *)
(***************************************************************************)
EXTENDS LoopScan, SequenceLemmas, FiniteSetTheorems

------------------------------------------------------------------------------
(* The module scanned.                                                      *)

(* What the assumption on modules says of the module scanned.               *)
LEMMA ModuleFacts ==
  ASSUME module \in Modules
  PROVE  /\ module.functions \in Seq(Functions)
         /\ Len(module.functions) \in Nat
         /\ DOMAIN module.functions = 1..Len(module.functions)
         /\ \A m \in 1..Len(module.functions) : module.functions[m] \in Functions
         /\ \A m, n \in 1..Len(module.functions) :
              module.functions[m] = module.functions[n] => m = n
         /\ \A g \in Functions :
              /\ Len(module.loops[g]) \in Nat
              /\ DOMAIN module.loops[g] = 1..Len(module.loops[g])
              /\ g \notin module.defined => Len(module.loops[g]) = 0
              /\ \A k \in 1..Len(module.loops[g]) :
                   /\ Len(module.loops[g][k]) \in Nat
                   /\ DOMAIN module.loops[g][k] = 1..Len(module.loops[g][k])
         /\ \A s \in module.stores : module.callee[s] = None
<1>1. IsModule(module)
  BY ModulesAssumption
<1>2. /\ module.functions \in Seq(Functions)
      /\ \A g \in Functions : module.loops[g] \in Seq(Seq(Insts))
      /\ IsInjective(module.functions)
      /\ \A g \in Functions : g \notin module.defined => module.loops[g] = <<>>
      /\ \A s \in module.stores : module.callee[s] = None
  BY <1>1 DEF IsModule
<1>3. /\ Len(module.functions) \in Nat
      /\ DOMAIN module.functions = 1..Len(module.functions)
      /\ \A m \in 1..Len(module.functions) : module.functions[m] \in Functions
  BY <1>2, LenProperties, ElementOfSeq
<1>4. \A m, n \in 1..Len(module.functions) :
        module.functions[m] = module.functions[n] => m = n
  BY <1>2, <1>3 DEF IsInjective
<1>5. ASSUME NEW g \in Functions
      PROVE  /\ Len(module.loops[g]) \in Nat
             /\ DOMAIN module.loops[g] = 1..Len(module.loops[g])
             /\ g \notin module.defined => Len(module.loops[g]) = 0
             /\ \A k \in 1..Len(module.loops[g]) :
                  /\ Len(module.loops[g][k]) \in Nat
                  /\ DOMAIN module.loops[g][k] = 1..Len(module.loops[g][k])
  <2>1. Len(module.loops[g]) \in Nat /\ DOMAIN module.loops[g] = 1..Len(module.loops[g])
    BY <1>2, LenProperties
  <2>2. g \notin module.defined => Len(module.loops[g]) = 0
    BY <1>2, EmptySeq
  <2>3. \A k \in 1..Len(module.loops[g]) : module.loops[g][k] \in Seq(Insts)
    BY <1>2, ElementOfSeq
  <2> QED BY <2>1, <2>2, <2>3, LenProperties
<1> QED BY <1>2, <1>3, <1>4, <1>5

(* The scope of a loop, taken instruction by instruction.                   *)
LEMMA InScopeUnion ==
  ASSUME module \in Modules, NEW body
  PROVE  InScope(body) = UNION {Explored(x) : x \in body}
<1>1. \A s \in module.stores : module.callee[s] = None
  BY ModuleFacts
<1>2. ASSUME NEW s \in InScope(body) PROVE \E x \in body : s \in Explored(x)
  <2>1. CASE s \in body \cap module.stores
    BY <1>1, <2>1 DEF Explored, CalledFunction
  <2>2. ASSUME NEW x \in body \ module.invokes, module.callee[x] # None, s \in StoresOf(module.callee[x])
        PROVE  s \in Explored(x)
    BY <2>2 DEF Explored, CalledFunction
  <2>3. ASSUME NEW x \in body \ module.invokes, module.callee[x] # None,
               NEW g \in Callees(module.callee[x]), s \in StoresOf(g)
        PROVE  s \in Explored(x)
    BY <2>3 DEF Explored, CalledFunction
  <2> QED BY <2>1, <2>2, <2>3 DEF InScope
<1>3. ASSUME NEW x \in body, NEW s \in Explored(x) PROVE s \in InScope(body)
  BY <1>3 DEF Explored, CalledFunction, InScope
<1> QED BY <1>2, <1>3

(* A loop is selected where it is.                                          *)
LEMMA SelectedLoopFacts ==
  ASSUME module \in Modules
  PROVE  /\ \A n \in 1..Len(module.functions), k \in Nat :
              LET g == module.functions[n]
              IN  <<g, k>> \in SelectedLoops <=>
                    /\ g \in module.defined
                    /\ k \in 1..Len(module.loops[g])
                    /\ Selected(g, module.loops[g][k])
         /\ \A x \in SelectedLoops :
              \E n \in 1..Len(module.functions), k \in Nat \ {0} :
                x = <<module.functions[n], k>>
<1>1. ASSUME NEW x
      PROVE  x \in SelectedLoops <=>
               \E g \in ToSet(module.functions) \cap module.defined :
                 \E k \in DOMAIN module.loops[g] :
                   Selected(g, module.loops[g][k]) /\ x = <<g, k>>
  BY DEF SelectedLoops
<1>2. \A m \in 1..Len(module.functions) : module.functions[m] \in ToSet(module.functions)
  BY ModuleFacts DEF ToSet
<1>3. \A g \in ToSet(module.functions) : \E m \in 1..Len(module.functions) : g = module.functions[m]
  BY ModuleFacts DEF ToSet
<1>4. ASSUME NEW n \in 1..Len(module.functions), NEW k \in Nat
      PROVE  <<module.functions[n], k>> \in SelectedLoops <=>
                    /\ module.functions[n] \in module.defined
                    /\ k \in 1..Len(module.loops[module.functions[n]])
                    /\ Selected(module.functions[n], module.loops[module.functions[n]][k])
  BY <1>1, <1>2, ModuleFacts
<1>5. ASSUME NEW x \in SelectedLoops
      PROVE  \E n \in 1..Len(module.functions), k \in Nat \ {0} :
                x = <<module.functions[n], k>>
  <2>1. PICK g \in ToSet(module.functions) \cap module.defined :
          \E k \in DOMAIN module.loops[g] : x = <<g, k>>
    BY <1>1
  <2>2. PICK n \in 1..Len(module.functions) : g = module.functions[n]
    BY <1>3
  <2>3. DOMAIN module.loops[g] \subseteq Nat \ {0}
    BY <2>2, ModuleFacts
  <2> QED BY <2>1, <2>2, <2>3
<1> QED BY <1>4, <1>5

------------------------------------------------------------------------------
(* Type correctness.                                                        *)

(* The scan is in a loop.                                                   *)
Inside == AtLoop /\ i > 0

(* Out of a loop the instruction index is 0; a loop entered is selected.    *)
WellTyped ==
    /\ module \in Modules
    /\ TypeOK
    /\ status = "scanning" /\ ~AtLoop => i = 0
    /\ status = "reported" => f > Len(module.functions) /\ i = 0
    /\ Inside => Selected(Fun, Loops[l])

(* What a loop index is worth at a function.                                *)
LEMMA AtFacts ==
  ASSUME WellTyped, AtFunction
  PROVE  /\ f \in 1..Len(module.functions) /\ Fun \in Functions
         /\ Len(Loops) \in Nat /\ l \in 1..(Len(Loops) + 1) /\ i \in Nat
         /\ Fun \notin module.defined => l = 1 /\ i = 0
         /\ AtLoop => /\ l \in 1..Len(Loops)
                      /\ Len(Loops[l]) \in Nat /\ i \in 0..(Len(Loops[l]) + 1)
                      /\ DOMAIN Loops[l] = 1..Len(Loops[l])
         /\ ~AtLoop => i = 0
<1>1. f \in 1..Len(module.functions) /\ Fun \in Functions
  BY ModuleFacts DEF WellTyped, TypeOK, AtFunction, Fun
<1>2. /\ Len(Loops) \in Nat
      /\ Fun \notin module.defined => Len(Loops) = 0
      /\ \A k \in 1..Len(Loops) : Len(Loops[k]) \in Nat /\ DOMAIN Loops[k] = 1..Len(Loops[k])
  BY <1>1, ModuleFacts DEF WellTyped, Loops
<1>3. l \in 1..(Len(Loops) + 1) /\ i \in Nat
  BY <1>2 DEF WellTyped, TypeOK
<1>4. ~AtLoop => i = 0
  BY DEF WellTyped, AtFunction
<1>5. Fun \notin module.defined => l = 1 /\ i = 0
  BY <1>2, <1>3, <1>4 DEF AtLoop
<1>6. AtLoop => l \in 1..Len(Loops)
  BY <1>2, <1>3 DEF AtLoop
<1>7. AtLoop => i \in 0..(Len(Loops[l]) + 1)
  BY <1>2, <1>3, <1>6 DEF WellTyped, TypeOK
<1> QED BY <1>1, <1>2, <1>3, <1>4, <1>5, <1>6, <1>7

(* Only stores are analysed.                                                *)
LEMMA ExploredStores ==
  ASSUME NEW x, NEW v
  PROVE  Verdicts(Explored(x), v) \subseteq module.stores
BY DEF Verdicts, Explored, StoresOf

(* A step to the next function finds its first loop, not entered.           *)
LEMMA NextFunction ==
  ASSUME WellTyped, AtFunction,
         UNCHANGED <<input, status>>, f' = f + 1, l' = 1, i' = 0
  PROVE  /\ f' \in 1..(Len(module'.functions) + 1)
         /\ (AtFunction => l <= Len(Loops) + 1)'
         /\ (AtLoop => i <= Len(Loops[l]) + 1)'
         /\ ~Inside'
<1>1. f' \in 1..(Len(module'.functions) + 1)
  BY AtFacts, ModuleFacts DEF WellTyped, input
<1>2. ASSUME AtFunction'
      PROVE  Len(Loops') \in Nat /\ \A k \in 1..Len(Loops') : Len(Loops'[k]) \in Nat
  <2>1. f' \in 1..Len(module.functions)
    BY <1>1, <1>2, ModuleFacts DEF AtFunction, input, WellTyped
  <2>2. Fun' \in Functions
    BY <2>1, ModuleFacts DEF Fun, input, WellTyped
  <2> QED BY <2>2, ModuleFacts DEF Loops, input, WellTyped
<1>3. AtLoop' => i' <= Len(Loops'[l']) + 1
  <2>1. AtLoop' => AtFunction' /\ l' \in 1..Len(Loops')
    BY <1>2 DEF AtLoop
  <2> QED BY <1>2, <2>1
<1> QED BY <1>1, <1>2, <1>3 DEF Inside

(* A step within a function keeps its loops and their bodies.               *)
LEMMA SameFunction ==
  ASSUME WellTyped, AtFunction, UNCHANGED <<input, f, status>>
  PROVE  /\ Fun' = Fun /\ Loops' = Loops /\ AtFunction'
         /\ AtLoop' <=> Fun \in module.defined /\ l' <= Len(Loops)
         /\ AtLoop <=> Fun \in module.defined /\ l <= Len(Loops)
BY DEF Fun, Loops, AtFunction, AtLoop, input

(* The bodies of the loops of the current function.                         *)
LEMMA LoopFacts ==
  ASSUME WellTyped, AtFunction
  PROVE  \A k \in 1..Len(Loops) : Len(Loops[k]) \in Nat
BY AtFacts, ModuleFacts DEF WellTyped, Loops

(* Every step keeps the scan well typed.                                    *)
LEMMA TypeStep ==
  ASSUME WellTyped, [Next]_vars
  PROVE  WellTyped'
<1>1. CASE SkipDeclaration
  <2>1. AtFunction /\ l = 1 /\ i = 0
    BY <1>1, AtFacts DEF SkipDeclaration
  <2>2. UNCHANGED <<input, status>> /\ f' = f + 1 /\ l' = 1 /\ i' = 0
    BY <1>1, <2>1 DEF SkipDeclaration
  <2>3. UNCHANGED <<module, total_loop, interesting_loop, interesting, result>>
        /\ status' = "scanning"
    BY <1>1 DEF SkipDeclaration, input, counters, AtFunction
  <2> QED BY <2>1, <2>2, <2>3, NextFunction DEF WellTyped, TypeOK
<1>2. CASE SkipLoop
  <2>1. /\ AtFunction /\ AtLoop /\ i = 0 /\ i' = 0 /\ l' = l + 1
        /\ UNCHANGED <<input, f, status>>
        /\ UNCHANGED <<module, total_loop, interesting_loop, interesting, result>>
    BY <1>2 DEF SkipLoop, AtLoop, input, counters
  <2>2. AtLoop' => Len(Loops'[l']) \in Nat
    <3>1. l + 1 <= Len(Loops) => l + 1 \in 1..Len(Loops)
      BY <2>1, AtFacts
    <3> QED BY <2>1, <3>1, SameFunction, LoopFacts
  <2> QED BY <2>1, <2>2, SameFunction, AtFacts DEF WellTyped, TypeOK, Inside
<1>3. CASE EnterLoop
  <2>1. /\ AtFunction /\ AtLoop /\ i' = 1 /\ l' = l /\ Selected(Fun, Loops[l])
        /\ UNCHANGED <<input, f, status>> /\ total_loop' = total_loop + 1
        /\ UNCHANGED <<module, opt, interesting_loop, interesting, result>>
    BY <1>3 DEF EnterLoop, AtLoop, input
  <2>2. Selected(Fun, Loops[l])'
    BY <2>1, SameFunction DEF Selected, checkFunction
  <2> QED BY <2>1, <2>2, SameFunction, AtFacts DEF WellTyped, TypeOK, Inside
<1>4. CASE VisitInstruction
  <2>1. /\ AtFunction /\ AtLoop /\ i \in 1..Len(Loops[l]) /\ i' = i + 1 /\ l' = l
        /\ UNCHANGED <<input, f, status>>
        /\ UNCHANGED <<module, opt, total_loop, interesting_loop>>
        /\ interesting' \in BOOLEAN
        /\ result' = result \cup Verdicts(Explored(Inst), "interesting")
    BY <1>4 DEF VisitInstruction, AtLoop, input, counters, WellTyped, TypeOK
  <2>2. Inside /\ Selected(Fun, Loops[l])'
    BY <2>1, SameFunction DEF Selected, checkFunction, WellTyped, Inside
  <2>3. result' \subseteq module.stores
    BY <2>1, ExploredStores DEF WellTyped, TypeOK
  <2>4. i' \in 1..(Len(Loops[l]) + 1)
    BY <2>1, AtFacts
  <2> QED BY <2>1, <2>2, <2>3, <2>4, SameFunction, AtFacts DEF WellTyped, TypeOK, Inside
<1>5. CASE Abort
  BY <1>5 DEF Abort, WellTyped, TypeOK, Inside, AtLoop, AtFunction, input, position, counters
<1>6. CASE LeaveLoop
  <2>1. /\ AtFunction /\ AtLoop /\ i' = 0 /\ l' = l + 1
        /\ UNCHANGED <<input, f, status>>
        /\ UNCHANGED <<module, total_loop, interesting_loop, interesting, result>>
    BY <1>6 DEF LeaveLoop, AtLoop, input, counters
  <2>2. AtLoop' => Len(Loops'[l']) \in Nat
    <3>1. l + 1 <= Len(Loops) => l + 1 \in 1..Len(Loops)
      BY <2>1, AtFacts
    <3> QED BY <2>1, <3>1, SameFunction, LoopFacts
  <2> QED BY <2>1, <2>2, SameFunction, AtFacts DEF WellTyped, TypeOK, Inside
<1>7. CASE LeaveFunction
  <2>1. AtFunction /\ ~AtLoop
    BY <1>7, AtFacts DEF LeaveFunction, AtLoop
  <2>2. UNCHANGED <<input, status>> /\ f' = f + 1 /\ l' = 1 /\ i' = 0
    BY <1>7, <2>1, AtFacts DEF LeaveFunction
  <2>3. /\ UNCHANGED <<module, total_loop, result>> /\ status' = "scanning"
    BY <1>7 DEF LeaveFunction, input, AtFunction
  <2>5. interesting' \in BOOLEAN
    BY <1>7 DEF LeaveFunction
  <2>4. interesting_loop' \in Nat
    <3>1. interesting_loop' = interesting_loop + 1 \/ interesting_loop' = interesting_loop
      BY <1>7, Zenon DEF LeaveFunction
    <3> QED BY <3>1 DEF WellTyped, TypeOK
  <2> QED BY <2>1, <2>2, <2>3, <2>4, <2>5, NextFunction DEF WellTyped, TypeOK
<1>8. CASE Report
  BY <1>8 DEF Report, WellTyped, TypeOK, Inside, AtLoop, AtFunction, input, position, counters
<1>9. CASE UNCHANGED vars
  BY <1>9 DEF vars, WellTyped, TypeOK, Inside, AtLoop, AtFunction, input, position, counters,
              Fun, Loops, Selected, checkFunction
<1> QED BY <1>1, <1>2, <1>3, <1>4, <1>5, <1>6, <1>7, <1>8, <1>9 DEF Next

(* The scan of a module before its first step, whatever the options.        *)
Fresh ==
    /\ module \in Modules
    /\ f = 1 /\ l = 1 /\ i = 0
    /\ total_loop = 0 /\ interesting_loop = 0
    /\ interesting = FALSE
    /\ result = {}
    /\ status = "scanning"

(* It is fresh initially.                                                   *)
LEMMA InitIsFresh == Init => Fresh
BY DEF Init, Fresh

(* The scan starts well typed.                                              *)
LEMMA TypeInit ==
  ASSUME Fresh
  PROVE  WellTyped
<1>1. module \in Modules /\ Len(module.functions) \in Nat
  BY ModuleFacts DEF Fresh
<1>2. AtFunction => Len(Loops) \in Nat /\ \A k \in 1..Len(Loops) : Len(Loops[k]) \in Nat
  <2>1. AtFunction => Fun \in Functions
    BY <1>1, ModuleFacts DEF Fresh, AtFunction, Fun
  <2> QED BY <1>1, <2>1, ModuleFacts DEF Loops
<1>3. AtLoop => i <= Len(Loops[l]) + 1
  BY <1>2 DEF Fresh, AtLoop
<1>4. AtFunction => l <= Len(Loops) + 1
  BY <1>2 DEF Fresh
<1>5. TypeOK
  <2>1. f \in 1..(Len(module.functions) + 1) /\ l \in Nat \ {0} /\ i \in Nat
    BY <1>1 DEF Fresh
  <2>2. interesting \in BOOLEAN
    BY DEF Fresh
  <2>3. total_loop \in Nat /\ interesting_loop \in Nat /\ result \subseteq module.stores
    BY DEF Fresh
  <2>4. status \in {"scanning", "reported", "exited"}
    BY DEF Fresh
  <2> QED BY <2>1, <2>2, <2>3, <2>4, <1>3, <1>4 DEF TypeOK
<1>6. ~Inside /\ i = 0 /\ status = "scanning"
  BY DEF Fresh, Inside
<1> QED BY <1>1, <1>5, <1>6 DEF WellTyped

(* The positions of the three nested loops stay within the module, and only *)
(* stores are ever collected.                                               *)
THEOREM TypeCorrect == Spec => []TypeOK
<1>1. Init => WellTyped
  BY InitIsFresh, TypeInit
<1>2. WellTyped /\ [Next]_vars => WellTyped'
  BY TypeStep
<1>3. WellTyped => TypeOK
  BY DEF WellTyped
<1> QED BY <1>1, <1>2, <1>3, PTL DEF Spec

------------------------------------------------------------------------------
(* How far the scan is.                                                     *)

(* A loop lies before a position of the scan.                               *)
Passed(x, n, k) ==
    \E m \in DOMAIN module.functions :
      /\ module.functions[m] = x[1]
      /\ m < n \/ (m = n /\ x[2] < k)

(* The selected loops before a position, and those of one function.         *)
DoneAt(n, k) == {x \in SelectedLoops : Passed(x, n, k)}
LoopsOf(g) == {x \in SelectedLoops : x[1] = g}

(* The scan leaves positions behind in the order of the module's loops.     *)
LEMMA PassedFacts ==
  ASSUME module \in Modules, NEW x \in SelectedLoops
  PROVE  \E m \in 1..Len(module.functions), j \in Nat \ {0} :
           /\ x = <<module.functions[m], j>>
           /\ module.functions[m] \in module.defined
           /\ j \in 1..Len(module.loops[module.functions[m]])
           /\ \A n, k : Passed(x, n, k) <=> m < n \/ (m = n /\ j < k)
<1>1. PICK m \in 1..Len(module.functions), j \in Nat \ {0} :
        x = <<module.functions[m], j>>
  BY SelectedLoopFacts
<1>2. /\ module.functions[m] \in module.defined
      /\ j \in 1..Len(module.loops[module.functions[m]])
  BY <1>1, SelectedLoopFacts
<1>3. ASSUME NEW n, NEW k
      PROVE  Passed(x, n, k) <=> m < n \/ (m = n /\ j < k)
  <2>1. x[1] = module.functions[m] /\ x[2] = j
    BY <1>1
  <2>2. \A q \in DOMAIN module.functions : module.functions[q] = x[1] <=> q = m
    BY <2>1, ModuleFacts
  <2>3. m \in DOMAIN module.functions
    BY ModuleFacts
  <2> QED BY <2>1, <2>2, <2>3 DEF Passed
<1> QED BY <1>1, <1>2, <1>3

(* One loop further: the loop joins those done if it is selected.           *)
LEMMA NextLoopDone ==
  ASSUME WellTyped, AtLoop
  PROVE  /\ <<Fun, l>> \notin DoneAt(f, l)
         /\ Selected(Fun, Loops[l]) => /\ <<Fun, l>> \in SelectedLoops
                                       /\ DoneAt(f, l + 1) = DoneAt(f, l) \cup {<<Fun, l>>}
         /\ ~Selected(Fun, Loops[l]) => DoneAt(f, l + 1) = DoneAt(f, l)
<1>1. /\ module \in Modules /\ f \in 1..Len(module.functions) /\ l \in 1..Len(Loops)
      /\ Len(Loops) \in Nat /\ Len(module.functions) \in Nat
  BY AtFacts, ModuleFacts DEF WellTyped, AtLoop
<1>2. <<Fun, l>> \in SelectedLoops <=> Selected(Fun, Loops[l])
  <2>1. l \in Nat /\ Fun \in module.defined
    BY <1>1 DEF AtLoop
  <2> QED BY <1>1, <2>1, SelectedLoopFacts DEF Fun, Loops
<1>3. ASSUME NEW x \in SelectedLoops
      PROVE  /\ x = <<Fun, l>> => ~Passed(x, f, l) /\ Passed(x, f, l + 1)
             /\ x # <<Fun, l>> => (Passed(x, f, l) <=> Passed(x, f, l + 1))
  <2>1. PICK m \in 1..Len(module.functions), j \in Nat \ {0} :
           /\ x = <<module.functions[m], j>>
           /\ \A n, k : Passed(x, n, k) <=> m < n \/ (m = n /\ j < k)
    BY <1>1, PassedFacts
  <2>2. x = <<Fun, l>> <=> m = f /\ j = l
    BY <1>1, <2>1, ModuleFacts DEF Fun
  <2>3. Passed(x, f, l) <=> m < f \/ (m = f /\ j < l)
    BY <2>1
  <2>4. Passed(x, f, l + 1) <=> m < f \/ (m = f /\ j < l + 1)
    BY <2>1
  <2> QED BY <1>1, <2>2, <2>3, <2>4
<1> QED BY <1>2, <1>3 DEF DoneAt

(* The next function: its loops are all to come, those of the function left *)
(* are all done.                                                            *)
LEMMA NextFunctionDone ==
  ASSUME WellTyped, AtFunction, ~AtLoop
  PROVE  /\ DoneAt(f + 1, 1) = DoneAt(f, l)
         /\ LoopsOf(Fun) \subseteq DoneAt(f, l)
<1>1. /\ module \in Modules /\ f \in 1..Len(module.functions)
      /\ Len(Loops) \in Nat /\ Len(module.functions) \in Nat
      /\ l \in 1..(Len(Loops) + 1)
  BY AtFacts, ModuleFacts DEF WellTyped
<1>2. Fun \in module.defined => l = Len(Loops) + 1
  BY <1>1 DEF AtLoop
<1>3. ASSUME NEW x \in SelectedLoops
      PROVE  /\ Passed(x, f + 1, 1) <=> Passed(x, f, l)
             /\ x[1] = Fun => Passed(x, f, l)
  <2>1. PICK m \in 1..Len(module.functions), j \in Nat \ {0} :
           /\ x = <<module.functions[m], j>>
           /\ module.functions[m] \in module.defined
           /\ j \in 1..Len(module.loops[module.functions[m]])
           /\ \A n, k : Passed(x, n, k) <=> m < n \/ (m = n /\ j < k)
    BY <1>1, PassedFacts
  <2>2. x[1] = Fun <=> m = f
    BY <1>1, <2>1, ModuleFacts DEF Fun
  <2>3. m = f => j < l
    BY <1>1, <1>2, <2>1 DEF Fun, Loops
  <2>4. Passed(x, f, l) <=> m < f \/ (m = f /\ j < l)
    BY <2>1
  <2>5. Passed(x, f + 1, 1) <=> m < f + 1 \/ (m = f + 1 /\ j < 1)
    BY <2>1
  <2> QED BY <1>1, <2>2, <2>3, <2>4, <2>5
<1> QED BY <1>3 DEF DoneAt, LoopsOf

(* The functions before a position are the first of the module.             *)
LEMMA FunctionDone ==
  ASSUME WellTyped, AtFunction
  PROVE  /\ \A x \in DoneAt(f, 0) : x[1] # Fun
         /\ DoneAt(f + 1, 0) = DoneAt(f, 0) \cup LoopsOf(Fun)
<1>1. module \in Modules /\ f \in 1..Len(module.functions) /\ Len(module.functions) \in Nat
  BY AtFacts, ModuleFacts DEF WellTyped
<1>2. ASSUME NEW x \in SelectedLoops
      PROVE  /\ x[1] = Fun => ~Passed(x, f, 0) /\ Passed(x, f + 1, 0)
             /\ x[1] # Fun => (Passed(x, f, 0) <=> Passed(x, f + 1, 0))
  <2>1. PICK m \in 1..Len(module.functions), j \in Nat \ {0} :
           /\ x = <<module.functions[m], j>>
           /\ \A n, k : Passed(x, n, k) <=> m < n \/ (m = n /\ j < k)
    BY <1>1, PassedFacts
  <2>2. x[1] = Fun <=> m = f
    BY <1>1, <2>1, ModuleFacts DEF Fun
  <2>3. Passed(x, f, 0) <=> m < f \/ (m = f /\ j < 0)
    BY <2>1
  <2>4. Passed(x, f + 1, 0) <=> m < f + 1 \/ (m = f + 1 /\ j < 0)
    BY <2>1
  <2> QED BY <1>1, <2>2, <2>3, <2>4
<1> QED BY <1>2 DEF DoneAt, LoopsOf

(* Before the first function nothing is done, after the last everything.    *)
LEMMA EndsDone ==
  ASSUME module \in Modules
  PROVE  /\ DoneAt(1, 1) = {} /\ DoneAt(1, 0) = {}
         /\ \A n \in Nat : \A k : n > Len(module.functions) => DoneAt(n, k) = SelectedLoops
         /\ \A n \in 1..Len(module.functions) :
              \A x \in DoneAt(n, 1) : x[1] # module.functions[n]
<1>1. Len(module.functions) \in Nat
  BY ModuleFacts
<1>2. ASSUME NEW x \in SelectedLoops
      PROVE  /\ ~Passed(x, 1, 1) /\ ~Passed(x, 1, 0)
             /\ \A n \in Nat : \A k : n > Len(module.functions) => Passed(x, n, k)
             /\ \A n \in 1..Len(module.functions) :
                  Passed(x, n, 1) => x[1] # module.functions[n]
  <2>1. PICK m \in 1..Len(module.functions), j \in Nat \ {0} :
           /\ x = <<module.functions[m], j>>
           /\ \A n, k : Passed(x, n, k) <=> m < n \/ (m = n /\ j < k)
    BY PassedFacts
  <2>2. ~Passed(x, 1, 1) /\ ~Passed(x, 1, 0)
    BY <1>1, <2>1
  <2>3. ASSUME NEW n \in Nat, NEW k, n > Len(module.functions) PROVE Passed(x, n, k)
    <3>1. m < n
      BY <1>1, <2>3
    <3> QED BY <2>1, <3>1
  <2>4. ASSUME NEW n \in 1..Len(module.functions), Passed(x, n, 1)
        PROVE  x[1] # module.functions[n]
    <3>1. m < n \/ (m = n /\ j < 1)
      BY <2>1, <2>4
    <3>2. m # n
      BY <1>1, <3>1
    <3> QED BY <2>1, <3>2, ModuleFacts
  <2> QED BY <2>2, <2>3, <2>4
<1> QED BY <1>2 DEF DoneAt

------------------------------------------------------------------------------
(* What the scan has analysed.                                              *)

SeenIn(D) == UNION {InScope(LoopBody(x)) : x \in D}

(* The stores of a loop's instructions before the j-th.                     *)
Part(n, k, j) == UNION {Explored(module.loops[module.functions[n]][k][m]) : m \in 1..(j - 1)}

(* All stores analysed before a position, and those of its function.        *)
SeenAt(n, k, j) == SeenIn(DoneAt(n, k)) \cup Part(n, k, j)
SeenInFun(n, k, j) ==
    SeenIn(DoneAt(n, k) \cap LoopsOf(module.functions[n])) \cup Part(n, k, j)

(* The functions before a position that have shown an interesting store.    *)
Found(x) == Verdicts(InScope(LoopBody(x)), "interesting") # {}
Counted(n) == {x[1] : x \in {y \in DoneAt(n, 0) : Found(y)}}

(* A step that stays with one module and command line moves only the        *)
(* position these are taken at.                                             *)
LEMMA SameInput ==
  ASSUME UNCHANGED input
  PROVE  /\ DoneAt(f, l)' = DoneAt(f', l')
         /\ SeenAt(f, l, i)' = SeenAt(f', l', i')
         /\ SeenInFun(f, l, i)' = SeenInFun(f', l', i')
         /\ Counted(f)' = Counted(f')
         /\ Scope' = Scope
<1>1. module' = module /\ opt' = opt
  BY DEF input
<1> USE <1>1 DEF SeenIn, Part, DoneAt, Explored, CalledFunction, StoresOf, Callees, InScope, LoopBody,
                 SelectedLoops, Selected, checkFunction, Passed
<1>2. DoneAt(f, l)' = DoneAt(f', l')
  OBVIOUS
<1>3. SeenAt(f, l, i)' = SeenAt(f', l', i')
  BY DEF SeenAt
<1>4. SeenInFun(f, l, i)' = SeenInFun(f', l', i')
  BY DEF SeenInFun, LoopsOf
<1>5. Counted(f)' = Counted(f')
  BY DEF Counted, Found, Verdicts
<1>6. Scope' = Scope
  BY DEF Scope
<1> QED BY <1>2, <1>3, <1>4, <1>5, <1>6

(* Nothing of a loop is analysed before its first instruction.              *)
LEMMA PartEmpty ==
  ASSUME NEW n, NEW k
  PROVE  Part(n, k, 0) = {} /\ Part(n, k, 1) = {}
BY DEF Part

(* One instruction further.                                                 *)
LEMMA PartNext ==
  ASSUME WellTyped, AtLoop, i \in 1..Len(Loops[l])
  PROVE  Part(f, l, i + 1) = Part(f, l, i) \cup Explored(Inst)
<1>1. i \in Nat \ {0} /\ 1..((i + 1) - 1) = (1..(i - 1)) \cup {i}
  BY AtFacts DEF AtLoop
<1>2. Inst = module.loops[module.functions[f]][l][i]
  BY DEF Inst, Loops, Fun
<1> QED BY <1>1, <1>2 DEF Part

(* All instructions of a loop make its scope.                               *)
LEMMA PartWhole ==
  ASSUME WellTyped, AtLoop, i > Len(Loops[l])
  PROVE  Part(f, l, i) = InScope(LoopBody(<<Fun, l>>))
<1>1. /\ Len(Loops[l]) \in Nat /\ i = Len(Loops[l]) + 1
      /\ DOMAIN Loops[l] = 1..Len(Loops[l])
  BY AtFacts DEF AtLoop
<1>2. Loops[l] = module.loops[module.functions[f]][l] /\ LoopBody(<<Fun, l>>) = ToSet(Loops[l])
  BY DEF Loops, Fun, LoopBody
<1>3. 1..(i - 1) = DOMAIN Loops[l]
  BY <1>1
<1>4. Part(f, l, i) = UNION {Explored(Loops[l][m]) : m \in DOMAIN Loops[l]}
  BY <1>2, <1>3 DEF Part
<1>5. UNION {Explored(Loops[l][m]) : m \in DOMAIN Loops[l]}
        = UNION {Explored(x) : x \in ToSet(Loops[l])}
  BY DEF ToSet
<1> QED BY <1>2, <1>4, <1>5, InScopeUnion DEF WellTyped

(* What is analysed by a step, at the position it leads to.                 *)
LEMMA SeenNext ==
  ASSUME WellTyped, AtFunction
  PROVE  /\ i = 0 => SeenAt(f, l, 1) = SeenAt(f, l, i) /\ SeenInFun(f, l, 1) = SeenInFun(f, l, i)
         /\ AtLoop /\ i \in 1..Len(Loops[l]) =>
              /\ SeenAt(f, l, i + 1) = SeenAt(f, l, i) \cup Explored(Inst)
              /\ SeenInFun(f, l, i + 1) = SeenInFun(f, l, i) \cup Explored(Inst)
         /\ AtLoop /\ i = 0 /\ ~Selected(Fun, Loops[l]) =>
              /\ SeenAt(f, l + 1, 0) = SeenAt(f, l, i)
              /\ SeenInFun(f, l + 1, 0) = SeenInFun(f, l, i)
         /\ AtLoop /\ i > Len(Loops[l]) =>
              /\ SeenAt(f, l + 1, 0) = SeenAt(f, l, i)
              /\ SeenInFun(f, l + 1, 0) = SeenInFun(f, l, i)
         /\ ~AtLoop => SeenAt(f + 1, 1, 0) = SeenAt(f, l, i)
<1>1. i = 0 => SeenAt(f, l, 1) = SeenAt(f, l, i) /\ SeenInFun(f, l, 1) = SeenInFun(f, l, i)
  BY PartEmpty DEF SeenAt, SeenInFun
<1>2. AtLoop /\ i \in 1..Len(Loops[l]) =>
              /\ SeenAt(f, l, i + 1) = SeenAt(f, l, i) \cup Explored(Inst)
              /\ SeenInFun(f, l, i + 1) = SeenInFun(f, l, i) \cup Explored(Inst)
  BY PartNext DEF SeenAt, SeenInFun
<1>3. AtLoop /\ i = 0 /\ ~Selected(Fun, Loops[l]) =>
              /\ SeenAt(f, l + 1, 0) = SeenAt(f, l, i)
              /\ SeenInFun(f, l + 1, 0) = SeenInFun(f, l, i)
  BY NextLoopDone, PartEmpty DEF SeenAt, SeenInFun
<1>4. ASSUME AtLoop, i > Len(Loops[l])
      PROVE  /\ SeenAt(f, l + 1, 0) = SeenAt(f, l, i)
             /\ SeenInFun(f, l + 1, 0) = SeenInFun(f, l, i)
  <2>1. Selected(Fun, Loops[l])
    BY <1>4, AtFacts DEF WellTyped, Inside
  <2>2. DoneAt(f, l + 1) = DoneAt(f, l) \cup {<<Fun, l>>} /\ <<Fun, l>> \in LoopsOf(Fun)
    BY <1>4, <2>1, NextLoopDone DEF LoopsOf
  <2>3. Part(f, l, i) = InScope(LoopBody(<<Fun, l>>)) /\ Part(f, l + 1, 0) = {}
    BY <1>4, PartWhole, PartEmpty
  <2>4. \A D : SeenIn(D \cup {<<Fun, l>>}) = SeenIn(D) \cup InScope(LoopBody(<<Fun, l>>))
    BY DEF SeenIn
  <2>5. DoneAt(f, l + 1) \cap LoopsOf(Fun) = (DoneAt(f, l) \cap LoopsOf(Fun)) \cup {<<Fun, l>>}
    BY <2>2
  <2> QED BY <2>2, <2>3, <2>4, <2>5 DEF SeenAt, SeenInFun, Fun
<1>5. ~AtLoop => SeenAt(f + 1, 1, 0) = SeenAt(f, l, i)
  BY NextFunctionDone, PartEmpty, AtFacts DEF SeenAt
<1> QED BY <1>1, <1>2, <1>3, <1>4, <1>5

------------------------------------------------------------------------------
(* What is collected.                                                       *)

(* Until it is reported or lost, the result holds the interesting stores    *)
(* among those analysed; nothing analysed ended the process unless it has   *)
(* ended.                                                                   *)
ResultInv ==
    /\ status # "exited" =>
         /\ result = Verdicts(SeenAt(f, l, i), "interesting")
         /\ Verdicts(SeenAt(f, l, i), "exit") = {}
    /\ status = "exited" => Verdicts(Scope, "exit") # {}

(* Verdicts are taken store by store.                                       *)
LEMMA VerdictsUnion ==
  ASSUME NEW S, NEW T, NEW v
  PROVE  /\ Verdicts(S \cup T, v) = Verdicts(S, v) \cup Verdicts(T, v)
         /\ S \subseteq T => Verdicts(S, v) \subseteq Verdicts(T, v)
BY DEF Verdicts

(* What is explored in a selected loop is in scope.                         *)
LEMMA ExploredInScope ==
  ASSUME WellTyped, AtLoop, i \in 1..Len(Loops[l])
  PROVE  Explored(Inst) \subseteq Scope
<1>1. Selected(Fun, Loops[l])
  BY AtFacts DEF WellTyped, Inside, AtLoop
<1>2. <<Fun, l>> \in SelectedLoops
  BY <1>1, NextLoopDone
<1>3. Inst \in LoopBody(<<Fun, l>>)
  BY AtFacts DEF LoopBody, ToSet, Loops, Inst, AtLoop
<1>4. Explored(Inst) \subseteq InScope(LoopBody(<<Fun, l>>))
  BY <1>3, InScopeUnion DEF WellTyped
<1> QED BY <1>2, <1>4 DEF Scope

(* Every step keeps the result exact.                                       *)
LEMMA ResultStep ==
  ASSUME WellTyped, ResultInv, [Next]_vars
  PROVE  ResultInv'
<1>1. ASSUME UNCHANGED <<input, result, status>>, status # "exited",
             SeenAt(f', l', i') = SeenAt(f, l, i)
      PROVE  ResultInv'
  BY <1>1, SameInput DEF ResultInv, Verdicts, input
<1>2. CASE SkipDeclaration
  <2>1. AtFunction /\ ~AtLoop
    BY <1>2 DEF SkipDeclaration, AtLoop
  <2>2. f' = f + 1 /\ l' = 1 /\ i' = 0
    BY <1>2, <2>1, AtFacts DEF SkipDeclaration
  <2>3. UNCHANGED <<input, result, status>> /\ status # "exited"
    BY <1>2 DEF SkipDeclaration, AtFunction
  <2> QED BY <1>1, <2>1, <2>2, <2>3, SeenNext
<1>3. CASE SkipLoop
  BY <1>1, <1>3, SeenNext DEF SkipLoop, AtLoop, AtFunction
<1>4. CASE EnterLoop
  BY <1>1, <1>4, SeenNext DEF EnterLoop, AtLoop, AtFunction
<1>5. CASE VisitInstruction
  <2>1. /\ AtLoop /\ AtFunction /\ i \in 1..Len(Loops[l])
        /\ Verdicts(Explored(Inst), "exit") = {}
        /\ result' = result \cup Verdicts(Explored(Inst), "interesting")
        /\ f' = f /\ l' = l /\ i' = i + 1
        /\ UNCHANGED <<input, module, status>> /\ status # "exited"
    BY <1>5 DEF VisitInstruction, AtLoop, AtFunction, input
  <2>2. SeenAt(f', l', i') = SeenAt(f, l, i) \cup Explored(Inst)
    BY <2>1, SeenNext
  <2>3. SeenAt(f, l, i)' = SeenAt(f, l, i) \cup Explored(Inst)
    BY <2>1, <2>2, SameInput
  <2>4. result' = Verdicts(SeenAt(f, l, i) \cup Explored(Inst), "interesting")
    BY <2>1, VerdictsUnion DEF ResultInv
  <2>5. Verdicts(SeenAt(f, l, i) \cup Explored(Inst), "exit") = {}
    BY <2>1, VerdictsUnion DEF ResultInv
  <2> QED BY <2>1, <2>3, <2>4, <2>5 DEF ResultInv, Verdicts
<1>6. CASE Abort
  <2>1. Verdicts(Scope, "exit") # {}
    BY <1>6, ExploredInScope, VerdictsUnion DEF Abort
  <2>2. status' = "exited" /\ module' = module /\ Scope' = Scope
    BY <1>6, SameInput DEF Abort, input
  <2> QED BY <2>1, <2>2 DEF ResultInv, Verdicts
<1>7. CASE LeaveLoop
  BY <1>1, <1>7, SeenNext DEF LeaveLoop, AtLoop, AtFunction
<1>8. CASE LeaveFunction
  <2>1. AtFunction /\ ~AtLoop
    BY <1>8, AtFacts DEF LeaveFunction, AtLoop
  <2>2. f' = f + 1 /\ l' = 1 /\ i' = 0
    BY <1>8, <2>1, AtFacts DEF LeaveFunction
  <2>3. UNCHANGED <<input, result, status>> /\ status # "exited"
    BY <1>8 DEF LeaveFunction, AtFunction
  <2> QED BY <1>1, <2>1, <2>2, <2>3, SeenNext
<1>9. CASE Report \/ UNCHANGED vars
  <2>1. UNCHANGED <<input, module, position, f, l, i, result>>
    BY <1>9 DEF Report, vars, input, position
  <2>2. SeenAt(f, l, i)' = SeenAt(f, l, i) /\ Scope' = Scope
    BY <2>1, SameInput
  <2>3. status' = status \/ (status = "scanning" /\ status' = "reported")
    BY <1>9 DEF Report, vars
  <2> QED BY <2>1, <2>2, <2>3 DEF ResultInv, Verdicts
<1> QED BY <1>2, <1>3, <1>4, <1>5, <1>6, <1>7, <1>8, <1>9 DEF Next

(* At the start nothing has been analysed.                                  *)
LEMMA ResultInit ==
  ASSUME Fresh
  PROVE  ResultInv
<1>1. SeenAt(1, 1, 0) = {}
  BY EndsDone, PartEmpty DEF Fresh, SeenAt, SeenIn
<1> QED BY <1>1 DEF Fresh, ResultInv, Verdicts

(* All loops are behind the scan when it reports.                           *)
LEMMA SeenAll ==
  ASSUME WellTyped, status = "reported"
  PROVE  SeenAt(f, l, i) = Scope /\ DoneAt(f, l) = SelectedLoops /\ DoneAt(f, 0) = SelectedLoops
<1>1. DoneAt(f, l) = SelectedLoops /\ DoneAt(f, 0) = SelectedLoops
  BY EndsDone, ModuleFacts DEF WellTyped, TypeOK
<1>2. Part(f, l, i) = {}
  BY PartEmpty DEF WellTyped
<1> QED BY <1>1, <1>2 DEF SeenAt, SeenIn, Scope

(* The scan is well typed and its result exact in every state.              *)
LEMMA ResultInvariant == Spec => [](WellTyped /\ ResultInv)
<1>1. Init => WellTyped /\ ResultInv
  BY InitIsFresh, TypeInit, ResultInit
<1>2. WellTyped /\ ResultInv /\ [Next]_vars => (WellTyped /\ ResultInv)'
  BY TypeStep, ResultStep
<1> QED BY <1>1, <1>2, PTL DEF Spec

(* One store that cannot be analysed, up to two calls away from a selected  *)
(* loop, costs the whole report, and nothing else does.                     *)
THEOREM ReportAllOrNothing == Spec => []AllOrNothing
<1>1. WellTyped /\ ResultInv => AllOrNothing
  BY SeenAll DEF ResultInv, AllOrNothing
<1> QED BY <1>1, ResultInvariant, PTL

------------------------------------------------------------------------------
(* What is counted.                                                         *)

(* The selected loops entered.                                              *)
Entered == DoneAt(f, l) \cup (IF Inside THEN {<<Fun, l>>} ELSE {})

(* total_loop counts them.                                                  *)
TotalInv ==
    status # "exited" => IsFiniteSet(Entered) /\ total_loop = Cardinality(Entered)

(* The flag of a function tells whether it has shown an interesting store,  *)
(* and interesting_loop counts the functions before it that have.           *)
FlagInv ==
    /\ AtFunction => (interesting <=> Verdicts(SeenInFun(f, l, i), "interesting") # {})
    /\ status # "exited" => /\ IsFiniteSet(Counted(f))
                            /\ interesting_loop = Cardinality(Counted(f))

(* Every step keeps the count of loops.                                     *)
LEMMA TotalStep ==
  ASSUME WellTyped, TotalInv, [Next]_vars
  PROVE  TotalInv'
<1>1. ASSUME UNCHANGED <<status, total_loop>>, Entered' = Entered
      PROVE  TotalInv'
  BY <1>1 DEF TotalInv
<1>2. CASE SkipDeclaration
  <2>1. AtFunction /\ ~AtLoop
    BY <1>2 DEF SkipDeclaration, AtLoop
  <2>2. f' = f + 1 /\ l' = 1 /\ i' = 0 /\ UNCHANGED <<input, status, total_loop>>
    BY <1>2, <2>1, AtFacts DEF SkipDeclaration, counters
  <2> QED BY <1>1, <2>1, <2>2, NextFunctionDone, SameInput DEF Entered, Inside
<1>3. CASE SkipLoop
  <2>1. AtLoop /\ i = 0 /\ ~Selected(Fun, Loops[l])
        /\ f' = f /\ l' = l + 1 /\ i' = 0 /\ UNCHANGED <<input, status, total_loop>>
    BY <1>3 DEF SkipLoop, counters
  <2> QED BY <1>1, <2>1, NextLoopDone, SameInput DEF Entered, Inside
<1>4. CASE EnterLoop
  <2>1. AtLoop /\ i = 0 /\ Selected(Fun, Loops[l])
        /\ f' = f /\ l' = l /\ i' = 1 /\ UNCHANGED <<input, status>>
        /\ total_loop' = total_loop + 1 /\ status # "exited" /\ AtFunction
    BY <1>4 DEF EnterLoop, AtLoop, AtFunction
  <2>2. Entered = DoneAt(f, l) /\ <<Fun, l>> \notin Entered
    BY <2>1, NextLoopDone DEF Entered, Inside
  <2>3. Inside' /\ Fun' = Fun
    BY <2>1, SameFunction DEF Inside, AtLoop
  <2>4. Entered' = Entered \cup {<<Fun, l>>}
    BY <2>1, <2>2, <2>3, SameInput DEF Entered
  <2> DEFINE E == Entered
             x == <<Fun, l>>
  <2>5. IsFiniteSet(E) /\ total_loop = Cardinality(E) /\ x \notin E
    BY <2>1, <2>2 DEF TotalInv
  <2>6. IsFiniteSet(E \cup {x}) /\ Cardinality(E \cup {x}) = Cardinality(E) + 1
    <3> HIDE DEF E, x
    <3> QED BY <2>5, FS_AddElement
  <2> QED BY <2>1, <2>4, <2>5, <2>6 DEF TotalInv
<1>5. CASE VisitInstruction
  <2>1. AtLoop /\ AtFunction /\ i \in 1..Len(Loops[l])
        /\ f' = f /\ l' = l /\ i' = i + 1 /\ UNCHANGED <<input, status, total_loop>>
    BY <1>5 DEF VisitInstruction, AtLoop, counters
  <2>2. Inside /\ Inside' /\ Fun' = Fun
    BY <2>1, SameFunction, AtFacts DEF Inside, AtLoop
  <2> QED BY <1>1, <2>1, <2>2, SameInput DEF Entered
<1>6. CASE Abort
  BY <1>6 DEF Abort, TotalInv
<1>7. CASE LeaveLoop
  <2>1. AtLoop /\ AtFunction /\ i > Len(Loops[l])
        /\ f' = f /\ l' = l + 1 /\ i' = 0 /\ UNCHANGED <<input, status, total_loop>>
    BY <1>7 DEF LeaveLoop, AtLoop, counters
  <2>2. Inside /\ ~Inside' /\ Selected(Fun, Loops[l])
    BY <2>1, AtFacts DEF Inside, WellTyped
  <2> QED BY <1>1, <2>1, <2>2, NextLoopDone, SameInput DEF Entered
<1>8. CASE LeaveFunction
  <2>1. AtFunction /\ ~AtLoop
    BY <1>8, AtFacts DEF LeaveFunction, AtLoop
  <2>2. f' = f + 1 /\ l' = 1 /\ i' = 0 /\ UNCHANGED <<input, status, total_loop>>
    BY <1>8, <2>1, AtFacts DEF LeaveFunction
  <2> QED BY <1>1, <2>1, <2>2, NextFunctionDone, SameInput DEF Entered, Inside
<1>9. CASE Report
  <2>1. UNCHANGED <<input, f, l, i, total_loop>> /\ ~Inside /\ ~Inside' /\ status = "scanning"
    BY <1>9, ModuleFacts DEF Report, position, counters, Inside, AtLoop, AtFunction, WellTyped, TypeOK
  <2>2. Entered' = Entered
    BY <2>1, SameInput DEF Entered
  <2> QED BY <2>1, <2>2 DEF TotalInv
<1>10. CASE UNCHANGED vars
  <2>1. UNCHANGED <<input, f, l, i, total_loop, status, module>>
    BY <1>10 DEF vars, position, counters, input
  <2>2. Inside' = Inside /\ Fun' = Fun
    BY <2>1 DEF Inside, AtLoop, AtFunction, Fun, Loops
  <2> QED BY <1>1, <2>1, <2>2, SameInput DEF Entered
<1> QED BY <1>2, <1>3, <1>4, <1>5, <1>6, <1>7, <1>8, <1>9, <1>10 DEF Next

(* When a function is left, its flag is about all its selected loops, and   *)
(* it is not among those counted.                                           *)
LEMMA FunctionEnd ==
  ASSUME WellTyped, AtFunction, ~AtLoop
  PROVE  /\ Verdicts(SeenInFun(f, l, i), "interesting") # {}
              <=> \E x \in LoopsOf(Fun) : Found(x)
         /\ Counted(f + 1) = Counted(f) \cup (IF \E x \in LoopsOf(Fun) : Found(x)
                                              THEN {Fun} ELSE {})
         /\ Fun \notin Counted(f)
         /\ Fun \notin module.defined => LoopsOf(Fun) = {}
         /\ f + 1 <= Len(module.functions) => SeenInFun(f + 1, 1, 0) = {}
<1>1. DoneAt(f, l) \cap LoopsOf(Fun) = LoopsOf(Fun)
  BY NextFunctionDone
<1>2. Part(f, l, i) = {} /\ Part(f + 1, 1, 0) = {}
  BY PartEmpty, AtFacts
<1>3. SeenInFun(f, l, i) = SeenIn(LoopsOf(Fun))
  BY <1>1, <1>2 DEF SeenInFun, Fun
<1>4. Verdicts(SeenIn(LoopsOf(Fun)), "interesting") # {} <=> \E x \in LoopsOf(Fun) : Found(x)
  BY DEF Verdicts, SeenIn, Found
<1>5. Counted(f + 1) = Counted(f) \cup {x[1] : x \in {y \in LoopsOf(Fun) : Found(y)}}
  BY FunctionDone DEF Counted
<1>6. {x[1] : x \in {y \in LoopsOf(Fun) : Found(y)}}
        = IF \E x \in LoopsOf(Fun) : Found(x) THEN {Fun} ELSE {}
  BY DEF LoopsOf
<1>7. Fun \notin Counted(f)
  BY FunctionDone DEF Counted
<1>8. Fun \notin module.defined => LoopsOf(Fun) = {}
  <2>1. ASSUME NEW x \in LoopsOf(Fun) PROVE Fun \in module.defined
    <3>1. x \in SelectedLoops /\ x[1] = Fun
      BY DEF LoopsOf
    <3>2. PICK m \in 1..Len(module.functions), j \in Nat \ {0} :
            x = <<module.functions[m], j>> /\ module.functions[m] \in module.defined
      BY <3>1, PassedFacts DEF WellTyped
    <3> QED BY <3>1, <3>2
  <2> QED BY <2>1
<1>9. ASSUME f + 1 <= Len(module.functions)
      PROVE  SeenInFun(f + 1, 1, 0) = {}
  <2>1. f + 1 \in 1..Len(module.functions)
    BY <1>9, AtFacts, ModuleFacts DEF WellTyped
  <2>2. DoneAt(f + 1, 1) \cap LoopsOf(module.functions[f + 1]) = {}
    BY <2>1, EndsDone DEF LoopsOf, WellTyped
  <2> QED BY <1>2, <2>2 DEF SeenInFun, SeenIn
<1> QED BY <1>3, <1>4, <1>5, <1>6, <1>7, <1>8, <1>9

(* A step within a function keeps the count, and the flag with what is seen.*)
LEMMA FlagSame ==
  ASSUME FlagInv, UNCHANGED <<input, f, status, interesting, interesting_loop>>,
         SeenInFun(f', l', i') = SeenInFun(f, l, i)
  PROVE  FlagInv'
<1>1. module' = module /\ AtFunction' = AtFunction
  BY DEF input, AtFunction
<1>2. SeenInFun(f, l, i)' = SeenInFun(f, l, i) /\ Counted(f)' = Counted(f)
  BY SameInput
<1>3. Verdicts(SeenInFun(f, l, i), "interesting")' = Verdicts(SeenInFun(f, l, i), "interesting")
  BY <1>1, <1>2 DEF Verdicts
<1> QED BY <1>1, <1>2, <1>3 DEF FlagInv

(* Every step keeps the flag and the count.                                 *)
LEMMA FlagStep ==
  ASSUME WellTyped, FlagInv, [Next]_vars
  PROVE  FlagInv'
<1>1. ASSUME UNCHANGED <<input, status>>, f' = f + 1, l' = 1, i' = 0,
             AtFunction, ~AtLoop, interesting' = FALSE,
             interesting => interesting_loop' = interesting_loop + 1,
             ~interesting => interesting_loop' = interesting_loop
      PROVE  FlagInv'
  <2>1. interesting <=> \E x \in LoopsOf(Fun) : Found(x)
    BY <1>1, FunctionEnd DEF FlagInv
  <2>2. Counted(f)' = Counted(f) \cup (IF interesting THEN {Fun} ELSE {})
    BY <1>1, <2>1, FunctionEnd, SameInput
  <2>3. IsFiniteSet(Counted(f)) /\ interesting_loop = Cardinality(Counted(f))
    BY <1>1 DEF FlagInv, AtFunction
  <2>4. IsFiniteSet(Counted(f)') /\ interesting_loop' = Cardinality(Counted(f)')
    <3>1. CASE interesting
      <4> DEFINE C == Counted(f)
                 x == Fun
      <4>1. IsFiniteSet(C) /\ x \notin C
        BY <1>1, <2>3, FunctionEnd
      <4>2. IsFiniteSet(C \cup {x}) /\ Cardinality(C \cup {x}) = Cardinality(C) + 1
        <5> HIDE DEF C, x
        <5> QED BY <4>1, FS_AddElement
      <4>3. Counted(f)' = C \cup {x}
        BY <2>2, <3>1
      <4>4. interesting_loop' = interesting_loop + 1
        BY <1>1, <3>1
      <4> QED BY <2>3, <4>2, <4>3, <4>4
    <3>2. CASE ~interesting
      <4>1. Counted(f)' = Counted(f) /\ interesting_loop' = interesting_loop
        BY <1>1, <2>2, <3>2
      <4> QED BY <2>3, <4>1
    <3> QED BY <3>1, <3>2
  <2>5. AtFunction' => Verdicts(SeenInFun(f, l, i), "interesting")' = {}
    <3>1. AtFunction' => f + 1 <= Len(module.functions)
      BY <1>1 DEF AtFunction, input
    <3>2. AtFunction' => SeenInFun(f, l, i)' = {}
      BY <1>1, <3>1, FunctionEnd, SameInput
    <3> QED BY <3>2 DEF Verdicts
  <2> QED BY <1>1, <2>4, <2>5 DEF FlagInv
<1>2. CASE SkipDeclaration
  <2>1. AtFunction /\ ~AtLoop
    BY <1>2 DEF SkipDeclaration, AtLoop
  <2>2. f' = f + 1 /\ l' = 1 /\ i' = 0 /\ UNCHANGED <<input, status>>
    BY <1>2, <2>1, AtFacts DEF SkipDeclaration
  <2>3. ~interesting
    BY <1>2, <2>1, FunctionEnd DEF FlagInv, SkipDeclaration
  <2>4. interesting' = interesting /\ interesting_loop' = interesting_loop
    BY <1>2 DEF SkipDeclaration, counters
  <2>5. interesting' = FALSE
    BY <2>3, <2>4 DEF WellTyped, TypeOK
  <2> QED BY <1>1, <2>1, <2>2, <2>3, <2>4, <2>5
<1>3. CASE SkipLoop
  <2>1. AtLoop /\ i = 0 /\ ~Selected(Fun, Loops[l]) /\ AtFunction
        /\ f' = f /\ l' = l + 1 /\ i' = 0
        /\ UNCHANGED <<input, f, status, interesting, interesting_loop>>
    BY <1>3 DEF SkipLoop, counters, AtLoop
  <2> QED BY <2>1, SeenNext, FlagSame
<1>4. CASE EnterLoop
  <2>1. i = 0 /\ AtFunction /\ f' = f /\ l' = l /\ i' = 1
        /\ UNCHANGED <<input, f, status, interesting, interesting_loop>>
    BY <1>4 DEF EnterLoop, AtLoop
  <2> QED BY <2>1, SeenNext, FlagSame
<1>5. CASE VisitInstruction
  <2> DEFINE found == Verdicts(Explored(Inst), "interesting")
             here == SeenInFun(f, l, i)
  <2>1. /\ AtLoop /\ AtFunction /\ i \in 1..Len(Loops[l])
        /\ f' = f /\ l' = l /\ i' = i + 1 /\ UNCHANGED <<input, f, status, interesting_loop>>
    BY <1>5 DEF VisitInstruction, AtLoop, counters
  <2>2. interesting' = (interesting \/ found # {})
    BY <1>5 DEF VisitInstruction
  <2>3. SeenInFun(f, l, i)' = here \cup Explored(Inst) /\ Counted(f)' = Counted(f)
    BY <2>1, SeenNext, SameInput
  <2>4. Verdicts(SeenInFun(f, l, i), "interesting")' = Verdicts(here, "interesting") \cup found
    BY <2>1, <2>3 DEF Verdicts, input
  <2>5. interesting <=> Verdicts(here, "interesting") # {}
    BY <2>1 DEF FlagInv
  <2>6. interesting' <=> Verdicts(SeenInFun(f, l, i), "interesting")' # {}
    <3> HIDE DEF here, found
    <3> QED BY <2>2, <2>4, <2>5
  <2> HIDE DEF here, found
  <2> QED BY <2>1, <2>3, <2>6 DEF FlagInv
<1>6. CASE Abort
  BY <1>6 DEF Abort, FlagInv, AtFunction
<1>7. CASE LeaveLoop
  <2>1. AtLoop /\ AtFunction /\ i > Len(Loops[l])
        /\ f' = f /\ l' = l + 1 /\ i' = 0
        /\ UNCHANGED <<input, f, status, interesting, interesting_loop>>
    BY <1>7 DEF LeaveLoop, AtLoop, counters
  <2> QED BY <2>1, SeenNext, FlagSame
<1>8. CASE LeaveFunction
  <2>1. AtFunction /\ ~AtLoop
    BY <1>8, AtFacts DEF LeaveFunction, AtLoop
  <2>2. f' = f + 1 /\ l' = 1 /\ i' = 0 /\ UNCHANGED <<input, status>>
    BY <1>8, <2>1, AtFacts DEF LeaveFunction
  <2>3. /\ interesting' = FALSE
        /\ interesting => interesting_loop' = interesting_loop + 1
        /\ ~interesting => interesting_loop' = interesting_loop
    BY <1>8, Zenon DEF LeaveFunction
  <2> QED BY <1>1, <2>1, <2>2, <2>3
<1>9. CASE Report
  <2>1. UNCHANGED <<input, f, interesting_loop>> /\ status = "scanning" /\ ~AtFunction'
    BY <1>9 DEF Report, position, counters, AtFunction
  <2>2. Counted(f)' = Counted(f)
    BY <2>1, SameInput
  <2> QED BY <2>1, <2>2 DEF FlagInv
<1>10. CASE UNCHANGED vars
  BY <1>10, FlagSame DEF vars, position, counters
<1> QED BY <1>2, <1>3, <1>4, <1>5, <1>6, <1>7, <1>8, <1>9, <1>10 DEF Next

(* Nothing is counted at the start.                                         *)
LEMMA CountInit ==
  ASSUME Fresh
  PROVE  TotalInv /\ FlagInv
<1>1. module \in Modules /\ f = 1 /\ l = 1 /\ i = 0 /\ ~Inside
  BY DEF Fresh, Inside
<1>2. Entered = {} /\ Counted(f) = {}
  BY <1>1, EndsDone DEF Entered, Counted
<1>3. AtFunction => SeenInFun(f, l, i) = {}
  BY <1>1, EndsDone, PartEmpty DEF SeenInFun, SeenIn
<1>4. AtFunction => Verdicts(SeenInFun(f, l, i), "interesting") = {}
  BY <1>3 DEF Verdicts
<1>5. IsFiniteSet({}) /\ Cardinality({}) = 0
  BY FS_EmptySet
<1>6. TotalInv
  BY <1>2, <1>5 DEF Fresh, TotalInv
<1>7. FlagInv
  BY <1>2, <1>4, <1>5 DEF Fresh, FlagInv
<1> QED BY <1>6, <1>7

(* The counters are right in every state that is not lost.                  *)
LEMMA CountInvariant == Spec => [](WellTyped /\ TotalInv /\ FlagInv)
<1>1. Init => WellTyped /\ TotalInv /\ FlagInv
  BY InitIsFresh, TypeInit, CountInit
<1>2. WellTyped /\ TotalInv /\ FlagInv /\ [Next]_vars => (WellTyped /\ TotalInv /\ FlagInv)'
  BY TypeStep, TotalStep, FlagStep
<1> QED BY <1>1, <1>2, PTL DEF Spec

(* What the invariants say of a report.                                     *)
LEMMA ExactAtEnd ==
  ASSUME WellTyped, ResultInv, TotalInv
  PROVE  ReportIsExact
<1>1. SUFFICES ASSUME status = "reported"
               PROVE  /\ result = Verdicts(Scope, "interesting")
                      /\ total_loop = Cardinality(SelectedLoops)
  BY DEF ReportIsExact
<1>2. ~Inside
  BY <1>1 DEF Inside, AtLoop, AtFunction
<1>3. Entered = SelectedLoops
  BY <1>1, <1>2, SeenAll DEF Entered
<1>4. result = Verdicts(Scope, "interesting")
  BY <1>1, SeenAll DEF ResultInv
<1> QED BY <1>1, <1>3, <1>4 DEF TotalInv

(* The report holds exactly the interesting stores within two calls of a    *)
(* selected loop, and its last column counts each selected loop once.       *)
THEOREM ReportExact == Spec => []ReportIsExact
<1>1. WellTyped /\ ResultInv /\ TotalInv => ReportIsExact
  BY ExactAtEnd
<1> QED BY <1>1, ResultInvariant, CountInvariant, PTL

(* The first column counts the functions that have a selected loop with an  *)
(* interesting store in its scope, each once.                               *)
THEOREM InterestingCountExact == Spec => []InterestingCountsFunctions
<1>1. ASSUME WellTyped, FlagInv
      PROVE  InterestingCountsFunctions
  <2>1. SUFFICES ASSUME status = "reported"
                 PROVE  interesting_loop = Cardinality({fk[1] : fk \in
            {x \in SelectedLoops : Verdicts(InScope(LoopBody(x)), "interesting") # {}}})
    BY DEF InterestingCountsFunctions
  <2>2. Counted(f) = {fk[1] : fk \in
            {x \in SelectedLoops : Verdicts(InScope(LoopBody(x)), "interesting") # {}}}
    BY <1>1, <2>1, SeenAll DEF Counted, Found
  <2> QED BY <1>1, <2>1, <2>2 DEF FlagInv
<1> QED BY <1>1, CountInvariant, PTL
==============================================================================
