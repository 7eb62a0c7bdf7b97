--------------------------- MODULE BacktrackProofs ---------------------------
(***************************************************************************)
(* Theorems about modules Backtrack and InstInst, for every set of values   *)
(* and every well-formed module: that a search visits the slice, that it    *)
(* implements the search of a graph, what it leaves behind, its instruction *)
(* stack, the sources it records and its verdict; and that the record of a  *)
(* store, built by two searches, says of both slices what it should.        *)
(***************************************************************************)
EXTENDS InstInst, SequenceLemmas

------------------------------------------------------------------------------
(* The operators of the model.                                              *)

(* A visitor pushes operands of the module.                                 *)
LEMMA TracedType ==
  ASSUME NEW g, IsGraph(g), NEW v \in Values
  PROVE  Traced(g, v) \in Seq(Values)
<1> DEFINE ops == g.ops[v]
<1>1. ops \in Seq(Values)
  BY DEF IsGraph
<1>2. Len(ops) \in Nat /\ \A i \in 1..Len(ops) : ops[i] \in Values
  BY <1>1, ElementOfSeq, LenProperties
<1>3. g.kind[v] \in FirstOperandOnly => <<ops[1]>> \in Seq(Values)
  BY <1>2 DEF IsGraph
<1>4. g.kind[v] = "select" => <<ops[2], ops[3]>> \in Seq(Values)
  BY <1>2 DEF IsGraph
<1> QED BY <1>1, <1>3, <1>4 DEF Traced

(* Values that are not traced push nothing.                                 *)
LEMMA TracedLeaf ==
  ASSUME NEW g, NEW v,
         g.kind[v] \in {"otherinst", "otherexpr", "global", "function", "int",
                        "inert", "argument"}
  PROVE  Traced(g, v) = <<>>
BY DEF Traced, FirstOperandOnly, AllOperands

(* The stack is cut at the last occurrence of the caller, or emptied.       *)
LEMMA TrimToProperties ==
  ASSUME NEW S, NEW stack \in Seq(S), NEW caller
  PROVE  /\ TrimTo(stack, caller) \in Seq(S)
         /\ \E n \in 0..Len(stack) :
              /\ Len(TrimTo(stack, caller)) = n
              /\ \A i \in 1..n : TrimTo(stack, caller)[i] = stack[i]
              /\ n = 0 \/ stack[n] = caller
              /\ \A m \in (n+1)..Len(stack) : stack[m] # caller
<1> DEFINE keeps(n) == n = 0 \/ stack[n] = caller
           Cut(n) == keeps(n) /\ \A m \in (n+1)..Len(stack) : ~keeps(m)
           depth == CHOOSE n \in 0..Len(stack) : Cut(n)
           Kept == {n \in 0..Len(stack) : keeps(n)}
<1>1. Len(stack) \in Nat /\ \A i \in 1..Len(stack) : stack[i] \in S
  BY LenProperties, ElementOfSeq
<1>2. PICK k \in Kept : \A n \in Kept : n <= k
  <2>1. Kept \in SUBSET (0..Len(stack)) /\ Kept # {}
    BY <1>1
  <2> HIDE DEF Kept
  <2> QED BY <2>1, <1>1, GreatestBelow
<1>3. k \in 0..Len(stack) /\ Cut(k)
  BY <1>1, <1>2
<1>4. depth \in 0..Len(stack) /\ Cut(depth)
  <2> HIDE DEF Cut
  <2> QED BY <1>3
<1>5. TrimTo(stack, caller) = SubSeq(stack, 1, depth)
  BY DEF TrimTo
<1> HIDE DEF depth
<1>6. /\ SubSeq(stack, 1, depth) \in Seq(S)
      /\ Len(SubSeq(stack, 1, depth)) = depth
      /\ \A i \in 1..depth : SubSeq(stack, 1, depth)[i] = stack[i]
  BY <1>1, <1>4, SubSeqProperties
<1> QED BY <1>4, <1>5, <1>6

------------------------------------------------------------------------------
(* Type correctness.                                                        *)

(* What one visit does to the two stacks.                                   *)
LEMMA VisitStacks ==
  ASSUME TypeOK, worklist # <<>>, Visit(Traced(ir, Popped))
  PROVE  LET n == Len(worklist) - 1
             p == Traced(ir, Popped)
         IN  /\ n \in Nat /\ p \in Seq(Values) /\ Len(p) \in Nat
             /\ Popped \in Values /\ Popped = worklist[n + 1]
             /\ worklist' \in Seq(Values)
             /\ worklist_caller' \in Seq(Values \cup {Store})
             /\ Len(worklist') = n + Len(p) /\ Len(worklist_caller') = n + Len(p)
             /\ DOMAIN worklist' = 1..(n + Len(p))
             /\ \A i \in 1..n : /\ worklist'[i] = worklist[i]
                                /\ worklist_caller'[i] = worklist_caller[i]
             /\ \A i \in (n+1)..(n + Len(p)) : /\ worklist'[i] = p[i - n]
                                               /\ worklist_caller'[i] = Popped
<1> DEFINE n == Len(worklist) - 1
           p == Traced(ir, Popped)
           c == [i \in DOMAIN p |-> Popped]
<1>1. IsGraph(ir)
  BY DEF TypeOK
<1>2. /\ worklist \in Seq(Values) /\ Popped \in Values /\ n \in Nat
      /\ Popped = worklist[n + 1]
  BY PopProperties DEF TypeOK, Popped, Last
<1>3. /\ p \in Seq(Values) /\ Len(p) \in Nat /\ DOMAIN p = 1..Len(p)
      /\ \A i \in 1..Len(p) : p[i] \in Values
  BY <1>1, <1>2, TracedType, LenProperties, ElementOfSeq
<1>4. c \in Seq(Values \cup {Store}) /\ Len(c) = Len(p) /\ \A i \in 1..Len(p) : c[i] = Popped
  BY <1>2, <1>3
<1>5. /\ worklist_caller \in Seq(Values \cup {Store}) /\ worklist_caller # <<>>
      /\ Len(worklist_caller) = n + 1
  BY <1>2, EmptySeq DEF TypeOK
<1>6. worklist' = Front(worklist) \o p /\ worklist_caller' = Front(worklist_caller) \o c
  BY DEF Visit
<1> HIDE DEF p, c
<1>7. /\ Front(worklist) \o p \in Seq(Values)
      /\ Len(Front(worklist) \o p) = n + Len(p)
      /\ DOMAIN (Front(worklist) \o p) = 1..(n + Len(p))
      /\ \A i \in 1..(n + Len(p)) :
           (Front(worklist) \o p)[i] = IF i <= n THEN worklist[i] ELSE p[i - n]
  BY <1>2, <1>3, PopPushProperties
<1>8. /\ Front(worklist_caller) \o c \in Seq(Values \cup {Store})
      /\ Len(Front(worklist_caller) \o c) = n + Len(p)
      /\ \A i \in 1..(n + Len(p)) :
           (Front(worklist_caller) \o c)[i] = IF i <= n THEN worklist_caller[i] ELSE c[i - n]
  <2>1. /\ Front(worklist_caller) \o c \in Seq(Values \cup {Store})
        /\ Len(Front(worklist_caller) \o c) = Len(worklist_caller) - 1 + Len(c)
        /\ \A i \in 1..(Len(worklist_caller) - 1 + Len(c)) :
             (Front(worklist_caller) \o c)[i] =
                IF i <= Len(worklist_caller) - 1 THEN worklist_caller[i]
                ELSE c[i - (Len(worklist_caller) - 1)]
    BY <1>4, <1>5, PopPushProperties, ZenonT(30)
  <2>2. Len(worklist_caller) - 1 = n /\ Len(c) = Len(p)
    BY <1>2, <1>4, <1>5
  <2> QED BY <2>1, <2>2
<1>9. ASSUME NEW i \in (n+1)..(n + Len(p))
      PROVE  worklist'[i] = p[i - n] /\ worklist_caller'[i] = Popped
  <2>1. i \in 1..(n + Len(p)) /\ ~(i <= n) /\ i - n \in 1..Len(p)
    BY <1>2, <1>3
  <2>2. worklist'[i] = p[i - n]
    BY <2>1, <1>6, <1>7
  <2>3. worklist_caller'[i] = c[i - n]
    BY <2>1, <1>6, <1>8
  <2> QED BY <2>1, <2>2, <2>3, <1>4
<1>10. ASSUME NEW i \in 1..n
       PROVE  worklist'[i] = worklist[i] /\ worklist_caller'[i] = worklist_caller[i]
  <2>1. i \in 1..(n + Len(p)) /\ i <= n
    BY <1>2, <1>3
  <2> QED BY <2>1, <1>6, <1>7, <1>8
<1> QED BY <1>2, <1>3, <1>6, <1>7, <1>8, <1>9, <1>10 DEF p

(* A step visits the popped value, drops it, or returns.  Whatever its      *)
(* class, a visited value has its traced operands pushed, and no others.    *)
LEMMA StepCases ==
  ASSUME Next
  PROVE  \/ /\ pc = "running" /\ worklist # <<>> /\ Popped \notin visited
            /\ Visit(Traced(ir, Popped)) /\ pc' \in {"running", "exited"}
         \/ SkipVisited
         \/ Return
<1>1. CASE VisitInstruction
  BY <1>1 DEF VisitInstruction, Visiting
<1>2. CASE VisitConstantExpr
  BY <1>2 DEF VisitConstantExpr, Visiting
<1>3. CASE AbortOnInstruction
  <2>1. Traced(ir, Popped) = <<>>
    BY <1>3, TracedLeaf DEF AbortOnInstruction, Visiting
  <2> QED BY <1>3, <2>1 DEF AbortOnInstruction, Visiting
<1>4. CASE AbortOnConstantExpr
  <2>1. Traced(ir, Popped) = <<>>
    BY <1>4, TracedLeaf DEF AbortOnConstantExpr, Visiting
  <2> QED BY <1>4, <2>1 DEF AbortOnConstantExpr, Visiting
<1>5. CASE VisitGlobal \/ VisitFunction \/ VisitConstantInt \/ VisitInert \/ VisitArgument
  <2>1. ir.kind[Popped] \in {"global", "function", "int", "inert", "argument"}
    BY <1>5 DEF VisitGlobal, VisitFunction, VisitConstantInt, VisitInert, VisitArgument, Visiting
  <2>2. Traced(ir, Popped) = <<>>
    BY <2>1, TracedLeaf
  <2> QED BY <1>5, <2>2
          DEF VisitGlobal, VisitFunction, VisitConstantInt, VisitInert, VisitArgument, Visiting
<1> QED BY <1>1, <1>2, <1>3, <1>4, <1>5 DEF Next

(* The inputs never change.                                                 *)
LEMMA InputsFixed ==
  ASSUME [Next]_vars
  PROVE  UNCHANGED <<ir, isPointer, root>>
BY DEF Next, vars, search, SkipVisited, VisitInstruction, AbortOnInstruction,
       VisitConstantExpr, AbortOnConstantExpr, VisitGlobal, VisitFunction,
       VisitConstantInt, VisitInert, VisitArgument, Return

(* What dropping an operand visited before does to the two stacks.          *)
LEMMA SkipStacks ==
  ASSUME TypeOK, SkipVisited
  PROVE  LET n == Len(worklist) - 1
         IN  /\ n \in Nat /\ Popped = worklist[n + 1]
             /\ worklist' \in Seq(Values) /\ Len(worklist') = n
             /\ worklist_caller' \in Seq(Values \cup {Store}) /\ Len(worklist_caller') = n
             /\ DOMAIN worklist' = 1..n
             /\ \A i \in 1..n : /\ worklist'[i] = worklist[i]
                                /\ worklist_caller'[i] = worklist_caller[i]
<1> DEFINE n == Len(worklist) - 1
<1>1. /\ worklist \in Seq(Values) /\ worklist # <<>>
      /\ worklist_caller \in Seq(Values \cup {Store})
      /\ Len(worklist) = Len(worklist_caller)
      /\ worklist' = Front(worklist) /\ worklist_caller' = Front(worklist_caller)
  BY DEF TypeOK, SkipVisited
<1>2. n \in Nat /\ Popped = worklist[n + 1] /\ worklist_caller # <<>>
  BY <1>1, PopProperties, EmptySeq DEF Popped, Last
<1>3. /\ worklist' \in Seq(Values) /\ Len(worklist') = n
      /\ \A i \in 1..n : worklist'[i] = worklist[i]
  BY <1>1, PopProperties
<1>4. /\ worklist_caller' \in Seq(Values \cup {Store})
      /\ Len(worklist_caller') = Len(worklist_caller) - 1
      /\ \A i \in 1..(Len(worklist_caller) - 1) : worklist_caller'[i] = worklist_caller[i]
  BY <1>1, <1>2, PopProperties
<1>5. DOMAIN worklist' = 1..n
  BY <1>3, LenProperties
<1> QED BY <1>1, <1>2, <1>3, <1>4, <1>5

(* The types of the inputs, the stacks and the visited set, step by step.   *)
LEMMA StackTypes ==
  ASSUME TypeOK, Next
  PROVE  /\ IsGraph(ir') /\ isPointer' \in BOOLEAN /\ root' \in Values
         /\ worklist' \in Seq(Values)
         /\ worklist_caller' \in Seq(Values \cup {Store})
         /\ Len(worklist') = Len(worklist_caller')
         /\ visited' \in SUBSET Values
<1>1. UNCHANGED <<ir, isPointer, root>>
  BY InputsFixed
<1>2. CASE /\ worklist # <<>> /\ Visit(Traced(ir, Popped))
  <2>1. visited' = visited \cup {Popped}
    BY <1>2 DEF Visit
  <2> QED BY <1>1, <1>2, <2>1, VisitStacks DEF TypeOK
<1>3. CASE SkipVisited
  <2>1. visited' = visited
    BY <1>3 DEF SkipVisited
  <2> QED BY <1>1, <1>3, <2>1, SkipStacks DEF TypeOK
<1>4. CASE Return
  BY <1>1, <1>4 DEF Return, TypeOK
<1> QED BY <1>2, <1>3, <1>4, StepCases

(* Recording a source keeps instList well typed.                            *)
LEMMA RecordTypes ==
  ASSUME TypeOK, Popped \in Values,
         NEW type \in {"GLOBAL_VAR", "FUNCTION_PTR", "ARGUMENT_PTR", "ARGUMENT_ANY"},
         Record(type)
  PROVE  /\ instList' \in Seq([stack: Seq(Values), source: Values,
                               type: {"GLOBAL_VAR", "FUNCTION_PTR", "ARGUMENT_PTR",
                                      "ARGUMENT_ANY"}])
         /\ result' = TRUE
<1>1. instruction \in Seq(Values)
  BY SeqMonotonic DEF TypeOK
<1> QED BY <1>1, AppendProperties DEF TypeOK, Record

(* A search that is about to start, from whatever operand.                  *)
Started == IsGraph(ir) /\ \E r \in Values, p \in BOOLEAN : Start(r, p)

(* The constructor leaves a started search.                                 *)
LEMMA InitStarts == Init => Started
<1> SUFFICES ASSUME Init PROVE Started
  OBVIOUS
<1>1. PICK st \in ir.stores : Start(st.ptr, TRUE) \/ Start(st.value, FALSE)
  BY DEF Init
<1>2. st.ptr \in Values /\ st.value \in Values /\ IsGraph(ir)
  BY ProgramsAssumption DEF Init, IsGraph
<1> QED BY <1>1, <1>2 DEF Started

(* A started search is well typed.                                          *)
LEMMA TypeInit == Started => TypeOK
<1> SUFFICES ASSUME Started PROVE TypeOK
  OBVIOUS
<1>1. PICK r \in Values, p \in BOOLEAN : Start(r, p)
  BY DEF Started
<1>2. \A S, x : x \in S => <<x>> \in Seq(S)
  OBVIOUS
<1>3. \A S : <<>> \in Seq(S)
  OBVIOUS
<1> QED BY <1>1, <1>2, <1>3 DEF Started, Start, TypeOK

(* Every step keeps the types.                                              *)
LEMMA TypeStep ==
  ASSUME TypeOK, [Next]_vars
  PROVE  TypeOK'
<1>1. CASE Next
  <2>1. /\ IsGraph(ir') /\ isPointer' \in BOOLEAN /\ root' \in Values
        /\ worklist' \in Seq(Values)
        /\ worklist_caller' \in Seq(Values \cup {Store})
        /\ Len(worklist') = Len(worklist_caller')
        /\ visited' \in SUBSET Values
        /\ ir' = ir
    BY <1>1, StackTypes, InputsFixed
  <2>2. worklist # <<>> => Popped \in Values
    BY PopProperties DEF TypeOK, Popped
  <2>3. CASE VisitInstruction \/ AbortOnInstruction
    <3>1. Popped \in {v \in Values : IsInstruction(v)}
      BY <2>2, <2>3 DEF VisitInstruction, AbortOnInstruction, Visiting, IsInstruction, Instructions
    <3>2. TrimTo(instruction, Caller) \in Seq({v \in Values : IsInstruction(v)})
      BY TrimToProperties DEF TypeOK
    <3>3. Append(TrimTo(instruction, Caller), Popped) \in Seq({v \in Values : IsInstruction(v)})
      BY <3>1, <3>2, AppendProperties
    <3>4. instruction' \in Seq({v \in Values : IsInstruction(v)})
      BY <2>3, <3>3 DEF VisitInstruction, AbortOnInstruction
    <3>5. instruction' \in Seq({v \in Values : IsInstruction(v)'})
      BY <3>4, <2>1 DEF IsInstruction
    <3> QED BY <2>1, <2>3, <3>5 DEF VisitInstruction, AbortOnInstruction, TypeOK
  <2>4. CASE ~(VisitInstruction \/ AbortOnInstruction)
    <3>1. instruction' = instruction
      BY <1>1, <2>4 DEF Next, SkipVisited, VisitConstantExpr, AbortOnConstantExpr, VisitGlobal,
           VisitFunction, VisitConstantInt, VisitInert, VisitArgument, Return
    <3>2. instruction' \in Seq({v \in Values : IsInstruction(v)'})
      BY <2>1, <3>1 DEF TypeOK, IsInstruction
    <3>3. CASE SkipVisited
      BY <2>1, <3>2, <3>3 DEF SkipVisited, TypeOK
    <3>4. CASE VisitConstantExpr
      BY <2>1, <3>2, <3>4 DEF VisitConstantExpr, TypeOK
    <3>5. CASE AbortOnConstantExpr
      BY <2>1, <3>2, <3>5 DEF AbortOnConstantExpr, TypeOK
    <3>6. CASE VisitGlobal
      BY <2>1, <2>2, <3>2, <3>6, RecordTypes DEF VisitGlobal, Visiting, TypeOK
    <3>7. CASE VisitFunction
      BY <2>1, <2>2, <3>2, <3>7, RecordTypes DEF VisitFunction, Visiting, TypeOK
    <3>8. CASE VisitConstantInt
      BY <2>1, <3>2, <3>8 DEF VisitConstantInt, TypeOK
    <3>9. CASE VisitInert
      BY <2>1, <3>2, <3>9 DEF VisitInert, TypeOK
    <3>10. CASE VisitArgument
      <4>1. CASE isPointer /\ Popped \notin ir.pointer
        BY <2>1, <3>2, <3>10, <4>1 DEF VisitArgument, TypeOK
      <4>2. CASE ~(isPointer /\ Popped \notin ir.pointer)
        <5>1. PICK type \in {"ARGUMENT_PTR", "ARGUMENT_ANY"} : Record(type)
          BY <3>10, <4>2 DEF VisitArgument
        <5> QED BY <2>1, <2>2, <3>2, <3>10, <5>1, RecordTypes DEF VisitArgument, Visiting, TypeOK
      <4> QED BY <4>1, <4>2
    <3>11. CASE Return
      BY <2>1, <3>2, <3>11 DEF Return, TypeOK
    <3> QED BY <1>1, <2>4, <3>3, <3>4, <3>5, <3>6, <3>7, <3>8, <3>9, <3>10, <3>11 DEF Next
  <2> QED BY <2>3, <2>4
<1>2. CASE UNCHANGED vars
  BY <1>2 DEF vars, search, TypeOK, IsInstruction
<1> QED BY <1>1, <1>2

(* Every reachable state is well typed: in particular the caller stack is   *)
(* never empty when the worklist is not.                                    *)
THEOREM TypeCorrect == Spec => []TypeOK
<1>1. TypeOK /\ [Next]_vars => TypeOK'
  BY TypeStep
<1> QED BY InitStarts, TypeInit, <1>1, PTL DEF Spec

------------------------------------------------------------------------------
(* Traversal: exactly the slice of the store's operand is visited.          *)

(* The inductive invariant.  The last conjunct is the half of Exact that    *)
(* holds in every state; the other half follows from NothingLost.           *)
SliceInv ==
    /\ TypeOK
    /\ PendingHasItsUser
    /\ NothingLost
    /\ visited \subseteq Search!Reach

(* The edges of the abstract search are the operands that visitors trace.   *)
LEMMA SearchEdges ==
  \A v \in Values : [u \in Values |-> ToSet(Traced(ir, u))][v] = ToSet(Traced(ir, v))
OBVIOUS

(* A pending value is reachable: its user is, or it is the root.            *)
LEMMA PendingReachable ==
  ASSUME SliceInv, NEW i \in DOMAIN worklist
  PROVE  worklist[i] \in Search!Reach
<1>1. worklist[i] \in Values
  BY LenProperties, ElementOfSeq DEF SliceInv, TypeOK
<1>2. ASSUME NEW S \in SUBSET Values, {root} \subseteq S, Search!ClosedSet(S)
      PROVE  worklist[i] \in S
  <2>1. CASE worklist[i] = root
    BY <1>2, <2>1
  <2>2. CASE /\ worklist_caller[i] \in visited
             /\ worklist[i] \in ToSet(Traced(ir, worklist_caller[i]))
    <3>1. worklist_caller[i] \in S
      BY <1>2, <2>2 DEF SliceInv, Search!Reach
    <3>2. worklist_caller[i] \in Values
      BY <2>2 DEF SliceInv, TypeOK
    <3> QED BY <1>2, <2>2, <3>1, <3>2, SearchEdges DEF Search!ClosedSet
  <2> QED BY <2>1, <2>2 DEF SliceInv, PendingHasItsUser
<1> QED BY <1>1, <1>2 DEF Search!Reach

(* The root alone is pending, nothing is lost.                              *)
LEMMA SliceInit == Started => SliceInv
<1> SUFFICES ASSUME Started PROVE SliceInv
  OBVIOUS
<1>1. TypeOK
  BY TypeInit
<1>2. worklist = <<root>> /\ worklist_caller = <<Store>> /\ visited = {} /\ pc = "running"
  BY DEF Started, Start
<1>3. PendingHasItsUser
  BY <1>2 DEF PendingHasItsUser
<1>4. NothingLost
  BY <1>2 DEF NothingLost, ToSet
<1> QED BY <1>1, <1>2, <1>3, <1>4 DEF SliceInv

(* A visit keeps the invariant, whatever the kind of the value.             *)
LEMMA SliceVisit ==
  ASSUME SliceInv, TypeOK', ir' = ir, root' = root,
         pc = "running", worklist # <<>>, Popped \notin visited,
         Visit(Traced(ir, Popped)), pc' \in {"running", "exited"}
  PROVE  SliceInv'
<1> DEFINE n == Len(worklist) - 1
           p == Traced(ir, Popped)
<1>1. /\ n \in Nat /\ p \in Seq(Values) /\ Len(p) \in Nat
      /\ Popped \in Values /\ Popped = worklist[n + 1]
      /\ DOMAIN worklist' = 1..(n + Len(p))
      /\ \A i \in 1..n : /\ worklist'[i] = worklist[i]
                         /\ worklist_caller'[i] = worklist_caller[i]
      /\ \A i \in (n+1)..(n + Len(p)) : /\ worklist'[i] = p[i - n]
                                        /\ worklist_caller'[i] = Popped
  BY VisitStacks DEF SliceInv
<1>2. DOMAIN worklist = 1..(n + 1) /\ DOMAIN p = 1..Len(p)
  <2>1. DOMAIN worklist = 1..Len(worklist) /\ Len(worklist) \in Nat
    BY LenProperties DEF SliceInv, TypeOK
  <2> QED BY <1>1, <2>1, LenProperties
<1>3. visited' = visited \cup {Popped}
  BY DEF Visit
<1> HIDE DEF n, p
<1>4. PendingHasItsUser'
  <2> SUFFICES ASSUME NEW i \in DOMAIN worklist'
               PROVE  \/ i = 1 /\ worklist'[i] = root' /\ worklist_caller'[i] = Store
                      \/ /\ worklist_caller'[i] \in visited'
                         /\ worklist'[i] \in ToSet(Traced(ir', worklist_caller'[i]))
    BY DEF PendingHasItsUser
  <2>1. CASE i \in 1..n
    <3>1. i \in DOMAIN worklist /\ worklist'[i] = worklist[i] /\ worklist_caller'[i] = worklist_caller[i]
      BY <1>1, <1>2, <2>1
    <3> QED BY <1>3, <3>1 DEF SliceInv, PendingHasItsUser
  <2>2. CASE i \in (n+1)..(n + Len(p))
    <3>1. worklist'[i] = p[i - n] /\ worklist_caller'[i] = Popped /\ i - n \in DOMAIN p
      BY <1>1, <1>2, <2>2
    <3>2. p[i - n] \in ToSet(Traced(ir, Popped))
      BY <3>1 DEF ToSet, p
    <3> QED BY <1>3, <3>1, <3>2
  <2> QED BY <1>1, <2>1, <2>2
<1>5. NothingLost'
  <2>1. visited \cup ToSet(worklist) \subseteq visited' \cup ToSet(worklist')
    <3> SUFFICES ASSUME NEW i \in DOMAIN worklist
                 PROVE  worklist[i] \in visited' \cup ToSet(worklist')
      BY <1>3 DEF ToSet
    <3>1. CASE i = n + 1
      BY <1>1, <1>3, <3>1
    <3>2. CASE i \in 1..n
      <4>1. i \in DOMAIN worklist' /\ worklist'[i] = worklist[i]
        BY <1>1, <3>2
      <4> QED BY <4>1 DEF ToSet
    <3> QED BY <1>1, <1>2, <3>1, <3>2
  <2>2. ToSet(p) \subseteq ToSet(worklist')
    <3> SUFFICES ASSUME NEW j \in DOMAIN p PROVE p[j] \in ToSet(worklist')
      BY DEF ToSet
    <3>1. n + j \in (n+1)..(n + Len(p)) /\ n + j \in 1..(n + Len(p)) /\ (n + j) - n = j
      BY <1>1, <1>2
    <3>2. worklist'[n + j] = p[j]
      BY <1>1, <3>1
    <3> QED BY <1>1, <3>1, <3>2 DEF ToSet
  <2>3. ASSUME NEW v \in visited'
        PROVE  ToSet(Traced(ir', v)) \subseteq visited' \cup ToSet(worklist')
    <3>1. CASE v \in visited
      BY <2>1, <3>1 DEF SliceInv, NothingLost
    <3>2. CASE v = Popped
      BY <2>2, <3>2 DEF p
    <3> QED BY <1>3, <3>1, <3>2
  <2> QED BY <2>1, <2>3 DEF SliceInv, NothingLost
<1>6. visited' \subseteq (Search!Reach)'
  <2>1. Popped \in Search!Reach
    <3>1. n + 1 \in DOMAIN worklist
      BY <1>1, <1>2
    <3> QED BY <1>1, <3>1, PendingReachable
  <2>2. (Search!Reach)' = Search!Reach
    BY DEF Search!Reach, Search!ClosedSet
  <2> QED BY <1>3, <2>1, <2>2 DEF SliceInv
<1> QED BY <1>4, <1>5, <1>6 DEF SliceInv

(* So does popping a value visited before.                                  *)
LEMMA SliceSkip ==
  ASSUME SliceInv, TypeOK', SkipVisited
  PROVE  SliceInv'
<1> DEFINE n == Len(worklist) - 1
<1>1. /\ n \in Nat /\ Popped = worklist[n + 1]
      /\ DOMAIN worklist' = 1..n
      /\ \A i \in 1..n : /\ worklist'[i] = worklist[i]
                         /\ worklist_caller'[i] = worklist_caller[i]
  BY SkipStacks DEF SliceInv
<1>2. DOMAIN worklist = 1..(n + 1)
  <2>1. DOMAIN worklist = 1..Len(worklist) /\ Len(worklist) \in Nat
    BY LenProperties DEF SliceInv, TypeOK
  <2> QED BY <1>1, <2>1
<1>3. UNCHANGED <<ir, root, visited, pc>> /\ Popped \in visited /\ pc = "running"
  BY DEF SkipVisited
<1> HIDE DEF n
<1>4. PendingHasItsUser'
  <2> SUFFICES ASSUME NEW i \in 1..n
               PROVE  \/ i = 1 /\ worklist[i] = root /\ worklist_caller[i] = Store
                      \/ /\ worklist_caller[i] \in visited
                         /\ worklist[i] \in ToSet(Traced(ir, worklist_caller[i]))
    BY <1>1, <1>3 DEF PendingHasItsUser
  <2>1. i \in DOMAIN worklist
    BY <1>1, <1>2
  <2> QED BY <2>1 DEF SliceInv, PendingHasItsUser
<1>5. NothingLost'
  <2>1. visited \cup ToSet(worklist) \subseteq visited' \cup ToSet(worklist')
    <3> SUFFICES ASSUME NEW i \in DOMAIN worklist
                 PROVE  worklist[i] \in visited' \cup ToSet(worklist')
      BY <1>3 DEF ToSet
    <3>1. CASE i = n + 1
      BY <1>1, <1>3, <3>1
    <3>2. CASE i \in 1..n
      <4>1. i \in DOMAIN worklist' /\ worklist'[i] = worklist[i]
        BY <1>1, <3>2
      <4> QED BY <4>1 DEF ToSet
    <3> QED BY <1>1, <1>2, <3>1, <3>2
  <2> QED BY <1>3, <2>1 DEF SliceInv, NothingLost
<1>6. visited' \subseteq (Search!Reach)'
  BY <1>3 DEF SliceInv, Search!Reach, Search!ClosedSet
<1> QED BY <1>4, <1>5, <1>6 DEF SliceInv

(* Every step keeps the invariant.                                          *)
LEMMA SliceStep ==
  ASSUME SliceInv, TypeOK', [Next]_vars
  PROVE  SliceInv'
<1>1. ir' = ir /\ root' = root
  BY InputsFixed
<1>2. CASE UNCHANGED vars
  BY <1>2 DEF vars, search, SliceInv, PendingHasItsUser, NothingLost,
              Search!Reach, Search!ClosedSet
<1>3. CASE Return
  <2>1. UNCHANGED <<worklist, worklist_caller, visited>> /\ worklist = <<>>
    BY <1>3 DEF Return
  <2> QED BY <1>1, <2>1 DEF SliceInv, PendingHasItsUser, NothingLost,
                            Search!Reach, Search!ClosedSet
<1> QED BY <1>1, <1>2, <1>3, SliceVisit, SliceSkip, StepCases

(* When the search returns, the visited set contains the root and is closed *)
(* under tracing, so it contains the slice.                                 *)
LEMMA SliceExact == SliceInv => VisitsExactlyTheSlice
<1> SUFFICES ASSUME SliceInv, pc = "done" PROVE Search!Reach \subseteq visited
  BY DEF SliceInv, VisitsExactlyTheSlice, Search!Exact
<1>1. worklist = <<>> /\ ToSet(worklist) = {}
  BY DEF SliceInv, NothingLost, ToSet
<1>2. {root} \subseteq visited /\ visited \in SUBSET Values
  BY <1>1 DEF SliceInv, NothingLost, TypeOK
<1>3. Search!ClosedSet(visited)
  BY <1>1, <1>2, SearchEdges DEF SliceInv, NothingLost, Search!ClosedSet
<1> QED BY <1>2, <1>3 DEF Search!Reach

(* SliceInv is an invariant.                                                *)
THEOREM SliceInvariant == Spec => []SliceInv
<1>1. SliceInv /\ TypeOK' /\ [Next]_vars => SliceInv'
  BY SliceStep
<1> QED BY InitStarts, SliceInit, TypeCorrect, <1>1, PTL DEF Spec

(* isInteresting visits only values the operand depends on, and a search    *)
(* that returns has visited all of them.                                    *)
THEOREM SliceCorrect == Spec => []VisitsExactlyTheSlice
BY SliceInvariant, SliceExact, PTL

(* The parallel stacks pair every pending value with a visited user.        *)
THEOREM PendingCorrect == Spec => []PendingHasItsUser
<1>1. SliceInv => PendingHasItsUser
  BY DEF SliceInv
<1> QED BY SliceInvariant, <1>1, PTL

------------------------------------------------------------------------------
(* The search implements the abstract graph search, step by step.           *)

(* The search starts as the abstract one does.                              *)
LEMMA RefinesInit == Init => Search!Init
<1> SUFFICES ASSUME Init PROVE Search!Init
  OBVIOUS
<1>1. TypeOK
  BY InitStarts, TypeInit
<1>2. visited = {} /\ pc = "running"
  BY DEF Init, Start
<1>3. \A v \in Values : ToSet(Traced(ir, v)) \subseteq Values
  BY <1>1, TracedType, LenProperties, ElementOfSeq DEF TypeOK, ToSet
<1> QED BY <1>1, <1>2, <1>3 DEF Search!Init, TypeOK

(* A visit marks a node of the frontier; a value met again is a stutter; a  *)
(* return finds the frontier empty.                                         *)
LEMMA RefinesStep ==
  ASSUME SliceInv, [Next]_vars
  PROVE  [Search!Next]_(Search!vars)
<1> DEFINE frontier == ({root} \cup UNION {ToSet(Traced(ir, v)) : v \in visited}) \ visited
<1>1. UNCHANGED <<ir, root>>
  BY InputsFixed
<1>2. Search!Frontier = frontier
  <2>1. visited \subseteq Values
    BY DEF SliceInv, TypeOK
  <2> QED BY <2>1, SearchEdges DEF Search!Frontier
<1>3. CASE UNCHANGED vars \/ SkipVisited
  BY <1>1, <1>3 DEF vars, search, SkipVisited, Search!vars
<1>4. CASE Return
  <2>1. worklist = <<>> /\ pc = "running" /\ pc' = "done" /\ visited' = visited
    BY <1>4 DEF Return
  <2>2. ToSet(worklist) = {}
    BY <2>1 DEF ToSet
  <2>3. frontier = {}
    BY <2>2 DEF SliceInv, NothingLost
  <2> QED BY <1>1, <1>2, <2>1, <2>3 DEF Search!Next, Search!Finish
<1>5. CASE /\ pc = "running" /\ worklist # <<>> /\ Popped \notin visited
           /\ Visit(Traced(ir, Popped)) /\ pc' \in {"running", "exited"}
  <2>1. Popped \in Values /\ \E i \in DOMAIN worklist : Popped = worklist[i]
    BY <1>5, PopProperties, LenProperties DEF SliceInv, TypeOK, Popped, Last
  <2>2. Popped \in frontier
    BY <1>5, <2>1 DEF SliceInv, PendingHasItsUser
  <2>3. visited' = visited \cup {Popped}
    BY <1>5 DEF Visit
  <2>4. Search!Mark(Popped)
    BY <1>1, <1>2, <1>5, <2>2, <2>3 DEF Search!Mark
  <2> QED BY <1>5, <2>1, <2>4 DEF Search!Next, Search!Grow, Search!GiveUp
<1> QED BY <1>3, <1>4, <1>5, StepCases

(* The walk with its two stacks does nothing the abstract search does not   *)
(* do: the safety half of ImplementsGraphSearch.                            *)
THEOREM RefinesGraphSearch == Spec => Search!Init /\ [][Search!Next]_(Search!vars)
<1>1. SliceInv /\ [Next]_vars => [Search!Next]_(Search!vars)
  BY RefinesStep
<1> QED BY RefinesInit, SliceInvariant, <1>1, PTL DEF Spec

------------------------------------------------------------------------------
(* What one step does.                                                      *)

(* The search is at an unvisited value, which it visits.                    *)
Looking ==
    /\ pc = "running" /\ worklist # <<>> /\ Popped \notin visited
    /\ Visit(Traced(ir, Popped))

(* Every visitor but those of instructions leaves the stack alone; those of *)
(* instructions cut it back, push the instruction and record nothing.       *)
LEMMA StackCases ==
  ASSUME Next
  PROVE  \/ /\ Looking /\ IsInstruction(Popped)
            /\ instruction' = Append(TrimTo(instruction, Caller), Popped)
            /\ instList' = instList
         \/ /\ Looking /\ ~IsInstruction(Popped)
            /\ instruction' = instruction
            /\ \/ instList' = instList
               \/ \E type \in {"GLOBAL_VAR", "FUNCTION_PTR", "ARGUMENT_PTR", "ARGUMENT_ANY"} :
                    Record(type)
         \/ SkipVisited
         \/ Return
<1> USE DEF Looking, Visiting
<1>1. CASE VisitInstruction
  BY <1>1 DEF VisitInstruction, IsInstruction, Instructions
<1>2. CASE AbortOnInstruction
  <2>1. Traced(ir, Popped) = <<>>
    BY <1>2, TracedLeaf DEF AbortOnInstruction
  <2> QED BY <1>2, <2>1 DEF AbortOnInstruction, IsInstruction, Instructions
<1>3. CASE VisitConstantExpr
  BY <1>3 DEF VisitConstantExpr, IsInstruction, Instructions, HandledInsts, TracedExprs
<1>4. CASE AbortOnConstantExpr \/ VisitGlobal \/ VisitFunction \/ VisitConstantInt
           \/ VisitInert \/ VisitArgument
  <2>1. ir.kind[Popped] \in {"otherexpr", "global", "function", "int", "inert", "argument"}
    BY <1>4 DEF AbortOnConstantExpr, VisitGlobal, VisitFunction, VisitConstantInt,
                VisitInert, VisitArgument
  <2>2. Traced(ir, Popped) = <<>> /\ ~IsInstruction(Popped)
    BY <2>1, TracedLeaf DEF IsInstruction, Instructions, HandledInsts
  <2>3. CASE AbortOnConstantExpr
    BY <2>2, <2>3 DEF AbortOnConstantExpr
  <2>4. CASE VisitGlobal \/ VisitFunction
    BY <2>2, <2>4 DEF VisitGlobal, VisitFunction
  <2>5. CASE VisitConstantInt \/ VisitInert
    BY <2>2, <2>5 DEF VisitConstantInt, VisitInert
  <2>6. CASE VisitArgument
    BY <2>2, <2>6 DEF VisitArgument
  <2> QED BY <1>4, <2>3, <2>4, <2>5, <2>6
<1> QED BY <1>1, <1>2, <1>3, <1>4 DEF Next

(* The stack after the visit of an instruction: the part up to the last     *)
(* occurrence of the user, and the instruction.                             *)
LEMMA PushedStack ==
  ASSUME TypeOK, worklist # <<>>,
         instruction' = Append(TrimTo(instruction, Caller), Popped)
  PROVE  \E d \in 0..Len(instruction) :
           /\ DOMAIN instruction' = 1..(d + 1)
           /\ \A a \in 1..d : instruction'[a] = instruction[a] /\ a \in DOMAIN instruction
           /\ instruction'[d + 1] = Popped
           /\ d = 0 \/ instruction[d] = Caller
           /\ \A a \in DOMAIN instruction : instruction[a] = Caller => a <= d
<1>1. instruction \in Seq(Values) /\ Popped \in Values
  BY PopProperties, SeqMonotonic DEF TypeOK, Popped
<1>2. DOMAIN instruction = 1..Len(instruction) /\ Len(instruction) \in Nat
  BY <1>1, LenProperties
<1> DEFINE kept == TrimTo(instruction, Caller)
<1>3. PICK d \in 0..Len(instruction) :
        /\ Len(kept) = d
        /\ \A a \in 1..d : kept[a] = instruction[a]
        /\ d = 0 \/ instruction[d] = Caller
        /\ \A m \in (d+1)..Len(instruction) : instruction[m] # Caller
  BY <1>1, TrimToProperties
<1>4. kept \in Seq(Values)
  BY <1>1, TrimToProperties
<1> HIDE DEF kept
<1>5. /\ Len(Append(kept, Popped)) = d + 1
      /\ Append(kept, Popped) \in Seq(Values)
      /\ \A a \in 1..d : Append(kept, Popped)[a] = kept[a]
      /\ Append(kept, Popped)[d + 1] = Popped
  BY <1>1, <1>3, <1>4, AppendProperties
<1>6. DOMAIN Append(kept, Popped) = 1..(d + 1)
  BY <1>5, LenProperties
<1>7. instruction' = Append(kept, Popped)
  BY DEF kept
<1>8. \A a \in 1..d : a \in DOMAIN instruction
  BY <1>2
<1>9. \A a \in DOMAIN instruction : instruction[a] = Caller => a <= d
  BY <1>2, <1>3
<1> QED BY <1>3, <1>5, <1>6, <1>7, <1>8, <1>9

------------------------------------------------------------------------------
(* The instruction stack.                                                   *)

(* The users of the pending values, when they are instructions, are on the  *)
(* stack, and nearer the top the later they will be popped: cutting the     *)
(* stack back for one of them loses none that is still needed.              *)
UsersOnStack ==
    \A j \in DOMAIN worklist :
        worklist_caller[j] # Store /\ IsInstruction(worklist_caller[j]) =>
            \E a \in DOMAIN instruction : instruction[a] = worklist_caller[j]

UsersInOrder ==
    \A j, k \in DOMAIN worklist : \A a, b \in DOMAIN instruction :
        j < k /\ instruction[a] = worklist_caller[j] /\ instruction[b] = worklist_caller[k]
            => a <= b

(* An instruction is pushed when it is visited, and never again.            *)
StackIsVisited ==
    /\ \A a \in DOMAIN instruction : instruction[a] \in visited
    /\ \A a, b \in DOMAIN instruction : instruction[a] = instruction[b] => a = b

StackInv ==
    /\ SliceInv
    /\ StackIsDefUsePath
    /\ UsersOnStack
    /\ UsersInOrder
    /\ StackIsVisited

(* Only instructions trace instructions, so the user of a pending           *)
(* instruction is an instruction, or the store.                             *)
LEMMA InstructionUser ==
  ASSUME SliceInv, NEW j \in DOMAIN worklist, IsInstruction(worklist[j]),
         worklist_caller[j] # Store
  PROVE  IsInstruction(worklist_caller[j])
<1> DEFINE x == worklist[j]
           c == worklist_caller[j]
<1>1. c \in Values /\ x \in ToSet(Traced(ir, c)) /\ IsGraph(ir)
  BY DEF SliceInv, PendingHasItsUser, TypeOK
<1> SUFFICES ASSUME ~IsInstruction(c) PROVE FALSE
  OBVIOUS
<1>2. ir.kind[c] \in Kinds
  BY <1>1 DEF IsGraph
<1>3. CASE ir.kind[c] \in ConstExprs
  <2>1. \A n \in DOMAIN ir.ops[c] : ir.kind[ir.ops[c][n]] \in Constants
    BY <1>1, <1>3 DEF IsGraph
  <2>2. Traced(ir, c) = <<ir.ops[c][1]>> \/ Traced(ir, c) = ir.ops[c] \/ Traced(ir, c) = <<>>
    BY <1>3 DEF Traced, ConstExprs, TracedExprs, FirstOperandOnly, AllOperands
  <2>3. ir.ops[c] \in Seq(Values) /\ (Traced(ir, c) = <<ir.ops[c][1]>> => 1 \in DOMAIN ir.ops[c])
    <3>1. ir.kind[c] = "castexpr" => Len(ir.ops[c]) >= 1
      BY <1>1 DEF IsGraph, FirstOperandOnly
    <3>2. ir.ops[c] \in Seq(Values)
      BY <1>1 DEF IsGraph
    <3>3. Len(ir.ops[c]) \in Nat /\ DOMAIN ir.ops[c] = 1..Len(ir.ops[c])
      BY <3>2, LenProperties
    <3>4. CASE ir.kind[c] = "castexpr"
      BY <3>1, <3>2, <3>3, <3>4
    <3>5. CASE ir.kind[c] # "castexpr"
      <4>1. Traced(ir, c) = ir.ops[c] \/ Traced(ir, c) = <<>>
        BY <1>3, <3>5 DEF Traced, ConstExprs, TracedExprs, FirstOperandOnly, AllOperands
      <4> QED BY <3>2, <3>3, <4>1
    <3> QED BY <3>4, <3>5
  <2>4. ir.kind[x] \in Constants
    BY <1>1, <2>1, <2>2, <2>3 DEF ToSet
  <2> QED BY <2>4 DEF IsInstruction, Instructions, HandledInsts, Constants, ConstExprs, TracedExprs
<1>4. CASE ir.kind[c] \notin ConstExprs
  <2>1. Traced(ir, c) = <<>>
    BY <1>2, <1>4, TracedLeaf DEF Kinds, Constants, IsInstruction, Instructions
  <2> QED BY <1>1, <2>1 DEF ToSet
<1> QED BY <1>3, <1>4

(* The stack of a started search is empty.                                  *)
LEMMA StackInit == Started => StackInv
<1> SUFFICES ASSUME Started PROVE StackInv
  OBVIOUS
<1>1. SliceInv
  BY SliceInit
<1>2. worklist = <<root>> /\ worklist_caller = <<Store>> /\ instruction = <<>>
  BY DEF Started, Start
<1>3. DOMAIN instruction = {} /\ DOMAIN worklist = {1} /\ worklist_caller[1] = Store
  BY <1>2
<1> QED BY <1>1, <1>3 DEF StackInv, StackIsDefUsePath, UsersOnStack, UsersInOrder, StackIsVisited

(* The visit of an instruction, in terms of the depth d the stack is cut    *)
(* back to: the user of the instruction, or nothing for the root.           *)
LEMMA StackVisitInstruction ==
  ASSUME StackInv, ir' = ir, root' = root, Looking, IsInstruction(Popped),
         instruction' = Append(TrimTo(instruction, Caller), Popped)
  PROVE  StackIsDefUsePath' /\ UsersOnStack' /\ UsersInOrder' /\ StackIsVisited'
<1> DEFINE n == Len(worklist) - 1
           p == Traced(ir, Popped)
<1>1. /\ n \in Nat /\ Len(p) \in Nat
      /\ Popped = worklist[n + 1]
      /\ DOMAIN worklist' = 1..(n + Len(p))
      /\ \A j \in 1..n : worklist_caller'[j] = worklist_caller[j]
      /\ \A j \in (n+1)..(n + Len(p)) : worklist_caller'[j] = Popped
  BY VisitStacks DEF StackInv, SliceInv, Looking
<1>2. /\ DOMAIN worklist = 1..(n + 1) /\ Len(worklist_caller) = n + 1
      /\ Caller = worklist_caller[n + 1]
  <2>1. Len(worklist) \in Nat /\ DOMAIN worklist = 1..Len(worklist)
        /\ Len(worklist_caller) = Len(worklist)
    BY LenProperties DEF StackInv, SliceInv, TypeOK
  <2>2. Len(worklist) = n + 1
    BY <2>1
  <2> QED BY <2>1, <2>2 DEF Caller, Last
<1>3. PICK d \in 0..Len(instruction) :
        /\ DOMAIN instruction' = 1..(d + 1)
        /\ \A a \in 1..d : instruction'[a] = instruction[a] /\ a \in DOMAIN instruction
        /\ instruction'[d + 1] = Popped
        /\ d = 0 \/ instruction[d] = Caller
        /\ \A a \in DOMAIN instruction : instruction[a] = Caller => a <= d
  BY PushedStack DEF StackInv, SliceInv, Looking
<1>4. d \in Nat /\ visited' = visited \cup {Popped} /\ Popped \notin visited
  <2>1. Len(instruction) \in Nat
    BY LenProperties DEF StackInv, SliceInv, TypeOK
  <2> QED BY <2>1 DEF Looking, Visit
<1> HIDE DEF n, p
<1>5. CASE Caller = Store
  <2>1. n = 0 /\ Popped = root
    <3>1. n + 1 \in DOMAIN worklist /\ worklist_caller[n + 1] \notin visited
      BY <1>1, <1>2, <1>5, StoreAssumption DEF StackInv, SliceInv, TypeOK
    <3>2. n + 1 = 1 /\ worklist[n + 1] = root
      BY <3>1 DEF StackInv, SliceInv, PendingHasItsUser
    <3> QED BY <1>1, <3>2
  <2>2. d = 0
    <3>1. instruction \in Seq({v \in Values : IsInstruction(v)})
      BY DEF StackInv, SliceInv, TypeOK
    <3>2. d # 0 => instruction[d] \in Values
      BY <1>3, <1>4, <3>1, ElementOfSeq
    <3> QED BY <1>3, <1>5, <3>2, StoreAssumption
  <2> QED BY <1>1, <1>3, <1>4, <2>1, <2>2
          DEF StackIsDefUsePath, UsersOnStack, UsersInOrder, StackIsVisited
<1>6. CASE Caller # Store
  <2>1. Caller \in visited /\ Popped \in ToSet(Traced(ir, Caller)) /\ IsInstruction(Caller)
    <3>1. n + 1 \in DOMAIN worklist
      BY <1>1, <1>2
    <3> QED BY <1>1, <1>2, <1>6, <3>1, InstructionUser DEF StackInv, SliceInv, PendingHasItsUser
  <2>2. d # 0 /\ instruction[d] = Caller /\ d \in DOMAIN instruction
    <3>1. PICK a \in DOMAIN instruction : instruction[a] = Caller
      BY <1>1, <1>2, <1>6, <2>1 DEF StackInv, UsersOnStack
    <3>2. a \in Nat \ {0}
      BY LenProperties DEF StackInv, SliceInv, TypeOK
    <3> QED BY <1>3, <1>4, <3>1, <3>2
  <2>3. ASSUME NEW j \in 1..n, NEW a \in DOMAIN instruction, instruction[a] = worklist_caller[j]
        PROVE  a \in 1..d
    <3>1. j \in DOMAIN worklist /\ n + 1 \in DOMAIN worklist /\ j < n + 1
      BY <1>1, <1>2
    <3>2. a <= d
      BY <1>2, <2>2, <2>3, <3>1 DEF StackInv, UsersInOrder
    <3>3. a \in Nat \ {0}
      BY LenProperties DEF StackInv, SliceInv, TypeOK
    <3> QED BY <1>4, <3>2, <3>3
  <2>4. ASSUME NEW j \in 1..n PROVE worklist_caller[j] # Popped
    <3>1. j \in DOMAIN worklist
      BY <1>1, <1>2
    <3>2. Popped \in Values
      BY PopProperties DEF StackInv, SliceInv, TypeOK, Popped, Looking
    <3> QED BY <1>4, <3>1, <3>2, StoreAssumption DEF StackInv, SliceInv, PendingHasItsUser
  <2>5. StackIsDefUsePath'
    <3> SUFFICES ASSUME NEW a \in 1..(d + 1)
                 PROVE  IF a = 1 THEN instruction'[a] = root
                        ELSE instruction'[a] \in ToSet(Traced(ir, instruction'[a-1]))
      BY <1>3 DEF StackIsDefUsePath
    <3>1. CASE a = d + 1
      <4>1. a # 1 /\ a - 1 = d /\ d \in 1..d
        BY <1>4, <2>2, <3>1
      <4> QED BY <1>3, <2>1, <2>2, <3>1, <4>1
    <3>2. CASE a \in 1..d
      <4>1. a # 1 => a - 1 \in 1..d
        BY <1>4, <3>2
      <4>2. a \in DOMAIN instruction
        BY <1>3, <3>2
      <4> QED BY <1>3, <3>2, <4>1, <4>2 DEF StackInv, StackIsDefUsePath
    <3>3. a \in 1..d \/ a = d + 1
      BY <1>4
    <3> QED BY <3>1, <3>2, <3>3
  <2>6. UsersOnStack'
    <3> SUFFICES ASSUME NEW j \in 1..(n + Len(p)), worklist_caller'[j] # Store,
                        IsInstruction(worklist_caller'[j])
                 PROVE  \E a \in 1..(d + 1) : instruction'[a] = worklist_caller'[j]
      BY <1>1, <1>3 DEF UsersOnStack, IsInstruction
    <3>1. CASE j \in 1..n
      <4>1. j \in DOMAIN worklist /\ worklist_caller'[j] = worklist_caller[j]
        BY <1>1, <1>2, <3>1
      <4>2. PICK a \in DOMAIN instruction : instruction[a] = worklist_caller[j]
        BY <4>1 DEF StackInv, UsersOnStack
      <4>3. a \in 1..d
        BY <2>3, <3>1, <4>2
      <4> QED BY <1>3, <1>4, <4>1, <4>2, <4>3
    <3>2. CASE j \in (n+1)..(n + Len(p))
      BY <1>1, <1>3, <1>4, <3>2
    <3>3. j \in 1..n \/ j \in (n+1)..(n + Len(p))
      BY <1>1
    <3> QED BY <3>1, <3>2, <3>3
  <2>7. UsersInOrder'
    <3> SUFFICES ASSUME NEW j \in 1..(n + Len(p)), NEW k \in 1..(n + Len(p)), j < k,
                        NEW a \in 1..(d + 1), NEW b \in 1..(d + 1),
                        instruction'[a] = worklist_caller'[j],
                        instruction'[b] = worklist_caller'[k]
                 PROVE  a <= b
      BY <1>1, <1>3, SMTT(20) DEF UsersInOrder
    <3>1. \A c \in 1..d : c \in DOMAIN instruction /\ instruction'[c] = instruction[c]
                          /\ instruction'[c] # Popped
      BY <1>3, <1>4 DEF StackInv, StackIsVisited
    <3>2. CASE k \in 1..n
      <4>1. j \in 1..n /\ j \in DOMAIN worklist /\ k \in DOMAIN worklist
            /\ worklist_caller'[j] = worklist_caller[j] /\ worklist_caller'[k] = worklist_caller[k]
        BY <1>1, <1>2, <3>2
      <4>2. a # d + 1 /\ b # d + 1
        BY <1>3, <2>4, <3>2, <4>1
      <4>3. a \in 1..d /\ b \in 1..d
        BY <1>4, <4>2
      <4> QED BY <3>1, <4>1, <4>3 DEF StackInv, UsersInOrder
    <3>3. CASE k \in (n+1)..(n + Len(p))
      <4>1. b = d + 1
        BY <1>1, <1>4, <3>1, <3>3
      <4> QED BY <1>4, <4>1
    <3> QED BY <1>1, <3>2, <3>3
  <2>8. StackIsVisited'
    <3>1. \A a \in 1..d : instruction'[a] = instruction[a] /\ a \in DOMAIN instruction
                          /\ instruction'[a] \in visited /\ instruction'[a] # Popped
      BY <1>3, <1>4 DEF StackInv, StackIsVisited
    <3>2. \A a \in 1..(d + 1) : a \in 1..d \/ a = d + 1
      BY <1>4
    <3>3. \A a \in DOMAIN instruction' : instruction'[a] \in visited'
      BY <1>3, <1>4, <3>1, <3>2
    <3>4. \A a, b \in DOMAIN instruction' : instruction'[a] = instruction'[b] => a = b
      BY <1>3, <3>1, <3>2 DEF StackInv, StackIsVisited
    <3> QED BY <3>3, <3>4 DEF StackIsVisited
  <2> QED BY <2>5, <2>6, <2>7, <2>8
<1> QED BY <1>5, <1>6

(* The visit of a value that is not an instruction, a skip or the return:   *)
(* the stack stays, and the pending values keep their users or get one that *)
(* is not an instruction.                                                   *)
LEMMA StackUntouched ==
  ASSUME StackInv, UNCHANGED <<ir, root, instruction>>, visited \subseteq visited',
         \A j \in DOMAIN worklist' :
           \/ j \in DOMAIN worklist /\ worklist_caller'[j] = worklist_caller[j]
           \/ ~IsInstruction(worklist_caller'[j])
  PROVE  StackIsDefUsePath' /\ UsersOnStack' /\ UsersInOrder' /\ StackIsVisited'
<1>1. StackIsDefUsePath'
  BY DEF StackInv, StackIsDefUsePath
<1>2. UsersOnStack'
  BY DEF StackInv, UsersOnStack, IsInstruction
<1>3. UsersInOrder'
  <2>1. \A a \in DOMAIN instruction : IsInstruction(instruction[a])
    BY LenProperties, ElementOfSeq DEF StackInv, SliceInv, TypeOK
  <2> QED BY <2>1 DEF StackInv, UsersInOrder
<1>4. StackIsVisited'
  BY DEF StackInv, StackIsVisited
<1> QED BY <1>1, <1>2, <1>3, <1>4

(* Every step keeps the stack a path of users.                              *)
LEMMA StackStep ==
  ASSUME StackInv, TypeOK', [Next]_vars
  PROVE  StackInv'
<1>1. UNCHANGED <<ir, root>> /\ SliceInv'
  BY InputsFixed, SliceStep DEF StackInv
<1>2. CASE UNCHANGED vars
  BY <1>1, <1>2, StackUntouched DEF vars, search, StackInv
<1>3. CASE Looking /\ IsInstruction(Popped)
           /\ instruction' = Append(TrimTo(instruction, Caller), Popped)
  BY <1>1, <1>3, StackVisitInstruction DEF StackInv
<1>4. CASE Looking /\ ~IsInstruction(Popped) /\ instruction' = instruction
  <2> DEFINE n == Len(worklist) - 1
             p == Traced(ir, Popped)
  <2>1. /\ n \in Nat /\ Len(p) \in Nat
        /\ DOMAIN worklist' = 1..(n + Len(p))
        /\ \A j \in 1..n : worklist_caller'[j] = worklist_caller[j]
        /\ \A j \in (n+1)..(n + Len(p)) : worklist_caller'[j] = Popped
    BY <1>4, VisitStacks DEF StackInv, SliceInv, Looking
  <2>2. 1..n \subseteq DOMAIN worklist
    BY LenProperties DEF StackInv, SliceInv, TypeOK
  <2>3. visited \subseteq visited'
    BY <1>4 DEF Looking, Visit
  <2> HIDE DEF n, p
  <2>4. \A j \in DOMAIN worklist' : j \in 1..n \/ j \in (n+1)..(n + Len(p))
    BY <2>1
  <2> QED BY <1>1, <1>4, <2>1, <2>2, <2>3, <2>4, StackUntouched DEF StackInv
<1>5. CASE SkipVisited
  <2> DEFINE n == Len(worklist) - 1
  <2>1. DOMAIN worklist' = 1..n /\ \A j \in 1..n : worklist_caller'[j] = worklist_caller[j]
    BY <1>5, SkipStacks DEF StackInv, SliceInv
  <2>2. 1..n \subseteq DOMAIN worklist
    BY LenProperties DEF StackInv, SliceInv, TypeOK
  <2>3. visited' = visited /\ instruction' = instruction
    BY <1>5 DEF SkipVisited
  <2> HIDE DEF n
  <2> QED BY <1>1, <2>1, <2>2, <2>3, StackUntouched DEF StackInv
<1>6. CASE Return
  BY <1>1, <1>6, StackUntouched DEF Return, StackInv
<1> QED BY <1>2, <1>3, <1>4, <1>5, <1>6, StackCases

(* StackInv is an invariant.                                                *)
THEOREM StackInvariant == Spec => []StackInv
<1>1. StackInv /\ TypeOK' /\ [Next]_vars => StackInv'
  BY StackStep
<1> QED BY InitStarts, StackInit, TypeCorrect, <1>1, PTL DEF Spec

(* The instruction stack is always a path of the def-use graph that starts  *)
(* at the operand of the store.                                             *)
THEOREM StackCorrect == Spec => []StackIsDefUsePath
<1>1. StackInv => StackIsDefUsePath
  BY DEF StackInv
<1> QED BY StackInvariant, <1>1, PTL

------------------------------------------------------------------------------
(* The stacks saved with the sources.                                       *)

(* A value pushed by a constant expression.                                 *)
PushedByConstant(j) == worklist_caller[j] # Store /\ ~IsInstruction(worklist_caller[j])

(* The operands of a constant expression are constants, so all of them are  *)
(* popped before the stack is cut back again.                               *)
ConstantsOnTop ==
    \A j, k \in DOMAIN worklist : j < k /\ PushedByConstant(j) => PushedByConstant(k)

(* The constant expression is itself used by an instruction on the stack.   *)
ConstantsHaveUser ==
    IsInstruction(root) =>
        \A j \in DOMAIN worklist : PushedByConstant(j) =>
            \E a \in DOMAIN instruction :
                UsedThroughConstants(instruction[a], worklist_caller[j])

RecordInv ==
    /\ StackInv
    /\ ConstantsOnTop
    /\ ConstantsHaveUser
    /\ RecordedStackHoldsUser

(* A constant or argument is used through constants by what traces it, and  *)
(* by what uses in this way the constant that traces it.                    *)
LEMMA UsedDirectly ==
  ASSUME NEW u, NEW s \in Values, ~IsInstruction(s), s \in ToSet(Traced(ir, u))
  PROVE  UsedThroughConstants(u, s)
BY DEF UsedThroughConstants

(* What an operand pushes is used by whoever uses that operand.             *)
LEMMA UsedOneFurther ==
  ASSUME NEW u, NEW c, NEW s, UsedThroughConstants(u, c), s \in ToSet(Traced(ir, c))
  PROVE  UsedThroughConstants(u, s)
BY DEF UsedThroughConstants

(* What the search is about to visit, if not an instruction, is used by an  *)
(* instruction on the stack.                                                *)
LEMMA PoppedHasUser ==
  ASSUME RecordInv, Looking, ~IsInstruction(Popped), IsInstruction(root)
  PROVE  \E a \in DOMAIN instruction : UsedThroughConstants(instruction[a], Popped)
<1>1. /\ Len(worklist) \in DOMAIN worklist /\ Popped \in Values
      /\ Popped = worklist[Len(worklist)] /\ Caller = worklist_caller[Len(worklist)]
  <2>1. /\ worklist \in Seq(Values) /\ worklist # <<>>
        /\ Len(worklist) = Len(worklist_caller)
    BY DEF RecordInv, StackInv, SliceInv, TypeOK, Looking
  <2>2. Len(worklist) \in Nat \ {0} /\ Popped \in Values
    BY <2>1, PopProperties DEF Popped
  <2> QED BY <2>1, <2>2, LenProperties DEF Popped, Caller, Last
<1>2. Caller # Store /\ Popped \in ToSet(Traced(ir, Caller))
  BY <1>1, StoreAssumption DEF RecordInv, StackInv, SliceInv, PendingHasItsUser, TypeOK
<1>3. CASE IsInstruction(Caller)
  <2>1. PICK a \in DOMAIN instruction : instruction[a] = Caller
    BY <1>1, <1>2, <1>3 DEF RecordInv, StackInv, UsersOnStack
  <2> QED BY <1>1, <1>2, <2>1, UsedDirectly
<1>4. CASE ~IsInstruction(Caller)
  <2>1. PICK a \in DOMAIN instruction : UsedThroughConstants(instruction[a], Caller)
    BY <1>1, <1>2, <1>4 DEF RecordInv, ConstantsHaveUser, PushedByConstant
  <2> QED BY <1>2, <2>1, UsedOneFurther
<1> QED BY <1>3, <1>4

(* A started search has recorded no stack.                                  *)
LEMMA RecordStarts == Started => RecordInv
<1> SUFFICES ASSUME Started PROVE RecordInv
  OBVIOUS
<1>1. StackInv
  BY StackInit
<1>2. worklist = <<root>> /\ worklist_caller = <<Store>> /\ instList = <<>>
  BY DEF Started, Start
<1>3. DOMAIN instList = {} /\ DOMAIN worklist = {1} /\ worklist_caller[1] = Store
  BY <1>2
<1> QED BY <1>1, <1>3 DEF RecordInv, ConstantsOnTop, ConstantsHaveUser, PushedByConstant,
                          RecordedStackHoldsUser

(* Recording a source saves the stack, which holds a user of it.            *)
LEMMA RecordKeepsUsers ==
  ASSUME RecordInv, Looking, ~IsInstruction(Popped), ir' = ir, root' = root,
         NEW type, Record(type)
  PROVE  RecordedStackHoldsUser'
<1> DEFINE rec == [stack |-> instruction, type |-> type, source |-> Popped]
           Holds(r) == IF r.stack = <<>> THEN ~IsInstruction(root)
                       ELSE \E u \in ToSet(r.stack) : UsedThroughConstants(u, r.source)
<1>1. Holds(rec)
  <2>1. CASE instruction = <<>>
    <3>1. DOMAIN instruction = {}
      BY <2>1
    <3> QED BY <2>1, <3>1, PoppedHasUser
  <2>2. CASE instruction # <<>>
    <3>1. instruction \in Seq({v \in Values : IsInstruction(v)}) /\ 1 \in DOMAIN instruction
      BY <2>2, EmptySeq, LenProperties DEF RecordInv, StackInv, SliceInv, TypeOK
    <3>2. IsInstruction(instruction[1]) /\ instruction[1] = root
      BY <3>1, LenProperties, ElementOfSeq DEF RecordInv, StackInv, StackIsDefUsePath
    <3> QED BY <2>2, <3>2, PoppedHasUser DEF ToSet
  <2> QED BY <2>1, <2>2
<1>2. \A m \in DOMAIN instList : Holds(instList[m])
  BY DEF RecordInv, RecordedStackHoldsUser
<1>3. \A m \in DOMAIN instList' : instList'[m] = rec \/ (m \in DOMAIN instList /\ instList'[m] = instList[m])
  <2>1. instList \in Seq([stack: Seq(Values), source: Values,
                          type: {"GLOBAL_VAR", "FUNCTION_PTR", "ARGUMENT_PTR", "ARGUMENT_ANY"}])
    BY DEF RecordInv, StackInv, SliceInv, TypeOK
  <2>2. instList' = Append(instList, rec)
    BY DEF Record
  <2> HIDE DEF rec
  <2> QED BY <2>1, <2>2
<1>4. \A m \in DOMAIN instList' : Holds(instList'[m])
  <2> HIDE DEF Holds, rec
  <2> QED BY <1>1, <1>2, <1>3
<1>5. \A u, s : UsedThroughConstants(u, s)' <=> UsedThroughConstants(u, s)
  BY DEF UsedThroughConstants, IsInstruction
<1> QED BY <1>4, <1>5 DEF RecordedStackHoldsUser, IsInstruction

(* Every step keeps what is said of recorded stacks.                        *)
LEMMA RecordStep ==
  ASSUME RecordInv, TypeOK', [Next]_vars
  PROVE  RecordInv'
<1>1. UNCHANGED <<ir, root>> /\ StackInv'
  BY InputsFixed, StackStep DEF RecordInv
<1>2. /\ \A u, s : UsedThroughConstants(u, s)' <=> UsedThroughConstants(u, s)
      /\ \A v : IsInstruction(v)' <=> IsInstruction(v)
  BY <1>1 DEF UsedThroughConstants, IsInstruction
<1>3. instList' = instList => RecordedStackHoldsUser'
  BY <1>1, <1>2 DEF RecordInv, RecordedStackHoldsUser
<1>4. CASE UNCHANGED vars
  BY <1>1, <1>2, <1>3, <1>4 DEF vars, search, RecordInv, ConstantsOnTop, ConstantsHaveUser, PushedByConstant
<1>5. CASE Next /\ Looking
  <2> DEFINE n == Len(worklist) - 1
             p == Traced(ir, Popped)
  <2>1. /\ n \in Nat /\ Len(p) \in Nat
        /\ Popped \in Values /\ Popped = worklist[n + 1]
        /\ DOMAIN worklist' = 1..(n + Len(p))
        /\ \A j \in 1..n : worklist_caller'[j] = worklist_caller[j]
        /\ \A j \in (n+1)..(n + Len(p)) : worklist_caller'[j] = Popped
    BY <1>5, VisitStacks DEF RecordInv, StackInv, SliceInv, Looking
  <2>2. DOMAIN worklist = 1..(n + 1)
    BY LenProperties DEF RecordInv, StackInv, SliceInv, TypeOK
  <2> HIDE DEF n, p
  <2>3. \A j \in DOMAIN worklist' : j \in 1..n \/ j \in (n+1)..(n + Len(p))
    BY <2>1
  <2>4. \A j \in 1..n : j \in DOMAIN worklist /\ (PushedByConstant(j)' <=> PushedByConstant(j))
    BY <1>1, <1>2, <2>1, <2>2 DEF PushedByConstant
  <2>5. \A j \in (n+1)..(n + Len(p)) : PushedByConstant(j)' <=> ~IsInstruction(Popped)
    BY <1>1, <1>2, <2>1, StoreAssumption DEF PushedByConstant
  <2>6. CASE IsInstruction(Popped)
    <3>1. n + 1 \in DOMAIN worklist /\ ~PushedByConstant(n + 1)
      <4>1. n + 1 \in DOMAIN worklist
        BY <2>1, <2>2
      <4> QED BY <2>1, <2>6, <4>1, InstructionUser DEF RecordInv, StackInv, PushedByConstant
    <3>2. \A j \in 1..n : ~PushedByConstant(j)
      <4>1. \A j \in 1..n : j < n + 1
        BY <2>1
      <4> QED BY <2>4, <3>1, <4>1 DEF RecordInv, ConstantsOnTop
    <3>3. \A j \in DOMAIN worklist' : ~PushedByConstant(j)'
      BY <2>3, <2>4, <2>5, <2>6, <3>2
    <3>4. instList' = instList
      BY <1>5, <2>6, StackCases DEF Looking, SkipVisited, Return, Visit
    <3> QED BY <1>1, <1>3, <3>3, <3>4 DEF RecordInv, ConstantsOnTop, ConstantsHaveUser
  <2>7. CASE ~IsInstruction(Popped)
    <3>1. /\ instruction' = instruction
          /\ \/ instList' = instList
             \/ \E type \in {"GLOBAL_VAR", "FUNCTION_PTR", "ARGUMENT_PTR", "ARGUMENT_ANY"} :
                  Record(type)
      BY <1>5, <2>7, StackCases DEF Looking, SkipVisited, Return
    <3>2. RecordedStackHoldsUser'
      BY <1>1, <1>3, <1>5, <2>7, <3>1, RecordKeepsUsers
    <3>3. ConstantsOnTop'
      <4> SUFFICES ASSUME NEW j \in DOMAIN worklist', NEW k \in DOMAIN worklist', j < k,
                          PushedByConstant(j)'
                   PROVE  PushedByConstant(k)'
        BY DEF ConstantsOnTop
      <4>1. CASE k \in (n+1)..(n + Len(p))
        BY <2>5, <2>7, <4>1
      <4>2. CASE k \in 1..n
        <5>1. j \in 1..n
          BY <2>1, <4>2
        <5> QED BY <2>4, <4>2, <5>1 DEF RecordInv, ConstantsOnTop
      <4> QED BY <2>3, <4>1, <4>2
    <3>4. ConstantsHaveUser'
      <4> SUFFICES ASSUME IsInstruction(root), NEW j \in DOMAIN worklist', PushedByConstant(j)'
                   PROVE  \E a \in DOMAIN instruction :
                            UsedThroughConstants(instruction[a], worklist_caller'[j])
        BY <1>1, <1>2, <3>1 DEF ConstantsHaveUser
      <4>1. CASE j \in 1..n
        BY <2>1, <2>4, <4>1 DEF RecordInv, ConstantsHaveUser
      <4>2. CASE j \in (n+1)..(n + Len(p))
        BY <1>5, <2>1, <2>7, <4>2, PoppedHasUser
      <4> QED BY <2>3, <4>1, <4>2
    <3> QED BY <1>1, <3>2, <3>3, <3>4 DEF RecordInv
  <2> QED BY <2>6, <2>7
<1>6. CASE SkipVisited
  <2> DEFINE n == Len(worklist) - 1
  <2>1. n \in Nat /\ DOMAIN worklist' = 1..n
        /\ \A j \in 1..n : worklist_caller'[j] = worklist_caller[j]
    BY <1>6, SkipStacks DEF RecordInv, StackInv, SliceInv
  <2>2. 1..n \subseteq DOMAIN worklist
    BY LenProperties DEF RecordInv, StackInv, SliceInv, TypeOK
  <2>3. instruction' = instruction /\ instList' = instList
    BY <1>6 DEF SkipVisited
  <2> HIDE DEF n
  <2>4. \A j \in 1..n : j \in DOMAIN worklist /\ (PushedByConstant(j)' <=> PushedByConstant(j))
    BY <1>1, <1>2, <2>1, <2>2 DEF PushedByConstant
  <2>5. ConstantsOnTop'
    BY <2>1, <2>4 DEF RecordInv, ConstantsOnTop
  <2>6. ConstantsHaveUser'
    BY <1>1, <1>2, <2>1, <2>3, <2>4 DEF RecordInv, ConstantsHaveUser
  <2> QED BY <1>1, <1>3, <2>3, <2>5, <2>6 DEF RecordInv
<1>7. CASE Return
  BY <1>1, <1>2, <1>3, <1>7 DEF Return, RecordInv, ConstantsOnTop, ConstantsHaveUser, PushedByConstant
<1> QED BY <1>4, <1>5, <1>6, <1>7, StackCases

(* RecordInv is an invariant.                                               *)
THEOREM RecordInvariant == Spec => []RecordInv
<1>1. RecordInv /\ TypeOK' /\ [Next]_vars => RecordInv'
  BY RecordStep
<1> QED BY InitStarts, RecordStarts, TypeCorrect, <1>1, PTL DEF Spec

(* The stack saved with a source always holds an instruction that uses it,  *)
(* directly or inside constant expressions.                                 *)
THEOREM RecordedStacksCorrect == Spec => []RecordedStackHoldsUser
<1>1. RecordInv => RecordedStackHoldsUser
  BY DEF RecordInv
<1> QED BY RecordInvariant, <1>1, PTL

------------------------------------------------------------------------------
(* Sources and verdict.                                                     *)

(* What a step does to the results: a visited source is recorded, anything  *)
(* else only counts as a load or as a literal after a load.                 *)
LEMMA VerdictCases ==
  ASSUME Next, a_load \in BOOLEAN, result \in BOOLEAN
  PROVE  \/ /\ Looking /\ IsSource(Popped) /\ ir.kind[Popped] \notin {"load", "int"}
            /\ \E type \in {"GLOBAL_VAR", "FUNCTION_PTR", "ARGUMENT_PTR", "ARGUMENT_ANY"} :
                 Record(type)
            /\ a_load' = a_load
         \/ /\ Looking /\ ~IsSource(Popped)
            /\ instList' = instList
            /\ a_load' <=> (a_load \/ ir.kind[Popped] = "load")
            /\ result' <=> (result \/ (ir.kind[Popped] = "int" /\ a_load))
         \/ SkipVisited
         \/ Return
<1> USE DEF Looking, Visiting, IsSource
<1>1. CASE VisitInstruction
  BY <1>1 DEF VisitInstruction, HandledInsts
<1>2. CASE VisitConstantExpr
  BY <1>2 DEF VisitConstantExpr, TracedExprs
<1>3. CASE AbortOnInstruction \/ AbortOnConstantExpr \/ VisitGlobal \/ VisitFunction
           \/ VisitConstantInt \/ VisitInert \/ VisitArgument
  <2>1. ir.kind[Popped] \in {"otherinst", "otherexpr", "global", "function", "int",
                             "inert", "argument"}
    BY <1>3 DEF AbortOnInstruction, AbortOnConstantExpr, VisitGlobal, VisitFunction,
                VisitConstantInt, VisitInert, VisitArgument
  <2>2. Traced(ir, Popped) = <<>>
    BY <2>1, TracedLeaf
  <2>3. CASE AbortOnInstruction
    BY <2>2, <2>3 DEF AbortOnInstruction
  <2>4. CASE AbortOnConstantExpr
    BY <2>2, <2>4 DEF AbortOnConstantExpr
  <2>5. CASE VisitGlobal \/ VisitFunction
    BY <2>2, <2>5 DEF VisitGlobal, VisitFunction
  <2>6. CASE VisitConstantInt
    BY <2>2, <2>6 DEF VisitConstantInt
  <2>7. CASE VisitInert
    BY <2>2, <2>7 DEF VisitInert
  <2>8. CASE VisitArgument
    <3>1. CASE isPointer /\ Popped \notin ir.pointer
      BY <2>2, <2>8, <3>1 DEF VisitArgument
    <3>2. CASE ~(isPointer /\ Popped \notin ir.pointer)
      BY <2>2, <2>8, <3>2 DEF VisitArgument
    <3> QED BY <3>1, <3>2
  <2> QED BY <1>3, <2>3, <2>4, <2>5, <2>6, <2>7, <2>8
<1> QED BY <1>1, <1>2, <1>3 DEF Next

(* LiteralBehindLoadCounts, with its local definitions named: S holds all   *)
(* that is reached from the root without tracing a load.                    *)
LoadFree(S) ==
    /\ root \in S
    /\ \A v \in S : ir.kind[v] # "load" => ToSet(Traced(ir, v)) \subseteq S

(* As long as no load has been visited, everything known was reached        *)
(* without one; a literal visited later than that counts.                   *)
LiteralInv ==
    /\ ~a_load => \A S \in SUBSET Values : LoadFree(S) => visited \cup ToSet(worklist) \subseteq S
    /\ \A v \in visited : ir.kind[v] = "int" /\ ~result =>
          \A S \in SUBSET Values : LoadFree(S) => v \in S

(* The flags in terms of what has been visited.                             *)
FlagsMatchVisited ==
    /\ a_load => \E v \in visited : ir.kind[v] = "load"
    /\ (\E v \in visited : IsSource(v)) => result
    /\ result => \/ \E v \in visited : IsSource(v)
                 \/ /\ \E v \in visited : ir.kind[v] = "int"
                    /\ \E v \in visited : ir.kind[v] = "load"

VerdictInv ==
    /\ SliceInv
    /\ SourcesRecordedOnce
    /\ FlagsMatchVisited
    /\ LiteralInv

(* A started search has no source and no verdict.                           *)
LEMMA VerdictInit == Started => VerdictInv
<1> SUFFICES ASSUME Started PROVE VerdictInv
  OBVIOUS
<1>1. SliceInv
  BY SliceInit
<1>2. worklist = <<root>> /\ visited = {} /\ instList = <<>> /\ ~a_load /\ ~result
  BY DEF Started, Start
<1>3. ToSet(worklist) = {root} /\ DOMAIN instList = {}
  BY <1>2 DEF ToSet
<1> QED BY <1>1, <1>2, <1>3 DEF VerdictInv, SourcesRecordedOnce, FlagsMatchVisited, LiteralInv, LoadFree

(* Recording a source that is not yet listed keeps the list free of repeats. *)
LEMMA RecordAdds ==
  ASSUME TypeOK, NEW type, Record(type),
         Popped \notin {instList[m].source : m \in DOMAIN instList},
         \A i, j \in DOMAIN instList : instList[i].source = instList[j].source => i = j
  PROVE  /\ {instList'[m].source : m \in DOMAIN instList'} =
              {instList[m].source : m \in DOMAIN instList} \cup {Popped}
         /\ \A i, j \in DOMAIN instList' : instList'[i].source = instList'[j].source => i = j
<1> DEFINE rec == [stack |-> instruction, type |-> type, source |-> Popped]
           len == Len(instList)
<1>1. len \in Nat /\ DOMAIN instList = 1..len
  BY LenProperties DEF TypeOK
<1>2. rec.source = Popped
  OBVIOUS
<1>3. /\ DOMAIN instList' = 1..(len + 1)
      /\ \A m \in 1..len : instList'[m] = instList[m]
      /\ instList'[len + 1] = rec
  <2>1. instList \in Seq([stack: Seq(Values), source: Values,
                          type: {"GLOBAL_VAR", "FUNCTION_PTR", "ARGUMENT_PTR", "ARGUMENT_ANY"}])
    BY DEF TypeOK
  <2>2. instList' = Append(instList, rec)
    BY DEF Record
  <2> HIDE DEF rec
  <2> QED BY <2>1, <2>2
<1>4. \A m \in 1..(len + 1) : m \in 1..len \/ m = len + 1
  BY <1>1
<1>5. 1..len \subseteq 1..(len + 1) /\ len + 1 \in 1..(len + 1)
  BY <1>1
<1> HIDE DEF len, rec
<1>6. {instList'[m].source : m \in DOMAIN instList'} =
        {instList[m].source : m \in DOMAIN instList} \cup {Popped}
  BY <1>1, <1>2, <1>3, <1>4, <1>5
<1>7. ASSUME NEW i \in DOMAIN instList', NEW j \in DOMAIN instList',
             instList'[i].source = instList'[j].source
      PROVE  i = j
  BY <1>1, <1>2, <1>3, <1>4, <1>7
<1> QED BY <1>6, <1>7

(* Visiting a source records it once.                                       *)
LEMMA SourcesVisit ==
  ASSUME VerdictInv, UNCHANGED <<ir, isPointer, root>>, Looking,
         \/ /\ IsSource(Popped)
            /\ \E type \in {"GLOBAL_VAR", "FUNCTION_PTR", "ARGUMENT_PTR", "ARGUMENT_ANY"} :
                 Record(type)
         \/ ~IsSource(Popped) /\ instList' = instList
  PROVE  SourcesRecordedOnce'
<1>1. visited' = visited \cup {Popped} /\ Popped \notin visited
  BY DEF Looking, Visit
<1>2. \A v : IsSource(v)' <=> IsSource(v)
  BY DEF IsSource
<1>3. CASE IsSource(Popped)
  <2>1. PICK type : Record(type)
    BY <1>3
  <2>2. {v \in visited' : IsSource(v)'} = {v \in visited : IsSource(v)} \cup {Popped}
    BY <1>1, <1>2, <1>3
  <2> QED BY <1>1, <2>1, <2>2, RecordAdds DEF VerdictInv, SliceInv, SourcesRecordedOnce
<1>4. CASE ~IsSource(Popped)
  <2>1. {v \in visited' : IsSource(v)'} = {v \in visited : IsSource(v)}
    BY <1>1, <1>2, <1>4
  <2> QED BY <1>4, <2>1 DEF VerdictInv, SourcesRecordedOnce
<1> QED BY <1>3, <1>4

(* One visit, whatever it visits, preserves what relates the flags to the   *)
(* visited values.                                                          *)
LEMMA FlagsVisit ==
  ASSUME VerdictInv, UNCHANGED <<ir, isPointer, root>>, Looking,
         a_load' <=> (a_load \/ ir.kind[Popped] = "load"),
         \/ IsSource(Popped) /\ result'
         \/ /\ ~IsSource(Popped)
            /\ result' <=> (result \/ (ir.kind[Popped] = "int" /\ a_load))
  PROVE  FlagsMatchVisited'
<1>1. visited' = visited \cup {Popped}
  BY DEF Looking, Visit
<1>2. \A v : IsSource(v)' <=> IsSource(v)
  BY DEF IsSource
<1> QED BY <1>1, <1>2 DEF VerdictInv, FlagsMatchVisited

(* A literal counts once a load has been visited.                           *)
LEMMA LiteralVisit ==
  ASSUME VerdictInv, UNCHANGED <<ir, isPointer, root>>, Looking,
         a_load' <=> (a_load \/ ir.kind[Popped] = "load"),
         result => result',
         ir.kind[Popped] = "int" /\ a_load => result'
  PROVE  LiteralInv'
<1> DEFINE n == Len(worklist) - 1
           p == Traced(ir, Popped)
<1>1. /\ n \in Nat /\ Len(p) \in Nat /\ p \in Seq(Values)
      /\ Popped \in Values /\ Popped = worklist[n + 1]
      /\ DOMAIN worklist' = 1..(n + Len(p))
      /\ \A j \in 1..n : worklist'[j] = worklist[j]
      /\ \A j \in (n+1)..(n + Len(p)) : worklist'[j] = p[j - n]
  BY VisitStacks DEF VerdictInv, SliceInv, Looking
<1>2. DOMAIN worklist = 1..(n + 1) /\ DOMAIN p = 1..Len(p)
  BY <1>1, LenProperties DEF VerdictInv, SliceInv, TypeOK
<1>3. visited' = visited \cup {Popped}
  BY DEF Looking, Visit
<1>4. \A S : LoadFree(S)' <=> LoadFree(S)
  BY DEF LoadFree
<1>5. Popped \in ToSet(worklist)
  BY <1>1, <1>2 DEF ToSet
<1>6. ToSet(worklist') \subseteq ToSet(worklist) \cup ToSet(p)
  <2> SUFFICES ASSUME NEW j \in 1..(n + Len(p))
               PROVE  worklist'[j] \in ToSet(worklist) \cup ToSet(p)
    BY <1>1 DEF ToSet
  <2>1. CASE j \in 1..n
    <3>1. j \in DOMAIN worklist
      BY <1>1, <1>2, <2>1
    <3> QED BY <1>1, <2>1, <3>1 DEF ToSet
  <2>2. CASE j \in (n+1)..(n + Len(p))
    <3>1. j - n \in DOMAIN p
      BY <1>1, <1>2, <2>2
    <3> QED BY <1>1, <2>2, <3>1 DEF ToSet
  <2>3. j \in 1..n \/ j \in (n+1)..(n + Len(p))
    BY <1>1
  <2> QED BY <2>1, <2>2, <2>3
<1>7. ASSUME ~a_load', NEW S \in SUBSET Values, LoadFree(S)
      PROVE  visited' \cup ToSet(worklist') \subseteq S
  <2>1. visited \cup ToSet(worklist) \subseteq S /\ ir.kind[Popped] # "load"
    BY <1>7 DEF VerdictInv, LiteralInv
  <2>2. ToSet(p) \subseteq S
    BY <1>5, <1>7, <2>1 DEF LoadFree
  <2> QED BY <1>3, <1>5, <1>6, <2>1, <2>2
<1>8. ASSUME NEW v \in visited', ir.kind[v] = "int", ~result', NEW S \in SUBSET Values, LoadFree(S)
      PROVE  v \in S
  <2>1. CASE v \in visited
    BY <1>8, <2>1 DEF VerdictInv, LiteralInv
  <2>2. CASE v = Popped
    BY <1>5, <1>8, <2>2 DEF VerdictInv, LiteralInv
  <2> QED BY <1>3, <2>1, <2>2
<1> QED BY <1>4, <1>7, <1>8 DEF LiteralInv

(* Every step keeps the verdict, the sources and the load flag in agreement. *)
LEMMA VerdictStep ==
  ASSUME VerdictInv, TypeOK', [Next]_vars
  PROVE  VerdictInv'
<1>1. UNCHANGED <<ir, isPointer, root>> /\ SliceInv'
  BY InputsFixed, SliceStep DEF VerdictInv
<1>2. a_load \in BOOLEAN /\ result \in BOOLEAN
  BY DEF VerdictInv, SliceInv, TypeOK
<1>3. ASSUME UNCHANGED <<visited, instList, a_load, result>>,
             ToSet(worklist') \subseteq ToSet(worklist)
      PROVE  VerdictInv'
  <2>1. \A v : IsSource(v)' <=> IsSource(v)
    BY <1>1 DEF IsSource
  <2>2. \A S : LoadFree(S)' <=> LoadFree(S)
    BY <1>1 DEF LoadFree
  <2>3. SourcesRecordedOnce'
    BY <1>3, <2>1 DEF VerdictInv, SourcesRecordedOnce
  <2>4. FlagsMatchVisited'
    BY <1>1, <1>3, <2>1 DEF VerdictInv, FlagsMatchVisited
  <2>5. LiteralInv'
    BY <1>1, <1>3, <2>2 DEF VerdictInv, LiteralInv
  <2> QED BY <1>1, <2>3, <2>4, <2>5 DEF VerdictInv
<1>4. CASE UNCHANGED vars
  BY <1>3, <1>4 DEF vars, search
<1>5. CASE Return
  BY <1>3, <1>5 DEF Return
<1>6. CASE SkipVisited
  <2> DEFINE n == Len(worklist) - 1
  <2>1. DOMAIN worklist' = 1..n /\ \A j \in 1..n : worklist'[j] = worklist[j]
    BY <1>6, SkipStacks DEF VerdictInv, SliceInv
  <2>2. 1..n \subseteq DOMAIN worklist
    BY LenProperties DEF VerdictInv, SliceInv, TypeOK
  <2> HIDE DEF n
  <2>3. ToSet(worklist') \subseteq ToSet(worklist)
    BY <2>1, <2>2 DEF ToSet
  <2> QED BY <1>3, <1>6, <2>3 DEF SkipVisited
<1>7. CASE /\ Looking /\ IsSource(Popped) /\ ir.kind[Popped] \notin {"load", "int"}
           /\ \E type \in {"GLOBAL_VAR", "FUNCTION_PTR", "ARGUMENT_PTR", "ARGUMENT_ANY"} :
                Record(type)
           /\ a_load' = a_load
  <2>1. result'
    BY <1>7 DEF Record
  <2> QED BY <1>1, <1>7, <2>1, SourcesVisit, FlagsVisit, LiteralVisit DEF VerdictInv
<1>8. CASE /\ Looking /\ ~IsSource(Popped)
           /\ instList' = instList
           /\ a_load' <=> (a_load \/ ir.kind[Popped] = "load")
           /\ result' <=> (result \/ (ir.kind[Popped] = "int" /\ a_load))
  BY <1>1, <1>8, SourcesVisit, FlagsVisit, LiteralVisit DEF VerdictInv
<1> QED BY <1>2, <1>4, <1>5, <1>6, <1>7, <1>8, VerdictCases

(* VerdictInv is an invariant.                                              *)
THEOREM VerdictInvariant == Spec => []VerdictInv
<1>1. VerdictInv /\ TypeOK' /\ [Next]_vars => VerdictInv'
  BY VerdictStep
<1> QED BY InitStarts, VerdictInit, TypeCorrect, <1>1, PTL DEF Spec

(* Each visited source is listed, once, and nothing else is.                *)
THEOREM SourcesCorrect == Spec => []SourcesRecordedOnce
<1>1. VerdictInv => SourcesRecordedOnce
  BY DEF VerdictInv
<1> QED BY VerdictInvariant, <1>1, PTL

(* A store is dismissed only if its operand depends on no source, and       *)
(* accepted only with a source, or a literal and a load.                    *)
THEOREM VerdictCorrect == Spec => []VerdictMatchesSlice
<1>1. VerdictInv => VerdictMatchesSlice
  <2> SUFFICES ASSUME VerdictInv, pc = "done"
               PROVE  LET slice == Search!Reach
                      IN  /\ (\E v \in slice : IsSource(v)) => result
                          /\ result => \/ \E v \in slice : IsSource(v)
                                       \/ /\ \E v \in slice : ir.kind[v] = "int"
                                          /\ \E v \in slice : ir.kind[v] = "load"
    BY DEF VerdictMatchesSlice
  <2>1. visited = Search!Reach
    BY SliceExact DEF VerdictInv, VisitsExactlyTheSlice, Search!Exact
  <2> QED BY <2>1 DEF VerdictInv, FlagsMatchVisited
<1> QED BY VerdictInvariant, <1>1, PTL

(* A literal that only a load leads to makes the operand interesting.       *)
THEOREM LiteralsCorrect == Spec => []LiteralBehindLoadCounts
<1>1. VerdictInv => LiteralBehindLoadCounts
  <2> SUFFICES ASSUME VerdictInv, pc = "done", NEW v \in Search!Reach, ir.kind[v] = "int",
                      NEW S \in SUBSET Values, LoadFree(S), v \notin S
               PROVE  result
    BY DEF LiteralBehindLoadCounts, LoadFree
  <2>1. v \in visited
    BY SliceExact DEF VerdictInv, VisitsExactlyTheSlice, Search!Exact
  <2> QED BY <2>1 DEF VerdictInv, LiteralInv
<1> QED BY VerdictInvariant, <1>1, PTL

------------------------------------------------------------------------------
(* What the record of a store (module InstInst) takes over from a search.   *)

(* The classes the search exits on.                                         *)
Unhandled == {"otherinst", "otherexpr"}

(* The saved stacks hold visited instructions only, each source is saved    *)
(* under its own class, and the search exits at the first value it cannot   *)
(* handle.                                                                  *)
ListInv ==
    /\ \A i \in DOMAIN instList :
         /\ ToSet(instList[i].stack) \subseteq visited
         /\ instList[i].type = ClassOf(instList[i].source, isPointer)
    /\ pc = "exited" <=> \E v \in visited : ir.kind[v] \in Unhandled

SearchInv == RecordInv /\ VerdictInv /\ ListInv

(* Whatever it is, the visited value ends the search exactly if it is one   *)
(* that cannot be handled.                                                  *)
LEMMA ExitCases ==
  ASSUME Next
  PROVE  \/ Looking /\ pc' = "exited" /\ ir.kind[Popped] \in Unhandled
         \/ Looking /\ pc' = "running" /\ ir.kind[Popped] \notin Unhandled
         \/ SkipVisited
         \/ Return
<1> USE DEF Looking, Visiting, Unhandled
<1>1. CASE VisitInstruction
  BY <1>1 DEF VisitInstruction, HandledInsts
<1>2. CASE VisitConstantExpr
  BY <1>2 DEF VisitConstantExpr, TracedExprs
<1>3. CASE AbortOnInstruction \/ AbortOnConstantExpr
  <2>1. Traced(ir, Popped) = <<>>
    BY <1>3, TracedLeaf DEF AbortOnInstruction, AbortOnConstantExpr
  <2> QED BY <1>3, <2>1 DEF AbortOnInstruction, AbortOnConstantExpr
<1>4. CASE VisitGlobal \/ VisitFunction \/ VisitConstantInt \/ VisitInert \/ VisitArgument
  <2>1. ir.kind[Popped] \in {"global", "function", "int", "inert", "argument"}
    BY <1>4 DEF VisitGlobal, VisitFunction, VisitConstantInt, VisitInert, VisitArgument
  <2>2. Traced(ir, Popped) = <<>>
    BY <2>1, TracedLeaf
  <2> QED BY <1>4, <2>1, <2>2
          DEF VisitGlobal, VisitFunction, VisitConstantInt, VisitInert, VisitArgument
<1> QED BY <1>1, <1>2, <1>3, <1>4 DEF Next

(* Only the three visitors of sources record anything, each its own class.  *)
LEMMA RecordClass ==
  ASSUME Next
  PROVE  instList' = instList \/ Record(ClassOf(Popped, isPointer))
<1>1. CASE VisitGlobal
  <2>1. ClassOf(Popped, isPointer) = "GLOBAL_VAR"
    BY <1>1 DEF VisitGlobal, Visiting, ClassOf
  <2> QED BY <1>1, <2>1 DEF VisitGlobal
<1>2. CASE VisitFunction
  <2>1. ClassOf(Popped, isPointer) = "FUNCTION_PTR"
    BY <1>2 DEF VisitFunction, Visiting, ClassOf
  <2> QED BY <1>2, <2>1 DEF VisitFunction
<1>3. CASE VisitArgument
  <2>1. ClassOf(Popped, isPointer) = IF isPointer THEN "ARGUMENT_PTR" ELSE "ARGUMENT_ANY"
    BY <1>3 DEF VisitArgument, Visiting, ClassOf
  <2> QED BY <1>3, <2>1 DEF VisitArgument
<1>4. CASE ~VisitGlobal /\ ~VisitFunction /\ ~VisitArgument
  BY <1>4 DEF Next, SkipVisited, VisitInstruction, AbortOnInstruction, VisitConstantExpr,
       AbortOnConstantExpr, VisitConstantInt, VisitInert, Return
<1> QED BY <1>1, <1>2, <1>3, <1>4

(* What a step does to the list is what the abstract search allows.         *)
LEMMA ListStep ==
  ASSUME SearchInv, [Next]_vars
  PROVE  ListInv'
<1>1. ir' = ir /\ isPointer' = isPointer
  BY InputsFixed
<1> DEFINE good(rec, seen) == /\ ToSet(rec.stack) \subseteq seen
                              /\ rec.type = ClassOf(rec.source, isPointer)
<1>2. visited \subseteq visited' /\ (Looking => visited' = visited \cup {Popped})
  <2>1. Looking => visited' = visited \cup {Popped}
    BY DEF Looking, Visit
  <2> QED BY <2>1, StepCases DEF Looking, SkipVisited, Return, vars, search
<1>3. \A i \in DOMAIN instList' : good(instList'[i], visited')
  <2>1. CASE instList' = instList
    BY <1>2, <2>1 DEF SearchInv, ListInv
  <2>2. ASSUME Record(ClassOf(Popped, isPointer))
        PROVE  \A i \in DOMAIN instList' : good(instList'[i], visited')
    <3> DEFINE type == ClassOf(Popped, isPointer)
               rec == [stack |-> instruction, type |-> type, source |-> Popped]
    <3>1. rec.stack = instruction /\ rec.type = type /\ rec.source = Popped
      OBVIOUS
    <3>2. ToSet(instruction) \subseteq visited
      BY DEF SearchInv, RecordInv, StackInv, StackIsVisited, ToSet
    <3>3. \A i \in DOMAIN instList' : instList'[i] = rec \/ (i \in DOMAIN instList /\ instList'[i] = instList[i])
      <4>1. instList \in Seq([stack: Seq(Values), source: Values,
                              type: {"GLOBAL_VAR", "FUNCTION_PTR", "ARGUMENT_PTR", "ARGUMENT_ANY"}])
        BY DEF SearchInv, RecordInv, StackInv, SliceInv, TypeOK
      <4>2. instList' = Append(instList, rec)
        BY <2>2 DEF Record
      <4> HIDE DEF rec
      <4> QED BY <4>1, <4>2
    <3>4. good(rec, visited')
      <4> HIDE DEF rec
      <4> QED BY <1>2, <3>1, <3>2
    <3> HIDE DEF rec
    <3>5. \A i \in DOMAIN instList : good(instList[i], visited')
      BY <1>2 DEF SearchInv, ListInv
    <3> HIDE DEF good
    <3> QED BY <3>3, <3>4, <3>5
  <2> QED BY <2>1, <2>2, RecordClass DEF vars, search
<1>4. pc' = "exited" <=> \E v \in visited' : ir.kind[v] \in Unhandled
  <2>1. CASE UNCHANGED vars
    BY <2>1 DEF vars, search, SearchInv, ListInv
  <2>2. CASE SkipVisited \/ Return
    BY <2>2 DEF SkipVisited, Return, SearchInv, ListInv
  <2>3. CASE Next /\ Looking
    <3>1. pc = "running" /\ ~ \E v \in visited : ir.kind[v] \in Unhandled
      BY <2>3 DEF Looking, SearchInv, ListInv
    <3>2. pc' = "exited" <=> ir.kind[Popped] \in Unhandled
      BY <2>3, ExitCases DEF Looking, SkipVisited, Return
    <3> QED BY <1>2, <2>3, <3>1, <3>2
  <2> QED BY <2>1, <2>2, <2>3, StepCases DEF Looking
<1>5. \A s : ClassOf(s, isPointer)' = ClassOf(s, isPointer)
  BY <1>1 DEF ClassOf
<1> QED BY <1>1, <1>3, <1>4, <1>5 DEF ListInv

(* Every search that starts somewhere satisfies the invariant, and no step  *)
(* of it breaks it.                                                         *)
LEMMA SearchStarts == Started => SearchInv
<1> SUFFICES ASSUME Started PROVE SearchInv
  OBVIOUS
<1>1. visited = {} /\ instList = <<>> /\ pc = "running"
  BY DEF Started, Start
<1>2. DOMAIN instList = {}
  BY <1>1
<1> QED BY <1>1, <1>2, RecordStarts, VerdictInit DEF SearchInv, ListInv

(* Every step of the code is one of the abstract search, or none.           *)
LEMMA SearchSteps ==
  ASSUME SearchInv, [Next]_vars
  PROVE  SearchInv'
<1>1. TypeOK'
  BY TypeStep DEF SearchInv, VerdictInv, SliceInv
<1> QED BY <1>1, RecordStep, VerdictStep, ListStep DEF SearchInv

(* The slice is what the abstract search can reach.                         *)
LEMMA SliceIsReach == Slice(root) = Search!Reach
<1>1. \A S \in SUBSET Values :
        Search!ClosedSet(S) <=> \A u \in S : ToSet(Traced(ir, u)) \subseteq S
  BY SearchEdges DEF Search!ClosedSet
<1> QED BY <1>1 DEF Slice, Search!Reach

(* A list of recorded sources that tells all about an interesting operand   *)
(* with the slice S.                                                        *)
Settled(list, S, sources, ofAddress) ==
    /\ {list[i].source : i \in DOMAIN list} = sources
    /\ \A i \in DOMAIN list :
         /\ ToSet(list[i].stack) \subseteq S
         /\ list[i].type = ClassOf(list[i].source, ofAddress)
         /\ \/ list[i].stack = <<>>
            \/ \E u \in ToSet(list[i].stack) : UsedThroughConstants(u, list[i].source)
    /\ \/ sources # {}
       \/ (\E v \in S : ir.kind[v] = "int") /\ (\E v \in S : ir.kind[v] = "load")
    /\ \A v \in S : ir.kind[v] \notin Unhandled

(* A search that returns has settled its operand, one way or the other, and *)
(* one that exits met a value that it cannot handle.                        *)
LEMMA SearchSettles ==
  ASSUME SearchInv
  PROVE  LET sources == {v \in Slice(root) : IsSource(v)}
         IN  /\ visited \subseteq Slice(root)
             /\ pc = "done" /\ result =>
                  Settled(instList, Slice(root), sources, isPointer)
             /\ pc = "done" /\ ~result => sources = {}
             /\ pc = "exited" => \E v \in Slice(root) : ir.kind[v] \in Unhandled
<1> DEFINE sources == {v \in Slice(root) : IsSource(v)}
<1>1. visited \subseteq Slice(root) /\ (pc = "done" => visited = Slice(root))
  BY SliceExact, SliceIsReach
     DEF SearchInv, VerdictInv, SliceInv, VisitsExactlyTheSlice, Search!Exact
<1>2. pc = "done" /\ ~result => sources = {}
  BY <1>1 DEF SearchInv, VerdictInv, FlagsMatchVisited
<1>3. pc = "exited" => \E v \in Slice(root) : ir.kind[v] \in Unhandled
  BY <1>1 DEF SearchInv, ListInv
<1>4. ASSUME pc = "done", result
      PROVE  Settled(instList, Slice(root), sources, isPointer)
  <2>1. visited = Slice(root) /\ sources = {instList[i].source : i \in DOMAIN instList}
    BY <1>1, <1>4 DEF SearchInv, VerdictInv, SourcesRecordedOnce
  <2>2. ASSUME NEW i \in DOMAIN instList
        PROVE  \/ instList[i].stack = <<>>
               \/ \E u \in ToSet(instList[i].stack) :
                    UsedThroughConstants(u, instList[i].source)
    BY DEF SearchInv, RecordInv, RecordedStackHoldsUser
  <2>3. ASSUME NEW i \in DOMAIN instList
        PROVE  /\ ToSet(instList[i].stack) \subseteq Slice(root)
               /\ instList[i].type = ClassOf(instList[i].source, isPointer)
    BY <2>1 DEF SearchInv, ListInv
  <2>4. \A v \in Slice(root) : ir.kind[v] \notin Unhandled
    BY <1>4, <2>1 DEF SearchInv, ListInv
  <2>5. \/ sources # {}
        \/ (\E v \in Slice(root) : ir.kind[v] = "int") /\ (\E v \in Slice(root) : ir.kind[v] = "load")
    BY <1>4, <2>1 DEF SearchInv, VerdictInv, FlagsMatchVisited
  <2> HIDE DEF sources
  <2>6. {instList[i].source : i \in DOMAIN instList} = sources
    BY <2>1
  <2> HIDE DEF sources
  <2> QED BY <2>2, <2>3, <2>4, <2>5, <2>6 DEF Settled
<1> QED BY <1>1, <1>2, <1>3, <1>4

------------------------------------------------------------------------------
(* Every search of a module starts in a state SearchInv allows.             *)
LEMMA SearchBegins ==
  ir \in Programs /\ (\E r \in Values, p \in BOOLEAN : Start(r, p)) => SearchInv
BY SearchStarts, ProgramsAssumption DEF Started

(* The sources of the search in progress, as the record names them.         *)
LEMMA SameSources ==
  /\ isPointer = TRUE => \A S : AddressSources(S) = {v \in S : IsSource(v)}
  /\ isPointer = FALSE => \A S : ValueSources(S) = {v \in S : IsSource(v)}
BY DEF AddressSources, ValueSources, OfKind, IsSource

(* What the search of the address has left in btd.                          *)
AddressKnown == Settled(btd, Slice(store.ptr), AddressSources(Slice(store.ptr)), TRUE)

ValueKnown ==
    Settled(instList, Slice(store.value), ValueSources(Slice(store.value)), FALSE)

Listed(list) == [EmptyResult EXCEPT !.instList = list]

(* The address is being searched, or the value, and nothing is built yet.   *)
Searching ==
    /\ interesting = FALSE /\ ptr = EmptyResult /\ value = EmptyResult
    /\ \/ phase = "ptr" /\ isPointer = TRUE
       \/ phase = "value" /\ isPointer = FALSE /\ AddressKnown

(* One of the searches has said no.                                         *)
Dismissed ==
    /\ interesting = FALSE /\ ptr = EmptyResult /\ value = EmptyResult
    /\ phase = "built" /\ pc = "done" /\ result = FALSE
    /\ isPointer \in BOOLEAN

(* Both have said yes, and the two lists are being turned into flags.       *)
Accepted ==
    /\ interesting = TRUE /\ isPointer = FALSE /\ pc = "done" /\ result = TRUE
    /\ AddressKnown
    /\ \/ phase = "prepPtr" /\ ptr = Listed(btd) /\ value = Listed(instList)
       \/ phase = "prepValue" /\ ptr = Prepared(btd) /\ value = Listed(instList)
       \/ phase = "built" /\ ptr = Prepared(btd) /\ value = Prepared(instList)
       \/ /\ phase = "exited"
          /\ ptr \in {Listed(btd), Prepared(btd)} /\ value = Listed(instList)
          /\ Unprepared(btd) \/ Unprepared(instList)

BuildInv ==
    /\ ir \in Programs
    /\ store \in ir.stores
    /\ SearchInv
    /\ root = IF isPointer THEN store.ptr ELSE store.value
    /\ Searching \/ Dismissed \/ Accepted

(* Both operands of a store are values of the module.                       *)
LEMMA StoreOperands ==
  ASSUME ir \in Programs, store \in ir.stores
  PROVE  store.ptr \in Values /\ store.value \in Values
BY ProgramsAssumption DEF IsGraph

(* The first search starts in a state that BuildInv allows.                 *)
LEMMA BuildInit == RecordInit => BuildInv
<1> SUFFICES ASSUME RecordInit PROVE BuildInv
  OBVIOUS
<1>1. ir \in Programs /\ store \in ir.stores /\ Start(store.ptr, TRUE)
  BY DEF RecordInit
<1>2. SearchInv
  BY <1>1, StoreOperands, SearchBegins
<1>3. root = store.ptr /\ isPointer = TRUE
  BY <1>1 DEF Start
<1> QED BY <1>1, <1>2, <1>3 DEF RecordInit, BuildInv, Searching

(* When a search has returned, its operand is settled.                      *)
LEMMA ReturnSettles ==
  ASSUME BuildInv, pc = "done", result = TRUE
  PROVE  /\ isPointer = TRUE =>
              Settled(instList, Slice(store.ptr), AddressSources(Slice(store.ptr)), TRUE)
         /\ isPointer = FALSE => ValueKnown
<1>1. Settled(instList, Slice(root), {v \in Slice(root) : IsSource(v)}, isPointer)
  BY SearchSettles DEF BuildInv
<1>2. isPointer = TRUE => root = store.ptr
  BY DEF BuildInv
<1>3. isPointer = FALSE => root = store.value
  BY DEF BuildInv
<1> QED BY <1>1, <1>2, <1>3, SameSources DEF ValueKnown

(* A step of a search keeps the invariant.                                  *)
LEMMA TraceKeeps ==
  ASSUME BuildInv, Trace
  PROVE  BuildInv'
<1>1. /\ Next /\ phase \in {"ptr", "value"}
      /\ UNCHANGED <<store, phase, btd, interesting, ptr, value>>
  BY DEF Trace
<1>2. UNCHANGED <<ir, isPointer, root>>
  BY <1>1 DEF Next, SkipVisited, VisitInstruction, AbortOnInstruction,
       VisitConstantExpr, AbortOnConstantExpr, VisitGlobal, VisitFunction,
       VisitConstantInt, VisitInert, VisitArgument, Return
<1>3. SearchInv'
  BY <1>1, SearchSteps DEF BuildInv
<1>4. AddressKnown' <=> AddressKnown
  BY <1>1, <1>2 DEF AddressKnown, Settled, Slice, AddressSources, OfKind, ClassOf,
       UsedThroughConstants, IsInstruction, Unhandled
<1>5. Searching
  BY <1>1 DEF BuildInv, Dismissed, Accepted
<1>6. Searching'
  BY <1>1, <1>2, <1>4, <1>5 DEF Searching
<1> QED BY <1>1, <1>2, <1>3, <1>6 DEF BuildInv

(* The second search is one that starts.                                    *)
LEMMA TraceValueKeeps ==
  ASSUME BuildInv, TraceValue
  PROVE  BuildInv'
<1>1. /\ ir' = ir /\ store' = store /\ root' = store.value /\ isPointer' = FALSE
      /\ btd' = instList /\ phase = "ptr" /\ phase' = "value" /\ pc = "done"
      /\ UNCHANGED <<interesting, ptr, value>>
  BY DEF TraceValue
<1>2. store.value \in Values
  BY StoreOperands DEF BuildInv
<1>3. Start(store.value, FALSE)'
  BY DEF TraceValue, Start
<1>4. SearchInv'
  <2>1. ir' \in Programs /\ (\E r \in Values, p \in BOOLEAN : Start(r, p)')
    BY <1>1, <1>2, <1>3 DEF BuildInv
  <2>2. (ir \in Programs /\ (\E r \in Values, p \in BOOLEAN : Start(r, p)) => SearchInv)'
    BY SearchBegins, PTL
  <2> QED BY <2>1, <2>2
<1>5. Searching /\ isPointer = TRUE
  BY <1>1 DEF BuildInv, Searching, Dismissed, Accepted
<1>6. Settled(instList, Slice(store.ptr), AddressSources(Slice(store.ptr)), TRUE)
  <2>1. result = TRUE
    BY DEF TraceValue, BuildInv, SearchInv, VerdictInv, SliceInv, TypeOK
  <2> QED BY <1>1, <1>5, <2>1, ReturnSettles
<1>7. AddressKnown'
  <2>1. /\ Slice(store.ptr)' = Slice(store.ptr)
        /\ AddressSources(Slice(store.ptr))' = AddressSources(Slice(store.ptr))
    BY <1>1 DEF Slice, AddressSources, OfKind
  <2>2. \A u, s : UsedThroughConstants(u, s)' <=> UsedThroughConstants(u, s)
    BY <1>1 DEF UsedThroughConstants, IsInstruction
  <2>3. \A s : ClassOf(s, TRUE)' = ClassOf(s, TRUE)
    BY <1>1 DEF ClassOf
  <2> QED BY <1>1, <1>6, <2>1, <2>2, <2>3 DEF AddressKnown, Settled, Unhandled
<1>8. Searching'
  BY <1>1, <1>5, <1>7 DEF Searching
<1> QED BY <1>1, <1>4, <1>8 DEF BuildInv

(* The steps after a search leave it alone.                                 *)
LEMMA SearchUntouched ==
  ASSUME BuildInv, UNCHANGED <<vars, store, btd>>
  PROVE  /\ SearchInv'
         /\ AddressKnown' <=> AddressKnown
         /\ Unprepared(btd)' <=> Unprepared(btd)
         /\ Unprepared(instList)' <=> Unprepared(instList)
         /\ Prepared(btd)' = Prepared(btd) /\ Prepared(instList)' = Prepared(instList)
         /\ Listed(btd)' = Listed(btd) /\ Listed(instList)' = Listed(instList)
         /\ ir' \in Programs /\ store' \in ir'.stores
         /\ root' = IF isPointer' THEN store'.ptr ELSE store'.value
<1>1. SearchInv'
  BY SearchSteps DEF BuildInv
<1>2. UNCHANGED <<ir, store, btd, instList, root, isPointer>>
  BY DEF vars, search
<1>3. AddressKnown' <=> AddressKnown
  BY <1>2 DEF AddressKnown, Settled, Slice, AddressSources, OfKind, ClassOf,
       UsedThroughConstants, IsInstruction, Unhandled
<1>4. /\ Unprepared(btd)' <=> Unprepared(btd)
      /\ Unprepared(instList)' <=> Unprepared(instList)
  BY <1>2 DEF Unprepared, StackValues
<1>5. Prepared(btd)' = Prepared(btd) /\ Prepared(instList)' = Prepared(instList)
  BY <1>2 DEF Prepared, StackValues, Gadget
<1>6. Listed(btd)' = Listed(btd) /\ Listed(instList)' = Listed(instList)
  BY <1>2 DEF Listed
<1> QED BY <1>1, <1>2, <1>3, <1>4, <1>5, <1>6 DEF BuildInv

(* Every step of the constructor keeps the invariant.                       *)
LEMMA BuildStep ==
  ASSUME BuildInv, [RecordNext]_recordVars
  PROVE  BuildInv'
<1>1. result \in BOOLEAN /\ isPointer \in BOOLEAN
  BY DEF BuildInv, SearchInv, VerdictInv, SliceInv, TypeOK
<1>2. CASE Trace
  BY <1>2, TraceKeeps
<1>3. CASE TraceValue
  BY <1>3, TraceValueKeeps
<1>4. CASE Dismiss
  <2>1. /\ UNCHANGED <<vars, store, btd, interesting, ptr, value>>
        /\ phase \in {"ptr", "value"} /\ pc = "done" /\ result = FALSE /\ phase' = "built"
    BY <1>1, <1>4 DEF Dismiss
  <2>2. Searching
    BY <2>1 DEF BuildInv, Dismissed, Accepted
  <2>3. Dismissed'
    BY <1>1, <2>1, <2>2 DEF Searching, Dismissed, vars, search
  <2> QED BY <2>1, <2>3, SearchUntouched DEF BuildInv
<1>5. CASE Accept
  <2>1. /\ UNCHANGED <<vars, store, btd>>
        /\ phase = "value" /\ pc = "done" /\ result = TRUE /\ phase' = "prepPtr"
        /\ interesting' = TRUE
        /\ ptr' = [ptr EXCEPT !.instList = btd] /\ value' = [value EXCEPT !.instList = instList]
    BY <1>1, <1>5 DEF Accept
  <2>2. Searching
    BY <2>1 DEF BuildInv, Dismissed, Accepted
  <2>3. ptr' = Listed(btd) /\ value' = Listed(instList) /\ AddressKnown /\ isPointer = FALSE
    BY <2>1, <2>2 DEF Searching, Listed
  <2>4. Accepted'
    BY <2>1, <2>3, SearchUntouched DEF Accepted, vars, search
  <2> QED BY <2>1, <2>4, SearchUntouched DEF BuildInv
<1>6. CASE PrepPtr
  <2>1. /\ UNCHANGED <<vars, store, btd, interesting, value>>
        /\ phase = "prepPtr" /\ phase' = "prepValue" /\ ptr' = Prepared(ptr.instList)
    BY <1>6 DEF PrepPtr
  <2>2. Accepted /\ ptr.instList = btd
    BY <2>1 DEF BuildInv, Searching, Dismissed, Accepted, Listed, EmptyResult
  <2>3. Accepted'
    BY <2>1, <2>2, SearchUntouched DEF Accepted, vars, search
  <2> QED BY <2>1, <2>3, SearchUntouched DEF BuildInv
<1>7. CASE PrepValue
  <2>1. /\ UNCHANGED <<vars, store, btd, interesting, ptr>>
        /\ phase = "prepValue" /\ phase' = "built" /\ value' = Prepared(value.instList)
    BY <1>7 DEF PrepValue
  <2>2. Accepted /\ value.instList = instList
    BY <2>1 DEF BuildInv, Searching, Dismissed, Accepted, Listed, EmptyResult
  <2>3. Accepted'
    BY <2>1, <2>2, SearchUntouched DEF Accepted, vars, search
  <2> QED BY <2>1, <2>3, SearchUntouched DEF BuildInv
<1>8. CASE AbortInPrep
  <2>1. /\ UNCHANGED <<vars, store, btd, interesting, ptr, value>> /\ phase' = "exited"
        /\ \/ phase = "prepPtr" /\ Unprepared(ptr.instList)
           \/ phase = "prepValue" /\ Unprepared(value.instList)
    BY <1>8 DEF AbortInPrep
  <2>2. Accepted /\ value = Listed(instList) /\ value.instList = instList
    BY <2>1 DEF BuildInv, Searching, Dismissed, Accepted, Listed, EmptyResult
  <2>3. phase = "prepPtr" => ptr = Listed(btd) /\ ptr.instList = btd
    BY <2>2 DEF Accepted, Listed, EmptyResult
  <2>4. phase = "prepValue" => ptr = Prepared(btd)
    BY <2>2 DEF Accepted
  <2>5. Unprepared(btd) \/ Unprepared(instList)
    BY <2>1, <2>2, <2>3
  <2>6. Accepted'
    BY <2>1, <2>2, <2>3, <2>4, <2>5, SearchUntouched DEF Accepted, vars, search
  <2> QED BY <2>1, <2>6, SearchUntouched DEF BuildInv
<1>9. CASE UNCHANGED recordVars
  <2>1. UNCHANGED <<vars, store, phase, btd, interesting, ptr, value>>
    BY <1>9 DEF recordVars, vars, search
  <2>2. Searching => Searching'
    BY <2>1, SearchUntouched DEF Searching, vars, search
  <2>3. Dismissed => Dismissed'
    BY <2>1 DEF Dismissed, vars, search
  <2>4. Accepted => Accepted'
    BY <2>1, SearchUntouched DEF Accepted, vars, search
  <2> QED BY <2>1, <2>2, <2>3, <2>4, SearchUntouched DEF BuildInv
<1> QED BY <1>2, <1>3, <1>4, <1>5, <1>6, <1>7, <1>8, <1>9 DEF RecordNext

(* BuildInv is an invariant.                                                *)
THEOREM BuildInvariant == RecordSpec => []BuildInv
<1>1. BuildInv /\ [RecordNext]_recordVars => BuildInv'
  BY BuildStep
<1> QED BY BuildInit, <1>1, PTL DEF RecordSpec

------------------------------------------------------------------------------
(* The properties.                                                          *)

(* What Settled says, in the terms of this module.                          *)
LEMMA SettledList ==
  ASSUME NEW list, NEW S, NEW sources, NEW ofAddress \in BOOLEAN,
         Settled(list, S, sources, ofAddress)
  PROVE  /\ {list[i].source : i \in DOMAIN list} = sources
         /\ \A i \in DOMAIN list :
              /\ list[i].type = ClassOf(list[i].source, ofAddress)
              /\ \/ list[i].stack = <<>>
                 \/ \E u \in ToSet(list[i].stack) : UsedThroughConstants(u, list[i].source)
         /\ StackValues(list) \subseteq S
         /\ \A i \in DOMAIN list : list[i].type \in ResultType
         /\ sources # {} \/ (OfKind(S, {"int"}) # {} /\ OfKind(S, {"load"}) # {})
         /\ OfKind(S, {"otherinst", "otherexpr"}) = {}
<1>2. /\ {list[i].source : i \in DOMAIN list} = sources
      /\ \A i \in DOMAIN list :
           /\ list[i].type = ClassOf(list[i].source, ofAddress)
           /\ \/ list[i].stack = <<>>
              \/ \E u \in ToSet(list[i].stack) : UsedThroughConstants(u, list[i].source)
  BY DEF Settled
<1>3. StackValues(list) \subseteq S
  BY DEF Settled, StackValues
<1>4. \A i \in DOMAIN list : list[i].type \in ResultType
  BY DEF Settled, ClassOf, ResultType
<1>5. sources # {} \/ (OfKind(S, {"int"}) # {} /\ OfKind(S, {"load"}) # {})
  BY DEF Settled, OfKind
<1>6. OfKind(S, {"otherinst", "otherexpr"}) = {}
  BY DEF Settled, OfKind, Unhandled
<1> QED BY <1>2, <1>3, <1>4, <1>5, <1>6

(* A gadget kind comes from an instruction of a stack, of the right class.  *)
LEMMA GadgetEvidence ==
  ASSUME NEW list, NEW S, StackValues(list) \subseteq S,
         NEW g \in Prepared(list).gadgetSet
  PROVE  /\ g \in GadgetType
         /\ LET loads == OfKind(S, {"load"})
                evidence == [DEREF |-> loads \cap ir.pointer, MOV |-> loads \ ir.pointer,
                             ARITHMETIC |-> OfKind(S, {"arith"}),
                             LOGICAL |-> OfKind(S, {"logic"}),
                             CONDITIONAL |-> OfKind(S, {"select", "cmp"})]
            IN  evidence[g] # {}
<1>1. PICK v \in StackValues(list) : g \in Gadget(v)
  BY DEF Prepared
<1>2. v \in S
  BY <1>1
<1>3. CASE ir.kind[v] = "load"
  BY <1>1, <1>2, <1>3 DEF Gadget, OfKind, GadgetType
<1>4. CASE ir.kind[v] = "arith"
  BY <1>1, <1>2, <1>4 DEF Gadget, OfKind, GadgetType
<1>5. CASE ir.kind[v] = "logic"
  BY <1>1, <1>2, <1>5 DEF Gadget, OfKind, GadgetType
<1>6. CASE ir.kind[v] \in {"select", "cmp"}
  BY <1>1, <1>2, <1>6 DEF Gadget, OfKind, GadgetType
<1>7. CASE ir.kind[v] \notin {"load", "arith", "logic", "select", "cmp"}
  BY <1>1, <1>7 DEF Gadget
<1> QED BY <1>3, <1>4, <1>5, <1>6, <1>7

(* In an accepted record both lists are known.                              *)
LEMMA BothKnown ==
  ASSUME BuildInv, Accepted
  PROVE  AddressKnown /\ ValueKnown
BY ReturnSettles DEF Accepted

(* The two results of a record: empty, listed or prepared.                  *)
LEMMA ResultShapes ==
  ASSUME BuildInv
  PROVE  /\ ptr = EmptyResult \/ (Accepted /\ ptr \in {Listed(btd), Prepared(btd)})
         /\ value = EmptyResult \/ (Accepted /\ value \in {Listed(instList), Prepared(instList)})
BY DEF BuildInv, Searching, Dismissed, Accepted

(* Each result's sets are empty or those of a list known to be complete.    *)
LEMMA ResultsFromLists ==
  ASSUME BuildInv
  PROVE  /\ \/ ptr.gadgetSet = {} /\ ptr.resultSet = {}
            \/ Accepted /\ ptr = Prepared(btd)
         /\ \/ value.gadgetSet = {} /\ value.resultSet = {}
            \/ Accepted /\ value = Prepared(instList)
         /\ ptr.instList = <<>> \/ (Accepted /\ ptr.instList = btd)
         /\ value.instList = <<>> \/ (Accepted /\ value.instList = instList)
<1>1. /\ EmptyResult.gadgetSet = {} /\ EmptyResult.resultSet = {}
      /\ EmptyResult.instList = <<>>
  BY DEF EmptyResult
<1>2. ASSUME NEW list
      PROVE  /\ Listed(list).gadgetSet = {} /\ Listed(list).resultSet = {}
             /\ Listed(list).instList = list /\ Prepared(list).instList = list
  BY DEF EmptyResult, Listed, Prepared
<1> QED BY <1>1, <1>2, ResultShapes

(* The invariant implies the types.                                         *)
LEMMA BuildTypes == BuildInv => RecordTypeOK
<1> SUFFICES ASSUME BuildInv PROVE RecordTypeOK
  OBVIOUS
<1>1. TypeOK
  BY DEF BuildInv, SearchInv, VerdictInv, SliceInv
<1>2. ASSUME NEW list, NEW S, NEW sources, NEW ofAddress \in BOOLEAN,
             Settled(list, S, sources, ofAddress)
      PROVE  /\ \A i \in DOMAIN list : list[i].type \in ResultType
             /\ Prepared(list).resultSet \subseteq ResultType
             /\ Prepared(list).gadgetSet \subseteq GadgetType
  <2>1. StackValues(list) \subseteq S /\ \A i \in DOMAIN list : list[i].type \in ResultType
    BY <1>2, SettledList
  <2> QED BY <2>1, GadgetEvidence DEF Prepared
<1>3. Accepted =>
        /\ \A i \in DOMAIN btd : btd[i].type \in ResultType
        /\ Prepared(btd).resultSet \subseteq ResultType
        /\ Prepared(btd).gadgetSet \subseteq GadgetType
        /\ \A i \in DOMAIN instList : instList[i].type \in ResultType
        /\ Prepared(instList).resultSet \subseteq ResultType
        /\ Prepared(instList).gadgetSet \subseteq GadgetType
  BY <1>2, BothKnown DEF AddressKnown, ValueKnown
<1>4. ASSUME NEW r \in {ptr, value}
      PROVE  /\ \A i \in DOMAIN r.instList : r.instList[i].type \in ResultType
             /\ r.resultSet \subseteq ResultType
             /\ r.gadgetSet \subseteq GadgetType
  <2>1. DOMAIN <<>> = {}
    OBVIOUS
  <2>2. CASE r = ptr
    BY <1>3, <2>1, <2>2, ResultsFromLists
  <2>3. CASE r = value
    BY <1>3, <2>1, <2>3, ResultsFromLists
  <2> QED BY <2>2, <2>3
<1> QED BY <1>1, <1>4 DEF RecordTypeOK, BuildInv, Searching, Dismissed, Accepted

(* A record is well typed at every step of its construction.                *)
THEOREM RecordTypeCorrect == RecordSpec => []RecordTypeOK
BY BuildInvariant, BuildTypes, PTL

(* A store is dropped only when one of its two slices holds no source, and  *)
(* kept only when each holds one, or a literal next to a load.              *)
THEOREM RecordVerdictCorrect == RecordSpec => []VerdictMatchesBothSlices
<1>1. BuildInv => VerdictMatchesBothSlices
  <2> SUFFICES ASSUME BuildInv PROVE VerdictMatchesBothSlices
    OBVIOUS
  <2>1. ASSUME phase = "built", ~interesting
        PROVE  AddressSources(Slice(store.ptr)) = {} \/ ValueSources(Slice(store.value)) = {}
    <3>1. Dismissed
      BY <2>1 DEF BuildInv, Searching, Accepted
    <3>2. {v \in Slice(root) : IsSource(v)} = {}
      BY <3>1, SearchSettles DEF BuildInv, Dismissed
    <3>3. CASE isPointer = TRUE
      <4>1. root = store.ptr
        BY <3>3 DEF BuildInv
      <4> QED BY <3>2, <3>3, <4>1, SameSources
    <3>4. CASE isPointer = FALSE
      <4>1. root = store.value
        BY <3>4 DEF BuildInv
      <4> QED BY <3>2, <3>4, <4>1, SameSources
    <3> QED BY <3>1, <3>3, <3>4 DEF Dismissed
  <2>2. ASSUME interesting
        PROVE  LET p == Slice(store.ptr)
                   v == Slice(store.value)
                   literal(S) == OfKind(S, {"int"}) # {} /\ OfKind(S, {"load"}) # {}
               IN  /\ AddressSources(p) # {} \/ literal(p)
                   /\ ValueSources(v) # {} \/ literal(v)
    <3>1. Accepted
      BY <2>2 DEF BuildInv, Searching, Dismissed
    <3>2. AddressKnown /\ ValueKnown
      BY <3>1, BothKnown
    <3> QED BY <3>2, SettledList DEF AddressKnown, ValueKnown
  <2> QED BY <2>1, <2>2 DEF VerdictMatchesBothSlices
<1> QED BY BuildInvariant, <1>1, PTL

(* A gadget kind is reported only if an instruction of the slice stands for *)
(* it.                                                                      *)
THEOREM GadgetsCorrect == RecordSpec => []GadgetsComeFromSlice
<1>1. BuildInv => GadgetsComeFromSlice
  <2> SUFFICES ASSUME BuildInv PROVE GadgetsComeFromSlice
    OBVIOUS
  <2> DEFINE evidence(S) ==
        [DEREF |-> OfKind(S, {"load"}) \cap ir.pointer, MOV |-> OfKind(S, {"load"}) \ ir.pointer,
         ARITHMETIC |-> OfKind(S, {"arith"}), LOGICAL |-> OfKind(S, {"logic"}),
         CONDITIONAL |-> OfKind(S, {"select", "cmp"})]
  <2>1. \A g \in ptr.gadgetSet : evidence(Slice(store.ptr))[g] # {}
    <3> SUFFICES ASSUME NEW g \in ptr.gadgetSet PROVE evidence(Slice(store.ptr))[g] # {}
      OBVIOUS
    <3>1. ptr = Prepared(btd) /\ Accepted
      BY ResultsFromLists
    <3>2. StackValues(btd) \subseteq Slice(store.ptr)
      BY <3>1, BothKnown, SettledList DEF AddressKnown
    <3> QED BY <3>1, <3>2, GadgetEvidence
  <2>2. \A g \in value.gadgetSet : evidence(Slice(store.value))[g] # {}
    <3> SUFFICES ASSUME NEW g \in value.gadgetSet PROVE evidence(Slice(store.value))[g] # {}
      OBVIOUS
    <3>1. value = Prepared(instList) /\ Accepted
      BY ResultsFromLists
    <3>2. StackValues(instList) \subseteq Slice(store.value)
      BY <3>1, BothKnown, SettledList DEF ValueKnown
    <3> QED BY <3>1, <3>2, GadgetEvidence
  <2>3. ASSUME NEW r \in {<<ptr, store.ptr>>, <<value, store.value>>}
        PROVE  \A g \in r[1].gadgetSet : evidence(Slice(r[2]))[g] # {}
    <3> HIDE DEF evidence
    <3>1. CASE r = <<ptr, store.ptr>>
      BY <2>1, <3>1
    <3>2. CASE r = <<value, store.value>>
      BY <2>2, <3>2
    <3> QED BY <3>1, <3>2
  <2> QED BY <2>3 DEF GadgetsComeFromSlice
<1> QED BY BuildInvariant, <1>1, PTL

(* A finished record names the classes of the sources in the slices and no  *)
(* other, lists each source under its own, and has the gadget kinds of an   *)
(* instruction that uses it.                                                *)
THEOREM CoverageCorrect == RecordSpec => []ReportCoversEverySource
<1>1. BuildInv => ReportCoversEverySource
  <2> SUFFICES ASSUME BuildInv, phase = "built", interesting PROVE ReportCoversEverySource
    BY DEF ReportCoversEverySource
  <2>1. Accepted /\ ptr = Prepared(btd) /\ value = Prepared(instList)
    BY DEF BuildInv, Searching, Dismissed, Accepted
  <2>2. ASSUME NEW list, NEW S, NEW sources, NEW ofAddress \in BOOLEAN,
               Settled(list, S, sources, ofAddress)
        PROVE  Covers(Prepared(list), sources, ofAddress)
    <3>1. /\ Prepared(list).instList = list
          /\ Prepared(list).resultSet = {list[i].type : i \in DOMAIN list}
      BY DEF Prepared
    <3>2. /\ {list[i].source : i \in DOMAIN list} = sources
          /\ \A i \in DOMAIN list :
               /\ list[i].type = ClassOf(list[i].source, ofAddress)
               /\ \/ list[i].stack = <<>>
                  \/ \E u \in ToSet(list[i].stack) : UsedThroughConstants(u, list[i].source)
      BY <2>2, SettledList
    <3>3. {list[i].type : i \in DOMAIN list} = {ClassOf(s, ofAddress) : s \in sources}
      BY <3>2
    <3>4. \A i \in DOMAIN list : \A u \in ToSet(list[i].stack) :
            Gadget(u) \subseteq Prepared(list).gadgetSet
      BY DEF Prepared, StackValues
    <3> QED BY <3>1, <3>2, <3>3, <3>4 DEF Covers
  <2>3. Covers(ptr, AddressSources(Slice(store.ptr)), TRUE)
        /\ Covers(value, ValueSources(Slice(store.value)), FALSE)
    BY <2>1, <2>2, BothKnown DEF AddressKnown, ValueKnown
  <2> QED BY <2>3 DEF ReportCoversEverySource
<1> QED BY BuildInvariant, <1>1, PTL

(* opt dies only on what the code cannot handle, and nothing that depends   *)
(* on such an instruction is reported.                                      *)
THEOREM ExitsCorrect == RecordSpec => []ExitsOnlyOnUnhandled
<1>1. BuildInv => ExitsOnlyOnUnhandled
  <2> SUFFICES ASSUME BuildInv PROVE ExitsOnlyOnUnhandled
    OBVIOUS
  <2> DEFINE both == Slice(store.ptr) \cup Slice(store.value)
  <2>1. pc = "exited" => OfKind(both, {"otherinst", "otherexpr"}) # {}
    <3> SUFFICES ASSUME pc = "exited" PROVE OfKind(both, {"otherinst", "otherexpr"}) # {}
      OBVIOUS
    <3>1. PICK v \in Slice(root) : ir.kind[v] \in Unhandled
      BY SearchSettles DEF BuildInv
    <3>2. root = store.ptr \/ root = store.value
      BY DEF BuildInv
    <3> QED BY <3>1, <3>2, SameSources DEF OfKind, Unhandled
  <2>2. ASSUME Accepted
        PROVE  /\ StackValues(btd) \subseteq Slice(store.ptr)
               /\ StackValues(instList) \subseteq Slice(store.value)
               /\ OfKind(both, {"otherinst", "otherexpr"}) = {}
    <3>1. /\ StackValues(btd) \subseteq Slice(store.ptr)
          /\ OfKind(Slice(store.ptr), {"otherinst", "otherexpr"}) = {}
      BY <2>2, BothKnown, SettledList DEF AddressKnown
    <3>2. /\ StackValues(instList) \subseteq Slice(store.value)
          /\ OfKind(Slice(store.value), {"otherinst", "otherexpr"}) = {}
      BY <2>2, BothKnown, SettledList DEF ValueKnown
    <3> QED BY <3>1, <3>2 DEF OfKind
  <2>3. phase = "exited" => OfKind(both, {"otherunary"}) # {}
    <3> SUFFICES ASSUME phase = "exited" PROVE OfKind(both, {"otherunary"}) # {}
      OBVIOUS
    <3>1. Accepted /\ (Unprepared(btd) \/ Unprepared(instList))
      BY DEF BuildInv, Searching, Dismissed, Accepted
    <3> QED BY <2>2, <3>1 DEF Unprepared, OfKind
  <2>4. interesting => Accepted
    BY DEF BuildInv, Searching, Dismissed
  <2> QED BY <2>1, <2>2, <2>3, <2>4 DEF ExitsOnlyOnUnhandled
<1> QED BY BuildInvariant, <1>1, PTL
==============================================================================
