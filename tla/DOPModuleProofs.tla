--------------------------- MODULE DOPModuleProofs ---------------------------
(***************************************************************************)
(* Theorems about two parts of DOPModule that share no state: the walk to   *)
(* callers of CallerWalk, for every set of functions, well-formed module    *)
(* and list of names, and the output of Report, for any stores and any map  *)
(* of records to them: the counters under the header, the rows of           *)
(* printSource and printDetail.  The map may be infinite; only the part     *)
(* already walked is shown to be finite, a store at a time, which is what   *)
(* counting it takes.                                                       *)
(***************************************************************************)
EXTENDS CallerWalk, Report, SequenceLemmas, FiniteSetTheorems

------------------------------------------------------------------------------
(* The loop over the users of a function.                                   *)

(* The loop of CallingFuncs, over any vector of users: it has a result      *)
(* after every user, which holds the parents of the calls met so far.       *)
Pushes(users, p) ==
    p = [n \in 0..Len(users) |->
            IF n = 0 THEN <<>>
            ELSE IF users[n].kind = "call" THEN Append(p[n - 1], users[n].parent)
            ELSE p[n - 1]]

(* Induction on the number of users looked at: the results so far can be    *)
(* extended by one.                                                         *)
LEMMA PushesExists ==
  ASSUME NEW users \in Seq(Users)
  PROVE  \E p : Pushes(users, p)
<1> DEFINE N == Len(users)
           Body(p, n) == IF n = 0 THEN <<>>
                         ELSE IF users[n].kind = "call"
                              THEN Append(p[n - 1], users[n].parent)
                              ELSE p[n - 1]
           T == {m \in 0..N : \E p : p = [n \in 0..m |-> Body(p, n)]}
<1>1. N \in Nat
  BY LenProperties
<1>2. 0 \in T
  <2> DEFINE q == [n \in 0..0 |-> <<>>]
  <2>1. \A n \in 0..0 : Body(q, n) = <<>>
    OBVIOUS
  <2>2. q = [n \in 0..0 |-> Body(q, n)]
    <3> HIDE DEF Body
    <3> QED BY <2>1
  <2> HIDE DEF q, Body
  <2> QED BY <2>2, <1>1
<1>3. ASSUME NEW m \in 1..N, m - 1 \in T PROVE m \in T
  <2>1. PICK p : p = [n \in 0..(m - 1) |-> Body(p, n)]
    BY <1>3
  <2> DEFINE q == [n \in 0..m |-> IF n = m THEN Body(p, m) ELSE p[n]]
  <2>2. ASSUME NEW n \in 0..m PROVE q[n] = Body(q, n)
    <3>1. CASE n = 0
      <4>1. 0 \in 0..(m - 1) /\ 0 # m
        BY <1>1
      <4>2. p[0] = <<>>
        BY <2>1, <4>1
      <4> QED BY <3>1, <4>1, <4>2
    <3>2. CASE n # 0
      <4>1. n - 1 \in 0..(m - 1) /\ n - 1 # m /\ n - 1 \in 0..m
        BY <3>2, <1>1
      <4>2. q[n - 1] = p[n - 1]
        BY <4>1
      <4>3. Body(q, n) = Body(p, n)
        BY <3>2, <4>2
      <4>4. n # m => n \in 0..(m - 1)
        BY <1>1
      <4>5. n # m => p[n] = Body(p, n)
        <5> HIDE DEF Body
        <5> QED BY <2>1, <4>4
      <4>6. q[n] = Body(p, n)
        <5> HIDE DEF Body
        <5> QED BY <4>5
      <4> QED BY <4>3, <4>6
    <3> QED BY <3>1, <3>2
  <2>3. q = [n \in 0..m |-> Body(q, n)]
    <3>1. q = [n \in 0..m |-> q[n]]
      OBVIOUS
    <3> HIDE DEF q, Body
    <3> QED BY <2>2, <3>1
  <2> HIDE DEF q, Body
  <2> QED BY <2>3, <1>1
<1>4. N \in T
  <2> HIDE DEF T
  <2>1. 0..N \subseteq T
    BY <1>1, <1>2, <1>3, PrefixInduction
  <2> QED BY <1>1, <2>1
<1> QED BY <1>4 DEF Pushes

(* CallingFuncs is the last of those results.                               *)
LEMMA CallingFuncsPushes ==
  ASSUME NEW g, module.users[g] \in Seq(Users)
  PROVE  \E p : Pushes(module.users[g], p) /\ CallingFuncs(g) = p[Len(module.users[g])]
<1> DEFINE users == module.users[g]
           q == CHOOSE p : Pushes(users, p)
<1>1. Pushes(users, q)
  <2>1. \E p : Pushes(users, p)
    BY PushesExists
  <2> QED BY <2>1
<1>2. CallingFuncs(g) = q[Len(users)]
  BY DEF CallingFuncs, Pushes
<1> QED BY <1>1, <1>2

(* It is a vector of functions, and holds exactly the callers of g: by      *)
(* induction, each result holds the parents of the calls among the users    *)
(* looked at.                                                               *)
LEMMA CallingFuncsCorrect ==
  ASSUME NEW g, module.users[g] \in Seq(Users)
  PROVE  /\ CallingFuncs(g) \in Seq(Functions)
         /\ ToSet(CallingFuncs(g)) = Callers(g)
<1> DEFINE users == module.users[g]
           N == Len(users)
           Parents(m) == {users[j].parent : j \in {x \in 1..m : users[x].kind = "call"}}
<1>1. PICK p : Pushes(users, p) /\ CallingFuncs(g) = p[N]
  BY CallingFuncsPushes
<1>2. N \in Nat /\ DOMAIN users = 1..N
  BY LenProperties
<1>3. \A j \in 1..N : users[j] \in Users /\ users[j].parent \in Functions
  <2>1. \A j \in 1..N : users[j] \in Users
    BY ElementOfSeq
  <2> QED BY <2>1 DEF Users
<1> DEFINE Good(m) == p[m] \in Seq(Functions) /\ ToSet(p[m]) = Parents(m)
           T == {m \in 0..N : Good(m)}
<1>4. 0 \in T
  <2>1. p[0] = <<>>
    BY <1>1, <1>2 DEF Pushes
  <2>2. Parents(0) = {} /\ ToSet(<<>>) = {}
    BY DEF ToSet
  <2>3. <<>> \in Seq(Functions)
    OBVIOUS
  <2> HIDE DEF Parents
  <2>4. Good(0)
    BY <2>1, <2>2, <2>3
  <2> QED BY <2>4, <1>2
<1>5. ASSUME NEW m \in 1..N, m - 1 \in T PROVE m \in T
  <2>1. m - 1 \in 0..N /\ m \in 0..N /\ m # 0 /\ Good(m - 1)
    BY <1>2, <1>5
  <2>2. p[m] = IF users[m].kind = "call" THEN Append(p[m - 1], users[m].parent)
               ELSE p[m - 1]
    BY <1>1, <2>1 DEF Pushes
  <2>3. 1..m = (1..(m - 1)) \cup {m}
    BY <1>2
  <2>4. CASE users[m].kind = "call"
    <3>1. Parents(m) = Parents(m - 1) \cup {users[m].parent}
      BY <2>3, <2>4
    <3>2. p[m] = Append(p[m - 1], users[m].parent)
      BY <2>2, <2>4
    <3> HIDE DEF Parents
    <3>3. p[m] \in Seq(Functions) /\ ToSet(p[m]) = ToSet(p[m - 1]) \cup {users[m].parent}
      BY <2>1, <3>2, <1>3, AppendContents
    <3> QED BY <2>1, <3>1, <3>3
  <2>5. CASE users[m].kind # "call"
    <3>1. Parents(m) = Parents(m - 1)
      BY <2>3, <2>5
    <3>2. p[m] = p[m - 1]
      BY <2>2, <2>5
    <3> HIDE DEF Parents
    <3> QED BY <2>1, <3>1, <3>2
  <2> QED BY <2>4, <2>5
<1>6. Good(N)
  <2> HIDE DEF Good
  <2>1. 0..N \subseteq T
    <3> HIDE DEF T
    <3> QED BY <1>2, <1>4, <1>5, PrefixInduction
  <2> QED BY <1>2, <2>1
<1>7. Parents(N) = Callers(g)
  BY <1>2 DEF Callers, ToSet
<1> HIDE DEF Parents
<1> QED BY <1>1, <1>6, <1>7

------------------------------------------------------------------------------
(* Type correctness.                                                        *)

WellTyped == module \in Modules /\ TypeOK

(* What the assumption on modules says of the module walked.                *)
LEMMA ModuleFacts ==
  ASSUME module \in Modules
  PROVE  /\ module.named \subseteq Functions
         /\ module.defined \subseteq Functions
         /\ NoFunction \notin module.defined
         /\ \A g \in Functions : /\ module.users[g] \in Seq(Users)
                                 /\ Callers(g) \subseteq module.defined
<1>1. IsModule(module)
  BY ModulesAssumption
<1>2. module.named \subseteq Functions /\ module.defined \subseteq Functions
  BY <1>1 DEF IsModule
<1>3. \A g \in Functions : module.users[g] \in Seq(Users)
  BY <1>1 DEF IsModule
<1>4. \A g \in Functions : Callers(g) \subseteq module.defined
  BY <1>1 DEF IsModule, Callers
<1> QED BY <1>2, <1>3, <1>4, NoFunctionAssumption

(* The function that a visit takes off the stack, and what is left.         *)
LEMMA Popped ==
  ASSUME WellTyped, worklist # <<>>
  PROVE  /\ F \in Functions \cup {NoFunction}
         /\ Rest \in Seq(Functions \cup {NoFunction})
         /\ ToSet(worklist) = ToSet(Rest) \cup {F}
BY PopProperties, PopContents DEF WellTyped, TypeOK, F, Rest

(* What a visit pushes.                                                     *)
LEMMA Pushed ==
  ASSUME WellTyped, worklist # <<>>, F \in module.defined
  PROVE  /\ Rest \o CallingFuncs(F) \in Seq(Functions \cup {NoFunction})
         /\ ToSet(Rest \o CallingFuncs(F)) = ToSet(Rest) \cup Callers(F)
<1>1. module \in Modules /\ F \in Functions
  BY ModuleFacts DEF WellTyped
<1>2. CallingFuncs(F) \in Seq(Functions) /\ ToSet(CallingFuncs(F)) = Callers(F)
  BY <1>1, ModuleFacts, CallingFuncsCorrect
<1>3. CallingFuncs(F) \in Seq(Functions \cup {NoFunction})
  BY <1>2
<1> QED BY <1>2, <1>3, Popped, ConcatContents

(* Every step keeps the walk well typed.                                    *)
LEMMA TypeStep ==
  ASSUME WellTyped, [Next]_vars
  PROVE  WellTyped'
<1> USE DEF WellTyped, TypeOK
<1>0. Len(vulnFuncList) \in Nat
  BY LenProperties
<1>1. CASE SkipEmpty
  BY <1>0, <1>1 DEF SkipEmpty, Choosing
<1>2. CASE Start
  <2>1. getFunction(vulnFuncList[taken + 1]) \in Functions \cup {NoFunction}
    BY ModuleFacts DEF getFunction
  <2>2. worklist' \in Seq(Functions \cup {NoFunction})
    BY <1>2, <2>1 DEF Start
  <2>3. taken' \in 0..Len(vulnFuncList')
    BY <1>0, <1>2 DEF Start, Choosing
  <2> QED BY <1>2, <2>2, <2>3 DEF Start
<1>3. CASE Skip
  BY <1>3, Popped DEF Skip, Walking
<1>4. CASE Visit
  BY <1>4, Pushed DEF Visit, Walking
<1>5. CASE EndWalk
  BY <1>5 DEF EndWalk
<1>6. CASE Exit
  BY <1>6 DEF Exit
<1>7. CASE UNCHANGED vars
  BY <1>7 DEF vars
<1> QED BY <1>1, <1>2, <1>3, <1>4, <1>5, <1>6, <1>7 DEF Next

(* The walk starts well typed.                                              *)
LEMMA TypeInit ==
  ASSUME Init
  PROVE  WellTyped
<1>1. vulnFuncList \in Seq(Functions \cup {EmptyLine})
  BY ListsAssumption DEF Init
<1>2. Len(vulnFuncList) \in Nat
  BY <1>1, LenProperties
<1> QED BY <1>1, <1>2 DEF Init, WellTyped, TypeOK

(* The names, the walk and its set are well typed in every state.           *)
THEOREM TypeCorrect == Spec => []TypeOK
<1>1. Init => WellTyped
  BY TypeInit
<1>2. WellTyped /\ [Next]_vars => WellTyped'
  BY TypeStep
<1>3. WellTyped => TypeOK
  BY DEF WellTyped
<1> QED BY <1>1, <1>2, <1>3, PTL DEF Spec

------------------------------------------------------------------------------
(* The walk finds exactly the functions that reach the named one by calls.  *)

(* During the walk for a name: nothing visited or waiting with a body is    *)
(* out of reach, and what must be visited is visited or waits.              *)
WalkInv ==
    taken > 0 /\ vulnFuncList[taken] # EmptyLine =>
        /\ visited \subseteq Search!Reach
        /\ ToSet(worklist) \cap module.defined \subseteq Search!Reach
        /\ {Walked} \cap module.defined \subseteq visited \cup ToSet(worklist)
        /\ \A v \in visited : Callers(v) \subseteq visited \cup ToSet(worklist)

Walks == status = "walking" => taken > 0 /\ vulnFuncList[taken] # EmptyLine

Inv == WellTyped /\ Walks /\ WalkInv

(* What is reached from where the walk starts, and over one call.           *)
LEMMA ReachProperties ==
  ASSUME module \in Modules
  PROVE  /\ {Walked} \cap module.defined \subseteq Search!Reach
         /\ \A v \in Search!Reach : Callers(v) \subseteq Search!Reach
<1>1. {Walked} \cap module.defined \subseteq Search!Reach
  BY ModuleFacts DEF Search!Reach
<1>2. ASSUME NEW v \in Search!Reach PROVE Callers(v) \subseteq Search!Reach
  <2>1. v \in Functions /\ Callers(v) \subseteq Functions
    BY ModuleFacts DEF Search!Reach
  <2>2. ASSUME NEW u \in Callers(v), NEW S \in SUBSET Functions,
               {Walked} \cap module.defined \subseteq S, Search!ClosedSet(S)
        PROVE  u \in S
    <3>1. v \in S
      BY <2>2 DEF Search!Reach
    <3> QED BY <2>1, <2>2, <3>1 DEF Search!ClosedSet
  <2> QED BY <2>1, <2>2 DEF Search!Reach
<1> QED BY <1>1, <1>2

(* A closed set around the start holds all that is reached.                 *)
LEMMA ReachLeast ==
  ASSUME module \in Modules, visited \subseteq Functions,
         {Walked} \cap module.defined \subseteq visited,
         \A v \in visited : Callers(v) \subseteq visited
  PROVE  Search!Reach \subseteq visited
<1>1. Search!ClosedSet(visited)
  BY DEF Search!ClosedSet
<1> QED BY <1>1 DEF Search!Reach

(* A step that stays with one name searches the same graph.                 *)
LEMMA SameSearch ==
  ASSUME UNCHANGED <<module, vulnFuncList, taken>>
  PROVE  /\ Search!Reach' = Search!Reach
         /\ Walked' = Walked
         /\ \A v : Callers(v)' = Callers(v)
<1>1. Walked' = Walked /\ \A v : Callers(v)' = Callers(v)
  BY DEF Walked, getFunction, Callers
<1> QED BY <1>1 DEF Search!Reach, Search!ClosedSet

(* The start of a walk: only the named function waits.                      *)
LEMMA WalkStart ==
  ASSUME WellTyped, Start
  PROVE  (Walks /\ WalkInv)'
<1>1. taken \in Nat /\ taken' = taken + 1 /\ taken' > 0 /\ vulnFuncList' = vulnFuncList
      /\ vulnFuncList[taken + 1] # EmptyLine /\ module' = module
  <2>1. Len(vulnFuncList) \in Nat
    BY LenProperties DEF WellTyped, TypeOK
  <2> QED BY <2>1 DEF WellTyped, TypeOK, Start
<1>2. Walked' = getFunction(vulnFuncList[taken + 1])
  BY <1>1 DEF Walked, getFunction
<1>3. worklist' = <<Walked'>> /\ visited' = {}
  BY <1>2 DEF Start
<1>4. ToSet(worklist') = {Walked'}
  <2> DEFINE w == Walked'
  <2> HIDE DEF w
  <2>1. ToSet(<<w>>) = {w}
    BY DEF ToSet
  <2> QED BY <2>1, <1>3 DEF w
<1>5. ({Walked} \cap module.defined \subseteq Search!Reach)'
  <2>1. module' \in Modules
    BY <1>1 DEF WellTyped
  <2>2. (module \in Modules => {Walked} \cap module.defined \subseteq Search!Reach)'
    BY ReachProperties, PTL
  <2> QED BY <2>1, <2>2
<1> QED BY <1>1, <1>3, <1>4, <1>5 DEF Walks, WalkInv

(* A function without a body, or visited before, leaves the stack.          *)
LEMMA WalkSkip ==
  ASSUME Inv, Skip
  PROVE  (Walks /\ WalkInv)'
<1>1. ToSet(worklist) = ToSet(worklist') \cup {F}
  BY Popped DEF Inv, Skip, Walking
<1>2. UNCHANGED <<module, vulnFuncList, taken, visited, status>>
  BY DEF Skip
<1>3. F \in visited \/ F \notin module.defined
  BY ModuleFacts DEF Skip, Inv, WellTyped
<1>4. /\ visited \subseteq Search!Reach
      /\ ToSet(worklist) \cap module.defined \subseteq Search!Reach
      /\ {Walked} \cap module.defined \subseteq visited \cup ToSet(worklist)
      /\ \A v \in visited : Callers(v) \subseteq visited \cup ToSet(worklist)
  BY DEF Inv, Walks, WalkInv, Skip, Walking
<1>5. \A v \in visited : Callers(v) \subseteq module.defined
  BY ModuleFacts DEF Inv, WellTyped, TypeOK
<1>6. \A v \in visited : Callers(v) \subseteq visited \cup ToSet(worklist')
  BY <1>1, <1>3, <1>4, <1>5
<1>7. {Walked} \cap module.defined \subseteq visited \cup ToSet(worklist')
  BY <1>1, <1>3, <1>4
<1> QED BY <1>1, <1>2, <1>4, <1>6, <1>7, SameSearch DEF Inv, Walks, WalkInv

(* A function visited leaves the stack and its callers are put on it.       *)
LEMMA WalkVisit ==
  ASSUME Inv, Visit
  PROVE  (Walks /\ WalkInv)'
<1>1. F \in module.defined
  BY DEF Visit
<1>2. /\ ToSet(worklist) = ToSet(Rest) \cup {F}
      /\ ToSet(worklist') = ToSet(Rest) \cup Callers(F)
  BY <1>1, Popped, Pushed DEF Inv, Visit, Walking
<1>3. UNCHANGED <<module, vulnFuncList, taken, status>> /\ visited' = visited \cup {F}
  BY DEF Visit
<1>4. /\ visited \subseteq Search!Reach
      /\ ToSet(worklist) \cap module.defined \subseteq Search!Reach
      /\ {Walked} \cap module.defined \subseteq visited \cup ToSet(worklist)
      /\ \A v \in visited : Callers(v) \subseteq visited \cup ToSet(worklist)
  BY DEF Inv, Walks, WalkInv, Visit, Walking
<1>5. F \in Search!Reach
  BY <1>1, <1>2, <1>4
<1>6. Callers(F) \subseteq Search!Reach
  BY <1>5, ReachProperties DEF Inv, WellTyped
<1>7. visited' \subseteq Search!Reach
  BY <1>3, <1>4, <1>5
<1>8. ToSet(worklist') \cap module.defined \subseteq Search!Reach
  BY <1>2, <1>4, <1>6
<1>9. {Walked} \cap module.defined \subseteq visited' \cup ToSet(worklist')
  BY <1>2, <1>3, <1>4
<1>10. \A v \in visited' : Callers(v) \subseteq visited' \cup ToSet(worklist')
  BY <1>2, <1>3, <1>4
<1> QED BY <1>3, <1>7, <1>8, <1>9, <1>10, SameSearch DEF Inv, Walks, WalkInv

(* Every step keeps the walk's invariant.                                   *)
LEMMA WalkStep ==
  ASSUME Inv, [Next]_vars
  PROVE  Inv'
<1>1. WellTyped'
  BY TypeStep DEF Inv
<1>2. CASE SkipEmpty
  <2>1. taken \in Nat /\ taken' = taken + 1 /\ vulnFuncList' = vulnFuncList /\ status' = "choosing"
    <3>1. Len(vulnFuncList) \in Nat
      BY LenProperties DEF Inv, WellTyped, TypeOK
    <3> QED BY <3>1, <1>2 DEF Inv, WellTyped, TypeOK, SkipEmpty, Choosing
  <2>2. vulnFuncList'[taken'] = EmptyLine
    BY <2>1, <1>2 DEF SkipEmpty
  <2> QED BY <1>1, <2>1, <2>2 DEF Inv, Walks, WalkInv
<1>3. CASE Start
  BY <1>1, <1>3, WalkStart DEF Inv
<1>4. CASE Skip
  BY <1>1, <1>4, WalkSkip DEF Inv
<1>5. CASE Visit
  BY <1>1, <1>5, WalkVisit DEF Inv
<1>6. CASE EndWalk \/ Exit \/ UNCHANGED vars
  <2>1. UNCHANGED <<module, vulnFuncList, taken, worklist, visited>>
    BY <1>6 DEF EndWalk, Exit, vars
  <2>2. WalkInv'
    BY <2>1, SameSearch DEF Inv, WalkInv
  <2>3. Walks'
    BY <1>6, <2>1 DEF Inv, Walks, EndWalk, Exit, vars
  <2> QED BY <1>1, <2>2, <2>3 DEF Inv
<1> QED BY <1>2, <1>3, <1>4, <1>5, <1>6 DEF Next

(* Between walks the stack is empty, so what is visited is closed.          *)
LEMMA InvExact ==
  ASSUME Inv
  PROVE  VisitedIsExact
<1>1. SUFFICES ASSUME taken > 0, vulnFuncList[taken] # EmptyLine
               PROVE  Search!Exact
  BY DEF VisitedIsExact
<1>2. visited \subseteq Search!Reach
  BY <1>1 DEF Inv, WalkInv
<1>3. ASSUME status # "walking" PROVE Search!Reach \subseteq visited
  <2>1. ToSet(worklist) = {}
    BY <1>3 DEF Inv, WellTyped, TypeOK, ToSet
  <2>2. visited \subseteq Functions
    BY ModuleFacts DEF Inv, WellTyped, TypeOK
  <2>3. /\ {Walked} \cap module.defined \subseteq visited
        /\ \A v \in visited : Callers(v) \subseteq visited
    BY <1>1, <2>1 DEF Inv, WalkInv
  <2> QED BY <2>2, <2>3, ReachLeast DEF Inv, WellTyped
<1> QED BY <1>2, <1>3 DEF Search!Exact

(* Between walks, visited is exactly the set of functions with a body from  *)
(* which calls lead to the last function taken up, and never more during a  *)
(* walk: for every module, cyclic calls included, and every list of names.  *)
THEOREM WalkExact == Spec => []VisitedIsExact
<1>1. Init => Inv
  BY TypeInit DEF Init, Inv, Walks, WalkInv
<1>2. Inv /\ [Next]_vars => Inv'
  BY WalkStep
<1>3. Inv => VisitedIsExact
  BY InvExact
<1> QED BY <1>1, <1>2, <1>3, PTL DEF Spec

------------------------------------------------------------------------------
(* The lines of some rows, each its own but the first, which ends line l.   *)
RowLines(l, rows) == [k \in DOMAIN rows |-> IF k = 1 THEN Append(l, rows[1]) ELSE <<rows[k]>>]

(* A line that is going on takes the first of some rows, and each of the    *)
(* others has a line of its own: laid end to end, all follow each other.    *)
LEMMA FlattenRows ==
  ASSUME NEW S, NEW ls \in SeqOfSeq(S), NEW l \in Seq(S), NEW rows \in Seq(S), rows # <<>>
  PROVE  /\ RowLines(l, rows) \in SeqOfSeq(S) /\ Len(RowLines(l, rows)) = Len(rows)
         /\ FlattenSeq(ls \o RowLines(l, rows)) = FlattenSeq(ls) \o (l \o rows)
<1>a. ASSUME NEW a \in SeqOfSeq(S), NEW r \in Seq(S), NEW x \in Seq(S)
      PROVE  FlattenSeq(ls \o a) = FlattenSeq(ls) \o (l \o r)
               => FlattenSeq(ls \o Append(a, x)) = FlattenSeq(ls) \o (l \o (r \o x))
  <2>1. FlattenSeq(ls \o Append(a, x)) = FlattenSeq(ls \o a) \o x
    BY FlattenConcatAppend, SMTT(20)
  <2>2. FlattenSeq(ls) \in Seq(S)
    <3>1. <<>> \in Seq(S)
      OBVIOUS
    <3> QED BY <3>1, FlattenAppend DEF SeqOfSeq
  <2>3. l \o r \in Seq(S) /\ (l \o r) \o x = l \o (r \o x)
    BY ConcatProperties, ConcatAssociative
  <2>4. (FlattenSeq(ls) \o (l \o r)) \o x = FlattenSeq(ls) \o ((l \o r) \o x)
    <3> DEFINE f == FlattenSeq(ls)
               lr == l \o r
    <3>1. f \in Seq(S) /\ lr \in Seq(S)
      BY <2>2, <2>3
    <3> HIDE DEF f, lr
    <3>2. (f \o lr) \o x = f \o (lr \o x)
      BY <3>1, ConcatAssociative, SMTT(20)
    <3> QED BY <3>2 DEF f, lr
  <2> QED BY <2>1, <2>3, <2>4
<1>b. ASSUME NEW e \in Seq(S)
      PROVE  FlattenSeq(ls \o <<e>>) = FlattenSeq(ls) \o e
  <2>1. ls \o <<e>> = Append(ls, e)
    BY AppendIsConcat DEF SeqOfSeq
  <2> QED BY <2>1, FlattenAppend DEF SeqOfSeq
<1> DEFINE N == Len(rows)
           ms == RowLines(l, rows)
<1>1. N \in Nat \ {0} /\ DOMAIN rows = 1..N
  BY EmptySeq, LenProperties
<1>2. ASSUME NEW k \in 1..N PROVE rows[k] \in S /\ <<rows[k]>> \in Seq(S)
  BY ElementOfSeq
<1>3. Append(l, rows[1]) \in Seq(S) /\ Append(l, rows[1]) = l \o <<rows[1]>>
  <2>1. 1 \in 1..N
    BY <1>1
  <2> QED BY <1>2, <2>1, AppendProperties, AppendIsConcat
<1>0. ms = [k \in 1..N |-> IF k = 1 THEN Append(l, rows[1]) ELSE <<rows[k]>>]
  BY <1>1 DEF RowLines
<1> HIDE DEF ms
<1>4. ms \in Seq(Seq(S)) /\ Len(ms) = N
  <2>1. \A k \in 1..N : ms[k] \in Seq(S)
    BY <1>0, <1>1, <1>2, <1>3
  <2>2. ms \in [1..N -> Seq(S)]
    BY <1>0, <2>1
  <2> QED BY <1>1, <2>2
<1>5. ASSUME NEW m \in 1..N
      PROVE  /\ SubSeq(ms, 1, m - 1) \in Seq(Seq(S)) /\ SubSeq(rows, 1, m - 1) \in Seq(S)
             /\ SubSeq(ms, 1, m) = Append(SubSeq(ms, 1, m - 1), ms[m])
             /\ SubSeq(rows, 1, m) = SubSeq(rows, 1, m - 1) \o <<rows[m]>>
  <2>1. /\ \A i \in 1..(m - 1) : ms[i] \in Seq(S)
        /\ \A i \in 1..(m - 1) : rows[i] \in S
        /\ 1 \in Int /\ m - 1 \in Int /\ m \in 1..Len(ms) /\ 1 \in 1..Len(ms)
        /\ 1 \in 1..Len(rows) /\ m \in 1..Len(rows)
    BY <1>1, <1>2, <1>4, ElementOfSeq
  <2>2. SubSeq(ms, 1, m - 1) \in Seq(Seq(S)) /\ SubSeq(rows, 1, m - 1) \in Seq(S)
    BY <2>1, SubSeqProperties
  <2>3. SubSeq(ms, 1, m) = SubSeq(ms, 1, m - 1) \o <<ms[m]>>
    BY <1>4, <2>1, SubSeqRecursiveSecond
  <2>4. SubSeq(rows, 1, m) = SubSeq(rows, 1, m - 1) \o <<rows[m]>>
    BY <2>1, SubSeqRecursiveSecond
  <2>5. ms[m] \in Seq(S)
    BY <1>4, <2>1, ElementOfSeq
  <2> QED BY <2>2, <2>3, <2>4, <2>5, AppendIsConcat
<1>6. ASSUME NEW m \in 1..N PROVE ms[m] \in Seq(S)
  BY <1>4, ElementOfSeq
<1>7. FlattenSeq(ls) \in Seq(S)
  BY <1>3, FlattenAppend DEF SeqOfSeq
<1> DEFINE T == {m \in 0..N : m # 0 => FlattenSeq(ls \o SubSeq(ms, 1, m))
                                          = FlattenSeq(ls) \o (l \o SubSeq(rows, 1, m))}
<1>8. 0 \in T
  BY <1>1
<1>9. ASSUME NEW m \in 1..N, m - 1 \in T PROVE m \in T
  <2>1. m \in 0..N /\ m - 1 \in 0..N
    BY <1>1
  <2>2. CASE m = 1
    <3>1. SubSeq(ms, 1, m - 1) = <<>> /\ SubSeq(rows, 1, m - 1) = <<>>
      BY <2>2, SubSeqEmpty
    <3>2. ls \o <<>> = ls
      BY ConcatEmptySeq DEF SeqOfSeq
    <3>3. <<>> \o <<rows[m]>> = <<rows[m]>>
      BY <1>2, ConcatEmptySeq
    <3>4. ms[m] = l \o <<rows[m]>>
      BY <1>0, <1>1, <1>3, <2>2
    <3>5. SubSeq(rows, 1, m) = <<rows[m]>>
      BY <1>5, <3>1, <3>3
    <3>7. SubSeq(ms, 1, m) = <<ms[m]>>
      <4>1. Append(<<>>, ms[m]) = <<ms[m]>>
        OBVIOUS
      <4> QED BY <1>5, <3>1, <4>1, Zenon
    <3>6. FlattenSeq(ls \o SubSeq(ms, 1, m)) = FlattenSeq(ls) \o ms[m]
      BY <1>6, <1>b, <3>7
    <3> QED BY <2>1, <3>4, <3>5, <3>6
  <2>3. CASE m # 1
    <3> DEFINE r == SubSeq(rows, 1, m - 1)
    <3>1. r \in Seq(S) /\ SubSeq(rows, 1, m) = r \o <<rows[m]>> /\ <<rows[m]>> \in Seq(S)
      BY <1>2, <1>5
    <3>2. FlattenSeq(ls \o SubSeq(ms, 1, m - 1)) = FlattenSeq(ls) \o (l \o r)
      <4>1. m - 1 # 0
        BY <1>1, <2>3
      <4> QED BY <1>9, <4>1
    <3>3. ms[m] = <<rows[m]>>
      BY <1>0, <1>1, <2>3
    <3>4. SubSeq(ms, 1, m - 1) \in Seq(Seq(S)) /\ SubSeq(ms, 1, m) = Append(SubSeq(ms, 1, m - 1), <<rows[m]>>)
      BY <1>5, <3>3
    <3> DEFINE a == SubSeq(ms, 1, m - 1)
               x == <<rows[m]>>
    <3> HIDE DEF a, r, x
    <3>5. FlattenSeq(ls \o Append(a, x)) = FlattenSeq(ls) \o (l \o (r \o x))
      <4>1. a \in SeqOfSeq(S) /\ r \in Seq(S) /\ x \in Seq(S)
        BY <3>1, <3>4 DEF a, x, SeqOfSeq
      <4>2. FlattenSeq(ls \o a) = FlattenSeq(ls) \o (l \o r)
        BY <3>2 DEF a
      <4>3. FlattenSeq(ls \o a) = FlattenSeq(ls) \o (l \o r)
              => FlattenSeq(ls \o Append(a, x)) = FlattenSeq(ls) \o (l \o (r \o x))
        BY <4>1, <1>a
      <4> QED BY <4>2, <4>3
    <3> QED BY <2>1, <3>1, <3>4, <3>5 DEF a, x
  <2> QED BY <2>2, <2>3
<1>10. N \in T
  <2> HIDE DEF T
  <2>1. 0..N \subseteq T
    BY <1>1, <1>8, <1>9, PrefixInduction
  <2> QED BY <1>1, <2>1
<1>11. SubSeq(ms, 1, N) = ms /\ SubSeq(rows, 1, N) = rows
  BY <1>4, SubSeqFull
<1> QED BY <1>1, <1>4, <1>10, <1>11 DEF ms, SeqOfSeq

------------------------------------------------------------------------------
(* The flag that puts a record under a kind.                                *)
FlagOf == [arith |-> "ARITHMETIC", deref |-> "DEREF", logic |-> "LOGICAL",
           cond |-> "CONDITIONAL", mov |-> "MOV"]

(* The kinds of a record, from its flags.                                   *)
HasKind(rec, kind) ==
    IF kind = "mov" THEN rec.gadgetSet \subseteq {"MOV"} ELSE FlagOf[kind] \in rec.gadgetSet

(* What one condition of printStats and printSource adds.                   *)
LEMMA OneKind ==
  ASSUME NEW kind \in ReportKinds
  PROVE  <<kind>> \in Seq(ReportKinds) /\ IsInjective(<<kind>>) /\ ToSet(<<kind>>) = {kind}
<1>1. <<kind>> \in Seq(ReportKinds) /\ DOMAIN <<kind>> = {1} /\ <<kind>>[1] = kind
  OBVIOUS
<1> DEFINE s == <<kind>>
<1> HIDE DEF s
<1>2. s \in Seq(ReportKinds) /\ DOMAIN s = {1} /\ s[1] = kind
  BY <1>1 DEF s
<1>3. IsInjective(s) /\ ToSet(s) = {kind}
  BY <1>2 DEF IsInjective, ToSet
<1> QED BY <1>2, <1>3 DEF s

(* A condition that does not hold adds no kind.                             *)
LEMMA NoKind ==
  <<>> \in Seq(ReportKinds) /\ IsInjective(<<>>) /\ ToSet(<<>>) = {}
<1>1. <<>> \in Seq(ReportKinds) /\ DOMAIN <<>> = {}
  <2>1. 1..0 = {}
    OBVIOUS
  <2> QED BY <2>1
<1> QED BY <1>1 DEF IsInjective, ToSet

(* Every record is reported under the kinds its flags name, each once, and  *)
(* under at least one.                                                      *)
LEMMA KindsProperties ==
  ASSUME NEW rec \in Records
  PROVE  /\ SourceKinds(rec) \in Seq(ReportKinds) /\ IsInjective(SourceKinds(rec)) /\ SourceKinds(rec) # <<>>
         /\ ToSet(SourceKinds(rec)) = {kind \in ReportKinds : HasKind(rec, kind)}
<1> DEFINE G == rec.gadgetSet
           p1 == IF "DEREF" \in G THEN <<"deref">> ELSE <<>>
           p2 == IF "ARITHMETIC" \in G THEN <<"arith">> ELSE <<>>
           p3 == IF "LOGICAL" \in G THEN <<"logic">> ELSE <<>>
           p4 == IF "CONDITIONAL" \in G THEN <<"cond">> ELSE <<>>
           p5 == IF G \in {{}, {"MOV"}} THEN <<"mov">> ELSE <<>>
<1>1. SourceKinds(rec) = (((p1 \o p2) \o p3) \o p4) \o p5
  BY DEF SourceKinds
<1>2. G \subseteq GadgetTypes
  BY DEF Records
<1>k. /\ "deref" \in ReportKinds /\ "arith" \in ReportKinds /\ "logic" \in ReportKinds
      /\ "cond" \in ReportKinds /\ "mov" \in ReportKinds
  BY DEF ReportKinds
<1>3. /\ p1 \in Seq(ReportKinds) /\ IsInjective(p1)
      /\ ToSet(p1) = IF "DEREF" \in G THEN {"deref"} ELSE {}
  <2>1. CASE "DEREF" \in G
    <3>1. p1 = <<"deref">>
      BY <2>1
    <3> HIDE DEF G, p1
    <3> QED BY <1>k, <2>1, <3>1, OneKind
  <2>2. CASE ~("DEREF" \in G)
    <3>1. p1 = <<>>
      BY <2>2
    <3> HIDE DEF G, p1
    <3> QED BY <2>2, <3>1, NoKind
  <2> QED BY <2>1, <2>2
<1>4. /\ p2 \in Seq(ReportKinds) /\ IsInjective(p2)
      /\ ToSet(p2) = IF "ARITHMETIC" \in G THEN {"arith"} ELSE {}
  <2>1. CASE "ARITHMETIC" \in G
    <3>1. p2 = <<"arith">>
      BY <2>1
    <3> HIDE DEF G, p2
    <3> QED BY <1>k, <2>1, <3>1, OneKind
  <2>2. CASE ~("ARITHMETIC" \in G)
    <3>1. p2 = <<>>
      BY <2>2
    <3> HIDE DEF G, p2
    <3> QED BY <2>2, <3>1, NoKind
  <2> QED BY <2>1, <2>2
<1>5. /\ p3 \in Seq(ReportKinds) /\ IsInjective(p3)
      /\ ToSet(p3) = IF "LOGICAL" \in G THEN {"logic"} ELSE {}
  <2>1. CASE "LOGICAL" \in G
    <3>1. p3 = <<"logic">>
      BY <2>1
    <3> HIDE DEF G, p3
    <3> QED BY <1>k, <2>1, <3>1, OneKind
  <2>2. CASE ~("LOGICAL" \in G)
    <3>1. p3 = <<>>
      BY <2>2
    <3> HIDE DEF G, p3
    <3> QED BY <2>2, <3>1, NoKind
  <2> QED BY <2>1, <2>2
<1>6. /\ p4 \in Seq(ReportKinds) /\ IsInjective(p4)
      /\ ToSet(p4) = IF "CONDITIONAL" \in G THEN {"cond"} ELSE {}
  <2>1. CASE "CONDITIONAL" \in G
    <3>1. p4 = <<"cond">>
      BY <2>1
    <3> HIDE DEF G, p4
    <3> QED BY <1>k, <2>1, <3>1, OneKind
  <2>2. CASE ~("CONDITIONAL" \in G)
    <3>1. p4 = <<>>
      BY <2>2
    <3> HIDE DEF G, p4
    <3> QED BY <2>2, <3>1, NoKind
  <2> QED BY <2>1, <2>2
<1>7. /\ p5 \in Seq(ReportKinds) /\ IsInjective(p5)
      /\ ToSet(p5) = IF G \in {{}, {"MOV"}} THEN {"mov"} ELSE {}
  <2>1. CASE G \in {{}, {"MOV"}}
    <3>1. p5 = <<"mov">>
      BY <2>1
    <3> HIDE DEF G, p5
    <3> QED BY <1>k, <2>1, <3>1, OneKind
  <2>2. CASE ~(G \in {{}, {"MOV"}})
    <3>1. p5 = <<>>
      BY <2>2
    <3> HIDE DEF G, p5
    <3> QED BY <2>2, <3>1, NoKind
  <2> QED BY <2>1, <2>2
<1> HIDE DEF p1, p2, p3, p4, p5
<1>8. p1 \o p2 \in Seq(ReportKinds) /\ ToSet(p1 \o p2) = ToSet(p1) \cup ToSet(p2) /\ IsInjective(p1 \o p2)
  <2>1. ToSet(p1) \cap ToSet(p2) = {}
    BY <1>3, <1>4
  <2> QED BY <1>3, <1>4, <2>1, ConcatContents, ConcatInjective
<1> DEFINE q2 == p1 \o p2
<1> HIDE DEF q2
<1>9. q2 \o p3 \in Seq(ReportKinds) /\ ToSet(q2 \o p3) = ToSet(q2) \cup ToSet(p3) /\ IsInjective(q2 \o p3)
  <2>1. ToSet(q2) \cap ToSet(p3) = {}
    BY <1>3, <1>4, <1>5, <1>8 DEF q2
  <2>2. q2 \in Seq(ReportKinds) /\ IsInjective(q2)
    BY <1>8 DEF q2
  <2> QED BY <1>5, <2>1, <2>2, ConcatContents, ConcatInjective
<1> DEFINE q3 == q2 \o p3
<1> HIDE DEF q3
<1>10. q3 \o p4 \in Seq(ReportKinds) /\ ToSet(q3 \o p4) = ToSet(q3) \cup ToSet(p4) /\ IsInjective(q3 \o p4)
  <2>1. ToSet(q3) = ToSet(p1) \cup ToSet(p2) \cup ToSet(p3)
    BY <1>8, <1>9 DEF q2, q3
  <2>2. ToSet(q3) \cap ToSet(p4) = {}
    BY <1>3, <1>4, <1>5, <1>6, <2>1
  <2>3. q3 \in Seq(ReportKinds) /\ IsInjective(q3)
    BY <1>9 DEF q3
  <2> QED BY <1>6, <2>2, <2>3, ConcatContents, ConcatInjective
<1> DEFINE q4 == q3 \o p4
<1> HIDE DEF q4
<1>11. q4 \o p5 \in Seq(ReportKinds) /\ ToSet(q4 \o p5) = ToSet(q4) \cup ToSet(p5) /\ IsInjective(q4 \o p5)
  <2>1. ToSet(q4) = ToSet(p1) \cup ToSet(p2) \cup ToSet(p3) \cup ToSet(p4)
    BY <1>8, <1>9, <1>10 DEF q2, q3, q4
  <2>2. ToSet(q4) \cap ToSet(p5) = {}
    BY <1>3, <1>4, <1>5, <1>6, <1>7, <2>1
  <2>3. q4 \in Seq(ReportKinds) /\ IsInjective(q4)
    BY <1>10 DEF q4
  <2> QED BY <1>7, <2>2, <2>3, ConcatContents, ConcatInjective
<1>12. SourceKinds(rec) \in Seq(ReportKinds) /\ IsInjective(SourceKinds(rec))
  BY <1>1, <1>11 DEF q2, q3, q4
<1>13. ToSet(SourceKinds(rec)) = ToSet(p1) \cup ToSet(p2) \cup ToSet(p3) \cup ToSet(p4) \cup ToSet(p5)
  BY <1>1, <1>8, <1>9, <1>10, <1>11 DEF q2, q3, q4
<1>14. ToSet(SourceKinds(rec)) = {kind \in ReportKinds : HasKind(rec, kind)}
  <2>1. G \in {{}, {"MOV"}} <=> G \subseteq {"MOV"}
    OBVIOUS
  <2>2. /\ HasKind(rec, "deref") <=> "DEREF" \in G
        /\ HasKind(rec, "arith") <=> "ARITHMETIC" \in G
        /\ HasKind(rec, "logic") <=> "LOGICAL" \in G
        /\ HasKind(rec, "cond") <=> "CONDITIONAL" \in G
        /\ HasKind(rec, "mov") <=> G \in {{}, {"MOV"}}
    BY <2>1 DEF HasKind, FlagOf
  <2> HIDE DEF G
  <2>3. ASSUME NEW kind \in ReportKinds
        PROVE  kind \in ToSet(SourceKinds(rec)) <=> HasKind(rec, kind)
    <3>1. CASE kind = "deref"
      BY <3>1, <2>2, <1>13, <1>3, <1>4, <1>5, <1>6, <1>7
    <3>2. CASE kind = "arith"
      BY <3>2, <2>2, <1>13, <1>3, <1>4, <1>5, <1>6, <1>7
    <3>3. CASE kind = "logic"
      BY <3>3, <2>2, <1>13, <1>3, <1>4, <1>5, <1>6, <1>7
    <3>4. CASE kind = "cond"
      BY <3>4, <2>2, <1>13, <1>3, <1>4, <1>5, <1>6, <1>7
    <3>5. CASE kind = "mov"
      BY <3>5, <2>2, <1>13, <1>3, <1>4, <1>5, <1>6, <1>7
    <3> QED BY <3>1, <3>2, <3>3, <3>4, <3>5 DEF ReportKinds
  <2>4. ToSet(SourceKinds(rec)) \subseteq ReportKinds
    BY <1>13, <1>3, <1>4, <1>5, <1>6, <1>7, <1>k
  <2> QED BY <2>3, <2>4
<1>15. SourceKinds(rec) # <<>>
  <2>1. \/ "DEREF" \in G \/ "ARITHMETIC" \in G \/ "LOGICAL" \in G
        \/ "CONDITIONAL" \in G \/ G \in {{}, {"MOV"}}
    BY <1>2 DEF GadgetTypes
  <2> HIDE DEF G
  <2>2. ToSet(SourceKinds(rec)) # {}
    BY <2>1, <1>13, <1>3, <1>4, <1>5, <1>6, <1>7
  <2>3. ToSet(<<>>) = {}
    <3>1. 1..0 = {} /\ DOMAIN <<>> = 1..0
      OBVIOUS
    <3> QED BY <3>1 DEF ToSet
  <2> QED BY <2>2, <2>3
<1> QED BY <1>12, <1>14, <1>15

------------------------------------------------------------------------------
(* The columns of the header.                                               *)

(* The scope of a record, by the name of its column.                        *)
Scope(rec) ==
    IF IsGlobal(rec.ptr)
    THEN IF IsGlobal(rec.value) THEN "global" ELSE "mixed"
    ELSE IF IsGlobal(rec.value) THEN "mixed" ELSE "local"

(* printSource and printStats, each by its own copy of the conditions and   *)
(* its own way from the enumerator to a name, come to the same scope.       *)
LEMMA BothCopiesOfScope ==
  ASSUME NEW rec
  PROVE  ScopeName(rec) = Scope(rec) /\ StatField(StatScope(rec.ptr, rec.value)) = Scope(rec)
<1>1. /\ GadgetScopeStrings[GlobalScope + 1] = "global"
      /\ GadgetScopeStrings[LocalScope + 1] = "local"
      /\ GadgetScopeStrings[MixedScope + 1] = "mixed"
  BY DEF GadgetScopeStrings, GlobalScope, LocalScope, MixedScope
<1>2. /\ StatField(GlobalScope) = "global"
      /\ StatField(LocalScope) = "local"
      /\ StatField(MixedScope) = "mixed"
  BY DEF StatField, GlobalScope, LocalScope, MixedScope
<1>3. /\ getGadgetScope(rec.ptr, rec.value) = StatScope(rec.ptr, rec.value)
      /\ ScopeName(rec) = GadgetScopeStrings[StatScope(rec.ptr, rec.value) + 1]
  BY DEF ScopeName, getGadgetScope, StatScope
<1>4. CASE IsGlobal(rec.ptr) /\ IsGlobal(rec.value)
  <2>1. StatScope(rec.ptr, rec.value) = GlobalScope /\ Scope(rec) = "global"
    BY <1>4 DEF StatScope, Scope
  <2> QED BY <1>1, <1>2, <1>3, <2>1
<1>5. CASE ~IsGlobal(rec.ptr) /\ ~IsGlobal(rec.value)
  <2>1. StatScope(rec.ptr, rec.value) = LocalScope /\ Scope(rec) = "local"
    BY <1>5 DEF StatScope, Scope
  <2> QED BY <1>1, <1>2, <1>3, <2>1
<1>6. CASE ~(IsGlobal(rec.ptr) <=> IsGlobal(rec.value))
  <2>1. StatScope(rec.ptr, rec.value) = MixedScope /\ Scope(rec) = "mixed"
    BY <1>6 DEF StatScope, Scope
  <2> QED BY <1>1, <1>2, <1>3, <2>1
<1> QED BY <1>4, <1>5, <1>6

(* printStats counts a record under the kinds its flags name.               *)
LEMMA CountedKinds ==
  ASSUME NEW rec \in Records, NEW kind \in ReportKinds
  PROVE  kind \in StatKinds(rec) <=> HasKind(rec, kind)
<1>1. rec.gadgetSet \in {{}, {"MOV"}} <=> rec.gadgetSet \subseteq {"MOV"}
  OBVIOUS
<1>2. CASE kind = "deref"
  BY <1>2 DEF StatKinds, HasKind, FlagOf
<1>3. CASE kind = "arith"
  BY <1>3 DEF StatKinds, HasKind, FlagOf
<1>4. CASE kind = "logic"
  BY <1>4 DEF StatKinds, HasKind, FlagOf
<1>5. CASE kind = "cond"
  BY <1>5 DEF StatKinds, HasKind, FlagOf
<1>6. CASE kind = "mov"
  BY <1>1, <1>6 DEF StatKinds, HasKind
<1> QED BY <1>2, <1>3, <1>4, <1>5, <1>6 DEF ReportKinds

(* Every record has one of the three scopes.                                *)
LEMMA ScopeInScopes ==
  ASSUME NEW rec
  PROVE  Scope(rec) \in Scopes
BY DEF Scope, Scopes

(* The scope is the number of the two sets with a global in them.           *)
LEMMA ScopeIsGlobals ==
  ASSUME NEW p, NEW v
  PROVE  LET globals == Cardinality({S \in {<<1, p>>, <<2, v>>} :
                                       S[2] \cap {"GLOBAL_VAR", "FUNCTION_PTR"} # {}})
         IN  <<"local", "mixed", "global">>[globals + 1]
               = IF IsGlobal(p)
                 THEN IF IsGlobal(v) THEN "global" ELSE "mixed"
                 ELSE IF IsGlobal(v) THEN "mixed" ELSE "local"
<1> DEFINE T == {S \in {<<1, p>>, <<2, v>>} : S[2] \cap {"GLOBAL_VAR", "FUNCTION_PTR"} # {}}
           x == <<1, p>>
           y == <<2, v>>
<1>1. x # y /\ x[2] = p /\ y[2] = v
  OBVIOUS
<1>2. T = {S \in {x, y} : IsGlobal(S[2])}
  BY DEF IsGlobal
<1> HIDE DEF T, x, y
<1>3. /\ Cardinality({}) = 0 /\ IsFiniteSet({x})
      /\ Cardinality({x}) = 1 /\ Cardinality({y}) = 1
  BY FS_EmptySet, FS_Singleton
<1>4. Cardinality({x} \cup {y}) = 2
  <2>1. Cardinality({x} \cup {y}) = Cardinality({x}) + 1
    BY <1>1, <1>3, FS_AddElement
  <2> QED BY <1>3, <2>1
<1>5. CASE IsGlobal(p) /\ IsGlobal(v)
  <2>1. T = {x} \cup {y}
    BY <1>1, <1>2, <1>5
  <2>2. Cardinality(T) + 1 = 3
    BY <1>4, <2>1
  <2> QED BY <1>5, <2>2 DEF T
<1>6. CASE IsGlobal(p) /\ ~IsGlobal(v)
  <2>1. T = {x}
    BY <1>1, <1>2, <1>6
  <2>2. Cardinality(T) + 1 = 2
    BY <1>3, <2>1
  <2> QED BY <1>6, <2>2 DEF T
<1>7. CASE ~IsGlobal(p) /\ IsGlobal(v)
  <2>1. T = {y}
    BY <1>1, <1>2, <1>7
  <2>2. Cardinality(T) + 1 = 2
    BY <1>3, <2>1
  <2> QED BY <1>7, <2>2 DEF T
<1>8. CASE ~IsGlobal(p) /\ ~IsGlobal(v)
  <2>1. T = {}
    BY <1>1, <1>2, <1>8
  <2>2. Cardinality(T) + 1 = 1
    BY <1>3, <2>1
  <2> QED BY <1>8, <2>2 DEF T
<1> QED BY <1>5, <1>6, <1>7, <1>8

(* The stores of a column are the records with its kind and its scope.      *)
LEMMA BelongsByKindAndScope ==
  ASSUME NEW s, NEW kind \in ReportKinds, NEW scope \in Scopes
  PROVE  Belongs(s, <<kind, scope>>) <=> HasKind(result[s], kind) /\ scope = Scope(result[s])
<1> DEFINE p == result[s].ptr
           v == result[s].value
           n == Cardinality({S \in {<<1, p>>, <<2, v>>} :
                               S[2] \cap {"GLOBAL_VAR", "FUNCTION_PTR"} # {}})
           c == <<kind, scope>>
<1>1. <<"local", "mixed", "global">>[n + 1] = Scope(result[s])
  BY ScopeIsGlobals DEF Scope
<1>2. c[1] = kind /\ c[2] = scope
  OBVIOUS
<1> HIDE DEF c
<1>3. Belongs(s, c) <=>
        /\ c[2] = <<"local", "mixed", "global">>[n + 1]
        /\ IF c[1] = "mov" THEN result[s].gadgetSet \subseteq {"MOV"}
           ELSE FlagOf[c[1]] \in result[s].gadgetSet
  BY DEF Belongs, FlagOf
<1> HIDE DEF n, p, v
<1>4. Belongs(s, c) <=> scope = Scope(result[s]) /\ HasKind(result[s], kind)
  BY <1>1, <1>2, <1>3 DEF HasKind
<1> QED BY <1>4 DEF c

(* The header has a column for each kind and scope.                         *)
LEMMA HeaderColumns ==
  /\ DOMAIN Header = 1..15 /\ Len(Header) = 15
  /\ ToSet(Header) = ReportKinds \X Scopes
<1>1. DOMAIN Header = 1..15 /\ Len(Header) = 15
  BY DEF Header
<1>2. \A k \in 1..15 : Header[k] \in ReportKinds \X Scopes
  BY DEF Header, ReportKinds, Scopes
<1>3. ASSUME NEW kind \in ReportKinds, NEW scope \in Scopes
      PROVE  \E k \in 1..15 : Header[k] = <<kind, scope>>
  <2>1. ASSUME NEW k \in 1..15, Header[k] = <<kind, scope>>
        PROVE  \E j \in 1..15 : Header[j] = <<kind, scope>>
    BY <2>1
  <2>2. CASE kind = "mov"
    <3>1. /\ Header[1] = <<"mov", "global">> /\ Header[2] = <<"mov", "mixed">>
          /\ Header[3] = <<"mov", "local">>
      BY DEF Header
    <3> QED BY <2>1, <2>2, <3>1 DEF Scopes
  <2>3. CASE kind = "arith"
    <3>1. /\ Header[4] = <<"arith", "global">> /\ Header[5] = <<"arith", "mixed">>
          /\ Header[6] = <<"arith", "local">>
      BY DEF Header
    <3> QED BY <2>1, <2>3, <3>1 DEF Scopes
  <2>4. CASE kind = "deref"
    <3>1. /\ Header[7] = <<"deref", "global">> /\ Header[8] = <<"deref", "mixed">>
          /\ Header[9] = <<"deref", "local">>
      BY DEF Header
    <3> QED BY <2>1, <2>4, <3>1 DEF Scopes
  <2>5. CASE kind = "logic"
    <3>1. /\ Header[10] = <<"logic", "global">> /\ Header[11] = <<"logic", "mixed">>
          /\ Header[12] = <<"logic", "local">>
      BY DEF Header
    <3> QED BY <2>1, <2>5, <3>1 DEF Scopes
  <2>6. CASE kind = "cond"
    <3>1. /\ Header[13] = <<"cond", "global">> /\ Header[14] = <<"cond", "mixed">>
          /\ Header[15] = <<"cond", "local">>
      BY DEF Header
    <3> QED BY <2>1, <2>6, <3>1 DEF Scopes
  <2> QED BY <2>2, <2>3, <2>4, <2>5, <2>6 DEF ReportKinds
<1>4. ASSUME NEW c \in ReportKinds \X Scopes PROVE c \in ToSet(Header)
  <2>1. PICK kind \in ReportKinds, scope \in Scopes : c = <<kind, scope>>
    OBVIOUS
  <2>2. PICK k \in 1..15 : Header[k] = <<kind, scope>>
    BY <1>3
  <2> QED BY <1>1, <2>1, <2>2 DEF ToSet
<1>5. ToSet(Header) \subseteq ReportKinds \X Scopes
  BY <1>1, <1>2 DEF ToSet
<1> QED BY <1>1, <1>4, <1>5

(* Three numbers more.                                                      *)
LEMMA ThreeMore ==
  ASSUME NEW S, NEW s \in Seq(S), NEW a \in S, NEW b \in S, NEW c \in S
  PROVE  LET t == s \o <<a, b, c>>
         IN  /\ t \in Seq(S) /\ Len(t) = Len(s) + 3
             /\ \A i \in 1..Len(s) : t[i] = s[i]
             /\ t[Len(s) + 1] = a /\ t[Len(s) + 2] = b /\ t[Len(s) + 3] = c
<1> DEFINE e == <<a, b, c>>
           t == s \o e
<1>1. e \in Seq(S) /\ Len(e) = 3 /\ e[1] = a /\ e[2] = b /\ e[3] = c
  OBVIOUS
<1> HIDE DEF e
<1>2. /\ t \in Seq(S) /\ Len(t) = Len(s) + Len(e)
      /\ \A i \in 1..(Len(s) + Len(e)) : t[i] = IF i <= Len(s) THEN s[i] ELSE e[i - Len(s)]
  BY <1>1, ConcatProperties
<1>3. Len(s) \in Nat
  BY LenProperties
<1> HIDE DEF t
<1>4. /\ t \in Seq(S) /\ Len(t) = Len(s) + 3
      /\ \A i \in 1..Len(s) : t[i] = s[i]
  BY <1>1, <1>2, <1>3
<1>5. \A j \in 1..3 : t[Len(s) + j] = e[j]
  BY <1>1, <1>2, <1>3
<1>6. t[Len(s) + 1] = a /\ t[Len(s) + 2] = b /\ t[Len(s) + 3] = c
  BY <1>1, <1>5
<1> QED BY <1>4, <1>6 DEF t, e

(* Nothing laid end to end.                                                 *)
LEMMA FlattenNothing ==
  FlattenSeq(<<>>) = <<>>
<1>1. Len(<<>>) = 0
  OBVIOUS
<1> QED BY <1>1 DEF FlattenSeq

(* Five elements appended to nothing.                                       *)
LEMMA FiveAppended ==
  ASSUME NEW a, NEW b, NEW c, NEW d, NEW e
  PROVE  Append(Append(Append(Append(Append(<<>>, a), b), c), d), e) = <<a, b, c, d, e>>
<1>1. [k \in 1..5 |-> <<a, b, c, d, e>>[k]] = Append(Append(Append(Append(Append(<<>>, a), b), c), d), e)
  OBVIOUS
<1>2. [k \in 1..5 |-> <<a, b, c, d, e>>[k]] = <<a, b, c, d, e>>
  OBVIOUS
<1> QED BY <1>1, <1>2

(* What printStats prints under a kind.                                     *)
Triple(kind) == <<stats[kind]["global"], stats[kind]["mixed"], stats[kind]["local"]>>

(* printStats prints each counter in the column of its kind and scope.      *)
LEMMA ColumnsAreCounters ==
  ASSUME stats \in [ReportKinds -> [Scopes -> Nat]]
  PROVE  /\ Len(Columns) = 15
         /\ \A c \in 1..15 : Columns[c] = stats[Header[c][1]][Header[c][2]]
<1> DEFINE K == <<"mov", "arith", "deref", "logic", "cond">>
           s0 == <<>>
           s1 == Append(s0, Triple("mov"))
           s2 == Append(s1, Triple("arith"))
           s3 == Append(s2, Triple("deref"))
           s4 == Append(s3, Triple("logic"))
           s5 == Append(s4, Triple("cond"))
<1>1. /\ "deref" \in ReportKinds /\ "arith" \in ReportKinds /\ "logic" \in ReportKinds
      /\ "cond" \in ReportKinds /\ "mov" \in ReportKinds
  BY DEF ReportKinds
<1>2. ASSUME NEW kind \in ReportKinds
      PROVE  /\ stats[kind]["global"] \in Nat /\ stats[kind]["mixed"] \in Nat
             /\ stats[kind]["local"] \in Nat /\ Triple(kind) \in Seq(Nat)
  <2>1. stats[kind] \in [Scopes -> Nat]
    OBVIOUS
  <2>2. /\ stats[kind]["global"] \in Nat /\ stats[kind]["mixed"] \in Nat
        /\ stats[kind]["local"] \in Nat
    BY <2>1 DEF Scopes
  <2> QED BY <2>2 DEF Triple
<1>3. Columns = FlattenSeq(s5)
  <2>1. [k \in 1..5 |-> Triple(K[k])]
          = <<Triple("mov"), Triple("arith"), Triple("deref"), Triple("logic"), Triple("cond")>>
    OBVIOUS
  <2>2. s5 = <<Triple("mov"), Triple("arith"), Triple("deref"), Triple("logic"), Triple("cond")>>
    BY FiveAppended
  <2>3. Columns = FlattenSeq([k \in 1..5 |-> Triple(K[k])])
    BY DEF Columns, Triple
  <2> QED BY <2>1, <2>2, <2>3
<1> DEFINE t0 == FlattenSeq(s0)
           t1 == t0 \o Triple("mov")
           t2 == t1 \o Triple("arith")
           t3 == t2 \o Triple("deref")
           t4 == t3 \o Triple("logic")
           t5 == t4 \o Triple("cond")
<1>4. ASSUME NEW s \in Seq(Seq(Nat)), NEW kind \in ReportKinds
      PROVE  /\ Append(s, Triple(kind)) \in Seq(Seq(Nat))
             /\ FlattenSeq(Append(s, Triple(kind))) = FlattenSeq(s) \o Triple(kind)
  BY <1>2, FlattenAppend, AppendProperties
<1>5. s0 \in Seq(Seq(Nat))
  OBVIOUS
<1>6. s1 \in Seq(Seq(Nat)) /\ FlattenSeq(s1) = t1
  <2> HIDE DEF s0
  <2> QED BY <1>1, <1>4, <1>5
<1>7. s2 \in Seq(Seq(Nat)) /\ FlattenSeq(s2) = t2
  <2> HIDE DEF s1
  <2> QED BY <1>1, <1>4, <1>6
<1>8. s3 \in Seq(Seq(Nat)) /\ FlattenSeq(s3) = t3
  <2> HIDE DEF s2
  <2> QED BY <1>1, <1>4, <1>7
<1>9. s4 \in Seq(Seq(Nat)) /\ FlattenSeq(s4) = t4
  <2> HIDE DEF s3
  <2> QED BY <1>1, <1>4, <1>8
<1>10. FlattenSeq(s5) = t5
  <2> HIDE DEF s4
  <2> QED BY <1>1, <1>4, <1>9
<1> HIDE DEF t5, t4, t3, t2, t1, t0, s0, s1, s2, s3, s4, s5
<1>11. t0 \in Seq(Nat) /\ Len(t0) = 0
  BY FlattenNothing, EmptySeq DEF t0, s0
<1>12. ASSUME NEW s \in Seq(Nat), NEW kind \in ReportKinds
       PROVE  LET t == s \o Triple(kind)
              IN  /\ t \in Seq(Nat) /\ Len(t) = Len(s) + 3
                  /\ \A i \in 1..Len(s) : t[i] = s[i]
                  /\ t[Len(s) + 1] = stats[kind]["global"]
                  /\ t[Len(s) + 2] = stats[kind]["mixed"]
                  /\ t[Len(s) + 3] = stats[kind]["local"]
  BY <1>2, ThreeMore DEF Triple
<1>13. /\ t1 \in Seq(Nat) /\ Len(t1) = 3 /\ \A i \in 1..0 : t1[i] = t0[i]
       /\ t1[1] = stats["mov"]["global"] /\ t1[2] = stats["mov"]["mixed"] /\ t1[3] = stats["mov"]["local"]
  <2>1. /\ t1 \in Seq(Nat) /\ Len(t1) = Len(t0) + 3
        /\ \A i \in 1..Len(t0) : t1[i] = t0[i]
        /\ t1[Len(t0) + 1] = stats["mov"]["global"]
        /\ t1[Len(t0) + 2] = stats["mov"]["mixed"]
        /\ t1[Len(t0) + 3] = stats["mov"]["local"]
    BY <1>1, <1>11, <1>12 DEF t1
  <2>2. Len(t0) = 0
    BY <1>11
  <2> QED BY <2>1, <2>2
<1>14. /\ t2 \in Seq(Nat) /\ Len(t2) = 6 /\ \A i \in 1..3 : t2[i] = t1[i]
       /\ t2[4] = stats["arith"]["global"] /\ t2[5] = stats["arith"]["mixed"] /\ t2[6] = stats["arith"]["local"]
  <2>1. /\ t2 \in Seq(Nat) /\ Len(t2) = Len(t1) + 3
        /\ \A i \in 1..Len(t1) : t2[i] = t1[i]
        /\ t2[Len(t1) + 1] = stats["arith"]["global"]
        /\ t2[Len(t1) + 2] = stats["arith"]["mixed"]
        /\ t2[Len(t1) + 3] = stats["arith"]["local"]
    BY <1>1, <1>13, <1>12 DEF t2
  <2>2. Len(t1) = 3
    BY <1>13
  <2> QED BY <2>1, <2>2
<1>15. /\ t3 \in Seq(Nat) /\ Len(t3) = 9 /\ \A i \in 1..6 : t3[i] = t2[i]
       /\ t3[7] = stats["deref"]["global"] /\ t3[8] = stats["deref"]["mixed"] /\ t3[9] = stats["deref"]["local"]
  <2>1. /\ t3 \in Seq(Nat) /\ Len(t3) = Len(t2) + 3
        /\ \A i \in 1..Len(t2) : t3[i] = t2[i]
        /\ t3[Len(t2) + 1] = stats["deref"]["global"]
        /\ t3[Len(t2) + 2] = stats["deref"]["mixed"]
        /\ t3[Len(t2) + 3] = stats["deref"]["local"]
    BY <1>1, <1>14, <1>12 DEF t3
  <2>2. Len(t2) = 6
    BY <1>14
  <2> QED BY <2>1, <2>2
<1>16. /\ t4 \in Seq(Nat) /\ Len(t4) = 12 /\ \A i \in 1..9 : t4[i] = t3[i]
       /\ t4[10] = stats["logic"]["global"] /\ t4[11] = stats["logic"]["mixed"] /\ t4[12] = stats["logic"]["local"]
  <2>1. /\ t4 \in Seq(Nat) /\ Len(t4) = Len(t3) + 3
        /\ \A i \in 1..Len(t3) : t4[i] = t3[i]
        /\ t4[Len(t3) + 1] = stats["logic"]["global"]
        /\ t4[Len(t3) + 2] = stats["logic"]["mixed"]
        /\ t4[Len(t3) + 3] = stats["logic"]["local"]
    BY <1>1, <1>15, <1>12 DEF t4
  <2>2. Len(t3) = 9
    BY <1>15
  <2> QED BY <2>1, <2>2
<1>17. /\ t5 \in Seq(Nat) /\ Len(t5) = 15 /\ \A i \in 1..12 : t5[i] = t4[i]
       /\ t5[13] = stats["cond"]["global"] /\ t5[14] = stats["cond"]["mixed"] /\ t5[15] = stats["cond"]["local"]
  <2>1. /\ t5 \in Seq(Nat) /\ Len(t5) = Len(t4) + 3
        /\ \A i \in 1..Len(t4) : t5[i] = t4[i]
        /\ t5[Len(t4) + 1] = stats["cond"]["global"]
        /\ t5[Len(t4) + 2] = stats["cond"]["mixed"]
        /\ t5[Len(t4) + 3] = stats["cond"]["local"]
    BY <1>1, <1>16, <1>12 DEF t5
  <2>2. Len(t4) = 12
    BY <1>16
  <2> QED BY <2>1, <2>2
<1>18. Columns = t5
  BY <1>3, <1>10
<1>h1. Header[1] = <<"mov", "global">> /\ Header[2] = <<"mov", "mixed">> /\ Header[3] = <<"mov", "local">>
  BY DEF Header
<1>h2. Header[4] = <<"arith", "global">> /\ Header[5] = <<"arith", "mixed">> /\ Header[6] = <<"arith", "local">>
  BY DEF Header
<1>h3. Header[7] = <<"deref", "global">> /\ Header[8] = <<"deref", "mixed">> /\ Header[9] = <<"deref", "local">>
  BY DEF Header
<1>h4. Header[10] = <<"logic", "global">> /\ Header[11] = <<"logic", "mixed">> /\ Header[12] = <<"logic", "local">>
  BY DEF Header
<1>h5. Header[13] = <<"cond", "global">> /\ Header[14] = <<"cond", "mixed">> /\ Header[15] = <<"cond", "local">>
  BY DEF Header
<1>p. /\ \A i \in 1..12 : t5[i] = t4[i]
      /\ \A i \in 1..9 : t4[i] = t3[i]
      /\ \A i \in 1..6 : t3[i] = t2[i]
      /\ \A i \in 1..3 : t2[i] = t1[i]
  BY <1>14, <1>15, <1>16, <1>17
<1>19. ASSUME NEW c \in 1..15 PROVE t5[c] = stats[Header[c][1]][Header[c][2]]
  <2>1. CASE c \in 1..3
    <3>1. t5[c] = t1[c]
      BY <2>1, <1>p
    <3>2. c = 1 \/ c = 2 \/ c = 3
      BY <2>1
    <3> QED BY <3>1, <3>2, <1>h1, <1>13
  <2>2. CASE c \in 4..6
    <3>1. t5[c] = t2[c]
      BY <2>2, <1>p
    <3>2. c = 4 \/ c = 5 \/ c = 6
      BY <2>2
    <3> QED BY <3>1, <3>2, <1>h2, <1>14
  <2>3. CASE c \in 7..9
    <3>1. t5[c] = t3[c]
      BY <2>3, <1>p
    <3>2. c = 7 \/ c = 8 \/ c = 9
      BY <2>3
    <3> QED BY <3>1, <3>2, <1>h3, <1>15
  <2>4. CASE c \in 10..12
    <3>1. t5[c] = t4[c]
      BY <2>4, <1>p
    <3>2. c = 10 \/ c = 11 \/ c = 12
      BY <2>4
    <3>3. t4[10] = stats[Header[10][1]][Header[10][2]]
      BY <1>h4, <1>16
    <3>4. t4[11] = stats[Header[11][1]][Header[11][2]]
      BY <1>h4, <1>16
    <3>5. t4[12] = stats[Header[12][1]][Header[12][2]]
      BY <1>h4, <1>16
    <3> QED BY <3>1, <3>2, <3>3, <3>4, <3>5
  <2>5. CASE c \in 13..15
    <3>2. c = 13 \/ c = 14 \/ c = 15
      BY <2>5
    <3>3. t5[13] = stats[Header[13][1]][Header[13][2]]
      BY <1>h5, <1>17
    <3>4. t5[14] = stats[Header[14][1]][Header[14][2]]
      BY <1>h5, <1>17
    <3>5. t5[15] = stats[Header[15][1]][Header[15][2]]
      BY <1>h5, <1>17
    <3> QED BY <3>2, <3>3, <3>4, <3>5
  <2> QED BY <2>1, <2>2, <2>3, <2>4, <2>5
<1> QED BY <1>17, <1>18, <1>19

------------------------------------------------------------------------------
(* The inductive invariant.                                                 *)

(* The records of a column among those already walked.                      *)
Counted(kind, scope) ==
    {t \in Stores \ todo : HasKind(result[t], kind) /\ Scope(result[t]) = scope}

(* The rows printed so far, whatever line they are on.                      *)
Printed == FlattenSeq(lines) \o line

(* A row of printDetail, and the rows of the two listings.                  *)
DetailRow(s) ==
    <<[value |-> result[s].value, ptr |-> result[s].ptr], result[s].gadgetSet, s>>
SourceRows == {<<kind, scope, s>> : kind \in ReportKinds, scope \in Scopes, s \in Stores}
DetailRows ==
    {<<sets, flags, s>> : sets \in [value: SUBSET ResultTypes, ptr: SUBSET ResultTypes],
                          flags \in SUBSET GadgetTypes, s \in Stores}
AllRows == SourceRows \cup DetailRows

(* The rows printSource owes the records already walked.                    *)
RowsOf(s) == {<<kind, Scope(result[s]), s>> : kind \in ToSet(SourceKinds(result[s]))}

TypeInv ==
    /\ result \in [Stores -> Records]
    /\ mode \in {"details", "source", "stats"} /\ phase \in {"running", "done"}
    /\ todo \subseteq Stores /\ IsFiniteSet(Stores \ todo)
    /\ phase = "done" => todo = {}
    /\ stats \in [ReportKinds -> [Scopes -> Nat]]
    /\ lines \in SeqOfSeq(AllRows) /\ line \in Seq(AllRows)

(* Each counter is the number of records of its column so far.              *)
CountersInv ==
    /\ mode = "stats" =>
         \A kind \in ReportKinds, scope \in Scopes :
           stats[kind][scope] = Cardinality(Counted(kind, scope))
    /\ columns # <<>> => mode = "stats" /\ todo = {} /\ columns = Columns

(* What is printed is what is owed, without repetitions.                    *)
PrintedInv ==
    /\ IsInjective(Printed)
    /\ mode = "source" => ToSet(Printed) = UNION {RowsOf(s) : s \in Stores \ todo}
    /\ mode = "details" => ToSet(Printed) = {DetailRow(s) : s \in Stores \ todo}
    /\ mode # "source" => line = <<>>

(* No line is empty.  Those of printSource end at a location and hold no    *)
(* other, those of printDetail hold one row.                                *)
LinesInv ==
    /\ \A k \in DOMAIN lines : Len(lines[k]) >= 1
    /\ mode = "source" =>
         /\ \A k \in DOMAIN lines : EndsAtLocation(lines[k])
         /\ \A j \in DOMAIN line : ~HasLoc(line[j])
    /\ mode = "details" => \A k \in DOMAIN lines : Len(lines[k]) = 1

IInv == TypeInv /\ CountersInv /\ PrintedInv /\ LinesInv

(* Before the first record nothing is counted and nothing printed.          *)
LEMMA InitInv == ReportInit => IInv
<1> SUFFICES ASSUME ReportInit PROVE IInv
  OBVIOUS
<1> USE DEF ReportInit
<1>1. <<>> \in Seq(AllRows) /\ lines \in SeqOfSeq(AllRows)
  BY DEF SeqOfSeq
<1>2. Stores \ todo = {} /\ IsFiniteSet({}) /\ Cardinality({}) = 0
  BY FS_EmptySet
<1>3. TypeInv
  <2>1. stats \in [ReportKinds -> [Scopes -> Nat]]
    OBVIOUS
  <2> QED BY <1>1, <1>2, <2>1, MapsAssumption DEF TypeInv
<1>4. CountersInv
  <2>1. ASSUME NEW kind \in ReportKinds, NEW scope \in Scopes
        PROVE  stats[kind][scope] = Cardinality(Counted(kind, scope))
    <3>1. Counted(kind, scope) = {}
      BY <1>2 DEF Counted
    <3> QED BY <1>2, <3>1
  <2> QED BY <2>1 DEF CountersInv
<1>5. Printed = <<>> /\ DOMAIN Printed = {}
  <2>1. 1..0 = {} /\ <<>> \o <<>> = <<>>
    BY <1>1, ConcatEmptySeq
  <2>2. Printed = <<>>
    BY <2>1, FlattenNothing DEF Printed
  <2> QED BY <2>1, <2>2
<1>6. PrintedInv
  BY <1>2, <1>5 DEF PrintedInv, IsInjective, ToSet
<1>7. LinesInv
  <2>1. 1..0 = {} /\ DOMAIN lines = 1..0 /\ DOMAIN line = 1..0
    OBVIOUS
  <2> QED BY <2>1 DEF LinesInv
<1> QED BY <1>3, <1>4, <1>6, <1>7 DEF IInv

(* What a step that walks a record does to the set of those walked.         *)
LEMMA WalkedOneMore ==
  ASSUME TypeInv, NEW s \in todo, todo' = todo \ {s}
  PROVE  /\ s \in Stores /\ result[s] \in Records /\ s \notin Stores \ todo
         /\ Stores \ todo' = (Stores \ todo) \cup {s}
         /\ todo' \subseteq Stores /\ IsFiniteSet(Stores \ todo')
<1>1. /\ s \in Stores /\ result[s] \in Records /\ s \notin Stores \ todo
      /\ Stores \ todo' = (Stores \ todo) \cup {s} /\ todo' \subseteq Stores
  BY DEF TypeInv
<1>2. IsFiniteSet((Stores \ todo) \cup {s})
  BY FS_AddElement DEF TypeInv
<1> QED BY <1>1, <1>2

(* The columns printed are unchanged when the counters are.                 *)
LEMMA SameColumns ==
  ASSUME UNCHANGED stats
  PROVE  Columns' = Columns
BY DEF Columns

(* A step that prints nothing keeps the lines.                              *)
LEMMA SameLines ==
  ASSUME UNCHANGED <<result, mode, lines, line>>, LinesInv
  PROVE  LinesInv'
BY DEF LinesInv, EndsAtLocation, HasLoc

(* One turn of the loop of printStats raises the counters of the kinds and  *)
(* the scope of one record by one.                                          *)
LEMMA CountStep ==
  ASSUME IInv, NEW s \in Stores, Count(s)
  PROVE  IInv'
<1> USE DEF IInv
<1>1. /\ mode = "stats" /\ s \in todo /\ todo' = todo \ {s}
      /\ stats' = [kind \in ReportKinds |->
                     IF kind \in StatKinds(result[s])
                     THEN [stats[kind] EXCEPT ![Scope(result[s])] = @ + 1]
                     ELSE stats[kind]]
      /\ UNCHANGED <<result, mode, lines, line, columns, phase>>
  <2>1. StatField(StatScope(result[s].ptr, result[s].value)) = Scope(result[s])
    BY BothCopiesOfScope
  <2> QED BY <2>1 DEF Count
<1>2. /\ s \in Stores /\ result[s] \in Records /\ s \notin Stores \ todo
      /\ Stores \ todo' = (Stores \ todo) \cup {s}
      /\ todo' \subseteq Stores /\ IsFiniteSet(Stores \ todo')
  BY <1>1, WalkedOneMore
<1>3. ASSUME NEW kind \in ReportKinds, NEW scope \in Scopes
      PROVE  /\ stats[kind][scope] \in Nat /\ stats' \in [ReportKinds -> [Scopes -> Nat]]
             /\ stats'[kind][scope] = IF HasKind(result[s], kind) /\ scope = Scope(result[s])
                                      THEN stats[kind][scope] + 1 ELSE stats[kind][scope]
  <2>1. Scope(result[s]) \in Scopes
    BY ScopeInScopes
  <2>2. \A k \in ReportKinds : k \in StatKinds(result[s]) <=> HasKind(result[s], k)
    BY <1>2, CountedKinds
  <2>3. \A k \in ReportKinds : stats[k] \in [Scopes -> Nat]
    BY DEF TypeInv
  <2>4. stats[kind][scope] \in Nat
    BY <2>3
  <2>5. stats' \in [ReportKinds -> [Scopes -> Nat]]
    <3>1. ASSUME NEW k \in ReportKinds
          PROVE  [stats[k] EXCEPT ![Scope(result[s])] = @ + 1] \in [Scopes -> Nat]
      BY <2>1, <2>3
    <3> QED BY <1>1, <2>3, <3>1
  <2>6. stats'[kind] = IF HasKind(result[s], kind)
                       THEN [stats[kind] EXCEPT ![Scope(result[s])] = @ + 1]
                       ELSE stats[kind]
    BY <1>1, <2>2
  <2>7. stats[kind] \in [Scopes -> Nat]
    BY <2>3
  <2> QED BY <2>1, <2>4, <2>5, <2>6, <2>7
<1>4. TypeInv'
  <2>1. stats' \in [ReportKinds -> [Scopes -> Nat]]
    BY <1>3 DEF ReportKinds, Scopes
  <2>2. phase = "running" \/ phase # "done"
    BY <1>1 DEF TypeInv
  <2> QED BY <1>1, <1>2, <2>1 DEF TypeInv
<1>5. CountersInv'
  <2>1. ASSUME NEW kind \in ReportKinds, NEW scope \in Scopes
        PROVE  stats'[kind][scope] = Cardinality(Counted(kind, scope)')
    <3> DEFINE C == Counted(kind, scope)
    <3>1. IsFiniteSet(C) /\ s \notin C
      <4>1. C \subseteq Stores \ todo /\ s \notin C
        BY <1>1 DEF Counted
      <4> HIDE DEF C
      <4> QED BY <4>1, FS_Subset DEF TypeInv
    <3>2. Cardinality(C \cup {s}) = Cardinality(C) + 1
      <4> HIDE DEF C
      <4> QED BY <3>1, FS_AddElement
    <3>3. stats[kind][scope] = Cardinality(C)
      BY <1>1 DEF CountersInv
    <3>4. CASE HasKind(result[s], kind) /\ scope = Scope(result[s])
      <4>1. Counted(kind, scope)' = C \cup {s}
        BY <1>1, <1>2, <3>4 DEF Counted, HasKind, Scope
      <4> QED BY <1>3, <3>2, <3>3, <3>4, <4>1
    <3>5. CASE ~(HasKind(result[s], kind) /\ scope = Scope(result[s]))
      <4>1. Counted(kind, scope)' = C
        BY <1>1, <1>2, <3>5 DEF Counted, HasKind, Scope
      <4> QED BY <1>3, <3>3, <3>5, <4>1
    <3> QED BY <3>4, <3>5
  <2>2. columns' = <<>>
    BY <1>1 DEF CountersInv
  <2> QED BY <1>1, <2>1, <2>2 DEF CountersInv
<1>6. PrintedInv'
  <2>1. Printed' = Printed
    BY <1>1 DEF Printed
  <2> QED BY <1>1, <2>1 DEF PrintedInv
<1>7. LinesInv'
  BY <1>1, SameLines
<1> QED BY <1>4, <1>5, <1>6, <1>7

(* The line of numbers is printed when every record has been counted.       *)
LEMMA PrintStatsStep ==
  ASSUME IInv, PrintStats
  PROVE  IInv'
<1> USE DEF IInv
<1>1. /\ mode = "stats" /\ todo = {} /\ columns' = Columns /\ phase' = "done"
      /\ UNCHANGED <<result, mode, todo, stats, lines, line>>
  BY DEF PrintStats
<1>2. TypeInv'
  BY <1>1 DEF TypeInv
<1>3. CountersInv'
  <2>1. ASSUME NEW kind \in ReportKinds, NEW scope \in Scopes
        PROVE  Counted(kind, scope)' = Counted(kind, scope)
    BY <1>1 DEF Counted
  <2>2. Columns' = Columns
    BY <1>1, SameColumns
  <2> QED BY <1>1, <2>1, <2>2 DEF CountersInv
<1>4. PrintedInv'
  <2>1. Printed' = Printed
    BY <1>1 DEF Printed
  <2> QED BY <1>1, <2>1 DEF PrintedInv
<1>5. LinesInv'
  BY <1>1, SameLines
<1> QED BY <1>2, <1>3, <1>4, <1>5

(* The rows of one record, in the order of its kinds.                       *)
RowSeq(s) == [k \in DOMAIN SourceKinds(result[s]) |-> <<SourceKinds(result[s])[k], Scope(result[s]), s>>]

(* The rows of one record are the ones owed, each once, and at least one.   *)
LEMMA RowSeqProperties ==
  ASSUME NEW s \in Stores, result[s] \in Records
  PROVE  /\ RowSeq(s) \in Seq(AllRows) /\ RowSeq(s) # <<>> /\ IsInjective(RowSeq(s))
         /\ ToSet(RowSeq(s)) = RowsOf(s)
<1> DEFINE kinds == SourceKinds(result[s])
           rows == RowSeq(s)
           scope == Scope(result[s])
           N == Len(kinds)
<1>1. /\ kinds \in Seq(ReportKinds) /\ IsInjective(kinds) /\ kinds # <<>>
      /\ scope \in Scopes
  BY KindsProperties, ScopeInScopes
<1>2. rows = [k \in DOMAIN kinds |-> <<kinds[k], scope, s>>]
  BY DEF RowSeq
<1>3. RowsOf(s) = {<<kind, scope, s>> : kind \in ToSet(kinds)}
  BY DEF RowsOf
<1> HIDE DEF kinds, scope, rows
<1>4. DOMAIN kinds = 1..N /\ N \in Nat \ {0} /\ \A k \in 1..N : kinds[k] \in ReportKinds
  BY <1>1, LenProperties, EmptySeq, ElementOfSeq
<1>5. rows \in Seq(AllRows) /\ DOMAIN rows = 1..N /\ rows # <<>>
  <2>1. ASSUME NEW k \in 1..N PROVE <<kinds[k], scope, s>> \in AllRows
    BY <1>1, <1>4 DEF AllRows, SourceRows
  <2>2. rows = [k \in 1..N |-> <<kinds[k], scope, s>>]
    BY <1>2, <1>4
  <2>3. rows \in [1..N -> AllRows]
    BY <2>1, <2>2
  <2>4. rows \in Seq(AllRows) /\ Len(rows) = N
    BY <1>4, <2>3
  <2> QED BY <1>4, <2>3, <2>4
<1>6. IsInjective(rows)
  <2>1. ASSUME NEW a \in 1..N, NEW b \in 1..N, rows[a] = rows[b]
        PROVE  a = b
    <3>1. rows[a][1] = kinds[a] /\ rows[b][1] = kinds[b]
      BY <1>2, <1>4
    <3>2. kinds[a] = kinds[b]
      BY <2>1, <3>1
    <3> QED BY <1>1, <1>4, <3>2 DEF IsInjective
  <2> QED BY <1>5, <2>1 DEF IsInjective
<1>7. ToSet(rows) = {<<kind, scope, s>> : kind \in ToSet(kinds)}
  BY <1>2 DEF ToSet
<1> QED BY <1>3, <1>5, <1>6, <1>7 DEF rows

(* Rows with no repetition, none of them printed before.                    *)
LEMMA PrintMore ==
  ASSUME TypeInv, IsInjective(Printed), NEW rows \in Seq(AllRows), IsInjective(rows),
         ToSet(Printed) \cap ToSet(rows) = {}
  PROVE  /\ FlattenSeq(lines) \in Seq(AllRows)
         /\ FlattenSeq(lines) \o (line \o rows) = Printed \o rows
         /\ IsInjective(Printed \o rows)
         /\ ToSet(Printed \o rows) = ToSet(Printed) \cup ToSet(rows)
<1>1. FlattenSeq(lines) \in Seq(AllRows) /\ line \in Seq(AllRows)
  <2>1. <<>> \in Seq(AllRows)
    OBVIOUS
  <2>2. lines \in Seq(Seq(AllRows)) /\ line \in Seq(AllRows)
    BY DEF TypeInv, SeqOfSeq
  <2> QED BY <2>1, <2>2, FlattenAppend
<1> DEFINE f == FlattenSeq(lines)
           p == Printed
<1>2. p = f \o line
  BY DEF Printed
<1> HIDE DEF f, p
<1>3. f \in Seq(AllRows) /\ line \in Seq(AllRows)
  BY <1>1 DEF f
<1>4. f \o (line \o rows) = (f \o line) \o rows
  BY <1>3, ConcatAssociative
<1>5. p \in Seq(AllRows) /\ IsInjective(p) /\ ToSet(p) \cap ToSet(rows) = {}
  <2>1. f \o line \in Seq(AllRows)
    BY <1>3, ConcatProperties
  <2> QED BY <1>2, <2>1 DEF p
<1>6. IsInjective(p \o rows) /\ ToSet(p \o rows) = ToSet(p) \cup ToSet(rows)
  BY <1>5, ConcatInjective, ConcatContents
<1> QED BY <1>1, <1>2, <1>4, <1>6 DEF f, p

(* A step of a listing leaves the counters of printStats alone.             *)
LEMMA SameCounters ==
  ASSUME CountersInv, mode # "stats", UNCHANGED <<mode, stats, columns>>
  PROVE  CountersInv'
BY DEF CountersInv

(* One turn of the loop of printSource prints the rows of one record, each  *)
(* on a line of its own unless the store has no debug location.             *)
LEMMA RowsStep ==
  ASSUME IInv, NEW s \in Stores, Rows(s)
  PROVE  IInv'
<1> USE DEF IInv
<1> DEFINE rows == RowSeq(s)
<1>1. /\ mode = "source" /\ s \in todo /\ todo' = todo \ {s}
      /\ UNCHANGED <<result, mode, stats, columns, phase>>
      /\ IF result[s].hasLoc
         THEN lines' = lines \o RowLines(line, rows) /\ line' = <<>>
         ELSE line' = line \o rows /\ lines' = lines
  <2>1. ScopeName(result[s]) = Scope(result[s])
    BY BothCopiesOfScope
  <2> QED BY <2>1 DEF Rows, RowSeq, RowLines
<1>2. /\ s \in Stores /\ result[s] \in Records /\ s \notin Stores \ todo
      /\ Stores \ todo' = (Stores \ todo) \cup {s}
      /\ todo' \subseteq Stores /\ IsFiniteSet(Stores \ todo')
  BY <1>1, WalkedOneMore
<1>3. /\ rows \in Seq(AllRows) /\ rows # <<>> /\ IsInjective(rows)
      /\ ToSet(rows) = RowsOf(s)
  BY <1>2, RowSeqProperties
<1>l. \A k \in DOMAIN rows : rows[k][3] = s
  BY DEF RowSeq
<1> HIDE DEF rows
<1>4. /\ lines \in SeqOfSeq(AllRows) /\ line \in Seq(AllRows)
      /\ <<>> \in Seq(AllRows) /\ IsInjective(Printed)
      /\ ToSet(Printed) = UNION {RowsOf(t) : t \in Stores \ todo}
  BY <1>1 DEF TypeInv, PrintedInv
<1>5. ToSet(Printed) \cap ToSet(rows) = {}
  <2>1. SUFFICES ASSUME NEW x \in ToSet(Printed), x \in ToSet(rows) PROVE FALSE
    OBVIOUS
  <2>2. PICK t \in Stores \ todo : x \in RowsOf(t)
    BY <1>4
  <2>3. x[3] = t /\ x[3] = s
    BY <1>3, <2>1, <2>2 DEF RowsOf
  <2> QED BY <1>2, <2>3
<1>6. /\ FlattenSeq(lines) \in Seq(AllRows)
      /\ FlattenSeq(lines) \o (line \o rows) = Printed \o rows
      /\ IsInjective(Printed \o rows)
      /\ ToSet(Printed \o rows) = ToSet(Printed) \cup ToSet(rows)
  BY <1>3, <1>4, <1>5, PrintMore
<1>7. /\ RowLines(line, rows) \in SeqOfSeq(AllRows)
      /\ Len(RowLines(line, rows)) = Len(rows)
      /\ FlattenSeq(lines \o RowLines(line, rows)) = FlattenSeq(lines) \o (line \o rows)
  BY <1>3, <1>4, FlattenRows
<1>8. line \o rows \in Seq(AllRows)
  BY <1>3, <1>4, ConcatProperties
<1>9. lines' \in SeqOfSeq(AllRows) /\ line' \in Seq(AllRows)
  <2>1. lines \o RowLines(line, rows) \in SeqOfSeq(AllRows)
    BY <1>4, <1>7, ConcatProperties DEF SeqOfSeq
  <2> QED BY <1>1, <1>4, <1>8, <2>1
<1>10. Printed' = Printed \o rows
  <2>1. CASE result[s].hasLoc
    <3>1. Printed' = FlattenSeq(lines \o RowLines(line, rows)) \o <<>>
      BY <1>1, <2>1 DEF Printed
    <3> DEFINE p == FlattenSeq(lines) \o (line \o rows)
    <3>2. p \in Seq(AllRows)
      BY <1>6, <1>8, ConcatProperties
    <3> HIDE DEF p
    <3>3. p \o <<>> = p
      BY <3>2, ConcatEmptySeq
    <3> QED BY <1>6, <1>7, <3>1, <3>3 DEF p
  <2>2. CASE ~result[s].hasLoc
    <3>1. Printed' = FlattenSeq(lines) \o (line \o rows)
      BY <1>1, <2>2 DEF Printed
    <3> QED BY <1>6, <3>1
  <2> QED BY <2>1, <2>2
<1>11. TypeInv'
  BY <1>1, <1>2, <1>9 DEF TypeInv
<1>12. CountersInv'
  BY <1>1, SameCounters
<1>13. PrintedInv'
  <2>1. \A t : RowsOf(t)' = RowsOf(t)
    BY <1>1 DEF RowsOf, SourceKinds, Scope
  <2>2. ToSet(Printed') = UNION {RowsOf(t) : t \in Stores \ todo'}
    <3>1. UNION {RowsOf(t) : t \in (Stores \ todo) \cup {s}}
            = (UNION {RowsOf(t) : t \in Stores \ todo}) \cup RowsOf(s)
      OBVIOUS
    <3> QED BY <1>2, <1>3, <1>4, <1>6, <1>10, <3>1
  <2>3. IsInjective(Printed')
    BY <1>6, <1>10
  <2> QED BY <1>1, <2>1, <2>2, <2>3 DEF PrintedInv
<1>14. DOMAIN rows = 1..Len(rows) /\ Len(rows) \in Nat \ {0} /\ DOMAIN line = 1..Len(line) /\ Len(line) \in Nat
  BY <1>3, <1>4, LenProperties, EmptySeq
<1>15. /\ \A k \in DOMAIN lines : Len(lines[k]) >= 1 /\ EndsAtLocation(lines[k])
       /\ \A j \in DOMAIN line : ~HasLoc(line[j])
  BY <1>1 DEF LinesInv
<1>16. \A k \in DOMAIN rows : HasLoc(rows[k]) <=> result[s].hasLoc
  BY <1>l DEF HasLoc
<1>17. LinesInv'
  <2>1. CASE ~result[s].hasLoc
    <3>1. ASSUME NEW j \in DOMAIN line' PROVE ~HasLoc(line'[j])
      <4>1. /\ DOMAIN (line \o rows) = 1..(Len(line) + Len(rows))
            /\ \A i \in 1..(Len(line) + Len(rows)) :
                 (line \o rows)[i] = IF i <= Len(line) THEN line[i] ELSE rows[i - Len(line)]
        BY <1>3, <1>4, ConcatProperties, LenProperties
      <4>2. j \in 1..(Len(line) + Len(rows)) /\ line' = line \o rows
        BY <1>1, <2>1, <3>1, <4>1
      <4>3. CASE j <= Len(line)
        <5>1. j \in DOMAIN line /\ line'[j] = line[j]
          BY <1>14, <4>1, <4>2, <4>3
        <5> QED BY <1>15, <5>1
      <4>4. CASE ~(j <= Len(line))
        <5>1. j - Len(line) \in DOMAIN rows /\ line'[j] = rows[j - Len(line)]
          BY <1>14, <4>1, <4>2, <4>4
        <5> QED BY <1>16, <2>1, <5>1
      <4> QED BY <4>3, <4>4
    <3> QED BY <1>1, <1>15, <2>1, <3>1 DEF LinesInv, EndsAtLocation, HasLoc
  <2>2. CASE result[s].hasLoc
    <3> DEFINE new == RowLines(line, rows)
               all == lines \o new
    <3>1. /\ DOMAIN lines = 1..Len(lines) /\ Len(lines) \in Nat
          /\ DOMAIN new = 1..Len(new) /\ Len(new) \in Nat
      BY <1>4, <1>7, LenProperties DEF SeqOfSeq
    <3>2. ASSUME NEW k \in 1..Len(new)
          PROVE  Len(new[k]) >= 1 /\ EndsAtLocation(new[k])
      <4>1. k \in DOMAIN rows /\ 1 \in DOMAIN rows
        BY <1>7, <1>14
      <4>2. new[k] = IF k = 1 THEN Append(line, rows[1]) ELSE <<rows[k]>>
        BY <4>1 DEF RowLines
      <4>3. CASE k = 1
        <5> DEFINE l == Append(line, rows[1])
        <5>1. /\ Len(l) = Len(line) + 1 /\ DOMAIN l = 1..(Len(line) + 1)
              /\ \A i \in 1..Len(line) : l[i] = line[i]
              /\ l[Len(line) + 1] = rows[1]
          <6>1. rows[1] \in AllRows
            BY <1>3, <4>1, ElementType
          <6> QED BY <1>4, <6>1, AppendProperties, LenProperties
        <5> HIDE DEF l
        <5>2. ASSUME NEW j \in DOMAIN l PROVE HasLoc(l[j]) <=> j = Len(l)
          <6>1. CASE j = Len(line) + 1
            BY <1>16, <2>2, <4>1, <5>1, <6>1
          <6>2. CASE j # Len(line) + 1
            <7>1. j \in 1..Len(line) /\ j # Len(l)
              BY <1>14, <5>1, <6>2
            <7> QED BY <1>14, <1>15, <5>1, <7>1
          <6> QED BY <6>1, <6>2
        <5>3. Len(l) >= 1 /\ EndsAtLocation(l)
          BY <1>14, <5>1, <5>2 DEF EndsAtLocation
        <5>4. new[k] = l
          BY <4>2, <4>3 DEF l
        <5> HIDE DEF new
        <5> QED BY <5>3, <5>4
      <4>4. CASE k # 1
        <5> DEFINE l == <<rows[k]>>
        <5>1. Len(l) = 1 /\ DOMAIN l = {1} /\ l[1] = rows[k]
          OBVIOUS
        <5> HIDE DEF l
        <5>2. Len(l) >= 1 /\ EndsAtLocation(l)
          BY <1>16, <2>2, <4>1, <5>1 DEF EndsAtLocation
        <5>3. new[k] = l
          BY <4>2, <4>4 DEF l
        <5> HIDE DEF new
        <5> QED BY <5>2, <5>3
      <4> QED BY <4>3, <4>4
    <3>3. /\ Len(all) = Len(lines) + Len(new) /\ DOMAIN all = 1..(Len(lines) + Len(new))
          /\ \A k \in 1..(Len(lines) + Len(new)) :
               all[k] = IF k <= Len(lines) THEN lines[k] ELSE new[k - Len(lines)]
      <4> HIDE DEF new
      <4>1. lines \in Seq(Seq(AllRows)) /\ new \in Seq(Seq(AllRows))
        BY <1>4, <1>7 DEF SeqOfSeq, new
      <4>2. /\ all \in Seq(Seq(AllRows)) /\ Len(all) = Len(lines) + Len(new)
            /\ \A k \in 1..(Len(lines) + Len(new)) :
                 all[k] = IF k <= Len(lines) THEN lines[k] ELSE new[k - Len(lines)]
        BY <4>1, ConcatProperties
      <4> QED BY <4>2, LenProperties
    <3> HIDE DEF new, all
    <3>4. ASSUME NEW k \in DOMAIN all
          PROVE  Len(all[k]) >= 1 /\ EndsAtLocation(all[k])
      <4>1. CASE k <= Len(lines)
        <5>1. k \in DOMAIN lines /\ all[k] = lines[k]
          BY <3>1, <3>3, <4>1
        <5> QED BY <1>15, <5>1
      <4>2. CASE ~(k <= Len(lines))
        <5>1. k - Len(lines) \in 1..Len(new) /\ all[k] = new[k - Len(lines)]
          BY <3>1, <3>3, <4>2
        <5> QED BY <3>2, <5>1
      <4> QED BY <4>1, <4>2
    <3>5. lines' = all /\ line' = <<>> /\ result' = result /\ mode' = mode /\ mode = "source"
      BY <1>1, <2>2 DEF all, new
    <3>6. DOMAIN line' = {}
      <4>1. 1..0 = {}
        OBVIOUS
      <4> QED BY <3>5, <4>1
    <3> QED BY <3>4, <3>5, <3>6 DEF LinesInv, EndsAtLocation, HasLoc
  <2> QED BY <2>1, <2>2
<1> QED BY <1>11, <1>12, <1>13, <1>17

(* One turn of the loop of printDetail prints one record.                   *)
LEMMA DetailStep ==
  ASSUME IInv, NEW s \in Stores, Detail(s)
  PROVE  IInv'
<1> USE DEF IInv
<1> DEFINE row == DetailRow(s)
           rows == <<row>>
<1>1. /\ mode = "details" /\ s \in todo /\ todo' = todo \ {s}
      /\ lines' = Append(lines, rows)
      /\ UNCHANGED <<result, mode, stats, line, columns, phase>>
  BY DEF Detail, DetailRow
<1>2. /\ s \in Stores /\ result[s] \in Records /\ s \notin Stores \ todo
      /\ Stores \ todo' = (Stores \ todo) \cup {s}
      /\ todo' \subseteq Stores /\ IsFiniteSet(Stores \ todo')
  BY <1>1, WalkedOneMore
<1>3. row \in AllRows /\ row[3] = s
  BY <1>2 DEF AllRows, DetailRows, DetailRow, Records
<1> HIDE DEF row
<1>4. /\ rows \in Seq(AllRows) /\ IsInjective(rows) /\ ToSet(rows) = {row} /\ Len(rows) = 1
  <2>1. rows \in Seq(AllRows) /\ DOMAIN rows = {1} /\ rows[1] = row /\ Len(rows) = 1
    BY <1>3
  <2> HIDE DEF rows
  <2> QED BY <2>1 DEF IsInjective, ToSet
<1> HIDE DEF rows
<1>5. /\ lines \in SeqOfSeq(AllRows) /\ line = <<>>
      /\ <<>> \in Seq(AllRows) /\ IsInjective(Printed)
      /\ ToSet(Printed) = {DetailRow(t) : t \in Stores \ todo}
  BY <1>1 DEF TypeInv, PrintedInv
<1>6. ToSet(Printed) \cap ToSet(rows) = {}
  <2>1. SUFFICES ASSUME row \in ToSet(Printed) PROVE FALSE
    BY <1>4
  <2>2. PICK t \in Stores \ todo : row = DetailRow(t)
    BY <1>5, <2>1
  <2>3. row[3] = t
    BY <2>2 DEF DetailRow
  <2> QED BY <1>2, <1>3, <2>3
<1>7. /\ FlattenSeq(lines) \in Seq(AllRows)
      /\ FlattenSeq(lines) \o (line \o rows) = Printed \o rows
      /\ IsInjective(Printed \o rows)
      /\ ToSet(Printed \o rows) = ToSet(Printed) \cup ToSet(rows)
  BY <1>4, <1>5, <1>6, PrintMore
<1>8. /\ lines' \in SeqOfSeq(AllRows)
      /\ FlattenSeq(lines') = FlattenSeq(lines) \o rows
  <2>1. lines \in Seq(Seq(AllRows))
    BY <1>5 DEF SeqOfSeq
  <2>2. Append(lines, rows) \in Seq(Seq(AllRows))
    BY <1>4, <2>1, AppendProperties
  <2>3. FlattenSeq(Append(lines, rows)) = FlattenSeq(lines) \o rows
    BY <1>4, <2>1, FlattenAppend
  <2> QED BY <1>1, <2>2, <2>3 DEF SeqOfSeq
<1>9. Printed' = Printed \o rows
  <2>1. Printed' = (FlattenSeq(lines) \o rows) \o <<>>
    BY <1>1, <1>5, <1>8 DEF Printed
  <2>2. <<>> \o rows = rows
    BY <1>4, ConcatEmptySeq
  <2> DEFINE p == FlattenSeq(lines) \o rows
  <2>3. p \in Seq(AllRows)
    BY <1>4, <1>7, ConcatProperties
  <2> HIDE DEF p
  <2>4. p \o <<>> = p
    BY <2>3, ConcatEmptySeq
  <2> QED BY <1>5, <1>7, <2>1, <2>2, <2>4 DEF p
<1>10. TypeInv'
  BY <1>1, <1>2, <1>8 DEF TypeInv
<1>11. CountersInv'
  BY <1>1, SameCounters
<1>12. PrintedInv'
  <2>1. \A t : DetailRow(t)' = DetailRow(t)
    BY <1>1 DEF DetailRow
  <2>2. ToSet(Printed') = {DetailRow(t) : t \in Stores \ todo'}
    <3>1. ToSet(Printed') = {DetailRow(t) : t \in Stores \ todo} \cup {DetailRow(s)}
      BY <1>4, <1>5, <1>7, <1>9 DEF row
    <3>2. {DetailRow(t) : t \in (Stores \ todo) \cup {s}}
            = {DetailRow(t) : t \in Stores \ todo} \cup {DetailRow(s)}
      OBVIOUS
    <3> QED BY <1>2, <3>1, <3>2
  <2>3. IsInjective(Printed')
    BY <1>7, <1>9
  <2> QED BY <1>1, <1>5, <2>1, <2>2, <2>3 DEF PrintedInv
<1>13. LinesInv'
  <2>1. /\ Len(lines) \in Nat /\ DOMAIN lines = 1..Len(lines)
        /\ DOMAIN lines' = 1..(Len(lines) + 1)
        /\ \A k \in 1..Len(lines) : lines'[k] = lines[k]
        /\ lines'[Len(lines) + 1] = rows
    <3>1. lines \in Seq(Seq(AllRows))
      BY <1>5 DEF SeqOfSeq
    <3>2. /\ Append(lines, rows) \in Seq(Seq(AllRows))
          /\ Len(Append(lines, rows)) = Len(lines) + 1
          /\ \A k \in 1..Len(lines) : Append(lines, rows)[k] = lines[k]
          /\ Append(lines, rows)[Len(lines) + 1] = rows
      BY <1>4, <3>1, AppendProperties
    <3> QED BY <1>1, <3>1, <3>2, LenProperties
  <2>2. ASSUME NEW k \in DOMAIN lines'
        PROVE  Len(lines'[k]) = 1
    <3>1. CASE k \in DOMAIN lines
      BY <1>1, <2>1, <3>1 DEF LinesInv
    <3>2. CASE k \notin DOMAIN lines
      <4>1. k = Len(lines) + 1
        BY <2>1, <2>2, <3>2
      <4>2. lines'[k] = rows
        BY <2>1, <4>1
      <4>3. Len(lines'[k]) = 1
        BY <1>4, <4>2
      <4> QED BY <4>3
    <3> QED BY <3>1, <3>2
  <2> QED BY <1>1, <1>5, <2>2 DEF LinesInv
<1> QED BY <1>10, <1>11, <1>12, <1>13

(* The end of a listing prints nothing.                                     *)
LEMMA FinishRowsStep ==
  ASSUME IInv, FinishRows
  PROVE  IInv'
<1> USE DEF IInv
<1>1. /\ mode \in {"details", "source"} /\ todo = {} /\ phase' = "done"
      /\ UNCHANGED <<result, mode, todo, stats, lines, line, columns>>
  BY DEF FinishRows
<1>2. TypeInv'
  BY <1>1 DEF TypeInv
<1>3. CountersInv'
  BY <1>1, SameCounters
<1>4. Printed' = Printed /\ \A t : RowsOf(t)' = RowsOf(t) /\ DetailRow(t)' = DetailRow(t)
  BY <1>1 DEF Printed, RowsOf, DetailRow, SourceKinds, Scope
<1>5. PrintedInv'
  BY <1>1, <1>4 DEF PrintedInv
<1>6. LinesInv'
  BY <1>1, SameLines
<1> QED BY <1>2, <1>3, <1>5, <1>6

(* A step of another part of the program keeps the report.                  *)
LEMMA StutterStep ==
  ASSUME IInv, UNCHANGED reportVars
  PROVE  IInv'
<1> USE DEF IInv
<1>1. UNCHANGED <<result, mode, todo, stats, lines, line, columns, phase>>
  BY DEF reportVars
<1>2. TypeInv'
  BY <1>1 DEF TypeInv
<1>3. CountersInv'
  <2>1. ASSUME NEW kind \in ReportKinds, NEW scope \in Scopes
        PROVE  Counted(kind, scope)' = Counted(kind, scope)
    BY <1>1 DEF Counted
  <2>2. Columns' = Columns
    BY <1>1, SameColumns
  <2> QED BY <1>1, <2>1, <2>2 DEF CountersInv
<1>4. Printed' = Printed /\ \A t : RowsOf(t)' = RowsOf(t) /\ DetailRow(t)' = DetailRow(t)
  BY <1>1 DEF Printed, RowsOf, DetailRow, SourceKinds, Scope
<1>5. PrintedInv'
  BY <1>1, <1>4 DEF PrintedInv
<1>6. LinesInv'
  BY <1>1, SameLines
<1> QED BY <1>2, <1>3, <1>5, <1>6

(* The counters, what is printed and its lines are right at every moment o  *)
(* every report.                                                            *)
LEMMA Inductive == ReportSpec => []IInv
<1>1. IInv /\ [ReportNext]_reportVars => IInv'
  BY CountStep, RowsStep, DetailStep, PrintStatsStep, FinishRowsStep, StutterStep DEF ReportNext
<1> QED BY InitInv, <1>1, PTL DEF ReportSpec

------------------------------------------------------------------------------
(* Theorems.                                                                *)

(* Each number printStats prints is the number of records of the column of  *)
(* the header above it, in whatever order the map held them.                *)
THEOREM ColumnsCorrect == ReportSpec => []ColumnsMatchHeader
<1>1. IInv => ColumnsMatchHeader
  <2> SUFFICES ASSUME IInv, columns # <<>>
               PROVE  /\ Len(columns) = Len(Header)
                      /\ \A c \in DOMAIN Header :
                           columns[c] = Cardinality({s \in Stores : Belongs(s, Header[c])})
    BY DEF ColumnsMatchHeader
  <2>1. /\ mode = "stats" /\ todo = {} /\ columns = Columns
        /\ stats \in [ReportKinds -> [Scopes -> Nat]]
    BY DEF IInv, CountersInv, TypeInv
  <2>2. /\ DOMAIN Header = 1..15 /\ Len(Header) = 15
        /\ ToSet(Header) = ReportKinds \X Scopes
    BY HeaderColumns
  <2>3. /\ Len(columns) = 15
        /\ \A c \in 1..15 : columns[c] = stats[Header[c][1]][Header[c][2]]
    BY <2>1, ColumnsAreCounters
  <2>4. ASSUME NEW c \in 1..15
        PROVE  columns[c] = Cardinality({s \in Stores : Belongs(s, Header[c])})
    <3>1. Header[c] \in ReportKinds \X Scopes
      BY <2>2 DEF ToSet
    <3>2. PICK kind \in ReportKinds, scope \in Scopes : Header[c] = <<kind, scope>>
      BY <3>1
    <3>3. Counted(kind, scope) = {s \in Stores : Belongs(s, <<kind, scope>>)}
      BY <2>1, BelongsByKindAndScope DEF Counted
    <3>4. columns[c] = stats[kind][scope]
      <4>1. columns[c] = stats[Header[c][1]][Header[c][2]]
        BY <2>3
      <4>2. Header[c][1] = kind /\ Header[c][2] = scope
        BY <3>2
      <4> QED BY <4>1, <4>2
    <3>5. stats[kind][scope] = Cardinality(Counted(kind, scope))
      BY <2>1 DEF IInv, CountersInv
    <3> QED BY <3>2, <3>3, <3>4, <3>5
  <2> QED BY <2>2, <2>3, <2>4
<1> QED BY <1>1, Inductive, PTL

(* printSource lists a record under exactly the columns printStats counts   *)
(* it in, each once; it and printDetail list every record.                  *)
THEOREM RowsCorrect == ReportSpec => []RowsMatchStats
<1>1. IInv => RowsMatchStats
  <2> SUFFICES ASSUME IInv, mode # "stats", phase = "done"
               PROVE  /\ mode = "source" => \A s \in Stores, c \in ToSet(Header) :
                           Belongs(s, c) <=> <<c[1], c[2], s>> \in ToSet(Printed)
                      /\ IsInjective(Printed)
                      /\ {row[3] : row \in ToSet(Printed)} = Stores
    BY DEF RowsMatchStats, Printed
  <2>1. /\ todo = {} /\ mode \in {"details", "source"} /\ IsInjective(Printed)
        /\ \A s \in Stores : result[s] \in Records
    BY DEF IInv, TypeInv, PrintedInv
  <2>2. mode = "source" => ToSet(Printed) = UNION {RowsOf(s) : s \in Stores}
    BY <2>1 DEF IInv, PrintedInv
  <2>3. mode = "details" => ToSet(Printed) = {DetailRow(s) : s \in Stores}
    BY <2>1 DEF IInv, PrintedInv
  <2>4. ASSUME NEW s \in Stores
        PROVE  /\ RowsOf(s) # {} /\ \A row \in RowsOf(s) : row[3] = s
               /\ \A kind \in ReportKinds, scope \in Scopes :
                    <<kind, scope, s>> \in RowsOf(s)
                      <=> HasKind(result[s], kind) /\ scope = Scope(result[s])
    <3>1. /\ SourceKinds(result[s]) \in Seq(ReportKinds) /\ SourceKinds(result[s]) # <<>>
          /\ ToSet(SourceKinds(result[s])) = {kind \in ReportKinds : HasKind(result[s], kind)}
      BY <2>1, KindsProperties
    <3>2. ToSet(SourceKinds(result[s])) # {}
      <4>1. 1 \in DOMAIN SourceKinds(result[s])
        BY <3>1, LenProperties, EmptySeq
      <4> QED BY <4>1 DEF ToSet
    <3> DEFINE kinds == ToSet(SourceKinds(result[s]))
               scp == Scope(result[s])
    <3>3. RowsOf(s) = {<<kind, scp, s>> : kind \in kinds}
      BY DEF RowsOf
    <3>4. kinds # {} /\ \A kind \in ReportKinds : kind \in kinds <=> HasKind(result[s], kind)
      BY <3>1, <3>2
    <3> HIDE DEF kinds, scp
    <3>5. RowsOf(s) # {} /\ \A row \in RowsOf(s) : row[3] = s
      <4>1. PICK kind \in kinds : TRUE
        BY <3>4
      <4>2. <<kind, scp, s>> \in RowsOf(s)
        BY <3>3
      <4>3. ASSUME NEW row \in RowsOf(s) PROVE row[3] = s
        BY <3>3
      <4> QED BY <4>2, <4>3
    <3>6. ASSUME NEW kind \in ReportKinds, NEW scope \in Scopes
          PROVE  <<kind, scope, s>> \in RowsOf(s) <=> HasKind(result[s], kind) /\ scope = scp
      BY <3>3, <3>4
    <3> QED BY <3>5, <3>6 DEF scp
  <2>5. ASSUME mode = "source", NEW s \in Stores, NEW c \in ToSet(Header)
        PROVE  Belongs(s, c) <=> <<c[1], c[2], s>> \in ToSet(Printed)
    <3>1. PICK kind \in ReportKinds, scope \in Scopes : c = <<kind, scope>>
      BY HeaderColumns
    <3>2. Belongs(s, c) <=> <<kind, scope, s>> \in RowsOf(s)
      BY <2>4, <3>1, BelongsByKindAndScope
    <3>3. <<kind, scope, s>> \in ToSet(Printed) <=> <<kind, scope, s>> \in RowsOf(s)
      <4>1. ASSUME NEW t \in Stores, <<kind, scope, s>> \in RowsOf(t) PROVE t = s
        BY <2>4, <4>1
      <4> QED BY <2>2, <2>5, <4>1
    <3> QED BY <3>1, <3>2, <3>3
  <2>6. {row[3] : row \in ToSet(Printed)} = Stores
    <3>1. CASE mode = "source"
      <4>1. ASSUME NEW row \in ToSet(Printed) PROVE row[3] \in Stores
        BY <2>2, <2>4, <3>1
      <4>2. ASSUME NEW s \in Stores PROVE \E row \in ToSet(Printed) : row[3] = s
        <5>1. PICK row \in RowsOf(s) : row[3] = s
          BY <2>4
        <5> QED BY <2>2, <3>1, <5>1
      <4> QED BY <4>1, <4>2
    <3>2. CASE mode = "details"
      <4>1. \A s \in Stores : DetailRow(s)[3] = s
        BY DEF DetailRow
      <4> QED BY <2>3, <3>2, <4>1
    <3> QED BY <2>1, <3>1, <3>2
  <2> QED BY <2>1, <2>5, <2>6
<1> QED BY <1>1, Inductive, PTL

(* For every map: a line of printSource ends exactly at the row of a store  *)
(* with a debug location, and a line of printDetail is one record.          *)
THEOREM LinesCorrect == ReportSpec => []LinesEndAtLocations
<1>1. IInv => LinesEndAtLocations
  BY DEF IInv, LinesInv, PrintedInv, LinesEndAtLocations
<1> QED BY <1>1, Inductive, PTL
==============================================================================
