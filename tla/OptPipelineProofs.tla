-------------------------- MODULE OptPipelineProofs --------------------------
(***************************************************************************)
(* Theorems about the passes of one opt process and the code generator      *)
(* after them, for every set of programs, lists of passes and command       *)
(* lines: what clonefuncs makes of the list of functions, what the code     *)
(* generator emits, which functions the Hello passes greet, and what the    *)
(* reports of Statistics add up to.  The last three rest on the first.      *)
(***************************************************************************)
EXTENDS OptPipeline, SequenceLemmas, FiniteSetTheorems

------------------------------------------------------------------------------
(* The loop of Defined over a list of functions.                            *)
Keep(kept, fun) == IF isDeclaration(fun) THEN kept ELSE Append(kept, fun)

(* The loop of Defined has a result after every function of the list, and  *)
(* Defined is the last of them.                                            *)
LEMMA DefinedLoop ==
  ASSUME NEW T, NEW s \in Seq(T)
  PROVE  \E r \in [0..Len(s) -> Seq(T)] :
           /\ r[0] = <<>> /\ \A i \in 1..Len(s) : r[i] = Keep(r[i - 1], s[i])
           /\ Defined(s) = r[Len(s)]
<1> DEFINE N == Len(s)
           V == Seq(T)
           G == [i \in 1..N |-> [v \in V |-> Keep(v, s[i])]]
           start == <<>>
           IsLoop(q) == q = [i \in 0..N |-> IF i = 0 THEN <<>> ELSE Keep(q[i - 1], s[i])]
           w == CHOOSE q : IsLoop(q)
<1>1. N \in Nat /\ start \in V /\ \A i \in 1..N : s[i] \in T
  BY LenProperties, ElementOfSeq, EmptySeq
<1>2. \A i \in 1..N : \A v \in V : Keep(v, s[i]) \in V
  BY <1>1, AppendProperties DEF Keep
<1>3. G \in LoopBodies(N, V)
  <2> HIDE DEF N, V
  <2> QED BY <1>2 DEF LoopBodies
<1>4. PICK r \in [0..N -> V] : IsRun(r, N, start, G)
  <2> HIDE DEF N, V, G, start
  <2> QED BY <1>1, <1>3, IterationExists
<1>5. IsLoop(r)
  <2>1. ASSUME NEW i \in 0..N PROVE r[i] = IF i = 0 THEN <<>> ELSE Keep(r[i - 1], s[i])
    <3>1. i # 0 => i \in 1..N /\ i - 1 \in 0..N
      BY <1>1
    <3>2. i # 0 => r[i - 1] \in V /\ r[i] = G[i][r[i - 1]]
      <4> HIDE DEF N, V, G, start
      <4> QED BY <1>4, <3>1 DEF IsRun
    <3>3. r[0] = start
      BY <1>4 DEF IsRun
    <3> HIDE DEF N, V
    <3> QED BY <3>1, <3>2, <3>3
  <2> HIDE DEF N, V
  <2> QED BY <2>1
<1>6. IsLoop(w)
  <2> HIDE DEF IsLoop
  <2> QED BY <1>5
<1>7. Defined(s) = w[N]
  BY DEF Defined, Keep
<1> HIDE DEF w
<1>8. FollowsIn(V, w, N, start, G)
  <2>1. w[0] = start
    <3>1. 0 \in 0..N
      BY <1>1
    <3> HIDE DEF N
    <3> QED BY <1>6, <3>1
  <2>2. ASSUME NEW i \in 1..N, w[i - 1] \in V PROVE w[i] = G[i][w[i - 1]]
    <3>1. i \in 0..N /\ i # 0
      BY <1>1
    <3> HIDE DEF N, V
    <3>2. w[i] = Keep(w[i - 1], s[i])
      BY <1>6, <3>1
    <3> QED BY <2>2, <3>2
  <2> HIDE DEF N, V, G, start
  <2> QED BY <2>1, <2>2 DEF FollowsIn
<1>9. IsRun(w, N, start, G) /\ StaysIn(V, w, N)
  <2> HIDE DEF N, V, G, start
  <2> QED BY <1>1, <1>3, <1>8, IterationStays
<1>10. \A i \in 0..N : w[i] \in V
  BY <1>9 DEF StaysIn
<1>11. w \in [0..N -> V]
  <2>1. w = [i \in 0..N |-> w[i]]
    <3> HIDE DEF N
    <3> QED BY <1>6
  <2> HIDE DEF N, V
  <2> QED BY <1>10, <2>1
<1>12. w[0] = <<>> /\ \A i \in 1..N : w[i] = Keep(w[i - 1], s[i])
  <2>1. 0 \in 0..N /\ \A i \in 1..N : i \in 0..N /\ i # 0
    BY <1>1
  <2> HIDE DEF N
  <2> QED BY <1>6, <2>1
<1> QED BY <1>7, <1>11, <1>12

(* A declaration at the end changes nothing, a definition is added.         *)
LEMMA DefinedAppend ==
  ASSUME NEW T, NEW s \in Seq(T), NEW e \in T
  PROVE  Defined(Append(s, e)) = Keep(Defined(s), e)
<1> DEFINE N == Len(s)
           t == Append(s, e)
<1>1. /\ N \in Nat /\ t \in Seq(T) /\ Len(t) = N + 1 /\ t[N + 1] = e
      /\ \A i \in 1..N : t[i] = s[i]
  BY LenProperties, AppendProperties
<1>2. PICK r \in [0..N -> Seq(T)] :
        /\ r[0] = <<>> /\ \A i \in 1..N : r[i] = Keep(r[i - 1], s[i])
        /\ Defined(s) = r[N]
  BY DefinedLoop
<1>3. PICK q \in [0..(N + 1) -> Seq(T)] :
        /\ q[0] = <<>> /\ \A i \in 1..(N + 1) : q[i] = Keep(q[i - 1], t[i])
        /\ Defined(t) = q[N + 1]
  <2> HIDE DEF t
  <2>1. \E q \in [0..Len(t) -> Seq(T)] :
          /\ q[0] = <<>> /\ \A i \in 1..Len(t) : q[i] = Keep(q[i - 1], t[i])
          /\ Defined(t) = q[Len(t)]
    <3>1. t \in Seq(T)
      BY <1>1
    <3> QED BY <3>1, DefinedLoop, Zenon
  <2>2. Len(t) = N + 1
    BY <1>1
  <2> QED BY <2>1, <2>2
<1> HIDE DEF t
<1> DEFINE Same == {i \in 0..N : q[i] = r[i]}
<1>4. 0 \in Same
  BY <1>1, <1>2, <1>3
<1>5. ASSUME NEW i \in 1..N, i - 1 \in Same PROVE i \in Same
  <2>1. i \in 0..N /\ i \in 1..(N + 1)
    BY <1>1
  <2>2. q[i] = Keep(q[i - 1], t[i]) /\ r[i] = Keep(r[i - 1], s[i]) /\ t[i] = s[i]
    BY <1>1, <1>2, <1>3, <2>1
  <2> QED BY <1>5, <2>1, <2>2
<1>6. q[N] = r[N]
  <2>1. 0..N \subseteq Same
    <3> HIDE DEF Same, N
    <3> QED BY <1>1, <1>4, <1>5, PrefixInduction
  <2>2. N \in 0..N
    BY <1>1
  <2> QED BY <2>1, <2>2
<1>7. q[N + 1] = Keep(q[N], e)
  <2>1. N + 1 \in 1..(N + 1) /\ (N + 1) - 1 = N
    BY <1>1
  <2>2. q[N + 1] = Keep(q[(N + 1) - 1], t[N + 1])
    BY <1>3, <2>1
  <2> QED BY <1>1, <2>1, <2>2
<1> QED BY <1>2, <1>3, <1>6, <1>7 DEF t

(* A module without functions has no definitions.                          *)
LEMMA DefinedEmpty == Defined(<<>>) = <<>>
<1>1. <<>> \in Seq({0}) /\ Len(<<>>) = 0
  BY EmptySeq
<1>2. PICK r \in [0..Len(<<>>) -> Seq({0})] : r[0] = <<>> /\ Defined(<<>>) = r[Len(<<>>)]
  BY <1>1, DefinedLoop, ZenonT(30)
<1> QED BY <1>1, <1>2

(* What the list of definitions holds.                                      *)
LEMMA DefinedContents ==
  ASSUME NEW T, NEW s \in Seq(T)
  PROVE  /\ Defined(s) \in Seq(T)
         /\ ToSet(Defined(s)) = {fun \in ToSet(s) : ~isDeclaration(fun)}
<1> DEFINE Good == {w \in Seq(T) : /\ Defined(w) \in Seq(T)
                                   /\ ToSet(Defined(w)) = {fun \in ToSet(w) : ~isDeclaration(fun)}}
<1>1. <<>> \in Good
  <2>1. <<>> \in Seq(T)
    BY EmptySeq
  <2>2. ToSet(<<>>) = {}
    BY DEF ToSet
  <2> QED BY <2>1, <2>2, DefinedEmpty
<1>2. ASSUME NEW w \in Seq(T), NEW e \in T, w \in Good PROVE Append(w, e) \in Good
  <2>1. /\ Append(w, e) \in Seq(T) /\ ToSet(Append(w, e)) = ToSet(w) \cup {e}
    BY AppendContents
  <2>2. Defined(Append(w, e)) = Keep(Defined(w), e)
    BY DefinedAppend
  <2> DEFINE d == Defined(w)
  <2>3. d \in Seq(T) /\ ToSet(d) = {fun \in ToSet(w) : ~isDeclaration(fun)}
    BY <1>2
  <2>4. Append(d, e) \in Seq(T) /\ ToSet(Append(d, e)) = ToSet(d) \cup {e}
    <3> HIDE DEF d
    <3> QED BY <2>3, AppendContents
  <2> HIDE DEF d
  <2>5. CASE isDeclaration(e)
    <3>1. Keep(d, e) = d
      BY <2>5 DEF Keep
    <3>2. ToSet(d) = {fun \in ToSet(w) \cup {e} : ~isDeclaration(fun)}
      BY <2>3, <2>5
    <3>3. Defined(Append(w, e)) = d
      BY <2>2, <3>1 DEF d
    <3> QED BY <2>1, <2>3, <3>2, <3>3
  <2>6. CASE ~isDeclaration(e)
    <3>1. Keep(d, e) = Append(d, e)
      BY <2>6 DEF Keep
    <3>2. ToSet(Append(d, e)) = {fun \in ToSet(w) \cup {e} : ~isDeclaration(fun)}
      BY <2>3, <2>4, <2>6
    <3>3. Defined(Append(w, e)) = Append(d, e)
      BY <2>2, <3>1 DEF d
    <3> QED BY <2>1, <2>4, <3>2, <3>3
  <2> QED BY <2>5, <2>6
<1>3. Seq(T) \subseteq Good
  <2> HIDE DEF Good
  <2> QED BY <1>1, <1>2, AppendInduction
<1> QED BY <1>3

------------------------------------------------------------------------------
(* Counts, and adding them up.                                             *)
Counts == [StatNames -> Nat]

(* The counters at zero are counts.                                        *)
LEMMA NoCountsType == NoCounts \in Counts
BY DEF NoCounts, Counts

(* Counts are added to counts.                                             *)
LEMMA PlusType ==
  ASSUME NEW a \in Counts, NEW b \in Counts
  PROVE  Plus(a, b) \in Counts
BY DEF Plus, Counts

(* Zero adds nothing.                                                      *)
LEMMA PlusZero ==
  ASSUME NEW a \in Counts
  PROVE  Plus(a, NoCounts) = a /\ Plus(NoCounts, a) = a
BY DEF Plus, Counts, NoCounts

(* It makes no difference in which order three counts are added up.        *)
LEMMA PlusAssociative ==
  ASSUME NEW a \in Counts, NEW b \in Counts, NEW c \in Counts
  PROVE  Plus(Plus(a, b), c) = Plus(a, Plus(b, c))
BY DEF Plus, Counts

(* Nor which of two comes first.                                           *)
LEMMA PlusCommutes ==
  ASSUME NEW a \in Counts, NEW b \in Counts
  PROVE  Plus(a, b) = Plus(b, a)
BY DEF Plus, Counts

(* Twice as many copies have twice the counts.                             *)
LEMMA TimesOfTwo ==
  ASSUME NEW a \in Counts, NEW n \in Nat
  PROVE  Times(n, a) \in Counts /\ Times(2 * n, a) = Plus(Times(n, a), Times(n, a))
<1>1. ASSUME NEW k \in StatNames PROVE n * a[k] \in Nat /\ (2 * n) * a[k] = n * a[k] + n * a[k]
  <2>1. a[k] \in Nat
    BY DEF Counts
  <2> QED BY <2>1
<1> QED BY <1>1 DEF Times, Plus, Counts

(* The loop of SumOf.                                                       *)
LEMMA SumLoop ==
  ASSUME NEW s \in Seq(Counts)
  PROVE  \E r \in [0..Len(s) -> Counts] :
           /\ r[0] = NoCounts /\ \A i \in 1..Len(s) : r[i] = Plus(r[i - 1], s[i])
           /\ SumOf(s) = r[Len(s)]
<1> DEFINE N == Len(s)
           V == Counts
           G == [i \in 1..N |-> [v \in V |-> Plus(v, s[i])]]
           start == NoCounts
           IsLoop(q) == q = [i \in 0..N |-> IF i = 0 THEN NoCounts ELSE Plus(q[i - 1], s[i])]
           w == CHOOSE q : IsLoop(q)
<1>1. N \in Nat /\ start \in V /\ \A i \in 1..N : s[i] \in Counts
  BY LenProperties, ElementOfSeq, NoCountsType
<1>2. \A i \in 1..N : \A v \in V : Plus(v, s[i]) \in V
  BY <1>1, PlusType
<1>3. G \in LoopBodies(N, V)
  <2> HIDE DEF N, V
  <2> QED BY <1>2 DEF LoopBodies
<1>4. PICK r \in [0..N -> V] : IsRun(r, N, start, G)
  <2> HIDE DEF N, V, G, start
  <2> QED BY <1>1, <1>3, IterationExists
<1>5. IsLoop(r)
  <2>1. ASSUME NEW i \in 0..N PROVE r[i] = IF i = 0 THEN NoCounts ELSE Plus(r[i - 1], s[i])
    <3>1. i # 0 => i \in 1..N /\ i - 1 \in 0..N
      BY <1>1
    <3>2. i # 0 => r[i - 1] \in V /\ r[i] = G[i][r[i - 1]]
      <4> HIDE DEF N, V, G, start
      <4> QED BY <1>4, <3>1 DEF IsRun
    <3>3. r[0] = start
      BY <1>4 DEF IsRun
    <3> HIDE DEF N, V
    <3> QED BY <3>1, <3>2, <3>3
  <2> HIDE DEF N, V
  <2> QED BY <2>1
<1>6. IsLoop(w)
  <2> HIDE DEF IsLoop
  <2> QED BY <1>5
<1>7. SumOf(s) = w[N]
  BY DEF SumOf
<1> HIDE DEF w
<1>8. FollowsIn(V, w, N, start, G)
  <2>1. w[0] = start
    <3>1. 0 \in 0..N
      BY <1>1
    <3> HIDE DEF N
    <3> QED BY <1>6, <3>1
  <2>2. ASSUME NEW i \in 1..N, w[i - 1] \in V PROVE w[i] = G[i][w[i - 1]]
    <3>1. i \in 0..N /\ i # 0
      BY <1>1
    <3> HIDE DEF N, V
    <3>2. w[i] = Plus(w[i - 1], s[i])
      BY <1>6, <3>1
    <3> QED BY <2>2, <3>2
  <2> HIDE DEF N, V, G, start
  <2> QED BY <2>1, <2>2 DEF FollowsIn
<1>9. IsRun(w, N, start, G) /\ StaysIn(V, w, N)
  <2> HIDE DEF N, V, G, start
  <2> QED BY <1>1, <1>3, <1>8, IterationStays
<1>10. \A i \in 0..N : w[i] \in V
  BY <1>9 DEF StaysIn
<1>11. w \in [0..N -> V]
  <2>1. w = [i \in 0..N |-> w[i]]
    <3> HIDE DEF N
    <3> QED BY <1>6
  <2> HIDE DEF N, V
  <2> QED BY <1>10, <2>1
<1>12. w[0] = NoCounts /\ \A i \in 1..N : w[i] = Plus(w[i - 1], s[i])
  <2>1. 0 \in 0..N /\ \A i \in 1..N : i \in 0..N /\ i # 0
    BY <1>1
  <2> HIDE DEF N
  <2> QED BY <1>6, <2>1
<1> QED BY <1>7, <1>11, <1>12

(* Counts at the end are added.                                             *)
LEMMA SumAppend ==
  ASSUME NEW s \in Seq(Counts), NEW e \in Counts
  PROVE  SumOf(Append(s, e)) = Plus(SumOf(s), e)
<1> DEFINE N == Len(s)
           t == Append(s, e)
<1>1. /\ N \in Nat /\ t \in Seq(Counts) /\ Len(t) = N + 1 /\ t[N + 1] = e
      /\ \A i \in 1..N : t[i] = s[i]
  BY LenProperties, AppendProperties
<1>2. PICK r \in [0..N -> Counts] :
        /\ r[0] = NoCounts /\ \A i \in 1..N : r[i] = Plus(r[i - 1], s[i])
        /\ SumOf(s) = r[N]
  BY SumLoop
<1>3. PICK q \in [0..(N + 1) -> Counts] :
        /\ q[0] = NoCounts /\ \A i \in 1..(N + 1) : q[i] = Plus(q[i - 1], t[i])
        /\ SumOf(t) = q[N + 1]
  <2> HIDE DEF t
  <2>1. \E q \in [0..Len(t) -> Counts] :
          /\ q[0] = NoCounts /\ \A i \in 1..Len(t) : q[i] = Plus(q[i - 1], t[i])
          /\ SumOf(t) = q[Len(t)]
    <3>1. t \in Seq(Counts)
      BY <1>1
    <3> QED BY <3>1, SumLoop, Zenon
  <2>2. Len(t) = N + 1
    BY <1>1
  <2> QED BY <2>1, <2>2
<1> HIDE DEF t
<1> DEFINE Same == {i \in 0..N : q[i] = r[i]}
<1>4. 0 \in Same
  BY <1>1, <1>2, <1>3
<1>5. ASSUME NEW i \in 1..N, i - 1 \in Same PROVE i \in Same
  <2>1. i \in 0..N /\ i \in 1..(N + 1)
    BY <1>1
  <2>2. q[i] = Plus(q[i - 1], t[i]) /\ r[i] = Plus(r[i - 1], s[i]) /\ t[i] = s[i]
    BY <1>1, <1>2, <1>3, <2>1
  <2> QED BY <1>5, <2>1, <2>2
<1>6. q[N] = r[N]
  <2>1. 0..N \subseteq Same
    <3> HIDE DEF Same, N
    <3> QED BY <1>1, <1>4, <1>5, PrefixInduction
  <2>2. N \in 0..N
    BY <1>1
  <2> QED BY <2>1, <2>2
<1>7. q[N + 1] = Plus(q[N], e)
  <2>1. N + 1 \in 1..(N + 1) /\ (N + 1) - 1 = N
    BY <1>1
  <2>2. q[N + 1] = Plus(q[(N + 1) - 1], t[N + 1])
    BY <1>3, <2>1
  <2> QED BY <1>1, <2>1, <2>2
<1> QED BY <1>2, <1>3, <1>6, <1>7 DEF t

(* Nothing adds nothing.                                                   *)
LEMMA SumEmpty == SumOf(<<>>) = NoCounts
<1>1. <<>> \in Seq(Counts) /\ Len(<<>>) = 0
  BY EmptySeq
<1>2. PICK r \in [0..Len(<<>>) -> Counts] : r[0] = NoCounts /\ SumOf(<<>>) = r[Len(<<>>)]
  BY <1>1, SumLoop
<1> QED BY <1>1, <1>2

(* A sum of counts is counts.                                              *)
LEMMA SumType ==
  ASSUME NEW s \in Seq(Counts)
  PROVE  SumOf(s) \in Counts
<1>1. PICK r \in [0..Len(s) -> Counts] : SumOf(s) = r[Len(s)]
  BY SumLoop
<1>2. Len(s) \in 0..Len(s)
  BY LenProperties
<1> QED BY <1>1, <1>2

------------------------------------------------------------------------------
(* The passes there are.                                                   *)
Kinds == {"clonefuncs", "mystats"} \cup FunctionPasses

(* The number of copies doubles with each clonefuncs and stays the same    *)
(* with every other pass.                                                  *)
LEMMA CopiesLoop ==
  ASSUME passes \in Seq(Kinds)
  PROVE  /\ \A n \in 0..Len(passes) : Copies[n] \in Nat
         /\ Copies[0] = 1
         /\ \A n \in 1..Len(passes) :
              Copies[n] = IF passes[n] = "clonefuncs" THEN 2 * Copies[n - 1] ELSE Copies[n - 1]
<1> DEFINE N == Len(passes)
           Turn(v, i) == IF passes[i] = "clonefuncs" THEN 2 * v ELSE v
           G == [i \in 1..N |-> [v \in Nat |-> Turn(v, i)]]
           IsLoop(q) == q = [i \in 0..N |-> IF i = 0 THEN 1 ELSE Turn(q[i - 1], i)]
           w == CHOOSE q : IsLoop(q)
<1>1. N \in Nat
  BY LenProperties
<1>2. G \in LoopBodies(N, Nat)
  <2>1. \A i \in 1..N : \A v \in Nat : Turn(v, i) \in Nat
    OBVIOUS
  <2> HIDE DEF N, Turn
  <2> QED BY <2>1 DEF LoopBodies
<1>3. PICK r \in [0..N -> Nat] : IsRun(r, N, 1, G)
  <2> HIDE DEF N, G
  <2> QED BY <1>1, <1>2, IterationExists
<1>4. IsLoop(r)
  <2>1. ASSUME NEW i \in 0..N PROVE r[i] = IF i = 0 THEN 1 ELSE Turn(r[i - 1], i)
    <3>1. i # 0 => i \in 1..N /\ i - 1 \in 0..N
      BY <1>1
    <3>2. i # 0 => r[i - 1] \in Nat /\ r[i] = G[i][r[i - 1]]
      <4> HIDE DEF N, G
      <4> QED BY <1>3, <3>1 DEF IsRun
    <3>3. r[0] = 1
      BY <1>3 DEF IsRun
    <3> HIDE DEF N, Turn
    <3> QED BY <3>1, <3>2, <3>3
  <2> HIDE DEF N, Turn
  <2> QED BY <2>1
<1>5. IsLoop(w)
  <2> HIDE DEF IsLoop
  <2> QED BY <1>4
<1>6. Copies = w
  BY DEF Copies
<1> HIDE DEF w
<1>7. w[0] = 1 /\ \A i \in 1..N : w[i] = Turn(w[i - 1], i)
  <2>1. 0 \in 0..N /\ \A i \in 1..N : i \in 0..N /\ i # 0
    BY <1>1
  <2> HIDE DEF N, Turn
  <2> QED BY <1>5, <2>1
<1>8. FollowsIn(Nat, w, N, 1, G)
  <2> HIDE DEF N, Turn
  <2> QED BY <1>7 DEF FollowsIn
<1>9. StaysIn(Nat, w, N)
  <2> HIDE DEF N, G
  <2> QED BY <1>1, <1>2, <1>8, IterationStays
<1>10. \A i \in 0..N : w[i] \in Nat
  BY <1>9 DEF StaysIn
<1> QED BY <1>6, <1>7, <1>10

(* The number of copies never falls.                                       *)
LEMMA CopiesGrow ==
  ASSUME passes \in Seq(Kinds), NEW a \in 0..Len(passes), NEW b \in a..Len(passes)
  PROVE  Copies[a] <= Copies[b]
<1> DEFINE T == {m \in 0..(b - a) : Copies[a] <= Copies[a + m]}
<1>1. Len(passes) \in Nat /\ a \in Nat /\ b \in Nat /\ b - a \in Nat /\ Copies[a] \in Nat
  BY LenProperties, CopiesLoop
<1>2. 0 \in T
  BY <1>1
<1>3. ASSUME NEW m \in 1..(b - a), m - 1 \in T PROVE m \in T
  <2>1. a + m \in 1..Len(passes) /\ (a + m) - 1 = a + (m - 1) /\ a + (m - 1) \in 0..Len(passes)
    BY <1>1
  <2> DEFINE n == a + m
  <2>2. Copies[n - 1] \in Nat /\ (Copies[n] = 2 * Copies[n - 1] \/ Copies[n] = Copies[n - 1])
    <3>1. n \in 1..Len(passes) /\ n - 1 \in 0..Len(passes)
      BY <2>1
    <3> HIDE DEF n
    <3> QED BY <3>1, CopiesLoop
  <2>3. Copies[a] <= Copies[n - 1]
    BY <1>3, <2>1
  <2> HIDE DEF n
  <2>4. Copies[a] <= Copies[n]
    BY <1>1, <2>2, <2>3
  <2> QED BY <2>4 DEF n
<1>4. 0..(b - a) \subseteq T
  <2> HIDE DEF T
  <2> QED BY <1>1, <1>2, <1>3, PrefixInduction
<1>5. b - a \in T /\ a + (b - a) = b
  <2> HIDE DEF T
  <2> QED BY <1>1, <1>4
<1> QED BY <1>5

(* Each Hello adds a greeting for every copy of every definition.          *)
LEMMA GreetingsLoop ==
  ASSUME passes \in Seq(Kinds), First \in Nat
  PROVE  /\ \A n \in 0..Len(passes) : GreetingsUpTo[n] \in Nat
         /\ GreetingsUpTo[0] = 0
         /\ \A n \in 1..Len(passes) :
              GreetingsUpTo[n] = IF passes[n] \in FunctionPasses
                                 THEN GreetingsUpTo[n - 1] + First * Copies[n]
                                 ELSE GreetingsUpTo[n - 1]
<1> DEFINE N == Len(passes)
           Turn(v, i) == IF passes[i] \in FunctionPasses THEN v + First * Copies[i] ELSE v
           G == [i \in 1..N |-> [v \in Nat |-> Turn(v, i)]]
           IsLoop(q) == q = [i \in 0..N |-> IF i = 0 THEN 0 ELSE Turn(q[i - 1], i)]
           w == CHOOSE q : IsLoop(q)
<1>1. N \in Nat
  BY LenProperties
<1>2. G \in LoopBodies(N, Nat)
  <2>1. \A i \in 1..N : First * Copies[i] \in Nat
    <3>1. \A i \in 1..N : i \in 0..N
      BY <1>1
    <3>2. \A i \in 1..N : Copies[i] \in Nat
      BY <3>1, CopiesLoop
    <3> QED BY <3>2
  <2>2. \A i \in 1..N : \A v \in Nat : Turn(v, i) \in Nat
    <3> HIDE DEF N
    <3> QED BY <2>1
  <2> HIDE DEF N, Turn
  <2> QED BY <2>2 DEF LoopBodies
<1>3. PICK r \in [0..N -> Nat] : IsRun(r, N, 0, G)
  <2> HIDE DEF N, G
  <2> QED BY <1>1, <1>2, IterationExists
<1>4. IsLoop(r)
  <2>1. ASSUME NEW i \in 0..N PROVE r[i] = IF i = 0 THEN 0 ELSE Turn(r[i - 1], i)
    <3>1. i # 0 => i \in 1..N /\ i - 1 \in 0..N
      BY <1>1
    <3>2. i # 0 => r[i - 1] \in Nat /\ r[i] = G[i][r[i - 1]]
      <4> HIDE DEF N, G
      <4> QED BY <1>3, <3>1 DEF IsRun
    <3>3. r[0] = 0
      BY <1>3 DEF IsRun
    <3> HIDE DEF N, Turn
    <3> QED BY <3>1, <3>2, <3>3
  <2> HIDE DEF N, Turn
  <2> QED BY <2>1
<1>5. IsLoop(w)
  <2> HIDE DEF IsLoop
  <2> QED BY <1>4
<1>6. GreetingsUpTo = w
  BY DEF GreetingsUpTo
<1> HIDE DEF w
<1>7. w[0] = 0 /\ \A i \in 1..N : w[i] = Turn(w[i - 1], i)
  <2>1. 0 \in 0..N /\ \A i \in 1..N : i \in 0..N /\ i # 0
    BY <1>1
  <2> HIDE DEF N, Turn
  <2> QED BY <1>5, <2>1
<1>8. FollowsIn(Nat, w, N, 0, G)
  <2> HIDE DEF N, Turn
  <2> QED BY <1>7 DEF FollowsIn
<1>9. StaysIn(Nat, w, N)
  <2> HIDE DEF N, G
  <2> QED BY <1>1, <1>2, <1>8, IterationStays
<1>10. \A i \in 0..N : w[i] \in Nat
  BY <1>9 DEF StaysIn
<1> QED BY <1>6, <1>7, <1>10

(* The command line and the module given do not change.                     *)
LEMMA FixedUnchanged ==
  ASSUME UNCHANGED fixed
  PROVE  /\ passes' = passes /\ program' = program
         /\ First' = First /\ Originals' = Originals
         /\ Copies' = Copies /\ GreetingsUpTo' = GreetingsUpTo
<1>1. passes' = passes /\ program' = program
  BY DEF fixed
<1>2. First' = First /\ Originals' = Originals
  BY <1>1 DEF First, Originals
<1>3. Copies' = Copies
  BY <1>1 DEF Copies
<1>4. GreetingsUpTo' = GreetingsUpTo
  BY <1>1, <1>2, <1>3 DEF GreetingsUpTo
<1> QED BY <1>1, <1>2, <1>3, <1>4

(* What the functions of the module are made of: names are those of the     *)
(* program, extended by numbers.                                            *)
Parts == (UNION {ToSet(name) : name \in NamesIn(program)}) \cup Nat
Code == Instructions(NamesIn(program))
Fun == [name: Seq(Parts), section: {"", ".clone"}, blocks: Seq(Seq(Code))]
Names == {functions[n].name : n \in DOMAIN functions}

(* The program's functions are functions, no two of one name.              *)
LEMMA ProgramType ==
  ASSUME program \in Programs
  PROVE  /\ program.globals \in Seq(Types)
         /\ program.functions \in Seq(Fun)
         /\ \A m, n \in DOMAIN program.functions :
              program.functions[m].name = program.functions[n].name => m = n
<1> DEFINE funs == program.functions
           N == Len(funs)
           Start == [name: NamesIn(program), section: {""}, blocks: Seq(Seq(Code))]
<1>1. /\ program.globals \in Seq(Types)
      /\ funs \in Seq(Start)
      /\ Cardinality(NamesIn(program)) = N
      /\ \A name \in NamesIn(program) : IsName(name)
  BY ProgramsAssumption DEF IsProgram, Code
<1>2. N \in Nat /\ DOMAIN funs = 1..N
  BY <1>1, LenProperties
<1>3. ASSUME NEW name \in NamesIn(program) PROVE name \in Seq(Parts)
  <2>1. Len(name) \in Nat /\ name = [k \in 1..Len(name) |-> name[k]]
    BY <1>1, <1>3 DEF IsName
  <2>2. ASSUME NEW k \in 1..Len(name) PROVE name[k] \in Parts
    <3>1. k \in DOMAIN name
      BY <2>1
    <3>2. name[k] \in ToSet(name)
      BY <3>1 DEF ToSet
    <3> QED BY <3>2, <1>3 DEF Parts
  <2>3. name \in [1..Len(name) -> Parts]
    BY <2>1, <2>2
  <2> QED BY <2>1, <2>3, SeqDef
<1>4. Start \subseteq Fun
  BY <1>3 DEF Fun
<1>5. funs \in Seq(Fun)
  <2> HIDE DEF funs, Start
  <2> QED BY <1>1, <1>4, SeqMonotonic
<1>6. ASSUME NEW m \in DOMAIN funs, NEW n \in DOMAIN funs, funs[m].name = funs[n].name
      PROVE  m = n
  <2> DEFINE f == [k \in 1..N |-> funs[k].name]
             S == 1..N
             T == NamesIn(program)
  <2>1. f \in Surjection(S, T)
    BY <1>2 DEF Surjection, NamesIn
  <2>2. IsFiniteSet(S) /\ Cardinality(S) = N
    <3> HIDE DEF N
    <3> QED BY <1>2, FS_Interval
  <2>3. Cardinality(S) = Cardinality(T)
    BY <1>1, <2>2
  <2>4. f \in Injection(S, T)
    <3> HIDE DEF f, S, T
    <3> QED BY <2>1, <2>2, <2>3, FS_SurjSameCardinalityImpliesInj
  <2>5. f[m] = f[n] /\ m \in S /\ n \in S
    BY <1>2, <1>6
  <2> HIDE DEF f, S, T
  <2> QED BY <2>4, <2>5 DEF Injection, IsInjective
<1> QED BY <1>1, <1>5, <1>6

(* There is always a next number that makes a name new, as there are more   *)
(* candidates than functions.                                               *)
LEMMA UniqueNew ==
  ASSUME functions \in Seq(Fun), LastUnique \in Nat, NEW name \in Seq(Parts)
  PROVE  /\ Unique(name) \in Nat
         /\ Append(name, Unique(name)) \in Seq(Parts)
         /\ Append(name, Unique(name)) \notin Names
         /\ Front(Append(name, Unique(name))) = name
<1> DEFINE N == Len(functions)
           L == LastUnique
           Candidates == L + 1..L + N + 1
           New == {u \in Candidates : Append(name, u) \notin Names}
<1>1. N \in Nat /\ DOMAIN functions = 1..N /\ L \in Nat
  BY LenProperties
<1>2. ASSUME NEW u \in Nat
      PROVE  /\ Append(name, u) \in Seq(Parts) /\ Append(name, u)[Len(name) + 1] = u
             /\ Front(Append(name, u)) = name
  <2>1. u \in Parts
    BY DEF Parts
  <2>2. /\ Append(name, u) \in Seq(Parts)
        /\ Len(Append(name, u)) = Len(name) + 1
        /\ \A k \in 1..Len(name) : Append(name, u)[k] = name[k]
        /\ Append(name, u)[Len(name) + 1] = u
        /\ Append(name, u) # <<>>
    BY <2>1, AppendProperties
  <2> DEFINE t == Append(name, u)
  <2>3. /\ Front(t) \in Seq(Parts) /\ Len(Front(t)) = Len(t) - 1
        /\ \A k \in 1..(Len(t) - 1) : Front(t)[k] = t[k]
    <3> HIDE DEF t
    <3>1. t \in Seq(Parts) /\ t # <<>>
      BY <2>2 DEF t
    <3> QED BY <3>1, PopProperties
  <2>4. Len(name) \in Nat
    BY LenProperties
  <2>5. Len(Front(t)) = Len(name) /\ \A k \in 1..Len(Front(t)) : Front(t)[k] = name[k]
    <3> HIDE DEF t
    <3>1. Len(t) = Len(name) + 1 /\ \A k \in 1..Len(name) : t[k] = name[k]
      BY <2>2 DEF t
    <3> QED BY <2>3, <2>4, <3>1
  <2>6. Front(t) = name
    <3> DEFINE r == Front(t)
    <3>1. r \in Seq(Parts) /\ Len(r) = Len(name) /\ \A k \in 1..Len(r) : r[k] = name[k]
      BY <2>3, <2>5
    <3> HIDE DEF r
    <3>2. r = name
      BY <3>1, SeqEqual
    <3> QED BY <3>2 DEF r
  <2> QED BY <2>2, <2>6
<1>3. Candidates \subseteq Nat /\ IsFiniteSet(Candidates) /\ Cardinality(Candidates) = N + 1
  <2>1. L + 1 \in Int /\ L + N + 1 \in Int /\ ~(L + 1 > L + N + 1) /\ (L + N + 1) - (L + 1) + 1 = N + 1
    BY <1>1
  <2>2. Candidates \subseteq Nat
    BY <1>1
  <2> HIDE DEF L, N
  <2> QED BY <2>1, <2>2, FS_Interval
<1>4. IsFiniteSet(Names) /\ Cardinality(Names) <= N
  <2> DEFINE f == [k \in 1..N |-> functions[k].name]
             S == 1..N
  <2>1. f \in Surjection(S, Names)
    BY <1>1 DEF Surjection, Names
  <2>2. IsFiniteSet(S) /\ Cardinality(S) = N
    <3> HIDE DEF N
    <3> QED BY <1>1, FS_Interval
  <2>3. IsFiniteSet(Names) /\ Cardinality(Names) <= Cardinality(S)
    <3> HIDE DEF f, S
    <3> QED BY <2>1, <2>2, FS_Surjection
  <2> QED BY <2>2, <2>3
<1>5. New # {}
  <2> SUFFICES ASSUME New = {} PROVE FALSE
    OBVIOUS
  <2> DEFINE f == [u \in Candidates |-> Append(name, u)]
  <2>1. ASSUME NEW u \in Candidates PROVE Append(name, u) \in Names
    <3> HIDE DEF Candidates
    <3> QED OBVIOUS
  <2>2. f \in [Candidates -> Names]
    <3> HIDE DEF Candidates
    <3> QED BY <2>1
  <2>4. ASSUME NEW u \in Candidates, NEW v \in Candidates, f[u] = f[v] PROVE u = v
    <3>1. u \in Nat /\ v \in Nat
      BY <1>3
    <3>2. Append(name, u) = Append(name, v)
      <4> HIDE DEF Candidates
      <4> QED BY <2>4
    <3> QED BY <1>2, <3>1, <3>2
  <2>5. f \in Injection(Candidates, Names)
    <3> HIDE DEF f, Candidates
    <3> QED BY <2>2, <2>4 DEF Injection, IsInjective
  <2>6. Cardinality(Candidates) <= Cardinality(Names)
    <3> HIDE DEF f, Candidates
    <3> QED BY <1>4, <2>5, FS_Injection
  <2>7. Cardinality(Names) \in Nat
    BY <1>4, FS_CardinalityType
  <2> HIDE DEF f, Candidates, N
  <2> QED BY <1>1, <1>3, <1>4, <2>6, <2>7
<1>6. PICK u \in New : \A v \in New : u <= v
  <2>1. New \in SUBSET Nat
    BY <1>3
  <2> HIDE DEF New
  <2> QED BY <1>5, <2>1, LeastNatural
<1> DEFINE Fits(w) == /\ Append(name, w) \notin {functions[i].name : i \in DOMAIN functions}
                      /\ \A v \in L + 1..w - 1 :
                           Append(name, v) \in {functions[i].name : i \in DOMAIN functions}
<1>7. u \in Candidates /\ Fits(u)
  <2>1. ASSUME NEW v \in L + 1..u - 1 PROVE Append(name, v) \in Names
    <3>1. u \in Nat /\ u \in L + 1..L + N + 1
      BY <1>3
    <3>2. v \in Candidates /\ ~(u <= v)
      BY <1>1, <3>1
    <3> HIDE DEF Candidates
    <3> QED BY <1>6, <3>2
  <2>2. u \in Candidates /\ Append(name, u) \notin Names
    OBVIOUS
  <2> HIDE DEF Candidates
  <2> QED BY <2>1, <2>2 DEF Names
<1>8. Unique(name) = CHOOSE w \in Candidates : Fits(w)
  BY DEF Unique
<1>9. Unique(name) \in Candidates /\ Fits(Unique(name))
  <2> HIDE DEF Candidates, Fits
  <2> QED BY <1>7, <1>8
<1>10. Unique(name) \in Nat
  BY <1>3, <1>9
<1> QED BY <1>2, <1>9, <1>10 DEF Names

(* The instructions of a function, block after block.                       *)
LEMMA InstsType ==
  ASSUME NEW fun \in Fun
  PROVE  Insts(fun) \in Seq(Code)
<1> DEFINE blocks == fun.blocks
<1>1. blocks \in Seq(Seq(Code))
  BY DEF Fun
<1>2. <<>> \in Seq(Code)
  BY EmptySeq
<1>3. FlattenSeq(blocks) \in Seq(Code)
  <2> HIDE DEF blocks
  <2> QED BY <1>1, <1>2, FlattenAppend
<1> QED BY <1>3 DEF Insts

------------------------------------------------------------------------------
(* clonefuncs is in its second loop.                                       *)
Cloning == p <= Len(passes) /\ passes[p] = "clonefuncs" /\ x = 1

(* The state is well typed; there is no code before the last pass.         *)
TypeInv ==
    /\ program \in Programs /\ passes \in Seq(Kinds)
    /\ p \in 1..Len(passes) + 1 /\ x \in Nat /\ g \in Nat
    /\ status \in {"running", "parsed", "coding", "emitted", "refused"}
    /\ status # "running" => p = Len(passes) + 1
    /\ functions \in Seq(Fun) /\ toClone \in Seq(Fun) /\ LastUnique \in Nat
    /\ globals = program.globals

(* The list begins with the program's functions.                           *)
PrefixInv ==
    /\ Len(program.functions) <= Len(functions)
    /\ \A n \in DOMAIN program.functions : functions[n] = program.functions[n]
(* No two functions have one name.                                         *)
DistinctInv ==
    \A m, n \in DOMAIN functions : functions[m].name = functions[n].name => m = n
(* The definitions that each clonefuncs has added are the clones of those  *)
(* it found, in their order, and no other function has been added.         *)
MirrorInv ==
    /\ \A n \in DOMAIN passes : passes[n] = "clonefuncs" =>
         \A k \in 1..Found(n) : Found(n) + k \in DOMAIN Definitions =>
           IsCloneOf(Definitions[Found(n) + k], Definitions[k])
    /\ \A n \in Len(program.functions) + 1..Len(functions) : ~isDeclaration(functions[n])
(* Only definitions of the module are due: those that the running          *)
(* clonefuncs found, from the first one it has not cloned yet.             *)
PendingInv ==
    /\ \A n \in DOMAIN toClone : ~isDeclaration(toClone[n]) /\ toClone[n] \in ToSet(functions)
    /\ Cloning =>
         /\ Found(p) <= Len(Definitions)
         /\ \A j \in DOMAIN toClone : toClone[j] = Definitions[(Len(Definitions) - Found(p)) + j]
(* The definitions there are, with those due while clonefuncs runs.        *)
CountInv ==
    IF Cloning THEN Len(Definitions) + Len(toClone) = First * Copies[p]
    ELSE toClone = <<>> /\ Len(Definitions) = First * Copies[p - 1]

CloneInv ==
    TypeInv /\ PrefixInv /\ DistinctInv /\ MirrorInv /\ PendingInv /\ CountInv

(* What functions are made of depends on the program alone, which does not *)
(* change.                                                                 *)
LEMMA TypesUnchanged ==
  ASSUME UNCHANGED fixed
  PROVE  Parts' = Parts /\ Code' = Code /\ Fun' = Fun
<1>1. program' = program
  BY DEF fixed
<1>2. NamesIn(program)' = NamesIn(program)
  BY <1>1 DEF NamesIn
<1>3. Parts' = Parts
  BY <1>1, <1>2 DEF Parts
<1>4. Code' = Code
  BY <1>1, <1>2 DEF Code
<1>5. Fun' = Fun
  BY <1>3, <1>4 DEF Fun
<1> QED BY <1>3, <1>4, <1>5

(* The program's definitions can be counted.                               *)
LEMMA FirstType ==
  ASSUME program \in Programs
  PROVE  First \in Nat
<1>1. program.functions \in Seq(Fun)
  BY ProgramType
<1> DEFINE d == Defined(program.functions)
<1>2. d \in Seq(Fun)
  <2> DEFINE funs == program.functions
  <2> HIDE DEF funs
  <2>1. Defined(funs) \in Seq(Fun)
    BY <1>1, DefinedContents DEF funs
  <2> QED BY <2>1 DEF funs
<1>3. Len(d) \in Nat
  <2> HIDE DEF d
  <2> QED BY <1>2, LenProperties
<1> QED BY <1>3 DEF First

(* The group of function passes at p, if any, ends at some q; within it the *)
(* definitions do not change in number.                                     *)
LEMMA GroupSpan ==
  ASSUME passes \in Seq(Kinds), p \in 1..Len(passes) + 1
  PROVE  \E q \in p - 1..Len(passes) :
           /\ Group = p..q /\ Cardinality(Group) = q - (p - 1)
           /\ \A n \in p..q : passes[n] \in FunctionPasses
           /\ \A n \in p - 1..q : Copies[n] = Copies[p - 1]
           /\ Group # {} <=> p <= Len(passes) /\ passes[p] \in FunctionPasses
<1> DEFINE N == Len(passes)
<1>1. N \in Nat /\ DOMAIN passes = 1..N /\ p \in Nat \ {0} /\ p <= N + 1
  BY LenProperties
<1>2. \E q \in p - 1..N : Group = p..q
  <2>1. CASE Group = {}
    <3>1. p - 1 \in p - 1..N /\ p..(p - 1) = {}
      BY <1>1
    <3> HIDE DEF N
    <3> QED BY <2>1, <3>1
  <2>2. CASE Group # {}
    <3>1. Group \in SUBSET (0..N)
      BY <1>1 DEF Group
    <3>2. PICK q \in Group : \A n \in Group : n <= q
      <4> HIDE DEF N
      <4> QED BY <1>1, <2>2, <3>1, GreatestBelow
    <3>3. q \in 1..N /\ p <= q /\ \A m \in p..q : passes[m] \in FunctionPasses
      BY <1>1, <3>2 DEF Group
    <3>4. ASSUME NEW n \in p..q PROVE n \in Group
      <4>1. n \in DOMAIN passes /\ n >= p
        BY <1>1, <3>3
      <4>2. \A m \in p..n : m \in p..q
        BY <1>1, <3>3
      <4> HIDE DEF N
      <4> QED BY <3>3, <4>1, <4>2 DEF Group
    <3>5. ASSUME NEW n \in Group PROVE n \in p..q
      <4>1. n \in 1..N /\ n >= p /\ n <= q
        BY <1>1, <3>2, <3>5 DEF Group
      <4> QED BY <1>1, <3>3, <4>1
    <3>6. q \in p - 1..N
      BY <1>1, <3>3
    <3>7. Group = p..q
      BY <3>4, <3>5
    <3> QED BY <3>6, <3>7
  <2> QED BY <2>1, <2>2
<1>3. PICK q \in p - 1..N : Group = p..q
  BY <1>2
<1>4. q \in Nat /\ q <= N /\ p - 1 <= q
  BY <1>1
<1>5. ASSUME NEW n \in p..q PROVE n \in 1..N /\ passes[n] \in FunctionPasses
  <2>1. n \in Group
    BY <1>3
  <2>2. n \in p..n /\ n \in 1..N
    BY <1>1, <1>4
  <2> QED BY <2>1, <2>2 DEF Group
<1>6. Cardinality(Group) = q - (p - 1)
  <2>1. p \in Int /\ q \in Int /\ (IF p > q THEN 0 ELSE q - p + 1) = q - (p - 1)
    BY <1>1, <1>4
  <2>2. Cardinality(p..q) = IF p > q THEN 0 ELSE q - p + 1
    BY <2>1, FS_Interval
  <2> QED BY <1>3, <2>1, <2>2
<1>7. \A n \in p - 1..q : Copies[n] = Copies[p - 1]
  <2> DEFINE c == q - (p - 1)
             T == {m \in 0..c : Copies[(p - 1) + m] = Copies[p - 1]}
  <2>1. c \in Nat
    BY <1>1, <1>4
  <2>2. 0 \in T
    BY <1>1, <2>1
  <2>3. ASSUME NEW m \in 1..c, m - 1 \in T PROVE m \in T
    <3>1. /\ (p - 1) + m \in p..q /\ ((p - 1) + m) - 1 = (p - 1) + (m - 1) /\ m \in 0..c
      BY <1>1, <1>4
    <3>2. passes[(p - 1) + m] \in FunctionPasses /\ (p - 1) + m \in 1..N
      BY <1>5, <3>1
    <3>3. passes[(p - 1) + m] # "clonefuncs"
      BY <3>2 DEF FunctionPasses
    <3> DEFINE n == (p - 1) + m
    <3>4. Copies[n] = Copies[n - 1]
      <4>1. n \in 1..N /\ passes[n] # "clonefuncs"
        BY <3>2, <3>3
      <4> HIDE DEF n
      <4> QED BY <4>1, CopiesLoop
    <3>5. Copies[(p - 1) + (m - 1)] = Copies[p - 1]
      BY <2>3
    <3> HIDE DEF c
    <3> QED BY <3>1, <3>4, <3>5
  <2>4. 0..c \subseteq T
    <3> HIDE DEF c, T
    <3> QED BY <2>1, <2>2, <2>3, PrefixInduction
  <2>5. ASSUME NEW n \in p - 1..q PROVE Copies[n] = Copies[p - 1]
    <3>1. n - (p - 1) \in 0..c /\ (p - 1) + (n - (p - 1)) = n
      BY <1>1, <1>4
    <3>2. n - (p - 1) \in T
      <4> HIDE DEF T, c
      <4> QED BY <2>4, <3>1
    <3> QED BY <3>1, <3>2
  <2> QED BY <2>5
<1>8. Group # {} <=> p <= N /\ passes[p] \in FunctionPasses
  <2>1. ASSUME Group # {} PROVE p <= N /\ passes[p] \in FunctionPasses
    <3>1. p \in p..q
      BY <1>1, <1>3, <1>4, <2>1
    <3> QED BY <1>1, <1>5, <3>1
  <2>2. ASSUME p <= N, passes[p] \in FunctionPasses PROVE p \in Group
    <3>1. p \in DOMAIN passes /\ p >= p /\ \A m \in p..p : m = p
      BY <1>1, <2>2
    <3> QED BY <2>2, <3>1 DEF Group
  <2> QED BY <2>1, <2>2
<1> QED BY <1>3, <1>5, <1>6, <1>7, <1>8

(* A factor that is not zero does not make a number smaller.               *)
LEMMA GrowFactor ==
  ASSUME NEW f \in Nat, NEW c \in Nat, 1 <= c
  PROVE  f <= f * c /\ f * c \in Nat
<1>1. PICK d \in Nat : c = d + 1
  <2>1. c - 1 \in Nat /\ c = (c - 1) + 1
    OBVIOUS
  <2> QED BY <2>1
<1>2. f * (d + 1) = f * d + f /\ f * d \in Nat
  BY <1>1
<1> QED BY <1>1, <1>2

(* One factor bounds the product if it bounds the other factor.            *)
LEMMA FactorMonotone ==
  ASSUME NEW f \in Nat, NEW c \in Nat, NEW d \in Nat, c <= d
  PROVE  f * c <= f * d
<1>1. PICK e \in Nat : d = c + e
  <2>1. d - c \in Nat /\ d = c + (d - c)
    OBVIOUS
  <2> QED BY <2>1
<1>2. f * (c + e) = f * c + f * e /\ f * c \in Nat /\ f * e \in Nat
  OBVIOUS
<1> QED BY <1>1, <1>2

(* A clonefuncs leaves twice the definitions it found.                     *)
LEMMA DoubleFound ==
  ASSUME passes \in Seq(Kinds), First \in Nat, NEW n \in 1..Len(passes), passes[n] = "clonefuncs"
  PROVE  First * Copies[n] = 2 * Found(n)
<1> DEFINE f == First
           c == Copies[n - 1]
<1>1. f \in Nat /\ c \in Nat /\ Copies[n] = 2 * c
  <2>1. n - 1 \in 0..Len(passes)
    BY LenProperties
  <2> QED BY <2>1, CopiesLoop
<1> HIDE DEF f, c
<1>2. f * (2 * c) = 2 * (f * c)
  BY <1>1
<1>3. f * Copies[n] = 2 * (f * c)
  BY <1>1, <1>2
<1> QED BY <1>3 DEF f, c, Found

(* The next definition to be added is one of the running clonefuncs: those *)
(* of earlier ones are all there, and those of later ones are further on.  *)
LEMMA NextClone ==
  ASSUME passes \in Seq(Kinds), Len(passes) \in Nat, DOMAIN passes = 1..Len(passes), First \in Nat,
         p \in 1..Len(passes), passes[p] = "clonefuncs",
         NEW n \in DOMAIN passes, passes[n] = "clonefuncs", NEW k \in 1..Found(n),
         NEW l \in Nat, NEW t \in Nat \ {0},
         Found(p) <= l, l + t = First * Copies[p], Found(n) + k = l + 1
  PROVE  n = p
<1>1. First * Copies[n] = 2 * Found(n)
  BY DoubleFound
<1>2. Copies[n] \in Nat /\ Copies[p] \in Nat /\ Copies[n - 1] \in Nat /\ Copies[p - 1] \in Nat
  <2>1. n \in 0..Len(passes) /\ n - 1 \in 0..Len(passes) /\ p \in 0..Len(passes) /\ p - 1 \in 0..Len(passes)
    OBVIOUS
  <2> QED BY <2>1, CopiesLoop
<1>3. Found(n) \in Nat /\ Found(p) \in Nat
  <2> DEFINE f == First
             c == Copies[n - 1]
             d == Copies[p - 1]
  <2>1. f \in Nat /\ c \in Nat /\ d \in Nat
    BY <1>2
  <2> HIDE DEF f, c, d
  <2>2. f * c \in Nat /\ f * d \in Nat
    BY <2>1
  <2> QED BY <2>2 DEF f, c, d, Found
<1>4. ASSUME n < p PROVE FALSE
  <2>1. n \in 0..Len(passes) /\ p - 1 \in n..Len(passes)
    BY <1>4
  <2>2. Copies[n] <= Copies[p - 1]
    BY <2>1, CopiesGrow
  <2>3. First * Copies[n] <= Found(p)
    BY <1>2, <2>2, FactorMonotone DEF Found
  <2> DEFINE e == Found(n)
             h == Found(p)
  <2>4. e \in Nat /\ h \in Nat /\ 2 * e <= h /\ h <= l /\ k \in 1..e /\ e + k = l + 1
    BY <1>1, <1>3, <2>3
  <2> HIDE DEF e, h
  <2> QED BY <2>4
<1>5. ASSUME n > p PROVE FALSE
  <2>1. p \in 0..Len(passes) /\ n - 1 \in p..Len(passes)
    BY <1>5
  <2>2. Copies[p] <= Copies[n - 1]
    BY <2>1, CopiesGrow
  <2>3. First * Copies[p] <= Found(n)
    BY <1>2, <2>2, FactorMonotone DEF Found
  <2> DEFINE e == Found(n)
             h == First * Copies[p]
  <2>4. e \in Nat /\ h = l + t /\ h <= e /\ k \in 1..e /\ e + k = l + 1
    BY <1>3, <2>3
  <2> HIDE DEF e, h
  <2> QED BY <2>4
<1> QED BY <1>4, <1>5

(* Before the first pass the list is the program's, and nothing waits to be*)
(* cloned.                                                                 *)
LEMMA CloneInit ==
  ASSUME Init
  PROVE  CloneInv
<1>1. /\ program \in Programs /\ functions = program.functions /\ globals = program.globals
      /\ passes \in Pipelines /\ toClone = <<>> /\ LastUnique = 0
      /\ p = 1 /\ x = 0 /\ g = 0 /\ status = "running"
  BY DEF Init
<1>2. passes \in Seq(Kinds)
  BY <1>1, PipelinesAssumption DEF Kinds
<1>3. /\ functions \in Seq(Fun) /\ Len(functions) \in Nat /\ DOMAIN functions = 1..Len(functions)
      /\ \A m, n \in DOMAIN functions : functions[m].name = functions[n].name => m = n
  <2>1. functions \in Seq(Fun)
    BY <1>1, ProgramType
  <2>2. \A m, n \in DOMAIN functions : functions[m].name = functions[n].name => m = n
    BY <1>1, ProgramType
  <2> QED BY <2>1, <2>2, LenProperties
<1>4. TypeInv
  <2>1. Len(passes) \in Nat /\ toClone \in Seq(Fun)
    BY <1>1, <1>2, LenProperties, EmptySeq
  <2>2. p \in 1..Len(passes) + 1 /\ x \in Nat /\ g \in Nat /\ LastUnique \in Nat
    BY <1>1, <2>1
  <2> QED BY <1>1, <1>2, <1>3, <2>1, <2>2 DEF TypeInv
<1>5. PrefixInv
  BY <1>1, <1>3 DEF PrefixInv
<1>6. DistinctInv
  BY <1>3 DEF DistinctInv
<1>7. MirrorInv
  <2>1. Len(program.functions) + 1..Len(functions) = {}
    BY <1>1, <1>3
  <2>2. ASSUME NEW n \in DOMAIN passes, NEW k \in 1..Found(n)
        PROVE  Found(n) + k \notin DOMAIN Definitions
    <3>1. Len(Definitions) = First /\ First \in Nat
      BY <1>1, FirstType DEF Definitions, First
    <3>2. Definitions \in Seq(Fun)
      BY <1>3, DefinedContents DEF Definitions
    <3>3. DOMAIN Definitions = 1..First
      BY <3>1, <3>2, LenProperties
    <3>4. First <= Found(n) /\ Found(n) \in Nat
      <4>1. n - 1 \in 0..Len(passes) /\ Copies[n - 1] \in Nat /\ Copies[0] = 1
        BY <1>2, LenProperties, CopiesLoop
      <4>2. Copies[0] <= Copies[n - 1]
        <5>1. 0 \in 0..Len(passes) /\ n - 1 \in 0..Len(passes)
          BY <1>2, <4>1, LenProperties
        <5> QED BY <1>2, <5>1, CopiesGrow
      <4> DEFINE c == Copies[n - 1]
                 f == First
      <4>3. f \in Nat /\ c \in Nat /\ 1 <= c
        BY <3>1, <4>1, <4>2
      <4> HIDE DEF c, f
      <4>4. f <= f * c /\ f * c \in Nat
        BY <4>3, GrowFactor
      <4> QED BY <4>4 DEF c, f, Found
    <3> QED BY <3>1, <3>3, <3>4
  <2> QED BY <2>1, <2>2 DEF MirrorInv
<1>8. PendingInv
  <2>1. DOMAIN toClone = {} /\ ~Cloning
    BY <1>1 DEF Cloning
  <2> QED BY <2>1 DEF PendingInv
<1>9. CountInv
  <2>1. ~Cloning
    BY <1>1 DEF Cloning
  <2>2. Len(Definitions) = First
    BY <1>1 DEF Definitions, First
  <2>3. Copies[p - 1] = 1 /\ First \in Nat
    <3>1. p - 1 = 0
      BY <1>1
    <3> QED BY <1>1, <1>2, <3>1, CopiesLoop, FirstType
  <2>4. Len(Definitions) = First * Copies[p - 1]
    BY <2>2, <2>3
  <2> QED BY <1>1, <2>1, <2>4 DEF CountInv
<1> QED BY <1>4, <1>5, <1>6, <1>7, <1>8, <1>9 DEF CloneInv

(* What a pass that is not clonefuncs leaves alone.                         *)
KeepsList ==
    /\ UNCHANGED <<globals, functions, cloning, fixed>> /\ ~Cloning /\ ~Cloning'
    /\ p' \in 1..Len(passes) + 1 /\ x' \in Nat /\ g' \in Nat
    /\ status' \in {"running", "parsed", "coding", "emitted", "refused"}
    /\ status' # "running" => p' = Len(passes) + 1
    /\ Copies[p' - 1] = Copies[p - 1]

(* A step that keeps the list keeps all that clonefuncs has made of it.    *)
LEMMA ListUnchanged ==
  ASSUME CloneInv, KeepsList
  PROVE  CloneInv'
<1> USE DEF KeepsList
<1>1. /\ functions' = functions /\ toClone' = toClone /\ LastUnique' = LastUnique
      /\ globals' = globals
      /\ passes' = passes /\ program' = program
  BY DEF cloning, fixed
<1>2. First' = First /\ Copies' = Copies /\ Fun' = Fun
  BY FixedUnchanged, TypesUnchanged
<1>3. TypeInv'
  BY <1>1, <1>2 DEF TypeInv, CloneInv
<1>4. PrefixInv' /\ DistinctInv'
  BY <1>1 DEF PrefixInv, DistinctInv, CloneInv
<1>5. MirrorInv' /\ PendingInv'
  BY <1>1, <1>2 DEF MirrorInv, PendingInv, CloneInv, Found, IsCloneOf, Definitions,
                    isDeclaration
<1>6. CountInv'
  <2>1. Definitions' = Definitions
    BY <1>1 DEF Definitions
  <2>2. Copies'[p' - 1] = Copies[p - 1]
    BY <1>2
  <2>3. toClone = <<>> /\ Len(Definitions) = First * Copies[p - 1]
    BY DEF CloneInv, CountInv
  <2> QED BY <1>1, <1>2, <2>1, <2>2, <2>3 DEF CountInv
<1> QED BY <1>3, <1>4, <1>5, <1>6 DEF CloneInv

(* When clonefuncs starts, every definition of the module waits to be      *)
(* cloned, so that as many are due as it is to have in the end.            *)
LEMMA StartCloningKeeps ==
  ASSUME CloneInv, StartCloning
  PROVE  CloneInv'
<1>1. /\ p <= Len(passes) /\ passes[p] = "clonefuncs" /\ x = 0 /\ x' = 1
      /\ toClone' = Definitions /\ globals' = globals
      /\ functions' = functions /\ LastUnique' = LastUnique
      /\ UNCHANGED <<fixed, p, g, status>>
  BY DEF StartCloning, Running, CollectFunctions
<1>2. passes' = passes /\ program' = program /\ p' = p /\ g' = g /\ status' = status
  BY <1>1 DEF fixed
<1>3. First' = First /\ Copies' = Copies /\ Fun' = Fun
  BY <1>1, FixedUnchanged, TypesUnchanged
<1>4. TypeInv
  BY DEF CloneInv
<1>5. /\ Definitions \in Seq(Fun)
      /\ ToSet(Definitions) = {fun \in ToSet(functions) : ~isDeclaration(fun)}
  BY <1>4, DefinedContents DEF TypeInv, Definitions
<1>6. TypeInv'
  BY <1>1, <1>2, <1>3, <1>4, <1>5 DEF TypeInv
<1>7. PrefixInv' /\ DistinctInv'
  BY <1>1, <1>2 DEF PrefixInv, DistinctInv, CloneInv
<1>8. MirrorInv'
  BY <1>1, <1>2, <1>3 DEF MirrorInv, CloneInv, Found, IsCloneOf, Definitions, isDeclaration
<1>9. PendingInv'
  <2>1. ASSUME NEW n \in DOMAIN toClone'
        PROVE  ~isDeclaration(toClone'[n]) /\ toClone'[n] \in ToSet(functions')
    <3>1. toClone'[n] \in ToSet(Definitions)
      BY <1>1, <2>1 DEF ToSet
    <3> QED BY <1>1, <1>5, <3>1
  <2>2. ASSUME NEW n \in DOMAIN toClone' PROVE (~isDeclaration(toClone[n]))'
    BY <2>1 DEF isDeclaration
  <2>3. ASSUME NEW n \in DOMAIN toClone' PROVE (toClone[n] \in ToSet(functions))'
    BY <2>1 DEF ToSet
  <2>4. (Found(p) <= Len(Definitions)
          /\ \A j \in DOMAIN toClone : toClone[j] = Definitions[(Len(Definitions) - Found(p)) + j])'
    <3> DEFINE l == Len(Definitions)
               e == Found(p)
    <3>1. Found(p)' = e /\ Definitions' = Definitions
      BY <1>1, <1>2, <1>3 DEF Found, Definitions
    <3>2. l = e
      <4>1. ~Cloning
        BY <1>1 DEF Cloning
      <4> QED BY <4>1 DEF CloneInv, CountInv, Found
    <3>3. l \in Nat /\ DOMAIN Definitions = 1..l
      BY <1>5, LenProperties
    <3>4. ASSUME NEW j \in 1..l PROVE Definitions[j] = Definitions[(l - e) + j]
      <4>1. (l - e) + j = j
        BY <3>2, <3>3
      <4> QED BY <4>1
    <3> HIDE DEF e
    <3> QED BY <1>1, <3>1, <3>2, <3>3, <3>4
  <2> QED BY <2>2, <2>3, <2>4 DEF PendingInv
<1>10. CountInv'
  <2>1. Cloning'
    BY <1>1, <1>2 DEF Cloning
  <2>2. Definitions' = Definitions
    BY <1>1 DEF Definitions
  <2>3. ~Cloning
    BY <1>1 DEF Cloning
  <2>4. Len(Definitions) = First * Copies[p - 1]
    BY <2>3 DEF CloneInv, CountInv
  <2>5. First \in Nat /\ Copies[p - 1] \in Nat /\ Copies[p] = 2 * Copies[p - 1]
    <3>1. p \in 1..Len(passes) /\ p - 1 \in 0..Len(passes) /\ Len(passes) \in Nat
      BY <1>1, <1>4, LenProperties DEF TypeInv
    <3>2. passes \in Seq(Kinds) /\ program \in Programs
      BY <1>4 DEF TypeInv
    <3> QED BY <1>1, <3>1, <3>2, CopiesLoop, FirstType
  <2>6. Len(Definitions) + Len(Definitions) = First * Copies[p]
    <3> DEFINE c == Copies[p - 1]
               d == Copies[p]
               l == Len(Definitions)
               f == First
    <3>1. f \in Nat /\ c \in Nat /\ d = 2 * c /\ l = f * c
      BY <2>4, <2>5
    <3> HIDE DEF c, d, l, f
    <3>2. f * (2 * c) = f * c + f * c
      BY <3>1
    <3>3. l + l = f * d
      BY <3>1, <3>2
    <3> QED BY <3>3 DEF c, d, l, f
  <2> QED BY <1>1, <1>2, <1>3, <2>1, <2>2, <2>6 DEF CountInv
<1> QED BY <1>6, <1>7, <1>8, <1>9, <1>10 DEF CloneInv

(* A clone is its original under the new name, in a section of its own.    *)
LEMMA CloneFields ==
  ASSUME NEW fun \in Fun, Append(fun.name, Unique(fun.name)) \in Seq(Parts)
  PROVE  /\ Clone(fun) \in Fun
         /\ Clone(fun).name = Append(fun.name, Unique(fun.name))
         /\ Clone(fun).section = ".clone" /\ Clone(fun).blocks = fun.blocks
<1> DEFINE new == Append(fun.name, Unique(fun.name))
<1>1. Clone(fun) = [fun EXCEPT !.name = new, !.section = ".clone"]
  BY DEF Clone
<1> HIDE DEF new
<1>2. new \in Seq(Parts)
  BY DEF new
<1>3. [fun EXCEPT !.name = new, !.section = ".clone"] \in Fun
  BY <1>2 DEF Fun
<1>4. /\ [fun EXCEPT !.name = new, !.section = ".clone"].name = new
      /\ [fun EXCEPT !.name = new, !.section = ".clone"].section = ".clone"
      /\ [fun EXCEPT !.name = new, !.section = ".clone"].blocks = fun.blocks
  BY DEF Fun
<1> QED BY <1>1, <1>3, <1>4 DEF new

(* A clone has a name no other function has, and is that of the next       *)
(* definition that was due.                                                *)
LEMMA CloneNextKeeps ==
  ASSUME CloneInv, CloneNext
  PROVE  CloneInv'
<1> DEFINE fun == Head(toClone)
           copy == Clone(fun)
           N == Len(functions)
<1>1. /\ p <= Len(passes) /\ passes[p] = "clonefuncs" /\ x = 1 /\ x' = x /\ toClone # <<>>
      /\ functions' = Append(functions, copy) /\ LastUnique' = Unique(fun.name)
      /\ toClone' = Tail(toClone) /\ globals' = globals
      /\ UNCHANGED <<fixed, p, g, status>>
  BY DEF CloneNext, Running, CloneFirst
<1>2. passes' = passes /\ program' = program /\ p' = p /\ g' = g /\ status' = status
  BY <1>1 DEF fixed
<1>3. First' = First /\ Copies' = Copies /\ Fun' = Fun
  BY <1>1, FixedUnchanged, TypesUnchanged
<1>4. /\ TypeInv /\ functions \in Seq(Fun) /\ toClone \in Seq(Fun) /\ LastUnique \in Nat
      /\ N \in Nat /\ DOMAIN functions = 1..N
  BY LenProperties DEF CloneInv, TypeInv
<1>5. /\ fun \in Fun /\ Tail(toClone) \in Seq(Fun) /\ Len(toClone) \in Nat \ {0}
      /\ Len(Tail(toClone)) = Len(toClone) - 1
      /\ \A n \in 1..Len(Tail(toClone)) : Tail(toClone)[n] = toClone[n + 1]
      /\ fun = toClone[1] /\ DOMAIN toClone = 1..Len(toClone)
  BY <1>1, <1>4, HeadTailProperties, EmptySeq, LenProperties
<1>6. ~isDeclaration(fun) /\ \E m \in DOMAIN functions : functions[m] = fun
  <2>1. 1 \in DOMAIN toClone
    BY <1>5
  <2>2. ~isDeclaration(toClone[1]) /\ toClone[1] \in ToSet(functions)
    BY <2>1 DEF CloneInv, PendingInv
  <2> QED BY <1>5, <2>2 DEF ToSet
<1>7. PICK m \in DOMAIN functions : functions[m] = fun
  BY <1>6
<1>8. fun.name \in Seq(Parts)
  <2> HIDE DEF fun
  <2> QED BY <1>5 DEF Fun
<1>9. /\ Unique(fun.name) \in Nat
      /\ Append(fun.name, Unique(fun.name)) \in Seq(Parts)
      /\ Append(fun.name, Unique(fun.name)) \notin Names
      /\ Front(Append(fun.name, Unique(fun.name))) = fun.name
  <2> HIDE DEF fun
  <2> QED BY <1>4, <1>8, UniqueNew
<1>10. /\ copy \in Fun /\ copy.section = ".clone" /\ copy.blocks = fun.blocks
       /\ copy.name \notin Names /\ Front(copy.name) = fun.name
  <2> HIDE DEF fun
  <2>1. /\ copy \in Fun /\ copy.name = Append(fun.name, Unique(fun.name))
        /\ copy.section = ".clone" /\ copy.blocks = fun.blocks
    BY <1>5, <1>9, CloneFields
  <2> HIDE DEF copy
  <2> QED BY <1>9, <2>1
<1> HIDE DEF copy
<1>11. /\ functions' \in Seq(Fun) /\ Len(functions') = N + 1
       /\ \A n \in 1..N : functions'[n] = functions[n]
       /\ functions'[N + 1] = copy
       /\ ToSet(functions') = ToSet(functions) \cup {copy}
       /\ DOMAIN functions' = 1..(N + 1)
  <2>1. /\ Append(functions, copy) \in Seq(Fun) /\ Len(Append(functions, copy)) = N + 1
        /\ \A n \in 1..N : Append(functions, copy)[n] = functions[n]
        /\ Append(functions, copy)[N + 1] = copy
    BY <1>4, <1>10, AppendProperties
  <2>2. ToSet(Append(functions, copy)) = ToSet(functions) \cup {copy}
    BY <1>4, <1>10, AppendContents
  <2>3. DOMAIN Append(functions, copy) = 1..(N + 1)
    BY <2>1, LenProperties
  <2> QED BY <1>1, <2>1, <2>2, <2>3
<1> HIDE DEF fun
<1>12. TypeInv'
  BY <1>1, <1>2, <1>3, <1>4, <1>5, <1>9, <1>11 DEF TypeInv
<1>13. PrefixInv'
  <2>1. /\ Len(program.functions) <= N
        /\ \A n \in DOMAIN program.functions : functions[n] = program.functions[n]
    BY DEF CloneInv, PrefixInv
  <2>2. Len(program.functions) \in Nat /\ DOMAIN program.functions = 1..Len(program.functions)
    <3>1. program.functions \in Seq(Fun)
      BY <1>4, ProgramType DEF TypeInv
    <3> QED BY <3>1, LenProperties
  <2>3. \A n \in DOMAIN program.functions : n \in 1..N
    BY <1>4, <2>1, <2>2
  <2>4. Len(program.functions) <= Len(functions')
    BY <1>4, <1>11, <2>1, <2>2
  <2>5. \A n \in DOMAIN program.functions : functions'[n] = program.functions[n]
    BY <1>11, <2>1, <2>3
  <2> QED BY <1>2, <2>4, <2>5 DEF PrefixInv
<1>14. DistinctInv'
  <2>1. \A k, n \in DOMAIN functions : functions[k].name = functions[n].name => k = n
    BY DEF CloneInv, DistinctInv
  <2>2. \A n \in 1..N : functions[n].name # copy.name
    BY <1>4, <1>10 DEF Names
  <2>3. \A n \in 1..(N + 1) : n = N + 1 \/ n \in 1..N
    BY <1>4
  <2>4. \A k, n \in DOMAIN functions' : functions'[k].name = functions'[n].name => k = n
    <3> HIDE DEF N
    <3> QED BY <1>4, <1>11, <2>1, <2>2, <2>3
  <2> QED BY <2>4 DEF DistinctInv
<1>15. /\ Definitions' = Append(Definitions, copy) /\ Definitions \in Seq(Fun)
       /\ Len(Definitions) \in Nat /\ DOMAIN Definitions = 1..Len(Definitions)
       /\ Len(Definitions') = Len(Definitions) + 1
       /\ DOMAIN Definitions' = 1..(Len(Definitions) + 1)
       /\ \A n \in 1..Len(Definitions) : Definitions'[n] = Definitions[n]
       /\ Definitions'[Len(Definitions) + 1] = copy
  <2>1. Definitions' = Append(Definitions, copy)
    <3>1. Defined(Append(functions, copy)) = Keep(Defined(functions), copy)
      BY <1>4, <1>10, DefinedAppend
    <3>2. ~isDeclaration(copy)
      BY <1>6, <1>10 DEF isDeclaration
    <3> QED BY <1>1, <3>1, <3>2 DEF Definitions, Keep
  <2>2. Definitions \in Seq(Fun)
    BY <1>4, DefinedContents DEF Definitions
  <2> DEFINE t == Append(Definitions, copy)
  <2>3. /\ t \in Seq(Fun) /\ Len(t) = Len(Definitions) + 1
        /\ \A n \in 1..Len(Definitions) : t[n] = Definitions[n]
        /\ t[Len(Definitions) + 1] = copy
    BY <1>10, <2>2, AppendProperties
  <2> HIDE DEF t
  <2>4. /\ Len(Definitions) \in Nat /\ DOMAIN Definitions = 1..Len(Definitions)
        /\ DOMAIN t = 1..(Len(Definitions) + 1)
    BY <2>2, <2>3, LenProperties
  <2> QED BY <2>1, <2>2, <2>3, <2>4 DEF t
<1>16. /\ Cloning /\ Cloning'
       /\ Len(Definitions) + Len(toClone) = First * Copies[p]
       /\ Found(p) <= Len(Definitions)
       /\ \A j \in DOMAIN toClone : toClone[j] = Definitions[(Len(Definitions) - Found(p)) + j]
  <2>1. Cloning /\ Cloning'
    BY <1>1, <1>2 DEF Cloning
  <2> QED BY <2>1 DEF CloneInv, CountInv, PendingInv
<1>17. Found(p)' = Found(p) /\ Found(p) \in Nat /\ First \in Nat /\ p \in 1..Len(passes)
       /\ passes \in Seq(Kinds) /\ Len(passes) \in Nat /\ DOMAIN passes = 1..Len(passes)
  <2>1. /\ passes \in Seq(Kinds) /\ Len(passes) \in Nat /\ DOMAIN passes = 1..Len(passes)
        /\ p \in 1..Len(passes) /\ First \in Nat
    BY <1>1, <1>4, LenProperties, FirstType DEF TypeInv
  <2>2. Copies[p - 1] \in Nat
    <3>1. p - 1 \in 0..Len(passes)
      BY <2>1
    <3> QED BY <2>1, <3>1, CopiesLoop
  <2>3. First * Copies[p - 1] \in Nat
    <3> DEFINE f == First
               c == Copies[p - 1]
    <3>1. f \in Nat /\ c \in Nat
      BY <2>1, <2>2
    <3> HIDE DEF f, c
    <3>2. f * c \in Nat
      BY <3>1
    <3> QED BY <3>2 DEF f, c
  <2> QED BY <1>2, <1>3, <2>1, <2>3 DEF Found
<1>18. MirrorInv'
  <2> DEFINE M == Len(program.functions)
             l == Len(Definitions)
  <2>1. M \in Nat
    <3>1. program.functions \in Seq(Fun)
      BY <1>4, ProgramType DEF TypeInv
    <3> QED BY <3>1, LenProperties
  <2>2. ASSUME NEW n \in M + 1..N + 1
        PROVE  ~isDeclaration(functions'[n])
    <3>1. CASE n \in M + 1..N
      <4>1. ~isDeclaration(functions[n])
        BY <3>1 DEF CloneInv, MirrorInv
      <4>2. n \in 1..N
        BY <1>4, <2>1, <3>1
      <4> HIDE DEF M, N
      <4> QED BY <1>11, <4>1, <4>2
    <3>2. CASE n = N + 1
      <4>1. functions'[n] = copy
        BY <1>11, <3>2
      <4> QED BY <1>6, <1>10, <4>1 DEF isDeclaration
    <3>3. n \in M + 1..N \/ n = N + 1
      BY <1>4, <2>1
    <3> QED BY <3>1, <3>2, <3>3
  <2>3. ASSUME NEW n \in DOMAIN passes, passes[n] = "clonefuncs", NEW k \in 1..Found(n),
               Found(n) + k \in 1..(l + 1)
        PROVE  IsCloneOf(Definitions'[Found(n) + k], Definitions'[k])
    <3>1. Found(n) \in Nat /\ l \in Nat /\ k \in 1..l
      <4>1. Found(n) \in Nat
        <5> DEFINE f == First
                   c == Copies[n - 1]
        <5>1. f \in Nat /\ c \in Nat
          <6>1. n - 1 \in 0..Len(passes)
            BY <1>17
          <6> QED BY <1>17, <6>1, CopiesLoop
        <5> HIDE DEF f, c
        <5>2. f * c \in Nat
          BY <5>1
        <5> QED BY <5>2 DEF f, c, Found
      <4> DEFINE e == Found(n)
      <4>2. e \in Nat /\ l \in Nat /\ k \in 1..e /\ e + k \in 1..(l + 1)
        BY <1>15, <2>3, <4>1
      <4> HIDE DEF e, l
      <4>3. k \in 1..l
        BY <4>2
      <4> QED BY <4>2, <4>3 DEF e
    <3>2. Definitions'[k] = Definitions[k]
      BY <1>15, <3>1
    <3>3. CASE Found(n) + k \in 1..l
      <4>1. IsCloneOf(Definitions[Found(n) + k], Definitions[k])
        BY <1>15, <2>3, <3>3 DEF CloneInv, MirrorInv
      <4>2. Definitions'[Found(n) + k] = Definitions[Found(n) + k]
        BY <1>15, <3>3
      <4> QED BY <3>2, <4>1, <4>2
    <3>4. CASE Found(n) + k = l + 1
      <4>1. n = p
        BY <1>1, <1>5, <1>15, <1>16, <1>17, <2>3, <3>1, <3>4, NextClone
      <4>2. (l - Found(p)) + 1 = k
        <5> DEFINE e == Found(p)
        <5>1. e \in Nat /\ l \in Nat /\ k \in Nat /\ e + k = l + 1
          BY <1>17, <3>1, <3>4, <4>1
        <5> HIDE DEF e, l
        <5>2. (l - e) + 1 = k
          BY <5>1
        <5> QED BY <5>2 DEF e
      <4>3. 1 \in DOMAIN toClone
        BY <1>5
      <4>4. fun = Definitions[k]
        BY <1>5, <1>16, <4>2, <4>3
      <4>5. Definitions'[Found(n) + k] = copy
        BY <1>15, <3>4
      <4> QED BY <1>10, <3>2, <4>4, <4>5 DEF IsCloneOf
    <3>5. Found(n) + k \in 1..l \/ Found(n) + k = l + 1
      BY <1>15, <2>3, <3>1
    <3> QED BY <3>3, <3>4, <3>5
  <2>4. ASSUME NEW n \in DOMAIN passes, passes[n] = "clonefuncs", NEW k \in 1..Found(n),
               Found(n) + k \in DOMAIN Definitions'
        PROVE  IsCloneOf(Definitions'[Found(n) + k], Definitions'[k])
    BY <1>15, <2>3, <2>4
  <2>5. \A n : Found(n)' = Found(n)
    BY <1>3 DEF Found
  <2>6. \A n \in Len(program.functions)' + 1..Len(functions') : ~isDeclaration(functions'[n])
    BY <1>2, <1>11, <2>2
  <2>7. \A n \in DOMAIN passes' : passes'[n] = "clonefuncs" =>
          \A k \in 1..Found(n)' : Found(n)' + k \in DOMAIN Definitions' =>
            IsCloneOf(Definitions'[Found(n)' + k], Definitions'[k])
    BY <1>2, <2>4, <2>5
  <2> QED BY <2>6, <2>7 DEF MirrorInv, IsCloneOf, isDeclaration
<1>19. PendingInv'
  <2>1. ASSUME NEW n \in DOMAIN toClone'
        PROVE  ~isDeclaration(toClone'[n]) /\ toClone'[n] \in ToSet(functions')
    <3>1. n \in 1..Len(Tail(toClone)) /\ n + 1 \in DOMAIN toClone
      <4>1. n \in 1..Len(Tail(toClone))
        BY <1>1, <1>5, LenProperties
      <4> QED BY <1>5, <4>1
    <3>2. toClone'[n] = toClone[n + 1]
      BY <1>1, <1>5, <3>1
    <3>3. ~isDeclaration(toClone[n + 1]) /\ toClone[n + 1] \in ToSet(functions)
      BY <3>1 DEF CloneInv, PendingInv
    <3> QED BY <1>11, <3>2, <3>3
  <2>2. ASSUME NEW n \in DOMAIN toClone' PROVE (~isDeclaration(toClone[n]))'
    BY <2>1 DEF isDeclaration
  <2>3. ASSUME NEW n \in DOMAIN toClone' PROVE (toClone[n] \in ToSet(functions))'
    BY <2>1 DEF ToSet
  <2>4. (Found(p) <= Len(Definitions)
          /\ \A j \in DOMAIN toClone : toClone[j] = Definitions[(Len(Definitions) - Found(p)) + j])'
    <3> DEFINE l == Len(Definitions)
               e == Found(p)
    <3>1. l \in Nat /\ e \in Nat /\ e <= l /\ Len(Definitions') = l + 1 /\ Found(p)' = e
      BY <1>15, <1>16, <1>17
    <3>2. e <= l + 1
      <4> HIDE DEF l, e
      <4> QED BY <3>1
    <3>3. ASSUME NEW j \in DOMAIN toClone'
          PROVE  toClone'[j] = Definitions'[((l + 1) - e) + j]
      <4>1. j \in 1..Len(Tail(toClone)) /\ j + 1 \in DOMAIN toClone
        <5>1. j \in 1..Len(Tail(toClone))
          BY <1>1, <1>5, LenProperties
        <5> QED BY <1>5, <5>1
      <4>2. toClone'[j] = toClone[j + 1]
        BY <1>1, <1>5, <4>1
      <4>3. toClone[j + 1] = Definitions[(l - e) + (j + 1)]
        BY <1>16, <4>1
      <4>4. ((l + 1) - e) + j = (l - e) + (j + 1)
        <5>1. j \in Nat
          BY <1>5, <4>1
        <5> HIDE DEF l, e
        <5> QED BY <3>1, <5>1
      <4>5. (l - e) + (j + 1) \in 1..l
        <5>1. /\ j \in Nat \ {0} /\ Len(toClone) \in Nat /\ j + 1 <= Len(toClone)
              /\ l + Len(toClone) = First * Copies[p]
          BY <1>5, <1>16, <4>1
        <5>2. First * Copies[p] = 2 * e
          BY <1>1, <1>17, DoubleFound
        <5> HIDE DEF l, e
        <5> QED BY <3>1, <5>1, <5>2
      <4>6. Definitions'[(l - e) + (j + 1)] = Definitions[(l - e) + (j + 1)]
        BY <1>15, <4>5
      <4> QED BY <4>2, <4>3, <4>4, <4>6
    <3> HIDE DEF e
    <3> QED BY <3>1, <3>2, <3>3
  <2> QED BY <2>2, <2>3, <2>4 DEF PendingInv
<1>20. CountInv'
  <2>1. Len(toClone') = Len(toClone) - 1
    BY <1>1, <1>5
  <2>2. Len(Definitions') + Len(toClone') = First * Copies[p]
    BY <1>5, <1>15, <1>16, <2>1
  <2> QED BY <1>2, <1>3, <1>16, <2>2 DEF CountInv
<1> QED BY <1>12, <1>13, <1>14, <1>18, <1>19, <1>20 DEF CloneInv

(* When clonefuncs ends none is due.                                       *)
LEMMA EndCloningKeeps ==
  ASSUME CloneInv, EndCloning
  PROVE  CloneInv'
<1>1. /\ p <= Len(passes) /\ passes[p] = "clonefuncs" /\ status = "running"
      /\ x = 1 /\ toClone = <<>>
      /\ p' = p + 1 /\ x' = 0 /\ functions' = functions /\ toClone' = toClone
      /\ LastUnique' = LastUnique /\ globals' = globals
      /\ UNCHANGED <<fixed, g, status>>
  BY DEF EndCloning, Running, cloning
<1>2. passes' = passes /\ program' = program /\ g' = g /\ status' = status
  BY <1>1 DEF fixed
<1>3. First' = First /\ Copies' = Copies /\ Fun' = Fun
  BY <1>1, FixedUnchanged, TypesUnchanged
<1>4. TypeInv /\ Len(passes) \in Nat
  BY LenProperties DEF CloneInv, TypeInv
<1>5. p' \in 1..Len(passes) + 1 /\ p' - 1 = p
  BY <1>1, <1>4 DEF TypeInv
<1>6. TypeInv'
  BY <1>1, <1>2, <1>3, <1>4, <1>5 DEF TypeInv
<1>7. PrefixInv' /\ DistinctInv'
  BY <1>1, <1>2 DEF PrefixInv, DistinctInv, CloneInv
<1>8. MirrorInv' /\ PendingInv'
  <2>1. ~Cloning'
    BY <1>1 DEF Cloning
  <2> QED BY <1>1, <1>2, <1>3, <2>1
          DEF MirrorInv, PendingInv, CloneInv, Found, IsCloneOf, Definitions, isDeclaration
<1>9. CountInv'
  <2>1. Cloning /\ ~Cloning'
    BY <1>1 DEF Cloning
  <2>2. Len(Definitions) + Len(toClone) = First * Copies[p]
    BY <2>1 DEF CloneInv, CountInv
  <2>3. Len(Definitions) \in Nat
    <3>1. Definitions \in Seq(Fun)
      BY <1>4, DefinedContents DEF TypeInv, Definitions
    <3> QED BY <3>1, LenProperties
  <2>4. Len(Definitions) = First * Copies[p]
    <3>1. Len(toClone) = 0
      BY <1>1
    <3> QED BY <2>2, <2>3, <3>1
  <2>5. Definitions' = Definitions
    BY <1>1 DEF Definitions
  <2>6. Copies'[p' - 1] = Copies[p]
    BY <1>3, <1>5
  <2> QED BY <1>1, <1>3, <2>1, <2>4, <2>5, <2>6 DEF CountInv
<1> QED BY <1>6, <1>7, <1>8, <1>9 DEF CloneInv

(* The steps of Statistics and of the Hello passes.                         *)
LEMMA PassStepKeeps ==
  ASSUME CloneInv, StartCounting \/ CountNext \/ PrintStatistics \/ Greet \/ NextFunction \/ EndGroup
  PROVE  KeepsList
<1>1. TypeInv /\ Len(passes) \in Nat /\ p \in Nat \ {0} /\ p <= Len(passes) + 1 /\ x \in Nat /\ g \in Nat
  BY LenProperties DEF CloneInv, TypeInv
<1>2. functions \in Seq(Fun) /\ Len(functions) \in Nat /\ DOMAIN functions = 1..Len(functions)
  BY <1>1, LenProperties DEF TypeInv
<1>3. PICK q \in p - 1..Len(passes) :
           /\ Group = p..q /\ Cardinality(Group) = q - (p - 1)
           /\ \A n \in p..q : passes[n] \in FunctionPasses
           /\ \A n \in p - 1..q : Copies[n] = Copies[p - 1]
           /\ Group # {} <=> p <= Len(passes) /\ passes[p] \in FunctionPasses
  BY <1>1, GroupSpan DEF TypeInv
<1>4. CASE StartCounting \/ CountNext
  <2>1. /\ passes[p] = "mystats" /\ p' = p /\ g' = g /\ status' = status
        /\ passes' = passes /\ x' \in Nat
        /\ UNCHANGED <<globals, functions, cloning, fixed>>
    BY <1>1, <1>4 DEF StartCounting, CountNext, Running, CountGlobals, CountFunction, fixed
  <2>2. ~Cloning /\ ~Cloning'
    BY <2>1 DEF Cloning
  <2> QED BY <1>1, <2>1, <2>2 DEF TypeInv, KeepsList
<1>5. CASE PrintStatistics
  <2>1. /\ p <= Len(passes) /\ passes[p] = "mystats" /\ p' = p + 1 /\ x' = 0 /\ g' = g
        /\ status' = status /\ status = "running" /\ passes' = passes
        /\ UNCHANGED <<globals, functions, cloning, fixed>>
    BY <1>5 DEF PrintStatistics, Running, PrintCounters, fixed
  <2>2. ~Cloning /\ ~Cloning'
    BY <2>1 DEF Cloning
  <2>3. Copies[p' - 1] = Copies[p - 1]
    <3>1. p \in 1..Len(passes) /\ p' - 1 = p /\ passes \in Seq(Kinds)
      BY <1>1, <2>1 DEF TypeInv
    <3> QED BY <2>1, <3>1, CopiesLoop
  <2>4. p' \in 1..Len(passes) + 1
    BY <1>1, <2>1
  <2>5. x' \in Nat /\ g' \in Nat /\ status' = "running"
    BY <1>1, <2>1
  <2> QED BY <2>1, <2>2, <2>3, <2>4, <2>5 DEF KeepsList
<1>6. CASE Greet \/ NextFunction
  <2>1. Group # {} /\ p' = p /\ g' \in Nat /\ x' \in Nat /\ status' = status
    BY <1>1, <1>6 DEF Greet, NextFunction
  <2>2. UNCHANGED <<globals, functions, cloning, fixed>> /\ passes' = passes
    BY <1>6 DEF Greet, NextFunction, fixed
  <2>3. ~Cloning /\ ~Cloning'
    BY <1>3, <2>1, <2>2 DEF Cloning, FunctionPasses
  <2> QED BY <1>1, <2>1, <2>2, <2>3 DEF TypeInv, KeepsList
<1>7. CASE EndGroup
  <2>1. /\ Group # {} /\ p' = p + Cardinality(Group) /\ x' = 0 /\ g' = g /\ status' = status
        /\ status = "running"
        /\ UNCHANGED <<globals, functions, cloning, fixed>> /\ passes' = passes
    BY <1>7 DEF EndGroup, fixed
  <2>2. ~Cloning /\ ~Cloning'
    BY <1>3, <2>1 DEF Cloning, FunctionPasses
  <2>3. p' = q + 1 /\ q \in p - 1..q /\ p' \in 1..Len(passes) + 1
    BY <1>1, <1>3, <2>1
  <2>4. Copies[p' - 1] = Copies[p - 1]
    <3>1. p' - 1 = q
      BY <1>1, <2>3
    <3> QED BY <1>3, <2>3, <3>1
  <2>5. x' \in Nat /\ g' \in Nat /\ status' = "running"
    BY <1>1, <2>1
  <2> QED BY <2>1, <2>2, <2>3, <2>4, <2>5 DEF KeepsList
<1> QED BY <1>4, <1>5, <1>6, <1>7

(* The steps of the code generator.                                         *)
LEMMA CodeStepKeeps ==
  ASSUME CloneInv, RunDriver \/ ReadCommandLine \/ StartCoding \/ Refuse \/ Emit \/ EndCoding
  PROVE  KeepsList
<1>1. TypeInv /\ Len(passes) \in Nat /\ p \in Nat \ {0} /\ p <= Len(passes) + 1 /\ x \in Nat /\ g \in Nat
  BY LenProperties DEF CloneInv, TypeInv
<1>2. /\ p > Len(passes) /\ p' = p /\ g' = g /\ x' \in Nat
      /\ status' \in {"running", "parsed", "coding", "emitted", "refused"}
  <2>1. CASE RunDriver \/ ReadCommandLine \/ Refuse
    BY <1>1, <2>1 DEF RunDriver, ReadCommandLine, Written, Refuse
  <2>2. CASE StartCoding \/ Emit \/ EndCoding
    BY <1>1, <2>2 DEF StartCoding, Emit, EndCoding, TypeInv
  <2> QED BY <2>1, <2>2
<1>3. UNCHANGED <<globals, functions, cloning, fixed>> /\ passes' = passes
  BY DEF RunDriver, ReadCommandLine, Written, StartCoding, Refuse, Emit, EndCoding, fixed
<1>4. ~Cloning /\ ~Cloning'
  BY <1>1, <1>2, <1>3 DEF Cloning
<1>5. p' = Len(passes) + 1 /\ p' \in 1..Len(passes) + 1 /\ g' \in Nat
  BY <1>1, <1>2
<1>6. Copies[p' - 1] = Copies[p - 1]
  BY <1>2
<1> QED BY <1>2, <1>3, <1>4, <1>5, <1>6 DEF KeepsList

(* Every step keeps the invariant of the list.                             *)
LEMMA CloneStep ==
  ASSUME CloneInv, [Next]_vars
  PROVE  CloneInv'
<1>1. CASE StartCloning
  BY <1>1, StartCloningKeeps
<1>2. CASE CloneNext
  BY <1>2, CloneNextKeeps
<1>3. CASE EndCloning
  BY <1>3, EndCloningKeeps
<1>4. CASE StartCounting \/ CountNext \/ PrintStatistics \/ Greet \/ NextFunction \/ EndGroup
  BY <1>4, PassStepKeeps, ListUnchanged
<1>5. CASE RunDriver \/ ReadCommandLine \/ StartCoding \/ Refuse \/ Emit \/ EndCoding
  BY <1>5, CodeStepKeeps, ListUnchanged
<1>6. CASE UNCHANGED vars
  <2>1. UNCHANGED <<globals, functions, cloning, fixed>> /\ p' = p /\ x' = x /\ g' = g /\ status' = status
    BY <1>6 DEF vars
  <2>2. toClone' = toClone /\ LastUnique' = LastUnique /\ passes' = passes /\ program' = program
        /\ functions' = functions /\ globals' = globals
    BY <2>1 DEF cloning, fixed
  <2>3. First' = First /\ Copies' = Copies /\ Fun' = Fun
    BY <2>1, FixedUnchanged, TypesUnchanged
  <2>4. Cloning' = Cloning /\ Definitions' = Definitions
    BY <2>1, <2>2 DEF Cloning, Definitions
  <2>5. TypeInv'
    BY <2>1, <2>2, <2>3 DEF TypeInv, CloneInv
  <2>6. PrefixInv' /\ DistinctInv'
    BY <2>2 DEF PrefixInv, DistinctInv, CloneInv
  <2>7. MirrorInv' /\ PendingInv'
    BY <2>1, <2>2, <2>3, <2>4 DEF MirrorInv, PendingInv, CloneInv, Found, IsCloneOf, isDeclaration
  <2>8. CountInv'
    BY <2>1, <2>2, <2>3, <2>4 DEF CountInv, CloneInv
  <2> QED BY <2>5, <2>6, <2>7, <2>8 DEF CloneInv
<1> QED BY <1>1, <1>2, <1>3, <1>4, <1>5, <1>6 DEF Next

(* At every moment the list begins with the program's functions, no two    *)
(* functions have one name, what follows mirrors an earlier function, and  *)
(* the definitions there are and those due are as many as the doublings    *)
(* say.                                                                    *)
THEOREM CloneInvariant == Spec => []CloneInv
<1>1. Init => CloneInv
  BY CloneInit
<1>2. CloneInv /\ [Next]_vars => CloneInv'
  BY CloneStep
<1> QED BY <1>1, <1>2, PTL DEF Spec

(* Instructions call functions of the program: a clone's calls are copied  *)
(* from its original, and names of clones are never in them.               *)
LEMMA CallsOfProgram ==
  ASSUME NEW fun \in Fun, NEW I \in ToSet(Insts(fun)), I.kind = "call", I.callee = "function"
  PROVE  I.to \in NamesIn(program)
<1>1. Insts(fun) \in Seq(Code)
  BY InstsType
<1>2. I \in Code
  <2> DEFINE s == Insts(fun)
  <2>1. s \in Seq(Code) /\ \E k \in DOMAIN s : I = s[k]
    BY <1>1 DEF ToSet
  <2> HIDE DEF s
  <2> QED BY <2>1, ElementType
<1>3. I \in [kind: {"call"}, callee: {"function"}, to: NamesIn(program)]
  <2>1. I \notin [kind: {"alloca"}, type: Types] /\ I \notin [kind: {"store", "other"}]
    OBVIOUS
  <2>2. I \notin [kind: {"call"}, callee: {"value", "constant"}]
    OBVIOUS
  <2> QED BY <1>2, <2>1, <2>2 DEF Code, Instructions
<1> QED BY <1>3

(* The invariant of the list implies the property checked.                 *)
LEMMA CloneInvMirrors ==
  ASSUME CloneInv
  PROVE  ClonesMirrorOriginals
<1> DEFINE N == Len(functions)
           M == Len(program.functions)
<1>1. /\ TypeInv /\ Len(passes) \in Nat /\ passes \in Seq(Kinds) /\ program \in Programs
      /\ p \in Nat \ {0} /\ p <= Len(passes) + 1
      /\ functions \in Seq(Fun) /\ N \in Nat /\ DOMAIN functions = 1..N
  BY LenProperties DEF CloneInv, TypeInv
<1>2. program.functions \in Seq(Fun) /\ M \in Nat /\ DOMAIN program.functions = 1..M
  <2>1. program.functions \in Seq(Fun)
    BY <1>1, ProgramType
  <2> QED BY <2>1, LenProperties
<1>3. x = 0 \/ p > Len(passes) => Len(Definitions) = First * Copies[p - 1]
  <2> SUFFICES ASSUME x = 0 \/ p > Len(passes) PROVE Len(Definitions) = First * Copies[p - 1]
    OBVIOUS
  <2>1. ~Cloning
    BY <1>1 DEF Cloning
  <2> QED BY <2>1 DEF CloneInv, CountInv
<1>4. p <= Len(passes) => Len(Definitions) <= First * Copies[p]
  <2> SUFFICES ASSUME p <= Len(passes) PROVE Len(Definitions) <= First * Copies[p]
    OBVIOUS
  <2>1. p \in 1..Len(passes) /\ p - 1 \in 0..Len(passes)
    BY <1>1
  <2> DEFINE f == First
             c == Copies[p - 1]
             d == Copies[p]
             l == Len(Definitions)
             t == Len(toClone)
  <2>2. f \in Nat /\ c \in Nat /\ (d = 2 * c \/ d = c)
    BY <1>1, <2>1, CopiesLoop, FirstType
  <2>3. l \in Nat /\ t \in Nat
    <3>1. Definitions \in Seq(Fun) /\ toClone \in Seq(Fun)
      BY <1>1, DefinedContents DEF TypeInv, Definitions
    <3> QED BY <3>1, LenProperties
  <2>4. l + t = f * d \/ l = f * c
    BY DEF CloneInv, CountInv
  <2> HIDE DEF f, c, d, l, t
  <2>5. f * c <= f * d
    <3>1. f * (2 * c) = f * c + f * c /\ f * c \in Nat
      BY <2>2
    <3> QED BY <2>2, <3>1
  <2>6. f * c \in Nat /\ f * d \in Nat
    BY <2>2
  <2>7. l <= f * d
    BY <2>3, <2>4, <2>5, <2>6
  <2> QED BY <2>7 DEF f, d, l
<1>5. SubSeq(functions, 1, M) = program.functions
  <2>1. M <= N /\ \A n \in 1..M : functions[n] = program.functions[n]
    BY <1>2 DEF CloneInv, PrefixInv
  <2>2. \A n \in 1..M : functions[n] \in Fun
    BY <1>1, <1>2, <2>1, ElementOfSeq
  <2> DEFINE s == SubSeq(functions, 1, M)
  <2>3. /\ s \in Seq(Fun) /\ Len(s) = (IF 1 <= M THEN M - 1 + 1 ELSE 0)
        /\ \A n \in 1..(M - 1 + 1) : s[n] = functions[1 + n - 1]
    <3>1. 1 \in Int /\ M \in Int
      BY <1>2
    <3> HIDE DEF M
    <3> QED BY <2>2, <3>1, SubSeqProperties
  <2>4. Len(s) = M /\ \A n \in 1..M : s[n] = functions[n]
    <3>1. (IF 1 <= M THEN M - 1 + 1 ELSE 0) = M /\ M - 1 + 1 = M
      BY <1>2
    <3>2. \A n \in 1..M : 1 + n - 1 = n
      BY <1>2
    <3> HIDE DEF M, s
    <3> QED BY <2>3, <3>1, <3>2
  <2> HIDE DEF s
  <2>5. s = program.functions
    <3> DEFINE r == program.functions
    <3>1. r \in Seq(Fun) /\ Len(s) = Len(r) /\ \A n \in 1..Len(s) : s[n] = r[n]
      BY <1>2, <2>1, <2>4
    <3> HIDE DEF r
    <3>2. s = r
      BY <2>3, <3>1, SeqEqual
    <3> QED BY <3>2 DEF r
  <2> QED BY <2>5 DEF s
<1>6. Cardinality({functions[n].name : n \in DOMAIN functions}) = N
  <2> DEFINE f == [k \in 1..N |-> functions[k].name]
             S == 1..N
  <2>1. f \in Surjection(S, Names)
    BY <1>1 DEF Surjection, Names
  <2>2. IsFiniteSet(S) /\ Cardinality(S) = N
    <3> HIDE DEF N
    <3> QED BY <1>1, FS_Interval
  <2>3. f \in Injection(S, Names)
    <3>1. \A m, n \in S : f[m] = f[n] => m = n
      BY <1>1 DEF CloneInv, DistinctInv
    <3>2. f \in [S -> Names]
      BY <1>1 DEF Names
    <3> HIDE DEF f, S
    <3> QED BY <3>1, <3>2 DEF Injection, IsInjective
  <2>4. Cardinality(Names) = Cardinality(S)
    <3> HIDE DEF f, S
    <3> QED BY <2>1, <2>2, <2>3, FS_Surjection
  <2> QED BY <2>2, <2>4 DEF Names
<1>7. /\ \A n \in DOMAIN passes : passes[n] = "clonefuncs" =>
           \A k \in 1..Found(n) : Found(n) + k \in DOMAIN Definitions =>
             IsCloneOf(Definitions[Found(n) + k], Definitions[k])
      /\ \A n \in M + 1..N : ~isDeclaration(functions[n])
  BY DEF CloneInv, MirrorInv
<1>8. ASSUME NEW n \in M + 1..N, NEW I \in ToSet(Insts(functions[n])),
             I.kind = "call", I.callee = "function"
      PROVE  I.to \in Originals
  <2>1. n \in 1..N
    BY <1>1, <1>2
  <2>2. functions[n] \in Fun
    BY <1>1, <2>1, ElementOfSeq
  <2> DEFINE fun == functions[n]
  <2> HIDE DEF fun
  <2>3. I.to \in NamesIn(program)
    BY <1>8, <2>2, CallsOfProgram DEF fun
  <2> QED BY <2>3 DEF Originals, NamesIn
<1> QED BY <1>3, <1>4, <1>5, <1>6, <1>7, <1>8 DEF ClonesMirrorOriginals

(* For every program and every list of passes: each clonefuncs adds        *)
(* exactly one clone of each definition it finds and nothing else, the     *)
(* program's functions stay as they were, names are unique, and clones are *)
(* never called.                                                           *)
THEOREM ClonesCorrect == Spec => []ClonesMirrorOriginals
<1>1. CloneInv => ClonesMirrorOriginals
  BY CloneInvMirrors
<1> QED BY <1>1, CloneInvariant, PTL

------------------------------------------------------------------------------
(* Whether the command line being run asks for no-ops, the row of no-ops of a        *)
(* function, and the positions whose functions have been emitted.          *)
Wanted ==
    \/ command.tool = "llc" /\ "-noop-insertion" \in ToSet(command.flags)
    \/ command.tool = "clang -cc1" /\ "-mnoop-insertion" \in ToSet(command.flags)
Row(fun) == [b \in DOMAIN fun.blocks |-> IF option THEN 1 ELSE 0]
Coded(n) == {m \in 1..n : ~isDeclaration(functions[m])}

(* The flag that has been parsed is the one asked for, and the option that *)
(* is set is that flag.  Behind the current position every definition has  *)
(* its row and nothing else has one.                                       *)
NoopInv ==
    /\ status \in {"running", "parsed"} => noops = <<>>
    /\ status = "parsed" => (flag <=> Wanted)
    /\ status \in {"coding", "emitted"} =>
         /\ x \in 1..Len(functions) + 1
         /\ option <=> Wanted
         /\ DOMAIN noops = {functions[n].name : n \in Coded(x - 1)}
         /\ \A n \in Coded(x - 1) : noops[functions[n].name] = Row(functions[n])
    /\ status = "emitted" => x > Len(functions)

(* Nothing is emitted before the code generator starts.                    *)
LEMMA NoopInit ==
  ASSUME Init
  PROVE  NoopInv
BY DEF Init, NoopInv

(* Steps that leave the code generator's state and the list alone.          *)
LEMMA NoopUnchanged ==
  ASSUME NoopInv, UNCHANGED <<functions, coding>>, x' = x, status' = status
  PROVE  NoopInv'
<1>1. functions' = functions /\ noops' = noops /\ option' = option /\ command' = command /\ flag' = flag
  BY DEF coding
<1>2. Wanted' = Wanted /\ Coded(x - 1)' = Coded(x - 1)
  BY <1>1 DEF Wanted, Coded
<1>3. \A n \in Coded(x - 1) : Row(functions[n])' = Row(functions[n])
  BY <1>1 DEF Row
<1>4. (DOMAIN noops = {functions[n].name : n \in Coded(x - 1)})'
        = (DOMAIN noops = {functions[n].name : n \in Coded(x - 1)})
  <2>1. (DOMAIN noops)' = DOMAIN noops
    BY <1>1
  <2>2. {functions[n].name : n \in Coded(x - 1)}' = {functions[n].name : n \in Coded(x - 1)}
    BY <1>1, <1>2
  <2> QED BY <2>1, <2>2
<1>5. (\A n \in Coded(x - 1) : noops[functions[n].name] = Row(functions[n]))'
        = (\A n \in Coded(x - 1) : noops[functions[n].name] = Row(functions[n]))
  BY <1>1, <1>2, <1>3
<1> QED BY <1>1, <1>2, <1>4, <1>5, Zenon DEF NoopInv

(* A function with a body gets its row of no-ops, which no other function  *)
(* has, as names are unique.                                               *)
LEMMA EmitKeeps ==
  ASSUME CloneInv, NoopInv, Emit
  PROVE  NoopInv'
<1> DEFINE N == Len(functions)
           fun == functions[x]
<1>1. /\ status = "coding" /\ status' = "coding" /\ x \in DOMAIN functions /\ x' = x + 1
      /\ functions' = functions
      /\ IF isDeclaration(fun) THEN UNCHANGED coding ELSE EmitFunction(fun)
  BY DEF Emit, InFunctions, F
<1>2. /\ N \in Nat /\ DOMAIN functions = 1..N /\ functions \in Seq(Fun)
      /\ \A m, n \in DOMAIN functions : functions[m].name = functions[n].name => m = n
  BY LenProperties DEF CloneInv, TypeInv, DistinctInv
<1>3. /\ option <=> Wanted
      /\ DOMAIN noops = {functions[n].name : n \in Coded(x - 1)}
      /\ \A n \in Coded(x - 1) : noops[functions[n].name] = Row(functions[n])
  BY <1>1 DEF NoopInv
<1>4. command' = command /\ option' = option
  BY <1>1 DEF coding, EmitFunction
<1>5. x' \in 1..N + 1 /\ x' - 1 = x /\ x \in 1..N
  BY <1>1, <1>2
<1>6. Wanted' = Wanted /\ \A n \in 1..N : Row(functions[n])' = Row(functions[n])
  BY <1>1, <1>4 DEF Wanted, Row
<1>7. /\ DOMAIN noops' = {functions[n].name : n \in Coded(x)}
      /\ \A n \in Coded(x) : noops'[functions[n].name] = Row(functions[n])
  <2>1. CASE isDeclaration(fun)
    <3>1. noops' = noops
      BY <1>1, <2>1 DEF coding
    <3>2. Coded(x) = Coded(x - 1)
      <4>1. ASSUME NEW n \in 1..x, ~isDeclaration(functions[n]) PROVE n \in 1..x - 1
        BY <1>5, <2>1, <4>1
      <4>2. \A n \in 1..x - 1 : n \in 1..x
        BY <1>5
      <4> QED BY <4>1, <4>2 DEF Coded
    <3> QED BY <1>3, <3>1, <3>2
  <2>2. CASE ~isDeclaration(fun)
    <3>1. Coded(x) = Coded(x - 1) \cup {x}
      <4>1. \A n \in 1..x : n \in 1..x - 1 \/ n = x
        BY <1>5
      <4>2. \A n \in 1..x - 1 : n \in 1..x
        BY <1>5
      <4>3. x \in 1..x
        BY <1>5
      <4> QED BY <2>2, <4>1, <4>2, <4>3 DEF Coded
    <3>2. \A n \in Coded(x - 1) : functions[n].name # fun.name
      <4>1. \A n \in Coded(x - 1) : n \in DOMAIN functions /\ n # x
        BY <1>2, <1>5 DEF Coded
      <4> QED BY <1>2, <1>5, <4>1
    <3> DEFINE row == Row(fun)
    <3>3. noops' = [name \in DOMAIN noops \cup {fun.name} |-> IF name = fun.name THEN row ELSE noops[name]]
      BY <1>1, <2>2 DEF EmitFunction, Row
    <3> HIDE DEF row, fun
    <3>4. /\ DOMAIN noops' = {fun.name} \cup DOMAIN noops
          /\ noops'[fun.name] = row
          /\ \A a \in DOMAIN noops : a # fun.name => noops'[a] = noops[a]
      BY <3>3
    <3>5. DOMAIN noops' = {functions[n].name : n \in Coded(x)}
      BY <1>3, <3>1, <3>4 DEF fun
    <3>6. ASSUME NEW n \in Coded(x) PROVE noops'[functions[n].name] = Row(functions[n])
      <4>1. CASE n = x
        BY <3>4, <4>1 DEF fun, row
      <4>2. CASE n \in Coded(x - 1)
        <5>1. functions[n].name \in DOMAIN noops /\ functions[n].name # fun.name
          BY <1>3, <3>2, <4>2
        <5> QED BY <1>3, <3>4, <4>2, <5>1
      <4> QED BY <3>1, <4>1, <4>2
    <3> QED BY <3>5, <3>6
  <2> QED BY <2>1, <2>2
<1>8. Coded(x - 1)' = Coded(x)
  BY <1>1, <1>5 DEF Coded
<1>9. (DOMAIN noops = {functions[n].name : n \in Coded(x - 1)})'
  BY <1>1, <1>7, <1>8
<1>10. ASSUME NEW n \in Coded(x - 1)' PROVE (noops[functions[n].name] = Row(functions[n]))'
  <2>1. n \in Coded(x)
    BY <1>8
  <2>2. n \in 1..N
    BY <1>2, <1>5, <2>1 DEF Coded
  <2> QED BY <1>1, <1>6, <1>7, <2>1, <2>2
<1>11. (x \in 1..Len(functions) + 1)'
  BY <1>1, <1>5
<1> QED BY <1>1, <1>3, <1>4, <1>6, <1>9, <1>10, <1>11 DEF NoopInv

(* Every step keeps the invariant of the code generator.                   *)
LEMMA NoopStep ==
  ASSUME CloneInv, NoopInv, [Next]_vars
  PROVE  NoopInv'
<1>1. CASE /\ status = "running" /\ status' \in {"running", "refused"}
           /\ UNCHANGED coding
  BY <1>1 DEF NoopInv, coding
<1>2. CASE StartCloning \/ CloneNext \/ EndCloning
  BY <1>1, <1>2 DEF StartCloning, CloneNext, EndCloning, Running
<1>3. CASE StartCounting \/ CountNext \/ PrintStatistics
  BY <1>1, <1>3 DEF StartCounting, CountNext, PrintStatistics, Running
<1>4. CASE Greet \/ NextFunction \/ EndGroup
  BY <1>1, <1>4 DEF Greet, NextFunction, EndGroup
<1>5. CASE Refuse
  BY <1>1, <1>5 DEF Refuse, Written
<1>6. CASE RunDriver
  BY <1>6 DEF RunDriver, Written, RunFrontEnd, NoopInv
<1>7. CASE ReadCommandLine
  <2>1. /\ status = "running" /\ status' = "parsed" /\ noops' = noops /\ command' = command
        /\ \/ command.tool = "llc" /\ flag' = ("-noop-insertion" \in ToSet(command.flags))
           \/ command.tool = "clang -cc1" /\ flag' = ("-mnoop-insertion" \in ToSet(command.flags))
    BY <1>7 DEF ReadCommandLine, Written, ParseCommandLineOptions, ParseCodeGenArgs
  <2>2. flag' <=> Wanted'
    BY <2>1 DEF Wanted
  <2> QED BY <2>1, <2>2 DEF NoopInv
<1>8. CASE StartCoding
  <2>1. /\ status = "parsed" /\ x' = 1 /\ status' = "coding" /\ functions' = functions
        /\ option' = flag /\ command' = command /\ noops' = noops
    BY <1>8 DEF StartCoding, InitTargetOptionsFromCodeGenFlags, initTargetOptions
  <2>2. noops = <<>> /\ (flag <=> Wanted)
    BY <2>1 DEF NoopInv
  <2>3. option' <=> Wanted'
    <3>1. Wanted' = Wanted
      BY <2>1 DEF Wanted
    <3> QED BY <2>1, <2>2, <3>1
  <2>4. Coded(x - 1)' = {}
    <3>1. x' - 1 = 0 /\ 1..0 = {}
      BY <2>1
    <3> QED BY <3>1 DEF Coded
  <2>5. DOMAIN noops' = {}
    BY <2>1, <2>2
  <2>6. (x \in 1..Len(functions) + 1)'
    <3>1. Len(functions) \in Nat
      BY LenProperties DEF CloneInv, TypeInv
    <3> QED BY <2>1, <3>1
  <2>7. (DOMAIN noops = {functions[n].name : n \in Coded(x - 1)})'
    BY <2>4, <2>5
  <2> QED BY <2>1, <2>2, <2>3, <2>4, <2>6, <2>7 DEF NoopInv
<1>9. CASE Emit
  BY <1>9, EmitKeeps
<1>10. CASE EndCoding
  <2>1. /\ status = "coding" /\ status' = "emitted" /\ x > Len(functions) /\ x' = x
        /\ functions' = functions /\ UNCHANGED coding
    BY <1>10 DEF EndCoding
  <2>2. noops' = noops /\ option' = option /\ command' = command
    BY <2>1 DEF coding
  <2>3. Wanted' = Wanted /\ Coded(x - 1)' = Coded(x - 1)
    BY <2>1, <2>2 DEF Wanted, Coded
  <2> QED BY <2>1, <2>2, <2>3 DEF NoopInv, Row
<1>11. CASE UNCHANGED vars
  BY <1>11, NoopUnchanged DEF vars
<1> QED BY <1>2, <1>3, <1>4, <1>5, <1>8, <1>9, <1>10, <1>11, <1>6, <1>7 DEF Next

(* At the end every definition has been emitted.                           *)
LEMMA NoopInvFollows ==
  ASSUME CloneInv, NoopInv
  PROVE  NoopsFollowBackEndFlag
<1> SUFFICES ASSUME status = "emitted" PROVE
      /\ DOMAIN noops = {fun.name : fun \in ToSet(Definitions)}
      /\ \A fun \in ToSet(Definitions) :
           noops[fun.name] = [b \in DOMAIN fun.blocks |-> IF Wanted THEN 1 ELSE 0]
  BY DEF NoopsFollowBackEndFlag, Wanted
<1>1. /\ functions \in Seq(Fun) /\ Len(functions) \in Nat /\ DOMAIN functions = 1..Len(functions)
  BY LenProperties DEF CloneInv, TypeInv
<1>2. /\ x \in 1..Len(functions) + 1 /\ x > Len(functions)
      /\ option <=> Wanted
      /\ DOMAIN noops = {functions[n].name : n \in Coded(x - 1)}
      /\ \A n \in Coded(x - 1) : noops[functions[n].name] = Row(functions[n])
  BY DEF NoopInv
<1>3. x - 1 = Len(functions)
  BY <1>1, <1>2
<1>4. Coded(x - 1) = {n \in DOMAIN functions : ~isDeclaration(functions[n])}
  BY <1>1, <1>3 DEF Coded
<1>5. ToSet(Definitions) = {fun \in ToSet(functions) : ~isDeclaration(fun)}
  BY <1>1, DefinedContents DEF Definitions
<1>6. ToSet(Definitions) = {functions[n] : n \in Coded(x - 1)}
  BY <1>4, <1>5 DEF ToSet
<1> QED BY <1>2, <1>6 DEF Row

(* For every program, list of passes and command line: each block of each  *)
(* definition, clones included, is emitted with one no-op in front if the  *)
(* tool that generates the code was given its own flag, and with none      *)
(* otherwise.                                                              *)
THEOREM NoopsCorrect == Spec => []NoopsFollowBackEndFlag
<1>1. Init => NoopInv
  BY NoopInit
<1>2. CloneInv /\ NoopInv /\ [Next]_vars => NoopInv'
  BY NoopStep
<1>3. CloneInv /\ NoopInv => NoopsFollowBackEndFlag
  BY NoopInvFollows
<1> QED BY <1>1, <1>2, <1>3, CloneInvariant, PTL DEF Spec

(* Counting the members of K up to n, one number at a time.                 *)
UpTo(K, n) == {m \in 1..n : m \in K}

(* The next number counts if it is in K.                                   *)
LEMMA CountNextNumber ==
  ASSUME NEW K, NEW n \in Nat \ {0}
  PROVE  /\ IsFiniteSet(UpTo(K, n)) /\ Cardinality(UpTo(K, n)) \in Nat
         /\ IsFiniteSet(UpTo(K, n - 1)) /\ Cardinality(UpTo(K, n - 1)) \in Nat
         /\ Cardinality(UpTo(K, n))
              = Cardinality(UpTo(K, n - 1)) + (IF n \in K THEN 1 ELSE 0)
<1> DEFINE A == UpTo(K, n - 1)
           B == UpTo(K, n)
<1>1. IsFiniteSet(1..n - 1) /\ IsFiniteSet(1..n)
  <2>1. 1 \in Int /\ n \in Int /\ n - 1 \in Int
    OBVIOUS
  <2> QED BY <2>1, FS_Interval
<1>2. A \in SUBSET (1..n - 1) /\ B \in SUBSET (1..n)
  BY DEF UpTo
<1>3. n \notin A
  BY DEF UpTo
<1>4. n \in K => B = A \cup {n}
  BY DEF UpTo
<1>5. n \notin K => B = A
  BY DEF UpTo
<1> HIDE DEF A, B
<1>6. IsFiniteSet(A) /\ IsFiniteSet(B)
  BY <1>1, <1>2, FS_Subset
<1>7. Cardinality(A) \in Nat /\ Cardinality(B) \in Nat
  BY <1>6, FS_CardinalityType
<1>8. Cardinality(A \cup {n}) = Cardinality(A) + 1
  BY <1>3, <1>6, FS_AddElement
<1>9. Cardinality(B) = Cardinality(A) + (IF n \in K THEN 1 ELSE 0)
  <2>1. CASE n \in K
    BY <1>4, <1>8, <2>1
  <2>2. CASE n \notin K
    BY <1>5, <1>7, <2>2
  <2> QED BY <2>1, <2>2
<1> QED BY <1>6, <1>7, <1>9 DEF A, B

(* There are no numbers up to zero.                                        *)
LEMMA CountNone ==
  ASSUME NEW K, NEW n \in Int, n <= 0
  PROVE  Cardinality(UpTo(K, n)) = 0
<1>1. 1..n = {}
  OBVIOUS
<1>2. UpTo(K, n) = {}
  BY <1>1 DEF UpTo
<1> QED BY <1>2, FS_EmptySet

(* The members of K up to any number can be counted.                       *)
LEMMA CountType ==
  ASSUME NEW K, NEW n \in Int
  PROVE  Cardinality(UpTo(K, n)) \in Nat
<1>1. CASE n <= 0
  BY <1>1, CountNone
<1>2. CASE ~(n <= 0)
  <2>1. n \in Nat \ {0}
    BY <1>2
  <2> QED BY <2>1, CountNextNumber
<1> QED BY <1>1, <1>2

(* How often a list holds v, when one more element is added.                *)
Occurrences(s, v) == {k \in DOMAIN s : s[k] = v}

(* An element put at the end is one more occurrence of itself.             *)
LEMMA CountAppend ==
  ASSUME NEW S, NEW s \in Seq(S), NEW e \in S, NEW v
  PROVE  /\ Cardinality(Occurrences(s, v)) \in Nat
         /\ Cardinality(Occurrences(Append(s, e), v))
              = Cardinality(Occurrences(s, v)) + (IF e = v THEN 1 ELSE 0)
<1> DEFINE n == Len(s) + 1
           t == Append(s, e)
           K == {k \in Nat : t[k] = v}
<1>1. /\ Len(s) \in Nat /\ DOMAIN s = 1..Len(s) /\ n \in Nat \ {0} /\ n - 1 = Len(s)
      /\ t \in Seq(S) /\ Len(t) = n /\ t[n] = e /\ \A k \in 1..Len(s) : t[k] = s[k]
  BY AppendProperties, LenProperties
<1>2. DOMAIN t = 1..n
  BY <1>1, LenProperties
<1> HIDE DEF t
<1>3. Occurrences(t, v) = UpTo(K, n)
  BY <1>1, <1>2 DEF Occurrences, UpTo
<1>4. Occurrences(s, v) = UpTo(K, n - 1)
  <2>1. \A k \in 1..Len(s) : k \in Nat
    OBVIOUS
  <2> QED BY <1>1, <2>1 DEF Occurrences, UpTo
<1>5. n \in K <=> e = v
  BY <1>1
<1> HIDE DEF K
<1>6. /\ Cardinality(UpTo(K, n - 1)) \in Nat
      /\ Cardinality(UpTo(K, n)) = Cardinality(UpTo(K, n - 1)) + (IF n \in K THEN 1 ELSE 0)
  <2>1. n \in Nat \ {0}
    BY <1>1
  <2> HIDE DEF n
  <2> QED BY <2>1, CountNextNumber
<1> QED BY <1>3, <1>4, <1>5, <1>6 DEF t

(* The list of definitions is as long as there are functions with a body.   *)
Bodied(funs) == {m \in Nat : ~isDeclaration(funs[m])}

(* By induction over the list.                                             *)
LEMMA DefinedLength ==
  ASSUME NEW T, NEW s \in Seq(T)
  PROVE  Len(Defined(s)) = Cardinality(UpTo(Bodied(s), Len(s)))
<1> DEFINE Good == {w \in Seq(T) : Len(Defined(w)) = Cardinality(UpTo(Bodied(w), Len(w)))}
<1>1. <<>> \in Good
  <2>1. <<>> \in Seq(T) /\ Len(<<>>) = 0
    BY EmptySeq
  <2>2. Len(Defined(<<>>)) = 0
    BY <2>1, DefinedEmpty
  <2>3. Cardinality(UpTo(Bodied(<<>>), 0)) = 0
    BY CountNone
  <2> QED BY <2>1, <2>2, <2>3
<1>2. ASSUME NEW w \in Seq(T), NEW e \in T, w \in Good PROVE Append(w, e) \in Good
  <2> DEFINE t == Append(w, e)
             N == Len(w)
             d == Defined(w)
  <2>1. /\ t \in Seq(T) /\ Len(t) = N + 1 /\ t[N + 1] = e /\ \A k \in 1..N : t[k] = w[k]
        /\ N \in Nat
    BY AppendProperties, LenProperties
  <2>2. Defined(t) = Keep(d, e)
    BY DefinedAppend
  <2>3. d \in Seq(T) /\ Len(d) \in Nat
    <3>1. d \in Seq(T)
      BY DefinedContents
    <3> HIDE DEF d
    <3> QED BY <3>1, LenProperties
  <2>4. Len(d) = Cardinality(UpTo(Bodied(w), N))
    BY <1>2
  <2> HIDE DEF t, d
  <2>5. UpTo(Bodied(w), N) = UpTo(Bodied(t), N)
    BY <2>1 DEF UpTo, Bodied
  <2>6. Cardinality(UpTo(Bodied(t), N + 1))
          = Cardinality(UpTo(Bodied(t), N)) + (IF N + 1 \in Bodied(t) THEN 1 ELSE 0)
    <3> DEFINE n == N + 1
    <3>1. n \in Nat \ {0} /\ n - 1 = N
      BY <2>1
    <3> HIDE DEF n
    <3>2. Cardinality(UpTo(Bodied(t), n))
            = Cardinality(UpTo(Bodied(t), n - 1)) + (IF n \in Bodied(t) THEN 1 ELSE 0)
      BY <3>1, CountNextNumber
    <3> QED BY <3>1, <3>2 DEF n
  <2>7. N + 1 \in Bodied(t) <=> ~isDeclaration(e)
    BY <2>1 DEF Bodied
  <2>8. Len(Keep(d, e)) = Len(d) + (IF isDeclaration(e) THEN 0 ELSE 1)
    BY <2>3, AppendProperties DEF Keep
  <2>9. Len(Defined(t)) = Cardinality(UpTo(Bodied(t), Len(t)))
    <3> DEFINE a == Len(d)
               b == Cardinality(UpTo(Bodied(t), N))
    <3>1. a = b /\ a \in Nat
      BY <2>3, <2>4, <2>5
    <3>2. Cardinality(UpTo(Bodied(t), Len(t))) = b + (IF isDeclaration(e) THEN 0 ELSE 1)
      <4> HIDE DEF a
      <4> QED BY <2>1, <2>6, <2>7
    <3>3. Len(Defined(t)) = a + (IF isDeclaration(e) THEN 0 ELSE 1)
      BY <2>2, <2>8
    <3> HIDE DEF a, b
    <3> QED BY <3>1, <3>2, <3>3
  <2> QED BY <2>1, <2>9 DEF t
<1>3. Seq(T) \subseteq Good
  <2> HIDE DEF Good
  <2> QED BY <1>1, <1>2, AppendInduction
<1> QED BY <1>3

------------------------------------------------------------------------------
(* The turns of a pass up to the n-th, the definitions up to position n,   *)
(* how often a pass has greeted the i-th function, and how many passes of  *)
(* the current group have done so.                                         *)
GroupSize == Cardinality(Group)
Ran(pass) == {m \in Nat : passes[m] = pass}
Turns(pass, n) == Cardinality(UpTo(Ran(pass), n))
BodiesTo(n) == Cardinality(UpTo(Bodied(functions), n))
Greeted(pass, i) ==
    Cardinality(Occurrences(greetings, <<pass, program.functions[i].name>>))
Done(i) == IF i < x THEN GroupSize ELSE IF i = x THEN g ELSE 0
Greeting == FunctionPasses \X Seq(Parts)

(* Each function of the program with a body has been greeted by a pass as  *)
(* often as the pass had its turn, that of the current group included.     *)
TurnInv ==
    \A i \in DOMAIN program.functions, pass \in FunctionPasses :
      ~isDeclaration(program.functions[i]) => Greeted(pass, i) = Turns(pass, p - 1 + Done(i))
(* Earlier passes have greeted every definition, and of the current group  *)
(* each pass those behind the current position.                            *)
GreetInv ==
    /\ greetings \in Seq(Greeting)
    /\ HelloCounter = IF enabled THEN Len(greetings) ELSE 0
    /\ x <= Len(functions) + 1
    /\ g <= GroupSize
    /\ g > 0 => InFunctions /\ ~isDeclaration(F)
    /\ Len(greetings) = GreetingsUpTo[p - 1] + GroupSize * BodiesTo(x - 1) + g
    /\ TurnInv

(* The greetings that a whole group adds.                                   *)
LEMMA GroupGreetings ==
  ASSUME passes \in Seq(Kinds), program \in Programs, p \in 1..Len(passes) + 1
  PROVE  \E q \in p - 1..Len(passes) :
           /\ Group = p..q /\ GroupSize = q - (p - 1)
           /\ \A n \in p..q : passes[n] \in FunctionPasses
           /\ Group # {} <=> p <= Len(passes) /\ passes[p] \in FunctionPasses
           /\ GreetingsUpTo[q] = GreetingsUpTo[p - 1] + GroupSize * (First * Copies[p - 1])
<1> DEFINE N == Len(passes)
           K == First * Copies[p - 1]
<1>1. N \in Nat /\ DOMAIN passes = 1..N /\ p \in Nat \ {0} /\ p <= N + 1
  BY LenProperties
<1>2. PICK q \in p - 1..N :
           /\ Group = p..q /\ Cardinality(Group) = q - (p - 1)
           /\ \A n \in p..q : passes[n] \in FunctionPasses
           /\ \A n \in p - 1..q : Copies[n] = Copies[p - 1]
           /\ Group # {} <=> p <= Len(passes) /\ passes[p] \in FunctionPasses
  BY GroupSpan
<1>3. q \in Nat /\ q <= N /\ p - 1 <= q
  BY <1>1
<1>4. K \in Nat
  <2>1. p - 1 \in 0..N
    BY <1>1
  <2>2. First \in Nat /\ Copies[p - 1] \in Nat
    BY <2>1, CopiesLoop, FirstType
  <2> QED BY <2>2
<1>5. \A n \in 0..N : GreetingsUpTo[n] \in Nat
  BY GreetingsLoop, FirstType
<1>6. ASSUME NEW n \in p..q PROVE GreetingsUpTo[n] = GreetingsUpTo[n - 1] + K
  <2>1. n \in 1..N /\ n \in p - 1..q
    BY <1>1, <1>3
  <2>2. Copies[n] = Copies[p - 1] /\ passes[n] \in FunctionPasses
    BY <1>2, <2>1
  <2>3. GreetingsUpTo[n] = GreetingsUpTo[n - 1] + First * Copies[n]
    BY <2>1, <2>2, GreetingsLoop, FirstType
  <2> QED BY <2>2, <2>3
<1> DEFINE c == q - (p - 1)
           T == {m \in 0..c : GreetingsUpTo[(p - 1) + m] = GreetingsUpTo[p - 1] + m * K}
<1> HIDE DEF K
<1>7. c \in Nat
  BY <1>1, <1>3
<1>8. 0 \in T
  <2>1. (p - 1) + 0 = p - 1 /\ 0 * K = 0 /\ p - 1 \in 0..N /\ 0 \in 0..c
    BY <1>1, <1>3, <1>4
  <2>2. GreetingsUpTo[p - 1] \in Nat
    BY <1>5, <2>1
  <2> DEFINE a == GreetingsUpTo[p - 1]
  <2>3. a = a + 0
    BY <2>2
  <2> QED BY <2>1, <2>3
<1>9. ASSUME NEW m \in 1..c, m - 1 \in T PROVE m \in T
  <2> DEFINE n == (p - 1) + m
             a == GreetingsUpTo[p - 1]
  <2>1. n \in p..q /\ n - 1 = (p - 1) + (m - 1) /\ m \in 0..c /\ p - 1 \in 0..N
    BY <1>1, <1>3
  <2>2. GreetingsUpTo[n] = GreetingsUpTo[n - 1] + K
    <3> HIDE DEF n
    <3> QED BY <1>6, <2>1
  <2>3. GreetingsUpTo[n - 1] = a + (m - 1) * K
    BY <1>9, <2>1
  <2>4. a \in Nat
    BY <1>5, <2>1
  <2>5. m * K = (m - 1) * K + K /\ (m - 1) * K \in Int
    BY <1>4
  <2>6. GreetingsUpTo[n] = a + m * K
    <3> HIDE DEF n, a
    <3> QED BY <1>4, <2>2, <2>3, <2>4, <2>5
  <2> QED BY <2>1, <2>6
<1>10. c \in T
  <2>1. 0..c \subseteq T
    <3> HIDE DEF c, T
    <3> QED BY <1>7, <1>8, <1>9, PrefixInduction
  <2> QED BY <1>7, <2>1
<1>11. GreetingsUpTo[q] = GreetingsUpTo[p - 1] + GroupSize * K
  <2>1. (p - 1) + c = q /\ GroupSize = c
    BY <1>1, <1>2, <1>3 DEF GroupSize
  <2>2. GreetingsUpTo[(p - 1) + c] = GreetingsUpTo[p - 1] + c * K
    BY <1>10
  <2> HIDE DEF c
  <2> QED BY <2>1, <2>2
<1> QED BY <1>2, <1>11 DEF K, GroupSize

(* Before the first pass nobody has greeted.                               *)
LEMMA GreetInit ==
  ASSUME Init
  PROVE  GreetInv
<1>1. /\ program \in Programs /\ functions = program.functions /\ passes \in Pipelines
      /\ greetings = <<>> /\ HelloCounter = 0 /\ p = 1 /\ x = 0 /\ g = 0
  BY DEF Init
<1>2. /\ passes \in Seq(Kinds) /\ Len(passes) \in Nat /\ Len(functions) \in Nat
      /\ p \in 1..Len(passes) + 1 /\ First \in Nat
  <2>1. passes \in Seq(Kinds)
    BY <1>1, PipelinesAssumption DEF Kinds
  <2>2. program.functions \in Seq(Fun) /\ First \in Nat
    BY <1>1, ProgramType, FirstType
  <2>3. Len(passes) \in Nat /\ Len(functions) \in Nat
    BY <1>1, <2>1, <2>2, LenProperties
  <2>4. p \in 1..Len(passes) + 1
    BY <1>1, <2>3
  <2> QED BY <2>1, <2>2, <2>3, <2>4
<1>3. GroupSize \in Nat
  <2>1. PICK q \in p - 1..Len(passes) : GroupSize = q - (p - 1)
    BY <1>1, <1>2, GroupGreetings
  <2> QED BY <1>1, <1>2, <2>1
<1>4. greetings \in Seq(Greeting) /\ Len(greetings) = 0
  BY <1>1, EmptySeq
<1>5. Len(greetings) = GreetingsUpTo[p - 1] + GroupSize * BodiesTo(x - 1) + g
  <2>1. p - 1 = 0 /\ x - 1 = -1
    BY <1>1
  <2>2. GreetingsUpTo[p - 1] = 0
    BY <1>2, <2>1, GreetingsLoop
  <2>3. BodiesTo(x - 1) = 0
    <3>1. x - 1 \in Int /\ x - 1 <= 0
      BY <1>1
    <3> QED BY <3>1, CountNone DEF BodiesTo
  <2> QED BY <1>1, <1>3, <1>4, <2>2, <2>3
<1>6. TurnInv
  <2>1. ASSUME NEW i \in DOMAIN program.functions, NEW pass \in FunctionPasses
        PROVE  Greeted(pass, i) = Turns(pass, p - 1 + Done(i))
    <3>1. i \in Nat /\ i # 0
      <4>1. program.functions \in Seq(Fun)
        BY <1>1, ProgramType
      <4>2. DOMAIN program.functions = 1..Len(program.functions)
        BY <4>1, LenProperties
      <4> QED BY <4>2
    <3>2. Done(i) = 0
      BY <1>1, <3>1 DEF Done
    <3>3. Turns(pass, p - 1 + Done(i)) = 0
      <4>1. p - 1 + Done(i) = 0
        BY <1>1, <3>2
      <4> QED BY <4>1, CountNone DEF Turns
    <3>4. Greeted(pass, i) = 0
      <4>1. DOMAIN greetings = {}
        BY <1>1
      <4>2. Occurrences(greetings, <<pass, program.functions[i].name>>) = {}
        BY <4>1 DEF Occurrences
      <4> QED BY <4>2, FS_EmptySet DEF Greeted
    <3> QED BY <3>3, <3>4
  <2> QED BY <2>1 DEF TurnInv
<1>7. HelloCounter = IF enabled THEN Len(greetings) ELSE 0
  BY <1>1, <1>4
<1>8. x <= Len(functions) + 1 /\ g <= GroupSize /\ ~(g > 0)
  BY <1>1, <1>2, <1>3
<1> QED BY <1>4, <1>5, <1>6, <1>7, <1>8 DEF GreetInv

(* A group has a size, zero if there is no Hello at the current position.  *)
LEMMA GroupSizeType ==
  ASSUME TypeInv
  PROVE  GroupSize \in Nat /\ (Group = {} <=> GroupSize = 0)
<1>1. Len(passes) \in Nat /\ p \in Nat \ {0}
  BY LenProperties DEF TypeInv
<1>2. PICK q \in p - 1..Len(passes) : Group = p..q /\ GroupSize = q - (p - 1)
  BY GroupGreetings DEF TypeInv
<1> QED BY <1>1, <1>2

(* So it has after every step.                                             *)
LEMMA GroupSizeNext == TypeInv' => GroupSize' \in Nat
<1>1. TypeInv => GroupSize \in Nat
  BY GroupSizeType
<1>2. (TypeInv => GroupSize \in Nat)'
  BY <1>1, PTL
<1> QED BY <1>2

(* The turns of a pass and the group depend on the command line and the    *)
(* position alone.                                                         *)
LEMMA TurnsUnchanged ==
  ASSUME passes' = passes
  PROVE  /\ \A pass, n : Cardinality(UpTo(Ran(pass)', n)) = Turns(pass, n)
         /\ p' = p => Group' = Group /\ GroupSize' = GroupSize
<1>1. ASSUME NEW pass, NEW n PROVE Cardinality(UpTo(Ran(pass)', n)) = Turns(pass, n)
  BY DEF Ran, Turns
<1>2. p' = p => Group' = Group /\ GroupSize' = GroupSize
  BY DEF Group, GroupSize
<1> QED BY <1>1, <1>2

(* Who was greeted depends on the greetings and the program's names.       *)
LEMMA GreetedUnchanged ==
  ASSUME greetings' = greetings, program' = program
  PROVE  \A pass, i : Greeted(pass, i)' = Greeted(pass, i)
BY DEF Greeted

(* Steps of other passes, and of the code generator.                        *)
LEMMA AwayKeeps ==
  ASSUME TypeInv, TypeInv', GreetInv, UNCHANGED <<hello, enabled, fixed, p, g>>, Group = {},
         x' <= Len(functions') + 1
  PROVE  GreetInv'
<1>1. /\ greetings' = greetings /\ HelloCounter' = HelloCounter /\ enabled' = enabled
      /\ passes' = passes /\ program' = program /\ p' = p /\ g' = g
  BY DEF hello, fixed
<1>2. GreetingsUpTo' = GreetingsUpTo /\ Greeting' = Greeting
  <2>1. UNCHANGED fixed
    BY DEF fixed
  <2> QED BY <2>1, FixedUnchanged, TypesUnchanged DEF Greeting
<1>3. GroupSize = 0 /\ GroupSize' = 0 /\ g = 0
  <2>1. GroupSize = 0
    BY GroupSizeType
  <2>2. g = 0
    BY <2>1 DEF GreetInv, TypeInv
  <2> QED BY <1>1, <2>1, <2>2, TurnsUnchanged
<1>4. Len(greetings') = GreetingsUpTo'[p' - 1] + GroupSize' * BodiesTo(x - 1)' + g'
  <2> DEFINE a == BodiesTo(x - 1)
             b == BodiesTo(x - 1)'
             c == GreetingsUpTo[p - 1]
  <2>1. a \in Nat /\ b \in Nat
    <3>1. x - 1 \in Int /\ x' - 1 \in Int
      BY DEF TypeInv
    <3> QED BY <3>1, CountType DEF BodiesTo
  <2>2. Len(greetings) = c + GroupSize * a + g
    BY DEF GreetInv
  <2> HIDE DEF a, b
  <2>3. GroupSize * a = 0 /\ GroupSize' * b = 0
    BY <1>3, <2>1
  <2>4. Len(greetings') = c + GroupSize' * b + g'
    BY <1>1, <1>3, <2>2, <2>3
  <2>5. GreetingsUpTo'[p' - 1] = c
    BY <1>1, <1>2
  <2> HIDE DEF c
  <2> QED BY <2>4, <2>5 DEF b
<1>5. TurnInv'
  <2>1. ASSUME NEW i PROVE Done(i) = 0 /\ Done(i)' = 0
    BY <1>1, <1>3 DEF Done
  <2>2. ASSUME NEW i \in DOMAIN program.functions, NEW pass \in FunctionPasses,
               ~isDeclaration(program.functions[i])
        PROVE  (Greeted(pass, i) = Turns(pass, p - 1 + Done(i)))'
    <3>1. Greeted(pass, i) = Turns(pass, p - 1 + Done(i))
      BY <2>2 DEF GreetInv, TurnInv
    <3>2. Greeted(pass, i)' = Greeted(pass, i)
      BY <1>1, GreetedUnchanged
    <3>3. Turns(pass, p - 1 + Done(i))' = Turns(pass, p - 1 + Done(i))
      <4>1. p' - 1 + Done(i)' = p - 1 + Done(i)
        BY <1>1, <2>1
      <4> QED BY <1>1, <4>1, TurnsUnchanged DEF Turns
    <3> QED BY <3>1, <3>2, <3>3
  <2> QED BY <1>1, <2>2 DEF TurnInv, isDeclaration
<1>6. (HelloCounter = IF enabled THEN Len(greetings) ELSE 0)' /\ (greetings \in Seq(Greeting))'
  BY <1>1, <1>2 DEF GreetInv
<1>7. (g <= GroupSize)' /\ ~(g > 0)'
  BY <1>1, <1>3
<1> QED BY <1>4, <1>5, <1>6, <1>7 DEF GreetInv

(* Between passes.                                                          *)
AtPass ==
    /\ x = 0 /\ g = 0
    /\ Len(greetings) = GreetingsUpTo[p - 1]
    /\ \A i \in DOMAIN program.functions, pass \in FunctionPasses :
         ~isDeclaration(program.functions[i]) => Greeted(pass, i) = Turns(pass, p - 1)

(* What holds between passes implies the invariant, as no group is under   *)
(* way.                                                                    *)
LEMMA AtPassInv ==
  ASSUME TypeInv, greetings \in Seq(Greeting),
         HelloCounter = IF enabled THEN Len(greetings) ELSE 0, AtPass
  PROVE  GreetInv
<1>1. GroupSize \in Nat
  BY GroupSizeType
<1>2. Len(greetings) = GreetingsUpTo[p - 1] + GroupSize * BodiesTo(x - 1) + g
  <2> DEFINE b == BodiesTo(x - 1)
             c == GreetingsUpTo[p - 1]
  <2>1. b = 0
    <3>1. x - 1 \in Int /\ x - 1 <= 0
      BY DEF AtPass
    <3> QED BY <3>1, CountNone DEF BodiesTo
  <2>2. c \in Nat
    <3>1. p - 1 \in 0..Len(passes)
      <4>1. p \in 1..Len(passes) + 1 /\ Len(passes) \in Nat
        BY LenProperties DEF TypeInv
      <4> QED BY <4>1
    <3> QED BY <3>1, GreetingsLoop, FirstType DEF TypeInv
  <2>3. Len(greetings) = c /\ g = 0
    BY DEF AtPass
  <2> HIDE DEF c, b
  <2>4. GroupSize * b = 0
    BY <1>1, <2>1
  <2>5. Len(greetings) = c + GroupSize * b + g
    BY <2>2, <2>3, <2>4
  <2> QED BY <2>5 DEF c, b
<1>3. TurnInv
  <2>1. ASSUME NEW i \in DOMAIN program.functions, NEW pass \in FunctionPasses,
               ~isDeclaration(program.functions[i])
        PROVE  Greeted(pass, i) = Turns(pass, p - 1 + Done(i))
    <3>1. Greeted(pass, i) = Turns(pass, p - 1)
      BY <2>1 DEF AtPass
    <3>2. Done(i) = 0
      <4>1. i \in Nat \ {0}
        <5>1. program.functions \in Seq(Fun)
          BY ProgramType DEF TypeInv
        <5>2. DOMAIN program.functions = 1..Len(program.functions)
          BY <5>1, LenProperties
        <5> QED BY <5>2
      <4> QED BY <4>1 DEF Done, AtPass
    <3>3. p - 1 + Done(i) = p - 1
      BY <3>2 DEF TypeInv
    <3> QED BY <3>1, <3>3
  <2> QED BY <2>1 DEF TurnInv
<1>4. g <= GroupSize /\ ~(g > 0) /\ x <= Len(functions) + 1
  <2>1. Len(functions) \in Nat
    BY LenProperties DEF TypeInv
  <2> QED BY <1>1, <2>1 DEF AtPass
<1> QED BY <1>2, <1>3, <1>4 DEF GreetInv

(* The same after a step.                                                  *)
LEMMA AtPassNext ==
  /\ TypeInv' /\ (greetings \in Seq(Greeting))'
  /\ (HelloCounter = IF enabled THEN Len(greetings) ELSE 0)' /\ AtPass'
  => GreetInv'
<1>1. /\ TypeInv /\ greetings \in Seq(Greeting)
      /\ HelloCounter = (IF enabled THEN Len(greetings) ELSE 0) /\ AtPass
      => GreetInv
  BY AtPassInv
<1>2. (/\ TypeInv /\ greetings \in Seq(Greeting)
       /\ HelloCounter = (IF enabled THEN Len(greetings) ELSE 0) /\ AtPass
       => GreetInv)'
  BY <1>1, PTL
<1> QED BY <1>2

(* Steps to the next pass.                                                  *)
LEMMA BeginKeeps ==
  ASSUME TypeInv', GreetInv, UNCHANGED <<hello, enabled, fixed>>, AtPass'
  PROVE  GreetInv'
<1>1. /\ greetings' = greetings /\ HelloCounter' = HelloCounter /\ enabled' = enabled
  BY DEF hello, fixed
<1>2. Greeting' = Greeting
  <2>1. UNCHANGED fixed
    BY DEF fixed
  <2> QED BY <2>1, TypesUnchanged DEF Greeting
<1>3. (HelloCounter = IF enabled THEN Len(greetings) ELSE 0)' /\ (greetings \in Seq(Greeting))'
  BY <1>1, <1>2 DEF GreetInv
<1> QED BY <1>3, AtPassNext

(* A pass that is no Hello ends.                                            *)
LEMMA OtherPassEnds ==
  ASSUME TypeInv, GreetInv, UNCHANGED <<hello, enabled, fixed, g>>,
         p <= Len(passes), passes[p] \notin FunctionPasses, p' = p + 1, x' = 0
  PROVE  AtPass'
<1>1. /\ greetings' = greetings /\ passes' = passes /\ program' = program /\ g' = g
  BY DEF hello, fixed
<1>2. GreetingsUpTo' = GreetingsUpTo
  <2>1. UNCHANGED fixed
    BY DEF fixed
  <2> QED BY <2>1, FixedUnchanged
<1>3. /\ passes \in Seq(Kinds) /\ program \in Programs /\ Len(passes) \in Nat
      /\ p \in 1..Len(passes) /\ p \in Nat \ {0} /\ p - 1 \in 0..Len(passes)
      /\ p \in 1..Len(passes) + 1
  BY LenProperties DEF TypeInv
<1>4. GroupSize = 0 /\ g = 0
  <2>1. Group = {}
    BY <1>3, GroupGreetings
  <2>2. GroupSize = 0
    BY <2>1, GroupSizeType
  <2> QED BY <2>2 DEF GreetInv, TypeInv
<1>5. Len(greetings) = GreetingsUpTo[p]
  <2> DEFINE a == BodiesTo(x - 1)
             c == GreetingsUpTo[p - 1]
             d == GreetingsUpTo[p]
  <2>1. Len(greetings) = c + GroupSize * a + g
    BY DEF GreetInv
  <2>2. a \in Nat
    <3>1. x - 1 \in Int
      BY DEF TypeInv
    <3> QED BY <3>1, CountType DEF BodiesTo
  <2>3. c \in Nat /\ d = c
    BY <1>3, GreetingsLoop, FirstType
  <2> HIDE DEF a, c, d
  <2>4. GroupSize * a = 0
    BY <1>4, <2>2
  <2>5. Len(greetings) = d
    BY <1>4, <2>1, <2>3, <2>4
  <2> QED BY <2>5 DEF d
<1>6. ASSUME NEW i \in DOMAIN program.functions, NEW pass \in FunctionPasses,
             ~isDeclaration(program.functions[i])
      PROVE  (Greeted(pass, i) = Turns(pass, p - 1))'
  <2>1. Done(i) = 0
    BY <1>4 DEF Done
  <2>2. Greeted(pass, i) = Turns(pass, p - 1 + Done(i))
    BY <1>6 DEF GreetInv, TurnInv
  <2>3. p - 1 + Done(i) = p - 1
    BY <1>3, <2>1
  <2>4. Turns(pass, p) = Turns(pass, p - 1)
    <3>1. p \notin Ran(pass)
      BY <1>6 DEF Ran
    <3>2. /\ Cardinality(UpTo(Ran(pass), p - 1)) \in Nat
          /\ Cardinality(UpTo(Ran(pass), p))
               = Cardinality(UpTo(Ran(pass), p - 1)) + (IF p \in Ran(pass) THEN 1 ELSE 0)
      BY <1>3, CountNextNumber
    <3> DEFINE b == Cardinality(UpTo(Ran(pass), p - 1))
               c == Cardinality(UpTo(Ran(pass), p))
    <3>3. b \in Nat /\ c = b + 0
      BY <3>1, <3>2
    <3> HIDE DEF b, c
    <3>4. c = b
      BY <3>3
    <3> QED BY <3>4 DEF b, c, Turns
  <2>5. Turns(pass, p - 1)' = Turns(pass, p)
    <3>1. p' - 1 = p
      BY <1>3
    <3> QED BY <1>1, <3>1, TurnsUnchanged DEF Turns
  <2>6. Greeted(pass, i)' = Greeted(pass, i)
    BY <1>1, GreetedUnchanged
  <2> QED BY <2>2, <2>3, <2>4, <2>5, <2>6
<1>7. (Len(greetings) = GreetingsUpTo[p - 1])'
  <2>1. p' - 1 = p
    BY <1>3
  <2> QED BY <1>1, <1>2, <1>5, <2>1
<1>8. (x = 0 /\ g = 0)'
  BY <1>1, <1>4
<1> QED BY <1>1, <1>6, <1>7, <1>8 DEF AtPass, isDeclaration

(* A group of Hello passes ends.                                            *)
LEMMA GroupEnds ==
  ASSUME CloneInv, GreetInv, EndGroup
  PROVE  AtPass'
<1>1. /\ Group # {} /\ x > Len(functions) /\ p' = p + GroupSize /\ x' = 0 /\ g' = g
      /\ greetings' = greetings /\ passes' = passes /\ program' = program
      /\ UNCHANGED fixed
  BY DEF EndGroup, hello, fixed, GroupSize
<1>2. GreetingsUpTo' = GreetingsUpTo
  BY <1>1, FixedUnchanged
<1>3. /\ TypeInv /\ passes \in Seq(Kinds) /\ program \in Programs /\ functions \in Seq(Fun)
      /\ Len(passes) \in Nat /\ Len(functions) \in Nat /\ DOMAIN functions = 1..Len(functions)
      /\ p \in Nat \ {0} /\ p \in 1..Len(passes) + 1 /\ x \in Nat /\ g \in Nat
  BY LenProperties DEF CloneInv, TypeInv
<1>4. PICK q \in p - 1..Len(passes) :
           /\ Group = p..q /\ GroupSize = q - (p - 1)
           /\ \A n \in p..q : passes[n] \in FunctionPasses
           /\ Group # {} <=> p <= Len(passes) /\ passes[p] \in FunctionPasses
           /\ GreetingsUpTo[q] = GreetingsUpTo[p - 1] + GroupSize * (First * Copies[p - 1])
  BY <1>3, GroupGreetings
<1>5. p' - 1 = q /\ p - 1 + GroupSize = q
  BY <1>1, <1>3, <1>4
<1>6. g = 0 /\ x - 1 = Len(functions)
  <2>1. x <= Len(functions) + 1 /\ (g > 0 => InFunctions)
    BY DEF GreetInv
  <2>2. ~InFunctions
    BY <1>1, <1>3 DEF InFunctions
  <2> QED BY <1>1, <1>3, <2>1, <2>2
<1>7. BodiesTo(x - 1) = First * Copies[p - 1]
  <2>1. ~Cloning
    BY <1>1, <1>4 DEF Cloning, FunctionPasses
  <2>2. Len(Definitions) = First * Copies[p - 1]
    BY <2>1 DEF CloneInv, CountInv
  <2>3. Len(Definitions) = BodiesTo(Len(functions))
    BY <1>3, DefinedLength DEF Definitions, BodiesTo
  <2> QED BY <1>6, <2>2, <2>3
<1>8. Len(greetings) = GreetingsUpTo[q]
  <2> DEFINE a == GreetingsUpTo[p - 1]
             b == GroupSize * BodiesTo(x - 1)
  <2>1. Len(greetings) = a + b + g /\ GreetingsUpTo[q] = a + b
    BY <1>4, <1>7 DEF GreetInv
  <2>2. Len(greetings) \in Nat
    BY LenProperties DEF GreetInv
  <2>3. q \in 0..Len(passes) /\ GreetingsUpTo[q] \in Nat
    <3>1. q \in 0..Len(passes)
      BY <1>3
    <3> QED BY <1>3, <3>1, GreetingsLoop, FirstType
  <2> DEFINE s == a + b
  <2>4. Len(greetings) = s + g /\ s \in Nat
    BY <2>1, <2>3
  <2> HIDE DEF a, b
  <2> QED BY <1>6, <2>1, <2>4
<1>9. ASSUME NEW i \in DOMAIN program.functions, NEW pass \in FunctionPasses,
             ~isDeclaration(program.functions[i])
      PROVE  (Greeted(pass, i) = Turns(pass, p - 1))'
  <2>1. i \in Nat /\ i <= Len(functions)
    <3>1. program.functions \in Seq(Fun)
      BY <1>3, ProgramType
    <3>2. i \in 1..Len(program.functions) /\ Len(program.functions) \in Nat
      BY <3>1, LenProperties
    <3>3. Len(program.functions) <= Len(functions)
      BY DEF CloneInv, PrefixInv
    <3> QED BY <1>3, <3>2, <3>3
  <2>2. Done(i) = GroupSize
    BY <1>1, <1>3, <2>1 DEF Done
  <2>3. Greeted(pass, i) = Turns(pass, p - 1 + Done(i))
    BY <1>9 DEF GreetInv, TurnInv
  <2>4. Greeted(pass, i) = Turns(pass, q)
    BY <1>5, <2>2, <2>3
  <2>5. Turns(pass, p - 1)' = Turns(pass, q)
    BY <1>1, <1>5, TurnsUnchanged DEF Turns
  <2>6. Greeted(pass, i)' = Greeted(pass, i)
    BY <1>1, GreetedUnchanged
  <2> QED BY <2>4, <2>5, <2>6
<1>10. (Len(greetings) = GreetingsUpTo[p - 1])'
  BY <1>1, <1>2, <1>5, <1>8
<1>11. (x = 0 /\ g = 0)'
  BY <1>1, <1>6
<1> QED BY <1>1, <1>9, <1>10, <1>11 DEF AtPass, isDeclaration

(* A greeting is the next turn of one pass for one function: x stands on a *)
(* body, whose name no other function has.                                 *)
LEMMA GreetKeeps ==
  ASSUME CloneInv, GreetInv, Greet
  PROVE  GreetInv'
<1> DEFINE fun == functions[x]
           now == passes[p + g]
           line == <<now, fun.name>>
<1>1. /\ p + g \in Group /\ x \in DOMAIN functions /\ ~isDeclaration(fun)
      /\ HelloCounter' = (IF enabled THEN HelloCounter + 1 ELSE HelloCounter)
      /\ greetings' = Append(greetings, line) /\ g' = g + 1
      /\ p' = p /\ x' = x /\ functions' = functions /\ passes' = passes /\ program' = program
      /\ enabled' = enabled /\ UNCHANGED fixed
  BY DEF Greet, InFunctions, F, statistics, fixed
<1>2. /\ TypeInv /\ passes \in Seq(Kinds) /\ program \in Programs /\ functions \in Seq(Fun)
      /\ Len(passes) \in Nat /\ Len(functions) \in Nat /\ DOMAIN functions = 1..Len(functions)
      /\ p \in Nat \ {0} /\ p \in 1..Len(passes) + 1 /\ x \in Nat /\ g \in Nat
  BY LenProperties DEF CloneInv, TypeInv
<1>3. PICK q \in p - 1..Len(passes) :
           /\ Group = p..q /\ GroupSize = q - (p - 1)
           /\ \A n \in p..q : passes[n] \in FunctionPasses
  BY <1>2, GroupGreetings
<1>4. g + 1 <= GroupSize /\ now \in FunctionPasses /\ GroupSize \in Nat
  BY <1>1, <1>2, <1>3
<1>5. line \in Greeting
  <2>1. fun \in Fun
    BY <1>1, <1>2, ElementOfSeq
  <2>2. fun.name \in Seq(Parts)
    <3> HIDE DEF fun
    <3> QED BY <2>1 DEF Fun
  <2> QED BY <1>4, <2>2 DEF Greeting
<1> HIDE DEF line
<1>6. greetings \in Seq(Greeting) /\ greetings' \in Seq(Greeting) /\ Len(greetings') = Len(greetings) + 1
      /\ Len(greetings) \in Nat
  <2>1. greetings \in Seq(Greeting)
    BY DEF GreetInv
  <2> QED BY <1>1, <1>5, <2>1, AppendProperties, LenProperties
<1>7. /\ GreetingsUpTo' = GreetingsUpTo /\ Greeting' = Greeting
      /\ Group' = Group /\ GroupSize' = GroupSize
  BY <1>1, FixedUnchanged, TypesUnchanged, TurnsUnchanged DEF Greeting
<1>8. (HelloCounter = IF enabled THEN Len(greetings) ELSE 0)'
  <2>1. HelloCounter = IF enabled THEN Len(greetings) ELSE 0
    BY DEF GreetInv
  <2> QED BY <1>1, <1>6, <2>1
<1>9. (Len(greetings) = GreetingsUpTo[p - 1] + GroupSize * BodiesTo(x - 1) + g)'
  <2> DEFINE a == GreetingsUpTo[p - 1] + GroupSize * BodiesTo(x - 1)
  <2>1. Len(greetings) = a + g
    BY DEF GreetInv
  <2>2. a \in Int
    <3>1. p - 1 \in 0..Len(passes) /\ x - 1 \in Int
      BY <1>2
    <3>2. GreetingsUpTo[p - 1] \in Nat /\ BodiesTo(x - 1) \in Nat
      BY <1>2, <3>1, GreetingsLoop, FirstType, CountType DEF BodiesTo
    <3> QED BY <1>4, <3>2
  <2>3. (GreetingsUpTo[p - 1] + GroupSize * BodiesTo(x - 1))' = a
    <3>1. BodiesTo(x - 1)' = BodiesTo(x - 1)
      BY <1>1 DEF BodiesTo, Bodied, isDeclaration
    <3> QED BY <1>1, <1>7, <3>1
  <2> HIDE DEF a
  <2>4. Len(greetings') = a + g'
    BY <1>1, <1>2, <1>6, <2>1, <2>2
  <2> QED BY <2>3, <2>4
<1>10. ASSUME NEW i \in DOMAIN program.functions, NEW pass \in FunctionPasses,
              ~isDeclaration(program.functions[i])
       PROVE  (Greeted(pass, i) = Turns(pass, p - 1 + Done(i)))'
  <2> DEFINE who == <<pass, program.functions[i].name>>
             before == Cardinality(Occurrences(greetings, who))
  <2>1. /\ i \in 1..Len(functions) /\ functions[i] = program.functions[i]
    <3>1. program.functions \in Seq(Fun)
      BY <1>2, ProgramType
    <3>2. i \in 1..Len(program.functions) /\ Len(program.functions) \in Nat
      BY <3>1, LenProperties
    <3>3. Len(program.functions) <= Len(functions) /\ functions[i] = program.functions[i]
      BY DEF CloneInv, PrefixInv
    <3> QED BY <1>2, <3>2, <3>3
  <2>2. before = Turns(pass, p - 1 + Done(i))
    BY <1>10 DEF GreetInv, TurnInv, Greeted
  <2>3. /\ before \in Nat
        /\ Greeted(pass, i)' = before + (IF line = who THEN 1 ELSE 0)
    <3>1. Greeted(pass, i)' = Cardinality(Occurrences(Append(greetings, line), who))
      BY <1>1 DEF Greeted
    <3> HIDE DEF who
    <3> QED BY <1>5, <1>6, <3>1, CountAppend
  <2>4. CASE i = x
    <3>1. Done(i) = g /\ Done(i)' = g + 1
      BY <1>1, <1>2, <2>4 DEF Done
    <3>2. line = who <=> pass = now
      BY <2>1, <2>4 DEF line
    <3> DEFINE n == p + g
               late == Cardinality(UpTo(Ran(pass), n))
               early == Cardinality(UpTo(Ran(pass), n - 1))
    <3>3. n \in Nat \ {0} /\ p - 1 + Done(i) = n - 1 /\ p' - 1 + Done(i)' = n
      BY <1>1, <1>2, <3>1
    <3>4. early \in Nat /\ late = early + (IF n \in Ran(pass) THEN 1 ELSE 0)
      <4> HIDE DEF n
      <4> QED BY <3>3, CountNextNumber
    <3>5. n \in Ran(pass) <=> pass = now
      BY <3>3 DEF Ran
    <3>6. before = early
      BY <2>2, <3>3 DEF Turns
    <3>7. Turns(pass, p - 1 + Done(i))' = late
      <4> HIDE DEF n
      <4> QED BY <1>1, <3>3, TurnsUnchanged DEF Turns
    <3> HIDE DEF before, early, late, n, who
    <3>8. Greeted(pass, i)' = early + (IF pass = now THEN 1 ELSE 0)
      BY <2>3, <3>2, <3>6
    <3>9. late = early + (IF pass = now THEN 1 ELSE 0)
      BY <3>4, <3>5
    <3> QED BY <3>7, <3>8, <3>9
  <2>5. CASE i # x
    <3>1. Done(i)' = Done(i)
      BY <1>1, <1>7, <2>5 DEF Done
    <3>2. line # who
      <4>1. functions[i].name # fun.name
        BY <1>1, <1>2, <2>1, <2>5 DEF CloneInv, DistinctInv
      <4> QED BY <2>1, <4>1 DEF line
    <3>3. Turns(pass, p - 1 + Done(i))' = Turns(pass, p - 1 + Done(i))
      BY <1>1, <3>1, TurnsUnchanged DEF Turns
    <3> HIDE DEF before, who
    <3>4. Greeted(pass, i)' = before
      BY <2>3, <3>2
    <3> QED BY <2>2, <3>3, <3>4
  <2> QED BY <2>4, <2>5
<1>11. TurnInv'
  BY <1>1, <1>10 DEF TurnInv, isDeclaration
<1>12. (g > 0 => InFunctions /\ ~isDeclaration(F))'
  BY <1>1 DEF InFunctions, F, isDeclaration
<1>13. (g <= GroupSize)' /\ (x <= Len(functions) + 1)'
  <2>1. x <= Len(functions) + 1
    BY DEF GreetInv
  <2> QED BY <1>1, <1>4, <1>7, <2>1
<1>14. (greetings \in Seq(Greeting))'
  BY <1>6, <1>7
<1> QED BY <1>8, <1>9, <1>11, <1>12, <1>13, <1>14 DEF GreetInv

(* The group goes on to the next function only when all its passes have    *)
(* greeted the one before, or it has no body.                              *)
LEMMA NextFunctionKeeps ==
  ASSUME CloneInv, GreetInv, NextFunction
  PROVE  GreetInv'
<1>1. /\ Group # {} /\ x <= Len(functions)
      /\ InFunctions => isDeclaration(functions[x]) \/ p + g \notin Group
      /\ x' = x + 1 /\ g' = 0
      /\ greetings' = greetings /\ HelloCounter' = HelloCounter
      /\ p' = p /\ functions' = functions /\ passes' = passes /\ program' = program
      /\ enabled' = enabled /\ UNCHANGED fixed
  BY DEF NextFunction, F, statistics, fixed, hello
<1>2. /\ TypeInv /\ passes \in Seq(Kinds) /\ program \in Programs /\ functions \in Seq(Fun)
      /\ Len(passes) \in Nat /\ Len(functions) \in Nat /\ DOMAIN functions = 1..Len(functions)
      /\ p \in Nat \ {0} /\ p \in 1..Len(passes) + 1 /\ x \in Nat /\ g \in Nat
  BY LenProperties DEF CloneInv, TypeInv
<1>3. PICK q \in p - 1..Len(passes) : Group = p..q /\ GroupSize = q - (p - 1)
  BY <1>2, GroupGreetings
<1>4. GroupSize \in Nat /\ (InFunctions <=> x # 0)
  BY <1>1, <1>2, <1>3 DEF InFunctions
<1>5. /\ GreetingsUpTo' = GreetingsUpTo /\ Greeting' = Greeting
      /\ Group' = Group /\ GroupSize' = GroupSize
  BY <1>1, FixedUnchanged, TypesUnchanged, TurnsUnchanged DEF Greeting
<1>6. /\ x # 0 /\ isDeclaration(functions[x]) => g = 0
      /\ x # 0 /\ ~isDeclaration(functions[x]) => g = GroupSize
      /\ x = 0 => g = 0
  <2>1. g <= GroupSize /\ (g > 0 => InFunctions /\ ~isDeclaration(functions[x]))
    BY DEF GreetInv, F
  <2>2. x # 0 /\ ~isDeclaration(functions[x]) => g = GroupSize
    <3>1. x # 0 /\ ~isDeclaration(functions[x]) => p + g \notin p..q
      BY <1>1, <1>3, <1>4
    <3> QED BY <1>2, <1>3, <2>1, <3>1
  <2>3. ~(g > 0) => g = 0
    BY <1>2
  <2> QED BY <1>4, <2>1, <2>2, <2>3
<1>7. (Len(greetings) = GreetingsUpTo[p - 1] + GroupSize * BodiesTo(x - 1) + g)'
  <2> DEFINE a == GreetingsUpTo[p - 1]
             s == GroupSize
             b == BodiesTo(x - 1)
             c == BodiesTo(x)
  <2>1. Len(greetings) = a + s * b + g
    BY DEF GreetInv
  <2>2. a \in Nat /\ b \in Nat /\ c \in Nat /\ s \in Nat
    <3>1. p - 1 \in 0..Len(passes) /\ x - 1 \in Int /\ x \in Int
      BY <1>2
    <3> QED BY <1>2, <1>4, <3>1, GreetingsLoop, FirstType, CountType DEF BodiesTo
  <2>3. s * c = s * b + g
    <3>1. CASE x = 0
      <4>1. b = 0 /\ c = 0
        <5>1. x - 1 \in Int /\ x - 1 <= 0 /\ x \in Int /\ x <= 0
          BY <3>1
        <5> QED BY <5>1, CountNone DEF BodiesTo
      <4> HIDE DEF b, c, s
      <4> QED BY <1>6, <2>2, <3>1, <4>1
    <3>2. CASE x # 0
      <4>1. c = b + (IF x \in Bodied(functions) THEN 1 ELSE 0)
        <5>1. x \in Nat \ {0}
          BY <1>2, <3>2
        <5> QED BY <5>1, CountNextNumber DEF BodiesTo
      <4>2. x \in Bodied(functions) <=> ~isDeclaration(functions[x])
        BY <1>2 DEF Bodied
      <4>3. CASE isDeclaration(functions[x])
        <5>1. c = b + 0 /\ g = 0
          BY <1>6, <3>2, <4>1, <4>2, <4>3
        <5> HIDE DEF b, c, s
        <5>2. c = b /\ s * b \in Nat
          BY <2>2, <5>1
        <5> QED BY <5>1, <5>2
      <4>4. CASE ~isDeclaration(functions[x])
        <5>1. c = b + 1 /\ g = s
          BY <1>6, <3>2, <4>1, <4>2, <4>4
        <5> HIDE DEF b, c, s
        <5>2. s * (b + 1) = s * b + s
          BY <2>2
        <5> QED BY <5>1, <5>2
      <4> QED BY <4>3, <4>4
    <3> QED BY <3>1, <3>2
  <2>4. Len(greetings) = a + s * c + 0
    <3> DEFINE t == s * b
               u == s * c
    <3>1. t \in Nat /\ u \in Nat /\ u = t + g /\ Len(greetings) = a + t + g
      <4>1. t \in Nat /\ u \in Nat
        <5> HIDE DEF s, b, c
        <5> QED BY <2>2
      <4> QED BY <2>1, <2>3, <4>1
    <3> HIDE DEF t, u, a
    <3>2. Len(greetings) = a + u + 0
      BY <1>2, <2>2, <3>1
    <3> QED BY <3>2 DEF u
  <2>5. BodiesTo(x - 1)' = c
    <3>1. x' - 1 = x
      BY <1>1, <1>2
    <3> QED BY <1>1, <3>1 DEF BodiesTo, Bodied, isDeclaration
  <2> QED BY <1>1, <1>5, <2>4, <2>5
<1>8. ASSUME NEW i \in DOMAIN program.functions, NEW pass \in FunctionPasses,
             ~isDeclaration(program.functions[i])
      PROVE  (Greeted(pass, i) = Turns(pass, p - 1 + Done(i)))'
  <2>1. /\ i \in Nat \ {0} /\ functions[i] = program.functions[i]
    <3>1. program.functions \in Seq(Fun)
      BY <1>2, ProgramType
    <3>2. i \in 1..Len(program.functions) /\ Len(program.functions) \in Nat
      BY <3>1, LenProperties
    <3>3. functions[i] = program.functions[i]
      BY DEF CloneInv, PrefixInv
    <3> QED BY <3>2, <3>3
  <2>2. Done(i)' = Done(i)
    <3>1. CASE i < x
      <4>1. i < x + 1
        BY <1>2, <2>1, <3>1
      <4> QED BY <1>1, <1>5, <3>1, <4>1 DEF Done
    <3>2. CASE i = x
      <4>1. i < x + 1 /\ ~(i < x) /\ g = GroupSize
        BY <1>2, <1>6, <1>8, <2>1, <3>2
      <4> QED BY <1>1, <1>5, <3>2, <4>1 DEF Done
    <3>3. CASE i > x
      <4>1. ~(i < x + 1) /\ ~(i < x) /\ i # x
        BY <1>2, <2>1, <3>3
      <4> QED BY <1>1, <1>5, <4>1 DEF Done
    <3> QED BY <1>2, <2>1, <3>1, <3>2, <3>3
  <2>3. Greeted(pass, i) = Turns(pass, p - 1 + Done(i))
    BY <1>8 DEF GreetInv, TurnInv
  <2>4. Greeted(pass, i)' = Greeted(pass, i)
    BY <1>1, GreetedUnchanged
  <2>5. Turns(pass, p - 1 + Done(i))' = Turns(pass, p - 1 + Done(i))
    BY <1>1, <2>2, TurnsUnchanged DEF Turns
  <2> QED BY <2>3, <2>4, <2>5
<1>9. TurnInv'
  BY <1>1, <1>8 DEF TurnInv, isDeclaration
<1>10. (HelloCounter = IF enabled THEN Len(greetings) ELSE 0)' /\ (greetings \in Seq(Greeting))'
  BY <1>1, <1>5 DEF GreetInv
<1>11. (g <= GroupSize)' /\ ~(g > 0)' /\ (x <= Len(functions) + 1)'
  <2>1. x + 1 <= Len(functions) + 1
    BY <1>1, <1>2
  <2> QED BY <1>1, <1>4, <1>5, <2>1
<1> QED BY <1>7, <1>9, <1>10, <1>11 DEF GreetInv

(* With no Hello at the current position there is no group.                 *)
LEMMA NoGroup ==
  ASSUME TypeInv, p > Len(passes) \/ passes[p] \notin FunctionPasses
  PROVE  Group = {}
<1>1. Len(passes) \in Nat /\ p \in Nat /\ passes \in Seq(Kinds)
      /\ p \in 1..Len(passes) + 1 /\ program \in Programs
  BY LenProperties DEF TypeInv
<1>2. Group # {} <=> p <= Len(passes) /\ passes[p] \in FunctionPasses
  BY <1>1, GroupGreetings
<1> QED BY <1>1, <1>2

(* Every step keeps the invariant of the greetings.                        *)
LEMMA GreetStep ==
  ASSUME CloneInv, CloneInv', GreetInv, [Next]_vars
  PROVE  GreetInv'
<1>1. /\ TypeInv /\ TypeInv' /\ functions \in Seq(Fun) /\ Len(functions) \in Nat
      /\ DOMAIN functions = 1..Len(functions) /\ x \in Nat /\ x <= Len(functions) + 1
  BY LenProperties DEF CloneInv, TypeInv, GreetInv
<1>2. CASE StartCloning \/ CloneNext
  <2>1. UNCHANGED <<hello, enabled, fixed, p, g>> /\ p <= Len(passes) /\ passes[p] = "clonefuncs"
    BY <1>2 DEF StartCloning, CloneNext, Running, statistics
  <2>2. Group = {}
    BY <1>1, <2>1, NoGroup DEF FunctionPasses
  <2>3. x' = 1
    BY <1>2 DEF StartCloning, CloneNext
  <2>4. Len(functions') \in Nat
    <3>1. (functions \in Seq(Fun))'
      BY <1>1 DEF TypeInv
    <3> QED BY <3>1, LenProperties
  <2>5. x' <= Len(functions') + 1
    BY <2>3, <2>4
  <2> QED BY <1>1, <2>1, <2>2, <2>5, AwayKeeps
<1>3. CASE StartCounting \/ CountNext
  <2>1. UNCHANGED <<hello, enabled, fixed, p, g>> /\ p <= Len(passes) /\ passes[p] = "mystats"
        /\ functions' = functions
    BY <1>3 DEF StartCounting, CountNext, CountGlobals, CountFunction, Running
  <2>2. Group = {}
    BY <1>1, <2>1, NoGroup DEF FunctionPasses
  <2>3. x' = 1 \/ (x' = x + 1 /\ x \in DOMAIN functions)
    BY <1>3 DEF StartCounting, CountNext, InFunctions
  <2>4. x' <= Len(functions') + 1
    BY <1>1, <2>1, <2>3
  <2> QED BY <1>1, <2>1, <2>2, <2>4, AwayKeeps
<1>4. CASE EndCloning \/ PrintStatistics
  <2>1. UNCHANGED <<hello, enabled, fixed, g>> /\ p <= Len(passes) /\ p' = p + 1 /\ x' = 0
    BY <1>4 DEF EndCloning, PrintStatistics, PrintCounters, Running, statistics
  <2>2. passes[p] \notin FunctionPasses
    BY <1>4 DEF EndCloning, PrintStatistics, Running, FunctionPasses
  <2>3. AtPass'
    BY <1>1, <2>1, <2>2, OtherPassEnds
  <2> QED BY <1>1, <2>1, <2>3, BeginKeeps
<1>5. CASE Greet
  BY <1>5, GreetKeeps
<1>6. CASE NextFunction
  BY <1>6, NextFunctionKeeps
<1>7. CASE EndGroup
  <2>1. UNCHANGED <<hello, enabled, fixed>>
    BY <1>7 DEF EndGroup, statistics
  <2>2. AtPass'
    BY <1>7, GroupEnds
  <2> QED BY <1>1, <2>1, <2>2, BeginKeeps
<1>8. CASE RunDriver \/ ReadCommandLine \/ StartCoding \/ Refuse \/ Emit \/ EndCoding
  <2>1. UNCHANGED <<hello, enabled, fixed, p, g>> /\ functions' = functions
    BY <1>8 DEF RunDriver, ReadCommandLine, Written, StartCoding, Refuse, Emit, EndCoding, statistics
  <2>2. Group = {}
    <3>1. p > Len(passes)
      <4>1. CASE RunDriver \/ ReadCommandLine \/ Refuse
        BY <4>1 DEF RunDriver, ReadCommandLine, Written, Refuse
      <4>2. CASE StartCoding \/ Emit \/ EndCoding
        <5>1. p = Len(passes) + 1
          BY <4>2, <1>1 DEF StartCoding, Emit, EndCoding, TypeInv
        <5>2. Len(passes) \in Nat
          BY <1>1, LenProperties DEF TypeInv
        <5> QED BY <5>1, <5>2
      <4> QED BY <1>8, <4>1, <4>2
    <3> QED BY <1>1, <3>1, NoGroup
  <2>3. x' = 1 \/ x' = x \/ (x' = x + 1 /\ x \in DOMAIN functions)
    BY <1>8 DEF RunDriver, ReadCommandLine, Written, StartCoding, Refuse, Emit, EndCoding, InFunctions
  <2>4. x' <= Len(functions') + 1
    BY <1>1, <2>1, <2>3
  <2> QED BY <1>1, <2>1, <2>2, <2>4, AwayKeeps
<1>9. CASE UNCHANGED vars
  <2>1. /\ greetings' = greetings /\ HelloCounter' = HelloCounter /\ enabled' = enabled
        /\ passes' = passes /\ program' = program /\ p' = p /\ x' = x /\ g' = g
        /\ functions' = functions /\ UNCHANGED fixed
    BY <1>9 DEF vars, statistics, hello, fixed
  <2>2. /\ GreetingsUpTo' = GreetingsUpTo /\ Greeting' = Greeting
        /\ Group' = Group /\ GroupSize' = GroupSize
    BY <2>1, FixedUnchanged, TypesUnchanged, TurnsUnchanged DEF Greeting
  <2>3. (Len(greetings) = GreetingsUpTo[p - 1] + GroupSize * BodiesTo(x - 1) + g)'
    <3>1. BodiesTo(x - 1)' = BodiesTo(x - 1)
      BY <2>1 DEF BodiesTo, Bodied, isDeclaration
    <3> QED BY <2>1, <2>2, <3>1 DEF GreetInv
  <2>4. ASSUME NEW i \in DOMAIN program.functions, NEW pass \in FunctionPasses,
               ~isDeclaration(program.functions[i])
        PROVE  (Greeted(pass, i) = Turns(pass, p - 1 + Done(i)))'
    <3>1. Greeted(pass, i) = Turns(pass, p - 1 + Done(i))
      BY <2>4 DEF GreetInv, TurnInv
    <3>2. Done(i)' = Done(i)
      BY <2>1, <2>2 DEF Done
    <3>3. Turns(pass, p - 1 + Done(i))' = Turns(pass, p - 1 + Done(i))
      BY <2>1, <3>2, TurnsUnchanged DEF Turns
    <3>4. Greeted(pass, i)' = Greeted(pass, i)
      BY <2>1, GreetedUnchanged
    <3> QED BY <3>1, <3>3, <3>4
  <2>5. TurnInv'
    BY <2>1, <2>4 DEF TurnInv, isDeclaration
  <2>6. (/\ greetings \in Seq(Greeting)
         /\ HelloCounter = IF enabled THEN Len(greetings) ELSE 0
         /\ x <= Len(functions) + 1
         /\ g <= GroupSize
         /\ g > 0 => InFunctions /\ ~isDeclaration(F))'
    BY <2>1, <2>2 DEF GreetInv, InFunctions, F, isDeclaration
  <2> QED BY <2>3, <2>5, <2>6 DEF GreetInv
<1> QED BY <1>2, <1>3, <1>4, <1>5, <1>6, <1>7, <1>8, <1>9 DEF Next

(* Between passes nothing of a group is done.                               *)
LEMMA GreetInvFollows ==
  ASSUME CloneInv, GreetInv
  PROVE  GreetsEveryDefinition
<1>1. /\ passes \in Seq(Kinds) /\ program \in Programs /\ Len(passes) \in Nat
      /\ p \in 1..Len(passes) + 1 /\ TypeInv /\ DOMAIN passes = 1..Len(passes)
      /\ p \in Nat \ {0}
  BY LenProperties DEF CloneInv, TypeInv
<1>2. program.functions \in Seq(Fun)
  BY <1>1, ProgramType
<1>3. ASSUME x = 0 PROVE Len(greetings) = GreetingsUpTo[p - 1]
  <2> DEFINE a == GreetingsUpTo[p - 1]
             b == BodiesTo(x - 1)
  <2>1. Len(greetings) = a + GroupSize * b + g
    BY DEF GreetInv
  <2>2. g = 0
    <3>1. ~InFunctions
      <4>1. DOMAIN functions = 1..Len(functions)
        BY LenProperties DEF CloneInv, TypeInv
      <4> QED BY <1>3, <4>1 DEF InFunctions
    <3> QED BY <1>1, <3>1 DEF GreetInv, TypeInv
  <2>3. b = 0
    <3>1. x - 1 \in Int /\ x - 1 <= 0
      BY <1>3
    <3> QED BY <3>1, CountNone DEF BodiesTo
  <2>4. a \in Nat /\ GroupSize \in Nat
    <3>1. p - 1 \in 0..Len(passes)
      BY <1>1
    <3> QED BY <1>1, <3>1, GreetingsLoop, FirstType, GroupSizeType
  <2> HIDE DEF a, b
  <2>5. Len(greetings) = a
    BY <2>1, <2>2, <2>3, <2>4
  <2> QED BY <2>5 DEF a
<1>4. ASSUME x = 0, NEW fun \in ToSet(Defined(program.functions)), NEW pass \in FunctionPasses
      PROVE  Cardinality({k \in DOMAIN greetings : greetings[k] = <<pass, fun.name>>})
               = Cardinality({n \in 1..p - 1 : passes[n] = pass})
  <2>1. fun \in ToSet(program.functions) /\ ~isDeclaration(fun)
    <3> DEFINE funs == program.functions
    <3>1. funs \in Seq(Fun) /\ fun \in ToSet(Defined(funs))
      BY <1>2, <1>4
    <3> HIDE DEF funs
    <3>2. fun \in ToSet(funs) /\ ~isDeclaration(fun)
      BY <3>1, DefinedContents
    <3> QED BY <3>2 DEF funs
  <2>2. PICK i \in DOMAIN program.functions : program.functions[i] = fun
    BY <2>1 DEF ToSet
  <2>3. i \in Nat \ {0}
    <3>1. DOMAIN program.functions = 1..Len(program.functions)
      BY <1>2, LenProperties
    <3> QED BY <3>1
  <2>4. Done(i) = 0
    BY <1>4, <2>3 DEF Done
  <2>5. Greeted(pass, i) = Turns(pass, p - 1 + Done(i))
    BY <2>1, <2>2 DEF GreetInv, TurnInv
  <2>6. p - 1 + Done(i) = p - 1
    BY <1>1, <2>4
  <2>7. {n \in 1..p - 1 : passes[n] = pass} = UpTo(Ran(pass), p - 1)
    BY <1>1 DEF UpTo, Ran
  <2>8. {k \in DOMAIN greetings : greetings[k] = <<pass, fun.name>>}
          = Occurrences(greetings, <<pass, program.functions[i].name>>)
    BY <2>2 DEF Occurrences
  <2> QED BY <2>5, <2>6, <2>7, <2>8 DEF Greeted, Turns
<1>5. HelloCounter = IF enabled THEN Len(greetings) ELSE 0
  BY DEF GreetInv
<1> QED BY <1>3, <1>4, <1>5 DEF GreetsEveryDefinition

(* For every program and list of passes: between passes each Hello that has*)
(* run has greeted every definition of its time once, and the shared       *)
(* counter is the number of greetings, or zero without assertions.         *)
THEOREM GreetsCorrect == Spec => []GreetsEveryDefinition
<1>1. Init => GreetInv
  BY GreetInit
<1>2. CloneInv /\ CloneInv' /\ GreetInv /\ [Next]_vars => GreetInv'
  BY GreetStep
<1>3. CloneInv /\ GreetInv => GreetsEveryDefinition
  BY GreetInvFollows
<1> QED BY <1>1, <1>2, <1>3, CloneInvariant, PTL DEF Spec

(* What one function adds to the counters, and what a list of them adds.    *)
CountsIn(funs) == [m \in DOMAIN funs |-> CountsOfFunction(funs[m])]
Total(funs) == SumOf(CountsIn(funs))

(* A type adds to two counters at most.                                    *)
LEMMA TypeCounts ==
  ASSUME NEW T
  PROVE  CountsOfType(T) \in Counts
BY DEF CountsOfType, NoCounts, Counts, StatNames

(* Every instruction adds some counts.                                     *)
LEMMA CodeCounts ==
  ASSUME NEW I \in Code
  PROVE  CountsOf(I) \in Counts
<1>1. I.kind \in {"alloca", "call", "store", "other"}
  BY DEF Code, Instructions
<1>2. CASE I.kind = "alloca"
  <2>1. CountsOf(I) = CountsOfType(I.type)
    BY <1>2 DEF CountsOf
  <2> QED BY <2>1, TypeCounts
<1>3. CASE I.kind = "call"
  <2> DEFINE n == IF I.callee = "value" THEN 1 ELSE 0
  <2>1. CountsOf(I) = [NoCounts EXCEPT !.calls = 1, !.indirectCalls = n]
    BY <1>3 DEF CountsOf
  <2>2. n \in Nat
    OBVIOUS
  <2> HIDE DEF n
  <2>3. [NoCounts EXCEPT !.calls = 1, !.indirectCalls = n] \in Counts
    BY <2>2 DEF NoCounts, Counts, StatNames
  <2> QED BY <2>1, <2>3
<1>4. CASE I.kind = "store"
  <2>1. CountsOf(I) = [NoCounts EXCEPT !.storeInstructions = 1]
    BY <1>4 DEF CountsOf
  <2> QED BY <2>1 DEF NoCounts, Counts, StatNames
<1>5. CASE I.kind = "other"
  <2>1. CountsOf(I) = NoCounts
    BY <1>5 DEF CountsOf
  <2> QED BY <2>1, NoCountsType
<1> QED BY <1>1, <1>2, <1>3, <1>4, <1>5

(* So does every function, and one without a body adds nothing.            *)
LEMMA FunctionCounts ==
  ASSUME NEW fun \in Fun
  PROVE  /\ CountsOfFunction(fun) \in Counts
         /\ isDeclaration(fun) => CountsOfFunction(fun) = NoCounts
<1> DEFINE insts == Insts(fun)
           c == [m \in DOMAIN insts |-> CountsOf(insts[m])]
<1>1. CountsOfFunction(fun) = SumOf(c)
  BY DEF CountsOfFunction, MapSeq
<1>2. insts \in Seq(Code)
  BY InstsType
<1>3. c \in Seq(Counts)
  <2> HIDE DEF insts
  <2>1. Len(insts) \in Nat /\ DOMAIN insts = 1..Len(insts)
    BY <1>2, LenProperties
  <2>2. \A m \in DOMAIN insts : insts[m] \in Code
    BY <1>2, ElementType
  <2>3. \A m \in DOMAIN insts : CountsOf(insts[m]) \in Counts
    BY <2>2, CodeCounts
  <2>4. c \in [1..Len(insts) -> Counts]
    BY <2>1, <2>3
  <2> HIDE DEF c
  <2> QED BY <2>1, <2>4, SeqDef
<1>4. CountsOfFunction(fun) \in Counts
  <2> HIDE DEF c
  <2> QED BY <1>1, <1>3, SumType
<1>5. ASSUME isDeclaration(fun) PROVE CountsOfFunction(fun) = NoCounts
  <2>1. FlattenSeq(<<>>) = <<>>
    <3>1. Len(<<>>) = 0
      BY EmptySeq
    <3> QED BY <3>1 DEF FlattenSeq
  <2>2. insts = <<>>
    BY <1>5, <2>1 DEF isDeclaration, Insts
  <2>3. c = <<>>
    <3> HIDE DEF insts
    <3> QED BY <2>2
  <2> HIDE DEF c
  <2> QED BY <1>1, <2>3, SumEmpty
<1> QED BY <1>4, <1>5

(* A clone adds what its original adds.                                    *)
LEMMA SameBlocks ==
  ASSUME NEW f, NEW h, f.blocks = h.blocks
  PROVE  CountsOfFunction(f) = CountsOfFunction(h)
<1>1. Insts(f) = Insts(h)
  BY DEF Insts
<1> QED BY <1>1 DEF CountsOfFunction

(* The counts of the functions of a list can be added up.                  *)
LEMMA CountsInType ==
  ASSUME NEW funs \in Seq(Fun)
  PROVE  CountsIn(funs) \in Seq(Counts) /\ Total(funs) \in Counts
<1>1. Len(funs) \in Nat /\ DOMAIN funs = 1..Len(funs)
  BY LenProperties
<1>2. \A m \in DOMAIN funs : CountsOfFunction(funs[m]) \in Counts
  <2>1. \A m \in DOMAIN funs : funs[m] \in Fun
    BY ElementType
  <2> QED BY <2>1, FunctionCounts
<1>3. CountsIn(funs) \in [1..Len(funs) -> Counts]
  BY <1>1, <1>2 DEF CountsIn
<1>4. CountsIn(funs) \in Seq(Counts)
  BY <1>1, <1>3, SeqDef
<1> QED BY <1>4, SumType DEF Total

(* An empty list adds nothing.                                             *)
LEMMA TotalEmpty == Total(<<>>) = NoCounts
<1>1. CountsIn(<<>>) = <<>>
  BY DEF CountsIn
<1> QED BY <1>1, SumEmpty DEF Total

(* A function put at the end of the list adds its counts.                  *)
LEMMA TotalAppend ==
  ASSUME NEW funs \in Seq(Fun), NEW fun \in Fun
  PROVE  Total(Append(funs, fun)) = Plus(Total(funs), CountsOfFunction(fun))
<1> DEFINE N == Len(funs)
           c == CountsOfFunction(fun)
<1>1. N \in Nat /\ DOMAIN funs = 1..N
  BY LenProperties
<1>2. /\ Append(funs, fun) \in Seq(Fun) /\ Len(Append(funs, fun)) = N + 1
      /\ \A m \in 1..N : Append(funs, fun)[m] = funs[m]
      /\ Append(funs, fun)[N + 1] = fun
  BY AppendProperties
<1>3. DOMAIN Append(funs, fun) = 1..(N + 1)
  BY <1>2, LenProperties
<1>4. CountsIn(funs) \in Seq(Counts) /\ c \in Counts
  BY CountsInType, FunctionCounts
<1>5. Len(CountsIn(funs)) = N /\ CountsIn(Append(funs, fun)) \in Seq(Counts)
      /\ Len(CountsIn(Append(funs, fun))) = N + 1
  <2>1. CountsIn(Append(funs, fun)) \in Seq(Counts)
    BY <1>2, CountsInType
  <2>2. DOMAIN CountsIn(funs) = 1..N /\ DOMAIN CountsIn(Append(funs, fun)) = 1..(N + 1)
    BY <1>1, <1>3 DEF CountsIn
  <2> QED BY <1>1, <1>4, <2>1, <2>2, LenProperties
<1>6. CountsIn(Append(funs, fun)) = Append(CountsIn(funs), c)
  <2> DEFINE s == CountsIn(Append(funs, fun))
             t == Append(CountsIn(funs), c)
  <2>1. /\ t \in Seq(Counts) /\ Len(t) = N + 1
        /\ \A m \in 1..N : t[m] = CountsIn(funs)[m]
        /\ t[N + 1] = c
    BY <1>4, <1>5, AppendProperties
  <2>2. DOMAIN t = 1..(N + 1)
    BY <2>1, LenProperties
  <2>3. s = [m \in 1..(N + 1) |-> s[m]] /\ t = [m \in 1..(N + 1) |-> t[m]]
    <3>1. s = [m \in 1..(N + 1) |-> CountsOfFunction(Append(funs, fun)[m])]
      BY <1>3 DEF CountsIn
    <3>2. t = [m \in DOMAIN t |-> t[m]]
      BY <2>1, LenProperties, SeqDef
    <3> QED BY <2>2, <3>1, <3>2
  <2>4. ASSUME NEW m \in 1..(N + 1) PROVE s[m] = t[m]
    <3>1. s[m] = CountsOfFunction(Append(funs, fun)[m])
      BY <1>3 DEF CountsIn
    <3>2. CASE m \in 1..N
      <4>1. t[m] = CountsOfFunction(funs[m])
        BY <1>1, <2>1, <3>2 DEF CountsIn
      <4> QED BY <1>2, <3>1, <3>2, <4>1
    <3>3. CASE m = N + 1
      BY <1>2, <2>1, <3>1, <3>3
    <3>4. m \in 1..N \/ m = N + 1
      BY <1>1
    <3> QED BY <3>2, <3>3, <3>4
  <2> HIDE DEF s, t, N
  <2>5. s = t
    BY <2>3, <2>4
  <2> QED BY <2>5 DEF s, t
<1>7. SumOf(Append(CountsIn(funs), c)) = Plus(SumOf(CountsIn(funs)), c)
  <2> HIDE DEF c
  <2> QED BY <1>4, SumAppend
<1> QED BY <1>6, <1>7 DEF Total

(* The functions without a body add nothing.                                *)
LEMMA TotalDefined ==
  ASSUME NEW funs \in Seq(Fun)
  PROVE  Total(Defined(funs)) = Total(funs)
<1> DEFINE Good == {w \in Seq(Fun) : Total(Defined(w)) = Total(w)}
<1>1. <<>> \in Good
  BY EmptySeq, DefinedEmpty
<1>2. ASSUME NEW w \in Seq(Fun), NEW e \in Fun, w \in Good PROVE Append(w, e) \in Good
  <2>1. Append(w, e) \in Seq(Fun)
    BY AppendContents
  <2>2. Total(Append(w, e)) = Plus(Total(w), CountsOfFunction(e))
    BY TotalAppend
  <2>3. Defined(w) \in Seq(Fun) /\ Total(Defined(w)) = Total(w)
    BY <1>2, DefinedContents
  <2>4. Defined(Append(w, e)) = Keep(Defined(w), e)
    BY DefinedAppend
  <2>5. CASE isDeclaration(e)
    <3>1. Defined(Append(w, e)) = Defined(w)
      BY <2>4, <2>5 DEF Keep
    <3>2. CountsOfFunction(e) = NoCounts
      BY <2>5, FunctionCounts
    <3>3. Total(Append(w, e)) = Total(w)
      <4>1. Total(w) \in Counts
        BY CountsInType
      <4> QED BY <2>2, <3>2, <4>1, PlusZero
    <3> QED BY <2>1, <2>3, <3>1, <3>3
  <2>6. CASE ~isDeclaration(e)
    <3>1. Defined(Append(w, e)) = Append(Defined(w), e)
      BY <2>4, <2>6 DEF Keep
    <3>2. Total(Append(Defined(w), e)) = Plus(Total(Defined(w)), CountsOfFunction(e))
      BY <2>3, TotalAppend
    <3> QED BY <2>1, <2>2, <2>3, <3>1, <3>2
  <2> QED BY <2>5, <2>6
<1>3. Seq(Fun) \subseteq Good
  <2> HIDE DEF Good
  <2> QED BY <1>1, <1>2, AppendInduction
<1> QED BY <1>3

(* Taking the first function off a list takes its counts off the total.     *)
LEMMA TotalConcat ==
  ASSUME NEW fun \in Fun, NEW funs \in Seq(Fun)
  PROVE  Total(<<fun>> \o funs) = Plus(CountsOfFunction(fun), Total(funs))
<1> DEFINE c == CountsOfFunction(fun)
           Good == {w \in Seq(Fun) : Total(<<fun>> \o w) = Plus(c, Total(w))}
<1>1. c \in Counts /\ <<fun>> \in Seq(Fun) /\ <<>> \in Seq(Fun)
  BY FunctionCounts, EmptySeq
<1>2. <<>> \in Good
  <2>1. <<fun>> \o <<>> = <<fun>> /\ <<fun>> = Append(<<>>, fun)
    BY <1>1
  <2>2. Total(Append(<<>>, fun)) = Plus(NoCounts, c)
    BY <1>1, TotalAppend, TotalEmpty
  <2>3. Plus(NoCounts, c) = Plus(c, NoCounts)
    BY <1>1, PlusZero
  <2> QED BY <1>1, <2>1, <2>2, <2>3, TotalEmpty
<1>3. ASSUME NEW w \in Seq(Fun), NEW e \in Fun, w \in Good PROVE Append(w, e) \in Good
  <2> DEFINE d == CountsOfFunction(e)
             t == Total(w)
             v == <<fun>> \o w
  <2>1. Append(w, e) \in Seq(Fun) /\ v \in Seq(Fun)
    BY <1>1, AppendContents, ConcatProperties
  <2>2. <<fun>> \o Append(w, e) = Append(v, e)
    BY <1>1
  <2>3. Total(Append(v, e)) = Plus(Total(v), d) /\ Total(v) = Plus(c, t)
    <3> HIDE DEF v
    <3>1. Total(Append(v, e)) = Plus(Total(v), d)
      BY <2>1, TotalAppend
    <3> QED BY <1>3, <3>1 DEF v
  <2>4. Total(Append(w, e)) = Plus(t, d)
    BY TotalAppend
  <2>5. d \in Counts /\ t \in Counts
    BY FunctionCounts, CountsInType
  <2> HIDE DEF c, d, t, v
  <2>6. Plus(Plus(c, t), d) = Plus(c, Plus(t, d))
    BY <1>1, <2>5, PlusAssociative
  <2> QED BY <2>1, <2>2, <2>3, <2>4, <2>6
<1>4. Seq(Fun) \subseteq Good
  <2> HIDE DEF Good
  <2> QED BY <1>2, <1>3, AppendInduction
<1> QED BY <1>4

(* The counts of a list are those of its first function and of the rest.   *)
LEMMA TotalTail ==
  ASSUME NEW funs \in Seq(Fun), funs # <<>>
  PROVE  Total(funs) = Plus(CountsOfFunction(Head(funs)), Total(Tail(funs)))
<1>1. Head(funs) \in Fun /\ Tail(funs) \in Seq(Fun)
  BY HeadTailProperties
<1>2. funs = <<Head(funs)>> \o Tail(funs)
  OBVIOUS
<1> QED BY <1>1, <1>2, TotalConcat

(* The bodies of the module, and while clonefuncs runs those it has still   *)
(* to clone, are the program's as often as clonefuncs has doubled them.     *)
TotalInv ==
    IF Cloning THEN Plus(Total(functions), Total(toClone)) = Times(Copies[p], Bodies)
    ELSE Total(functions) = Times(Copies[p - 1], Bodies)

(* The counts of the bodies are the total of the program's list.           *)
LEMMA BodiesTotal ==
  ASSUME program \in Programs
  PROVE  Bodies = Total(program.functions) /\ Bodies \in Counts
<1>1. program.functions \in Seq(Fun)
  BY ProgramType
<1>2. Bodies = Total(program.functions)
  BY DEF Bodies, Total, CountsIn, MapSeq
<1> DEFINE funs == program.functions
<1>3. funs \in Seq(Fun) /\ Bodies = Total(funs)
  BY <1>1, <1>2
<1> HIDE DEF funs
<1>4. Bodies \in Counts
  BY <1>3, CountsInType
<1> QED BY <1>2, <1>4

(* The total changes only with the list.                                   *)
LEMMA TotalUnchanged ==
  ASSUME UNCHANGED fixed
  PROVE  /\ Bodies' = Bodies /\ Copies' = Copies
         /\ functions' = functions => Total(functions)' = Total(functions)
<1>1. Copies' = Copies /\ program' = program
  BY FixedUnchanged
<1>2. Bodies' = Bodies
  BY <1>1 DEF Bodies
<1>3. functions' = functions => Total(functions)' = Total(functions)
  BY DEF Total, CountsIn
<1> QED BY <1>1, <1>2, <1>3

(* Before the first pass the module's bodies are the program's, once.      *)
LEMMA TotalInit ==
  ASSUME Init
  PROVE  TotalInv
<1>1. /\ program \in Programs /\ functions = program.functions /\ p = 1 /\ x = 0
      /\ passes \in Pipelines
  BY DEF Init
<1>2. passes \in Seq(Kinds) /\ p - 1 = 0
  BY <1>1, PipelinesAssumption DEF Kinds
<1>3. Copies[p - 1] = 1
  BY <1>2, CopiesLoop
<1>4. Times(1, Bodies) = Bodies
  <2>1. Bodies \in Counts
    BY <1>1, BodiesTotal
  <2> HIDE DEF Bodies
  <2> QED BY <2>1 DEF Times, Counts
<1>5. Total(functions) = Bodies
  BY <1>1, BodiesTotal
<1>6. ~Cloning
  BY <1>1 DEF Cloning
<1> QED BY <1>3, <1>4, <1>5, <1>6 DEF TotalInv

(* Each clone moves its counts from the functions due to the module; every *)
(* other step keeps the total.                                             *)
LEMMA TotalStep ==
  ASSUME CloneInv, TotalInv, [Next]_vars
  PROVE  TotalInv'
<1>1. /\ TypeInv /\ functions \in Seq(Fun) /\ toClone \in Seq(Fun) /\ passes \in Seq(Kinds)
      /\ Len(passes) \in Nat /\ program \in Programs /\ p \in 1..Len(passes) + 1
  BY LenProperties DEF CloneInv, TypeInv
<1>2. UNCHANGED fixed
  BY DEF Next, vars, StartCloning, CloneNext, EndCloning, StartCounting, CountNext,
         PrintStatistics, Greet, NextFunction, EndGroup, RunDriver, ReadCommandLine,
         StartCoding, Refuse, Emit, EndCoding
<1>3. /\ Bodies' = Bodies /\ Copies' = Copies /\ passes' = passes
      /\ functions' = functions => Total(functions)' = Total(functions)
  BY <1>2, TotalUnchanged DEF fixed
<1>4. Bodies \in Counts /\ \A n \in 0..Len(passes) : Copies[n] \in Nat
  BY <1>1, BodiesTotal, CopiesLoop
<1>5. CASE StartCloning
  <2>1. /\ p <= Len(passes) /\ passes[p] = "clonefuncs" /\ x = 0 /\ x' = 1 /\ p' = p
        /\ functions' = functions /\ toClone' = Definitions
    BY <1>5 DEF StartCloning, Running, CollectFunctions
  <2>2. ~Cloning /\ Cloning'
    BY <1>3, <2>1 DEF Cloning
  <2>3. p - 1 \in 0..Len(passes) /\ p \in 1..Len(passes)
    BY <1>1, <2>1
  <2>4. Copies[p] = 2 * Copies[p - 1] /\ Copies[p - 1] \in Nat
    BY <1>1, <1>4, <2>1, <2>3, CopiesLoop
  <2>5. Total(functions) = Times(Copies[p - 1], Bodies)
    BY <2>2 DEF TotalInv
  <2>6. Total(toClone)' = Total(functions)
    <3>1. Total(toClone)' = Total(Defined(functions))
      BY <2>1 DEF Total, CountsIn, Definitions
    <3> QED BY <1>1, <3>1, TotalDefined
  <2>7. Times(Copies[p], Bodies) = Plus(Times(Copies[p - 1], Bodies), Times(Copies[p - 1], Bodies))
    <3> DEFINE c == Copies[p - 1]
    <3>1. c \in Nat /\ Copies[p] = 2 * c
      BY <2>4
    <3> HIDE DEF c
    <3>2. Times(2 * c, Bodies) = Plus(Times(c, Bodies), Times(c, Bodies))
      BY <1>4, <3>1, TimesOfTwo
    <3> QED BY <3>1, <3>2 DEF c
  <2>8. (Plus(Total(functions), Total(toClone)))' = Times(Copies[p], Bodies)
    <3>1. (Plus(Total(functions), Total(toClone)))' = Plus(Total(functions), Total(functions))
      BY <1>3, <2>1, <2>6 DEF Plus
    <3> QED BY <2>5, <2>7, <3>1
  <2>9. Times(Copies[p], Bodies)' = Times(Copies[p], Bodies)
    BY <1>3, <2>1 DEF Times
  <2> QED BY <2>2, <2>8, <2>9 DEF TotalInv
<1>6. CASE CloneNext
  <2> DEFINE fun == Head(toClone)
             copy == Clone(fun)
             c == CountsOfFunction(fun)
             t == Total(functions)
             r == Total(Tail(toClone))
  <2>1. /\ p <= Len(passes) /\ passes[p] = "clonefuncs" /\ x = 1 /\ x' = x /\ p' = p
        /\ toClone # <<>> /\ functions' = Append(functions, copy) /\ toClone' = Tail(toClone)
    BY <1>6 DEF CloneNext, Running, CloneFirst
  <2>2. Cloning /\ Cloning'
    BY <1>3, <2>1 DEF Cloning
  <2>3. fun \in Fun /\ Tail(toClone) \in Seq(Fun)
    BY <1>1, <2>1, HeadTailProperties
  <2>4. copy \in Fun /\ copy.blocks = fun.blocks
    <3> HIDE DEF fun
    <3>1. fun.name \in Seq(Parts)
      BY <2>3 DEF Fun
    <3>2. Append(fun.name, Unique(fun.name)) \in Seq(Parts)
      BY <1>1, <3>1, UniqueNew DEF TypeInv
    <3> QED BY <2>3, <3>2, CloneFields
  <2>5. Total(functions)' = Plus(t, c)
    <3>1. Total(functions)' = Total(Append(functions, copy))
      BY <2>1 DEF Total, CountsIn
    <3>2. CountsOfFunction(copy) = c
      <4> HIDE DEF copy, fun
      <4> QED BY <2>4, SameBlocks
    <3>3. Total(Append(functions, copy)) = Plus(Total(functions), CountsOfFunction(copy))
      <4> HIDE DEF copy
      <4> QED BY <1>1, <2>4, TotalAppend
    <3> HIDE DEF copy, fun
    <3> QED BY <3>1, <3>2, <3>3
  <2>6. Total(toClone)' = r /\ Total(toClone) = Plus(c, r)
    <3>1. Total(toClone)' = r
      BY <2>1 DEF Total, CountsIn
    <3>2. Total(toClone) = Plus(c, r)
      BY <1>1, <2>1, TotalTail
    <3> QED BY <3>1, <3>2
  <2>7. c \in Counts /\ t \in Counts /\ r \in Counts
    <3> HIDE DEF fun
    <3>1. c \in Counts
      BY <2>3, FunctionCounts
    <3>2. t \in Counts /\ r \in Counts
      BY <1>1, <2>3, CountsInType
    <3> QED BY <3>1, <3>2
  <2>8. Plus(t, Total(toClone)) = Times(Copies[p], Bodies)
    BY <2>2 DEF TotalInv
  <2>9. (Plus(Total(functions), Total(toClone)))' = Plus(Plus(t, c), r)
    BY <2>5, <2>6 DEF Plus
  <2> HIDE DEF c, t, r
  <2>10. Plus(Plus(t, c), r) = Times(Copies[p], Bodies)
    BY <2>6, <2>7, <2>8, PlusAssociative
  <2>11. Times(Copies[p], Bodies)' = Times(Copies[p], Bodies)
    BY <1>3, <2>1 DEF Times
  <2> QED BY <2>2, <2>9, <2>10, <2>11 DEF TotalInv
<1>7. CASE EndCloning
  <2>1. /\ p <= Len(passes) /\ passes[p] = "clonefuncs" /\ x = 1 /\ x' = 0 /\ p' = p + 1
        /\ toClone = <<>> /\ functions' = functions
    BY <1>7 DEF EndCloning, Running
  <2>2. Cloning /\ ~Cloning' /\ p' - 1 = p
    BY <1>1, <2>1 DEF Cloning
  <2>3. Plus(Total(functions), NoCounts) = Times(Copies[p], Bodies)
    BY <2>1, <2>2, TotalEmpty DEF TotalInv
  <2>4. Total(functions) = Times(Copies[p], Bodies)
    <3>1. Total(functions) \in Counts
      BY <1>1, CountsInType
    <3> QED BY <2>3, <3>1, PlusZero
  <2>5. Times(Copies[p - 1], Bodies)' = Times(Copies[p], Bodies)
    BY <1>3, <2>2 DEF Times
  <2> QED BY <1>3, <2>1, <2>2, <2>4, <2>5 DEF TotalInv
<1>8. CASE KeepsList
  <2>1. Total(functions) = Times(Copies[p - 1], Bodies)
    BY <1>8 DEF KeepsList, TotalInv
  <2>2. Times(Copies[p - 1], Bodies)' = Times(Copies[p - 1], Bodies)
    BY <1>3, <1>8 DEF Times, KeepsList
  <2>3. Total(functions)' = Total(functions) /\ ~Cloning'
    BY <1>3, <1>8 DEF KeepsList
  <2> QED BY <2>1, <2>2, <2>3 DEF TotalInv
<1>9. CASE UNCHANGED vars
  <2>1. p' = p /\ x' = x /\ functions' = functions /\ toClone' = toClone
    BY <1>9 DEF vars, cloning
  <2>2. Cloning' = Cloning
    BY <1>3, <2>1 DEF Cloning
  <2>3. /\ Times(Copies[p - 1], Bodies)' = Times(Copies[p - 1], Bodies)
        /\ Times(Copies[p], Bodies)' = Times(Copies[p], Bodies)
    BY <1>3, <2>1 DEF Times
  <2>4. Total(toClone)' = Total(toClone)
    BY <2>1 DEF Total, CountsIn
  <2>5. Plus(Total(functions), Total(toClone))' = Plus(Total(functions), Total(toClone))
    BY <1>3, <2>1, <2>4 DEF Plus
  <2> QED BY <1>3, <2>1, <2>2, <2>3, <2>5 DEF TotalInv
<1> QED BY <1>5, <1>6, <1>7, <1>8, <1>9, PassStepKeeps, CodeStepKeeps DEF Next

(* The reports made up to a pass, one pass at a time.                       *)
LEMMA ReportsNext ==
  ASSUME NEW n \in Nat \ {0}
  PROVE  /\ ReportsUpTo(n) \in Nat /\ ReportsUpTo(n - 1) \in Nat
         /\ ReportsUpTo(n) = ReportsUpTo(n - 1) + (IF passes[n] = "mystats" THEN 1 ELSE 0)
<1> DEFINE K == Ran("mystats")
<1>1. ReportsUpTo(n) = Cardinality(UpTo(K, n)) /\ ReportsUpTo(n - 1) = Cardinality(UpTo(K, n - 1))
  <2>1. {m \in 1..n : passes[m] = "mystats"} = UpTo(K, n)
    BY DEF UpTo, Ran
  <2>2. {m \in 1..n - 1 : passes[m] = "mystats"} = UpTo(K, n - 1)
    BY DEF UpTo, Ran
  <2> QED BY <2>1, <2>2 DEF ReportsUpTo
<1>2. n \in K <=> passes[n] = "mystats"
  BY DEF Ran
<1> HIDE DEF K
<1>3. /\ Cardinality(UpTo(K, n)) \in Nat /\ Cardinality(UpTo(K, n - 1)) \in Nat
      /\ Cardinality(UpTo(K, n)) = Cardinality(UpTo(K, n - 1)) + (IF n \in K THEN 1 ELSE 0)
  BY CountNextNumber
<1> DEFINE b == Cardinality(UpTo(K, n - 1))
<1>4. Cardinality(UpTo(K, n)) = b + (IF passes[n] = "mystats" THEN 1 ELSE 0)
  BY <1>2, <1>3
<1> QED BY <1>1, <1>3, <1>4

(* A later pass has as many reports before it, or more.                    *)
LEMMA ReportsGrow ==
  ASSUME NEW n \in Nat, NEW m \in Nat, n <= m
  PROVE  ReportsUpTo(n) <= ReportsUpTo(m)
<1> DEFINE A == {k \in 1..n : passes[k] = "mystats"}
           B == {k \in 1..m : passes[k] = "mystats"}
<1>1. IsFiniteSet(1..m)
  BY FS_Interval
<1>2. B \in SUBSET (1..m) /\ A \in SUBSET B
  OBVIOUS
<1> HIDE DEF A, B
<1>3. IsFiniteSet(B)
  BY <1>1, <1>2, FS_Subset
<1>4. Cardinality(A) <= Cardinality(B)
  BY <1>2, <1>3, FS_Subset
<1> QED BY <1>4 DEF A, B, ReportsUpTo

(* The report before, as the next one finds the counters.                   *)
Base == IF Len(reports) = 0 THEN NoCounts ELSE reports[Len(reports)]
Reporting == p <= Len(passes) /\ passes[p] = "mystats" /\ x > 0
Owed(n) ==
    IF enabled
    THEN Plus(IF ReportsUpTo(n) = 1 THEN NoCounts ELSE reports[ReportsUpTo(n) - 1],
              Plus(Globals, Times(Copies[n], Bodies)))
    ELSE NoCounts
Counted ==
    IF ~enabled THEN NoCounts
    ELSE IF Reporting THEN Plus(Base, Plus(Globals, Total(SubSeq(functions, 1, x - 1))))
    ELSE Base

CounterInv ==
    /\ enabled \in BOOLEAN /\ reports \in Seq(Counts)
    /\ Reporting => x <= Len(functions) + 1
    /\ Len(reports) = ReportsUpTo(p - 1)
    /\ counters = Counted
    /\ \A n \in 1..p - 1 : passes[n] = "mystats" => reports[ReportsUpTo(n)] = Owed(n)

(* The globals' types add some counts.                                     *)
LEMMA GlobalsCounts ==
  ASSUME program \in Programs
  PROVE  Globals \in Counts
<1> DEFINE gs == program.globals
           c == [m \in DOMAIN gs |-> CountsOfGlobal(gs[m])]
<1>1. gs \in Seq(Types)
  BY ProgramType
<1>2. Globals = SumOf(c)
  BY DEF Globals, MapSeq
<1>3. c \in Seq(Counts)
  <2> HIDE DEF gs
  <2>1. Len(gs) \in Nat /\ DOMAIN gs = 1..Len(gs)
    BY <1>1, LenProperties
  <2>2. \A m \in DOMAIN gs : CountsOfGlobal(gs[m]) \in Counts
    BY TypeCounts DEF CountsOfGlobal
  <2>3. c \in [1..Len(gs) -> Counts]
    BY <2>1, <2>2
  <2> HIDE DEF c
  <2> QED BY <2>1, <2>3, SeqDef
<1> HIDE DEF c
<1> QED BY <1>2, <1>3, SumType

(* What a report is made up of depends on the command line and the program.*)
LEMMA ReportsUnchanged ==
  ASSUME UNCHANGED fixed
  PROVE  /\ passes' = passes /\ Copies' = Copies /\ Bodies' = Bodies /\ Globals' = Globals
         /\ \A n : ReportsUpTo(n)' = ReportsUpTo(n)
<1>1. passes' = passes /\ program' = program /\ Copies' = Copies
  BY FixedUnchanged
<1>2. Bodies' = Bodies /\ Globals' = Globals
  BY <1>1 DEF Bodies, Globals
<1>3. \A n : ReportsUpTo(n)' = ReportsUpTo(n)
  BY <1>1 DEF ReportsUpTo
<1> QED BY <1>1, <1>2, <1>3

(* What a report should say stays the same as long as the reports do.      *)
LEMMA OwedUnchanged ==
  ASSUME UNCHANGED fixed, reports' = reports, enabled' = enabled
  PROVE  \A n : Owed(n)' = Owed(n)
<1>1. /\ Copies' = Copies /\ Bodies' = Bodies /\ Globals' = Globals
      /\ \A n : ReportsUpTo(n)' = ReportsUpTo(n)
  BY ReportsUnchanged
<1>2. \A n : Times(Copies[n], Bodies)' = Times(Copies[n], Bodies)
  BY <1>1 DEF Times
<1> TAKE n
<1> DEFINE k == ReportsUpTo(n)
           t == Times(Copies[n], Bodies)
<1>4. k' = k /\ t' = t
  BY <1>1, <1>2
<1> HIDE DEF k, t
<1>5. Plus(Globals, t)' = Plus(Globals, t)
  BY <1>1, <1>4 DEF Plus
<1>6. reports[k - 1]' = reports[k - 1]
  BY <1>4
<1>7. (Plus(IF k = 1 THEN NoCounts ELSE reports[k - 1], Plus(Globals, t)))'
        = Plus(IF k = 1 THEN NoCounts ELSE reports[k - 1], Plus(Globals, t))
  BY <1>4, <1>5, <1>6 DEF Plus
<1>8. Owed(n) = IF enabled THEN Plus(IF k = 1 THEN NoCounts ELSE reports[k - 1], Plus(Globals, t))
                ELSE NoCounts
  BY DEF Owed, k, t
<1>9. Owed(n)' = IF enabled' THEN (Plus(IF k = 1 THEN NoCounts ELSE reports[k - 1], Plus(Globals, t)))'
                 ELSE NoCounts
  BY DEF Owed, k, t
<1> QED BY <1>7, <1>8, <1>9

(* The counters of a new process are zero.                                 *)
LEMMA CounterInit ==
  ASSUME Init
  PROVE  CounterInv
<1>1. /\ enabled \in BOOLEAN /\ counters = NoCounts /\ reports = <<>> /\ p = 1 /\ x = 0
  BY DEF Init
<1>2. reports \in Seq(Counts) /\ Len(reports) = 0
  BY <1>1, EmptySeq
<1>3. ~Reporting
  BY <1>1 DEF Reporting
<1>4. ReportsUpTo(p - 1) = 0
  <2>1. {m \in 1..p - 1 : passes[m] = "mystats"} = {}
    BY <1>1
  <2> QED BY <2>1, FS_EmptySet DEF ReportsUpTo
<1>5. counters = Counted
  BY <1>1, <1>2, <1>3 DEF Counted, Base
<1>6. 1..p - 1 = {}
  BY <1>1
<1> QED BY <1>1, <1>2, <1>3, <1>4, <1>5, <1>6 DEF CounterInv

(* Steps away from Statistics.                                              *)
LEMMA CounterAway ==
  ASSUME CounterInv, UNCHANGED <<statistics, fixed, p>>,
         (~Reporting /\ ~Reporting') \/ (x' = x /\ functions' = functions)
  PROVE  CounterInv'
<1>1. counters' = counters /\ enabled' = enabled /\ reports' = reports /\ p' = p
      /\ UNCHANGED fixed
  BY DEF statistics
<1>2. /\ passes' = passes /\ Globals' = Globals /\ \A n : ReportsUpTo(n)' = ReportsUpTo(n)
      /\ \A n : Owed(n)' = Owed(n)
  BY <1>1, ReportsUnchanged, OwedUnchanged
<1>3. (Len(reports) = ReportsUpTo(p - 1))'
  BY <1>1, <1>2 DEF CounterInv
<1>4. (counters = Counted)'
  <2>1. counters = Counted
    BY DEF CounterInv
  <2>2. Base' = Base
    BY <1>1 DEF Base
  <2>3. CASE ~Reporting /\ ~Reporting'
    BY <1>1, <2>1, <2>2, <2>3 DEF Counted
  <2>4. CASE x' = x /\ functions' = functions
    <3>1. Reporting' = Reporting
      BY <1>1, <1>2, <2>4 DEF Reporting
    <3> DEFINE t == Total(SubSeq(functions, 1, x - 1))
    <3>2. t' = t
      BY <2>4 DEF Total, CountsIn
    <3>3. Plus(Globals, t)' = Plus(Globals, t)
      <4> HIDE DEF t
      <4> QED BY <1>2, <3>2 DEF Plus
    <3>4. Plus(Base, Plus(Globals, t))' = Plus(Base, Plus(Globals, t))
      <4> HIDE DEF t
      <4> QED BY <2>2, <3>3 DEF Plus
    <3> QED BY <1>1, <2>1, <2>2, <3>1, <3>4 DEF Counted
  <2> QED BY <2>3, <2>4
<1>5. (\A n \in 1..p - 1 : passes[n] = "mystats" => reports[ReportsUpTo(n)] = Owed(n))'
  <2>1. \A n \in 1..p - 1 : passes[n] = "mystats" => reports[ReportsUpTo(n)] = Owed(n)
    BY DEF CounterInv
  <2> QED BY <1>1, <1>2, <2>1
<1>6. (Reporting => x <= Len(functions) + 1)'
  <2>1. CASE ~Reporting /\ ~Reporting'
    BY <2>1
  <2>2. CASE x' = x /\ functions' = functions
    <3>1. Reporting' = Reporting
      BY <1>1, <1>2, <2>2 DEF Reporting
    <3> QED BY <2>2, <3>1 DEF CounterInv
  <2> QED BY <2>1, <2>2
<1>7. (enabled \in BOOLEAN /\ reports \in Seq(Counts))'
  <2>1. Counts' = Counts
    BY DEF Counts
  <2> QED BY <1>1, <2>1 DEF CounterInv
<1> QED BY <1>3, <1>4, <1>5, <1>6, <1>7 DEF CounterInv

(* Steps over passes that report nothing.                                   *)
LEMMA CounterSkip ==
  ASSUME TypeInv, CounterInv, UNCHANGED <<statistics, fixed>>, NEW q \in Nat,
         p <= q, \A n \in p..q : passes[n] # "mystats", p' = q + 1, x' = 0
  PROVE  CounterInv'
<1>1. counters' = counters /\ enabled' = enabled /\ reports' = reports /\ p' - 1 = q
      /\ UNCHANGED fixed /\ p \in Nat \ {0}
  BY DEF statistics, TypeInv
<1>2. /\ passes' = passes /\ \A n : ReportsUpTo(n)' = ReportsUpTo(n)
      /\ \A n : Owed(n)' = Owed(n)
  BY <1>1, ReportsUnchanged, OwedUnchanged
<1>3. ~Reporting /\ ~Reporting'
  <2>1. p \in p..q
    BY <1>1
  <2> QED BY <2>1 DEF Reporting
<1>4. (Len(reports) = ReportsUpTo(p - 1))'
  <2>1. {m \in 1..q : passes[m] = "mystats"} = {m \in 1..p - 1 : passes[m] = "mystats"}
    <3>1. ASSUME NEW m \in 1..q, passes[m] = "mystats" PROVE m \in 1..p - 1
      <4>1. m \notin p..q
        BY <3>1
      <4> QED BY <1>1, <4>1
    <3>2. \A m \in 1..p - 1 : m \in 1..q
      BY <1>1
    <3> QED BY <3>1, <3>2
  <2>2. ReportsUpTo(q) = ReportsUpTo(p - 1)
    BY <2>1 DEF ReportsUpTo
  <2>3. ReportsUpTo(q)' = ReportsUpTo(q)
    BY <1>2
  <2>4. ReportsUpTo(p - 1)' = ReportsUpTo(q)'
    BY <1>1 DEF ReportsUpTo
  <2> QED BY <1>1, <2>2, <2>3, <2>4 DEF CounterInv
<1>5. (counters = Counted)'
  <2>1. counters = Counted
    BY DEF CounterInv
  <2>2. Base' = Base
    BY <1>1 DEF Base
  <2> QED BY <1>1, <1>3, <2>1, <2>2 DEF Counted
<1>6. (\A n \in 1..p - 1 : passes[n] = "mystats" => reports[ReportsUpTo(n)] = Owed(n))'
  <2>1. \A n \in 1..p - 1 : passes[n] = "mystats" => reports[ReportsUpTo(n)] = Owed(n)
    BY DEF CounterInv
  <2>2. ASSUME NEW n \in 1..q, passes[n] = "mystats" PROVE reports[ReportsUpTo(n)] = Owed(n)
    <3>1. n \notin p..q
      BY <2>2
    <3>2. n \in 1..p - 1
      BY <1>1, <3>1
    <3> QED BY <2>1, <2>2, <3>2
  <2> QED BY <1>1, <1>2, <2>2
<1>7. (enabled \in BOOLEAN /\ reports \in Seq(Counts))'
  <2>1. Counts' = Counts
    BY DEF Counts
  <2> QED BY <1>1, <2>1 DEF CounterInv
<1>8. (Reporting => x <= Len(functions) + 1)'
  BY <1>3
<1> QED BY <1>4, <1>5, <1>6, <1>7, <1>8 DEF CounterInv

(* The report before is counts.                                            *)
LEMMA BaseType ==
  ASSUME reports \in Seq(Counts)
  PROVE  Base \in Counts
<1>1. Len(reports) \in Nat /\ DOMAIN reports = 1..Len(reports)
  BY LenProperties
<1>2. CASE Len(reports) = 0
  BY <1>2, NoCountsType DEF Base
<1>3. CASE Len(reports) # 0
  <2>1. Len(reports) \in DOMAIN reports
    BY <1>1, <1>3
  <2> QED BY <1>3, <2>1, ElementType DEF Base
<1> QED BY <1>2, <1>3

(* Steps of Statistics while it counts.                                     *)
LEMMA CounterCounts ==
  ASSUME CounterInv, UNCHANGED <<enabled, reports, fixed, p>>, Reporting',
         x' <= Len(functions') + 1, counters' = Counted'
  PROVE  CounterInv'
<1>1. /\ passes' = passes /\ \A n : ReportsUpTo(n)' = ReportsUpTo(n)
      /\ \A n : Owed(n)' = Owed(n)
  BY ReportsUnchanged, OwedUnchanged
<1>2. (Len(reports) = ReportsUpTo(p - 1))'
  BY <1>1 DEF CounterInv
<1>3. (\A n \in 1..p - 1 : passes[n] = "mystats" => reports[ReportsUpTo(n)] = Owed(n))'
  <2>1. \A n \in 1..p - 1 : passes[n] = "mystats" => reports[ReportsUpTo(n)] = Owed(n)
    BY DEF CounterInv
  <2> QED BY <1>1, <2>1
<1>4. (enabled \in BOOLEAN /\ reports \in Seq(Counts))'
  <2>1. Counts' = Counts
    BY DEF Counts
  <2> QED BY <2>1 DEF CounterInv
<1> QED BY <1>2, <1>3, <1>4 DEF CounterInv

(* The globals are counted first.                                          *)
LEMMA StartCountingKeeps ==
  ASSUME CloneInv, CounterInv, StartCounting
  PROVE  CounterInv'
<1>1. /\ p <= Len(passes) /\ passes[p] = "mystats" /\ x = 0 /\ x' = 1 /\ p' = p
      /\ counters' = Added(SumOf(MapSeq(CountsOfGlobal, globals)))
      /\ functions' = functions /\ UNCHANGED <<enabled, reports, fixed, p>>
      /\ passes' = passes
  BY DEF StartCounting, Running, CountGlobals, fixed
<1>2. /\ TypeInv /\ Len(functions) \in Nat /\ reports \in Seq(Counts) /\ program \in Programs
      /\ globals = program.globals
  BY LenProperties DEF CloneInv, TypeInv, CounterInv
<1>3. ~Reporting /\ Reporting'
  BY <1>1 DEF Reporting
<1>4. Base' = Base /\ Globals' = Globals /\ Base \in Counts /\ Globals \in Counts
  <2>1. Base' = Base
    BY <1>1 DEF Base
  <2>2. Globals' = Globals
    BY <1>1, ReportsUnchanged
  <2> QED BY <1>2, <2>1, <2>2, BaseType, GlobalsCounts
<1>5. SumOf(MapSeq(CountsOfGlobal, globals)) = Globals
  BY <1>2 DEF Globals
<1>6. counters = IF enabled THEN Base ELSE NoCounts
  BY <1>3 DEF CounterInv, Counted
<1>7. Total(SubSeq(functions, 1, x - 1))' = NoCounts
  <2>1. SubSeq(functions', 1, x' - 1) = <<>>
    <3>1. x' - 1 = 0
      BY <1>1
    <3> QED BY <3>1, SubSeqEmpty
  <2>2. Total(SubSeq(functions, 1, x - 1))' = Total(SubSeq(functions', 1, x' - 1))
    BY DEF Total, CountsIn
  <2> QED BY <2>1, <2>2, TotalEmpty
<1>8. (Plus(Base, Plus(Globals, Total(SubSeq(functions, 1, x - 1)))))' = Plus(Base, Globals)
  <2> DEFINE t == Total(SubSeq(functions, 1, x - 1))
  <2>1. t' = NoCounts
    BY <1>7
  <2> HIDE DEF t
  <2>2. Plus(Globals, t)' = Globals
    <3>1. Plus(Globals, t)' = Plus(Globals, NoCounts)
      BY <1>4, <2>1 DEF Plus
    <3> QED BY <1>4, <3>1, PlusZero
  <2>3. Plus(Base, Plus(Globals, t))' = Plus(Base, Globals)
    BY <1>4, <2>2 DEF Plus
  <2> QED BY <2>3 DEF t
<1>9. counters' = IF enabled THEN Plus(Base, Globals) ELSE NoCounts
  BY <1>1, <1>5, <1>6 DEF Added
<1>10. counters' = Counted'
  BY <1>1, <1>3, <1>8, <1>9 DEF Counted
<1>11. x' <= Len(functions') + 1
  BY <1>1, <1>2
<1> QED BY <1>1, <1>3, <1>10, <1>11, CounterCounts

(* Then the functions, one by one.                                         *)
LEMMA CountNextKeeps ==
  ASSUME CloneInv, CounterInv, CountNext
  PROVE  CounterInv'
<1> DEFINE fun == functions[x]
           c == CountsOfFunction(fun)
           t == Total(SubSeq(functions, 1, x - 1))
<1>1. /\ p <= Len(passes) /\ passes[p] = "mystats" /\ x \in DOMAIN functions /\ x' = x + 1 /\ p' = p
      /\ counters' = Added(c)
      /\ functions' = functions /\ UNCHANGED <<enabled, reports, fixed, p>>
      /\ passes' = passes
  BY DEF CountNext, Running, CountFunction, fixed, InFunctions, F
<1>2. /\ TypeInv /\ functions \in Seq(Fun) /\ Len(functions) \in Nat /\ reports \in Seq(Counts)
      /\ DOMAIN functions = 1..Len(functions) /\ program \in Programs
  BY LenProperties DEF CloneInv, TypeInv, CounterInv
<1>3. x \in 1..Len(functions) /\ x' - 1 = x /\ x' <= Len(functions) + 1 /\ x' > 0 /\ x > 0
  BY <1>1, <1>2
<1>4. Reporting /\ Reporting'
  BY <1>1, <1>3 DEF Reporting
<1>5. Base' = Base /\ Globals' = Globals /\ Base \in Counts /\ Globals \in Counts
  <2>1. Base' = Base
    BY <1>1 DEF Base
  <2>2. Globals' = Globals
    BY <1>1, ReportsUnchanged
  <2> QED BY <1>2, <2>1, <2>2, BaseType, GlobalsCounts
<1>6. c \in Counts /\ t \in Counts /\ SubSeq(functions, 1, x - 1) \in Seq(Fun) /\ fun \in Fun
  <2>1. fun \in Fun
    BY <1>1, <1>2, ElementType
  <2>2. SubSeq(functions, 1, x - 1) \in Seq(Fun)
    <3>1. \A n \in 1..x - 1 : functions[n] \in Fun
      <4>1. \A n \in 1..x - 1 : n \in DOMAIN functions
        BY <1>2, <1>3
      <4> QED BY <1>2, <4>1, ElementType
    <3>2. x - 1 \in Int /\ 1 \in Int
      BY <1>3
    <3> QED BY <3>1, <3>2, SubSeqProperties
  <2> HIDE DEF fun
  <2> QED BY <2>1, <2>2, FunctionCounts, CountsInType
<1>7. Total(SubSeq(functions, 1, x)) = Plus(t, c)
  <2>1. SubSeq(functions, 1, x) = SubSeq(functions, 1, x - 1) \o <<functions[x]>>
    <3>1. 1 \in 1..Len(functions) /\ x \in 1..Len(functions)
      BY <1>2, <1>3
    <3> QED BY <1>2, <3>1, SubSeqRecursiveSecond
  <2> DEFINE s == SubSeq(functions, 1, x - 1)
  <2>2. s \in Seq(Fun) /\ SubSeq(functions, 1, x) = s \o <<fun>> /\ t = Total(s)
    BY <1>6, <2>1
  <2> HIDE DEF s, fun
  <2>3. s \o <<fun>> = Append(s, fun)
    BY <1>6, <2>2
  <2>4. Total(Append(s, fun)) = Plus(Total(s), c)
    BY <1>6, <2>2, TotalAppend
  <2> QED BY <2>2, <2>3, <2>4
<1>8. t' = Plus(t, c)
  <2>1. t' = Total(SubSeq(functions', 1, x' - 1))
    BY DEF Total, CountsIn
  <2> HIDE DEF t, c
  <2> QED BY <1>1, <1>3, <1>7, <2>1
<1>9. counters = IF enabled THEN Plus(Base, Plus(Globals, t)) ELSE NoCounts
  BY <1>4 DEF CounterInv, Counted
<1>10. Plus(Base, Plus(Globals, t))' = Plus(Plus(Base, Plus(Globals, t)), c)
  <2> HIDE DEF t, c
  <2>1. Plus(Globals, t)' = Plus(Globals, Plus(t, c))
    BY <1>5, <1>8 DEF Plus
  <2>2. Plus(Base, Plus(Globals, t))' = Plus(Base, Plus(Globals, Plus(t, c)))
    BY <1>5, <2>1 DEF Plus
  <2>3. Plus(Globals, Plus(t, c)) = Plus(Plus(Globals, t), c)
    BY <1>5, <1>6, PlusAssociative
  <2>4. Plus(Globals, t) \in Counts
    BY <1>5, <1>6, PlusType
  <2>5. Plus(Base, Plus(Plus(Globals, t), c)) = Plus(Plus(Base, Plus(Globals, t)), c)
    BY <1>5, <1>6, <2>4, PlusAssociative
  <2> QED BY <2>2, <2>3, <2>5
<1>11. counters' = IF enabled THEN Plus(Plus(Base, Plus(Globals, t)), c) ELSE NoCounts
  <2> HIDE DEF t, c
  <2> QED BY <1>1, <1>9 DEF Added
<1>12. counters' = Counted'
  <2>1. Counted' = IF ~enabled' THEN NoCounts ELSE Plus(Base, Plus(Globals, t))'
    BY <1>4 DEF Counted
  <2> HIDE DEF t, c
  <2> QED BY <1>1, <1>10, <1>11, <2>1
<1> QED BY <1>1, <1>3, <1>4, <1>12, CounterCounts

(* The report is made when the globals and every function have been counted*)
(* on top of the one before.                                               *)
LEMMA PrintKeeps ==
  ASSUME CloneInv, TotalInv, CounterInv, PrintStatistics
  PROVE  CounterInv'
<1> DEFINE N == Len(reports)
<1>1. /\ p <= Len(passes) /\ passes[p] = "mystats" /\ x > Len(functions) /\ x' = 0 /\ p' = p + 1
      /\ reports' = Append(reports, counters) /\ counters' = counters /\ enabled' = enabled
      /\ functions' = functions /\ UNCHANGED fixed /\ passes' = passes
  BY DEF PrintStatistics, Running, PrintCounters, fixed
<1>2. /\ TypeInv /\ functions \in Seq(Fun) /\ Len(functions) \in Nat /\ x \in Nat
      /\ reports \in Seq(Counts) /\ N \in Nat /\ program \in Programs
      /\ p \in Nat \ {0} /\ p \in 1..Len(passes) /\ p - 1 \in 0..Len(passes)
      /\ passes \in Seq(Kinds) /\ enabled \in BOOLEAN
  <2>1. /\ TypeInv /\ functions \in Seq(Fun) /\ Len(functions) \in Nat /\ x \in Nat
        /\ reports \in Seq(Counts) /\ N \in Nat /\ program \in Programs
        /\ passes \in Seq(Kinds) /\ enabled \in BOOLEAN
        /\ p \in 1..Len(passes) + 1 /\ Len(passes) \in Nat
    BY LenProperties DEF CloneInv, TypeInv, CounterInv
  <2> QED BY <1>1, <2>1
<1>3. Reporting /\ ~Reporting' /\ p' - 1 = p /\ x - 1 = Len(functions)
  <2>1. Reporting
    BY <1>1, <1>2 DEF Reporting
  <2>2. x <= Len(functions) + 1
    BY <2>1 DEF CounterInv
  <2> QED BY <1>1, <1>2, <2>1, <2>2 DEF Reporting
<1>4. /\ \A n : ReportsUpTo(n)' = ReportsUpTo(n)
      /\ Globals' = Globals /\ Bodies' = Bodies /\ Copies' = Copies
  BY <1>1, ReportsUnchanged
<1>5. Total(SubSeq(functions, 1, x - 1)) = Times(Copies[p], Bodies)
  <2>1. SubSeq(functions, 1, x - 1) = functions
    BY <1>2, <1>3, SubSeqFull
  <2>2. Total(functions) = Times(Copies[p - 1], Bodies)
    <3>1. ~Cloning
      BY <1>1 DEF Cloning
    <3> QED BY <3>1 DEF TotalInv
  <2>3. Copies[p] = Copies[p - 1]
    BY <1>1, <1>2, CopiesLoop
  <2> QED BY <2>1, <2>2, <2>3
<1>6. ReportsUpTo(p) = N + 1
  <2>1. /\ ReportsUpTo(p) = ReportsUpTo(p - 1) + (IF passes[p] = "mystats" THEN 1 ELSE 0)
    BY <1>2, ReportsNext
  <2>2. N = ReportsUpTo(p - 1)
    BY DEF CounterInv
  <2> QED BY <1>1, <2>1, <2>2
<1>7. counters = Owed(p) /\ counters \in Counts /\ (~enabled => counters = NoCounts)
  <2>1. counters = IF enabled THEN Plus(Base, Plus(Globals, Times(Copies[p], Bodies))) ELSE NoCounts
    BY <1>3, <1>5 DEF CounterInv, Counted
  <2>2. Base = IF ReportsUpTo(p) = 1 THEN NoCounts ELSE reports[ReportsUpTo(p) - 1]
    BY <1>2, <1>6 DEF Base
  <2>3. counters = Owed(p)
    BY <2>1, <2>2 DEF Owed
  <2>4. counters \in Counts
    <3> DEFINE t == Times(Copies[p], Bodies)
    <3>1. t \in Counts
      <4>1. p \in 0..Len(passes)
        BY <1>2
      <4>2. Copies[p] \in Nat /\ Bodies \in Counts
        BY <1>2, <4>1, CopiesLoop, BodiesTotal
      <4> QED BY <4>2, TimesOfTwo
    <3>2. Base \in Counts /\ Globals \in Counts
      BY <1>2, BaseType, GlobalsCounts
    <3> HIDE DEF t
    <3>3. Plus(Globals, t) \in Counts
      BY <3>1, <3>2, PlusType
    <3>4. Plus(Base, Plus(Globals, t)) \in Counts
      BY <3>2, <3>3, PlusType
    <3>5. counters = IF enabled THEN Plus(Base, Plus(Globals, t)) ELSE NoCounts
      BY <2>1 DEF t
    <3> QED BY <3>4, <3>5, NoCountsType
  <2> QED BY <2>1, <2>3, <2>4
<1>8. /\ reports' \in Seq(Counts) /\ Len(reports') = N + 1
      /\ \A m \in 1..N : reports'[m] = reports[m]
      /\ reports'[N + 1] = counters
  BY <1>1, <1>2, <1>7, AppendProperties
<1>9. (Len(reports) = ReportsUpTo(p - 1))'
  <2>1. ReportsUpTo(p - 1)' = ReportsUpTo(p)
    <3>1. {m \in 1..p' - 1 : passes'[m] = "mystats"} = {m \in 1..p : passes[m] = "mystats"}
      BY <1>1, <1>3
    <3>2. ReportsUpTo(p - 1)' = Cardinality({m \in 1..p' - 1 : passes'[m] = "mystats"})
      BY DEF ReportsUpTo
    <3> QED BY <3>1, <3>2 DEF ReportsUpTo
  <2> QED BY <1>6, <1>8, <2>1
<1>10. (counters = Counted)'
  <2>1. Base' = counters
    BY <1>2, <1>8 DEF Base
  <2> QED BY <1>1, <1>3, <1>7, <2>1 DEF Counted
<1>11. ASSUME NEW n \in 1..p, passes[n] = "mystats"
       PROVE  reports'[ReportsUpTo(n)] = Owed(n)'
  <2> DEFINE k == ReportsUpTo(n)
             t == Times(Copies[n], Bodies)
  <2>1. k \in Nat /\ k >= 1 /\ k <= N + 1 /\ n \in Nat
    <3>1. n \in Nat \ {0} /\ n \in Nat /\ p \in Nat /\ n <= p
      BY <1>2
    <3>2. k \in Nat /\ k = ReportsUpTo(n - 1) + 1 /\ ReportsUpTo(n - 1) \in Nat
      BY <1>11, <3>1, ReportsNext
    <3>3. k <= ReportsUpTo(p)
      BY <3>1, ReportsGrow
    <3> QED BY <1>2, <1>6, <3>1, <3>2, <3>3
  <2>2. Owed(n)' = Owed(n)
    <3>1. k' = k /\ t' = t
      BY <1>4 DEF Times
    <3>2. k # 1 => reports'[k - 1] = reports[k - 1]
      <4>1. k # 1 => k - 1 \in 1..N
        BY <1>2, <2>1
      <4> QED BY <1>8, <4>1
    <3> DEFINE r == Plus(IF k = 1 THEN NoCounts ELSE reports[k - 1], Plus(Globals, t))
    <3>3. Owed(n) = (IF enabled THEN r ELSE NoCounts) /\ Owed(n)' = (IF enabled' THEN r' ELSE NoCounts)
      BY DEF Owed
    <3>4. r' = r
      <4> HIDE DEF k, t
      <4>1. Plus(Globals, t)' = Plus(Globals, t)
        BY <1>4, <3>1 DEF Plus
      <4>2. (IF k = 1 THEN NoCounts ELSE reports[k - 1])' = (IF k = 1 THEN NoCounts ELSE reports[k - 1])
        BY <3>1, <3>2
      <4> QED BY <4>1, <4>2 DEF Plus
    <3>5. enabled' = enabled
      BY <1>1
    <3> HIDE DEF r
    <3> QED BY <3>3, <3>4, <3>5
  <2>3. CASE n = p
    BY <1>6, <1>7, <1>8, <2>2, <2>3
  <2>4. CASE n # p
    <3>1. n \in 1..p - 1
      BY <1>2, <2>4
    <3>2. reports[k] = Owed(n)
      BY <1>11, <3>1 DEF CounterInv
    <3>3. k <= N
      <4>1. ReportsUpTo(n) <= ReportsUpTo(p - 1)
        <5>1. n \in Nat /\ p - 1 \in Nat /\ n <= p - 1
          BY <1>2, <3>1
        <5> QED BY <5>1, ReportsGrow
      <4> QED BY <4>1 DEF CounterInv
    <3>4. reports'[k] = reports[k]
      <4>1. k \in 1..N
        BY <2>1, <3>3
      <4> QED BY <1>8, <4>1
    <3> QED BY <2>2, <3>2, <3>4
  <2> QED BY <2>3, <2>4
<1>12. (\A n \in 1..p - 1 : passes[n] = "mystats" => reports[ReportsUpTo(n)] = Owed(n))'
  BY <1>1, <1>3, <1>4, <1>11
<1>13. (enabled \in BOOLEAN /\ reports \in Seq(Counts))'
  <2>1. Counts' = Counts
    BY DEF Counts
  <2> QED BY <1>1, <1>2, <1>8, <2>1
<1>14. (Reporting => x <= Len(functions) + 1)'
  BY <1>3
<1> QED BY <1>9, <1>10, <1>12, <1>13, <1>14 DEF CounterInv

(* Every step keeps the invariant of the counters.                         *)
LEMMA CounterStep ==
  ASSUME CloneInv, TotalInv, CounterInv, [Next]_vars
  PROVE  CounterInv'
<1>1. /\ TypeInv /\ p \in Nat \ {0} /\ Len(passes) \in Nat /\ p <= Len(passes) + 1
  BY LenProperties DEF CloneInv, TypeInv
<1>2. CASE StartCloning \/ CloneNext
  <2>1. UNCHANGED <<statistics, fixed, p>> /\ passes[p] = "clonefuncs"
    BY <1>2 DEF StartCloning, CloneNext, Running
  <2>2. ~Reporting /\ ~Reporting'
    BY <2>1 DEF Reporting, fixed
  <2> QED BY <2>1, <2>2, CounterAway
<1>3. CASE EndCloning
  <2>1. UNCHANGED <<statistics, fixed>> /\ passes[p] = "clonefuncs" /\ p' = p + 1 /\ x' = 0
    BY <1>3 DEF EndCloning, Running
  <2>2. p \in Nat /\ p <= p /\ \A n \in p..p : passes[n] # "mystats"
    BY <1>1, <2>1
  <2> QED BY <1>1, <2>1, <2>2, CounterSkip
<1>4. CASE StartCounting
  BY <1>4, StartCountingKeeps
<1>5. CASE CountNext
  BY <1>5, CountNextKeeps
<1>6. CASE PrintStatistics
  BY <1>6, PrintKeeps
<1>7. PICK q \in p - 1..Len(passes) :
           /\ Group = p..q /\ Cardinality(Group) = q - (p - 1)
           /\ \A n \in p..q : passes[n] \in FunctionPasses
           /\ Group # {} <=> p <= Len(passes) /\ passes[p] \in FunctionPasses
  BY <1>1, GroupSpan DEF TypeInv
<1>8. CASE Greet \/ NextFunction
  <2>1. UNCHANGED <<statistics, fixed, p>> /\ Group # {}
    BY <1>8 DEF Greet, NextFunction
  <2>2. ~Reporting /\ ~Reporting'
    BY <1>7, <2>1 DEF Reporting, fixed, FunctionPasses
  <2> QED BY <2>1, <2>2, CounterAway
<1>9. CASE EndGroup
  <2>1. UNCHANGED <<statistics, fixed>> /\ Group # {} /\ p' = p + Cardinality(Group) /\ x' = 0
    BY <1>9 DEF EndGroup
  <2>2. q \in Nat /\ p <= q /\ p' = q + 1
    BY <1>1, <1>7, <2>1
  <2>3. \A n \in p..q : passes[n] # "mystats"
    BY <1>7 DEF FunctionPasses
  <2> QED BY <1>1, <2>1, <2>2, <2>3, CounterSkip
<1>10. CASE RunDriver \/ ReadCommandLine \/ StartCoding \/ Refuse \/ Emit \/ EndCoding
  <2>1. UNCHANGED <<statistics, fixed, p>>
    BY <1>10 DEF RunDriver, ReadCommandLine, Written, StartCoding, Refuse, Emit, EndCoding
  <2>2. p > Len(passes)
    <3>1. CASE RunDriver \/ ReadCommandLine \/ Refuse
      BY <3>1 DEF RunDriver, ReadCommandLine, Written, Refuse
    <3>2. CASE StartCoding \/ Emit \/ EndCoding
      BY <1>1, <3>2 DEF StartCoding, Emit, EndCoding, TypeInv
    <3> QED BY <1>10, <3>1, <3>2
  <2>3. ~Reporting /\ ~Reporting'
    BY <1>1, <2>1, <2>2 DEF Reporting, fixed
  <2> QED BY <2>1, <2>3, CounterAway
<1>11. CASE UNCHANGED vars
  <2>1. UNCHANGED <<statistics, fixed, p>> /\ x' = x /\ functions' = functions
    BY <1>11 DEF vars
  <2> QED BY <2>1, CounterAway
<1> QED BY <1>2, <1>3, <1>4, <1>5, <1>6, <1>8, <1>9, <1>10, <1>11 DEF Next

(* The reports are what the property says.                                 *)
LEMMA CounterInvFollows ==
  ASSUME CounterInv
  PROVE  ReportsAccumulate
<1>1. Len(reports) = ReportsUpTo(p - 1)
  BY DEF CounterInv
<1>2. \A n \in 1..p - 1 : passes[n] = "mystats" => reports[ReportsUpTo(n)] = Owed(n)
  BY DEF CounterInv
<1> QED BY <1>1, <1>2 DEF ReportsAccumulate, Owed

(* For every program, list of passes and kind of build: each report is the *)
(* one before it, the globals once more, and the counts of the program's   *)
(* bodies as often as clonefuncs has doubled them.                         *)
THEOREM ReportsCorrect == Spec => []ReportsAccumulate
<1>1. Init => TotalInv /\ CounterInv
  BY TotalInit, CounterInit
<1>2. CloneInv /\ TotalInv /\ [Next]_vars => TotalInv'
  BY TotalStep
<1>3. CloneInv /\ TotalInv /\ CounterInv /\ [Next]_vars => CounterInv'
  BY CounterStep
<1>4. CounterInv => ReportsAccumulate
  BY CounterInvFollows
<1> QED BY <1>1, <1>2, <1>3, <1>4, CloneInvariant, PTL DEF Spec
==============================================================================
