--------------------------- MODULE SequenceLemmas ---------------------------
(***************************************************************************)
(* Facts about vectors used as stacks (push_back, back, pop_back) that the  *)
(* proofs about the worklist algorithms rest on.                            *)
(***************************************************************************)
EXTENDS Integers, SequencesExt, SequenceTheorems, WellFoundedInduction, TLAPS

(* Every nonempty set of natural numbers has a least element.               *)
LEMMA LeastNatural ==
  ASSUME NEW T \in SUBSET Nat, T # {}
  PROVE  \E x \in T : \A y \in T : x <= y
<1> DEFINE R == OpToRel(<, Nat)
<1>1. \E x \in T : \A y \in T : <<y, x>> \notin R
  <2>1. IsWellFoundedOn(R, Nat)
    BY NatLessThanWellFounded
  <2> HIDE DEF R
  <2> QED BY <2>1, WFMin
<1>2. ASSUME NEW x \in Nat, NEW y \in Nat, <<y, x>> \notin R
      PROVE  x <= y
  BY <1>2 DEF OpToRel
<1> QED BY <1>1, <1>2

(* A nonempty set of natural numbers below a bound has a greatest element.  *)
LEMMA GreatestBelow ==
  ASSUME NEW n \in Nat, NEW T \in SUBSET (0..n), T # {}
  PROVE  \E x \in T : \A y \in T : y <= x
<1> DEFINE Mirror == {n - x : x \in T}
<1>1. Mirror \in SUBSET Nat /\ Mirror # {}
  <2>1. \A x \in T : n - x \in Nat
    OBVIOUS
  <2> QED BY <2>1
<1>2. PICK m \in Mirror : \A k \in Mirror : m <= k
  <2> HIDE DEF Mirror
  <2> QED BY <1>1, LeastNatural
<1>3. PICK x \in T : m = n - x
  BY <1>2
<1>4. ASSUME NEW y \in T PROVE y <= x
  <2>1. n - y \in Mirror
    OBVIOUS
  <2>2. n - x <= n - y
    BY <2>1, <1>2, <1>3
  <2> QED BY <2>2
<1> QED BY <1>4

(* Induction along a vector: a set with 0 that is closed under the next     *)
(* index holds every index.  As a statement about a set it can be used with *)
(* any property of the index.                                               *)
LEMMA PrefixInduction ==
  ASSUME NEW n \in Nat, NEW T, 0 \in T,
         \A m \in 1..n : m - 1 \in T => m \in T
  PROVE  0..n \subseteq T
<1> DEFINE Bad == (0..n) \ T
<1>1. SUFFICES ASSUME Bad # {} PROVE FALSE
  OBVIOUS
<1>2. PICK x \in Bad : \A y \in Bad : x <= y
  <2>1. Bad \in SUBSET Nat
    OBVIOUS
  <2> HIDE DEF Bad
  <2> QED BY <1>1, <2>1, LeastNatural
<1>3. x \in 1..n /\ x - 1 \in 0..n /\ ~(x <= x - 1)
  OBVIOUS
<1>4. x - 1 \in T
  BY <1>2, <1>3
<1> QED BY <1>3, <1>4

(* What a vector holds.                                                     *)
LEMMA ElementType ==
  ASSUME NEW S, NEW s \in Seq(S), NEW i \in DOMAIN s
  PROVE  s[i] \in S
BY LenProperties, ElementOfSeq

(* A vector holds one more element after push_back.                         *)
LEMMA AppendContents ==
  ASSUME NEW S, NEW s \in Seq(S), NEW e \in S
  PROVE  Append(s, e) \in Seq(S) /\ ToSet(Append(s, e)) = ToSet(s) \cup {e}
<1>1. Len(s) \in Nat /\ DOMAIN s = 1..Len(s)
  BY LenProperties
<1>2. /\ Append(s, e) \in Seq(S)
      /\ Len(Append(s, e)) = Len(s) + 1
      /\ \A i \in 1..Len(s) : Append(s, e)[i] = s[i]
      /\ Append(s, e)[Len(s) + 1] = e
  BY AppendProperties
<1>3. DOMAIN Append(s, e) = (1..Len(s)) \cup {Len(s) + 1}
  <2>1. DOMAIN Append(s, e) = 1..(Len(s) + 1)
    BY <1>2, LenProperties
  <2> QED BY <1>1, <2>1
<1>4. \A i \in 1..Len(s) : i # Len(s) + 1
  BY <1>1
<1> DEFINE t == Append(s, e)
<1> HIDE DEF t
<1>5. ToSet(t) = ToSet(s) \cup {e}
  BY <1>1, <1>2, <1>3, <1>4 DEF ToSet, t
<1> QED BY <1>2, <1>5 DEF t

(* Popping a nonempty stack.                                                *)
LEMMA PopProperties ==
  ASSUME NEW S, NEW s \in Seq(S), s # <<>>
  PROVE  /\ Last(s) \in S
         /\ Len(s) \in Nat \ {0}
         /\ Front(s) \in Seq(S)
         /\ Len(Front(s)) = Len(s) - 1
         /\ \A i \in 1..(Len(s) - 1) : Front(s)[i] = s[i]
<1>1. Len(s) \in Nat \ {0} /\ DOMAIN s = 1..Len(s)
  BY EmptySeq, LenProperties
<1>2. \A i \in 1..Len(s) : s[i] \in S
  BY ElementOfSeq
<1>3. \A i \in 1..(Len(s) - 1) : s[i] \in S
  BY <1>1, <1>2
<1>4. /\ SubSeq(s, 1, Len(s) - 1) \in Seq(S)
      /\ Len(SubSeq(s, 1, Len(s) - 1)) = Len(s) - 1
      /\ \A i \in 1..(Len(s) - 1) : SubSeq(s, 1, Len(s) - 1)[i] = s[i]
  BY <1>1, <1>3, SubSeqProperties
<1> QED BY <1>1, <1>2, <1>4 DEF Front, Last

(* Popping a stack and pushing the elements of p.                           *)
LEMMA PopPushProperties ==
  ASSUME NEW S, NEW s \in Seq(S), s # <<>>, NEW p \in Seq(S)
  PROVE  /\ Front(s) \o p \in Seq(S)
         /\ Len(Front(s) \o p) = Len(s) - 1 + Len(p)
         /\ DOMAIN (Front(s) \o p) = 1..(Len(s) - 1 + Len(p))
         /\ \A i \in 1..(Len(s) - 1 + Len(p)) :
              (Front(s) \o p)[i] = IF i <= Len(s) - 1 THEN s[i]
                                   ELSE p[i - (Len(s) - 1)]
<1>1. /\ Front(s) \in Seq(S)
      /\ Len(s) \in Nat \ {0}
      /\ Len(Front(s)) = Len(s) - 1
      /\ \A i \in 1..(Len(s) - 1) : Front(s)[i] = s[i]
  BY PopProperties
<1>2. Len(p) \in Nat
  BY LenProperties
<1> DEFINE t == Front(s) \o p
<1>3. /\ t \in Seq(S)
      /\ Len(t) = Len(s) - 1 + Len(p)
      /\ \A i \in 1..(Len(s) - 1 + Len(p)) :
           t[i] = IF i <= Len(s) - 1 THEN Front(s)[i] ELSE p[i - (Len(s) - 1)]
  <2>1. /\ t \in Seq(S)
        /\ Len(t) = Len(Front(s)) + Len(p)
        /\ \A i \in 1..(Len(Front(s)) + Len(p)) :
             t[i] = IF i <= Len(Front(s)) THEN Front(s)[i] ELSE p[i - Len(Front(s))]
    BY <1>1, ConcatProperties
  <2> QED BY <2>1, <1>1
<1>4. DOMAIN t = 1..(Len(s) - 1 + Len(p))
  BY <1>3, LenProperties
<1>5. \A i \in 1..(Len(s) - 1 + Len(p)) :
        t[i] = IF i <= Len(s) - 1 THEN s[i] ELSE p[i - (Len(s) - 1)]
  BY <1>1, <1>2, <1>3
<1> QED BY <1>3, <1>4, <1>5

(* What a stack holds, as a set: the rest and the last element.             *)
LEMMA PopContents ==
  ASSUME NEW S, NEW s \in Seq(S), s # <<>>
  PROVE  ToSet(s) = ToSet(Front(s)) \cup {Last(s)}
<1>1. /\ Len(s) \in Nat \ {0} /\ DOMAIN s = 1..Len(s)
      /\ Front(s) \in Seq(S) /\ Len(Front(s)) = Len(s) - 1
      /\ \A i \in 1..(Len(s) - 1) : Front(s)[i] = s[i]
  BY PopProperties, LenProperties
<1>2. DOMAIN Front(s) = 1..(Len(s) - 1)
  BY <1>1, LenProperties
<1>3. 1..Len(s) = (1..(Len(s) - 1)) \cup {Len(s)}
  BY <1>1
<1> DEFINE r == Front(s)
<1> HIDE DEF r
<1>4. ToSet(s) = ToSet(r) \cup {s[Len(s)]}
  BY <1>1, <1>2, <1>3 DEF ToSet, r
<1> QED BY <1>4 DEF Last, r

(* What two vectors hold together.                                          *)
LEMMA ConcatContents ==
  ASSUME NEW S, NEW s \in Seq(S), NEW p \in Seq(S)
  PROVE  s \o p \in Seq(S) /\ ToSet(s \o p) = ToSet(s) \cup ToSet(p)
<1> DEFINE t == s \o p
<1>1. /\ Len(s) \in Nat /\ DOMAIN s = 1..Len(s)
      /\ Len(p) \in Nat /\ DOMAIN p = 1..Len(p)
  BY LenProperties
<1>2. /\ t \in Seq(S) /\ Len(t) = Len(s) + Len(p)
      /\ \A i \in 1..(Len(s) + Len(p)) :
           t[i] = IF i <= Len(s) THEN s[i] ELSE p[i - Len(s)]
  BY ConcatProperties
<1> HIDE DEF t
<1>3. DOMAIN t = 1..(Len(s) + Len(p))
  BY <1>2, LenProperties
<1>4. ASSUME NEW x \in ToSet(t) PROVE x \in ToSet(s) \cup ToSet(p)
  <2>1. PICK i \in 1..(Len(s) + Len(p)) : x = t[i]
    BY <1>3 DEF ToSet
  <2>2. i <= Len(s) => i \in DOMAIN s /\ x = s[i]
    BY <1>1, <1>2, <2>1
  <2>3. ~(i <= Len(s)) => i - Len(s) \in DOMAIN p /\ x = p[i - Len(s)]
    BY <1>1, <1>2, <2>1
  <2> QED BY <2>2, <2>3 DEF ToSet
<1>5. ASSUME NEW x \in ToSet(s) PROVE x \in ToSet(t)
  <2>1. PICK i \in 1..Len(s) : x = s[i]
    BY <1>1 DEF ToSet
  <2>2. i \in DOMAIN t /\ x = t[i]
    BY <1>1, <1>2, <1>3, <2>1
  <2> QED BY <2>2 DEF ToSet
<1>6. ASSUME NEW x \in ToSet(p) PROVE x \in ToSet(t)
  <2>1. PICK i \in 1..Len(p) : x = p[i]
    BY <1>1 DEF ToSet
  <2>2. Len(s) + i \in 1..(Len(s) + Len(p)) /\ ~(Len(s) + i <= Len(s))
        /\ (Len(s) + i) - Len(s) = i
    BY <1>1
  <2>3. x = t[Len(s) + i]
    BY <1>2, <2>1, <2>2
  <2> QED BY <1>3, <2>2, <2>3 DEF ToSet
<1>7. ToSet(t) = ToSet(s) \cup ToSet(p)
  BY <1>4, <1>5, <1>6
<1> QED BY <1>2, <1>7 DEF t

------------------------------------------------------------------------------
(* The loop of FlattenSeq: each prefix of the vector laid end to end.       *)
Flattens(s, r) == r = [i \in 1..Len(s) |-> IF i = 1 THEN s[i] ELSE r[i - 1] \o s[i]]

(* By induction, the loop has a result after every vector.                  *)
LEMMA FlattensExist ==
  ASSUME NEW S, NEW s \in Seq(S)
  PROVE  \E r : Flattens(s, r)
<1> DEFINE N == Len(s)
           Body(r, i) == IF i = 1 THEN s[i] ELSE r[i - 1] \o s[i]
           T == {m \in 0..N : \E r : r = [i \in 1..m |-> Body(r, i)]}
<1>1. N \in Nat
  BY LenProperties
<1>2. 0 \in T
  <2> DEFINE q == [i \in 1..0 |-> 0]
  <2>1. q = [i \in 1..0 |-> Body(q, i)]
    <3> HIDE DEF Body
    <3>1. 1..0 = {}
      OBVIOUS
    <3> QED BY <3>1
  <2>2. \E r : r = [i \in 1..0 |-> Body(r, i)]
    <3> HIDE DEF q, Body
    <3> QED BY <2>1
  <2>3. 0 \in 0..N
    BY <1>1
  <2> HIDE DEF q, Body
  <2> QED BY <2>2, <2>3
<1>3. ASSUME NEW m \in 1..N, m - 1 \in T PROVE m \in T
  <2>1. PICK p : p = [i \in 1..(m - 1) |-> Body(p, i)]
    BY <1>3
  <2> DEFINE q == [i \in 1..m |-> IF i = m THEN Body(p, m) ELSE p[i]]
  <2>2. ASSUME NEW i \in 1..m PROVE q[i] = Body(q, i)
    <3>1. i = 1 => Body(q, i) = Body(p, i)
      OBVIOUS
    <3>2. i # 1 => Body(q, i) = Body(p, i)
      <4> SUFFICES ASSUME i # 1 PROVE Body(q, i) = Body(p, i)
        OBVIOUS
      <4>1. i - 1 \in 1..m /\ i - 1 # m
        BY <1>1
      <4>2. q[i - 1] = p[i - 1]
        BY <4>1
      <4> HIDE DEF q
      <4> QED BY <4>2
    <3>3. i # m => p[i] = Body(p, i)
      <4>1. i # m => i \in 1..(m - 1)
        BY <1>1
      <4> HIDE DEF Body
      <4> QED BY <2>1, <4>1
    <3>4. q[i] = Body(p, i)
      <4> HIDE DEF Body
      <4> QED BY <3>3
    <3> QED BY <3>1, <3>2, <3>4
  <2>3. q = [i \in 1..m |-> Body(q, i)]
    <3>1. q = [i \in 1..m |-> q[i]]
      OBVIOUS
    <3> HIDE DEF q, Body
    <3> QED BY <2>2, <3>1
  <2> HIDE DEF q, Body
  <2> QED BY <2>3, <1>1
<1>4. N \in T
  <2> HIDE DEF T
  <2>1. 0..N \subseteq T
    BY <1>1, <1>2, <1>3, PrefixInduction
  <2> QED BY <1>1, <2>1
<1> QED BY <1>4 DEF Flattens

(* FlattenSeq takes the last of those results.                              *)
LEMMA FlattenLast ==
  ASSUME NEW S, NEW s \in Seq(Seq(S)), s # <<>>
  PROVE  \E r : /\ Flattens(s, r) /\ FlattenSeq(s) = r[Len(s)]
                /\ \A i \in 1..Len(s) : r[i] \in Seq(S)
<1> DEFINE q == CHOOSE r : Flattens(s, r)
<1>1. Flattens(s, q)
  <2>1. \E r : Flattens(s, r)
    BY FlattensExist
  <2> QED BY <2>1
<1>2. Len(s) \in Nat \ {0} /\ \A k \in 1..Len(s) : s[k] \in Seq(S)
  BY LenProperties, ElementOfSeq, EmptySeq
<1>3. FlattenSeq(s) = q[Len(s)]
  BY <1>2 DEF FlattenSeq, Flattens
<1> HIDE DEF q
<1> DEFINE T == {m \in 0..Len(s) : m # 0 => q[m] \in Seq(S)}
<1>4. 0 \in T
  BY <1>2
<1>5. ASSUME NEW m \in 1..Len(s), m - 1 \in T PROVE m \in T
  <2>1. q[m] = IF m = 1 THEN s[m] ELSE q[m - 1] \o s[m]
    BY <1>1, <1>2 DEF Flattens
  <2>2. s[m] \in Seq(S) /\ (m # 1 => q[m - 1] \in Seq(S))
    BY <1>2, <1>5
  <2>3. m # 1 => q[m - 1] \o s[m] \in Seq(S)
    BY <2>2, ConcatProperties
  <2>4. q[m] \in Seq(S)
    BY <2>1, <2>2, <2>3
  <2>5. m \in 0..Len(s)
    BY <1>2
  <2> QED BY <2>4, <2>5
<1>6. 0..Len(s) \subseteq T
  <2> HIDE DEF T
  <2> QED BY <1>2, <1>4, <1>5, PrefixInduction
<1>7. ASSUME NEW i \in 1..Len(s) PROVE q[i] \in Seq(S)
  <2>1. i \in 0..Len(s) /\ i # 0
    BY <1>2
  <2>2. i \in T
    <3> HIDE DEF T
    <3> QED BY <2>1, <1>6
  <2> QED BY <2>1, <2>2
<1> QED BY <1>1, <1>3, <1>7

(* Laying end to end a vector with one more element.                        *)
LEMMA FlattenAppend ==
  ASSUME NEW S, NEW s \in Seq(Seq(S)), NEW e \in Seq(S)
  PROVE  /\ FlattenSeq(s) \in Seq(S)
         /\ FlattenSeq(Append(s, e)) = FlattenSeq(s) \o e
<1> DEFINE t == Append(s, e)
           N == Len(s)
<1>1. /\ t \in Seq(Seq(S)) /\ Len(t) = N + 1 /\ N \in Nat
      /\ \A k \in 1..N : t[k] = s[k]
      /\ t[N + 1] = e /\ t # <<>>
  <2>1. /\ t \in Seq(Seq(S)) /\ Len(t) = N + 1 /\ N \in Nat
        /\ \A k \in 1..N : t[k] = s[k]
        /\ t[N + 1] = e
    BY AppendProperties, LenProperties
  <2> HIDE DEF t
  <2> QED BY <2>1, EmptySeq
<1> HIDE DEF t
<1>2. PICK q : Flattens(t, q) /\ FlattenSeq(t) = q[N + 1] /\ \A k \in 1..(N + 1) : q[k] \in Seq(S)
  BY <1>1, FlattenLast
<1>3. CASE s = <<>>
  <2>1. N = 0
    BY <1>3
  <2>2. FlattenSeq(s) = <<>> /\ <<>> \in Seq(S)
    BY <1>3, <2>1 DEF FlattenSeq
  <2>3. q[N + 1] = e
    <3>1. N + 1 = 1 /\ N + 1 \in 1..Len(t)
      BY <1>1, <2>1
    <3>2. q[N + 1] = t[N + 1]
      BY <1>2, <3>1 DEF Flattens
    <3> QED BY <1>1, <3>2
  <2>4. <<>> \o e = e
    BY ConcatEmptySeq
  <2> QED BY <1>2, <2>1, <2>2, <2>3, <2>4 DEF t
<1>4. CASE s # <<>>
  <2>1. PICK p : Flattens(s, p) /\ FlattenSeq(s) = p[N] /\ \A k \in 1..N : p[k] \in Seq(S)
    BY <1>4, FlattenLast
  <2>2. N # 0
    BY <1>4, EmptySeq
  <2> DEFINE T == {m \in 0..N : m # 0 => q[m] = p[m]}
  <2>3. 0 \in T
    BY <1>1
  <2>4. ASSUME NEW m \in 1..N, m - 1 \in T PROVE m \in T
    <3>1. m \in 1..Len(t) /\ m \in 1..Len(s) /\ t[m] = s[m] /\ m - 1 \in 0..N
      BY <1>1
    <3>2. q[m] = IF m = 1 THEN t[m] ELSE q[m - 1] \o t[m]
      BY <3>1, <1>2 DEF Flattens
    <3>3. p[m] = IF m = 1 THEN s[m] ELSE p[m - 1] \o s[m]
      BY <3>1, <2>1 DEF Flattens
    <3>4. m # 1 => q[m - 1] = p[m - 1]
      BY <2>4, <3>1
    <3> QED BY <3>1, <3>2, <3>3, <3>4
  <2>5. q[N] = p[N]
    <3>1. 0..N \subseteq T
      <4> HIDE DEF T
      <4> QED BY <1>1, <2>3, <2>4, PrefixInduction
    <3> QED BY <1>1, <2>2, <3>1, SMTT(20)
  <2>6. q[N + 1] = q[N] \o e
    <3>1. N + 1 \in 1..Len(t) /\ N + 1 # 1 /\ (N + 1) - 1 = N
      BY <1>1, <2>2
    <3>2. q[N + 1] = q[(N + 1) - 1] \o t[N + 1]
      BY <1>2, <3>1 DEF Flattens
    <3> QED BY <1>1, <3>1, <3>2
  <2>7. p[N] \in Seq(S)
    BY <1>1, <2>1, <2>2
  <2> QED BY <1>2, <2>1, <2>5, <2>6, <2>7 DEF t
<1> QED BY <1>3, <1>4

(* Two vectors without repetitions and without a common element have none   *)
(* together.                                                                *)
LEMMA ConcatInjective ==
  ASSUME NEW S, NEW s \in Seq(S), NEW t \in Seq(S), IsInjective(s), IsInjective(t),
         ToSet(s) \cap ToSet(t) = {}
  PROVE  IsInjective(s \o t)
<1> DEFINE u == s \o t
<1>1. /\ Len(s) \in Nat /\ DOMAIN s = 1..Len(s)
      /\ Len(t) \in Nat /\ DOMAIN t = 1..Len(t)
  BY LenProperties
<1>2. /\ u \in Seq(S) /\ Len(u) = Len(s) + Len(t)
      /\ \A i \in 1..(Len(s) + Len(t)) : u[i] = IF i <= Len(s) THEN s[i] ELSE t[i - Len(s)]
  BY ConcatProperties
<1>3. DOMAIN u = 1..(Len(s) + Len(t))
  BY <1>2, LenProperties
<1> HIDE DEF u
<1>4. ASSUME NEW a \in DOMAIN u, a <= Len(s)
      PROVE  a \in DOMAIN s /\ u[a] = s[a] /\ u[a] \in ToSet(s)
  <2>1. a \in DOMAIN s /\ u[a] = s[a]
    BY <1>1, <1>2, <1>3, <1>4
  <2> QED BY <2>1 DEF ToSet
<1>5. ASSUME NEW a \in DOMAIN u, ~(a <= Len(s))
      PROVE  a - Len(s) \in DOMAIN t /\ u[a] = t[a - Len(s)] /\ u[a] \in ToSet(t)
  <2>1. a - Len(s) \in DOMAIN t
    BY <1>1, <1>3, <1>5
  <2>2. u[a] = t[a - Len(s)]
    BY <1>2, <1>3, <1>5
  <2> QED BY <2>1, <2>2 DEF ToSet
<1>6. ASSUME NEW a \in DOMAIN u, NEW b \in DOMAIN u, u[a] = u[b]
      PROVE  a = b
  <2>1. CASE a <= Len(s) /\ b <= Len(s)
    BY <1>4, <1>6, <2>1 DEF IsInjective
  <2>2. CASE ~(a <= Len(s)) /\ ~(b <= Len(s))
    <3>1. a - Len(s) = b - Len(s)
      BY <1>5, <1>6, <2>2 DEF IsInjective
    <3> QED BY <1>1, <1>3, <3>1
  <2>3. CASE ~((a <= Len(s)) <=> (b <= Len(s)))
    BY <1>4, <1>5, <1>6, <2>3
  <2> QED BY <2>1, <2>2, <2>3
<1> QED BY <1>6 DEF IsInjective, u

(* Vectors of vectors.                                                      *)
SeqOfSeq(S) == Seq(Seq(S))

(* Laying end to end one more vector of vectors, an element at a time.      *)
LEMMA FlattenConcatAppend ==
  ASSUME NEW S, NEW ls \in SeqOfSeq(S), NEW a \in SeqOfSeq(S), NEW e \in Seq(S)
  PROVE  FlattenSeq(ls \o Append(a, e)) = FlattenSeq(ls \o a) \o e
<1> USE DEF SeqOfSeq
<1>1. /\ ls \o a \in Seq(Seq(S)) /\ Append(ls \o a, e) = (ls \o a) \o <<e>>
      /\ Append(a, e) = a \o <<e>>
  BY ConcatProperties, AppendIsConcat
<1>2. <<e>> \in Seq(Seq(S))
  OBVIOUS
<1>3. (ls \o a) \o <<e>> = ls \o (a \o <<e>>)
  BY <1>2, ConcatAssociative
<1>4. FlattenSeq(Append(ls \o a, e)) = FlattenSeq(ls \o a) \o e
  BY <1>1, FlattenAppend
<1> QED BY <1>1, <1>3, <1>4

------------------------------------------------------------------------------
(* A run of a loop over 1..n that starts with v: step i turns the value by  *)
(* G[i].                                                                    *)
IsRun(r, n, v, G) == r[0] = v /\ \A i \in 1..n : r[i] = G[i][r[i - 1]]
FollowsIn(V, q, n, v, G) ==
    q[0] = v /\ \A i \in 1..n : q[i - 1] \in V => q[i] = G[i][q[i - 1]]
StaysIn(V, q, n) == \A i \in 0..n : q[i] \in V
LoopBodies(n, V) == [1..n -> [V -> V]]

(* A loop over 1..n that carries a value of V: it has a run.                *)
LEMMA IterationExists ==
  ASSUME NEW n \in Nat, NEW V, NEW v \in V, NEW G \in LoopBodies(n, V)
  PROVE  \E r \in [0..n -> V] : IsRun(r, n, v, G)
<1> USE DEF IsRun, LoopBodies
<1> DEFINE Runs(r, m) == r[0] = v /\ \A i \in 1..m : r[i] = G[i][r[i - 1]]
           T == {m \in 0..n : \E r \in [0..m -> V] : Runs(r, m)}
<1>1. 0 \in T
  <2> DEFINE r == [i \in 0..0 |-> v]
  <2>1. r \in [0..0 -> V] /\ r[0] = v /\ 1..0 = {}
    OBVIOUS
  <2>2. \E q \in [0..0 -> V] : Runs(q, 0)
    <3> HIDE DEF r
    <3> QED BY <2>1
  <2> QED BY <2>2
<1>2. ASSUME NEW m \in 1..n, m - 1 \in T PROVE m \in T
  <2>1. PICK q \in [0..(m - 1) -> V] : Runs(q, m - 1)
    BY <1>2
  <2>2. m \in Nat /\ m # 0 /\ m - 1 \in 0..(m - 1) /\ 0 \in 0..(m - 1) /\ m \in 0..n
    OBVIOUS
  <2>3. G[m] \in [V -> V] /\ q[m - 1] \in V
    BY <2>2
  <2> DEFINE e == G[m][q[m - 1]]
             r == [i \in 0..m |-> IF i = m THEN e ELSE q[i]]
  <2>4. e \in V
    BY <2>3
  <2> HIDE DEF e
  <2>5. ASSUME NEW i \in 0..m, i # m PROVE i \in 0..(m - 1)
    BY <2>2, <2>5
  <2>6. r \in [0..m -> V]
    <3>1. \A i \in 0..m : i # m => q[i] \in V
      BY <2>5
    <3> QED BY <2>4, <3>1
  <2>7. r[0] = v
    BY <2>1, <2>2
  <2>8. ASSUME NEW i \in 1..m PROVE r[i] = G[i][r[i - 1]]
    <3>1. i \in 0..m /\ i - 1 \in 0..m /\ i - 1 # m
      BY <2>2
    <3>2. r[i - 1] = q[i - 1]
      BY <3>1
    <3>3. CASE i = m
      <4>1. r[i] = e
        BY <3>1, <3>3
      <4> QED BY <3>2, <3>3, <4>1 DEF e
    <3>4. CASE i # m
      <4>1. r[i] = q[i] /\ i \in 1..(m - 1)
        BY <3>1, <3>4, <2>2
      <4> QED BY <2>1, <3>2, <4>1
    <3> QED BY <3>3, <3>4
  <2>9. \E w \in [0..m -> V] : Runs(w, m)
    <3> HIDE DEF r
    <3> QED BY <2>6, <2>7, <2>8
  <2> QED BY <2>2, <2>9
<1>3. 0..n \subseteq T
  <2> HIDE DEF T
  <2> QED BY <1>1, <1>2, PrefixInduction
<1> HIDE DEF T
<1>4. n \in T
  BY <1>3
<1> QED BY <1>4 DEF T

(* What follows the loop as long as it is in V is a run, and stays in V.    *)
LEMMA IterationStays ==
  ASSUME NEW n \in Nat, NEW V, NEW v \in V, NEW G \in LoopBodies(n, V),
         NEW q, FollowsIn(V, q, n, v, G)
  PROVE  IsRun(q, n, v, G) /\ StaysIn(V, q, n)
<1> USE DEF IsRun, FollowsIn, StaysIn, LoopBodies
<1> DEFINE T == {i \in 0..n : q[i] \in V}
<1>1. 0 \in T
  OBVIOUS
<1>2. ASSUME NEW m \in 1..n, m - 1 \in T PROVE m \in T
  <2>1. m \in 0..n
    OBVIOUS
  <2>2. q[m] = G[m][q[m - 1]] /\ q[m - 1] \in V /\ G[m] \in [V -> V]
    BY <1>2
  <2> QED BY <2>1, <2>2
<1>3. 0..n \subseteq T
  <2> HIDE DEF T
  <2> QED BY <1>1, <1>2, PrefixInduction
<1>4. \A i \in 0..n : q[i] \in V
  BY <1>3
<1>5. \A i \in 1..n : i - 1 \in 0..n
  OBVIOUS
<1> QED BY <1>4, <1>5

(* Induction over vectors by push_back, as a statement about a set.         *)
LEMMA AppendInduction ==
  ASSUME NEW S, NEW T, <<>> \in T,
         \A w \in Seq(S), e \in S : w \in T => Append(w, e) \in T
  PROVE  Seq(S) \subseteq T
<1> SUFFICES ASSUME NEW w \in Seq(S) PROVE w \in T
  OBVIOUS
<1> DEFINE N == Len(w)
           U == {m \in 0..N : SubSeq(w, 1, m) \in T}
<1>1. N \in Nat /\ \A i \in 1..N : w[i] \in S
  BY LenProperties, ElementOfSeq
<1>2. 0 \in U
  <2>1. SubSeq(w, 1, 0) = <<>>
    BY SubSeqEmpty
  <2>2. 0 \in 0..N /\ SubSeq(w, 1, 0) \in T
    <3> HIDE DEF N
    <3>1. 0 \in 0..N
      BY <1>1
    <3> QED BY <2>1, <3>1, Zenon
  <2> QED BY <2>2
<1>3. ASSUME NEW m \in 1..N, m - 1 \in U PROVE m \in U
  <2>1. /\ \A i \in 1..(m - 1) : w[i] \in S
        /\ 1 \in Int /\ m - 1 \in Int /\ m \in 1..Len(w) /\ 1 \in 1..Len(w) /\ m \in 0..N
    BY <1>1
  <2>2. SubSeq(w, 1, m - 1) \in Seq(S) /\ w[m] \in S
    BY <1>1, <2>1, SubSeqProperties
  <2>3. SubSeq(w, 1, m) = SubSeq(w, 1, m - 1) \o <<w[m]>>
    BY <2>1, SubSeqRecursiveSecond
  <2>4. Append(SubSeq(w, 1, m - 1), w[m]) = SubSeq(w, 1, m - 1) \o <<w[m]>>
    BY <2>2, AppendIsConcat
  <2>5. SubSeq(w, 1, m - 1) \in T
    BY <1>3
  <2>6. SubSeq(w, 1, m) \in T
    <3> DEFINE u == SubSeq(w, 1, m - 1)
    <3> HIDE DEF u
    <3>1. Append(u, w[m]) \in T
      BY <2>2, <2>5 DEF u
    <3> QED BY <2>3, <2>4, <3>1 DEF u
  <2> QED BY <2>1, <2>6
<1>4. N \in U
  <2> HIDE DEF U, N
  <2>1. 0..N \subseteq U
    BY <1>1, <1>2, <1>3, PrefixInduction
  <2> QED BY <1>1, <2>1
<1>5. SubSeq(w, 1, N) = w
  BY SubSeqFull
<1> QED BY <1>4, <1>5
==============================================================================
