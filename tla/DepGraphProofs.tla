---------------------------- MODULE DepGraphProofs ----------------------------
(***************************************************************************)
(* Theorems about the graph of module DepGraph, for every compilation       *)
(* database and all finite trees of cursors.                                *)
(***************************************************************************)
EXTENDS DepGraph, SequenceLemmas, FiniteSetTheorems

------------------------------------------------------------------------------
(* The cursors below a root.                                                *)

Children(S) == UNION {ToSet(Cursor(x).children) : x \in S}
WithChildren(S) == S \cup Children(S)
IsClosed(S) == Children(S) \subseteq S

(* The loop that computes Below.                                            *)
Levels(root, N, r) ==
    r = [n \in 0..N |-> IF n = 0 THEN {root} ELSE r[n - 1] \cup Children(r[n - 1])]

(* By induction, the loop has a result after every number of turns.         *)
LEMMA LevelsExist ==
  ASSUME NEW root, NEW N \in Nat
  PROVE  \E r : Levels(root, N, r)
<1> DEFINE Body(r, n) == IF n = 0 THEN {root} ELSE r[n - 1] \cup Children(r[n - 1])
           T == {m \in 0..N : \E r : r = [n \in 0..m |-> Body(r, n)]}
<1>1. 0 \in T
  <2> DEFINE q == [n \in 0..0 |-> {root}]
  <2>1. \A n \in 0..0 : Body(q, n) = {root}
    OBVIOUS
  <2>2. q = [n \in 0..0 |-> Body(q, n)]
    <3> HIDE DEF Body
    <3> QED BY <2>1
  <2> HIDE DEF q, Body
  <2> QED BY <2>2
<1>2. ASSUME NEW m \in 1..N, m - 1 \in T PROVE m \in T
  <2>1. PICK r : r = [n \in 0..(m - 1) |-> Body(r, n)]
    BY <1>2
  <2> DEFINE q == [n \in 0..m |-> IF n = m THEN Body(r, m) ELSE r[n]]
  <2>2. ASSUME NEW n \in 0..m PROVE q[n] = Body(q, n)
    <3>1. CASE n = 0
      <4>1. 0 \in 0..(m - 1) /\ 0 # m
        OBVIOUS
      <4>2. r[0] = {root}
        BY <2>1, <4>1
      <4> QED BY <3>1, <4>1, <4>2
    <3>2. CASE n # 0
      <4>1. n - 1 \in 0..(m - 1) /\ n - 1 # m /\ n - 1 \in 0..m
        BY <3>2
      <4>2. q[n - 1] = r[n - 1]
        BY <4>1
      <4>3. Body(q, n) = Body(r, n)
        BY <3>2, <4>2
      <4>4. n # m => n \in 0..(m - 1)
        OBVIOUS
      <4>5. n # m => r[n] = Body(r, n)
        <5> HIDE DEF Body
        <5> QED BY <2>1, <4>4
      <4>6. q[n] = Body(r, n)
        <5> HIDE DEF Body
        <5> QED BY <4>5
      <4> QED BY <4>3, <4>6
    <3> QED BY <3>1, <3>2
  <2>3. q = [n \in 0..m |-> Body(q, n)]
    <3>1. q = [n \in 0..m |-> q[n]]
      OBVIOUS
    <3> HIDE DEF q, Body
    <3> QED BY <2>2, <3>1
  <2> HIDE DEF q, Body
  <2> QED BY <2>3
<1>3. N \in T
  <2> HIDE DEF T
  <2>1. 0..N \subseteq T
    BY <1>1, <1>2, PrefixInduction
  <2> QED BY <2>1
<1> QED BY <1>3 DEF Levels

(* Below is the last of those results.                                      *)
LEMMA BelowLevels ==
  ASSUME NEW file
  PROVE  \E r : /\ Levels(compdb.root[file], Cardinality(Cursors), r)
                /\ Below(file) = r[Cardinality(Cursors)]
<1> DEFINE N == Cardinality(Cursors)
           q == CHOOSE r : Levels(compdb.root[file], N, r)
<1>1. N \in Nat
  BY CursorsAssumption, FS_CardinalityType
<1>2. Levels(compdb.root[file], N, q)
  <2> DEFINE root == compdb.root[file]
  <2>1. \E r : Levels(root, N, r)
    <3> HIDE DEF root, N
    <3> QED BY <1>1, LevelsExist
  <2> QED BY <2>1
<1>3. Below(file) = q[N]
  BY DEF Below, Levels, Children
<1> HIDE DEF q
<1> QED BY <1>2, <1>3

(* A database as parsed.                                                    *)
LEMMA CursorType ==
  ASSUME IsCompdb(compdb), NEW x \in Cursors
  PROVE  Cursor(x).children \in Seq(Cursors) /\ ToSet(Cursor(x).children) \subseteq Cursors
<1>1. Cursor(x).children \in Seq(Cursors)
  BY DEF IsCompdb, IsCursor, Cursor
<1> QED BY <1>1, ElementType DEF ToSet

(* Every file has a root, all below it are cursors, and every child of one  *)
(* below is below: as many turns as there are cursors reach all of them,    *)
(* since each turn but the last ones adds a cursor.                         *)
LEMMA BelowIsClosed ==
  ASSUME IsCompdb(compdb), NEW file \in Files
  PROVE  /\ compdb.root[file] \in Below(file)
         /\ Below(file) \subseteq Cursors
         /\ IsClosed(Below(file))
<1> DEFINE N == Cardinality(Cursors)
           root == compdb.root[file]
<1>1. N \in Nat /\ root \in Cursors
  BY CursorsAssumption, FS_CardinalityType DEF IsCompdb
<1>2. PICK r : Levels(root, N, r) /\ Below(file) = r[N]
  BY BelowLevels
<1> HIDE DEF N, root
<1>3. r[0] = {root}
  BY <1>1, <1>2 DEF Levels
<1>4. \A n \in 1..N : r[n] = WithChildren(r[n - 1])
  <2>1. ASSUME NEW n \in 1..N PROVE r[n] = WithChildren(r[n - 1])
    <3>1. n \in 0..N /\ n # 0
      BY <1>1
    <3> HIDE DEF Children
    <3> QED BY <1>2, <3>1 DEF Levels, WithChildren
  <2> QED BY <2>1
<1>5. \A S : S \subseteq Cursors => WithChildren(S) \subseteq Cursors
  BY CursorType DEF WithChildren, Children
<1>6. \A n \in 0..N : r[n] \subseteq Cursors /\ root \in r[n]
  <2> DEFINE T == {n \in 0..N : r[n] \subseteq Cursors /\ root \in r[n]}
  <2>1. 0 \in T
    BY <1>1, <1>3
  <2>2. ASSUME NEW n \in 1..N, n - 1 \in T PROVE n \in T
    <3>1. r[n] = WithChildren(r[n - 1]) /\ r[n - 1] \subseteq Cursors /\ root \in r[n - 1]
      BY <1>4, <2>2
    <3>2. r[n] \subseteq Cursors
      BY <1>5, <3>1
    <3>3. root \in r[n]
      BY <3>1 DEF WithChildren
    <3> QED BY <1>1, <3>2, <3>3
  <2>3. 0..N \subseteq T
    <3> HIDE DEF T
    <3> QED BY <1>1, <2>1, <2>2, PrefixInduction
  <2> QED BY <2>3
<1>7. ASSUME NEW n \in 0..N, IsClosed(r[n]) PROVE r[N] = r[n]
  <2> DEFINE T == {m \in 0..N : m >= n => r[m] = r[n]}
  <2>1. 0 \in T
    BY <1>1
  <2>2. ASSUME NEW m \in 1..N, m - 1 \in T PROVE m \in T
    <3>1. r[m] = WithChildren(r[m - 1])
      BY <1>4
    <3>2. CASE m - 1 >= n
      <4>1. r[m - 1] = r[n]
        BY <2>2, <3>2
      <4>2. r[m] = r[n]
        BY <1>7, <3>1, <4>1 DEF WithChildren, IsClosed
      <4> QED BY <1>1, <4>2
    <3>3. CASE ~(m - 1 >= n)
      <4>1. m >= n => m = n
        BY <1>1, <3>3
      <4> QED BY <1>1, <4>1
    <3> QED BY <3>2, <3>3
  <2>3. 0..N \subseteq T
    <3> HIDE DEF T
    <3> QED BY <1>1, <2>1, <2>2, PrefixInduction
  <2> QED BY <1>1, <2>3
<1>8. IsClosed(r[N])
  <2> SUFFICES ASSUME ~IsClosed(r[N]) PROVE FALSE
    OBVIOUS
  <2>1. \A n \in 0..N : ~IsClosed(r[n])
    BY <1>7
  <2> DEFINE T == {n \in 0..N : n + 1 <= Cardinality(r[n])}
  <2>2. 0 \in T
    <3>1. Cardinality({root}) = 1
      BY FS_Singleton
    <3>2. Cardinality(r[0]) = 1
      BY <1>3, <3>1
    <3> QED BY <1>1, <3>2
  <2>3. ASSUME NEW n \in 1..N, n - 1 \in T PROVE n \in T
    <3>1. n - 1 \in 0..N /\ n \in 0..N
      BY <1>1
    <3>2. r[n] = WithChildren(r[n - 1]) /\ ~IsClosed(r[n - 1]) /\ r[n] \subseteq Cursors
      BY <1>4, <1>6, <2>1, <3>1
    <3>3. r[n - 1] \subseteq r[n] /\ r[n - 1] # r[n]
      BY <3>2 DEF WithChildren, IsClosed
    <3> DEFINE small == r[n - 1]
               large == r[n]
    <3>4. IsFiniteSet(large) /\ IsFiniteSet(small)
      BY <3>2, <3>3, CursorsAssumption, FS_Subset
    <3>5. Cardinality(small) <= Cardinality(large) /\ Cardinality(small) # Cardinality(large)
      <4> HIDE DEF small, large
      <4>1. small \in SUBSET large /\ small # large
        BY <3>3 DEF small, large
      <4> QED BY <3>4, <4>1, FS_Subset
    <3>6. Cardinality(small) \in Nat /\ Cardinality(large) \in Nat
      <4> HIDE DEF small, large
      <4> QED BY <3>4, FS_CardinalityType
    <3>7. n <= Cardinality(small)
      <4>1. (n - 1) + 1 <= Cardinality(small)
        BY <2>3
      <4> HIDE DEF small
      <4> QED BY <1>1, <4>1
    <3> HIDE DEF small, large
    <3>8. n + 1 <= Cardinality(large)
      BY <1>1, <3>5, <3>6, <3>7
    <3> QED BY <3>1, <3>8 DEF large
  <2>4. 0..N \subseteq T
    <3> HIDE DEF T
    <3> QED BY <1>1, <2>2, <2>3, PrefixInduction
  <2>5. N + 1 <= Cardinality(r[N])
    BY <1>1, <2>4
  <2>6. Cardinality(r[N]) <= N /\ Cardinality(r[N]) \in Nat
    <3> DEFINE last == r[N]
    <3>1. last \in SUBSET Cursors
      BY <1>1, <1>6
    <3> HIDE DEF last
    <3>2. IsFiniteSet(last) /\ Cardinality(last) <= Cardinality(Cursors)
      BY <3>1, CursorsAssumption, FS_Subset
    <3>3. Cardinality(last) \in Nat
      BY <3>2, FS_CardinalityType
    <3> QED BY <3>2, <3>3 DEF last, N
  <2> DEFINE size == Cardinality(r[N])
  <2> HIDE DEF size
  <2> QED BY <1>1, <2>5, <2>6
<1>9. N \in 0..N
  BY <1>1
<1> QED BY <1>2, <1>6, <1>8, <1>9 DEF root

(* A closed set that holds the root holds all cursors below it.             *)
LEMMA BelowIsLeast ==
  ASSUME NEW file, NEW S, compdb.root[file] \in S, IsClosed(S)
  PROVE  Below(file) \subseteq S
<1> DEFINE N == Cardinality(Cursors)
           root == compdb.root[file]
<1>1. N \in Nat
  BY CursorsAssumption, FS_CardinalityType
<1>2. PICK r : Levels(root, N, r) /\ Below(file) = r[N]
  BY BelowLevels
<1> HIDE DEF N
<1> DEFINE T == {n \in 0..N : r[n] \subseteq S}
<1>3. 0 \in T
  BY <1>1, <1>2 DEF Levels
<1>4. ASSUME NEW n \in 1..N, n - 1 \in T PROVE n \in T
  <2>1. r[n] = r[n - 1] \cup Children(r[n - 1])
    <3>1. n \in 0..N /\ n # 0
      BY <1>1
    <3> HIDE DEF Children
    <3> QED BY <1>2, <3>1 DEF Levels
  <2>2. Children(r[n - 1]) \subseteq S
    BY <1>4 DEF IsClosed, Children
  <2> QED BY <1>1, <1>4, <2>1, <2>2
<1>5. 0..N \subseteq T
  <2> HIDE DEF T
  <2> QED BY <1>1, <1>3, <1>4, PrefixInduction
<1> QED BY <1>1, <1>2, <1>5

------------------------------------------------------------------------------
(* The walk.                                                                *)

Reachable == UNION {Below(file) : file \in Parsed}

NodesOf(S) == UNION {{Cursor(x).displayname} \cup BaseNames(x) : x \in {y \in S : Processed(y)}}
EdgesOf(S) == UNION {{Cursor(x).displayname} \X BaseNames(x) : x \in {y \in S : Processed(y)}}

(* Cursors are taken from the front of `pending`; those in V have been.     *)
(* Whatever is below a root already taken up is in V or still to come.      *)
Walked(V) ==
    /\ V \cup ToSet(pending) \subseteq Reachable
    /\ \A k \in 1..c : compdb.root[compdb.commands[k].filename] \in V \cup ToSet(pending)
    /\ Children(V) \subseteq V \cup ToSet(pending)
    /\ nodes = NodesOf(V) /\ edges = EdgesOf(V)
    /\ \A x \in V : Processed(x) => None \notin BaseNames(x)

TypeInv ==
    /\ IsCompdb(compdb)
    /\ c \in 0..Len(compdb.commands)
    /\ pending \in Seq(Cursors)
    /\ status \in {"running", "written", "raised"}

(* The commands taken up have nothing wrong with them.                      *)
Sound(k) ==
    /\ compdb.commands[k].named
    /\ compdb.commands[k].filename \in compdb.resolved \cap compdb.parses

(* Only something that dooms the graph has ended it.                        *)
WalkInv ==
    /\ \A k \in 1..c : Sound(k)
    /\ status = "written" =>
         /\ pending = <<>> /\ c = Len(compdb.commands)
         /\ compdb.commands # <<>> /\ compdb.writable
    /\ IF status = "raised" THEN Doomed ELSE \E V \in SUBSET Cursors : Walked(V)

(* The database is a list of commands.                                      *)
LEMMA CompdbType ==
  ASSUME IsCompdb(compdb)
  PROVE  /\ Len(compdb.commands) \in Nat /\ DOMAIN compdb.commands = 1..Len(compdb.commands)
         /\ \A k \in 1..Len(compdb.commands) :
              compdb.commands[k].filename \in Parsed /\ compdb.commands[k].filename \in Files
         /\ Parsed \subseteq Files
<1>1. compdb.commands \in Seq([filename : Files, named : BOOLEAN])
  BY DEF IsCompdb
<1>2. Len(compdb.commands) \in Nat /\ DOMAIN compdb.commands = 1..Len(compdb.commands)
  BY <1>1, LenProperties
<1>3. \A k \in 1..Len(compdb.commands) : compdb.commands[k].filename \in Files
  <2>1. \A k \in 1..Len(compdb.commands) :
          compdb.commands[k] \in [filename : Files, named : BOOLEAN]
    BY <1>1, ElementOfSeq
  <2> QED BY <2>1
<1> QED BY <1>2, <1>3 DEF Parsed

(* Below does not change, as the database does not.                         *)
LEMMA SameDatabase ==
  ASSUME compdb' = compdb
  PROVE  /\ Reachable' = Reachable /\ Doomed' = Doomed /\ IsCompdb(compdb)' = IsCompdb(compdb)
         /\ \A S : /\ Children(S)' = Children(S)
                   /\ NodesOf(S)' = NodesOf(S) /\ EdgesOf(S)' = EdgesOf(S)
         /\ \A y : Processed(y)' = Processed(y) /\ BaseNames(y)' = BaseNames(y)
         /\ \A k : Sound(k)' = Sound(k)
<1>1. Reachable' = Reachable
  BY DEF Reachable, Below, Parsed, Cursor
<1>2. Doomed' = Doomed
  BY DEF Doomed, Classes, Below, Parsed, Cursor, Processed, shouldSkipDecl, BaseNames, Bases, BaseName
<1>3. IsCompdb(compdb)' = IsCompdb(compdb)
  BY DEF IsCompdb, IsCursor
<1>4. \A S : Children(S)' = Children(S)
  BY DEF Children, Cursor
<1>5. \A S : NodesOf(S)' = NodesOf(S)
  BY DEF NodesOf, Cursor, Processed, shouldSkipDecl, BaseNames, Bases, BaseName
<1>6. \A S : EdgesOf(S)' = EdgesOf(S)
  BY DEF EdgesOf, Cursor, Processed, shouldSkipDecl, BaseNames, Bases, BaseName
<1>7. \A y : Processed(y)' = Processed(y) /\ BaseNames(y)' = BaseNames(y)
  BY DEF Cursor, Processed, shouldSkipDecl, BaseNames, Bases, BaseName
<1>8. \A k : Sound(k)' = Sound(k)
  BY DEF Sound
<1> QED BY <1>1, <1>2, <1>3, <1>4, <1>5, <1>6, <1>7, <1>8

(* The cursor in front, taken off, has its children put there instead.      *)
LEMMA PopAndDescend ==
  ASSUME TypeInv, pending # <<>>
  PROVE  /\ X \in Cursors /\ X \in ToSet(pending)
         /\ Cursor(X).children \o Tail(pending) \in Seq(Cursors)
         /\ ToSet(pending) = {X} \cup ToSet(Tail(pending))
         /\ ToSet(Cursor(X).children \o Tail(pending))
              = ToSet(Cursor(X).children) \cup ToSet(Tail(pending))
<1> DEFINE t == Tail(pending)
           N == Len(pending)
<1>1. pending \in Seq(Cursors) /\ IsCompdb(compdb)
  BY DEF TypeInv
<1>2. N \in Nat \ {0} /\ DOMAIN pending = 1..N
  BY <1>1, EmptySeq, LenProperties
<1>3. X \in Cursors /\ t \in Seq(Cursors) /\ Len(t) = N - 1 /\ \A i \in 1..Len(t) : t[i] = pending[i + 1]
  BY <1>1, HeadTailProperties DEF X
<1>4. X = pending[1]
  BY <1>1, HeadTailProperties DEF X
<1> HIDE DEF t, N
<1>5. DOMAIN t = 1..(N - 1)
  BY <1>3, LenProperties
<1>6. ToSet(pending) = {X} \cup ToSet(t)
  <2>1. 1..N = {1} \cup {i + 1 : i \in 1..(N - 1)}
    <3>1. ASSUME NEW i \in 1..N, i # 1 PROVE i - 1 \in 1..(N - 1) /\ i = (i - 1) + 1
      BY <1>2, <3>1
    <3>2. \A i \in 1..(N - 1) : i + 1 \in 1..N
      BY <1>2
    <3>3. 1 \in 1..N
      BY <1>2
    <3> QED BY <3>1, <3>2, <3>3
  <2>2. \A i \in 1..(N - 1) : t[i] = pending[i + 1]
    BY <1>3
  <2>3. ASSUME NEW i \in 1..N PROVE pending[i] \in {X} \cup ToSet(t)
    <3>1. CASE i = 1
      BY <1>4, <3>1
    <3>2. CASE i # 1
      <4>1. PICK j \in 1..(N - 1) : i = j + 1
        BY <2>1, <3>2
      <4> QED BY <1>5, <2>2, <4>1 DEF ToSet
    <3> QED BY <3>1, <3>2
  <2>4. ASSUME NEW e \in {X} \cup ToSet(t) PROVE e \in ToSet(pending)
    <3>1. 1 \in 1..N
      BY <1>2
    <3>2. CASE e = X
      BY <1>2, <1>4, <3>1, <3>2 DEF ToSet
    <3>3. CASE e \in ToSet(t)
      <4>1. PICK j \in 1..(N - 1) : e = t[j]
        BY <1>5, <3>3 DEF ToSet
      <4>2. j + 1 \in 1..N /\ e = pending[j + 1]
        BY <2>1, <2>2, <4>1
      <4> QED BY <1>2, <4>2 DEF ToSet
    <3> QED BY <3>2, <3>3
  <2>5. ToSet(pending) \subseteq {X} \cup ToSet(t)
    <3>1. \A e \in ToSet(pending) : \E i \in 1..N : e = pending[i]
      BY <1>2 DEF ToSet
    <3> QED BY <2>3, <3>1
  <2> QED BY <2>4, <2>5
<1>7. Cursor(X).children \in Seq(Cursors)
  BY <1>1, <1>3, CursorType
<1> DEFINE s == Cursor(X).children
<1> HIDE DEF s
<1>8. s \o t \in Seq(Cursors) /\ ToSet(s \o t) = ToSet(s) \cup ToSet(t)
  <2>1. s \in Seq(Cursors)
    BY <1>7 DEF s
  <2> QED BY <1>3, <2>1, ConcatContents
<1>9. X \in ToSet(pending)
  BY <1>6
<1> QED BY <1>3, <1>6, <1>8, <1>9 DEF s, t

(* The state stays well formed.                                             *)
LEMMA TypeStep ==
  ASSUME TypeInv, [Next]_vars
  PROVE  TypeInv'
<1>0. Len(compdb.commands) \in Nat
  BY CompdbType DEF TypeInv
<1>1. CASE ParseFile
  <2>1. c + 1 \in 1..Len(compdb.commands) /\ c' = c + 1 /\ compdb' = compdb /\ status' = status
    BY <1>0, <1>1 DEF ParseFile, Taking, TypeInv
  <2>2. compdb.root[compdb.commands[c + 1].filename] \in Cursors
    BY <2>1, CompdbType DEF TypeInv, IsCompdb
  <2>3. pending' \in Seq(Cursors)
    BY <1>1, <2>2 DEF ParseFile, File
  <2>4. IsCompdb(compdb)' /\ c' \in 0..Len(compdb.commands)
    BY <1>0, <2>1, SameDatabase DEF TypeInv
  <2> QED BY <2>1, <2>3, <2>4 DEF TypeInv
<1>2. CASE PassBy \/ processClass
  <2>1. pending # <<>> /\ pending' = Cursor(X).children \o Tail(pending)
        /\ UNCHANGED <<compdb, c, status>>
    BY <1>2 DEF PassBy, processClass, Visiting, graph
  <2>2. pending' \in Seq(Cursors)
    BY <2>1, PopAndDescend
  <2> QED BY <2>1, <2>2, SameDatabase DEF TypeInv
<1>3. CASE FailToList \/ FailToArgue \/ FailToParse \/ FailOnBase \/ writeDot \/ UNCHANGED vars
  <2>1. UNCHANGED <<compdb, c, pending>> /\ (status' = status \/ status' \in {"raised", "written"})
    BY <1>3 DEF FailToList, FailToArgue, FailToParse, FailOnBase, writeDot, vars
  <2> QED BY <2>1, SameDatabase DEF TypeInv
<1> QED BY <1>1, <1>2, <1>3 DEF Next

(* A cursor that is reachable has reachable children, a root is reachable.  *)
LEMMA ReachableIsClosed ==
  ASSUME IsCompdb(compdb)
  PROVE  /\ IsClosed(Reachable) /\ Reachable \subseteq Cursors
         /\ \A k \in 1..Len(compdb.commands) :
              compdb.root[compdb.commands[k].filename] \in Reachable
<1>1. \A file \in Parsed : /\ compdb.root[file] \in Below(file)
                           /\ Below(file) \subseteq Cursors
                           /\ IsClosed(Below(file))
  BY BelowIsClosed, CompdbType
<1>2. Reachable \subseteq Cursors
  BY <1>1 DEF Reachable
<1>3. ASSUME NEW e \in Children(Reachable) PROVE e \in Reachable
  <2>1. PICK x \in Reachable : e \in ToSet(Cursor(x).children)
    BY <1>3 DEF Children
  <2>2. PICK file \in Parsed : x \in Below(file)
    BY <2>1 DEF Reachable
  <2>3. e \in Below(file)
    BY <1>1, <2>1, <2>2 DEF IsClosed, Children
  <2> QED BY <2>3 DEF Reachable
<1>4. \A k \in 1..Len(compdb.commands) :
        compdb.root[compdb.commands[k].filename] \in Reachable
  <2>1. \A k \in 1..Len(compdb.commands) : compdb.commands[k].filename \in Parsed
    BY CompdbType
  <2> QED BY <1>1, <2>1 DEF Reachable
<1> QED BY <1>2, <1>3, <1>4 DEF IsClosed

(* What one cursor adds.                                                    *)
LEMMA NodesOfOneMore ==
  ASSUME NEW V, NEW x
  PROVE  /\ ~Processed(x) => NodesOf(V \cup {x}) = NodesOf(V) /\ EdgesOf(V \cup {x}) = EdgesOf(V)
         /\ Processed(x) =>
              /\ NodesOf(V \cup {x}) = NodesOf(V) \cup {Cursor(x).displayname} \cup BaseNames(x)
              /\ EdgesOf(V \cup {x}) = EdgesOf(V) \cup ({Cursor(x).displayname} \X BaseNames(x))
         /\ Children(V \cup {x}) = Children(V) \cup ToSet(Cursor(x).children)
<1> DEFINE P(S) == {y \in S : Processed(y)}
<1>1. ~Processed(x) => P(V \cup {x}) = P(V)
  OBVIOUS
<1>2. Processed(x) => P(V \cup {x}) = P(V) \cup {x}
  OBVIOUS
<1>3. \A S : /\ NodesOf(S) = UNION {{Cursor(y).displayname} \cup BaseNames(y) : y \in P(S)}
             /\ EdgesOf(S) = UNION {{Cursor(y).displayname} \X BaseNames(y) : y \in P(S)}
  BY DEF NodesOf, EdgesOf
<1>4. Children(V \cup {x}) = Children(V) \cup ToSet(Cursor(x).children)
  BY DEF Children
<1> HIDE DEF P
<1>5. CASE ~Processed(x)
  BY <1>1, <1>3, <1>4, <1>5
<1>6. CASE Processed(x)
  <2>1. NodesOf(V \cup {x}) = NodesOf(V) \cup {Cursor(x).displayname} \cup BaseNames(x)
    <3> DEFINE own(y) == {Cursor(y).displayname} \cup BaseNames(y)
    <3>1. \A S : NodesOf(S) = UNION {own(y) : y \in P(S)}
      BY <1>3
    <3> HIDE DEF own
    <3>2. NodesOf(V \cup {x}) = NodesOf(V) \cup own(x)
      BY <1>2, <1>6, <3>1
    <3> QED BY <3>2 DEF own
  <2>2. EdgesOf(V \cup {x}) = EdgesOf(V) \cup ({Cursor(x).displayname} \X BaseNames(x))
    BY <1>2, <1>3, <1>6
  <2> QED BY <1>4, <1>6, <2>1, <2>2
<1> QED BY <1>5, <1>6

(* The step that takes a cursor off and puts its children in its place.     *)
LEMMA DescendStep ==
  ASSUME TypeInv, NEW V \in SUBSET Cursors, Walked(V), PassBy \/ processClass
  PROVE  \E W \in SUBSET Cursors : Walked(W)'
<1> DEFINE W == V \cup {X}
           x == X
           chs == ToSet(Cursor(X).children)
           rest == ToSet(Tail(pending))
<1>1. /\ pending # <<>> /\ pending' = Cursor(X).children \o Tail(pending)
      /\ compdb' = compdb /\ c' = c
  BY DEF PassBy, processClass, Visiting
<1>2. /\ X \in Cursors /\ X \in ToSet(pending)
      /\ ToSet(pending) = {X} \cup rest /\ ToSet(pending') = chs \cup rest
  BY <1>1, PopAndDescend
<1>3. /\ nodes' = NodesOf(W) /\ edges' = EdgesOf(W)
      /\ Processed(X) => None \notin BaseNames(X)
  <2>0. nodes = NodesOf(V) /\ edges = EdgesOf(V)
    BY DEF Walked
  <2>1. CASE PassBy
    <3>1. nodes' = nodes /\ edges' = edges /\ ~Processed(X)
      BY <2>1 DEF PassBy, graph
    <3> QED BY <2>0, <3>1, NodesOfOneMore
  <2>2. CASE processClass
    <3>1. /\ Processed(X) /\ Undefined(X) = {}
          /\ nodes' = nodes \cup {Cursor(X).displayname} \cup BaseNames(X)
          /\ edges' = edges \cup {<<Cursor(X).displayname, BaseName(X, n)>> : n \in Bases(X)}
      BY <2>2 DEF processClass, BaseNames
    <3>2. {<<Cursor(X).displayname, BaseName(X, n)>> : n \in Bases(X)}
            = {Cursor(X).displayname} \X BaseNames(X)
      <4> DEFINE name == Cursor(X).displayname
      <4> HIDE DEF name
      <4>1. {<<name, BaseName(X, n)>> : n \in Bases(X)} = {name} \X BaseNames(X)
        BY DEF BaseNames
      <4> QED BY <4>1 DEF name
    <3>3. None \notin BaseNames(X)
      BY <3>1 DEF Undefined, BaseNames
    <3>4. nodes' = NodesOf(W)
      BY <2>0, <3>1, NodesOfOneMore
    <3>5. edges' = EdgesOf(W)
      <4>1. edges' = EdgesOf(V) \cup ({Cursor(X).displayname} \X BaseNames(X))
        BY <2>0, <3>1, <3>2
      <4>2. EdgesOf(W) = EdgesOf(V) \cup ({Cursor(X).displayname} \X BaseNames(X))
        BY <3>1, NodesOfOneMore
      <4> QED BY <4>1, <4>2
    <3> QED BY <3>3, <3>4, <3>5
  <2> QED BY <2>1, <2>2
<1>4. Children(W) = Children(V) \cup chs
  BY NodesOfOneMore
<1>5. W \cup ToSet(pending') = V \cup ToSet(pending) \cup chs
  BY <1>2
<1>6. chs \subseteq Reachable
  <2>1. X \in Reachable
    BY <1>2 DEF Walked
  <2>2. chs \subseteq Children(Reachable)
    BY <2>1 DEF Children
  <2> QED BY <2>2, ReachableIsClosed DEF TypeInv, IsClosed
<1> DEFINE V2 == W \cup ToSet(pending')
<1>7. V2 \subseteq Reachable
  BY <1>5, <1>6 DEF Walked
<1>8. \A k \in 1..c : compdb.root[compdb.commands[k].filename] \in V2
  BY <1>5 DEF Walked
<1>9. Children(W) \subseteq V2
  BY <1>4, <1>5 DEF Walked
<1>10. \A y \in W : Processed(y) => None \notin BaseNames(y)
  BY <1>3 DEF Walked
<1>11. ASSUME NEW S, S = W PROVE Walked(S)'
  <2> HIDE DEF W
  <2>1. /\ Reachable' = Reachable /\ NodesOf(S)' = NodesOf(S) /\ EdgesOf(S)' = EdgesOf(S)
        /\ Children(S)' = Children(S)
        /\ \A y : Processed(y)' = Processed(y) /\ BaseNames(y)' = BaseNames(y)
    BY <1>1, SameDatabase
  <2>2. ToSet(pending)' = ToSet(pending')
    BY DEF ToSet
  <2>3. S \cup ToSet(pending') \subseteq Reachable'
    BY <1>7, <1>11, <2>1
  <2>4. \A k \in 1..c' : compdb'.root[compdb'.commands[k].filename] \in S \cup ToSet(pending')
    BY <1>1, <1>8, <1>11
  <2>5. Children(S)' \subseteq S \cup ToSet(pending')
    BY <1>9, <1>11, <2>1
  <2>6. nodes' = NodesOf(S)' /\ edges' = EdgesOf(S)'
    BY <1>3, <1>11, <2>1
  <2>7. \A y \in S : Processed(y)' => None \notin BaseNames(y)'
    BY <1>10, <1>11, <2>1
  <2> QED BY <2>2, <2>3, <2>4, <2>5, <2>6, <2>7 DEF Walked
<1>12. W \in SUBSET Cursors
  BY <1>2
<1>13. PICK S : S = W
  OBVIOUS
<1> HIDE DEF W
<1> QED BY <1>11, <1>12, <1>13

(* Every step keeps the walk: a file, a cursor or an end.                   *)
LEMMA WalkStep ==
  ASSUME TypeInv, WalkInv, [Next]_vars
  PROVE  WalkInv'
<1>0. /\ Len(compdb.commands) \in Nat /\ DOMAIN compdb.commands = 1..Len(compdb.commands)
      /\ c \in 0..Len(compdb.commands)
  BY CompdbType DEF TypeInv
<1>1. CASE ParseFile
  <2> DEFINE root == compdb.root[compdb.commands[c + 1].filename]
  <2>1. /\ compdb' = compdb /\ c' = c + 1 /\ status = "running" /\ status' = "running"
        /\ pending = <<>> /\ pending' = <<root>> /\ nodes' = nodes /\ edges' = edges
        /\ c + 1 \in 1..Len(compdb.commands) /\ Arguable(compdb, c + 1)
        /\ compdb.commands[c + 1].filename \in compdb.parses
    BY <1>0, <1>1 DEF ParseFile, Taking, File, graph
  <2>2. Sound(c + 1)
    BY <1>0, <2>1 DEF Arguable, Sound
  <2>3. \A k \in 1..c' : Sound(k)'
    <3>1. \A k \in 1..c' : k \in 1..c \/ k = c + 1
      BY <1>0, <2>1
    <3>2. \A k \in 1..c' : Sound(k)
      BY <2>2, <3>1 DEF WalkInv
    <3> QED BY <2>1, <3>2, SameDatabase
  <2>4. PICK V \in SUBSET Cursors : Walked(V)
    BY <2>1 DEF WalkInv
  <2>5. ToSet(pending) = {} /\ ToSet(pending') = {root}
    BY <2>1 DEF ToSet
  <2>6. root \in Reachable
    BY <2>1, ReachableIsClosed DEF TypeInv
  <2> HIDE DEF root
  <2>7. Walked(V)'
    <3>1. /\ Reachable' = Reachable /\ NodesOf(V)' = NodesOf(V) /\ EdgesOf(V)' = EdgesOf(V)
          /\ Children(V)' = Children(V)
          /\ \A y : Processed(y)' = Processed(y) /\ BaseNames(y)' = BaseNames(y)
      BY <2>1, SameDatabase
    <3>2. V \cup ToSet(pending') \subseteq Reachable'
      BY <2>5, <2>6, <3>1, <2>4 DEF Walked
    <3>3. \A k \in 1..c' : compdb'.root[compdb'.commands[k].filename] \in V \cup ToSet(pending')
      <4>1. \A k \in 1..c' : k \in 1..c \/ k = c + 1
        BY <1>0, <2>1
      <4> QED BY <2>1, <2>4, <2>5, <4>1 DEF Walked, root
    <3>4. Children(V)' \subseteq V \cup ToSet(pending')
      BY <2>4, <2>5, <3>1 DEF Walked
    <3>5. nodes' = NodesOf(V)' /\ edges' = EdgesOf(V)'
      BY <2>1, <2>4, <3>1 DEF Walked
    <3>6. \A y \in V : Processed(y)' => None \notin BaseNames(y)'
      BY <2>4, <3>1 DEF Walked
    <3>7. ToSet(pending)' = ToSet(pending')
      BY DEF ToSet
    <3> QED BY <3>2, <3>3, <3>4, <3>5, <3>6, <3>7 DEF Walked
  <2> QED BY <2>1, <2>3, <2>4, <2>7 DEF WalkInv
<1>2. CASE PassBy \/ processClass
  <2>1. compdb' = compdb /\ c' = c /\ status = "running" /\ status' = "running"
    BY <1>2 DEF PassBy, processClass, Visiting, graph
  <2>2. PICK V \in SUBSET Cursors : Walked(V)
    BY <2>1 DEF WalkInv
  <2>3. \E W \in SUBSET Cursors : Walked(W)'
    BY <1>2, <2>2, DescendStep
  <2>4. \A k \in 1..c' : Sound(k)'
    BY <2>1, SameDatabase DEF WalkInv
  <2> QED BY <2>1, <2>3, <2>4 DEF WalkInv
<1>3. CASE FailToList \/ FailToArgue \/ FailToParse
  <2>1. compdb' = compdb /\ c' = c /\ status' = "raised"
    BY <1>3 DEF FailToList, FailToArgue, FailToParse
  <2>2. Doomed
    <3>1. CASE FailToList
      BY <3>1 DEF FailToList, Doomed
    <3>2. CASE FailToArgue
      <4>1. c + 1 \in DOMAIN compdb.commands
        BY <1>0, <3>2 DEF FailToArgue, Taking
      <4> QED BY <3>2, <4>1 DEF FailToArgue, Arguable, Doomed
    <3>3. CASE FailToParse
      <4>1. c + 1 \in DOMAIN compdb.commands
        BY <1>0, <3>3 DEF FailToParse, Taking
      <4> QED BY <3>3, <4>1 DEF FailToParse, File, Doomed
    <3> QED BY <1>3, <3>1, <3>2, <3>3
  <2>3. Doomed' /\ \A k \in 1..c' : Sound(k)'
    BY <2>1, <2>2, SameDatabase DEF WalkInv
  <2> QED BY <2>1, <2>3 DEF WalkInv
<1>4. CASE FailOnBase
  <2>1. /\ compdb' = compdb /\ c' = c /\ status = "running" /\ status' = "raised"
        /\ pending # <<>> /\ Processed(X) /\ Undefined(X) # {}
    BY <1>4 DEF FailOnBase, Visiting
  <2>2. PICK V \in SUBSET Cursors : Walked(V)
    BY <2>1 DEF WalkInv
  <2>3. X \in Reachable
    BY <2>1, <2>2, PopAndDescend DEF Walked
  <2>4. X \in Classes
    BY <2>1, <2>3 DEF Classes, Reachable
  <2>5. None \in BaseNames(X)
    BY <2>1 DEF Undefined, BaseNames
  <2>6. Doomed
    BY <2>4, <2>5 DEF Doomed
  <2>7. Doomed' /\ \A k \in 1..c' : Sound(k)'
    BY <2>1, <2>6, SameDatabase DEF WalkInv
  <2> QED BY <2>1, <2>7 DEF WalkInv
<1>5. CASE writeDot \/ UNCHANGED vars
  <2>1. /\ compdb' = compdb /\ c' = c /\ pending' = pending /\ nodes' = nodes /\ edges' = edges
        /\ status' = "raised" => status = "raised" \/ Doomed
        /\ status' # "raised" => status # "raised"
        /\ status' = "written" =>
             /\ pending = <<>> /\ c = Len(compdb.commands)
             /\ compdb.commands # <<>> /\ compdb.writable
    BY <1>5 DEF writeDot, vars, graph, WalkInv, Doomed
  <2>2. \A k \in 1..c' : Sound(k)'
    BY <2>1, SameDatabase DEF WalkInv
  <2>3. CASE status' = "raised"
    <3>1. Doomed
      BY <2>1, <2>3 DEF WalkInv
    <3> QED BY <2>1, <2>2, <2>3, <3>1, SameDatabase DEF WalkInv
  <2>4. CASE status' # "raised"
    <3>1. PICK V \in SUBSET Cursors : Walked(V)
      BY <2>1, <2>4 DEF WalkInv
    <3>2. /\ Reachable' = Reachable /\ NodesOf(V)' = NodesOf(V) /\ EdgesOf(V)' = EdgesOf(V)
          /\ Children(V)' = Children(V)
          /\ \A y : Processed(y)' = Processed(y) /\ BaseNames(y)' = BaseNames(y)
          /\ ToSet(pending)' = ToSet(pending)
      BY <2>1, SameDatabase DEF ToSet
    <3>3. Walked(V)'
      BY <2>1, <3>1, <3>2 DEF Walked
    <3> QED BY <2>1, <2>2, <2>4, <3>3 DEF WalkInv
  <2> QED BY <2>3, <2>4
<1> QED BY <1>1, <1>2, <1>3, <1>4, <1>5 DEF Next

(* The invariant of the walk.                                               *)
LEMMA WalkInvariant == Spec => [](TypeInv /\ WalkInv)
<1>1. Init => TypeInv /\ WalkInv
  <2> SUFFICES ASSUME Init PROVE TypeInv /\ WalkInv
    OBVIOUS
  <2>1. IsCompdb(compdb)
    BY CompdbsAssumption DEF Init
  <2>2. TypeInv
    <3>1. Len(compdb.commands) \in Nat
      BY <2>1, CompdbType
    <3>2. pending \in Seq(Cursors)
      BY DEF Init
    <3> QED BY <2>1, <3>1, <3>2 DEF Init, TypeInv
  <2>3. Walked({})
    <3>1. ToSet(pending) = {} /\ c = 0 /\ nodes = {} /\ edges = {}
      BY DEF Init, ToSet
    <3>2. NodesOf({}) = {} /\ EdgesOf({}) = {} /\ Children({}) = {}
      BY DEF NodesOf, EdgesOf, Children
    <3> QED BY <3>1, <3>2 DEF Walked
  <2>4. status = "running" /\ c = 0
    BY DEF Init
  <2> QED BY <2>2, <2>3, <2>4 DEF WalkInv
<1>2. TypeInv /\ WalkInv /\ [Next]_vars => (TypeInv /\ WalkInv)'
  BY TypeStep, WalkStep
<1> QED BY <1>1, <1>2, PTL DEF Spec

(* When all files have been walked, the cursors that were visited are       *)
(* exactly those below the roots.                                           *)
LEMMA AllWalked ==
  ASSUME TypeInv, WalkInv, status = "written"
  PROVE  Walked(Reachable)
<1>1. pending = <<>> /\ c = Len(compdb.commands)
  BY DEF WalkInv
<1>2. PICK V \in SUBSET Cursors : Walked(V)
  BY DEF WalkInv
<1>3. ToSet(pending) = {}
  BY <1>1 DEF ToSet
<1>4. V \subseteq Reachable /\ IsClosed(V)
  BY <1>2, <1>3 DEF Walked, IsClosed
<1>5. ASSUME NEW file \in Parsed PROVE Below(file) \subseteq V
  <2>1. PICK k \in DOMAIN compdb.commands : file = compdb.commands[k].filename
    BY <1>5 DEF Parsed
  <2>2. k \in 1..c
    BY <1>1, <2>1, CompdbType DEF TypeInv
  <2>3. compdb.root[file] \in V
    BY <1>2, <1>3, <2>1, <2>2 DEF Walked
  <2> QED BY <1>4, <2>3, BelowIsLeast
<1>6. V = Reachable
  BY <1>4, <1>5 DEF Reachable
<1> QED BY <1>2, <1>6

(* The graph that is written has every class outside /usr of every file,    *)
(* its bases and the edges between them and no others, for every tree of    *)
(* cursors and every order and repetition of the commands.                  *)
THEOREM GraphExact == Spec => []GraphIsExact
<1>1. TypeInv /\ WalkInv => GraphIsExact
  <2> SUFFICES ASSUME TypeInv, WalkInv, status = "written"
               PROVE  /\ nodes = UNION {{Cursor(x).displayname} \cup BaseNames(x) : x \in Classes}
                      /\ edges = UNION {{Cursor(x).displayname} \X BaseNames(x) : x \in Classes}
    BY DEF GraphIsExact
  <2>1. nodes = NodesOf(Reachable) /\ edges = EdgesOf(Reachable)
    BY AllWalked DEF Walked
  <2>2. Classes = {y \in Reachable : Processed(y)}
    BY DEF Classes, Reachable
  <2> QED BY <2>1, <2>2 DEF NodesOf, EdgesOf
<1> QED BY <1>1, WalkInvariant, PTL

(* The script writes only a graph that nothing stands against, and raises   *)
(* only for a reason that Doomed lists: a database without commands, a file *)
(* it does not find, a command that spells its file otherwise, a file that  *)
(* is not parsed, a base without a definition, or a graph that cannot be    *)
(* written.                                                                 *)
EndIsDeserved ==
    /\ status = "written" => ~Doomed
    /\ status = "raised" => Doomed

(* What WrittenUnlessDoomed says of safety.                                 *)
THEOREM EndDeserved == Spec => []EndIsDeserved
<1>1. TypeInv /\ WalkInv => EndIsDeserved
  <2> SUFFICES ASSUME TypeInv, WalkInv PROVE EndIsDeserved
    OBVIOUS
  <2>1. status = "raised" => Doomed
    BY DEF WalkInv
  <2>2. ASSUME status = "written" PROVE ~Doomed
    <3>1. Walked(Reachable)
      BY <2>2, AllWalked
    <3>2. \A x \in Classes : None \notin BaseNames(x)
      BY <3>1 DEF Walked, Classes, Reachable
    <3>3. \A k \in DOMAIN compdb.commands : Sound(k)
      <4>1. c = Len(compdb.commands) /\ \A k \in 1..c : Sound(k)
        BY <2>2 DEF WalkInv
      <4> QED BY <4>1, CompdbType DEF TypeInv
    <3>4. compdb.commands # <<>> /\ compdb.writable
      BY <2>2 DEF WalkInv
    <3> QED BY <3>2, <3>3, <3>4 DEF Doomed, Sound
  <2> QED BY <2>1, <2>2 DEF EndIsDeserved
<1> QED BY <1>1, WalkInvariant, PTL
===============================================================================
