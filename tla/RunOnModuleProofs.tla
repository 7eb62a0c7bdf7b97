-------------------------- MODULE RunOnModuleProofs --------------------------
(***************************************************************************)
(* Theorems about the whole pass (module RunOnModule), for every command    *)
(* line, every text of its files and every module: a report follows the     *)
(* files, and every end has its reason.                                     *)
(***************************************************************************)
EXTENDS RunOnModule, SequenceLemmas, FiniteSetTheorems

S == INSTANCE LoopScanProofs WITH
    status <- scan, Options <- {},
    opt <- [FL |-> Given("function-list"), functionList |-> ToSet(functionList),
            dop_dyn |-> Given("dop-dyn"), dyn_map |-> dyn_map]

------------------------------------------------------------------------------
(* What is left of a text, and how a reader moves on in it.                 *)

Symbols == Words \cup {Newline}

(* The text behind a place.                                                 *)
Behind(file, pos) == SubSeq(file, pos + 1, Len(file))

(* It is the file, from the next symbol on.                                 *)
LEMMA BehindFacts ==
  ASSUME NEW file \in Seq(Symbols), NEW pos \in 0..Len(file)
  PROVE  /\ Len(file) \in Nat /\ DOMAIN file = 1..Len(file)
         /\ Behind(file, pos) \in Seq(Symbols)
         /\ Len(Behind(file, pos)) = Len(file) - pos
         /\ DOMAIN Behind(file, pos) = 1..(Len(file) - pos)
         /\ \A n \in 1..(Len(file) - pos) : Behind(file, pos)[n] = file[pos + n]
         /\ Behind(file, pos) = <<>> <=> pos = Len(file)
<1>1. Len(file) \in Nat /\ DOMAIN file = 1..Len(file)
  BY LenProperties
<1>2. /\ Behind(file, pos) \in Seq(Symbols)
      /\ Len(Behind(file, pos)) = Len(file) - pos
      /\ \A n \in 1..(Len(file) - pos) : Behind(file, pos)[n] = file[pos + n]
  <2>1. pos + 1 \in 1..(Len(file) + 1) /\ Len(file) \in pos..Len(file)
    BY <1>1
  <2>2. \A n \in (pos + 1)..Len(file) : file[n] \in Symbols
    BY <1>1, ElementOfSeq
  <2> QED BY <1>1, <2>1, <2>2, SubSeqProperties DEF Behind
<1>3. DOMAIN Behind(file, pos) = 1..(Len(file) - pos)
  BY <1>2, LenProperties
<1>4. Behind(file, pos) = <<>> <=> pos = Len(file)
  <2>1. Behind(file, pos) = <<>> <=> Len(Behind(file, pos)) = 0
    BY <1>2, EmptySeq
  <2>2. Len(file) - pos = 0 <=> pos = Len(file)
    BY <1>1
  <2> QED BY <1>2, <2>1, <2>2
<1> QED BY <1>1, <1>2, <1>3, <1>4

(* A part of it is a part of the file.                                      *)
LEMMA BehindPart ==
  ASSUME NEW file \in Seq(Symbols), NEW pos \in 0..Len(file),
         NEW m \in 1..(Len(file) - pos + 1), NEW n \in 0..(Len(file) - pos)
  PROVE  SubSeq(Behind(file, pos), m, n) = SubSeq(file, pos + m, pos + n)
<1> DEFINE t == Behind(file, pos)
           u == SubSeq(t, m, n)
           v == SubSeq(file, pos + m, pos + n)
<1>1. /\ Len(file) \in Nat /\ DOMAIN file = 1..Len(file)
      /\ \A j \in 1..(Len(file) - pos) : t[j] = file[pos + j]
  BY BehindFacts
<1> HIDE DEF t
<1>2. \A j \in m..n : j \in 1..(Len(file) - pos) /\ pos + j \in 1..Len(file)
  BY <1>1
<1>3. /\ u \in Seq(Symbols)
      /\ Len(u) = IF m <= n THEN n - m + 1 ELSE 0
      /\ \A j \in 1..(n - m + 1) : u[j] = t[m + j - 1]
  <2>1. \A j \in m..n : t[j] \in Symbols
    BY <1>1, <1>2, ElementOfSeq
  <2>2. m \in Int /\ n \in Int
    BY <1>1
  <2> QED BY <2>1, <2>2, SubSeqProperties
<1>4. /\ v \in Seq(Symbols)
      /\ Len(v) = IF pos + m <= pos + n THEN (pos + n) - (pos + m) + 1 ELSE 0
      /\ \A j \in 1..((pos + n) - (pos + m) + 1) : v[j] = file[pos + m + j - 1]
  <2>1. \A j \in (pos + m)..(pos + n) : file[j] \in Symbols
    <3>1. \A j \in (pos + m)..(pos + n) : j \in 1..Len(file)
      BY <1>1
    <3> QED BY <3>1, ElementOfSeq
  <2>2. pos + m \in Int /\ pos + n \in Int
    BY <1>1
  <2> QED BY <2>1, <2>2, SubSeqProperties
<1> HIDE DEF u, v
<1>5. Len(u) = Len(v) /\ Len(u) = IF m <= n THEN n - m + 1 ELSE 0
  <2>1. (pos + n) - (pos + m) + 1 = n - m + 1 /\ (pos + m <= pos + n <=> m <= n)
    BY <1>1
  <2> QED BY <1>3, <1>4, <2>1
<1>6. ASSUME NEW j \in 1..Len(u) PROVE u[j] = v[j]
  <2>1. m <= n
    BY <1>1, <1>5
  <2>2. j \in 1..(n - m + 1) /\ j \in 1..((pos + n) - (pos + m) + 1)
    BY <1>1, <1>5, <2>1
  <2>3. u[j] = t[m + j - 1] /\ v[j] = file[pos + m + j - 1]
    BY <1>3, <1>4, <2>2
  <2>4. m + j - 1 \in 1..(Len(file) - pos) /\ pos + m + j - 1 = pos + (m + j - 1)
    BY <1>1, <2>2
  <2> QED BY <1>1, <2>3, <2>4
<1>7. u = v
  BY <1>3, <1>4, <1>5, <1>6, SeqEqual
<1> QED BY <1>7 DEF t, u, v

(* Moving on from a place.                                                  *)
LEMMA BehindBehind ==
  ASSUME NEW file \in Seq(Symbols), NEW pos \in 0..Len(file), NEW n \in 0..(Len(file) - pos)
  PROVE  SubSeq(Behind(file, pos), n + 1, Len(Behind(file, pos))) = Behind(file, pos + n)
<1>1. /\ Len(file) \in Nat /\ Len(Behind(file, pos)) = Len(file) - pos
      /\ n + 1 \in 1..(Len(file) - pos + 1) /\ Len(file) - pos \in 0..(Len(file) - pos)
      /\ pos + (n + 1) = pos + n + 1 /\ pos + (Len(file) - pos) = Len(file)
  BY BehindFacts
<1>2. SubSeq(Behind(file, pos), n + 1, Len(file) - pos)
        = SubSeq(file, pos + (n + 1), pos + (Len(file) - pos))
  BY <1>1, BehindPart
<1> QED BY <1>1, <1>2 DEF Behind

(* The next word of a text, where white space before it is passed over.     *)
FirstWord(file, pos, a) ==
    /\ a \in (pos + 1)..Len(file) /\ file[a] # Newline
    /\ \A m \in (pos + 1)..(a - 1) : file[m] = Newline

(* The first place of a text at which something holds.                      *)
LEMMA FirstPlace ==
  ASSUME NEW n \in Nat, NEW T \in SUBSET (1..n), T # {}
  PROVE  \E x \in T : \A j \in 1..(x - 1) : j \notin T
<1>1. PICK x \in T : \A y \in T : x <= y
  BY LeastNatural
<1>2. \A j \in 1..(x - 1) : ~(x <= j)
  BY <1>1
<1> QED BY <1>1, <1>2

(* What an extraction finds.                                                *)
LEMMA DropBlankFacts ==
  ASSUME NEW file \in Seq(Symbols), NEW pos \in 0..Len(file)
  PROVE  LET rest == DropBlank(Behind(file, pos))
         IN  \/ rest = <<>> /\ \A m \in (pos + 1)..Len(file) : file[m] = Newline
             \/ /\ rest # <<>>
                /\ \E a \in (pos + 1)..Len(file) :
                     /\ FirstWord(file, pos, a)
                     /\ Head(rest) = file[a] /\ Tail(rest) = Behind(file, a)
<1> DEFINE t == Behind(file, pos)
           T == {n \in DOMAIN t : t[n] # Newline}
           IsFirst(n) == t[n] # Newline /\ \A j \in 1..n - 1 : t[j] = Newline
           b == CHOOSE n \in DOMAIN t : IsFirst(n)
<1>1. /\ Len(file) \in Nat /\ t \in Seq(Symbols) /\ Len(t) = Len(file) - pos
      /\ DOMAIN t = 1..(Len(file) - pos)
      /\ \A n \in 1..(Len(file) - pos) : t[n] = file[pos + n]
  BY BehindFacts
<1>2. CASE T = {}
  <2>1. \A n \in DOMAIN t : t[n] = Newline
    BY <1>2
  <2>2. DropBlank(t) = <<>>
    BY <2>1 DEF DropBlank
  <2>3. ASSUME NEW m \in (pos + 1)..Len(file) PROVE file[m] = Newline
    <3>1. m - pos \in 1..(Len(file) - pos) /\ pos + (m - pos) = m
      BY <1>1
    <3> QED BY <1>1, <2>1, <3>1
  <2> QED BY <2>2, <2>3
<1>3. CASE T # {}
  <2>1. \E n \in DOMAIN t : IsFirst(n)
    <3>1. Len(file) - pos \in Nat /\ T \in SUBSET (1..(Len(file) - pos))
      BY <1>1
    <3>2. PICK n \in T : \A j \in 1..(n - 1) : j \notin T
      BY <1>3, <3>1, FirstPlace
    <3>3. \A j \in 1..(n - 1) : j \in DOMAIN t
      BY <1>1, <3>2
    <3> QED BY <3>2, <3>3
  <2>2. b \in DOMAIN t /\ IsFirst(b)
    BY <2>1
  <2> HIDE DEF b
  <2>3. b \in 1..(Len(file) - pos) /\ pos + b \in (pos + 1)..Len(file)
        /\ pos + b - 1 = pos + (b - 1) /\ b - 1 \in 0..(Len(file) - pos)
        /\ pos + b \in 1..Len(file) /\ pos + b - 1 \in 0..Len(file)
    BY <1>1, <2>2
  <2>4. DropBlank(t) = SubSeq(t, b, Len(t))
    BY <2>2 DEF DropBlank, b
  <2>5. SubSeq(t, b, Len(t)) = Behind(file, pos + b - 1)
    <3>1. (b - 1) + 1 = b
      BY <2>3
    <3> QED BY <2>3, <3>1, BehindBehind
  <2> DEFINE rest == DropBlank(t)
  <2>6. rest = SubSeq(file, pos + b, Len(file))
    <3>1. pos + b - 1 + 1 = pos + b
      BY <2>3
    <3> QED BY <2>4, <2>5, <3>1 DEF Behind
  <2>7. Head(rest) = file[pos + b] /\ Tail(rest) = Behind(file, pos + b)
    <3>1. Len(file) \in (pos + b)..Len(file)
      BY <1>1, <2>3
    <3>2. Head(SubSeq(file, pos + b, Len(file))) = file[pos + b]
      BY <2>3, <3>1, HeadTailOfSubSeq
    <3>3. Tail(SubSeq(file, pos + b, Len(file))) = SubSeq(file, pos + b + 1, Len(file))
      BY <2>3, <3>1, HeadTailOfSubSeq
    <3> QED BY <2>6, <3>2, <3>3 DEF Behind
  <2>8. rest # <<>>
    <3>1. pos + b - 1 # Len(file)
      BY <1>1, <2>3
    <3> QED BY <2>3, <2>4, <2>5, <3>1, BehindFacts
  <2>9. FirstWord(file, pos, pos + b)
    <3>1. file[pos + b] # Newline
      BY <1>1, <2>2, <2>3
    <3>2. ASSUME NEW m \in (pos + 1)..(pos + b - 1) PROVE file[m] = Newline
      <4>1. /\ m - pos \in 1..(b - 1) /\ m - pos \in 1..(Len(file) - pos)
            /\ pos + (m - pos) = m
        BY <1>1, <2>3
      <4> QED BY <1>1, <2>2, <4>1
    <3> QED BY <2>3, <3>1, <3>2 DEF FirstWord
  <2> QED BY <2>3, <2>7, <2>8, <2>9
<1> QED BY <1>2, <1>3

(* The end of a line.                                                       *)
LEMMA LineEndFacts ==
  ASSUME NEW file \in Seq(Symbols), NEW pos \in 0..Len(file)
  PROVE  LET end == LineEnd(Behind(file, pos))
         IN  /\ end \in 1..(Len(file) - pos + 1)
             /\ pos + end <= Len(file) => file[pos + end] = Newline
             /\ \A m \in (pos + 1)..(pos + end - 1) : m \in 1..Len(file) /\ file[m] # Newline
<1> DEFINE t == Behind(file, pos)
           T == {n \in DOMAIN t : t[n] = Newline}
           IsEnd(n) == /\ n <= Len(t) => t[n] = Newline
                       /\ \A j \in 1..n - 1 : t[j] # Newline
           end == CHOOSE n \in 1..Len(t) + 1 : IsEnd(n)
<1>1. /\ Len(file) \in Nat /\ t \in Seq(Symbols) /\ Len(t) = Len(file) - pos /\ Len(t) \in Nat
      /\ DOMAIN t = 1..Len(t)
      /\ \A n \in 1..(Len(file) - pos) : t[n] = file[pos + n]
  BY BehindFacts
<1>2. \E n \in 1..Len(t) + 1 : IsEnd(n)
  <2>1. CASE T = {}
    <3>1. Len(t) + 1 \in 1..Len(t) + 1 /\ ~(Len(t) + 1 <= Len(t)) /\ Len(t) + 1 - 1 = Len(t)
      BY <1>1
    <3>2. \A j \in 1..Len(t) : t[j] # Newline
      BY <1>1, <2>1
    <3> QED BY <3>1, <3>2
  <2>2. CASE T # {}
    <3>1. PICK n \in T : \A j \in 1..(n - 1) : j \notin T
      <4>1. T \in SUBSET (1..Len(t))
        BY <1>1
      <4> QED BY <1>1, <2>2, <4>1, FirstPlace
    <3>2. n \in 1..Len(t) + 1 /\ \A j \in 1..(n - 1) : j \in DOMAIN t
      BY <1>1, <3>1
    <3> QED BY <3>1, <3>2
  <2> QED BY <2>1, <2>2
<1>3. end \in 1..Len(t) + 1 /\ IsEnd(end)
  BY <1>2
<1>4. end = LineEnd(t)
  BY DEF LineEnd
<1> HIDE DEF end
<1>5. end \in 1..(Len(file) - pos + 1)
  BY <1>1, <1>3
<1>6. ASSUME pos + end <= Len(file) PROVE file[pos + end] = Newline
  <2>1. end <= Len(t) /\ end \in 1..(Len(file) - pos)
    BY <1>1, <1>5, <1>6
  <2> QED BY <1>1, <1>3, <2>1
<1>7. ASSUME NEW m \in (pos + 1)..(pos + end - 1)
      PROVE  m \in 1..Len(file) /\ file[m] # Newline
  <2>1. /\ m - pos \in 1..(end - 1) /\ m - pos \in 1..(Len(file) - pos) /\ pos + (m - pos) = m
        /\ m \in 1..Len(file)
    BY <1>1, <1>5
  <2> QED BY <1>1, <1>3, <2>1
<1> QED BY <1>4, <1>5, <1>6, <1>7

------------------------------------------------------------------------------
(* The lists of names.                                                      *)

(* Where lines begin and end, and the lines up to a place.                  *)
Ends(file) == {0, Len(file) + 1} \cup {n \in DOMAIN file : file[n] = Newline}

LinesTo(file, pos) ==
    {Line(SubSeq(file, p[1] + 1, p[2] - 1)) :
       p \in {q \in Ends(file) \X Ends(file) :
                /\ q[1] < q[2] /\ \A e \in Ends(file) : e <= q[1] \/ e >= q[2]
                /\ q[2] <= pos}}

(* A line is a name, whatever it holds.                                     *)
LEMMA LineType ==
  ASSUME NEW file \in Seq(Symbols), NEW a \in Nat, NEW b \in Nat,
         \A m \in (a + 1)..b : m \in 1..Len(file) /\ file[m] # Newline
  PROVE  Line(SubSeq(file, a + 1, b)) \in Names \cup {EmptyLine}
<1> DEFINE u == SubSeq(file, a + 1, b)
<1>1. u \in Seq(Words)
  <2>1. \A m \in (a + 1)..b : file[m] \in Words
    BY ElementOfSeq DEF Symbols
  <2> QED BY <2>1, SubSeqProperties
<1> HIDE DEF u
<1>2. Len(u) = 1 => u[1] \in Words
  BY <1>1, ElementOfSeq
<1>3. Line(u) \in Names \cup {EmptyLine}
  <2>1. CASE u = <<>>
    BY <2>1 DEF Line
  <2>2. CASE u # <<>> /\ Len(u) = 1
    BY <1>2, <2>2 DEF Line, Names
  <2>3. CASE u # <<>> /\ Len(u) # 1
    BY <2>3 DEF Line, Names
  <2> QED BY <2>1, <2>2, <2>3
<1> QED BY <1>3 DEF u

(* Nothing has been read at the beginning, and everything at the end.       *)
LEMMA LinesAtEnds ==
  ASSUME NEW file \in Seq(Symbols)
  PROVE  LinesTo(file, 0) = {} /\ LinesTo(file, Len(file) + 1) = TheLines(file)
<1>1. Len(file) \in Nat /\ DOMAIN file = 1..Len(file)
  BY LenProperties
<1>2. \A e \in Ends(file) : e \in Nat /\ e <= Len(file) + 1
  BY <1>1 DEF Ends
<1>3. \A p \in Ends(file) \X Ends(file) : p[2] <= Len(file) + 1 /\ ~(p[1] < p[2] /\ p[2] <= 0)
  BY <1>2
<1>4. LinesTo(file, 0) = {}
  BY <1>3 DEF LinesTo
<1>5. LinesTo(file, Len(file) + 1) = TheLines(file)
  BY <1>3 DEF LinesTo, TheLines, Ends
<1> QED BY <1>4, <1>5

(* One line further.                                                        *)
LEMMA LinesFurther ==
  ASSUME NEW file \in Seq(Symbols), NEW pos \in 0..Len(file), pos \in Ends(file),
         NEW end \in 1..(Len(file) - pos + 1),
         pos + end <= Len(file) => file[pos + end] = Newline,
         \A m \in (pos + 1)..(pos + end - 1) : m \in 1..Len(file) /\ file[m] # Newline
  PROVE  /\ pos + end \in Ends(file)
         /\ LinesTo(file, pos + end)
              = LinesTo(file, pos) \cup {Line(SubSeq(file, pos + 1, pos + end - 1))}
<1> DEFINE Pairs(p) == {q \in Ends(file) \X Ends(file) :
                          /\ q[1] < q[2] /\ \A e \in Ends(file) : e <= q[1] \/ e >= q[2]
                          /\ q[2] <= p}
<1>1. Len(file) \in Nat /\ DOMAIN file = 1..Len(file)
  BY LenProperties
<1>2. \A e \in Ends(file) : e \in Nat /\ (e <= pos \/ e >= pos + end)
  <2>1. \A e \in DOMAIN file : file[e] = Newline => e <= pos \/ e >= pos + end
    BY <1>1
  <2> QED BY <1>1, <2>1 DEF Ends
<1>3. pos + end \in Ends(file)
  <2>1. pos + end <= Len(file) => pos + end \in DOMAIN file
    BY <1>1
  <2>2. ~(pos + end <= Len(file)) => pos + end = Len(file) + 1
    BY <1>1
  <2> QED BY <2>1, <2>2 DEF Ends
<1>4. <<pos, pos + end>> \in Pairs(pos + end)
  BY <1>1, <1>2, <1>3
<1>5. Pairs(pos) \subseteq Pairs(pos + end)
  <2>1. \A e \in Ends(file) : e <= pos => e <= pos + end
    BY <1>1, <1>2
  <2> QED BY <2>1
<1>6. ASSUME NEW q \in Pairs(pos + end), q \notin Pairs(pos) PROVE q = <<pos, pos + end>>
  <2>1. /\ q[1] \in Nat /\ q[2] \in Nat /\ q[1] < q[2] /\ q[2] <= pos + end /\ ~(q[2] <= pos)
        /\ q[1] <= pos \/ q[1] >= pos + end
        /\ q[2] <= pos \/ q[2] >= pos + end
        /\ pos <= q[1] \/ pos >= q[2]
    BY <1>2, <1>6
  <2>2. q[2] = pos + end /\ q[1] = pos
    BY <1>1, <2>1
  <2> QED BY <1>6, <2>2
<1>7. Pairs(pos + end) = Pairs(pos) \cup {<<pos, pos + end>>}
  BY <1>4, <1>5, <1>6
<1>8. /\ LinesTo(file, pos + end) = {Line(SubSeq(file, p[1] + 1, p[2] - 1)) : p \in Pairs(pos + end)}
      /\ LinesTo(file, pos) = {Line(SubSeq(file, p[1] + 1, p[2] - 1)) : p \in Pairs(pos)}
  BY DEF LinesTo
<1> DEFINE L(p) == Line(SubSeq(file, p[1] + 1, p[2] - 1))
<1>9. LinesTo(file, pos + end)
        = LinesTo(file, pos) \cup {Line(SubSeq(file, pos + 1, pos + end - 1))}
  <2>1. L(<<pos, pos + end>>) = Line(SubSeq(file, pos + 1, pos + end - 1))
    OBVIOUS
  <2>2. /\ LinesTo(file, pos + end) = {L(p) : p \in Pairs(pos + end)}
        /\ LinesTo(file, pos) = {L(p) : p \in Pairs(pos)}
    BY <1>8
  <2> HIDE DEF L, Pairs
  <2>3. {L(p) : p \in Pairs(pos + end)}
          = {L(p) : p \in Pairs(pos)} \cup {L(<<pos, pos + end>>)}
    BY <1>7
  <2> QED BY <2>1, <2>2, <2>3
<1> QED BY <1>3, <1>9

------------------------------------------------------------------------------
(* The trace.                                                               *)

(* The words up to a place can be counted.                                  *)
LEMMA CountFacts ==
  ASSUME NEW file, NEW n \in Nat
  PROVE  IsFiniteSet(WordsTo(file, n)) /\ Cardinality(WordsTo(file, n)) \in Nat
<1>1. IsFiniteSet(1..n) /\ WordsTo(file, n) \in SUBSET (1..n)
  BY FS_Interval DEF WordsTo
<1>2. IsFiniteSet(WordsTo(file, n))
  BY <1>1, FS_Subset
<1> QED BY <1>2, FS_CardinalityType

(* White space and one word further, there is one word more.                *)
LEMMA CountWord ==
  ASSUME NEW file, NEW pos \in Nat, NEW a, FirstWord(file, pos, a), Len(file) \in Nat
  PROVE  Cardinality(WordsTo(file, a)) = Cardinality(WordsTo(file, pos)) + 1
<1>1. a \in Nat /\ pos < a /\ a \notin 1..pos /\ a \in 1..a /\ 1..pos \subseteq 1..a
      /\ \A m \in 1..a : m \in 1..pos \/ m \in (pos + 1)..(a - 1) \/ m = a
  BY DEF FirstWord
<1>2. WordsTo(file, a) = WordsTo(file, pos) \cup {a} /\ a \notin WordsTo(file, pos)
  BY <1>1 DEF FirstWord, WordsTo
<1> QED BY <1>2, CountFacts, FS_AddElement

(* The words between two places.                                            *)
LEMMA BetweenWords ==
  ASSUME NEW file \in Seq(Symbols), NEW pos \in 0..Len(file), NEW a, FirstWord(file, pos, a)
  PROVE  /\ a \in 1..Len(file) /\ pos < a /\ a \in Nat /\ WordAt(file, a) /\ file[a] \in Words
         /\ \A m \in 1..Len(file) : WordAt(file, m) /\ m > pos => m >= a
<1>1. Len(file) \in Nat /\ DOMAIN file = 1..Len(file)
  BY LenProperties
<1>2. a \in 1..Len(file) /\ pos < a /\ a \in Nat /\ file[a] # Newline
      /\ \A m \in (pos + 1)..(a - 1) : file[m] = Newline
  BY <1>1 DEF FirstWord
<1>3. file[a] \in Words
  BY <1>2, ElementOfSeq DEF Symbols
<1>4. ASSUME NEW m \in 1..Len(file), WordAt(file, m), m > pos PROVE m >= a
  <2>1. ~(m >= a) => m \in (pos + 1)..(a - 1)
    BY <1>1, <1>2, <1>4
  <2> QED BY <1>2, <1>4, <2>1 DEF WordAt
<1> QED BY <1>1, <1>2, <1>3, <1>4 DEF WordAt

(* What the file says of a function, at its last mention.                   *)
LEMMA LineInFacts ==
  ASSUME NEW file \in Seq(Symbols), NEW g
  PROVE  LET mentions == {n \in DOMAIN file : NameAt(file, n) /\ file[n] = g}
         IN  /\ mentions = {} => LineIn(file, g) = Zero
             /\ \A last \in mentions :
                  (\A m \in mentions : m <= last) =>
                    /\ (\A m \in DOMAIN file : WordAt(file, m) => m <= last)
                          => LineIn(file, g) = Zero
                    /\ \A next \in DOMAIN file :
                         /\ WordAt(file, next) /\ next > last
                         /\ \A m \in DOMAIN file : WordAt(file, m) /\ m > last => m >= next
                         => LineIn(file, g) = file[next]
<1> DEFINE mentions == {n \in DOMAIN file : NameAt(file, n) /\ file[n] = g}
           end == CHOOSE n \in mentions : \A m \in mentions : m <= n
           later == {n \in DOMAIN file : WordAt(file, n) /\ n > end}
           word == CHOOSE n \in later : \A m \in later : n <= m
<1>1. Len(file) \in Nat /\ DOMAIN file = 1..Len(file)
  BY LenProperties
<1>2. LineIn(file, g) = IF mentions = {} \/ later = {} THEN Zero ELSE file[word]
  BY DEF LineIn
<1>3. ASSUME NEW last \in mentions, \A m \in mentions : m <= last
      PROVE  end = last
  <2>1. end \in mentions /\ \A m \in mentions : m <= end
    BY <1>3
  <2> HIDE DEF end
  <2>2. end \in Nat /\ last \in Nat
    BY <1>1, <2>1
  <2>3. end <= last /\ last <= end
    BY <1>3, <2>1
  <2> QED BY <2>2, <2>3
<1>4. ASSUME NEW last \in mentions, \A m \in mentions : m <= last,
             \A m \in DOMAIN file : WordAt(file, m) => m <= last
      PROVE  LineIn(file, g) = Zero
  <2>1. end = last
    BY <1>3, <1>4
  <2> HIDE DEF end
  <2>2. later = {}
    BY <1>1, <1>4, <2>1
  <2> QED BY <1>2, <2>2
<1>5. ASSUME NEW last \in mentions, \A m \in mentions : m <= last,
             NEW next \in DOMAIN file, WordAt(file, next), next > last,
             \A m \in DOMAIN file : WordAt(file, m) /\ m > last => m >= next
      PROVE  LineIn(file, g) = file[next]
  <2>1. end = last
    BY <1>3, <1>5
  <2> HIDE DEF end
  <2>2. next \in later /\ \A m \in later : next <= m
    BY <1>1, <1>5, <2>1
  <2>3. word \in later /\ \A m \in later : word <= m
    BY <2>2
  <2>4. later \subseteq Nat
    BY <1>1
  <2> HIDE DEF word, later
  <2>5. word \in Nat /\ next \in Nat /\ word <= next /\ next <= word
    BY <2>2, <2>3, <2>4
  <2>6. word = next
    BY <2>5
  <2> QED BY <1>2, <1>5, <2>2, <2>6
<1> QED BY <1>2, <1>4, <1>5

(* The places up to one at which a function is named, and what the map has  *)
(* to say of it: the number behind the last of them.                        *)
Mentions(file, pos, g) == {n \in 1..pos : NameAt(file, n) /\ file[n] = g}

EntryAt(line, file, pos, g) ==
    /\ Mentions(file, pos, g) = {} => line = Zero
    /\ \A last \in Mentions(file, pos, g) :
         (\A m \in Mentions(file, pos, g) : m <= last) =>
           \E next \in (last + 1)..pos :
             /\ WordAt(file, next) /\ line = file[next]
             /\ \A m \in DOMAIN file : WordAt(file, m) /\ m > last => m >= next

(* A trace has been read in pairs up to a place, and to its end.            *)
Paired(map, file, pos) ==
    /\ Cardinality(WordsTo(file, pos)) % 2 = 0
    /\ \A n \in 1..pos : WordAt(file, n) /\ ~NameAt(file, n) => file[n] \in Numbers
    /\ \A g \in Words : EntryAt(map[g], file, pos, g)

Agrees(map, file) == WellFormed(file) /\ \A g \in Words : map[g] = LineIn(file, g)

(* At the beginning of a trace the map is empty.                            *)
LEMMA PairedAtStart ==
  ASSUME NEW file
  PROVE  Paired([w \in Words |-> Zero], file, 0)
<1>1. WordsTo(file, 0) = {} /\ \A g : Mentions(file, 0, g) = {}
  BY DEF WordsTo, Mentions
<1>2. Cardinality(WordsTo(file, 0)) = 0 /\ 0 % 2 = 0
  BY <1>1, FS_EmptySet
<1> QED BY <1>1, <1>2 DEF Paired, EntryAt

(* Behind a pair the next word is a name, and the one after it is not.      *)
LEMMA NameAndNumber ==
  ASSUME NEW map, NEW file \in Seq(Symbols), NEW pos \in 0..Len(file), Paired(map, file, pos),
         NEW a, FirstWord(file, pos, a)
  PROVE  /\ NameAt(file, a)
         /\ \A b : FirstWord(file, a, b) =>
              ~NameAt(file, b) /\ Cardinality(WordsTo(file, b)) % 2 = 0
<1> DEFINE c == Cardinality(WordsTo(file, pos))
<1>1. Len(file) \in Nat /\ pos \in Nat
  BY LenProperties
<1>2. c \in Nat /\ c % 2 = 0
  BY <1>1, CountFacts DEF Paired
<1>3. Cardinality(WordsTo(file, a)) = c + 1 /\ a \in Nat /\ WordAt(file, a)
  BY <1>1, CountWord, BetweenWords
<1>4. ASSUME NEW b, FirstWord(file, a, b)
      PROVE  Cardinality(WordsTo(file, b)) = c + 1 + 1
  BY <1>1, <1>3, <1>4, CountWord
<1> HIDE DEF c
<1>5. (c + 1) % 2 = 1 /\ (c + 1 + 1) % 2 = 0
  BY <1>2
<1> QED BY <1>3, <1>4, <1>5 DEF NameAt

(* When no word is left, the map says what the file says.                   *)
LEMMA PairedAtEnd ==
  ASSUME NEW map, NEW file \in Seq(Symbols), NEW pos \in 0..Len(file), Paired(map, file, pos),
         file # Unreadable, \A m \in (pos + 1)..Len(file) : file[m] = Newline
  PROVE  Agrees(map, file)
<1>1. Len(file) \in Nat /\ DOMAIN file = 1..Len(file) /\ pos \in Nat
      /\ (\A m \in DOMAIN file : m \in 1..pos \/ m \in (pos + 1)..Len(file))
      /\ 1..pos \subseteq DOMAIN file
  BY LenProperties
<1>2. \A m \in DOMAIN file : WordAt(file, m) => m \in 1..pos
  BY <1>1 DEF WordAt
<1>3. \A n : NameAt(file, n) => WordAt(file, n) /\ n \in DOMAIN file
  BY DEF NameAt, WordAt
<1>4. WellFormed(file)
  BY <1>1, <1>2 DEF WellFormed, Paired
<1>5. ASSUME NEW g \in Words PROVE map[g] = LineIn(file, g)
  <2> DEFINE M == Mentions(file, pos, g)
  <2>1. M = {n \in DOMAIN file : NameAt(file, n) /\ file[n] = g}
    BY <1>1, <1>2, <1>3 DEF Mentions
  <2>2. EntryAt(map[g], file, pos, g)
    BY DEF Paired
  <2>3. CASE M = {}
    BY <2>1, <2>2, <2>3, LineInFacts DEF EntryAt
  <2>4. CASE M # {}
    <3>1. M \in SUBSET (0..pos)
      BY <1>1 DEF Mentions
    <3>2. PICK last \in M : \A m \in M : m <= last
      BY <1>1, <2>4, <3>1, GreatestBelow
    <3>3. PICK next \in (last + 1)..pos :
             /\ WordAt(file, next) /\ map[g] = file[next]
             /\ \A m \in DOMAIN file : WordAt(file, m) /\ m > last => m >= next
      BY <2>2, <3>2 DEF EntryAt
    <3>4. next \in DOMAIN file /\ next > last
      BY <1>1, <3>1, <3>3
    <3> QED BY <2>1, <3>2, <3>3, <3>4, LineInFacts
  <2> QED BY <2>3, <2>4
<1> QED BY <1>4, <1>5 DEF Agrees

(* A name and its number further.                                           *)
LEMMA PairedFurther ==
  ASSUME NEW map \in [Words -> Numbers], NEW file \in Seq(Symbols), NEW pos \in 0..Len(file),
         Paired(map, file, pos),
         NEW a, FirstWord(file, pos, a), NEW b, FirstWord(file, a, b), file[b] \in Numbers
  PROVE  Paired([map EXCEPT ![file[a]] = file[b]], file, b)
<1>1. Len(file) \in Nat /\ DOMAIN file = 1..Len(file) /\ pos \in Nat
  BY LenProperties
<1>2. /\ a \in 1..Len(file) /\ pos < a /\ a \in Nat /\ WordAt(file, a) /\ file[a] \in Words
      /\ \A m \in 1..Len(file) : WordAt(file, m) /\ m > pos => m >= a
  BY BetweenWords
<1>3. /\ b \in 1..Len(file) /\ a < b /\ b \in Nat /\ WordAt(file, b)
      /\ \A m \in 1..Len(file) : WordAt(file, m) /\ m > a => m >= b
  BY <1>1, <1>2, BetweenWords
<1>4. NameAt(file, a) /\ ~NameAt(file, b) /\ Cardinality(WordsTo(file, b)) % 2 = 0
  BY NameAndNumber
<1>5. \A n : NameAt(file, n) => WordAt(file, n)
  BY DEF NameAt
<1>6. \A n \in 1..b : WordAt(file, n) => n \in 1..pos \/ n = a \/ n = b
  <2>1. ASSUME NEW n \in 1..b, WordAt(file, n), n \notin 1..pos PROVE n = a \/ n = b
    <3>1. n \in 1..Len(file) /\ n \in Nat /\ n > pos
      BY <1>1, <1>3, <2>1
    <3>2. n >= a /\ (n > a => n >= b)
      BY <1>2, <1>3, <2>1, <3>1
    <3> QED BY <1>2, <1>3, <3>1, <3>2
  <2> QED BY <2>1
<1>7. \A n \in 1..b : WordAt(file, n) /\ ~NameAt(file, n) => file[n] \in Numbers
  BY <1>4, <1>6 DEF Paired
<1>8. a \in 1..b /\ 1..pos \subseteq 1..b /\ a \notin 1..pos /\ b \in (a + 1)..b
  BY <1>1, <1>2, <1>3
<1>9. ASSUME NEW g \in Words PROVE EntryAt([map EXCEPT ![file[a]] = file[b]][g], file, b, g)
  <2>1. EntryAt(map[g], file, pos, g)
    BY DEF Paired
  <2>2. CASE g = file[a]
    <3>1. a \in Mentions(file, b, g)
      BY <1>4, <1>8, <2>2 DEF Mentions
    <3>2. ASSUME NEW last \in Mentions(file, b, g), \A m \in Mentions(file, b, g) : m <= last
          PROVE  last = a
      <4>1. last \in 1..b /\ WordAt(file, last) /\ last # b
        BY <1>4, <1>5 DEF Mentions
      <4>2. last \in 1..pos \/ last = a
        BY <1>6, <4>1
      <4>3. a <= last
        BY <3>1, <3>2
      <4> QED BY <1>1, <1>2, <4>2, <4>3
    <3>3. [map EXCEPT ![file[a]] = file[b]][g] = file[b]
      BY <1>2, <2>2
    <3> QED BY <1>1, <1>3, <1>8, <3>1, <3>2, <3>3 DEF EntryAt
  <2>3. CASE g # file[a]
    <3>1. Mentions(file, b, g) = Mentions(file, pos, g)
      BY <1>4, <1>5, <1>6, <1>8, <2>3 DEF Mentions
    <3>2. [map EXCEPT ![file[a]] = file[b]][g] = map[g]
      BY <2>3
    <3>3. \A last : (last + 1)..pos \subseteq (last + 1)..b
      BY <1>1, <1>2, <1>3
    <3> QED BY <2>1, <3>1, <3>2, <3>3 DEF EntryAt
  <2> QED BY <2>2, <2>3
<1> QED BY <1>4, <1>7, <1>9 DEF Paired

(* A last name without a number enters 0.                                   *)
LEMMA PairedName ==
  ASSUME NEW map \in [Words -> Numbers], NEW file \in Seq(Symbols), NEW pos \in 0..Len(file),
         Paired(map, file, pos), file # Unreadable,
         NEW a, FirstWord(file, pos, a), \A m \in (a + 1)..Len(file) : file[m] = Newline
  PROVE  Agrees([map EXCEPT ![file[a]] = Zero], file)
<1>1. Len(file) \in Nat /\ DOMAIN file = 1..Len(file) /\ pos \in Nat
  BY LenProperties
<1>2. /\ a \in 1..Len(file) /\ pos < a /\ a \in Nat /\ WordAt(file, a) /\ file[a] \in Words
      /\ \A m \in 1..Len(file) : WordAt(file, m) /\ m > pos => m >= a
  BY BetweenWords
<1>3. NameAt(file, a)
  BY NameAndNumber
<1>4. \A n : NameAt(file, n) => WordAt(file, n)
  BY DEF NameAt
<1>5. \A n \in DOMAIN file : WordAt(file, n) => n \in 1..pos \/ n = a
  <2>1. ASSUME NEW n \in DOMAIN file, WordAt(file, n), n \notin 1..pos PROVE n = a
    <3>1. n \in Nat /\ n > pos
      BY <1>1, <2>1
    <3>2. n >= a
      BY <1>1, <1>2, <2>1, <3>1
    <3>3. ~(n \in (a + 1)..Len(file))
      BY <2>1 DEF WordAt
    <3> QED BY <1>1, <1>2, <3>1, <3>2, <3>3
  <2> QED BY <2>1
<1>6. WellFormed(file)
  BY <1>3, <1>5 DEF WellFormed, Paired
<1>7. ASSUME NEW g \in Words PROVE [map EXCEPT ![file[a]] = Zero][g] = LineIn(file, g)
  <2> DEFINE M == {n \in DOMAIN file : NameAt(file, n) /\ file[n] = g}
  <2>1. CASE g = file[a]
    <3>1. a \in M
      BY <1>1, <1>2, <1>3, <2>1
    <3>2. \A m \in DOMAIN file : WordAt(file, m) => m <= a
      BY <1>1, <1>2, <1>5
    <3>3. \A m \in M : m <= a
      BY <1>4, <3>2
    <3>4. LineIn(file, g) = Zero
      BY <3>1, <3>2, <3>3, LineInFacts
    <3> QED BY <1>2, <2>1, <3>4
  <2>2. CASE g # file[a]
    <3>1. M = Mentions(file, pos, g)
      <4>1. 1..pos \subseteq DOMAIN file
        BY <1>1
      <4> QED BY <1>4, <1>5, <2>2, <4>1 DEF Mentions
    <3>2. EntryAt(map[g], file, pos, g) /\ [map EXCEPT ![file[a]] = Zero][g] = map[g]
      BY <2>2 DEF Paired
    <3>3. CASE M = {}
      BY <3>1, <3>2, <3>3, LineInFacts DEF EntryAt
    <3>4. CASE M # {}
      <4>1. M \in SUBSET (0..pos)
        BY <1>1, <3>1 DEF Mentions
      <4>2. PICK last \in M : \A m \in M : m <= last
        BY <1>1, <3>4, <4>1, GreatestBelow
      <4>3. PICK next \in (last + 1)..pos :
               /\ WordAt(file, next) /\ map[g] = file[next]
               /\ \A m \in DOMAIN file : WordAt(file, m) /\ m > last => m >= next
        BY <3>1, <3>2, <4>2 DEF EntryAt
      <4>4. next \in DOMAIN file /\ next > last
        BY <1>1, <4>1, <4>3
      <4> QED BY <3>2, <4>2, <4>3, <4>4, LineInFacts
    <3> QED BY <3>3, <3>4
  <2> QED BY <2>1, <2>2
<1> QED BY <1>6, <1>7 DEF Agrees

------------------------------------------------------------------------------
(* The readers.                                                             *)

IsText(file) == file \in Seq(Symbols) /\ file # Unreadable

NameFile == cmd["function-list"]
TraceFile == cmd["dop-dyn"]

(* Options are taken up in one order, and what comes after an option was    *)
(* reached because of what it is.                                           *)
ControlInv ==
    /\ cmd \in Commands
    /\ stage \in Readers \cup {"start", "walk", "map", "scan", "exited", "crashed"}
    /\ cmd["danger"] => stage \in {"start", "exited"}
    /\ stage = "exited" => cmd["danger"]
    /\ stage = "start" => stream = "closed"
    /\ stage = "walk" => Given("vuln-list")
    /\ stage \in {"dop-dyn", "map", "scan"} => ~Given("vuln-list")
    /\ stage = "map" => Given("dop-dyn")
    /\ stage \in Readers /\ stream # "closed" => Given(stage)
    /\ stage \in Readers /\ stream \in {"good", "eof"} => IsText(cmd[stage])
    /\ Listing /\ stream = "fail" => cmd[stage] = Unreadable

(* The names read are those of the lines passed.                            *)
ListInv ==
    /\ functionList \in Seq(Names \cup {EmptyLine})
    /\ stage = "start" \/ (stage = "function-list" /\ stream = "closed") => functionList = <<>>
    /\ stage = "function-list" /\ stream = "good" =>
         \E pos \in 0..Len(NameFile) :
           /\ pos \in Ends(NameFile) /\ text = Behind(NameFile, pos)
           /\ ToSet(functionList) = LinesTo(NameFile, pos)
    /\ (stage = "function-list" /\ stream = "eof")
          \/ stage \in {"vuln-list", "walk", "dop-dyn", "map", "scan"} =>
         IF Given("function-list")
         THEN IsText(NameFile) /\ ToSet(functionList) = TheLines(NameFile)
         ELSE functionList = <<>>

(* The map is that of the pairs passed.                                     *)
TraceInv ==
    /\ temp_map \in [Words -> Numbers]
    /\ stage \in {"start", "function-list", "vuln-list"}
          \/ (stage = "dop-dyn" /\ stream = "closed") => temp_map = [w \in Words |-> Zero]
    /\ stage = "dop-dyn" /\ stream = "good" =>
         \E pos \in 0..Len(TraceFile) :
           text = Behind(TraceFile, pos) /\ Paired(temp_map, TraceFile, pos)
    /\ (stage = "dop-dyn" /\ stream = "eof") \/ stage = "map"
          \/ (stage = "scan" /\ Given("dop-dyn")) =>
         IsText(TraceFile) /\ Agrees(temp_map, TraceFile)

(* A file that is given and opens is a text.                                *)
LEMMA GivenText ==
  ASSUME cmd \in Commands, NEW r \in Readers, Given(r), cmd[r] # Unreadable
  PROVE  IsText(cmd[r])
BY CommandsAssumption DEF IsCommand, IsFile, Given, IsText, Symbols

(* Every step keeps the order of the options.                               *)
LEMMA ControlStep ==
  ASSUME ControlInv, [Next]_vars
  PROVE  ControlInv'
<1> USE DEF ControlInv, Readers, Given, IsText
<1>1. CASE Danger
  BY <1>1 DEF Danger, Listing, lists
<1>2. CASE Begin
  BY <1>2 DEF Begin, Listing, lists
<1>3. CASE SkipOption
  <2>1. stage \in Readers /\ stream = "closed" /\ cmd[stage] = NotGiven
        /\ cmd' = cmd /\ stream' = stream
        /\ stage' = CASE stage = "function-list" -> "vuln-list"
                       [] stage = "vuln-list" -> "dop-dyn"
                       [] stage = "dop-dyn" -> "scan"
    BY <1>3 DEF SkipOption, Without
  <2> QED BY <2>1 DEF Listing
<1>4. CASE Open
  <2>1. stage \in Readers /\ Given(stage) /\ cmd' = cmd /\ stage' = stage
    BY <1>4 DEF Open
  <2>2. CASE cmd[stage] = Unreadable
    <3>1. stream' = "fail"
      BY <1>4, <2>2 DEF Open
    <3> QED BY <2>1, <2>2, <3>1 DEF Listing
  <2>3. CASE cmd[stage] # Unreadable
    <3>1. stream' = "good"
      BY <1>4, <2>3 DEF Open
    <3>2. IsText(cmd[stage])
      BY <2>1, <2>3, GivenText
    <3> QED BY <2>1, <3>1, <3>2 DEF Listing
  <2> QED BY <2>2, <2>3
<1>5. CASE GetLine
  <2>1. stage \in {"function-list", "vuln-list"} /\ stream = "good" /\ stream' \in {"good", "eof"}
        /\ cmd' = cmd /\ stage' = stage
    BY <1>5 DEF GetLine, Listing
  <2> QED BY <2>1 DEF Listing
<1>6. CASE GetNothing
  BY <1>6 DEF GetNothing, Listing, reader
<1>7. CASE OutOfMemory
  BY <1>7 DEF OutOfMemory, Listing
<1>8. CASE ReadNoPair
  BY <1>8 DEF ReadNoPair, Tracing, Listing
<1>9. CASE ReadPair
  <2>1. stage = "dop-dyn" /\ stream = "good" /\ stream' \in {"good", "eof"}
        /\ cmd' = cmd /\ stage' = stage
    BY <1>9 DEF ReadPair, Tracing
  <2> QED BY <2>1 DEF Listing
<1>10. CASE ReadLoneName
  <2>1. stage = "dop-dyn" /\ stream = "good" /\ stream' \in {"eof", "fail"}
        /\ cmd' = cmd /\ stage' = stage
    BY <1>10 DEF ReadLoneName, Tracing
  <2> QED BY <2>1 DEF Listing
<1>11. CASE Close
  <2>1. stage \in Readers /\ stream = "eof" /\ cmd' = cmd /\ stream' = "closed"
        /\ stage' = CASE stage = "function-list" -> "vuln-list"
                       [] stage = "vuln-list" -> "walk"
                       [] stage = "dop-dyn" -> "map"
    BY <1>11 DEF Close, After
  <2> QED BY <2>1 DEF Listing
<1>12. CASE WalkCallers \/ ScanLoops \/ UNCHANGED vars
  <2>1. UNCHANGED <<cmd, stage, stream>>
    BY <1>12 DEF WalkCallers, ScanLoops, vars, taking, reader
  <2> QED BY <2>1 DEF Listing
<1>13. CASE MapTrace
  BY <1>13 DEF MapTrace, Listing
<1>14. CASE MapCrash
  BY <1>14 DEF MapCrash, Listing
<1> QED BY <1>1, <1>2, <1>3, <1>4, <1>5, <1>6, <1>7, <1>8, <1>9, <1>10, <1>11, <1>12, <1>13,
           <1>14 DEF Next, ReadOptions, TakeOptions

(* The names read agree with the lines passed in every state.               *)
LEMMA ListStep ==
  ASSUME ControlInv, ListInv, [Next]_vars
  PROVE  ListInv'
<1>1. CASE /\ UNCHANGED <<cmd, functionList>>
           /\ stage' # "start" /\ ~(stage' = "function-list" /\ stream' \in {"closed", "good"})
           /\ \/ stage = "function-list" /\ stream = "eof"
              \/ stage \in {"vuln-list", "walk", "dop-dyn", "map", "scan"}
              \/ stage' \in {"exited", "crashed"}
              \/ stage' = "function-list" /\ stream' = "fail"
  BY <1>1 DEF ListInv, NameFile, IsText, Given
<1>2. CASE UNCHANGED <<cmd, functionList, stage, stream, text>>
  BY <1>2 DEF ListInv, NameFile, IsText, Given
<1>3. CASE Danger
  <2>1. stage' = "exited" /\ UNCHANGED <<cmd, functionList>>
    BY <1>3 DEF Danger, lists
  <2> QED BY <1>1, <2>1
<1>4. CASE Begin
  <2>1. stage = "start" /\ stage' = "function-list" /\ stream' = "closed"
        /\ UNCHANGED <<cmd, functionList>>
    BY <1>4 DEF Begin, lists, ControlInv
  <2> QED BY <2>1 DEF ListInv
<1>5. CASE SkipOption
  <2>1. /\ stage \in Readers /\ stream = "closed" /\ ~Given(stage)
        /\ UNCHANGED <<cmd, functionList, stream>>
        /\ stage' = CASE stage = "function-list" -> "vuln-list"
                       [] stage = "vuln-list" -> "dop-dyn"
                       [] stage = "dop-dyn" -> "scan"
    BY <1>5 DEF SkipOption, Without, lists
  <2>2. CASE stage = "function-list"
    BY <2>1, <2>2 DEF ListInv, Given
  <2>3. CASE stage \in {"vuln-list", "dop-dyn"}
    <3>1. stage' \in {"dop-dyn", "scan"}
      BY <2>1, <2>3
    <3> QED BY <1>1, <2>1, <2>3, <3>1
  <2> QED BY <2>1, <2>2, <2>3 DEF Readers
<1>6. CASE Open
  <2>1. /\ stage \in Readers /\ stream = "closed" /\ Given(stage)
        /\ UNCHANGED <<cmd, functionList, stage>>
    BY <1>6 DEF Open, lists
  <2>2. CASE stage # "function-list"
    BY <1>1, <2>1, <2>2 DEF Readers
  <2>3. CASE stage = "function-list" /\ NameFile = Unreadable
    <3>1. stream' = "fail"
      BY <1>6, <2>3 DEF Open, NameFile
    <3> QED BY <1>1, <2>1, <2>3, <3>1
  <2>4. CASE stage = "function-list" /\ NameFile # Unreadable
    <3>1. stream' = "good" /\ text' = NameFile
      BY <1>6, <2>4 DEF Open, NameFile
    <3>2. IsText(NameFile)
      BY <2>1, <2>4, GivenText DEF ControlInv, NameFile
    <3>3. Len(NameFile) \in Nat /\ 0 \in 0..Len(NameFile) /\ 0 \in Ends(NameFile)
      BY <3>2, LenProperties DEF IsText, Ends
    <3>4. text' = Behind(NameFile, 0)
      <4>1. SubSeq(NameFile, 1, Len(NameFile)) = NameFile
        BY <3>2, SubSeqFull DEF IsText
      <4>2. 0 + 1 = 1
        OBVIOUS
      <4> QED BY <3>1, <4>1, <4>2 DEF Behind
    <3>5. ToSet(functionList) = LinesTo(NameFile, 0)
      <4>1. functionList = <<>>
        BY <2>1, <2>4 DEF ListInv
      <4>2. ToSet(<<>>) = {}
        BY DEF ToSet
      <4> QED BY <3>2, <4>1, <4>2, LinesAtEnds DEF IsText
    <3> QED BY <2>1, <2>4, <3>1, <3>3, <3>4, <3>5 DEF ListInv, NameFile
  <2> QED BY <2>2, <2>3, <2>4
<1>7. CASE GetLine
  <2>1. /\ stage \in {"function-list", "vuln-list"} /\ stream = "good" /\ UNCHANGED <<cmd, stage>>
        /\ stream' = IF LineEnd(text) <= Len(text) THEN "good" ELSE "eof"
        /\ text' = SubSeq(text, LineEnd(text) + 1, Len(text))
        /\ push_back(Line(SubSeq(text, 1, LineEnd(text) - 1)))
    BY <1>7 DEF GetLine, Listing
  <2>2. CASE stage = "vuln-list"
    BY <1>1, <2>1, <2>2 DEF push_back
  <2>3. CASE stage = "function-list"
    <3> DEFINE F == NameFile
               end == LineEnd(text)
    <3>1. PICK pos \in 0..Len(F) : /\ pos \in Ends(F) /\ text = Behind(F, pos)
                                   /\ ToSet(functionList) = LinesTo(F, pos)
      BY <2>1, <2>3 DEF ListInv
    <3>2. F \in Seq(Symbols) /\ F # Unreadable /\ Given("function-list")
      BY <2>1, <2>3 DEF ControlInv, IsText, NameFile, Readers
    <3>3. /\ Len(F) \in Nat /\ Len(text) = Len(F) - pos
      BY <3>1, <3>2, BehindFacts
    <3>4. /\ end \in 1..(Len(F) - pos + 1)
          /\ pos + end <= Len(F) => F[pos + end] = Newline
          /\ \A m \in (pos + 1)..(pos + end - 1) : m \in 1..Len(F) /\ F[m] # Newline
      BY <3>1, <3>2, LineEndFacts
    <3> HIDE DEF end
    <3>5. /\ pos + end \in Ends(F)
          /\ LinesTo(F, pos + end)
               = LinesTo(F, pos) \cup {Line(SubSeq(F, pos + 1, pos + end - 1))}
      <4> HIDE DEF F
      <4> QED BY <3>1, <3>2, <3>4, LinesFurther
    <3>6. SubSeq(text, 1, end - 1) = SubSeq(F, pos + 1, pos + end - 1)
      <4>1. /\ 1 \in 1..(Len(F) - pos + 1) /\ end - 1 \in 0..(Len(F) - pos)
            /\ pos + (end - 1) = pos + end - 1
        BY <3>3, <3>4
      <4> QED BY <3>1, <3>2, <4>1, BehindPart
    <3>7. functionList' = Append(functionList, Line(SubSeq(F, pos + 1, pos + end - 1)))
      BY <2>1, <2>3, <3>6 DEF push_back, end
    <3>8. Line(SubSeq(F, pos + 1, pos + end - 1)) \in Names \cup {EmptyLine}
      <4>1. pos \in Nat /\ pos + end - 1 \in Nat
        BY <3>3, <3>4
      <4> HIDE DEF F
      <4> QED BY <3>2, <3>4, <4>1, LineType
    <3>9. /\ functionList' \in Seq(Names \cup {EmptyLine})
          /\ ToSet(functionList') = LinesTo(F, pos + end)
      <4> DEFINE name == Line(SubSeq(F, pos + 1, pos + end - 1))
      <4>1. functionList \in Seq(Names \cup {EmptyLine}) /\ name \in Names \cup {EmptyLine}
            /\ functionList' = Append(functionList, name)
            /\ ToSet(functionList) \cup {name} = LinesTo(F, pos + end)
        BY <3>1, <3>5, <3>7, <3>8 DEF ListInv
      <4> HIDE DEF name, F
      <4>2. /\ Append(functionList, name) \in Seq(Names \cup {EmptyLine})
            /\ ToSet(Append(functionList, name)) = ToSet(functionList) \cup {name}
        BY <4>1, AppendContents
      <4> QED BY <4>1, <4>2
    <3>10. F' = F /\ Given("function-list")'
      BY <2>1, <3>2 DEF NameFile, Given
    <3>11. CASE end <= Len(text)
      <4>1. end \in 0..(Len(F) - pos) /\ pos + end \in 0..Len(F)
        BY <3>3, <3>4, <3>11
      <4>2. text' = Behind(F, pos + end)
        BY <2>1, <3>1, <3>2, <4>1, BehindBehind DEF end
      <4>3. stream' = "good"
        BY <2>1, <3>11 DEF end
      <4> QED BY <2>1, <2>3, <3>5, <3>9, <3>10, <4>1, <4>2, <4>3 DEF ListInv
    <3>12. CASE ~(end <= Len(text))
      <4>1. pos + end = Len(F) + 1
        BY <3>3, <3>4, <3>12
      <4>2. stream' = "eof"
        BY <2>1, <3>12 DEF end
      <4>3. ToSet(functionList') = TheLines(F)
        BY <3>2, <3>9, <4>1, LinesAtEnds
      <4>4. IsText(F)'
        BY <3>2, <3>10 DEF IsText
      <4> QED BY <2>1, <2>3, <3>9, <3>10, <4>2, <4>3, <4>4 DEF ListInv
    <3> QED BY <3>11, <3>12
  <2> QED BY <2>1, <2>2, <2>3
<1>8. CASE GetNothing
  <2>1. /\ stage \in {"function-list", "vuln-list"} /\ stream = "fail"
        /\ UNCHANGED <<cmd, stage, stream, text>> /\ push_back(EmptyLine)
    BY <1>8 DEF GetNothing, Listing, reader
  <2>2. CASE stage = "vuln-list"
    BY <1>1, <2>1, <2>2 DEF push_back
  <2>3. CASE stage = "function-list"
    <3>1. functionList' = Append(functionList, EmptyLine)
      BY <2>1, <2>3 DEF push_back
    <3>2. functionList' \in Seq(Names \cup {EmptyLine})
      BY <3>1, AppendContents DEF ListInv
    <3> QED BY <2>1, <2>3, <3>2 DEF ListInv
  <2> QED BY <2>1, <2>2, <2>3
<1>9. CASE OutOfMemory
  <2>1. stage' = "crashed" /\ UNCHANGED <<cmd, functionList>>
    BY <1>9 DEF OutOfMemory, lists
  <2> QED BY <1>1, <2>1
<1>10. CASE ReadNoPair \/ ReadPair \/ ReadLoneName
  <2>1. stage = "dop-dyn" /\ UNCHANGED <<cmd, stage, functionList>>
    BY <1>10 DEF ReadNoPair, ReadPair, ReadLoneName, Tracing, lists
  <2> QED BY <1>1, <2>1
<1>11. CASE Close
  <2>1. stage \in Readers /\ stream = "eof" /\ UNCHANGED <<cmd, functionList>>
        /\ stage' = CASE stage = "function-list" -> "vuln-list"
                       [] stage = "vuln-list" -> "walk"
                       [] stage = "dop-dyn" -> "map"
    BY <1>11 DEF Close, After, lists
  <2>2. stage' \in {"vuln-list", "walk", "map"}
    BY <2>1 DEF Readers
  <2> QED BY <1>1, <2>1, <2>2 DEF Readers
<1>12. CASE WalkCallers \/ ScanLoops \/ UNCHANGED vars
  <2>1. UNCHANGED <<cmd, stage, stream, text, functionList>>
    BY <1>12 DEF WalkCallers, ScanLoops, vars, taking, reader, lists
  <2> QED BY <1>2, <2>1
<1>13. CASE MapTrace \/ MapCrash
  <2>1. stage = "map" /\ stage' \in {"scan", "crashed"} /\ UNCHANGED <<cmd, functionList>>
    BY <1>13 DEF MapTrace, MapCrash, lists
  <2> QED BY <1>1, <2>1
<1> QED BY <1>3, <1>4, <1>5, <1>6, <1>7, <1>8, <1>9, <1>10, <1>11, <1>12, <1>13
        DEF Next, ReadOptions, TakeOptions

(* The map agrees with the pairs passed in every state.                     *)
LEMMA TraceStep ==
  ASSUME ControlInv, TraceInv, [Next]_vars
  PROVE  TraceInv'
<1>1. CASE /\ UNCHANGED <<cmd, temp_map>>
           /\ \/ /\ stage \in {"start", "function-list", "vuln-list"}
                 /\ \/ stage' \in {"start", "function-list", "vuln-list", "walk"}
                    \/ stage' = "dop-dyn" /\ stream' = "closed"
              \/ stage = "walk" /\ stage' = "walk"
              \/ stage' \in {"exited", "crashed"}
              \/ stage' = "dop-dyn" /\ stream' = "fail"
              \/ stage = "dop-dyn" /\ stream = "eof" /\ stage' = "map"
              \/ stage = "map" /\ stage' = "scan"
              \/ stage = "dop-dyn" /\ ~Given("dop-dyn") /\ stage' = "scan"
              \/ UNCHANGED <<stage, stream, text>>
  BY <1>1 DEF TraceInv, TraceFile, IsText, Given
<1>2. CASE Danger
  <2>1. stage' = "exited" /\ UNCHANGED <<cmd, temp_map>>
    BY <1>2 DEF Danger, lists
  <2> QED BY <1>1, <2>1
<1>3. CASE Begin
  <2>1. stage = "start" /\ stage' = "function-list" /\ UNCHANGED <<cmd, temp_map>>
    BY <1>3 DEF Begin, lists
  <2> QED BY <1>1, <2>1
<1>4. CASE SkipOption
  <2>1. /\ stage \in Readers /\ stream = "closed" /\ ~Given(stage)
        /\ UNCHANGED <<cmd, temp_map, stream>>
        /\ stage' = CASE stage = "function-list" -> "vuln-list"
                       [] stage = "vuln-list" -> "dop-dyn"
                       [] stage = "dop-dyn" -> "scan"
    BY <1>4 DEF SkipOption, Without, lists
  <2>2. CASE stage = "dop-dyn"
    BY <1>1, <2>1, <2>2
  <2>3. CASE stage \in {"function-list", "vuln-list"}
    <3>1. stage' \in {"vuln-list", "dop-dyn"} /\ stream' = "closed"
      BY <2>1, <2>3
    <3> QED BY <1>1, <2>1, <2>3, <3>1
  <2> QED BY <2>1, <2>2, <2>3 DEF Readers
<1>5. CASE Open
  <2>1. /\ stage \in Readers /\ stream = "closed" /\ Given(stage)
        /\ UNCHANGED <<cmd, temp_map, stage>>
    BY <1>5 DEF Open, lists
  <2>2. CASE stage # "dop-dyn"
    BY <1>1, <2>1, <2>2 DEF Readers
  <2>3. CASE stage = "dop-dyn" /\ TraceFile = Unreadable
    <3>1. stream' = "fail"
      BY <1>5, <2>3 DEF Open, TraceFile
    <3> QED BY <1>1, <2>1, <2>3, <3>1
  <2>4. CASE stage = "dop-dyn" /\ TraceFile # Unreadable
    <3>1. stream' = "good" /\ text' = TraceFile
      BY <1>5, <2>4 DEF Open, TraceFile
    <3>2. TraceFile \in Seq(Symbols)
      BY <2>1, <2>4, GivenText DEF ControlInv, TraceFile, IsText
    <3>3. 0 \in 0..Len(TraceFile)
      BY <3>2, LenProperties
    <3>4. text' = Behind(TraceFile, 0)
      <4>1. SubSeq(TraceFile, 1, Len(TraceFile)) = TraceFile
        BY <3>2, SubSeqFull
      <4>2. 0 + 1 = 1
        OBVIOUS
      <4> QED BY <3>1, <4>1, <4>2 DEF Behind
    <3>5. Paired(temp_map, TraceFile, 0)
      BY <2>1, <2>4, PairedAtStart DEF TraceInv
    <3> QED BY <2>1, <2>4, <3>1, <3>3, <3>4, <3>5 DEF TraceInv, TraceFile
  <2> QED BY <2>2, <2>3, <2>4
<1>6. CASE GetLine \/ GetNothing
  <2>1. /\ stage \in {"function-list", "vuln-list"} /\ UNCHANGED <<cmd, stage, temp_map>>
    BY <1>6 DEF GetLine, GetNothing, Listing, push_back, reader
  <2> QED BY <1>1, <2>1
<1>7. CASE OutOfMemory
  <2>1. stage' = "crashed" /\ UNCHANGED <<cmd, temp_map>>
    BY <1>7 DEF OutOfMemory, lists
  <2> QED BY <1>1, <2>1
<1>8. CASE ReadNoPair \/ ReadPair \/ ReadLoneName
  <2> DEFINE T == TraceFile
             from == DropBlank(text)
             rest == DropBlank(Tail(from))
  <2>1. stage = "dop-dyn" /\ stream = "good" /\ UNCHANGED <<cmd, stage>>
    BY <1>8 DEF ReadNoPair, ReadPair, ReadLoneName, Tracing
  <2>2. PICK pos \in 0..Len(T) : text = Behind(T, pos) /\ Paired(temp_map, T, pos)
    BY <2>1 DEF TraceInv
  <2>3. T \in Seq(Symbols) /\ T # Unreadable /\ Given("dop-dyn") /\ T' = T
    BY <2>1 DEF ControlInv, IsText, TraceFile, Readers
  <2>4. \/ from = <<>> /\ \A m \in (pos + 1)..Len(T) : T[m] = Newline
        \/ /\ from # <<>>
           /\ \E a \in (pos + 1)..Len(T) :
                FirstWord(T, pos, a) /\ Head(from) = T[a] /\ Tail(from) = Behind(T, a)
    BY <2>2, <2>3, DropBlankFacts
  <2>5. temp_map \in [Words -> Numbers] /\ Zero \in Numbers
    BY WordsAssumption DEF TraceInv
  <2>6. ASSUME stream' = "eof", temp_map' \in [Words -> Numbers], Agrees(temp_map', T)
        PROVE  TraceInv'
    <3>1. IsText(T)' /\ T' = T
      BY <2>3 DEF IsText
    <3> QED BY <2>1, <2>6, <3>1 DEF TraceInv
  <2>7. CASE ReadNoPair
    <3>1. from = <<>> /\ stream' = "eof" /\ temp_map' = temp_map
      BY <2>7 DEF ReadNoPair, lists
    <3>2. Agrees(temp_map, T)
      <4> HIDE DEF T, from
      <4> QED BY <2>2, <2>3, <2>4, <3>1, PairedAtEnd
    <3> QED BY <2>5, <2>6, <3>1, <3>2
  <2>8. CASE from # <<>> /\ (ReadPair \/ ReadLoneName)
    <3>1. PICK a \in (pos + 1)..Len(T) :
                FirstWord(T, pos, a) /\ Head(from) = T[a] /\ Tail(from) = Behind(T, a)
      BY <2>4, <2>8
    <3>2. a \in 0..Len(T) /\ T[a] \in Words
      <4> HIDE DEF T
      <4>1. Len(T) \in Nat
        BY <2>3, LenProperties
      <4>2. a \in 1..Len(T) /\ T[a] \in Words
        BY <2>2, <2>3, <3>1, BetweenWords
      <4> QED BY <4>1, <4>2
    <3>3. \/ rest = <<>> /\ \A m \in (a + 1)..Len(T) : T[m] = Newline
          \/ /\ rest # <<>>
             /\ \E b \in (a + 1)..Len(T) :
                  FirstWord(T, a, b) /\ Head(rest) = T[b] /\ Tail(rest) = Behind(T, b)
      BY <2>3, <3>1, <3>2, DropBlankFacts
    <3>4. CASE ReadPair
      <4>1. /\ rest # <<>> /\ Head(rest) \in Numbers
            /\ temp_map' = [temp_map EXCEPT ![Head(from)] = Head(rest)]
            /\ text' = Tail(rest)
            /\ stream' = IF Tail(rest) = <<>> THEN "eof" ELSE "good"
        BY <3>4 DEF ReadPair, Enter
      <4>2. PICK b \in (a + 1)..Len(T) :
                  FirstWord(T, a, b) /\ Head(rest) = T[b] /\ Tail(rest) = Behind(T, b)
        BY <3>3, <4>1
      <4>3. b \in 0..Len(T)
        <5> HIDE DEF T
        <5>1. Len(T) \in Nat
          BY <2>3, LenProperties
        <5>2. b \in 1..Len(T)
          BY <2>3, <3>2, <4>2, BetweenWords
        <5> QED BY <5>1, <5>2
      <4>4. temp_map' = [temp_map EXCEPT ![T[a]] = T[b]] /\ T[b] \in Numbers
        BY <3>1, <4>1, <4>2
      <4>5. Paired(temp_map', T, b)
        <5> HIDE DEF T
        <5> QED BY <2>2, <2>3, <2>5, <3>1, <4>2, <4>4, PairedFurther
      <4>6. temp_map' \in [Words -> Numbers]
        BY <2>5, <3>2, <4>4
      <4>7. CASE Tail(rest) = <<>>
        <5>1. stream' = "eof"
          BY <4>1, <4>7
        <5>2. b = Len(T)
          BY <2>3, <4>2, <4>3, <4>7, BehindFacts
        <5>3. \A m \in (b + 1)..Len(T) : FALSE
          BY <4>3, <5>2
        <5>4. Agrees(temp_map', T)
          <6> HIDE DEF T
          <6> QED BY <2>3, <4>3, <4>5, <5>3, PairedAtEnd
        <5> QED BY <2>6, <4>6, <5>1, <5>4
      <4>8. CASE Tail(rest) # <<>>
        <5>1. stream' = "good" /\ text' = Behind(T, b)
          BY <4>1, <4>2, <4>8
        <5> QED BY <2>1, <2>3, <4>3, <4>5, <4>6, <5>1 DEF TraceInv
      <4> QED BY <4>7, <4>8
    <3>5. CASE ReadLoneName
      <4>1. /\ temp_map' = [temp_map EXCEPT ![Head(from)] = Zero]
            /\ stream' = IF rest = <<>> THEN "eof" ELSE "fail"
        BY <3>5 DEF ReadLoneName, Enter
      <4>2. temp_map' = [temp_map EXCEPT ![T[a]] = Zero]
        BY <3>1, <4>1
      <4>3. temp_map' \in [Words -> Numbers]
        BY <2>5, <3>2, <4>2
      <4>4. CASE rest = <<>>
        <5>1. Agrees(temp_map', T)
          <6> HIDE DEF T, rest
          <6> QED BY <2>2, <2>3, <2>5, <3>1, <3>3, <4>2, <4>4, PairedName
        <5> QED BY <2>6, <4>1, <4>3, <4>4, <5>1
      <4>5. CASE rest # <<>>
        <5>1. stream' = "fail"
          BY <4>1, <4>5
        <5> QED BY <2>1, <4>3, <5>1 DEF TraceInv
      <4> QED BY <4>4, <4>5
    <3> QED BY <2>8, <3>4, <3>5
  <2>9. ReadPair \/ ReadLoneName => from # <<>>
    BY DEF ReadPair, ReadLoneName
  <2> QED BY <1>8, <2>7, <2>8, <2>9
<1>9. CASE Close
  <2>1. stage \in Readers /\ stream = "eof" /\ UNCHANGED <<cmd, temp_map>>
        /\ stage' = CASE stage = "function-list" -> "vuln-list"
                       [] stage = "vuln-list" -> "walk"
                       [] stage = "dop-dyn" -> "map"
    BY <1>9 DEF Close, After, lists
  <2>2. CASE stage = "dop-dyn"
    BY <1>1, <2>1, <2>2
  <2>3. CASE stage \in {"function-list", "vuln-list"}
    <3>1. stage' \in {"vuln-list", "walk"}
      BY <2>1, <2>3
    <3> QED BY <1>1, <2>1, <2>3, <3>1
  <2> QED BY <2>1, <2>2, <2>3 DEF Readers
<1>10. CASE WalkCallers \/ ScanLoops \/ UNCHANGED vars
  <2>1. UNCHANGED <<cmd, stage, stream, text, temp_map>>
    BY <1>10 DEF WalkCallers, ScanLoops, vars, taking, reader, lists
  <2> QED BY <1>1, <2>1
<1>11. CASE MapTrace \/ MapCrash
  <2>1. stage = "map" /\ stage' \in {"scan", "crashed"} /\ UNCHANGED <<cmd, temp_map>>
    BY <1>11 DEF MapTrace, MapCrash, lists
  <2> QED BY <1>1, <2>1
<1> QED BY <1>2, <1>3, <1>4, <1>5, <1>6, <1>7, <1>8, <1>9, <1>10, <1>11
        DEF Next, ReadOptions, TakeOptions

------------------------------------------------------------------------------
(* The scan that RunOnModule runs is the one the theorems are about.        *)

(* Modules are the same.                                                    *)
LEMMA SameModules == \A m \in Modules : S!IsModule(m)
BY ModulesAssumption DEF Scan!IsModule, S!IsModule, Scan!ToSet, S!ToSet, Scan!IsInjective, S!IsInjective

(* What is selected and explored is the same.                               *)
LEMMA SameScan ==
  /\ Scan!AtFunction <=> S!AtFunction
  /\ Scan!AtLoop <=> S!AtLoop
  /\ Scan!Fun = S!Fun /\ Scan!Loops = S!Loops /\ Scan!Inst = S!Inst
  /\ \A fun, loop : Scan!Selected(fun, loop) <=> S!Selected(fun, loop)
  /\ \A x : Scan!Explored(x) = S!Explored(x)
  /\ \A T, v : Scan!Verdicts(T, v) = S!Verdicts(T, v)
<1>1. Scan!Fun = S!Fun /\ Scan!Loops = S!Loops /\ Scan!Inst = S!Inst
  BY DEF Scan!Fun, S!Fun, Scan!Loops, S!Loops, Scan!Inst, S!Inst
<1>2. (Scan!AtFunction <=> S!AtFunction) /\ (Scan!AtLoop <=> S!AtLoop)
  BY <1>1 DEF Scan!AtFunction, S!AtFunction, Scan!AtLoop, S!AtLoop
<1>3. \A fun, loop : Scan!Selected(fun, loop) <=> S!Selected(fun, loop)
  BY DEF Scan!Selected, S!Selected, Scan!checkFunction, S!checkFunction, Scan!ToSet, S!ToSet
<1>4. \A g : Scan!Callees(g) = S!Callees(g) /\ Scan!StoresOf(g) = S!StoresOf(g)
  BY DEF Scan!Callees, S!Callees, Scan!StoresOf, S!StoresOf, Scan!ToSet, S!ToSet
<1>5. \A x : Scan!Explored(x) = S!Explored(x)
  BY <1>4 DEF Scan!Explored, S!Explored, Scan!CalledFunction, S!CalledFunction
<1>6. \A T, v : Scan!Verdicts(T, v) = S!Verdicts(T, v)
  BY DEF Scan!Verdicts, S!Verdicts
<1> QED BY <1>1, <1>2, <1>3, <1>5, <1>6

(* So are the steps.                                                        *)
LEMMA SameScanStep == Scan!Next <=> S!Next
<1>1. Scan!SkipDeclaration <=> S!SkipDeclaration
  BY SameScan DEF Scan!SkipDeclaration, S!SkipDeclaration, Scan!input, S!input, Scan!counters, S!counters
<1>2. Scan!SkipLoop <=> S!SkipLoop
  BY SameScan DEF Scan!SkipLoop, S!SkipLoop, Scan!input, S!input, Scan!counters, S!counters
<1>3. Scan!EnterLoop <=> S!EnterLoop
  BY SameScan DEF Scan!EnterLoop, S!EnterLoop, Scan!input, S!input, Scan!counters, S!counters
<1>4. Scan!VisitInstruction <=> S!VisitInstruction
  BY SameScan DEF Scan!VisitInstruction, S!VisitInstruction, Scan!input, S!input,
                  Scan!counters, S!counters
<1>5. Scan!Abort <=> S!Abort
  BY SameScan DEF Scan!Abort, S!Abort, Scan!input, S!input, Scan!counters, S!counters,
                  Scan!position, S!position
<1>6. Scan!LeaveLoop <=> S!LeaveLoop
  BY SameScan DEF Scan!LeaveLoop, S!LeaveLoop, Scan!input, S!input, Scan!counters, S!counters
<1>7. Scan!LeaveFunction <=> S!LeaveFunction
  BY SameScan DEF Scan!LeaveFunction, S!LeaveFunction, Scan!input, S!input,
                  Scan!counters, S!counters
<1>8. Scan!Report <=> S!Report
  BY SameScan DEF Scan!Report, S!Report, Scan!input, S!input, Scan!counters, S!counters,
                  Scan!position, S!position
<1> QED BY <1>1, <1>2, <1>3, <1>4, <1>5, <1>6, <1>7, <1>8 DEF Scan!Next, S!Next

(* What is proved of a scan in progress.                                    *)
ScanKnown == S!WellTyped /\ S!ResultInv /\ S!TotalInv

(* It holds before the first step, whatever the options,                    *)
LEMMA ScanBegins == S!Fresh => ScanKnown
BY SameModules, S!TypeInit, S!ResultInit, S!CountInit DEF ScanKnown

(* and after every step,                                                    *)
LEMMA ScanGoesOn ==
  ASSUME ScanKnown, Scan!Next \/ UNCHANGED S!vars
  PROVE  ScanKnown'
<1>1. [S!Next]_(S!vars)
  BY SameScanStep
<1> QED BY <1>1, SameModules, S!TypeStep, S!ResultStep, S!TotalStep DEF ScanKnown

(* so that the report is exact in the end.                                  *)
LEMMA ScanEndsExact == ScanKnown => S!ReportIsExact
BY SameModules, S!ExactAtEnd DEF ScanKnown

------------------------------------------------------------------------------
(* The instructions a trace is about.                                       *)

(* Functions in the trace have a line in its file, and only those with a    *)
(* body have instructions.                                                  *)
LEMMA TracedFacts ==
  ASSUME module \in Modules, Agrees(temp_map, TraceFile)
  PROVE  /\ UNION {{x \in BodyOf({g}) : DebugLine[x] = temp_map[g]} : g \in Traced}
              = TracedInsts(TraceFile)
         /\ \A x \in BodyOf(Traced) :
              \E g \in module.defined :
                x \in Insts /\ x \in BodyOf({g}) /\ LineIn(TraceFile, g) # Zero
<1>1. /\ module.functions \in Seq(Functions)
      /\ module.body \in [Functions -> Seq(Insts)]
      /\ \A g \in Functions : g \notin module.defined => module.body[g] = <<>>
      /\ module.defined \subseteq ToSet(module.functions)
  BY ModulesAssumption DEF Scan!IsModule
<1>2. ToSet(module.functions) \subseteq Functions
  <2>1. /\ DOMAIN module.functions = 1..Len(module.functions)
        /\ \A n \in 1..Len(module.functions) : module.functions[n] \in Functions
    BY <1>1, LenProperties, ElementOfSeq
  <2> QED BY <2>1 DEF ToSet
<1>3. \A g \in ToSet(module.functions) : temp_map[g] = LineIn(TraceFile, g)
  BY <1>2 DEF Agrees, Words
<1>4. \A g : BodyOf({g}) = ToSet(module.body[g])
  BY DEF BodyOf
<1>5. ASSUME NEW g \in ToSet(module.functions), NEW x \in BodyOf({g})
      PROVE  g \in module.defined /\ x \in Insts
  <2>1. x \in ToSet(module.body[g]) /\ g \in Functions
    BY <1>2, <1>4, <1>5
  <2>2. g \in module.defined
    <3>1. ToSet(<<>>) = {}
      BY DEF ToSet
    <3> QED BY <1>1, <2>1, <3>1
  <2>3. x \in Insts
    <3>1. module.body[g] \in Seq(Insts)
      BY <1>1, <2>1
    <3>2. /\ DOMAIN module.body[g] = 1..Len(module.body[g])
          /\ \A n \in 1..Len(module.body[g]) : module.body[g][n] \in Insts
      BY <3>1, LenProperties, ElementOfSeq
    <3> QED BY <2>1, <3>2 DEF ToSet
  <2> QED BY <2>2, <2>3
<1>6. ASSUME NEW x
      PROVE  x \in UNION {{y \in BodyOf({g}) : DebugLine[y] = temp_map[g]} : g \in Traced}
               <=> x \in TracedInsts(TraceFile)
  <2>1. x \in UNION {{y \in BodyOf({g}) : DebugLine[y] = temp_map[g]} : g \in Traced}
          <=> \E g \in ToSet(module.functions) :
                temp_map[g] # Zero /\ x \in BodyOf({g}) /\ DebugLine[x] = temp_map[g]
    <3> DEFINE There(g) == {y \in BodyOf({g}) : DebugLine[y] = temp_map[g]}
    <3>1. \A g : x \in There(g) <=> x \in BodyOf({g}) /\ DebugLine[x] = temp_map[g]
      OBVIOUS
    <3>2. \A g : g \in Traced <=> g \in ToSet(module.functions) /\ temp_map[g] # Zero
      BY DEF Traced
    <3> HIDE DEF There
    <3>3. x \in UNION {There(g) : g \in Traced} <=> \E g \in Traced : x \in There(g)
      OBVIOUS
    <3>4. x \in UNION {There(g) : g \in Traced}
            <=> \E g \in ToSet(module.functions) :
                  temp_map[g] # Zero /\ x \in BodyOf({g}) /\ DebugLine[x] = temp_map[g]
      BY <3>1, <3>2, <3>3
    <3> QED BY <3>4 DEF There
  <2>2. x \in TracedInsts(TraceFile)
          <=> \E g \in module.defined :
                /\ LineIn(TraceFile, g) # Zero
                /\ x \in BodyOf({g}) /\ DebugLine[x] = LineIn(TraceFile, g)
    <3> DEFINE Here(g) == {y \in BodyOf({g}) : LineIn(TraceFile, g) # Zero
                                              /\ DebugLine[y] = LineIn(TraceFile, g)}
    <3>1. TracedInsts(TraceFile) = UNION {Here(g) : g \in module.defined}
      BY DEF TracedInsts
    <3>2. \A g : x \in Here(g) <=> /\ LineIn(TraceFile, g) # Zero
                                  /\ x \in BodyOf({g}) /\ DebugLine[x] = LineIn(TraceFile, g)
      OBVIOUS
    <3> HIDE DEF Here
    <3> QED BY <3>1, <3>2
  <2> QED BY <1>1, <1>3, <1>5, <2>1, <2>2
<1>7. ASSUME NEW x \in BodyOf(Traced)
      PROVE  \E g \in module.defined :
               x \in Insts /\ x \in BodyOf({g}) /\ LineIn(TraceFile, g) # Zero
  <2>1. PICK g \in Traced : x \in BodyOf({g})
    BY <1>4, <1>7 DEF BodyOf
  <2>2. g \in ToSet(module.functions) /\ temp_map[g] # Zero
    BY <2>1 DEF Traced
  <2> QED BY <1>3, <1>5, <2>1, <2>2
<1> QED BY <1>6, <1>7

------------------------------------------------------------------------------
(* The scan and the walk within the pass.                                   *)

(* The scan is untouched until its options are complete; from then on they  *)
(* are what the trace says.                                                 *)
ScanInv ==
    /\ stage # "scan" => S!Fresh /\ dyn_map = {}
    /\ stage = "scan" => dyn_map = IF Given("dop-dyn") THEN TracedInsts(TraceFile) ELSE {}
    /\ ScanKnown

(* A walk leaves its start only when it is its turn.                        *)
WalkInv == stage # "walk" => walk = "choosing"

(* Why a run crashed.                                                       *)
CrashInv ==
    stage = "crashed" =>
      \/ Unreadable \in {NameFile, cmd["vuln-list"]}
      \/ /\ ~Given("vuln-list") /\ Given("dop-dyn")
         /\ \E g \in module.defined, x \in Insts :
              /\ x \in BodyOf({g}) /\ DebugLine[x] = NoLocation
              /\ LineIn(TraceFile, g) # Zero

(* Readers change neither the module nor the scan nor the walk, and only    *)
(* the reader of a trace, if it is not given, hands over to the scan.       *)
LEMMA ReadFrame ==
  ASSUME ReadOptions
  PROVE  /\ UNCHANGED <<cmd, dyn_map, module, scanning, walking>>
         /\ stage \in Readers \cup {"start"} /\ stage' \in Readers \cup {"walk", "map", "scan", "exited", "crashed"}
         /\ stage' = "scan" => ~Given("dop-dyn")
         /\ stage' = "crashed" => OutOfMemory
<1> USE DEF Readers
<1>1. TakeOptions /\ UNCHANGED <<dyn_map, module, scanning, walking>>
  BY DEF ReadOptions
<1>2. CASE Danger
  BY <1>1, <1>2 DEF Danger
<1>3. CASE Begin
  BY <1>1, <1>3 DEF Begin
<1>4. CASE SkipOption
  <2>1. stage \in Readers /\ ~Given(stage) /\ cmd' = cmd
        /\ stage' = CASE stage = "function-list" -> "vuln-list"
                       [] stage = "vuln-list" -> "dop-dyn"
                       [] stage = "dop-dyn" -> "scan"
    BY <1>4 DEF SkipOption, Without
  <2> QED BY <1>1, <2>1
<1>5. CASE Open
  BY <1>1, <1>5 DEF Open
<1>6. CASE GetLine
  BY <1>1, <1>6 DEF GetLine, Listing
<1>7. CASE GetNothing
  BY <1>1, <1>7 DEF GetNothing, Listing, reader
<1>8. CASE OutOfMemory
  BY <1>1, <1>8 DEF OutOfMemory, Listing
<1>9. CASE ReadNoPair \/ ReadPair \/ ReadLoneName
  BY <1>1, <1>9 DEF ReadNoPair, ReadPair, ReadLoneName, Tracing
<1>10. CASE Close
  <2>1. stage \in Readers /\ cmd' = cmd
        /\ stage' = CASE stage = "function-list" -> "vuln-list"
                       [] stage = "vuln-list" -> "walk"
                       [] stage = "dop-dyn" -> "map"
    BY <1>10 DEF Close, After
  <2> QED BY <1>1, <2>1
<1> QED BY <1>1, <1>2, <1>3, <1>4, <1>5, <1>6, <1>7, <1>8, <1>9, <1>10 DEF TakeOptions

(* Before the scan every step leaves it untouched, and then it runs alone.  *)
LEMMA ScanStep ==
  ASSUME ControlInv, TraceInv, ScanInv, [Next]_vars
  PROVE  ScanInv'
<1>1. (S!Fresh => ScanKnown)'
  BY ScanBegins, PTL
<1>2. ASSUME stage # "scan", UNCHANGED <<module, scanning>>,
             stage' # "scan" => dyn_map' = {},
             stage' = "scan" =>
               dyn_map' = IF Given("dop-dyn")' THEN TracedInsts(TraceFile)' ELSE {}
      PROVE  ScanInv'
  <2>1. S!Fresh'
    BY <1>2 DEF ScanInv, S!Fresh, scanning
  <2> QED BY <1>1, <1>2, <2>1 DEF ScanInv
<1>3. CASE ReadOptions
  <2>1. UNCHANGED <<cmd, dyn_map, module, scanning>> /\ stage # "scan"
        /\ (stage' = "scan" => ~Given("dop-dyn"))
    BY <1>3, ReadFrame DEF Readers
  <2> QED BY <1>2, <2>1 DEF ScanInv, Given
<1>4. CASE WalkCallers
  <2>1. UNCHANGED <<stage, dyn_map, module, scanning>> /\ stage = "walk"
    BY <1>4 DEF WalkCallers, taking, reader
  <2> QED BY <1>2, <2>1 DEF ScanInv
<1>5. CASE MapCrash
  <2>1. UNCHANGED <<dyn_map, module, scanning>> /\ stage = "map" /\ stage' = "crashed"
    BY <1>5 DEF MapCrash
  <2> QED BY <1>2, <2>1 DEF ScanInv
<1>6. CASE MapTrace
  <2>1. UNCHANGED <<cmd, module, scanning>> /\ stage = "map" /\ stage' = "scan"
        /\ dyn_map' = UNION {{x \in BodyOf({g}) : DebugLine[x] = temp_map[g]} : g \in Traced}
    BY <1>6 DEF MapTrace
  <2>2. module \in Modules /\ Agrees(temp_map, TraceFile) /\ Given("dop-dyn")
    BY <2>1 DEF ScanInv, S!Fresh, TraceInv, ControlInv
  <2>3. dyn_map' = TracedInsts(TraceFile)
    BY <2>1, <2>2, TracedFacts
  <2>4. Given("dop-dyn")' /\ TracedInsts(TraceFile)' = TracedInsts(TraceFile)
    BY <2>1, <2>2 DEF Given, TracedInsts, TraceFile, BodyOf
  <2> QED BY <1>2, <2>1, <2>3, <2>4
<1>7. CASE ScanLoops \/ UNCHANGED vars
  <2>1. UNCHANGED <<cmd, stage, dyn_map, module, functionList>>
    BY <1>7 DEF ScanLoops, vars, taking, reader, lists
  <2>2. Scan!Next \/ UNCHANGED S!vars
    BY <1>7, <2>1 DEF ScanLoops, vars, scanning, S!vars, S!input, S!position, S!counters,
                      Given, ToSet, S!ToSet
  <2>3. ScanKnown'
    BY <2>2, ScanGoesOn DEF ScanInv
  <2>4. CASE stage = "scan"
    BY <2>1, <2>3, <2>4 DEF ScanInv, Given, TracedInsts, TraceFile, BodyOf
  <2>5. CASE stage # "scan"
    <3>1. UNCHANGED vars
      BY <1>7, <2>5 DEF ScanLoops
    <3>2. UNCHANGED scanning
      BY <3>1 DEF vars
    <3> QED BY <1>2, <2>1, <2>5, <3>2 DEF ScanInv
  <2> QED BY <2>4, <2>5
<1> QED BY <1>3, <1>4, <1>5, <1>6, <1>7 DEF Next

(* No other step walks.                                                     *)
LEMMA WalkStep ==
  ASSUME WalkInv, ControlInv, [Next]_vars
  PROVE  WalkInv'
<1>1. CASE ReadOptions
  BY <1>1, ReadFrame DEF WalkInv, walking, Readers
<1>2. CASE WalkCallers
  BY <1>2 DEF WalkCallers, WalkInv, taking, reader
<1>3. CASE MapTrace \/ MapCrash
  BY <1>3 DEF MapTrace, MapCrash, WalkInv, walking
<1>4. CASE ScanLoops \/ UNCHANGED vars
  BY <1>4 DEF ScanLoops, WalkInv, vars, taking, reader, walking
<1> QED BY <1>1, <1>2, <1>3, <1>4 DEF Next

(* A crash has its reason when it happens, and keeps it.                    *)
LEMMA CrashStep ==
  ASSUME ControlInv, TraceInv, ScanInv, CrashInv, [Next]_vars
  PROVE  CrashInv'
<1>1. ASSUME UNCHANGED <<cmd, stage, module>> PROVE CrashInv'
  BY <1>1 DEF CrashInv, NameFile, TraceFile, Given, BodyOf
<1>2. ASSUME stage' # "crashed" PROVE CrashInv'
  BY <1>2 DEF CrashInv
<1>3. CASE ReadOptions
  <2>1. CASE OutOfMemory
    <3>1. /\ stage \in {"function-list", "vuln-list"} /\ cmd[stage] = Unreadable /\ cmd' = cmd
      BY <2>1 DEF OutOfMemory, Listing, ControlInv
    <3> QED BY <3>1 DEF CrashInv, NameFile
  <2>2. CASE ~OutOfMemory
    BY <1>2, <1>3, <2>2, ReadFrame
  <2> QED BY <2>1, <2>2
<1>4. CASE MapCrash
  <2>1. /\ stage = "map" /\ UNCHANGED <<cmd, module>>
        /\ \E x \in BodyOf(Traced) : DebugLine[x] = NoLocation
    BY <1>4 DEF MapCrash
  <2>2. module \in Modules /\ Agrees(temp_map, TraceFile)
        /\ ~Given("vuln-list") /\ Given("dop-dyn")
    BY <2>1 DEF ScanInv, S!Fresh, TraceInv, ControlInv
  <2>3. PICK x \in BodyOf(Traced) : DebugLine[x] = NoLocation
    BY <2>1
  <2>4. PICK g \in module.defined :
          x \in Insts /\ x \in BodyOf({g}) /\ LineIn(TraceFile, g) # Zero
    BY <2>2, TracedFacts
  <2> QED BY <2>1, <2>2, <2>3, <2>4 DEF CrashInv, TraceFile, Given, BodyOf
<1>5. CASE MapTrace
  BY <1>2, <1>5 DEF MapTrace
<1>6. CASE WalkCallers \/ ScanLoops \/ UNCHANGED vars
  BY <1>1, <1>6 DEF WalkCallers, ScanLoops, vars, taking, reader
<1> QED BY <1>3, <1>4, <1>5, <1>6 DEF Next

------------------------------------------------------------------------------
(* All of it together.                                                      *)

PassInv == ControlInv /\ ListInv /\ TraceInv /\ ScanInv /\ WalkInv /\ CrashInv

(* It holds initially.                                                      *)
LEMMA PassInit == Init => PassInv
<1> SUFFICES ASSUME Init PROVE PassInv
  OBVIOUS
<1>1. /\ cmd \in Commands /\ stage = "start" /\ stream = "closed" /\ functionList = <<>>
      /\ temp_map = [w \in Words |-> Zero] /\ dyn_map = {} /\ walk = "choosing"
  BY DEF Init, StartReader
<1>2. ControlInv
  BY <1>1 DEF ControlInv, Readers, Listing
<1>3. ListInv
  BY <1>1, EmptySeq DEF ListInv
<1>4. TraceInv
  BY <1>1, WordsAssumption DEF TraceInv
<1>5. ScanInv
  <2>1. S!Fresh
    BY DEF Init, S!Fresh
  <2> QED BY <1>1, <2>1, ScanBegins DEF ScanInv
<1>6. WalkInv /\ CrashInv
  BY <1>1 DEF WalkInv, CrashInv
<1> QED BY <1>2, <1>3, <1>4, <1>5, <1>6 DEF PassInv

(* It holds in every state.                                                 *)
LEMMA PassInvariant == Spec => []PassInv
<1>1. PassInv /\ [Next]_vars => PassInv'
  BY ControlStep, ListStep, TraceStep, ScanStep, WalkStep, CrashStep DEF PassInv
<1> QED BY <1>1, PassInit, PTL DEF Spec

(* An option read off the files is the option the scan was given.           *)
LEMMA SameExact ==
  ASSUME ToSet(functionList) = (IF Given("function-list") THEN TheLines(NameFile) ELSE {}),
         dyn_map = (IF Given("dop-dyn") THEN TracedInsts(TraceFile) ELSE {}),
         S!ReportIsExact
  PROVE  Asked!ReportIsExact
<1>1. \A fun, loop : Asked!Selected(fun, loop) <=> S!Selected(fun, loop)
  BY DEF Asked!Selected, S!Selected, Asked!checkFunction, S!checkFunction, Asked!ToSet, S!ToSet,
         ToSet, NameFile, TraceFile
<1>2. Asked!SelectedLoops = S!SelectedLoops
  BY <1>1 DEF Asked!SelectedLoops, S!SelectedLoops, Asked!ToSet, S!ToSet
<1>3. \A g : Asked!Callees(g) = S!Callees(g) /\ Asked!StoresOf(g) = S!StoresOf(g)
  BY DEF Asked!Callees, S!Callees, Asked!StoresOf, S!StoresOf, Asked!ToSet, S!ToSet
<1>4. \A body : Asked!InScope(body) = S!InScope(body)
  BY <1>3 DEF Asked!InScope, S!InScope
<1>5. \A fk : Asked!LoopBody(fk) = S!LoopBody(fk)
  BY DEF Asked!LoopBody, S!LoopBody, Asked!ToSet, S!ToSet
<1>6. Asked!Scope = S!Scope
  BY <1>2, <1>4, <1>5 DEF Asked!Scope, S!Scope
<1>7. \A T, v : Asked!Verdicts(T, v) = S!Verdicts(T, v)
  BY DEF Asked!Verdicts, S!Verdicts
<1>8. \A T : Asked!Cardinality(T) = S!Cardinality(T)
  BY DEF Asked!Cardinality, S!Cardinality
<1> QED BY <1>2, <1>6, <1>7, <1>8 DEF Asked!ReportIsExact, S!ReportIsExact

(* A report holds exactly the interesting stores in the scope of the loops  *)
(* that the lines of -function-list and the last lines of -dop-dyn ask for, *)
(* and counts those loops: DOPModule's readers, the map of the trace and    *)
(* the scan together lose nothing and add nothing.                          *)
THEOREM ReportFollows == Spec => []ReportFollowsFiles
<1>1. PassInv => ReportFollowsFiles
  <2> SUFFICES ASSUME PassInv, scan = "reported" PROVE Asked!ReportIsExact
    BY DEF ReportFollowsFiles
  <2>1. stage = "scan"
    BY DEF PassInv, ScanInv, S!Fresh
  <2>2. ToSet(functionList) = IF Given("function-list") THEN TheLines(NameFile) ELSE {}
    <3>1. ToSet(<<>>) = {}
      BY DEF ToSet
    <3> QED BY <2>1, <3>1 DEF PassInv, ListInv
  <2>3. dyn_map = IF Given("dop-dyn") THEN TracedInsts(TraceFile) ELSE {}
    BY <2>1 DEF PassInv, ScanInv
  <2>4. S!ReportIsExact
    BY ScanEndsExact DEF PassInv, ScanInv
  <2> QED BY <2>2, <2>3, <2>4, SameExact
<1> QED BY <1>1, PassInvariant, PTL

(* A report, a crash or an exit(1) of the pass is always explained by the   *)
(* command line, the files and the module, as EndsAreExplained tells.       *)
THEOREM EndsExplained == Spec => []EndsAreExplained
<1>1. PassInv => EndsAreExplained
  <2> SUFFICES ASSUME PassInv PROVE EndsAreExplained
    OBVIOUS
  <2>1. ASSUME scan = "reported"
        PROVE  /\ ~cmd["danger"] /\ ~Given("vuln-list")
               /\ \A r \in Readers : Given(r) => cmd[r] # Unreadable
               /\ Given("dop-dyn") => WellFormed(cmd["dop-dyn"])
    <3>1. stage = "scan"
      BY <2>1 DEF PassInv, ScanInv, S!Fresh
    <3>2. ~cmd["danger"] /\ ~Given("vuln-list")
      BY <3>1 DEF PassInv, ControlInv
    <3>3. Given("function-list") => cmd["function-list"] # Unreadable
      BY <3>1 DEF PassInv, ListInv, IsText, NameFile
    <3>4. Given("dop-dyn") => cmd["dop-dyn"] # Unreadable /\ WellFormed(cmd["dop-dyn"])
      BY <3>1 DEF PassInv, TraceInv, IsText, TraceFile, Agrees
    <3> QED BY <3>2, <3>3, <3>4 DEF Readers
  <2>2. ASSUME stage = "crashed"
        PROVE  \/ Unreadable \in {cmd["function-list"], cmd["vuln-list"]}
               \/ /\ ~Given("vuln-list") /\ Given("dop-dyn")
                  /\ \E g \in module.defined, x \in Insts :
                       /\ x \in BodyOf({g}) /\ DebugLine[x] = NoLocation
                       /\ LineIn(cmd["dop-dyn"], g) # Zero
    BY <2>2 DEF PassInv, CrashInv, NameFile, TraceFile
  <2>3. stage = "exited" \/ walk = "exited" => cmd["danger"] \/ Given("vuln-list")
    BY DEF PassInv, ControlInv, WalkInv
  <2> QED BY <2>1, <2>2, <2>3 DEF EndsAreExplained
<1> QED BY <1>1, PassInvariant, PTL
==============================================================================
