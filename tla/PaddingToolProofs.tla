-------------------------- MODULE PaddingToolProofs --------------------------
(***************************************************************************)
(* Theorems about the rows and files of RecordPadding under PaddingTool, for *)
(* every list of compile commands, every unit and every layout of records.  *)
(***************************************************************************)
EXTENDS PaddingTool, SequenceLemmas

------------------------------------------------------------------------------
(* Sums of vectors of numbers.                                              *)

(* The loop that adds up a vector.                                          *)
Sums(s, p) == p = [k \in 0..Len(s) |-> IF k = 0 THEN 0 ELSE p[k - 1] + s[k]]

(* By induction, the loop has a result after every number.                  *)
LEMMA SumsExist ==
  ASSUME NEW s \in Seq(Int)
  PROVE  \E p : Sums(s, p)
<1> DEFINE N == Len(s)
           Body(p, k) == IF k = 0 THEN 0 ELSE p[k - 1] + s[k]
           T == {m \in 0..N : \E p : p = [k \in 0..m |-> Body(p, k)]}
<1>1. N \in Nat
  BY LenProperties
<1>2. 0 \in T
  <2> DEFINE q == [k \in 0..0 |-> 0]
  <2>1. \A k \in 0..0 : Body(q, k) = 0
    OBVIOUS
  <2>2. q = [k \in 0..0 |-> Body(q, k)]
    <3> HIDE DEF Body
    <3> QED BY <2>1
  <2> HIDE DEF q, Body
  <2> QED BY <2>2, <1>1
<1>3. ASSUME NEW m \in 1..N, m - 1 \in T PROVE m \in T
  <2>1. PICK p : p = [k \in 0..(m - 1) |-> Body(p, k)]
    BY <1>3
  <2> DEFINE q == [k \in 0..m |-> IF k = m THEN Body(p, m) ELSE p[k]]
  <2>2. ASSUME NEW k \in 0..m PROVE q[k] = Body(q, k)
    <3>1. CASE k = 0
      <4>1. 0 \in 0..(m - 1) /\ 0 # m
        BY <1>1
      <4>2. p[0] = 0
        BY <2>1, <4>1
      <4> QED BY <3>1, <4>1, <4>2
    <3>2. CASE k # 0
      <4>1. k - 1 \in 0..(m - 1) /\ k - 1 # m /\ k - 1 \in 0..m
        BY <3>2, <1>1
      <4>2. q[k - 1] = p[k - 1]
        BY <4>1
      <4>3. Body(q, k) = Body(p, k)
        BY <3>2, <4>2
      <4>4. k # m => k \in 0..(m - 1)
        BY <1>1
      <4>5. k # m => p[k] = Body(p, k)
        <5> HIDE DEF Body
        <5> QED BY <2>1, <4>4
      <4>6. q[k] = Body(p, k)
        <5> HIDE DEF Body
        <5> QED BY <4>5
      <4> QED BY <4>3, <4>6
    <3> QED BY <3>1, <3>2
  <2>3. q = [k \in 0..m |-> Body(q, k)]
    <3>1. q = [k \in 0..m |-> q[k]]
      OBVIOUS
    <3> HIDE DEF q, Body
    <3> QED BY <2>2, <3>1
  <2> HIDE DEF q, Body
  <2> QED BY <2>3, <1>1
<1>4. N \in T
  <2> HIDE DEF T
  <2>1. 0..N \subseteq T
    BY <1>1, <1>2, <1>3, PrefixInduction
  <2> QED BY <1>1, <2>1
<1> QED BY <1>4 DEF Sums

(* SumOf is the last of those results, and every one is a number.           *)
LEMMA SumOfSums ==
  ASSUME NEW s \in Seq(Int)
  PROVE  \E p : /\ Sums(s, p) /\ SumOf(s) = p[Len(s)]
                /\ \A k \in 0..Len(s) : p[k] \in Int
<1> DEFINE q == CHOOSE p : Sums(s, p)
<1>1. Sums(s, q)
  <2>1. \E p : Sums(s, p)
    BY SumsExist
  <2> QED BY <2>1
<1>2. SumOf(s) = q[Len(s)]
  BY DEF SumOf, Sums
<1> HIDE DEF q
<1>3. Len(s) \in Nat /\ \A k \in 1..Len(s) : s[k] \in Int
  BY LenProperties, ElementOfSeq
<1> DEFINE T == {m \in 0..Len(s) : q[m] \in Int}
<1>4. 0 \in T
  BY <1>1, <1>3 DEF Sums
<1>5. ASSUME NEW m \in 1..Len(s), m - 1 \in T PROVE m \in T
  <2>1. q[m] = q[m - 1] + s[m]
    BY <1>1, <1>3 DEF Sums
  <2> QED BY <2>1, <1>3, <1>5
<1>6. 0..Len(s) \subseteq T
  <2> HIDE DEF T
  <2> QED BY <1>3, <1>4, <1>5, PrefixInduction
<1> QED BY <1>1, <1>2, <1>6

(* One more number is added to the sum.                                     *)
LEMMA SumOfAppend ==
  ASSUME NEW s \in Seq(Int), NEW e \in Int
  PROVE  SumOf(s) \in Int /\ SumOf(Append(s, e)) = SumOf(s) + e
<1> DEFINE t == Append(s, e)
           N == Len(s)
<1>1. PICK p : /\ Sums(s, p) /\ SumOf(s) = p[N]
               /\ \A k \in 0..N : p[k] \in Int
  BY SumOfSums
<1>2. /\ t \in Seq(Int) /\ Len(t) = N + 1 /\ N \in Nat
      /\ \A k \in 1..N : t[k] = s[k]
      /\ t[N + 1] = e
  BY AppendProperties, LenProperties
<1> HIDE DEF t
<1>3. PICK q : Sums(t, q) /\ SumOf(t) = q[N + 1] /\ \A k \in 0..(N + 1) : q[k] \in Int
  BY <1>2, SumOfSums
<1> DEFINE T == {m \in 0..N : q[m] = p[m]}
<1>4. 0 \in T
  BY <1>1, <1>2, <1>3 DEF Sums
<1>5. ASSUME NEW m \in 1..N, m - 1 \in T PROVE m \in T
  <2>1. m \in 0..Len(t) /\ m \in 0..Len(s) /\ m # 0 /\ m - 1 \in 0..N /\ t[m] = s[m]
    BY <1>2
  <2>2. q[m] = q[m - 1] + t[m]
    BY <2>1, <1>3 DEF Sums
  <2>3. p[m] = p[m - 1] + s[m]
    BY <2>1, <1>1 DEF Sums
  <2> QED BY <2>1, <2>2, <2>3, <1>5
<1>6. q[N] = p[N]
  <2>1. 0..N \subseteq T
    <3> HIDE DEF T
    <3> QED BY <1>2, <1>4, <1>5, PrefixInduction
  <2> QED BY <1>2, <2>1
<1>7. q[N + 1] = q[N] + e
  BY <1>2, <1>3 DEF Sums
<1>8. p[N] \in Int
  BY <1>1, <1>2
<1> QED BY <1>1, <1>3, <1>6, <1>7, <1>8 DEF t

(* The sum of nothing.                                                      *)
LEMMA SumOfEmpty == SumOf(<<>>) = 0
<1>1. <<>> \in Seq(Int) /\ Len(<<>>) = 0
  OBVIOUS
<1>2. PICK p : Sums(<<>>, p) /\ SumOf(<<>>) = p[0]
  BY <1>1, SumOfSums
<1> QED BY <1>2 DEF Sums

------------------------------------------------------------------------------
(* Type correctness.                                                        *)

(* A declaration that leads to a row.                                       *)
LEMMA MeasuredFacts ==
  ASSUME IsUnit(unit), d \in 1..Len(unit.decls), Measured(Decl)
  PROVE  /\ Decl.record \in Records /\ Decl.kind \in {"record", "constant array"}
         /\ Decl.kind = "record" <=> IsDefinition(Decl)
         /\ Copies \in Nat /\ Rec.size \in Nat
         /\ Len(Rec.fields) \in Nat \ {0} /\ DOMAIN Rec.fields = 1..Len(Rec.fields)
         /\ \A k \in 1..Len(Rec.fields) :
              /\ Field(k).size \in Nat /\ Field(k).offset \in Nat
              /\ Field(k).offset + Field(k).size
                   <= IF k < Len(Rec.fields) THEN Field(k + 1).offset ELSE Rec.size
<1>1. Decl \in Declarations
  BY ElementOfSeq DEF IsUnit, Decl
<1>2. Decl.record \in Records /\ Decl.kind \in {"record", "constant array"}
  BY <1>1 DEF Measured, Declarations, IsDefinition
<1>3. Decl.kind = "record" <=> IsDefinition(Decl)
  BY DEF Measured, IsDefinition
<1>4. Copies \in Nat
  BY <1>1, <1>2 DEF Copies, Declarations
<1>5. IsRecord(Rec) /\ ~shouldSkipDecl(Rec)
  BY <1>2 DEF IsUnit, Rec, Measured
<1>6. Rec.fields \in Seq(Fields) /\ Rec.fields # <<>> /\ Rec.size \in Nat
  BY <1>5 DEF IsRecord, shouldSkipDecl
<1>7. Len(Rec.fields) \in Nat \ {0} /\ DOMAIN Rec.fields = 1..Len(Rec.fields)
  BY <1>6, EmptySeq, LenProperties
<1>8. \A k \in 1..Len(Rec.fields) : Field(k) \in Fields
  BY <1>6, ElementOfSeq DEF Field
<1>9. \A k \in 1..Len(Rec.fields) :
        Field(k).offset + Field(k).size
          <= IF k < Len(Rec.fields) THEN Field(k + 1).offset ELSE Rec.size
  BY <1>5, <1>7 DEF IsRecord, shouldSkipDecl, Field
<1> QED BY <1>2, <1>3, <1>4, <1>6, <1>7, <1>8, <1>9 DEF Fields

(* A record that is measured is one that leads to a row, and the place      *)
(* reached in it is not beyond what comes next.                             *)
WellTyped ==
    /\ IsUnit(unit)
    /\ TypeOK
    /\ status = "measuring" =>
         /\ d \in 1..Len(unit.decls) /\ Measured(Decl) /\ Pads # <<>>
         /\ Offset <= IF n <= Len(Rec.fields) THEN Field(n).offset ELSE Rec.size

(* The start of a unit, alone or as a command of the tool.                  *)
Fresh ==
    /\ IsUnit(unit)
    /\ d = 1 /\ n = 0 /\ Offset = 0 /\ PaddingSum = 0 /\ Pads = <<>>
    /\ rows = <<>> /\ status = "visiting"

(* A fresh unit is well typed.                                             *)
LEMMA TypeFresh ==
  ASSUME Fresh
  PROVE  WellTyped
<1>1. Len(unit.decls) \in Nat
  BY LenProperties DEF Fresh, IsUnit
<1>2. Pads \in Seq(Nat \cup {Quote, Comma}) /\ measure = <<0, 0, 0, <<>>>>
  BY DEF Fresh, measure
<1> QED BY <1>1, <1>2 DEF Fresh, WellTyped, TypeOK

(* What is written of a gap is made of numbers and commas.                  *)
LEMMA ListedType ==
  ASSUME NEW pads \in Seq(Nat \cup {Quote, Comma}), pads # <<>>, NEW pad \in Nat
  PROVE  /\ Listed(pads, pad) \in Seq(Nat \cup {Quote, Comma})
         /\ Head(Listed(pads, pad)) = pads[1]
         /\ Listed(pads, pad) # <<>>
<1> DEFINE S == Nat \cup {Quote, Comma}
           p == <<pad, Comma>>
<1>1. p \in Seq(S) /\ Len(p) = 2 /\ pads \in Seq(S)
  OBVIOUS
<1>2. Len(pads) \in Nat \ {0}
  BY EmptySeq, LenProperties
<1>3. /\ pads \o p \in Seq(S) /\ Len(pads \o p) = Len(pads) + 2
      /\ (pads \o p)[1] = pads[1]
  <2> HIDE DEF p, S
  <2>1. /\ pads \o p \in Seq(S) /\ Len(pads \o p) = Len(pads) + Len(p)
        /\ \A i \in 1..(Len(pads) + Len(p)) :
             (pads \o p)[i] = IF i <= Len(pads) THEN pads[i] ELSE p[i - Len(pads)]
    BY <1>1, ConcatProperties
  <2>2. 1 \in 1..(Len(pads) + Len(p)) /\ 1 <= Len(pads)
    BY <1>1, <1>2
  <2> QED BY <1>1, <2>1, <2>2
<1>4. Head(pads \o p) = (pads \o p)[1] /\ pads \o p # <<>> /\ Head(pads) = pads[1]
  <2> HIDE DEF p, S
  <2>1. pads \o p # <<>>
    BY <1>2, <1>3, EmptySeq
  <2> QED BY <1>3, <2>1, HeadTailProperties
<1> QED BY <1>3, <1>4 DEF Listed

(* Every step keeps the visit well typed: no gap is negative.               *)
LEMMA TypeStep ==
  ASSUME WellTyped, [Next]_vars
  PROVE  WellTyped'
<1>0. Len(unit.decls) \in Nat
  BY LenProperties DEF WellTyped, IsUnit
<1>1. CASE SkipDecl
  BY <1>0, <1>1 DEF SkipDecl, Visiting, WellTyped, TypeOK, measure
<1>2. CASE Measure
  <2>1. d \in 1..Len(unit.decls) /\ Measured(Decl)
    BY <1>0, <1>2 DEF Measure, Visiting, WellTyped, TypeOK
  <2>2. /\ FirstOffset \in Nat /\ Len(Rec.fields) \in Nat \ {0}
        /\ FirstOffset = Field(1).offset
    <3>1. Len(Rec.fields) \in Nat \ {0} /\ \A k \in 1..Len(Rec.fields) : Field(k).offset \in Nat
      BY <2>1, MeasuredFacts DEF WellTyped
    <3>2. 1 \in 1..Len(Rec.fields)
      BY <3>1
    <3> QED BY <3>1, <3>2 DEF FirstOffset
  <2>3. unit' = unit /\ d' = d /\ Rec' = Rec /\ (\A k : Field(k)' = Field(k))
        /\ Measured(Decl)' /\ n' = 1 /\ Offset' = FirstOffset /\ PaddingSum' = 0
        /\ status' = "measuring"
    BY <1>2 DEF Measure, Rec, Decl, Field, Measured, shouldSkipDecl, ExcludedPath, IsDefinition
  <2>4. Pads' \in Seq(Nat \cup {Quote, Comma}) /\ Head(Pads') = Quote /\ Pads' # <<>>
    BY <1>2 DEF Measure
  <2>5. n' \in 1..Len(Rec.fields) + 1 /\ n' <= Len(Rec.fields)
    BY <2>2, <2>3
  <2>6. Field(n)' = Field(1)
    BY <2>3 DEF Field
  <2> QED BY <2>1, <2>2, <2>3, <2>4, <2>5, <2>6 DEF WellTyped, TypeOK
<1>3. CASE AddField
  <2> DEFINE Pad == Field(n).offset - Offset
  <2>1. /\ d \in 1..Len(unit.decls) /\ Measured(Decl) /\ Pads # <<>>
        /\ n \in 1..Len(Rec.fields) /\ Len(Rec.fields) \in Nat
        /\ Offset <= Field(n).offset /\ Offset \in Nat
    <3>1. d \in 1..Len(unit.decls) /\ Measured(Decl) /\ Pads # <<>> /\ Offset \in Nat
      BY <1>3 DEF AddField, WellTyped, TypeOK
    <3>2. Len(Rec.fields) \in Nat
      BY <3>1, MeasuredFacts DEF WellTyped
    <3>3. n \in 1..Len(Rec.fields)
      BY <1>3, <3>2 DEF AddField, WellTyped, TypeOK
    <3>4. Offset <= Field(n).offset
      BY <1>3 DEF AddField, WellTyped
    <3> QED BY <3>1, <3>2, <3>3, <3>4
  <2>2. /\ Field(n).size \in Nat /\ Field(n).offset \in Nat
        /\ Field(n).offset + Field(n).size
             <= IF n < Len(Rec.fields) THEN Field(n + 1).offset ELSE Rec.size
    <3>1. \A k \in 1..Len(Rec.fields) :
              /\ Field(k).size \in Nat /\ Field(k).offset \in Nat
              /\ Field(k).offset + Field(k).size
                   <= IF k < Len(Rec.fields) THEN Field(k + 1).offset ELSE Rec.size
      BY <2>1, MeasuredFacts DEF WellTyped
    <3> QED BY <2>1, <3>1
  <2>3. Pad \in Nat /\ Field(n).offset + Field(n).size \in Nat
    BY <2>1, <2>2
  <2>4. unit' = unit /\ d' = d /\ Rec' = Rec /\ Decl' = Decl /\ (\A k : Field(k)' = Field(k))
        /\ Measured(Decl)' /\ n' = n + 1 /\ Offset' = Field(n).offset + Field(n).size
        /\ PaddingSum' = PaddingSum + Pad /\ status' = "measuring"
        /\ Pads' = Listed(Pads, Pad)
    BY <1>3, <2>1 DEF AddField, Rec, Decl, Field, Measured, shouldSkipDecl, ExcludedPath, IsDefinition
  <2>5. Pads' \in Seq(Nat \cup {Quote, Comma}) /\ Head(Pads') = Quote /\ Pads' # <<>>
    <3>1. Pads \in Seq(Nat \cup {Quote, Comma}) /\ Head(Pads) = Quote
      BY <1>3 DEF AddField, WellTyped, TypeOK
    <3>2. Head(Pads) = Pads[1]
      BY <2>1, <3>1, HeadTailProperties
    <3> HIDE DEF Pad
    <3> QED BY <2>1, <2>3, <2>4, <3>1, <3>2, ListedType
  <2>6. Offset' <= IF n' <= Len(Rec.fields) THEN Field(n + 1).offset ELSE Rec.size
    <3>1. n' <= Len(Rec.fields) <=> n < Len(Rec.fields)
      BY <2>1, <2>4
    <3> QED BY <2>4, <2>2, <3>1
  <2>7. PaddingSum' \in Nat /\ n' \in 1..Len(Rec.fields) + 1
    BY <2>1, <2>3, <2>4, SMTT(20) DEF WellTyped, TypeOK
  <2>8. (IF n <= Len(Rec.fields) THEN Field(n).offset ELSE Rec.size)'
          = IF n' <= Len(Rec.fields) THEN Field(n + 1).offset ELSE Rec.size
    BY <2>4 DEF Field
  <2> HIDE DEF Pad
  <2> QED BY <2>1, <2>3, <2>4, <2>5, <2>6, <2>7, <2>8 DEF WellTyped, TypeOK
<1>4. CASE WriteRow
  <2>1. d \in 1..Len(unit.decls)
    BY <1>4 DEF WriteRow, WellTyped
  <2>2. unit' = unit /\ d' = d + 1 /\ status' = "visiting"
        /\ n' = 0 /\ Offset' = 0 /\ PaddingSum' = 0 /\ Pads' = <<>>
    BY <1>4 DEF WriteRow
  <2>3. Pads' \in Seq(Nat \cup {Quote, Comma}) /\ measure' = <<0, 0, 0, <<>>>>
    BY <2>2 DEF measure
  <2> QED BY <1>0, <2>1, <2>2, <2>3 DEF WellTyped, TypeOK
<1>5. CASE Finish
  BY <1>5 DEF Finish, WellTyped, TypeOK, measure
<1>6. CASE UNCHANGED vars
  BY <1>6 DEF vars, WellTyped, TypeOK, measure, Rec, Decl, Field, Measured, shouldSkipDecl,
              ExcludedPath, IsDefinition
<1> QED BY <1>1, <1>2, <1>3, <1>4, <1>5, <1>6 DEF Next

(* The position among the compile commands.                                 *)
Driving == commands \in CommandLists /\ c \in 1..Len(commands)

(* What the tool does to the visit: a step of it, or the start of the next. *)
LEMMA ToolFrame ==
  ASSUME Driving, [ToolNext]_<<driver, vars>>
  PROVE  Driving' /\ ([Next]_vars \/ Fresh')
<1>0. Len(commands) \in Nat \ {0} /\ DOMAIN commands = 1..Len(commands)
  BY CommandsAssumption DEF Driving
<1>1. CASE CreateASTConsumer
  BY <1>1 DEF CreateASTConsumer, Driving
<1>2. CASE CrashOnDirectory
  BY <1>2 DEF CrashOnDirectory, Driving
<1>3. CASE HandleTranslationUnit
  BY <1>3 DEF HandleTranslationUnit, Driving
<1>4. CASE EndCommand
  <2>1. CASE c = Len(commands)
    BY <1>4, <2>1 DEF EndCommand, Driving
  <2>2. CASE c # Len(commands)
    <3>1. c + 1 \in 1..Len(commands)
      <4> DEFINE N == Len(commands)
      <4>1. N \in Nat /\ c \in 1..N /\ c # N
        BY <1>0, <2>2 DEF Driving
      <4> HIDE DEF N
      <4>2. c + 1 \in 1..N
        BY <4>1
      <4> QED BY <4>2 DEF N
    <3>2. IsUnit(commands[c + 1].unit)
      BY <1>0, <3>1, CommandsAssumption DEF Driving
    <3>3. /\ commands' = commands /\ c' = c + 1
          /\ unit' = commands[c + 1].unit /\ d' = 1
          /\ n' = 0 /\ Offset' = 0 /\ PaddingSum' = 0 /\ Pads' = <<>>
          /\ rows' = <<>> /\ status' = "visiting"
      BY <1>4, <2>2 DEF EndCommand
    <3>4. IsUnit(unit)'
      BY <3>2, <3>3 DEF IsUnit, IsRecord, IsDefinition
    <3> QED BY <3>1, <3>3, <3>4 DEF Driving, Fresh
  <2> QED BY <2>1, <2>2
<1>5. CASE UNCHANGED <<driver, vars>>
  BY <1>5 DEF driver, Driving
<1> QED BY <1>1, <1>2, <1>3, <1>4, <1>5 DEF ToolNext

(* The tool starts with the first command, both visits with a fresh unit.   *)
LEMMA Starts ==
  /\ Init => Fresh
  /\ ToolInit => Driving /\ Fresh
<1>1. ASSUME ToolInit PROVE Driving /\ Fresh
  <2>1. commands \in CommandLists /\ Len(commands) \in Nat \ {0} /\ DOMAIN commands = 1..Len(commands)
    BY <1>1, CommandsAssumption DEF ToolInit
  <2>2. IsUnit(commands[1].unit)
    BY <2>1, CommandsAssumption
  <2> QED BY <1>1, <2>1, <2>2 DEF ToolInit, Driving, Fresh
<1> QED BY <1>1, UnitsAssumption DEF Init, Fresh

(* The visit stays within its unit and the record measured, and no gap is   *)
(* negative: for every list of commands and every layout.                   *)
THEOREM TypeCorrect == ToolSpec => []TypeOK
<1>1. ToolInit => Driving /\ WellTyped
  BY Starts, TypeFresh
<1>2. Driving /\ WellTyped /\ [ToolNext]_<<driver, vars>> => (Driving /\ WellTyped)'
  <2>1. Fresh' => WellTyped'
    BY TypeFresh, PTL
  <2> QED BY <2>1, ToolFrame, TypeStep
<1>3. WellTyped => TypeOK
  BY DEF WellTyped
<1> QED BY <1>1, <1>2, <1>3, PTL DEF ToolSpec

------------------------------------------------------------------------------
(* The rows.                                                                *)

(* The row that ends a record.                                              *)
LastPad == Rec.size - Offset
NewRow == Row(PaddingSum + LastPad, Closed(Listed(Pads, LastPad)))

RowsAreSequence == rows \in Seq(ToSet(rows))

(* push_back on a vector of anything.                                       *)
LEMMA AppendSelf ==
  ASSUME NEW s, s \in Seq(ToSet(s)), NEW e
  PROVE  /\ Append(s, e) \in Seq(ToSet(Append(s, e)))
         /\ Len(s) \in Nat /\ DOMAIN s = 1..Len(s)
         /\ DOMAIN Append(s, e) = (1..Len(s)) \cup {Len(s) + 1}
         /\ \A k \in 1..Len(s) : Append(s, e)[k] = s[k]
         /\ Append(s, e)[Len(s) + 1] = e
<1> DEFINE S == ToSet(s) \cup {e}
           t == Append(s, e)
<1>1. s \in Seq(S) /\ e \in S
  OBVIOUS
<1>2. /\ t \in Seq(S) /\ Len(t) = Len(s) + 1
      /\ \A k \in 1..Len(s) : t[k] = s[k]
      /\ t[Len(s) + 1] = e
  <2> HIDE DEF S
  <2> QED BY <1>1, AppendProperties
<1>3. ToSet(t) = S
  <2> HIDE DEF t
  <2>1. ToSet(Append(s, e)) = ToSet(s) \cup {e}
    <3> HIDE DEF S
    <3>1. ToSet(Append(s, e)) = ToSet(s) \cup {e}
      BY <1>1, AppendContents
    <3> QED BY <3>1
  <2> QED BY <2>1 DEF t
<1>4. Len(s) \in Nat /\ DOMAIN s = 1..Len(s) /\ DOMAIN t = 1..(Len(s) + 1)
  <2> HIDE DEF S, t
  <2> QED BY <1>1, <1>2, LenProperties
<1>5. 1..(Len(s) + 1) = (1..Len(s)) \cup {Len(s) + 1}
  BY <1>4
<1> HIDE DEF S, t
<1>6. t \in Seq(ToSet(t))
  BY <1>2, <1>3
<1> QED BY <1>2, <1>4, <1>5, <1>6 DEF t

(* A step keeps the unit and the rows, or ends a record with a new row.     *)
LEMMA RowsStep ==
  ASSUME WellTyped, RowsAreSequence, [Next]_vars
  PROVE  /\ RowsAreSequence' /\ unit' = unit
         /\ \/ rows' = rows /\ d' >= d
            \/ /\ WriteRow /\ d' = d + 1
               /\ DOMAIN rows' = DOMAIN rows \cup {Len(rows) + 1}
               /\ Len(rows) + 1 \notin DOMAIN rows
               /\ \A k \in DOMAIN rows : rows'[k] = rows[k]
               /\ rows'[Len(rows) + 1] = NewRow
<1>1. CASE WriteRow
  <2>1. rows' = Append(rows, NewRow) /\ unit' = unit /\ d' = d + 1
    BY <1>1 DEF WriteRow, NewRow, LastPad
  <2>2. /\ Append(rows, NewRow) \in Seq(ToSet(Append(rows, NewRow)))
        /\ Len(rows) \in Nat /\ DOMAIN rows = 1..Len(rows)
        /\ DOMAIN Append(rows, NewRow) = (1..Len(rows)) \cup {Len(rows) + 1}
        /\ \A k \in 1..Len(rows) : Append(rows, NewRow)[k] = rows[k]
        /\ Append(rows, NewRow)[Len(rows) + 1] = NewRow
    <3> DEFINE e == NewRow
    <3> HIDE DEF e
    <3>1. /\ Append(rows, e) \in Seq(ToSet(Append(rows, e)))
          /\ Len(rows) \in Nat /\ DOMAIN rows = 1..Len(rows)
          /\ DOMAIN Append(rows, e) = (1..Len(rows)) \cup {Len(rows) + 1}
          /\ \A k \in 1..Len(rows) : Append(rows, e)[k] = rows[k]
          /\ Append(rows, e)[Len(rows) + 1] = e
      BY AppendSelf DEF RowsAreSequence
    <3> QED BY <3>1 DEF e
  <2> HIDE DEF NewRow
  <2>3. /\ DOMAIN rows' = DOMAIN rows \cup {Len(rows) + 1}
        /\ \A k \in DOMAIN rows : rows'[k] = rows[k]
        /\ rows'[Len(rows) + 1] = NewRow
    BY <2>1, <2>2
  <2>4. Len(rows) + 1 \notin DOMAIN rows
    BY <2>2
  <2>5. RowsAreSequence'
    BY <2>1, <2>2 DEF RowsAreSequence
  <2> QED BY <1>1, <2>1, <2>3, <2>4, <2>5
<1>2. CASE SkipDecl \/ Measure \/ AddField \/ Finish \/ UNCHANGED vars
  <2>1. rows' = rows /\ unit' = unit
    BY <1>2 DEF SkipDecl, Measure, AddField, Finish, vars
  <2>2. d' = d \/ d' = d + 1
    BY <1>2 DEF SkipDecl, Measure, AddField, Finish, vars
  <2>3. d \in Nat
    BY LenProperties DEF WellTyped, IsUnit, TypeOK
  <2> QED BY <2>1, <2>2, <2>3 DEF RowsAreSequence
<1> QED BY <1>1, <1>2 DEF Next

------------------------------------------------------------------------------
(* The rows and the sizes of the fields.                                    *)

(* The sizes of one more field, and of all.                                 *)
LEMMA SizesPrefix ==
  ASSUME NEW fields \in Seq(Fields)
  PROVE  /\ SumOf(SizesOf(SubSeq(fields, 1, 0))) = 0
         /\ SumOf(SizesOf(SubSeq(fields, 1, Len(fields)))) = SumOf(SizesOf(fields))
         /\ SumOf(SizesOf(fields)) \in Int
         /\ \A m \in 1..Len(fields) :
              /\ SumOf(SizesOf(SubSeq(fields, 1, m - 1))) \in Int
              /\ SumOf(SizesOf(SubSeq(fields, 1, m)))
                   = SumOf(SizesOf(SubSeq(fields, 1, m - 1))) + fields[m].size
<1> DEFINE N == Len(fields)
           P(m) == SizesOf(SubSeq(fields, 1, m))
<1>1. N \in Nat /\ DOMAIN fields = 1..N /\ \A i \in 1..N : fields[i].size \in Int
  <2>1. \A i \in 1..N : fields[i] \in Fields
    BY LenProperties, ElementOfSeq
  <2> QED BY <2>1, LenProperties DEF Fields
<1>2. ASSUME NEW m \in 0..N
      PROVE  P(m) = [i \in 1..m |-> fields[i].size]
  <2>1. m \in Int /\ 1 \in Int
    BY <1>1
  <2>2. SubSeq(fields, 1, m) = [i \in 1..m |-> fields[i]]
    <3>1. SubSeq(fields, 1, m) = [i \in 1..((1 + m) - 1) |-> fields[(i + 1) - 1]]
      BY <2>1, <1>1, SubSeqProperties
    <3>2. \A i \in 1..((1 + m) - 1) : (i + 1) - 1 = i
      OBVIOUS
    <3>3. (1 + m) - 1 = m
      BY <2>1
    <3> QED BY <3>1, <3>2, <3>3
  <2> QED BY <2>2 DEF SizesOf
<1>3. \A m \in 0..N : P(m) \in Seq(Int) /\ Len(P(m)) = m
  <2>1. ASSUME NEW m \in 0..N PROVE P(m) \in Seq(Int) /\ Len(P(m)) = m
    <3> DEFINE q == [i \in 1..m |-> fields[i].size]
    <3>1. q \in [1..m -> Int]
      BY <1>1
    <3>2. q \in Seq(Int) /\ Len(q) = m
      <4> HIDE DEF q
      <4>1. m \in Nat /\ DOMAIN q = 1..m
        BY <3>1, <1>1
      <4>2. q \in Seq(Int)
        BY <3>1, <4>1
      <4> QED BY <4>1, <4>2, LenProperties
    <3> QED BY <1>2, <3>2
  <2> QED BY <2>1
<1>4. SizesOf(fields) = P(N)
  <2>1. P(N) = [i \in 1..N |-> fields[i].size]
    BY <1>1, <1>2
  <2> QED BY <1>1, <2>1 DEF SizesOf
<1>5. ASSUME NEW m \in 1..N
      PROVE  /\ P(m - 1) \in Seq(Int)
             /\ P(m) = Append(P(m - 1), fields[m].size)
  <2>1. m \in 0..N /\ m - 1 \in 0..N /\ (m - 1) + 1 = m
    BY <1>1
  <2>2. P(m) = [i \in 1..m |-> fields[i].size] /\ P(m - 1) = [i \in 1..(m - 1) |-> fields[i].size]
    BY <1>2, <2>1
  <2>3. P(m) \in Seq(Int) /\ Len(P(m)) = m /\ P(m - 1) \in Seq(Int) /\ Len(P(m - 1)) = m - 1
    BY <1>3, <2>1
  <2> DEFINE a == Append(P(m - 1), fields[m].size)
  <2>4. /\ a \in Seq(Int) /\ Len(a) = m
        /\ \A i \in 1..(m - 1) : a[i] = fields[i].size
        /\ a[m] = fields[m].size
    <3> DEFINE s == P(m - 1)
               e == fields[m].size
    <3>1. s \in Seq(Int) /\ Len(s) = m - 1 /\ e \in Int /\ \A i \in 1..(m - 1) : s[i] = fields[i].size
      BY <1>1, <2>2, <2>3
    <3> HIDE DEF s, e
    <3>2. /\ Append(s, e) \in Seq(Int) /\ Len(Append(s, e)) = Len(s) + 1
          /\ \A i \in 1..Len(s) : Append(s, e)[i] = s[i]
          /\ Append(s, e)[Len(s) + 1] = e
      BY <3>1, AppendProperties
    <3>3. /\ Append(s, e) \in Seq(Int) /\ Len(Append(s, e)) = m
          /\ \A i \in 1..(m - 1) : Append(s, e)[i] = fields[i].size
          /\ Append(s, e)[m] = e
      BY <2>1, <3>1, <3>2
    <3> QED BY <3>3 DEF s, e
  <2>5. \A i \in 1..m : a[i] = fields[i].size
    <3> HIDE DEF a
    <3>1. \A i \in 1..m : i \in 1..(m - 1) \/ i = m
      OBVIOUS
    <3> QED BY <2>4, <3>1
  <2>6. P(m) = a
    <3> DEFINE p == P(m)
    <3>1. p \in Seq(Int) /\ Len(p) = m /\ \A i \in 1..m : p[i] = fields[i].size
      BY <2>2, <2>3
    <3> HIDE DEF p, a
    <3>2. p = a
      BY <3>1, <2>4, <2>5, SeqEqual
    <3> QED BY <3>2 DEF p
  <2> QED BY <2>3, <2>6
<1>6. SumOf(P(0)) = 0
  <2>1. P(0) = <<>>
    BY <1>1, <1>3, EmptySeq
  <2> QED BY <2>1, SumOfEmpty
<1>7. SumOf(SizesOf(fields)) \in Int
  <2> DEFINE s == SizesOf(fields)
  <2>1. s \in Seq(Int)
    BY <1>1, <1>3, <1>4
  <2> HIDE DEF s
  <2>2. SumOf(s) \in Int
    BY <2>1, SumOfAppend
  <2> QED BY <2>2 DEF s
<1>8. ASSUME NEW m \in 1..N
      PROVE  SumOf(P(m - 1)) \in Int /\ SumOf(P(m)) = SumOf(P(m - 1)) + fields[m].size
  <2> DEFINE s == P(m - 1)
             e == fields[m].size
  <2>1. s \in Seq(Int) /\ e \in Int /\ P(m) = Append(s, e)
    BY <1>1, <1>5
  <2> HIDE DEF s, e
  <2>2. SumOf(s) \in Int /\ SumOf(Append(s, e)) = SumOf(s) + e
    BY <2>1, SumOfAppend
  <2> QED BY <2>1, <2>2 DEF s, e
<1> QED BY <1>4, <1>6, <1>7, <1>8

Reached(m) == SumOf(SizesOf(SubSeq(Rec.fields, 1, m)))
Base(fields) == Start(fields) + SumOf(SizesOf(fields))

(* What has been found of a record being measured.                          *)
MeasureInv ==
    status = "measuring" => Start(Rec.fields) + PaddingSum + Reached(n - 1) = Offset

(* The totals of a row are those of one record, times the copies.           *)
TotalsOf(row) ==
    LET r == unit.record[row.record]
    IN  /\ row.record \in Records /\ row.copies \in Nat
        /\ r.size \in Nat /\ Base(r.fields) \in Int
        /\ row.Sizeof = r.size * row.copies
        /\ row.TotalPadSize = (r.size - Base(r.fields)) * row.copies

RowsInv == RowsAreSequence /\ \A k \in DOMAIN rows : TotalsOf(rows[k])

(* The sums stay with the place reached.                                    *)
LEMMA MeasureStep ==
  ASSUME WellTyped, MeasureInv, [Next]_vars
  PROVE  MeasureInv'
<1>1. CASE Measure
  <2>1. d \in 1..Len(unit.decls) /\ Measured(Decl)
    <3>1. Len(unit.decls) \in Nat
      BY LenProperties DEF WellTyped, IsUnit
    <3> QED BY <1>1, <3>1 DEF Measure, Visiting, WellTyped, TypeOK
  <2>2. Rec.fields \in Seq(Fields) /\ Len(Rec.fields) \in Nat \ {0} /\ Start(Rec.fields) \in Nat
    <3>1. Decl.record \in Records /\ Len(Rec.fields) \in Nat \ {0}
          /\ \A k \in 1..Len(Rec.fields) : Field(k).offset \in Nat
      BY <2>1, MeasuredFacts DEF WellTyped
    <3>2. Rec.fields \in Seq(Fields)
      BY <3>1 DEF WellTyped, IsUnit, IsRecord, Rec
    <3>3. 1 \in 1..Len(Rec.fields)
      BY <3>1
    <3> QED BY <3>1, <3>2, <3>3 DEF Start, Field
  <2>3. Reached(0) = 0
    BY <2>2, SizesPrefix DEF Reached
  <2>4. Rec' = Rec /\ n' = 1 /\ Offset' = Start(Rec.fields) /\ PaddingSum' = 0
    BY <1>1 DEF Measure, Rec, Decl, FirstOffset, Field, Start
  <2>5. n' - 1 = 0
    BY <2>4
  <2>6. Reached(n - 1)' = Reached(0)
    BY <2>4, <2>5 DEF Reached
  <2>7. Start(Rec.fields)' = Start(Rec.fields)
    BY <2>4 DEF Start
  <2> QED BY <2>2, <2>3, <2>4, <2>6, <2>7 DEF MeasureInv
<1>2. CASE AddField
  <2>1. /\ d \in 1..Len(unit.decls) /\ Measured(Decl)
        /\ Offset \in Nat /\ PaddingSum \in Nat /\ status = "measuring"
    BY <1>2 DEF AddField, WellTyped, TypeOK
  <2>2. /\ Rec.fields \in Seq(Fields) /\ Len(Rec.fields) \in Nat \ {0} /\ Start(Rec.fields) \in Nat
        /\ \A k \in 1..Len(Rec.fields) : Field(k).size \in Nat /\ Field(k).offset \in Nat
    <3>1. Decl.record \in Records /\ Len(Rec.fields) \in Nat \ {0}
          /\ \A k \in 1..Len(Rec.fields) : Field(k).size \in Nat /\ Field(k).offset \in Nat
      BY <2>1, MeasuredFacts DEF WellTyped
    <3>2. Rec.fields \in Seq(Fields)
      BY <3>1 DEF WellTyped, IsUnit, IsRecord, Rec
    <3>3. 1 \in 1..Len(Rec.fields)
      BY <3>1
    <3> QED BY <3>1, <3>2, <3>3 DEF Start, Field
  <2>3. n \in 1..Len(Rec.fields)
    BY <1>2, <2>2 DEF AddField, WellTyped, TypeOK
  <2>4. Reached(n - 1) \in Int /\ Reached(n) = Reached(n - 1) + Field(n).size
    BY <2>2, <2>3, SizesPrefix DEF Reached, Field
  <2>5. /\ Rec' = Rec /\ n' = n + 1 /\ Offset' = Field(n).offset + Field(n).size
        /\ PaddingSum' = PaddingSum + (Field(n).offset - Offset)
    BY <1>2 DEF AddField, Rec, Decl
  <2>6. n' - 1 = n
    BY <2>3, <2>5
  <2>7. Reached(n - 1)' = Reached(n) /\ Start(Rec.fields)' = Start(Rec.fields)
    BY <2>5, <2>6 DEF Reached, Start
  <2>8. Start(Rec.fields) + PaddingSum + Reached(n - 1) = Offset
    BY <2>1 DEF MeasureInv
  <2>9. Field(n).size \in Nat /\ Field(n).offset \in Nat
    BY <2>2, <2>3
  <2>10. Start(Rec.fields) + PaddingSum' + Reached(n) = Offset'
    <3> DEFINE start == Start(Rec.fields)
               before == Reached(n - 1)
               size == Field(n).size
               offset == Field(n).offset
    <3>1. start \in Nat /\ before \in Int /\ size \in Nat /\ offset \in Nat
      BY <2>2, <2>4, <2>9
    <3>2. /\ start + PaddingSum + before = Offset /\ Reached(n) = before + size
          /\ PaddingSum' = PaddingSum + (offset - Offset) /\ Offset' = offset + size
      BY <2>4, <2>5, <2>8
    <3> HIDE DEF start, before, size, offset
    <3>3. start + PaddingSum' + Reached(n) = Offset'
      BY <2>1, <3>1, <3>2
    <3> QED BY <3>3 DEF start
  <2> QED BY <2>7, <2>10 DEF MeasureInv
<1>3. CASE SkipDecl
  BY <1>3 DEF SkipDecl, Visiting, MeasureInv
<1>4. CASE WriteRow
  BY <1>4 DEF WriteRow, MeasureInv
<1>5. CASE Finish
  BY <1>5 DEF Finish, MeasureInv
<1>6. CASE UNCHANGED vars
  BY <1>6 DEF vars, measure, MeasureInv, Reached, Start, Rec, Decl
<1> QED BY <1>1, <1>2, <1>3, <1>4, <1>5, <1>6 DEF Next

(* The row a record ends with has its totals.                               *)
LEMMA NewRowTotals ==
  ASSUME WellTyped, MeasureInv, WriteRow
  PROVE  TotalsOf(NewRow)
<1>1. /\ d \in 1..Len(unit.decls) /\ Measured(Decl)
      /\ Offset \in Nat /\ PaddingSum \in Nat /\ status = "measuring"
  BY DEF WriteRow, WellTyped, TypeOK
<1>2. /\ Decl.record \in Records /\ Copies \in Nat /\ Rec.size \in Nat
      /\ Len(Rec.fields) \in Nat \ {0}
      /\ \A k \in 1..Len(Rec.fields) : Field(k).offset \in Nat
  BY <1>1, MeasuredFacts DEF WellTyped
<1>3. Rec.fields \in Seq(Fields) /\ Start(Rec.fields) \in Nat
  <2>1. Rec.fields \in Seq(Fields)
    BY <1>2 DEF WellTyped, IsUnit, IsRecord, Rec
  <2>2. 1 \in 1..Len(Rec.fields)
    BY <1>2
  <2> QED BY <1>2, <2>1, <2>2 DEF Start, Field
<1>4. n - 1 = Len(Rec.fields)
  <2> DEFINE N == Len(Rec.fields)
  <2>1. N \in Nat /\ n \in 1..N + 1 /\ n > N
    BY <1>2 DEF WriteRow, WellTyped, TypeOK
  <2> HIDE DEF N
  <2>2. n - 1 = N
    BY <2>1
  <2> QED BY <2>2 DEF N
<1>5. Reached(n - 1) = SumOf(SizesOf(Rec.fields)) /\ SumOf(SizesOf(Rec.fields)) \in Int
  BY <1>3, <1>4, SizesPrefix DEF Reached
<1>6. PaddingSum + LastPad = Rec.size - Base(Rec.fields) /\ Base(Rec.fields) \in Int
  <2>1. Start(Rec.fields) + PaddingSum + Reached(n - 1) = Offset
    BY <1>1 DEF MeasureInv
  <2> QED BY <1>1, <1>2, <1>3, <1>5, <2>1 DEF LastPad, Base
<1>7. /\ NewRow.record = Decl.record /\ NewRow.copies = Copies
      /\ NewRow.Sizeof = Rec.size * Copies
      /\ NewRow.TotalPadSize = (PaddingSum + LastPad) * Copies
  BY DEF NewRow, Row
<1>8. unit.record[NewRow.record] = Rec
  BY <1>7 DEF Rec
<1> HIDE DEF NewRow
<1> QED BY <1>2, <1>6, <1>7, <1>8 DEF TotalsOf

(* Every row keeps the totals of its record.                                *)
LEMMA TotalsStep ==
  ASSUME WellTyped, MeasureInv, RowsInv, [Next]_vars
  PROVE  RowsInv'
<1>1. /\ RowsAreSequence' /\ unit' = unit
      /\ \/ rows' = rows
         \/ /\ WriteRow
            /\ DOMAIN rows' = DOMAIN rows \cup {Len(rows) + 1}
            /\ \A k \in DOMAIN rows : rows'[k] = rows[k]
            /\ rows'[Len(rows) + 1] = NewRow
  BY RowsStep DEF RowsInv
<1>3. ASSUME NEW k \in DOMAIN rows', rows' = rows PROVE TotalsOf(rows[k])'
  BY <1>1, <1>3 DEF RowsInv, TotalsOf
<1>4. ASSUME NEW k \in DOMAIN rows', WriteRow, k \in DOMAIN rows, rows'[k] = rows[k]
      PROVE  TotalsOf(rows[k])'
  BY <1>1, <1>4 DEF RowsInv, TotalsOf
<1>5. ASSUME NEW k \in DOMAIN rows', WriteRow, rows'[k] = NewRow PROVE TotalsOf(rows[k])'
  <2>1. TotalsOf(NewRow)
    BY <1>5, NewRowTotals
  <2> HIDE DEF NewRow
  <2> QED BY <1>1, <1>5, <2>1 DEF TotalsOf
<1>6. \A k \in DOMAIN rows' : TotalsOf(rows[k])'
  <2> HIDE DEF TotalsOf, NewRow
  <2> QED BY <1>1, <1>3, <1>4, <1>5
<1> QED BY <1>1, <1>6 DEF RowsInv

(* From the start of the first field, sizes and padding add up to the place *)
(* reached and, in a row, to the size of its copies: nothing is lost or     *)
(* counted twice, however many fields and commands there are.               *)
THEOREM PaddingAccountsForSize == ToolSpec => []PadsAccountForSize
<1> DEFINE Inv == Driving /\ WellTyped /\ MeasureInv /\ RowsInv
<1>1. Fresh => MeasureInv /\ RowsInv
  BY DEF Fresh, MeasureInv, RowsInv, RowsAreSequence
<1>2. ToolInit => Inv
  BY <1>1, Starts, TypeFresh
<1>3. Inv /\ [ToolNext]_<<driver, vars>> => Inv'
  <2>1. Fresh' => (WellTyped /\ MeasureInv /\ RowsInv)'
    BY <1>1, TypeFresh, PTL
  <2> QED BY <2>1, ToolFrame, TypeStep, MeasureStep, TotalsStep
<1>4. Inv => PadsAccountForSize
  <2> SUFFICES ASSUME Inv PROVE PadsAccountForSize
    OBVIOUS
  <2>1. status = "measuring" =>
          Start(Rec.fields) + PaddingSum + SumOf(SizesOf(SubSeq(Rec.fields, 1, n - 1))) = Offset
    BY DEF MeasureInv, Reached
  <2>2. ASSUME NEW k \in DOMAIN rows
        PROVE  LET fields == unit.record[rows[k].record].fields
               IN  rows[k].TotalPadSize
                     + rows[k].copies * (Start(fields) + SumOf(SizesOf(fields))) = rows[k].Sizeof
    <3> DEFINE r == unit.record[rows[k].record]
               b == Base(r.fields)
               copies == rows[k].copies
               size == r.size
    <3>1. /\ copies \in Nat /\ size \in Nat /\ b \in Int
          /\ rows[k].Sizeof = size * copies /\ rows[k].TotalPadSize = (size - b) * copies
      BY DEF RowsInv, TotalsOf
    <3> HIDE DEF b, copies, size
    <3>2. (size - b) * copies + copies * b = size * copies
      BY <3>1
    <3>3. rows[k].TotalPadSize + copies * b = rows[k].Sizeof
      BY <3>1, <3>2
    <3> QED BY <3>3 DEF b, copies, Base
  <2> QED BY <2>1, <2>2 DEF PadsAccountForSize
<1> QED BY <1>2, <1>3, <1>4, PTL DEF ToolSpec

------------------------------------------------------------------------------
(* The rows of one record.                                                  *)

(* A row that is not an array's comes from the definition of its record, a  *)
(* declaration already visited, and no other row does.                      *)
RowOfDefinition(row) ==
    ~row.array => \E j \in DOMAIN unit.decls :
                    j < d /\ IsDefinition(unit.decls[j]) /\ unit.decls[j].record = row.record

OwnInv ==
    /\ \A k \in DOMAIN rows : RowOfDefinition(rows[k])
    /\ \A j, k \in DOMAIN rows :
         rows[j].record = rows[k].record /\ ~rows[j].array /\ ~rows[k].array => j = k

(* A definition is visited once, and gives one row.                         *)
LEMMA OwnStep ==
  ASSUME WellTyped, RowsAreSequence, OwnInv, [Next]_vars
  PROVE  OwnInv'
<1>0. d \in Nat /\ Len(unit.decls) \in Nat /\ DOMAIN unit.decls = 1..Len(unit.decls)
  BY LenProperties DEF WellTyped, TypeOK, IsUnit
<1>1. /\ unit' = unit
      /\ \/ rows' = rows /\ d' >= d
         \/ /\ WriteRow /\ d' = d + 1
            /\ DOMAIN rows' = DOMAIN rows \cup {Len(rows) + 1}
            /\ Len(rows) + 1 \notin DOMAIN rows
            /\ \A k \in DOMAIN rows : rows'[k] = rows[k]
            /\ rows'[Len(rows) + 1] = NewRow
  BY RowsStep
<1>2. CASE rows' = rows /\ d' >= d
  <2>1. d' \in Int
    <3>1. d' \in Nat
      <4>1. WellTyped'
        BY TypeStep
      <4>2. Len(unit.decls)' \in Nat
        BY <1>0, <1>1
      <4> QED BY <4>1, <4>2 DEF WellTyped, TypeOK
    <3> QED BY <3>1
  <2>2. ASSUME NEW k \in DOMAIN rows PROVE RowOfDefinition(rows[k])'
    <3>1. RowOfDefinition(rows[k]) /\ rows'[k] = rows[k]
      BY <1>2 DEF OwnInv
    <3>2. \A j \in DOMAIN unit.decls : j < d => j < d'
      BY <1>0, <1>2, <2>1
    <3> QED BY <1>1, <3>1, <3>2 DEF RowOfDefinition
  <2> QED BY <1>2, <2>2 DEF OwnInv
<1>3. CASE /\ WriteRow /\ d' = d + 1
           /\ DOMAIN rows' = DOMAIN rows \cup {Len(rows) + 1}
           /\ Len(rows) + 1 \notin DOMAIN rows
           /\ \A k \in DOMAIN rows : rows'[k] = rows[k]
           /\ rows'[Len(rows) + 1] = NewRow
  <2> DEFINE new == Len(rows) + 1
  <2>1. d \in DOMAIN unit.decls /\ Measured(Decl)
    BY <1>0, <1>3 DEF WriteRow, WellTyped
  <2>2. /\ NewRow.record = Decl.record
        /\ ~NewRow.array => IsDefinition(Decl)
    <3>1. NewRow.record = Decl.record /\ (NewRow.array <=> Decl.kind # "record")
      BY DEF NewRow, Row
    <3>2. Decl.kind = "record" <=> IsDefinition(Decl)
      BY <1>0, <2>1, MeasuredFacts DEF WellTyped
    <3> HIDE DEF NewRow
    <3> QED BY <3>1, <3>2
  <2>3. ASSUME NEW k \in DOMAIN rows PROVE RowOfDefinition(rows[k])'
    <3>1. RowOfDefinition(rows[k]) /\ rows'[k] = rows[k]
      BY <1>3 DEF OwnInv
    <3>2. \A j \in DOMAIN unit.decls : j < d => j < d'
      BY <1>0, <1>3
    <3> QED BY <1>1, <3>1, <3>2 DEF RowOfDefinition
  <2>4. ASSUME NEW k, rows'[k] = NewRow PROVE RowOfDefinition(rows[k])'
    <3>1. d < d' /\ unit' = unit
      BY <1>0, <1>1, <1>3
    <3>2. ~NewRow.array => IsDefinition(unit.decls[d]) /\ unit.decls[d].record = NewRow.record
      BY <2>2 DEF Decl
    <3> HIDE DEF NewRow
    <3>3. (~rows'[k].array =>
             \E j \in DOMAIN unit'.decls :
               j < d' /\ IsDefinition(unit'.decls[j]) /\ unit'.decls[j].record = rows'[k].record)
      BY <2>1, <2>4, <3>1, <3>2
    <3> QED BY <3>3 DEF RowOfDefinition, IsDefinition
  <2>5. ASSUME NEW k \in DOMAIN rows, rows[k].record = NewRow.record, ~rows[k].array
        PROVE  NewRow.array
    <3>1. PICK j \in DOMAIN unit.decls :
            j < d /\ IsDefinition(unit.decls[j]) /\ unit.decls[j].record = rows[k].record
      BY <2>5 DEF OwnInv, RowOfDefinition
    <3> HIDE DEF NewRow
    <3>2. ASSUME ~NewRow.array PROVE FALSE
      <4>1. IsDefinition(unit.decls[d]) /\ unit.decls[d].record = unit.decls[j].record
        BY <2>2, <2>5, <3>1, <3>2 DEF Decl
      <4>2. j = d
        BY <2>1, <3>1, <4>1 DEF WellTyped, IsUnit
      <4> QED BY <1>0, <3>1, <4>2
    <3> QED BY <3>2
  <2> HIDE DEF NewRow, new
  <2>6. DOMAIN rows' = DOMAIN rows \cup {new} /\ new \notin DOMAIN rows /\ rows'[new] = NewRow
        /\ \A k \in DOMAIN rows : rows'[k] = rows[k]
    BY <1>3 DEF new
  <2>7. \A j, k \in DOMAIN rows' :
          rows'[j].record = rows'[k].record /\ ~rows'[j].array /\ ~rows'[k].array => j = k
    BY <2>5, <2>6 DEF OwnInv
  <2>8. \A k \in DOMAIN rows' : RowOfDefinition(rows[k])'
    <3>1. ASSUME NEW k \in DOMAIN rows' PROVE RowOfDefinition(rows[k])'
      <4>1. CASE k \in DOMAIN rows
        BY <2>3, <4>1
      <4>2. CASE k = new
        BY <2>4, <2>6, <4>2
      <4> QED BY <2>6, <4>1, <4>2
    <3> QED BY <3>1
  <2> QED BY <2>7, <2>8 DEF OwnInv
<1> QED BY <1>1, <1>2, <1>3

(* However often a record is declared it has one row of its own, and the    *)
(* rows of its arrays have the totals of that row times their elements.     *)
THEOREM RowsOfOneRecordAgree == ToolSpec => []RowsAgree
<1> DEFINE Inv == Driving /\ WellTyped /\ MeasureInv /\ RowsInv /\ OwnInv
<1>1. Fresh => MeasureInv /\ RowsInv /\ OwnInv
  BY DEF Fresh, MeasureInv, RowsInv, RowsAreSequence, OwnInv
<1>2. ToolInit => Inv
  BY <1>1, Starts, TypeFresh
<1>3. Inv /\ [ToolNext]_<<driver, vars>> => Inv'
  <2>1. Fresh' => (WellTyped /\ MeasureInv /\ RowsInv /\ OwnInv)'
    BY <1>1, TypeFresh, PTL
  <2>2. RowsInv => RowsAreSequence
    BY DEF RowsInv
  <2> QED BY <2>1, <2>2, ToolFrame, TypeStep, MeasureStep, TotalsStep, OwnStep
<1>4. Inv => RowsAgree
  <2> SUFFICES ASSUME Inv, NEW j \in DOMAIN rows, NEW k \in DOMAIN rows,
                      rows[j].record = rows[k].record
               PROVE  /\ ~rows[j].array /\ ~rows[k].array => j = k
                      /\ rows[j].TotalPadSize * rows[k].copies = rows[k].TotalPadSize * rows[j].copies
                      /\ rows[j].Sizeof * rows[k].copies = rows[k].Sizeof * rows[j].copies
    BY DEF RowsAgree
  <2>1. ~rows[j].array /\ ~rows[k].array => j = k
    BY DEF OwnInv
  <2> DEFINE r == unit.record[rows[j].record]
             size == r.size
             pad == r.size - Base(r.fields)
             x == rows[j].copies
             y == rows[k].copies
  <2>2. /\ x \in Int /\ y \in Int /\ size \in Int /\ pad \in Int
        /\ rows[j].Sizeof = size * x /\ rows[j].TotalPadSize = pad * x
        /\ rows[k].Sizeof = size * y /\ rows[k].TotalPadSize = pad * y
    <3> HIDE DEF Base
    <3> QED BY DEF RowsInv, TotalsOf
  <2> HIDE DEF size, pad, x, y
  <2>3. (pad * x) * y = (pad * y) * x /\ (size * x) * y = (size * y) * x
    BY <2>2
  <2>4. /\ rows[j].TotalPadSize * y = rows[k].TotalPadSize * x
        /\ rows[j].Sizeof * y = rows[k].Sizeof * x
    BY <2>2, <2>3
  <2> QED BY <2>1, <2>4 DEF x, y
<1> QED BY <1>2, <1>3, <1>4, PTL DEF ToolSpec

------------------------------------------------------------------------------
(* The Pads column.                                                         *)

Number(e) == IF e > 0 THEN e ELSE 0

(* A character more, and the sum of the numbers written.                    *)
LEMMA NumbersAppend ==
  ASSUME NEW s \in Seq(Int), NEW e \in Int
  PROVE  /\ SumOf(Numbers(s)) \in Int
         /\ SumOf(Numbers(Append(s, e))) = SumOf(Numbers(s)) + Number(e)
<1>1. \A i \in 1..Len(s) : s[i] \in Int
  BY ElementOfSeq
<1>2. Len(s) \in Nat /\ DOMAIN s = 1..Len(s)
  BY LenProperties
<1> DEFINE t == Append(s, e)
           q == Numbers(s)
<1>3. /\ t \in Seq(Int) /\ Len(t) = Len(s) + 1 /\ DOMAIN t = 1..(Len(s) + 1)
      /\ \A i \in 1..Len(s) : t[i] = s[i]
      /\ t[Len(s) + 1] = e
  <2>1. /\ t \in Seq(Int) /\ Len(t) = Len(s) + 1
        /\ \A i \in 1..Len(s) : t[i] = s[i]
        /\ t[Len(s) + 1] = e
    BY AppendProperties
  <2> HIDE DEF t
  <2> QED BY <2>1, LenProperties
<1>4. Number(e) \in Int
  BY DEF Number
<1>5. q \in Seq(Int) /\ Len(q) = Len(s) /\ \A i \in 1..Len(s) : q[i] = Number(s[i])
  <2>1. q = [k \in 1..Len(s) |-> IF s[k] > 0 THEN s[k] ELSE 0]
    BY <1>2 DEF Numbers
  <2>2. q \in [1..Len(s) -> Int]
    BY <1>1, <2>1
  <2>3. \A i \in 1..Len(s) : q[i] = Number(s[i])
    BY <2>1 DEF Number
  <2> HIDE DEF q
  <2>4. q \in Seq(Int)
    BY <1>2, <2>2
  <2>5. DOMAIN q = 1..Len(s)
    BY <2>1
  <2> QED BY <1>2, <2>3, <2>4, <2>5, LenProperties
<1>6. Numbers(t) \in Seq(Int) /\ Len(Numbers(t)) = Len(s) + 1
      /\ \A i \in 1..(Len(s) + 1) : Numbers(t)[i] = Number(t[i])
  <2> DEFINE r == Numbers(t)
             N == Len(s) + 1
  <2>0. N \in Nat /\ \A i \in 1..N : t[i] \in Int
    <3> HIDE DEF t
    <3> QED BY <1>2, <1>3, ElementOfSeq
  <2>1. r = [k \in 1..N |-> IF t[k] > 0 THEN t[k] ELSE 0]
    <3> HIDE DEF t
    <3> QED BY <1>3 DEF Numbers
  <2>2. r \in [1..N -> Int]
    <3> HIDE DEF t, N
    <3> QED BY <2>0, <2>1
  <2>3. \A i \in 1..N : r[i] = Number(t[i])
    <3> HIDE DEF t, N
    <3> QED BY <2>1 DEF Number
  <2> HIDE DEF r, N, t
  <2>4. r \in Seq(Int)
    BY <2>0, <2>2
  <2>5. DOMAIN r = 1..N
    BY <2>1
  <2>6. Len(r) = N
    BY <2>0, <2>4, <2>5, LenProperties
  <2> QED BY <2>3, <2>4, <2>6 DEF r, N
<1> HIDE DEF t, q
<1>7. Numbers(t) = Append(q, Number(e))
  <2> DEFINE a == Append(q, Number(e))
             r == Numbers(t)
             x == Number(e)
  <2>1. /\ a \in Seq(Int) /\ Len(a) = Len(s) + 1
        /\ \A i \in 1..Len(s) : a[i] = Number(s[i])
        /\ a[Len(s) + 1] = x
    <3>1. x \in Int
      BY <1>4
    <3> HIDE DEF x
    <3>2. /\ Append(q, x) \in Seq(Int) /\ Len(Append(q, x)) = Len(q) + 1
          /\ \A i \in 1..Len(q) : Append(q, x)[i] = q[i]
          /\ Append(q, x)[Len(q) + 1] = x
      BY <1>5, <3>1, AppendProperties
    <3>3. /\ Append(q, x) \in Seq(Int) /\ Len(Append(q, x)) = Len(s) + 1
          /\ \A i \in 1..Len(s) : Append(q, x)[i] = Number(s[i])
          /\ Append(q, x)[Len(s) + 1] = x
      BY <1>5, <3>2
    <3> QED BY <3>3 DEF x
  <2>2. \A i \in 1..(Len(s) + 1) : r[i] = a[i]
    <3> HIDE DEF a
    <3>1. \A i \in 1..(Len(s) + 1) : i \in 1..Len(s) \/ i = Len(s) + 1
      BY <1>2
    <3> QED BY <1>3, <1>6, <2>1, <3>1
  <2>3. r \in Seq(Int) /\ Len(r) = Len(s) + 1
    BY <1>6
  <2> HIDE DEF a, r
  <2>4. r = a
    BY <2>1, <2>2, <2>3, SeqEqual
  <2> QED BY <2>4 DEF a, r
<1>8. SumOf(q) \in Int /\ SumOf(Append(q, Number(e))) = SumOf(q) + Number(e)
  <2> DEFINE x == Number(e)
  <2>1. x \in Int
    BY <1>4
  <2> HIDE DEF x
  <2>2. SumOf(q) \in Int /\ SumOf(Append(q, x)) = SumOf(q) + x
    BY <1>5, <2>1, SumOfAppend
  <2> QED BY <2>2 DEF x
<1> QED BY <1>7, <1>8 DEF t, q

(* A column in the making: a quote, then numbers, each with a comma after.  *)
OpenColumn(s) ==
    /\ s \in Seq(Int) /\ Len(s) % 2 = 1 /\ s[1] = Quote
    /\ \A j \in 2..Len(s) : IF j % 2 = 0 THEN s[j] > 0 ELSE s[j] = Comma

ClosedColumn(s) ==
    /\ Len(s) >= 2 /\ s[1] = Quote /\ Last(s) = Quote
    /\ \A j \in 2..Len(s) - 1 : IF j % 2 = 0 THEN s[j] > 0 ELSE s[j] = Comma
    /\ Len(s) > 2 => s[Len(s) - 1] > 0

(* A gap adds a number and a comma, or nothing.                             *)
LEMMA ListedColumn ==
  ASSUME NEW s, OpenColumn(s), NEW pad \in Nat
  PROVE  /\ OpenColumn(Listed(s, pad))
         /\ SumOf(Numbers(Listed(s, pad))) = SumOf(Numbers(s)) + pad
<1>0. s \in Seq(Int) /\ Len(s) \in Nat \ {0}
  <2>1. s \in Seq(Int) /\ Len(s) % 2 = 1
    BY DEF OpenColumn
  <2>2. Len(s) \in Nat
    BY <2>1, LenProperties
  <2> QED BY <2>1, <2>2
<1>1. CASE pad = 0
  <2>1. SumOf(Numbers(s)) \in Int
    BY <1>0, NumbersAppend
  <2> QED BY <1>1, <2>1 DEF Listed
<1>2. CASE pad # 0
  <2> DEFINE a == Append(s, pad)
             b == Append(a, Comma)
             p == <<pad, Comma>>
  <2>1. /\ a \in Seq(Int) /\ Len(a) = Len(s) + 1
        /\ \A i \in 1..Len(s) : a[i] = s[i]
        /\ a[Len(s) + 1] = pad
    BY <1>0, AppendProperties
  <2>2. SumOf(Numbers(s)) \in Int /\ SumOf(Numbers(a)) = SumOf(Numbers(s)) + Number(pad)
    BY <1>0, NumbersAppend
  <2>3. Comma \in Int /\ Number(Comma) = 0 /\ Number(pad) = pad
    BY <1>2 DEF Comma, Number
  <2> HIDE DEF a
  <2>4. /\ b \in Seq(Int) /\ Len(b) = Len(a) + 1
        /\ \A i \in 1..Len(a) : b[i] = a[i]
        /\ b[Len(a) + 1] = Comma
    BY <2>1, <2>3, AppendProperties
  <2>5. SumOf(Numbers(b)) = SumOf(Numbers(a)) + Number(Comma)
    BY <2>1, <2>3, NumbersAppend
  <2>6. p \in Seq(Int) /\ Len(p) = 2 /\ p[1] = pad /\ p[2] = Comma
    BY <2>3
  <2> HIDE DEF b, p
  <2>7. /\ s \o p \in Seq(Int) /\ Len(s \o p) = Len(s) + Len(p)
        /\ \A i \in 1..(Len(s) + Len(p)) :
             (s \o p)[i] = IF i <= Len(s) THEN s[i] ELSE p[i - Len(s)]
    BY <1>0, <2>6, ConcatProperties
  <2> DEFINE cat == s \o p
             N == Len(s)
  <2>8. /\ cat \in Seq(Int) /\ Len(cat) = N + 2 /\ N \in Nat \ {0}
        /\ \A i \in 1..(N + 2) : cat[i] = IF i <= N THEN s[i] ELSE p[i - N]
    BY <1>0, <2>6, <2>7
  <2>9. /\ Len(b) = N + 2
        /\ \A i \in 1..N : b[i] = s[i]
        /\ b[N + 1] = pad /\ b[N + 2] = Comma
    <3>1. /\ N \in Nat \ {0} /\ Len(a) = N + 1
          /\ \A i \in 1..N : a[i] = s[i]
          /\ a[N + 1] = pad
      BY <1>0, <2>1
    <3> HIDE DEF N
    <3>2. \A i \in 1..N : b[i] = s[i]
      BY <2>4, <3>1
    <3>3. N + 1 \in 1..Len(a) /\ Len(a) + 1 = N + 2
      BY <3>1
    <3> QED BY <2>4, <3>1, <3>2, <3>3
  <2> HIDE DEF cat, N
  <2>10. \A i \in 1..(N + 2) : cat[i] = b[i]
    <3>1. ASSUME NEW i \in 1..N PROVE cat[i] = b[i]
      BY <2>8, <2>9
    <3>2. cat[N + 1] = b[N + 1]
      <4>1. N + 1 \in 1..(N + 2) /\ ~(N + 1 <= N) /\ (N + 1) - N = 1
        BY <2>8
      <4> QED BY <2>6, <2>8, <2>9, <4>1
    <3>3. cat[N + 2] = b[N + 2]
      <4>1. N + 2 \in 1..(N + 2) /\ ~(N + 2 <= N) /\ (N + 2) - N = 2
        BY <2>8
      <4> QED BY <2>6, <2>8, <2>9, <4>1
    <3>4. \A i \in 1..(N + 2) : i \in 1..N \/ i = N + 1 \/ i = N + 2
      BY <2>8
    <3> QED BY <3>1, <3>2, <3>3, <3>4
  <2>11. cat = b
    BY <2>4, <2>8, <2>9, <2>10, SeqEqual
  <2>12. Listed(s, pad) = b
    BY <1>2, <2>11 DEF Listed, cat, p
  <2>13. OpenColumn(b)
    <3>1. N % 2 = 1 /\ s[1] = Quote
          /\ \A j \in 2..N : IF j % 2 = 0 THEN s[j] > 0 ELSE s[j] = Comma
      BY DEF OpenColumn, N
    <3>2. (N + 1) % 2 = 0 /\ (N + 2) % 2 = 1
      BY <2>8, <3>1
    <3>3. b[1] = Quote
      BY <2>8, <2>9, <3>1
    <3>4. ASSUME NEW j \in 2..(N + 2) PROVE IF j % 2 = 0 THEN b[j] > 0 ELSE b[j] = Comma
      <4>1. CASE j \in 2..N
        <5>1. b[j] = s[j]
          BY <2>8, <2>9, <4>1
        <5> QED BY <3>1, <4>1, <5>1
      <4>2. CASE j = N + 1
        BY <1>2, <2>9, <3>2, <4>2
      <4>3. CASE j = N + 2
        BY <2>9, <3>2, <4>3
      <4> QED BY <2>8, <4>1, <4>2, <4>3
    <3> QED BY <2>4, <2>9, <3>2, <3>3, <3>4 DEF OpenColumn
  <2> QED BY <2>2, <2>3, <2>5, <2>12, <2>13
<1> QED BY <1>1, <1>2

(* The last character, a comma or the opening quote, makes room for the     *)
(* closing one.                                                             *)
LEMMA ClosedIsColumn ==
  ASSUME NEW s, OpenColumn(s)
  PROVE  ClosedColumn(Closed(s)) /\ SumOf(Numbers(Closed(s))) = SumOf(Numbers(s))
<1> DEFINE N == Len(s)
           f == Front(s)
           t == Append(f, Quote)
<1>1. s \in Seq(Int) /\ N \in Nat \ {0} /\ N % 2 = 1 /\ s[1] = Quote
      /\ \A j \in 2..N : IF j % 2 = 0 THEN s[j] > 0 ELSE s[j] = Comma
  <2>1. s \in Seq(Int) /\ N % 2 = 1
    BY DEF OpenColumn
  <2>2. N \in Nat
    BY <2>1, LenProperties
  <2> QED BY <2>1, <2>2 DEF OpenColumn
<1>2. s # <<>>
  <2>1. s = <<>> => Len(s) = 0
    OBVIOUS
  <2> QED BY <1>1, <2>1
<1>3. f \in Seq(Int) /\ Len(f) = N - 1 /\ \A i \in 1..(N - 1) : f[i] = s[i]
  BY <1>1, <1>2, PopProperties
<1>4. Quote \in Int /\ Comma \in Int /\ Number(Quote) = 0 /\ Number(Comma) = 0
  BY DEF Quote, Comma, Number
<1> HIDE DEF f
<1>5. /\ t \in Seq(Int) /\ Len(t) = N
      /\ \A i \in 1..(N - 1) : t[i] = s[i]
      /\ t[N] = Quote
  <2>1. /\ t \in Seq(Int) /\ Len(t) = Len(f) + 1
        /\ \A i \in 1..Len(f) : t[i] = f[i]
        /\ t[Len(f) + 1] = Quote
    BY <1>3, <1>4, AppendProperties
  <2> HIDE DEF t, N
  <2> QED BY <1>1, <1>3, <2>1
<1>6. CASE N = 1
  <2> DEFINE two == <<Quote, Quote>>
  <2>1. f = <<>>
    <3>1. Len(f) = 0
      BY <1>3, <1>6
    <3> QED BY <1>3, <3>1, EmptySeq
  <2>2. Closed(s) = two
    BY <2>1 DEF Closed, f
  <2>3. ClosedColumn(two)
    <3>1. two[1] = Quote /\ Len(two) = 2 /\ Last(two) = Quote
      BY DEF Last
    <3>2. 2..Len(two) - 1 = {} /\ ~(Len(two) > 2)
      BY <3>1
    <3> HIDE DEF two
    <3> QED BY <3>1, <3>2 DEF ClosedColumn
  <2>4. SumOf(Numbers(two)) = SumOf(Numbers(s))
    <3> DEFINE one == Append(<<>>, Quote)
    <3>1. one \in Seq(Int) /\ Len(one) = 1 /\ one[1] = Quote /\ two = Append(one, Quote)
      BY <1>4
    <3> HIDE DEF one
    <3>2. one = s
      <4>1. Len(one) = Len(s) /\ \A i \in 1..Len(one) : one[i] = s[i]
        BY <1>1, <1>6, <3>1
      <4> QED BY <1>1, <3>1, <4>1, SeqEqual
    <3>3. two = Append(s, Quote)
      BY <3>1, <3>2
    <3> HIDE DEF two
    <3>4. SumOf(Numbers(s)) \in Int
          /\ SumOf(Numbers(Append(s, Quote))) = SumOf(Numbers(s)) + Number(Quote)
      BY <1>1, <1>4, NumbersAppend
    <3>5. SumOf(Numbers(two)) = SumOf(Numbers(s)) + Number(Quote)
      BY <3>3, <3>4
    <3> QED BY <1>4, <3>4, <3>5
  <2> QED BY <2>2, <2>3, <2>4
<1>7. CASE N # 1
  <2>1. f # <<>>
    <3>1. Len(f) # 0
      BY <1>1, <1>3, <1>7
    <3> QED BY <3>1
  <2>2. Closed(s) = t
    BY <2>1 DEF Closed, f
  <2>3. N >= 3 /\ N - 1 \in 2..N /\ (N - 1) % 2 = 0
    <3> HIDE DEF N
    <3> QED BY <1>1, <1>7
  <2>4. ClosedColumn(t)
    <3>1. Last(t) = Quote
      BY <1>5 DEF Last
    <3> HIDE DEF t, N
    <3>2. t[1] = Quote
      <4>1. 1 \in 1..(N - 1)
        BY <1>1, <2>3
      <4> QED BY <1>1, <1>5, <4>1
    <3>3. ASSUME NEW j \in 2..(N - 1) PROVE IF j % 2 = 0 THEN t[j] > 0 ELSE t[j] = Comma
      <4>1. j \in 2..N /\ j \in 1..(N - 1)
        BY <1>1
      <4>2. t[j] = s[j]
        BY <1>5, <4>1
      <4> QED BY <1>1, <4>1, <4>2
    <3>4. t[N - 1] > 0
      <4>1. N - 1 \in 2..(N - 1)
        BY <1>1, <2>3
      <4> QED BY <2>3, <3>3, <4>1
    <3> QED BY <1>5, <2>3, <3>1, <3>2, <3>3, <3>4 DEF ClosedColumn
  <2>5. SumOf(Numbers(t)) = SumOf(Numbers(f)) + Number(Quote) /\ SumOf(Numbers(f)) \in Int
    BY <1>3, <1>4, NumbersAppend
  <2>6. SumOf(Numbers(s)) = SumOf(Numbers(f)) + Number(Comma)
    <3> DEFINE u == Append(f, Comma)
    <3>1. /\ u \in Seq(Int) /\ Len(u) = Len(f) + 1
          /\ \A i \in 1..Len(f) : u[i] = f[i]
          /\ u[Len(f) + 1] = Comma
      BY <1>3, <1>4, AppendProperties
    <3>2. SumOf(Numbers(u)) = SumOf(Numbers(f)) + Number(Comma)
      BY <1>3, <1>4, NumbersAppend
    <3> HIDE DEF u
    <3>3. u = s
      <4>1. s[N] = Comma
        <5> HIDE DEF N
        <5>1. N \in 2..N /\ N % 2 # 0
          BY <1>1, <2>3
        <5> QED BY <1>1, <5>1
      <4> DEFINE M == N
      <4>2. Len(u) = M /\ \A i \in 1..M : u[i] = s[i]
        <5>1. Len(u) = M /\ (\A i \in 1..(M - 1) : u[i] = s[i]) /\ u[M] = s[M] /\ M \in Nat
          <6>1. Len(f) = M - 1 /\ M \in Nat \ {0}
            BY <1>1, <1>3
          <6> HIDE DEF M, N
          <6>2. Len(f) + 1 = M
            BY <6>1
          <6> QED BY <1>3, <3>1, <4>1, <6>1, <6>2 DEF M
        <5> HIDE DEF M, N
        <5>2. \A i \in 1..M : i \in 1..(M - 1) \/ i = M
          BY <5>1
        <5> QED BY <5>1, <5>2
      <4> QED BY <1>1, <3>1, <4>2, SeqEqual
    <3> QED BY <3>2, <3>3
  <2> QED BY <1>4, <2>2, <2>4, <2>5, <2>6
<1> QED BY <1>6, <1>7

(* Of a record being measured the column lists the padding found so far.    *)
PadsInv ==
    status = "measuring" => OpenColumn(Pads) /\ SumOf(Numbers(Pads)) = PaddingSum

ColumnOf(row) ==
    ClosedColumn(row.Pads) /\ SumOf(Numbers(row.Pads)) * row.copies = row.TotalPadSize

ColumnsInv == RowsAreSequence /\ \A k \in DOMAIN rows : ColumnOf(rows[k])

(* The column of an open record.                                            *)
LEMMA PadsStep ==
  ASSUME WellTyped, PadsInv, [Next]_vars
  PROVE  PadsInv'
<1>1. CASE Measure
  <2> DEFINE q == <<Quote>>
  <2>1. Pads' = q /\ PaddingSum' = 0
    BY <1>1 DEF Measure
  <2>2. Quote \in Int /\ Number(Quote) = 0
    BY DEF Quote, Number
  <2>3. q \in Seq(Int) /\ Len(q) = 1 /\ q[1] = Quote /\ q = Append(<<>>, Quote)
    BY <2>2
  <2> HIDE DEF q
  <2>4. OpenColumn(q)
    <3>1. 2..Len(q) = {} /\ Len(q) % 2 = 1
      BY <2>3
    <3> QED BY <2>3, <3>1 DEF OpenColumn
  <2>5. SumOf(Numbers(q)) = 0
    <3> DEFINE z == <<>>
    <3>1. z \in Seq(Int)
      OBVIOUS
    <3>2. Numbers(z) = <<>>
      BY DEF Numbers
    <3>3. SumOf(Numbers(z)) = 0
      BY <3>2, SumOfEmpty
    <3>4. q = Append(z, Quote)
      BY <2>3
    <3> HIDE DEF z
    <3>5. SumOf(Numbers(Append(z, Quote))) = SumOf(Numbers(z)) + Number(Quote)
      BY <2>2, <3>1, NumbersAppend
    <3> QED BY <2>2, <3>3, <3>4, <3>5
  <2> QED BY <2>1, <2>4, <2>5 DEF PadsInv, OpenColumn, Numbers, SumOf
<1>2. CASE AddField
  <2> DEFINE pad == Field(n).offset - Offset
             new == Listed(Pads, pad)
  <2>1. OpenColumn(Pads) /\ SumOf(Numbers(Pads)) = PaddingSum
    BY <1>2 DEF AddField, PadsInv
  <2>2. pad \in Nat
    <3>1. d \in 1..Len(unit.decls) /\ Measured(Decl) /\ Offset \in Nat /\ Offset <= Field(n).offset
      BY <1>2 DEF AddField, WellTyped, TypeOK
    <3>2. Len(Rec.fields) \in Nat /\ \A k \in 1..Len(Rec.fields) : Field(k).offset \in Nat
      BY <3>1, MeasuredFacts DEF WellTyped
    <3>3. n \in 1..Len(Rec.fields)
      BY <1>2, <3>2 DEF AddField, WellTyped, TypeOK
    <3>4. Field(n).offset \in Nat
      BY <3>2, <3>3
    <3> QED BY <3>1, <3>4
  <2>3. Pads' = new /\ PaddingSum' = PaddingSum + pad
    BY <1>2 DEF AddField
  <2>4. OpenColumn(new) /\ SumOf(Numbers(new)) = PaddingSum + pad
    <3> HIDE DEF pad
    <3> QED BY <2>1, <2>2, ListedColumn
  <2> HIDE DEF pad, new
  <2> QED BY <2>3, <2>4 DEF PadsInv, OpenColumn, Numbers, SumOf
<1>3. CASE SkipDecl
  BY <1>3 DEF SkipDecl, Visiting, PadsInv
<1>4. CASE WriteRow
  BY <1>4 DEF WriteRow, PadsInv
<1>5. CASE Finish
  BY <1>5 DEF Finish, PadsInv
<1>6. CASE UNCHANGED vars
  BY <1>6 DEF vars, measure, PadsInv, OpenColumn, Numbers, SumOf
<1> QED BY <1>1, <1>2, <1>3, <1>4, <1>5, <1>6 DEF Next

(* The row a record ends with lists its padding.                            *)
LEMMA NewRowColumn ==
  ASSUME WellTyped, PadsInv, WriteRow
  PROVE  ColumnOf(NewRow)
<1>1. /\ d \in 1..Len(unit.decls) /\ Measured(Decl) /\ status = "measuring"
      /\ Offset \in Nat /\ n > Len(Rec.fields)
      /\ Offset <= IF n <= Len(Rec.fields) THEN Field(n).offset ELSE Rec.size
  BY DEF WriteRow, WellTyped, TypeOK
<1>2. Len(Rec.fields) \in Nat /\ Rec.size \in Nat
  BY <1>1, MeasuredFacts DEF WellTyped
<1>3. LastPad \in Nat
  <2>1. n \in 1..Len(Rec.fields) + 1
    BY <1>1 DEF WellTyped, TypeOK
  <2>2. ~(n <= Len(Rec.fields))
    BY <1>1, <1>2, <2>1
  <2> QED BY <1>1, <1>2, <2>2 DEF LastPad
<1>4. OpenColumn(Pads) /\ SumOf(Numbers(Pads)) = PaddingSum
  BY <1>1 DEF PadsInv
<1> DEFINE open == Listed(Pads, LastPad)
           column == Closed(open)
<1>5. OpenColumn(open) /\ SumOf(Numbers(open)) = PaddingSum + LastPad
  BY <1>3, <1>4, ListedColumn
<1>6. ClosedColumn(column) /\ SumOf(Numbers(column)) = PaddingSum + LastPad
  <2> HIDE DEF open
  <2> QED BY <1>5, ClosedIsColumn
<1>7. /\ NewRow.Pads = column /\ NewRow.copies = Copies
      /\ NewRow.TotalPadSize = (PaddingSum + LastPad) * Copies
  BY DEF NewRow, Row
<1> HIDE DEF NewRow, column
<1> QED BY <1>6, <1>7 DEF ColumnOf

(* Every row keeps its column.                                              *)
LEMMA ColumnsStep ==
  ASSUME WellTyped, PadsInv, ColumnsInv, [Next]_vars
  PROVE  ColumnsInv'
<1>1. /\ RowsAreSequence'
      /\ \/ rows' = rows
         \/ /\ WriteRow
            /\ DOMAIN rows' = DOMAIN rows \cup {Len(rows) + 1}
            /\ \A k \in DOMAIN rows : rows'[k] = rows[k]
            /\ rows'[Len(rows) + 1] = NewRow
  BY RowsStep DEF ColumnsInv
<1>2. \A k \in DOMAIN rows : ColumnOf(rows[k])
  BY DEF ColumnsInv
<1>3. WriteRow => ColumnOf(NewRow)
  BY NewRowColumn
<1>4. \A k \in DOMAIN rows' : ColumnOf(rows'[k])
  <2> HIDE DEF NewRow
  <2> QED BY <1>1, <1>2, <1>3
<1> QED BY <1>1, <1>4 DEF ColumnsInv, ColumnOf, ClosedColumn, Numbers, SumOf

(* The Pads column of every row is one quoted list of numbers with single   *)
(* commas between them, and these add up to the padding of one record: the  *)
(* comma taken back at the end is never a number.                           *)
THEOREM PadsAreThePadding == ToolSpec => []PadsListThePadding
<1> DEFINE Inv == Driving /\ WellTyped /\ PadsInv /\ ColumnsInv
<1>1. Fresh => PadsInv /\ ColumnsInv
  BY DEF Fresh, PadsInv, ColumnsInv, RowsAreSequence
<1>2. ToolInit => Inv
  BY <1>1, Starts, TypeFresh
<1>3. Inv /\ [ToolNext]_<<driver, vars>> => Inv'
  <2>1. Fresh' => (WellTyped /\ PadsInv /\ ColumnsInv)'
    BY <1>1, TypeFresh, PTL
  <2> QED BY <2>1, ToolFrame, TypeStep, PadsStep, ColumnsStep
<1>4. Inv => PadsListThePadding
  BY DEF ColumnsInv, ColumnOf, ClosedColumn, PadsListThePadding
<1> QED BY <1>2, <1>3, <1>4, PTL DEF ToolSpec

------------------------------------------------------------------------------
(* The files.                                                               *)

(* The loop of Due over the declarations of a unit.                         *)
AddDue(u, due, decl) == IF HasRow(u, decl) THEN Append(due, RowOf(decl)) ELSE due
DueRows == {RowOf(decl) : decl \in Declarations}

(* What is due grows by one declaration at a time.                          *)
LEMMA DueLoop ==
  ASSUME NEW u, u.decls \in Seq(Declarations)
  PROVE  /\ Due(u, 0) = <<>>
         /\ \A i \in 1..Len(u.decls) : Due(u, i) = AddDue(u, Due(u, i - 1), u.decls[i])
         /\ \A i \in 0..Len(u.decls) : Due(u, i) \in Seq(DueRows)
<1> DEFINE N == Len(u.decls)
           V == Seq(DueRows)
           G == [i \in 1..N |-> [v \in V |-> AddDue(u, v, u.decls[i])]]
           start == <<>>
           IsLoop(q) == q = [i \in 0..N |-> IF i = 0 THEN <<>> ELSE AddDue(u, q[i - 1], u.decls[i])]
           w == CHOOSE q : IsLoop(q)
<1>1. N \in Nat /\ start \in V /\ \A i \in 1..N : u.decls[i] \in Declarations
  BY LenProperties, ElementOfSeq, EmptySeq
<1>2. \A i \in 1..N : \A v \in V : AddDue(u, v, u.decls[i]) \in V
  <2>1. \A i \in 1..N : RowOf(u.decls[i]) \in DueRows
    <3> HIDE DEF N
    <3> QED BY <1>1 DEF DueRows
  <2> HIDE DEF N
  <2> QED BY <2>1, AppendProperties DEF AddDue
<1>3. G \in LoopBodies(N, V)
  <2> HIDE DEF N, V
  <2> QED BY <1>2 DEF LoopBodies
<1>4. PICK r \in [0..N -> V] : IsRun(r, N, start, G)
  <2> HIDE DEF N, V, G, start
  <2> QED BY <1>1, <1>3, IterationExists
<1>5. IsLoop(r)
  <2>1. ASSUME NEW i \in 0..N PROVE r[i] = IF i = 0 THEN <<>> ELSE AddDue(u, r[i - 1], u.decls[i])
    <3>1. i # 0 => i \in 1..N /\ i - 1 \in 0..N
      BY <1>1
    <3>2. i # 0 => r[i - 1] \in V /\ r[i] = G[i][r[i - 1]]
      <4> HIDE DEF N, V, G, start
      <4> QED BY <1>4, <3>1 DEF IsRun
    <3>3. r[0] = start
      BY <1>4 DEF IsRun
    <3> HIDE DEF N, V
    <3> QED BY <3>1, <3>2, <3>3
  <2> HIDE DEF N, V
  <2> QED BY <2>1
<1>6. IsLoop(w)
  <2> HIDE DEF IsLoop
  <2> QED BY <1>5
<1>7. \A i : Due(u, i) = w[i]
  BY DEF Due, AddDue
<1> HIDE DEF w
<1>8. w[0] = <<>> /\ \A i \in 1..N : w[i] = AddDue(u, w[i - 1], u.decls[i])
  <2>1. 0 \in 0..N /\ \A i \in 1..N : i \in 0..N /\ i # 0
    BY <1>1
  <2> HIDE DEF N
  <2> QED BY <1>6, <2>1
<1>9. FollowsIn(V, w, N, start, G)
  <2> HIDE DEF N, V
  <2> QED BY <1>8 DEF FollowsIn
<1>10. StaysIn(V, w, N)
  <2> HIDE DEF N, V, G, start
  <2> QED BY <1>1, <1>3, <1>9, IterationStays
<1> HIDE DEF N, V
<1>11. \A i \in 0..N : w[i] \in V
  BY <1>10 DEF StaysIn
<1>12. \A i \in 1..N : Due(u, i) = AddDue(u, Due(u, i - 1), u.decls[i])
  BY <1>7, <1>8, Zenon
<1>13. Due(u, 0) = <<>> /\ \A i \in 0..N : Due(u, i) \in V
  BY <1>7, <1>8, <1>11, Zenon
<1> QED BY <1>12, <1>13 DEF N, V

(* A declaration is measured exactly if a row of it is due.                 *)
LEMMA MeasuredIsDue ==
  ASSUME IsUnit(unit), d \in 1..Len(unit.decls)
  PROVE  /\ Measured(Decl) <=> HasRow(unit, Decl)
         /\ Measured(Decl) => RowOf(Decl) = [record |-> Decl.record, copies |-> Copies]
<1>1. Decl \in Declarations
  BY ElementOfSeq DEF IsUnit, Decl
<1>2. Decl.kind = "constant array" => Decl.elements \in Nat
  BY <1>1 DEF Declarations
<1>3. Decl.kind = "constant array" => (Decl.elements # 0 <=> Decl.elements > 0)
  <2> DEFINE e == Decl.elements
  <2>1. e \in Nat => (e # 0 <=> e > 0)
    OBVIOUS
  <2> HIDE DEF e
  <2>2. Decl.kind = "constant array" => e \in Nat
    BY <1>2 DEF e
  <2>3. Decl.kind = "constant array" => (e # 0 <=> e > 0)
    BY <2>1, <2>2, Zenon
  <2> QED BY <2>3 DEF e
<1> QED BY <1>3 DEF Measured, HasRow, IsDefinition, RowOf, Copies

(* The summary of one more row.                                             *)
LEMMA SummaryAppend ==
  ASSUME NEW s, s \in Seq(ToSet(s)), NEW e
  PROVE  Summary(Append(s, e)) = Append(Summary(s), [record |-> e.record, copies |-> e.copies])
<1> DEFINE N == Len(s)
           f == [record |-> e.record, copies |-> e.copies]
           t == Append(s, e)
           T == {[record |-> x.record, copies |-> x.copies] : x \in ToSet(s)} \cup {f}
<1>1. /\ N \in Nat /\ DOMAIN s = 1..N /\ DOMAIN t = 1..N \cup {N + 1} /\ t[N + 1] = e
      /\ \A k \in 1..N : t[k] = s[k] /\ s[k] \in ToSet(s)
  BY AppendSelf, ElementOfSeq
<1> HIDE DEF t
<1>2. Summary(s) \in Seq(T) /\ Len(Summary(s)) = N /\ f \in T
  <2>1. \A k \in 1..N : [record |-> s[k].record, copies |-> s[k].copies] \in T
    <3> HIDE DEF f, N
    <3> QED BY <1>1
  <2>2. Summary(s) = [k \in 1..N |-> [record |-> s[k].record, copies |-> s[k].copies]]
    BY <1>1 DEF Summary
  <2>3. Summary(s) \in [1..N -> T]
    <3> HIDE DEF N, T
    <3> QED BY <2>1, <2>2
  <2> HIDE DEF N, T
  <2>4. Summary(s) \in Seq(T)
    BY <1>1, <2>3
  <2>5. Len(Summary(s)) = N
    BY <1>1, <2>2, <2>4, LenProperties
  <2> QED BY <2>4, <2>5 DEF T
<1>3. 1..(N + 1) = 1..N \cup {N + 1}
  BY <1>1
<1>4. /\ Append(Summary(s), f) = [k \in 1..(N + 1) |-> Append(Summary(s), f)[k]]
      /\ \A k \in 1..N : Append(Summary(s), f)[k] = Summary(s)[k]
      /\ Append(Summary(s), f)[N + 1] = f
  <2> DEFINE r == Summary(s)
  <2> HIDE DEF f, T, r, N
  <2>1. /\ Append(r, f) \in Seq(T) /\ Len(Append(r, f)) = Len(r) + 1
        /\ \A k \in 1..Len(r) : Append(r, f)[k] = r[k] /\ Append(r, f)[Len(r) + 1] = f
    BY <1>2, AppendProperties DEF r
  <2>2. Append(r, f) = [k \in 1..(N + 1) |-> Append(r, f)[k]]
    BY <1>2, <2>1, LenProperties DEF r
  <2>3. Append(r, f)[N + 1] = f /\ \A k \in 1..N : Append(r, f)[k] = r[k]
    <3>1. Append(r, f)[Len(r) + 1] = f
      BY <1>2, AppendProperties DEF r
    <3> QED BY <1>2, <2>1, <3>1 DEF r
  <2> QED BY <2>2, <2>3 DEF r
<1>5. Summary(t) = [k \in 1..(N + 1) |-> [record |-> t[k].record, copies |-> t[k].copies]]
  BY <1>1, <1>3 DEF Summary
<1>6. \A k \in 1..N : Summary(s)[k] = [record |-> s[k].record, copies |-> s[k].copies]
  BY <1>1 DEF Summary
<1>7. ASSUME NEW k \in 1..(N + 1)
      PROVE  [record |-> t[k].record, copies |-> t[k].copies] = Append(Summary(s), f)[k]
  <2> DEFINE r == Append(Summary(s), f)
             one(x) == [record |-> x.record, copies |-> x.copies]
  <2>1. CASE k = N + 1
    BY <1>1, <1>4, <2>1
  <2>2. CASE k \in 1..N
    <3>1. r[k] = Summary(s)[k] /\ t[k] = s[k] /\ Summary(s)[k] = one(s[k])
      BY <1>1, <1>4, <1>6, <2>2
    <3> HIDE DEF r, N
    <3>2. one(t[k]) = r[k]
      BY <3>1
    <3> QED BY <3>2 DEF r
  <2> QED BY <1>3, <2>1, <2>2
<1> HIDE DEF N
<1>8. Summary(t) = Append(Summary(s), f)
  <2> DEFINE r == Append(Summary(s), f)
  <2> HIDE DEF r, f
  <2>1. \A k \in 1..(N + 1) : [record |-> t[k].record, copies |-> t[k].copies] = r[k]
    BY <1>7 DEF r, f
  <2>2. r = [k \in 1..(N + 1) |-> r[k]]
    BY <1>4 DEF r, f
  <2>3. Summary(t) = r
    BY <1>5, <2>1, <2>2
  <2> QED BY <2>3 DEF r
<1> QED BY <1>8 DEF t

(* The rows under way are those that are due of the declarations visited.   *)
DueInv ==
    /\ Summary(rows) = Due(unit, d - 1)
    /\ status = "done" => d = Len(unit.decls) + 1

(* Each declaration is visited once and gives the row that is due of it.    *)
LEMMA DueStep ==
  ASSUME WellTyped, RowsAreSequence, DueInv, [Next]_vars
  PROVE  DueInv'
<1>1. /\ Len(unit.decls) \in Nat /\ d \in 1..(Len(unit.decls) + 1)
      /\ unit.decls \in Seq(Declarations) /\ (d + 1) - 1 = d
  <2>1. unit.decls \in Seq(Declarations)
    BY DEF WellTyped, IsUnit
  <2>2. Len(unit.decls) \in Nat /\ d \in 1..(Len(unit.decls) + 1)
    BY <2>1, LenProperties DEF WellTyped, TypeOK
  <2> QED BY <2>1, <2>2
<1>2. d \in 1..Len(unit.decls) => Due(unit, d) = AddDue(unit, Due(unit, d - 1), Decl)
  BY <1>1, DueLoop DEF Decl
<1>3. CASE SkipDecl
  <2>1. d \in 1..Len(unit.decls) /\ ~Measured(Decl)
    BY <1>1, <1>3 DEF SkipDecl, Visiting
  <2>2. Due(unit, d) = Due(unit, d - 1)
    BY <1>2, <2>1, MeasuredIsDue DEF WellTyped, AddDue
  <2>3. d' - 1 = d /\ rows' = rows /\ unit' = unit /\ status' # "done"
    BY <1>1, <1>3 DEF SkipDecl, Visiting
  <2> QED BY <2>2, <2>3 DEF DueInv, Summary
<1>4. CASE WriteRow
  <2>1. d \in 1..Len(unit.decls) /\ Measured(Decl)
    BY <1>4 DEF WriteRow, WellTyped
  <2>2. /\ rows' = Append(rows, NewRow) /\ d' - 1 = d /\ unit' = unit /\ status' # "done"
    BY <1>1, <1>4 DEF WriteRow, NewRow, LastPad
  <2>3. [record |-> NewRow.record, copies |-> NewRow.copies] = RowOf(Decl)
    <3>1. NewRow.record = Decl.record /\ NewRow.copies = Copies
      BY DEF NewRow, Row
    <3> HIDE DEF NewRow
    <3> QED BY <2>1, <3>1, MeasuredIsDue DEF WellTyped
  <2> HIDE DEF NewRow
  <2>4. Summary(Append(rows, NewRow)) = Append(Summary(rows), RowOf(Decl))
    BY <2>3, SummaryAppend DEF RowsAreSequence
  <2>5. Due(unit, d) = Append(Due(unit, d - 1), RowOf(Decl))
    BY <1>2, <2>1, MeasuredIsDue DEF WellTyped, AddDue
  <2>6. Summary(rows)' = Summary(rows') /\ Due(unit, d - 1)' = Due(unit', d' - 1)
    BY DEF Summary, Due, HasRow, shouldSkipDecl, ExcludedPath
  <2> QED BY <2>2, <2>4, <2>5, <2>6 DEF DueInv
<1>5. CASE Finish
  <2>1. d = Len(unit.decls) + 1
    BY <1>1, <1>5 DEF Finish
  <2> QED BY <1>5, <2>1 DEF Finish, DueInv, Summary
<1>6. CASE Measure
  BY <1>6 DEF Measure, DueInv, Summary
<1>7. CASE AddField
  BY <1>7 DEF AddField, DueInv, Summary
<1>8. CASE UNCHANGED vars
  BY <1>8 DEF vars, DueInv, Summary
<1> QED BY <1>3, <1>4, <1>5, <1>6, <1>7, <1>8 DEF Next

(* How far the commands have got.                                           *)
Upto == IF tool \in {"creating", "crashed"} THEN c - 1 ELSE c
Writes(x, p) == commands[x].path = p /\ commands[x].runs
LastOn(x, p) == x \in 1..Upto /\ Writes(x, p) /\ \A y \in 1..Upto : Writes(y, p) => y <= x
Crashes(x) == commands[x].runs /\ Access[commands[x].path] = "no directory"
UnitDue(x) == Due(commands[x].unit, Len(commands[x].unit.decls))

(* Where the tool stands among its commands.                                *)
StageInv ==
    /\ tool \in {"creating", "handling", "ended", "crashed"}
    /\ \A x \in 1..Upto : ~Crashes(x)
    /\ tool = "crashed" => Crashes(c)
    /\ tool = "ended" => c = Len(commands)
    /\ tool = "handling" => commands[c].runs
    /\ tool = "creating" => rows = <<>>
    /\ tool \in {"creating", "handling"} => unit = commands[c].unit

(* A path no command has written to has no file; a path has the rows of the *)
(* last command that wrote to it, those so far if it is the present one.    *)
FileInv ==
    /\ outputs = [p \in Paths |-> outputs[p]]
    /\ \A p \in Paths :
         /\ Access[p] # "write" \/ (\A x \in 1..Upto : ~Writes(x, p)) => outputs[p] = None
         /\ Access[p] = "write" =>
              \A x \in 1..Upto : LastOn(x, p) =>
                IF tool = "handling" /\ x = c THEN outputs[p] = rows
                ELSE Summary(outputs[p]) = UnitDue(x)

(* The position of every command, and the paths.                            *)
LEMMA CommandFacts ==
  ASSUME Driving
  PROVE  /\ Len(commands) \in Nat \ {0} /\ DOMAIN commands = 1..Len(commands)
         /\ c \in 1..Len(commands) /\ c \in Nat /\ c - 1 \in Nat
         /\ 1..c = 1..(c - 1) \cup {c} /\ c \notin 1..(c - 1)
         /\ \A x \in 1..c : x <= c
         /\ Path \in Paths
         /\ \A x \in 1..c : x \in 1..Len(commands) /\ commands[x].path \in Paths
<1>1. /\ Len(commands) \in Nat \ {0} /\ DOMAIN commands = 1..Len(commands)
      /\ \A x \in DOMAIN commands : commands[x].path \in Paths
  BY CommandsAssumption DEF Driving
<1>2. c \in 1..Len(commands)
  BY DEF Driving
<1> DEFINE N == Len(commands)
<1>3. N \in Nat /\ c \in 1..N
  BY <1>1, <1>2
<1> HIDE DEF N
<1>4. /\ c \in Nat /\ c - 1 \in Nat
      /\ 1..c = 1..(c - 1) \cup {c} /\ c \notin 1..(c - 1)
      /\ \A x \in 1..c : x <= c /\ x \in 1..N
  BY <1>3
<1> QED BY <1>1, <1>2, <1>4 DEF N, Path

(* No row is due before the first declaration.                              *)
LEMMA DueFresh ==
  ASSUME Fresh
  PROVE  DueInv
<1>1. d - 1 = 0 /\ unit.decls \in Seq(Declarations)
  BY DEF Fresh, IsUnit
<1>2. Due(unit, 0) = <<>>
  BY <1>1, DueLoop
<1>3. Summary(<<>>) = <<>>
  BY DEF Summary
<1> QED BY <1>1, <1>2, <1>3 DEF Fresh, DueInv

(* The tool starts with no file.                                            *)
LEMMA FilesStart ==
  ASSUME ToolInit
  PROVE  StageInv /\ FileInv /\ DueInv
<1>1. Upto = 0 /\ 1..0 = {}
  BY DEF ToolInit, Upto
<1>2. StageInv
  BY <1>1 DEF ToolInit, StageInv
<1>3. FileInv
  BY <1>1 DEF ToolInit, FileInv
<1>4. DueInv
  BY Starts, DueFresh
<1> QED BY <1>2, <1>3, <1>4

(* Every step of the tool moves on among the commands, ends after the last  *)
(* of them, or crashes where a directory cannot be made.                    *)
LEMMA StageStep ==
  ASSUME Driving, StageInv, WellTyped, RowsAreSequence, [ToolNext]_<<driver, vars>>
  PROVE  StageInv'
<1>0. /\ c \in 1..Len(commands) /\ c \in Nat /\ c - 1 \in Nat /\ Len(commands) \in Nat
      /\ 1..c = 1..(c - 1) \cup {c}
  BY CommandFacts
<1>1. CASE CreateASTConsumer
  <2>1. tool = "creating" /\ tool' = "handling" /\ commands' = commands /\ c' = c /\ unit' = unit
        /\ commands[c].runs /\ ~Crashes(c)
    BY <1>1 DEF CreateASTConsumer, vars, Crashes, Path
  <2>2. Upto = c - 1 /\ Upto' = c
    BY <2>1 DEF Upto
  <2>3. \A x \in 1..c : ~Crashes(x)
    BY <1>0, <2>1, <2>2 DEF StageInv
  <2>4. \A x : Crashes(x)' <=> Crashes(x)
    BY <2>1 DEF Crashes
  <2> QED BY <2>1, <2>2, <2>3, <2>4 DEF StageInv
<1>2. CASE CrashOnDirectory
  <2>1. tool = "creating" /\ tool' = "crashed" /\ commands' = commands /\ c' = c /\ Crashes(c)
    BY <1>2 DEF CrashOnDirectory, Crashes, Path
  <2>2. Upto = c - 1 /\ Upto' = c - 1 /\ \A x : Crashes(x)' <=> Crashes(x)
    BY <2>1 DEF Upto, Crashes
  <2> QED BY <2>1, <2>2 DEF StageInv
<1>3. CASE HandleTranslationUnit
  <2>1. tool = "handling" /\ tool' = "handling" /\ commands' = commands /\ c' = c /\ unit' = unit
    BY <1>3, RowsStep DEF HandleTranslationUnit
  <2>2. Upto' = Upto /\ \A x : Crashes(x)' <=> Crashes(x)
    BY <2>1 DEF Upto, Crashes
  <2> QED BY <2>1, <2>2 DEF StageInv
<1>4. CASE EndCommand
  <2>1. /\ commands' = commands /\ tool \in {"creating", "handling"}
        /\ tool = "creating" => ~commands[c].runs
    BY <1>4 DEF EndCommand
  <2>2. \A x : Crashes(x)' <=> Crashes(x)
    BY <2>1 DEF Crashes
  <2>3. \A x \in 1..c : ~Crashes(x)
    <3>1. CASE tool = "creating"
      <4>1. Upto = c - 1 /\ ~Crashes(c)
        BY <2>1, <3>1 DEF Upto, Crashes
      <4> QED BY <1>0, <4>1 DEF StageInv
    <3>2. CASE tool = "handling"
      <4>1. Upto = c
        BY <3>2 DEF Upto
      <4> QED BY <4>1 DEF StageInv
    <3> QED BY <2>1, <3>1, <3>2
  <2>4. CASE c = Len(commands)
    <3>1. tool' = "ended" /\ c' = c
      BY <1>4, <2>4 DEF EndCommand
    <3>2. Upto' = c
      BY <3>1 DEF Upto
    <3> QED BY <2>1, <2>2, <2>3, <2>4, <3>1, <3>2 DEF StageInv
  <2>5. CASE c # Len(commands)
    <3>1. tool' = "creating" /\ c' = c + 1 /\ rows' = <<>> /\ unit' = commands[c + 1].unit
      BY <1>4, <2>5 DEF EndCommand
    <3>2. Upto' = c
      <4>1. Upto' = (c + 1) - 1
        BY <3>1 DEF Upto
      <4> QED BY <1>0, <4>1
    <3> QED BY <2>1, <2>2, <2>3, <3>1, <3>2 DEF StageInv
  <2> QED BY <2>4, <2>5
<1>5. CASE UNCHANGED <<driver, vars>>
  <2>1. commands' = commands /\ c' = c /\ tool' = tool /\ unit' = unit /\ rows' = rows
    BY <1>5 DEF driver, vars
  <2>2. Upto' = Upto /\ \A x : Crashes(x)' <=> Crashes(x)
    BY <2>1 DEF Upto, Crashes
  <2> QED BY <2>1, <2>2 DEF StageInv
<1> QED BY <1>1, <1>2, <1>3, <1>4, <1>5 DEF ToolNext

(* A step that leaves the commands alone leaves what they ask for alone.    *)
LEMMA WritesFrame ==
  ASSUME commands' = commands
  PROVE  /\ \A x, p : Writes(x, p)' <=> Writes(x, p)
         /\ \A x : UnitDue(x)' = UnitDue(x)
         /\ Upto' = Upto => \A x, p : LastOn(x, p)' <=> LastOn(x, p)
<1>1. \A x, p : Writes(x, p)' <=> Writes(x, p)
  BY DEF Writes
<1>2. \A x : UnitDue(x)' = UnitDue(x)
  BY DEF UnitDue, Due, HasRow, shouldSkipDecl, ExcludedPath, RowOf
<1>3. ASSUME Upto' = Upto, NEW x, NEW p PROVE LastOn(x, p)' <=> LastOn(x, p)
  BY <1>1, <1>3 DEF LastOn
<1> QED BY <1>1, <1>2, <1>3

(* Opening a file: it is the present command's from now on.                 *)
LEMMA FilesOpened ==
  ASSUME Driving, StageInv, FileInv, CreateASTConsumer
  PROVE  FileInv'
<1>0. /\ c \in Nat /\ c - 1 \in Nat /\ Path \in Paths
      /\ 1..c = 1..(c - 1) \cup {c} /\ c \notin 1..(c - 1)
      /\ \A x \in 1..c : x <= c
  BY CommandFacts
<1>1. /\ tool = "creating" /\ tool' = "handling" /\ commands' = commands /\ c' = c /\ rows' = rows
      /\ outputs' = IF Access[Path] = "write" THEN [outputs EXCEPT ![Path] = rows] ELSE outputs
      /\ Writes(c, Path)
  BY DEF CreateASTConsumer, vars, Opened, Writes, Path
<1>2. Upto = c - 1 /\ Upto' = c
  BY <1>1 DEF Upto
<1>3. outputs' = [p \in Paths |-> IF p = Path /\ Access[p] = "write" THEN rows ELSE outputs[p]]
  BY <1>1 DEF FileInv
<1>4. \A x, p : Writes(x, p)' <=> Writes(x, p)
  BY <1>1, WritesFrame
<1>5. ASSUME NEW p \in Paths, p = Path
      PROVE  /\ Access[p] # "write" \/ (\A x \in 1..Upto' : ~Writes(x, p)') => outputs'[p] = None
             /\ Access[p] = "write" =>
                  \A x \in 1..Upto' : LastOn(x, p)' =>
                    IF tool' = "handling" /\ x = c' THEN outputs'[p] = rows'
                    ELSE Summary(outputs[p])' = UnitDue(x)'
  <2>1. c \in 1..Upto' /\ \A x : x = c => Writes(x, p)'
    BY <1>0, <1>1, <1>2, <1>4, <1>5
  <2>2. Access[p] # "write" => outputs'[p] = None
    BY <1>3 DEF FileInv
  <2>3. Access[p] = "write" => outputs'[p] = rows'
    BY <1>1, <1>3, <1>5
  <2>4. \A x \in 1..Upto' : LastOn(x, p)' => x = c'
    <3> SUFFICES ASSUME NEW x \in 1..c, LastOn(x, p)' PROVE x = c
      BY <1>1, <1>2
    <3>1. c <= x
      BY <2>1, <1>2 DEF LastOn
    <3> QED BY <1>0, <3>1
  <2> QED BY <1>1, <2>1, <2>2, <2>3, <2>4
<1>6. ASSUME NEW p \in Paths, p # Path
      PROVE  /\ Access[p] # "write" \/ (\A x \in 1..Upto' : ~Writes(x, p)') => outputs'[p] = None
             /\ Access[p] = "write" =>
                  \A x \in 1..Upto' : LastOn(x, p)' =>
                    IF tool' = "handling" /\ x = c' THEN outputs'[p] = rows'
                    ELSE Summary(outputs[p])' = UnitDue(x)'
  <2>1. ~Writes(c, p)
    BY <1>6 DEF Writes, Path
  <2>2. outputs'[p] = outputs[p] /\ Summary(outputs[p])' = Summary(outputs'[p])
    BY <1>3, <1>6 DEF Summary
  <2>3. \A x : UnitDue(x)' = UnitDue(x)
    BY <1>1, WritesFrame
  <2>4. ASSUME NEW x \in 1..Upto', LastOn(x, p)' PROVE x \in 1..Upto /\ LastOn(x, p) /\ x # c
    <3>1. Writes(x, p) /\ \A y \in 1..c : Writes(y, p) => y <= x
      BY <1>2, <1>4, <2>4 DEF LastOn
    <3>2. x # c /\ x \in 1..c
      BY <1>2, <2>1, <3>1
    <3>3. x \in 1..(c - 1)
      BY <1>0, <3>2
    <3> QED BY <1>0, <1>2, <3>1, <3>2, <3>3 DEF LastOn
  <2>5. ASSUME NEW x \in 1..Upto', LastOn(x, p)', Access[p] = "write"
        PROVE  x # c' /\ Summary(outputs[p])' = UnitDue(x)'
    <3>1. x \in 1..Upto /\ LastOn(x, p) /\ x # c
      BY <2>4, <2>5
    <3>2. Summary(outputs[p]) = UnitDue(x)
      BY <1>1, <2>5, <3>1 DEF FileInv
    <3> QED BY <1>1, <2>2, <2>3, <3>1, <3>2
  <2>6. ASSUME Access[p] # "write" \/ (\A x \in 1..Upto' : ~Writes(x, p)') PROVE outputs'[p] = None
    <3>1. Access[p] # "write" \/ \A x \in 1..Upto : ~Writes(x, p)
      BY <1>0, <1>2, <1>4, <2>6
    <3> QED BY <2>2, <3>1 DEF FileInv
  <2> QED BY <2>5, <2>6
<1>7. outputs' = [p \in Paths |-> outputs'[p]]
  BY <1>3
<1> QED BY <1>5, <1>6, <1>7 DEF FileInv

(* Handling a unit: the present command's file grows by each row.           *)
LEMMA FilesHandled ==
  ASSUME Driving, WellTyped, RowsAreSequence, StageInv, FileInv, HandleTranslationUnit
  PROVE  FileInv'
<1>0. /\ c \in Nat /\ Path \in Paths /\ c \in 1..c /\ \A x \in 1..c : x <= c
  BY CommandFacts
<1>1. /\ tool = "handling" /\ tool' = "handling" /\ commands' = commands /\ c' = c
      /\ outputs' = IF Access[Path] = "write" /\ rows' # rows
                    THEN [outputs EXCEPT ![Path] = Append(@, Last(rows'))] ELSE outputs
  BY DEF HandleTranslationUnit
<1>2. Upto = c /\ Upto' = c /\ Writes(c, Path)
  BY <1>1 DEF Upto, StageInv, Writes, Path
<1>3. /\ \A x, p : Writes(x, p)' <=> Writes(x, p)
      /\ \A x : UnitDue(x)' = UnitDue(x)
      /\ \A x, p : LastOn(x, p)' <=> LastOn(x, p)
  BY <1>1, <1>2, WritesFrame
<1>4. Access[Path] = "write" => outputs[Path] = rows
  <2>1. LastOn(c, Path)
    BY <1>0, <1>2 DEF LastOn
  <2> QED BY <1>0, <1>1, <1>2, <2>1 DEF FileInv
<1>5. rows' # rows => Append(rows, Last(rows')) = rows'
  <2> SUFFICES ASSUME rows' # rows PROVE Append(rows, Last(rows')) = rows'
    OBVIOUS
  <2>1. WriteRow
    BY <1>1, RowsStep DEF HandleTranslationUnit
  <2> DEFINE e == NewRow
  <2>2. rows' = Append(rows, e)
    BY <2>1 DEF WriteRow, NewRow, LastPad
  <2> HIDE DEF e
  <2>3. Last(Append(rows, e)) = e
    <3>1. /\ Append(rows, e) \in Seq(ToSet(Append(rows, e)))
          /\ Len(rows) \in Nat
          /\ DOMAIN Append(rows, e) = (1..Len(rows)) \cup {Len(rows) + 1}
          /\ Append(rows, e)[Len(rows) + 1] = e
      BY AppendSelf DEF RowsAreSequence
    <3>2. Len(Append(rows, e)) = Len(rows) + 1
      <4> DEFINE S == ToSet(rows) \cup {e}
      <4>1. rows \in Seq(S) /\ e \in S
        BY DEF RowsAreSequence
      <4> HIDE DEF S
      <4> QED BY <4>1, AppendProperties
    <3> QED BY <3>1, <3>2 DEF Last
  <2> QED BY <2>2, <2>3
<1>6. outputs' = [p \in Paths |-> IF p = Path /\ Access[p] = "write" THEN rows' ELSE outputs[p]]
  <2>1. outputs = [p \in Paths |-> outputs[p]]
    BY DEF FileInv
  <2>2. CASE Access[Path] = "write" /\ rows' # rows
    <3> DEFINE q == rows'
               t == Append(outputs[Path], Last(q))
    <3>1. t = q
      BY <1>4, <1>5, <2>2
    <3>2. outputs' = [outputs EXCEPT ![Path] = t]
      BY <1>1, <2>2
    <3> HIDE DEF t, q
    <3>3. outputs' = [p \in Paths |-> IF p = Path THEN q ELSE outputs[p]]
      BY <1>0, <2>1, <3>1, <3>2
    <3> QED BY <2>2, <3>3 DEF q
  <2>3. CASE ~(Access[Path] = "write" /\ rows' # rows)
    <3>1. outputs' = outputs
      BY <1>1, <2>3
    <3>2. Access[Path] = "write" => outputs[Path] = rows'
      BY <1>4, <2>3
    <3> QED BY <1>0, <2>1, <3>1, <3>2
  <2> QED BY <2>2, <2>3
<1>7. ASSUME NEW p \in Paths
      PROVE  /\ Access[p] # "write" \/ (\A x \in 1..Upto' : ~Writes(x, p)') => outputs'[p] = None
             /\ Access[p] = "write" =>
                  \A x \in 1..Upto' : LastOn(x, p)' =>
                    IF tool' = "handling" /\ x = c' THEN outputs'[p] = rows'
                    ELSE Summary(outputs[p])' = UnitDue(x)'
  <2>1. CASE p = Path
    <3>1. \A x \in 1..Upto' : LastOn(x, p)' => x = c'
      <4> SUFFICES ASSUME NEW x \in 1..c, LastOn(x, p) PROVE x = c
        BY <1>1, <1>2, <1>3
      <4>1. c <= x
        BY <1>0, <1>2, <2>1 DEF LastOn
      <4> QED BY <1>0, <4>1
    <3>2. Access[p] = "write" => outputs'[p] = rows'
      BY <1>6, <2>1
    <3>3. Access[p] # "write" => outputs'[p] = None
      BY <1>6 DEF FileInv
    <3>4. \E x \in 1..Upto' : Writes(x, p)'
      <4>1. c \in 1..Upto' /\ \A x : x = c => Writes(x, p)'
        BY <1>0, <1>2, <1>3, <2>1
      <4> QED BY <4>1
    <3> QED BY <1>1, <3>1, <3>2, <3>3, <3>4
  <2>2. CASE p # Path
    <3>1. outputs'[p] = outputs[p] /\ Summary(outputs[p])' = Summary(outputs'[p])
      BY <1>6, <2>2 DEF Summary
    <3>2. ~Writes(c, p)
      BY <2>2 DEF Writes, Path
    <3>3. ASSUME NEW x \in 1..Upto', LastOn(x, p)', Access[p] = "write"
          PROVE  x # c' /\ Summary(outputs[p])' = UnitDue(x)'
      <4>1. x \in 1..Upto /\ LastOn(x, p)
        BY <1>2, <1>3, <3>3
      <4>2. x # c
        BY <3>2, <4>1 DEF LastOn
      <4>3. Summary(outputs[p]) = UnitDue(x)
        BY <3>3, <4>1, <4>2 DEF FileInv
      <4> QED BY <1>1, <1>3, <3>1, <4>2, <4>3
    <3>4. ASSUME Access[p] # "write" \/ (\A x \in 1..Upto' : ~Writes(x, p)') PROVE outputs'[p] = None
      <4>1. Access[p] # "write" \/ \A x \in 1..Upto : ~Writes(x, p)
        BY <1>2, <1>3, <3>4
      <4> QED BY <3>1, <4>1 DEF FileInv
    <3> QED BY <3>3, <3>4
  <2> QED BY <2>1, <2>2
<1>8. outputs' = [p \in Paths |-> outputs'[p]]
  BY <1>6
<1> QED BY <1>7, <1>8 DEF FileInv

(* The end of a command: its file holds what is due of its unit.            *)
LEMMA FilesEnded ==
  ASSUME Driving, StageInv, FileInv, DueInv, EndCommand
  PROVE  FileInv'
<1>0. /\ c \in Nat /\ c - 1 \in Nat /\ (c + 1) - 1 = c
      /\ 1..c = 1..(c - 1) \cup {c} /\ c \notin 1..(c - 1)
  BY CommandFacts
<1>1. /\ commands' = commands /\ outputs' = outputs /\ tool \in {"creating", "handling"}
      /\ tool = "creating" => ~commands[c].runs
      /\ tool = "handling" => status = "done"
  BY DEF EndCommand
<1>2. Upto' = c /\ tool' # "handling"
  <2>1. CASE c = Len(commands)
    BY <2>1 DEF EndCommand, Upto
  <2>2. CASE c # Len(commands)
    <3>1. tool' = "creating" /\ c' = c + 1
      BY <2>2 DEF EndCommand
    <3>2. Upto' = (c + 1) - 1
      BY <3>1 DEF Upto
    <3> QED BY <1>0, <3>1, <3>2
  <2> QED BY <2>1, <2>2
<1>3. /\ \A x, p : Writes(x, p)' <=> Writes(x, p)
      /\ \A x : UnitDue(x)' = UnitDue(x)
      /\ \A p : Summary(outputs[p])' = Summary(outputs[p])
  <2>1. \A p : Summary(outputs[p])' = Summary(outputs[p])
    BY <1>1 DEF Summary
  <2> QED BY <1>1, <2>1, WritesFrame
<1>4. ASSUME tool = "creating", NEW x, NEW p
      PROVE  /\ x \in 1..c /\ Writes(x, p) => x \in 1..Upto
             /\ LastOn(x, p)' => LastOn(x, p)
  <2>1. Upto = c - 1 /\ \A q : ~Writes(c, q)
    BY <1>1, <1>4 DEF Upto, Writes
  <2>2. x \in 1..c /\ Writes(x, p) => x \in 1..Upto
    BY <1>0, <2>1
  <2> QED BY <1>0, <1>2, <1>3, <2>1, <2>2 DEF LastOn
<1>5. ASSUME tool = "handling", NEW x, NEW p
      PROVE  /\ x \in 1..c /\ Writes(x, p) => x \in 1..Upto
             /\ LastOn(x, p)' => LastOn(x, p)
  <2>1. Upto = c
    BY <1>5 DEF Upto
  <2> QED BY <1>2, <1>3, <2>1 DEF LastOn
<1>6. \A x, p : /\ x \in 1..c /\ Writes(x, p) => x \in 1..Upto
                /\ LastOn(x, p)' => LastOn(x, p)
  BY <1>1, <1>4, <1>5
<1>7. tool = "handling" => Summary(rows) = UnitDue(c)
  <2> SUFFICES ASSUME tool = "handling" PROVE Summary(rows) = UnitDue(c)
    OBVIOUS
  <2>1. unit = commands[c].unit /\ d = Len(unit.decls) + 1
    BY <1>1 DEF StageInv, DueInv
  <2>2. d - 1 = Len(unit.decls)
    BY <2>1
  <2> QED BY <2>1, <2>2 DEF UnitDue, DueInv
<1>8. ASSUME NEW p \in Paths
      PROVE  /\ Access[p] # "write" \/ (\A x \in 1..Upto' : ~Writes(x, p)') => outputs'[p] = None
             /\ Access[p] = "write" =>
                  \A x \in 1..Upto' : LastOn(x, p)' => Summary(outputs[p])' = UnitDue(x)'
  <2>1. ASSUME Access[p] # "write" \/ (\A x \in 1..Upto' : ~Writes(x, p)') PROVE outputs'[p] = None
    <3>1. Upto = c \/ Upto = c - 1
      BY DEF Upto
    <3>2. 1..Upto \subseteq 1..c
      BY <1>0, <3>1
    <3>3. Access[p] # "write" \/ \A x \in 1..Upto : ~Writes(x, p)
      BY <1>2, <1>3, <2>1, <3>2
    <3> QED BY <1>1, <3>3 DEF FileInv
  <2>2. ASSUME Access[p] = "write", NEW x \in 1..Upto', LastOn(x, p)'
        PROVE  Summary(outputs[p])' = UnitDue(x)'
    <3>1. LastOn(x, p) /\ x \in 1..Upto
      BY <1>6, <2>2 DEF LastOn
    <3>2. Summary(outputs[p]) = UnitDue(x)
      <4>1. CASE tool = "handling" /\ x = c
        <5>1. outputs[p] = rows
          BY <2>2, <3>1, <4>1 DEF FileInv
        <5> QED BY <1>7, <4>1, <5>1
      <4>2. CASE ~(tool = "handling" /\ x = c)
        BY <2>2, <3>1, <4>2 DEF FileInv
      <4> QED BY <4>1, <4>2
    <3> QED BY <1>3, <3>2
  <2> QED BY <2>1, <2>2
<1>9. outputs' = [p \in Paths |-> outputs'[p]]
  BY <1>1 DEF FileInv
<1> QED BY <1>2, <1>8, <1>9 DEF FileInv

(* Every step of the tool keeps the files.                                  *)
LEMMA FilesStep ==
  ASSUME Driving, WellTyped, RowsAreSequence, StageInv, FileInv, DueInv,
         [ToolNext]_<<driver, vars>>
  PROVE  FileInv'
<1>1. ASSUME commands' = commands, c' = c, rows' = rows, outputs' = outputs,
             Upto' = Upto, tool' = "handling" <=> tool = "handling"
      PROVE  FileInv'
  <2>1. /\ \A x, p : Writes(x, p)' <=> Writes(x, p)
        /\ \A x : UnitDue(x)' = UnitDue(x)
        /\ \A x, p : LastOn(x, p)' <=> LastOn(x, p)
        /\ \A p : Summary(outputs[p])' = Summary(outputs[p])
    <3>1. \A p : Summary(outputs[p])' = Summary(outputs[p])
      BY <1>1 DEF Summary
    <3> QED BY <1>1, <3>1, WritesFrame
  <2> QED BY <1>1, <2>1 DEF FileInv
<1>2. CASE CrashOnDirectory
  <2>1. /\ commands' = commands /\ c' = c /\ rows' = rows /\ outputs' = outputs
        /\ tool = "creating" /\ tool' = "crashed"
    BY <1>2 DEF CrashOnDirectory, vars
  <2> QED BY <1>1, <2>1 DEF Upto
<1>3. CASE UNCHANGED <<driver, vars>>
  <2>1. /\ commands' = commands /\ c' = c /\ rows' = rows /\ outputs' = outputs /\ tool' = tool
    BY <1>3 DEF driver, vars
  <2> QED BY <1>1, <2>1 DEF Upto
<1>4. CASE CreateASTConsumer
  BY <1>4, FilesOpened
<1>5. CASE HandleTranslationUnit
  BY <1>5, FilesHandled
<1>6. CASE EndCommand
  BY <1>6, FilesEnded
<1> QED BY <1>2, <1>3, <1>4, <1>5, <1>6 DEF ToolNext

(* At the end the commands passed are those before the first crash.         *)
LEMMA AllWritten ==
  ASSUME Driving, StageInv, tool \in {"ended", "crashed"}
  PROVE  /\ tool = IF Crashing = {} THEN "ended" ELSE "crashed"
         /\ \A p : Writers(p) = {x \in 1..Upto : Writes(x, p)}
<1>0. /\ Len(commands) \in Nat /\ DOMAIN commands = 1..Len(commands)
      /\ c \in 1..Len(commands) /\ c \in Nat
  BY CommandFacts
<1>1. Crashing = {x \in 1..Len(commands) : Crashes(x)}
  BY <1>0 DEF Crashing, Crashes
<1>2. CASE tool = "ended"
  <2>1. Upto = Len(commands)
    BY <1>2 DEF StageInv, Upto
  <2>2. Crashing = {}
    BY <1>1, <2>1 DEF StageInv
  <2> QED BY <1>0, <1>2, <2>1, <2>2 DEF Writers, Writes
<1>3. CASE tool = "crashed"
  <2>1. Upto = c - 1 /\ Crashes(c) /\ \A x \in 1..(c - 1) : ~Crashes(x)
    BY <1>3 DEF StageInv, Upto
  <2>2. c \in Crashing /\ \A y \in Crashing : y \in 1..Len(commands) /\ y \notin 1..(c - 1)
    BY <1>0, <1>1, <2>1
  <2>3. \A x \in 1..Len(commands) : (\A y \in Crashing : x < y) <=> x \in 1..(c - 1)
    <3>1. ASSUME NEW x \in 1..Len(commands), \A y \in Crashing : x < y PROVE x \in 1..(c - 1)
      <4>1. x < c
        BY <2>2, <3>1
      <4> QED BY <1>0, <4>1
    <3>2. ASSUME NEW x \in 1..(c - 1), NEW y \in Crashing PROVE x < y
      <4>1. y \in 1..Len(commands) /\ y \notin 1..(c - 1)
        BY <2>2
      <4>2. y \in Nat /\ y >= c
        BY <1>0, <4>1
      <4> QED BY <1>0, <4>2
    <3> QED BY <3>1, <3>2
  <2>4. 1..(c - 1) \subseteq 1..Len(commands)
    BY <1>0
  <2>5. \A p : Writers(p) = {x \in 1..Upto : Writes(x, p)}
    BY <1>0, <2>1, <2>3, <2>4 DEF Writers, Writes
  <2> QED BY <1>3, <2>2, <2>5
<1> QED BY <1>2, <1>3

(* The tool ends by a crash exactly if a directory cannot be made, and when *)
(* it has ended, either way, each path holds the complete rows of the last  *)
(* command that wrote to it and of no other: the safety half of             *)
(* FilesAreComplete, for every list of commands, units and paths.           *)
THEOREM FilesCorrect ==
  ToolSpec => [](tool \in {"ended", "crashed"} =>
                   /\ tool = IF Crashing = {} THEN "ended" ELSE "crashed"
                   /\ FilesHoldLastUnit)
<1> DEFINE Inv == Driving /\ WellTyped /\ RowsAreSequence /\ StageInv /\ FileInv /\ DueInv
           Goal == tool \in {"ended", "crashed"} =>
                     /\ tool = IF Crashing = {} THEN "ended" ELSE "crashed"
                     /\ FilesHoldLastUnit
<1>1. Fresh => RowsAreSequence /\ DueInv
  BY DueFresh DEF Fresh, RowsAreSequence
<1>2. ToolInit => Inv
  BY <1>1, Starts, TypeFresh, FilesStart
<1>3. Inv /\ [ToolNext]_<<driver, vars>> => Inv'
  <2>1. Fresh' => (WellTyped /\ RowsAreSequence /\ DueInv)'
    BY <1>1, TypeFresh, PTL
  <2>2. WellTyped /\ RowsAreSequence /\ [Next]_vars => RowsAreSequence'
    BY RowsStep
  <2> QED BY <2>1, <2>2, ToolFrame, TypeStep, DueStep, StageStep, FilesStep
<1>4. Inv => Goal
  <2> SUFFICES ASSUME Inv, tool \in {"ended", "crashed"}
               PROVE  /\ tool = IF Crashing = {} THEN "ended" ELSE "crashed"
                      /\ FilesHoldLastUnit
    OBVIOUS
  <2>1. /\ tool = IF Crashing = {} THEN "ended" ELSE "crashed"
        /\ \A p : Writers(p) = {x \in 1..Upto : Writes(x, p)}
    BY AllWritten
  <2>2. ASSUME NEW p \in Paths
        PROVE  IF Writers(p) = {} \/ Access[p] # "write" THEN outputs[p] = None
               ELSE LET last == CHOOSE x \in Writers(p) : \A y \in Writers(p) : y <= x
                        u == commands[last].unit
                    IN  Summary(outputs[p]) = Due(u, Len(u.decls))
    <3>1. CASE Writers(p) = {} \/ Access[p] # "write"
      <4>1. Access[p] # "write" \/ \A x \in 1..Upto : ~Writes(x, p)
        BY <2>1, <3>1
      <4> QED BY <3>1, <4>1 DEF FileInv
    <3>2. CASE ~(Writers(p) = {} \/ Access[p] # "write")
      <4> DEFINE W == Writers(p)
                 last == CHOOSE x \in W : \A y \in W : y <= x
      <4>1. \E x \in W : \A y \in W : y <= x
        <5>1. Upto \in Nat
          BY CommandFacts DEF Upto
        <5>2. W \subseteq 0..Upto /\ W # {}
          BY <2>1, <3>2, <5>1
        <5> HIDE DEF W
        <5> QED BY <5>1, <5>2, GreatestBelow
      <4>2. last \in W /\ \A y \in W : y <= last
        <5> HIDE DEF W
        <5> QED BY <4>1
      <4> HIDE DEF last
      <4>3. LastOn(last, p) /\ last \in 1..Upto
        BY <2>1, <4>2 DEF LastOn
      <4>4. Summary(outputs[p]) = UnitDue(last)
        BY <3>2, <4>3 DEF FileInv
      <4> QED BY <3>2, <4>4 DEF last, UnitDue
    <3> QED BY <3>1, <3>2
  <2> QED BY <2>1, <2>2 DEF FilesHoldLastUnit
<1> HIDE DEF Goal
<1>5. ToolSpec => []Goal
  BY <1>2, <1>3, <1>4, PTL DEF ToolSpec
<1> QED BY <1>5 DEF Goal

==============================================================================
