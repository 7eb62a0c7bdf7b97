---------------------------- MODULE RecordPadding ----------------------------
(***************************************************************************)
(* clang/RecordDeclPadding-tooling: the visit of one translation unit.  The *)
(* declarations of records and variables are met in order; a record that    *)
(* is not skipped, or a variable that is an array of one, is measured field *)
(* by field and gives a row of the CSV file.                                *)
(*                                                                          *)
(* Layouts are the compiler's (ASTRecordLayout), given with each record.    *)
(***************************************************************************)
EXTENDS Integers, SequencesExt

CONSTANTS
    Records,    \* the records of a translation unit
    None,       \* no record
    Units       \* translation units: the records and the declarations

VARIABLES
    unit,       \* one of Units
    d,          \* position among its declarations
    n,          \* position among the fields measured, 0 between records
    Offset, PaddingSum, Pads,   \* of calculatePad, in its loop
    rows,       \* the lines of the output file
    status      \* "visiting", "measuring" or "done"

measure == <<n, Offset, PaddingSum, Pads>>
vars == <<unit, d, measure, rows, status>>

Traits == {"union", "dependent", "bitfield", "incomplete array"}
Fields == [size: Nat, offset: Nat, pointer: BOOLEAN]

(* Where a record is defined: in the project, under /usr/ but found through *)
(* an ordinary include path, or in a system header (under /usr/ as well).   *)
Places == {"project", "usr", "system"}

(* Fields do not overlap.  What precedes the first one (bases, a vtable     *)
(* pointer) and follows the last one (virtual bases, padding) is free.      *)
IsRecord(r) ==
    /\ r \in [fields: Seq(Fields), size: Nat, traits: SUBSET Traits, place: Places]
    /\ "union" \notin r.traits =>
         \A k \in DOMAIN r.fields :
           r.fields[k].offset + r.fields[k].size
             <= (IF k < Len(r.fields) THEN r.fields[k + 1].offset ELSE r.size)

(* A record may be declared many times and is defined once.  A variable is  *)
(* an array of constant size, of other size, or no array; `record` is None  *)
(* unless its element type is a record.                                     *)
Declarations ==
    [kind: {"record"}, record: Records, definition: BOOLEAN]
      \cup [kind: {"constant array", "array", "scalar"},
            record: Records \cup {None}, elements: Nat]

IsDefinition(decl) == decl.kind = "record" /\ decl.definition

IsUnit(u) ==
    /\ DOMAIN u.record = Records
    /\ \A r \in Records : IsRecord(u.record[r])
    /\ u.decls \in Seq(Declarations)
    /\ \A j, k \in DOMAIN u.decls :
         IsDefinition(u.decls[j]) /\ IsDefinition(u.decls[k])
           /\ u.decls[j].record = u.decls[k].record => j = k

ASSUME UnitsAssumption == \A u \in Units : IsUnit(u)

------------------------------------------------------------------------------
(* A definition introduced as a "Slip" is the one after it with a plausible *)
(* mistake; nothing uses it but the runs that show a property notices.      *)

Decl == unit.decls[d]
Rec == unit.record[Decl.record]
Field(k) == Rec.fields[k]

(* getSourceLocation gives an empty name for a system header, which is      *)
(* under no path.                                                           *)
ExcludedPath(r) == r.place = "usr"

shouldSkipDecl(r) == ExcludedPath(r) \/ r.fields = <<>> \/ r.traits # {}

(* Slip: a forward declaration is taken for its definition.                 *)
MeasuredAnyway(decl) ==
    /\ decl.record # None
    /\ decl.kind = "constant array" => decl.elements # 0
    /\ decl.kind \in {"record", "constant array"}
    /\ ~shouldSkipDecl(unit.record[decl.record])

(* The declarations that lead to a row.  A forward declaration has no       *)
(* fields and is skipped for that; an array is one of records itself, not   *)
(* of arrays of records.                                                    *)
Measured(decl) ==
    /\ decl.record # None
    /\ \/ IsDefinition(decl)
       \/ decl.kind = "constant array" /\ decl.elements # 0
    /\ ~shouldSkipDecl(unit.record[decl.record])

(* The characters of the Pads column that are not numbers.                  *)
Quote == -1
Comma == -2

(* A number is written for a gap that is not empty.                         *)
Listed(pads, pad) == IF pad = 0 THEN pads ELSE pads \o <<pad, Comma>>

(* Slip: the quote is closed without dropping the last comma.               *)
ClosedAfterComma(pads) == Append(pads, Quote)

(* The last character, a comma or the opening quote, is dropped.            *)
Closed(pads) ==
    IF Front(pads) # <<>> THEN Append(Front(pads), Quote) ELSE <<Quote, Quote>>

Copies == IF Decl.kind = "record" THEN 1 ELSE Decl.elements

(* The name and the isVirtual column are left out.                          *)
Row(padding, pads) ==
    [record |-> Decl.record, array |-> Decl.kind # "record", copies |-> Copies,
     Sizeof |-> Rec.size * Copies, TotalPadSize |-> padding * Copies,
     NumFields |-> Len(Rec.fields),
     NumPointers |-> Len(SelectSeq(Rec.fields, LAMBDA fd : fd.pointer)),
     Pads |-> pads]

------------------------------------------------------------------------------
Init ==
    /\ unit \in Units
    /\ d = 1
    /\ n = 0 /\ Offset = 0 /\ PaddingSum = 0 /\ Pads = <<>>
    /\ rows = <<>>
    /\ status = "visiting"

Visiting == status = "visiting" /\ d <= Len(unit.decls)

SkipDecl ==
    /\ Visiting
    /\ ~Measured(Decl)
    /\ d' = d + 1
    /\ UNCHANGED <<unit, measure, rows, status>>

(* Slip: gaps are counted from the start of the record.                     *)
FromZero == 0

(* Slip: gaps are counted from the end of the first field.                  *)
AfterFirst == Field(1).offset + Field(1).size

FirstOffset == Field(1).offset

Measure ==
    /\ Visiting
    /\ Measured(Decl)
    /\ n' = 1 /\ Offset' = FirstOffset /\ PaddingSum' = 0 /\ Pads' = <<Quote>>
    /\ status' = "measuring"
    /\ UNCHANGED <<unit, d, rows>>

AddField ==
    /\ status = "measuring" /\ n <= Len(Rec.fields)
    /\ LET Pad == Field(n).offset - Offset
       IN  /\ Pads' = Listed(Pads, Pad)
           /\ PaddingSum' = PaddingSum + Pad
    /\ Offset' = Field(n).offset + Field(n).size
    /\ n' = n + 1
    /\ UNCHANGED <<unit, d, rows, status>>

WriteRow ==
    /\ status = "measuring" /\ n > Len(Rec.fields)
    /\ LET Pad == Rec.size - Offset
       IN  rows' = Append(rows, Row(PaddingSum + Pad, Closed(Listed(Pads, Pad))))
    /\ d' = d + 1
    /\ n' = 0 /\ Offset' = 0 /\ PaddingSum' = 0 /\ Pads' = <<>>
    /\ status' = "visiting"
    /\ UNCHANGED unit

Finish ==
    /\ status = "visiting" /\ d > Len(unit.decls)
    /\ status' = "done"
    /\ UNCHANGED <<unit, d, measure, rows>>

Next == SkipDecl \/ Measure \/ AddField \/ WriteRow \/ Finish

(* The visit runs in one thread that does not stop between two steps.       *)
Spec == Init /\ [][Next]_vars /\ WF_vars(Next)

------------------------------------------------------------------------------
(* Positions are within the unit, and the sums of the loop are those of a   *)
(* record being measured.                                                   *)
TypeOK ==
    /\ d \in 1..Len(unit.decls) + 1
    /\ status \in {"visiting", "measuring", "done"}
    /\ Offset \in Nat /\ PaddingSum \in Nat
    /\ Pads \in Seq(Nat \cup {Quote, Comma})
    /\ IF status = "measuring"
       THEN n \in 1..Len(Rec.fields) + 1 /\ Head(Pads) = Quote
       ELSE measure = <<0, 0, 0, <<>>>>

SumOf(s) ==
    LET sum[k \in 0..Len(s)] == IF k = 0 THEN 0 ELSE sum[k - 1] + s[k]
    IN  sum[Len(s)]

SizesOf(fields) == [k \in DOMAIN fields |-> fields[k].size]
Start(fields) == fields[1].offset

(* Nothing is lost or counted twice: from the start of the first field, the *)
(* sizes of the fields and the padding found add up to the place reached,   *)
(* and in a finished row to the size of the record (which counts a virtual  *)
(* base, laid out after the fields, as padding).                            *)
PadsAccountForSize ==
    /\ status = "measuring" =>
         Start(Rec.fields) + PaddingSum
           + SumOf(SizesOf(SubSeq(Rec.fields, 1, n - 1))) = Offset
    /\ \A k \in DOMAIN rows :
         LET fields == unit.record[rows[k].record].fields
         IN  rows[k].TotalPadSize
               + rows[k].copies * (Start(fields) + SumOf(SizesOf(fields)))
                   = rows[k].Sizeof

(* The numbers of a Pads column; a quote or a comma counts as 0.            *)
Numbers(s) == [k \in DOMAIN s |-> IF s[k] > 0 THEN s[k] ELSE 0]

(* The Pads column is one quoted list, numbers separated by single commas,  *)
(* and its numbers add up to the padding of one record.                     *)
PadsListThePadding ==
    \A k \in DOMAIN rows :
      LET s == rows[k].Pads
      IN  /\ Len(s) >= 2 /\ s[1] = Quote /\ Last(s) = Quote
          /\ \A j \in 2..Len(s) - 1 : IF j % 2 = 0 THEN s[j] > 0 ELSE s[j] = Comma
          /\ Len(s) > 2 => s[Len(s) - 1] > 0
          /\ SumOf(Numbers(s)) * rows[k].copies = rows[k].TotalPadSize

(* However often a record is declared it has one row of its own, and every  *)
(* array of it has a row with the totals of that row times its elements.    *)
RowsAgree ==
    \A j, k \in DOMAIN rows :
      rows[j].record = rows[k].record =>
        /\ ~rows[j].array /\ ~rows[k].array => j = k
        /\ rows[j].TotalPadSize * rows[k].copies = rows[k].TotalPadSize * rows[j].copies
        /\ rows[j].Sizeof * rows[k].copies = rows[k].Sizeof * rows[j].copies

(* What the comment in shouldSkipDecl says: no row for a record of the      *)
(* system's libraries.                                                      *)
SystemLibrariesSkipped ==
    \A k \in DOMAIN rows : unit.record[rows[k].record].place = "project"
==============================================================================
