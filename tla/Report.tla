-------------------------------- MODULE Report --------------------------------
(***************************************************************************)
(* llvm/DOP-Gadgets: the output of DOPModule.  The records of the map       *)
(* `result` are walked in the order of the map's keys, which are addresses  *)
(* and so any order; printStats counts them into five counters of three     *)
(* scopes and prints one line, printSource prints one row for each gadget   *)
(* kind of each record, by conditions of its own that repeat those of       *)
(* printStats, and printDetail the sets of each record.  -details has       *)
(* precedence over -source.                                                 *)
(***************************************************************************)
EXTENDS Naturals, SequencesExt

CONSTANTS
    Stores,    \* keys of the map
    Maps       \* the maps a scan may leave: [Stores -> records]

VARIABLES
    result,    \* the map, one of Maps
    mode,      \* "details", "source" or "stats"
    todo,      \* records still to be walked
    stats,     \* the counters: [kind -> [scope -> Nat]]
    lines,     \* finished lines of the two listings, each a sequence of rows
    line,      \* the line being printed
    columns,   \* the numbers printStats prints, in order
    phase      \* "running" or "done"

reportVars == <<result, mode, todo, stats, lines, line, columns, phase>>

(* The enumerators GLOBAL, LOCAL and MIXED of GadgetScope.                  *)
GlobalScope == 0
LocalScope == 1
MixedScope == 2

Scopes == {"global", "mixed", "local"}   \* fields of a counter
ReportKinds == {"mov", "arith", "deref", "logic", "cond"}
ResultTypes == {"GLOBAL_VAR", "FUNCTION_PTR", "ARGUMENT_PTR", "ARGUMENT_ANY"}
GadgetTypes == {"DEREF", "ARITHMETIC", "LOGICAL", "MOV", "CONDITIONAL"}

Records == [ptr: SUBSET ResultTypes, value: SUBSET ResultTypes,
            gadgetSet: SUBSET GadgetTypes, hasLoc: BOOLEAN]

ASSUME MapsAssumption == Maps \subseteq [Stores -> Records]

------------------------------------------------------------------------------
(* A definition introduced as a "Slip" is the one after it with a plausible *)
(* mistake; nothing uses it but the runs that show a property notices.      *)

IsGlobal(resultSet) == resultSet \cap {"GLOBAL_VAR", "FUNCTION_PTR"} # {}

(* printSource: the scope of a record, and its name.                        *)
getGadgetScope(ptr, value) ==
    IF IsGlobal(ptr)
    THEN IF IsGlobal(value) THEN GlobalScope ELSE MixedScope
    ELSE IF IsGlobal(value) THEN MixedScope ELSE LocalScope

(* Slip: the names in the order in which printStat prints the fields.       *)
GadgetScopeStringsAsPrinted == <<"global", "mixed", "local">>

GadgetScopeStrings == <<"global", "local", "mixed">>

ScopeName(rec) == GadgetScopeStrings[getGadgetScope(rec.ptr, rec.value) + 1]

(* printStats: its own copy of getGadgetScope, and the switch of incStat.   *)
StatScope(ptr, value) ==
    IF IsGlobal(ptr)
    THEN IF IsGlobal(value) THEN GlobalScope ELSE MixedScope
    ELSE IF IsGlobal(value) THEN MixedScope ELSE LocalScope

StatField(scope) ==
    CASE scope = GlobalScope -> "global"
      [] scope = LocalScope -> "local"
      [] scope = MixedScope -> "mixed"

(* The kinds that printSource lists a record under, in the order of its     *)
(* conditions.  A mov is a record with no other flag: gadgetSet is 8 or 0.  *)
SourceKinds(rec) ==
    LET has(g) == g \in rec.gadgetSet
    IN  (IF has("DEREF") THEN <<"deref">> ELSE <<>>)
        \o (IF has("ARITHMETIC") THEN <<"arith">> ELSE <<>>)
        \o (IF has("LOGICAL") THEN <<"logic">> ELSE <<>>)
        \o (IF has("CONDITIONAL") THEN <<"cond">> ELSE <<>>)
        \o (IF rec.gadgetSet \in {{}, {"MOV"}} THEN <<"mov">> ELSE <<>>)

(* The kinds that printStats counts a record under.                         *)
StatKinds(rec) ==
    {kind \in ReportKinds :
       CASE kind = "deref" -> "DEREF" \in rec.gadgetSet
         [] kind = "arith" -> "ARITHMETIC" \in rec.gadgetSet
         [] kind = "logic" -> "LOGICAL" \in rec.gadgetSet
         [] kind = "cond" -> "CONDITIONAL" \in rec.gadgetSet
         [] kind = "mov" -> rec.gadgetSet \in {{}, {"MOV"}}}

(* Slip: arithmetic and deref change places.                                *)
ColumnsSwapped ==
    FlattenSeq([k \in 1..5 |->
        LET kind == <<"mov", "deref", "arith", "logic", "cond">>[k]
        IN  <<stats[kind]["global"], stats[kind]["mixed"], stats[kind]["local"]>>])

(* What printStats prints after the two loop counts.                        *)
Columns ==
    FlattenSeq([k \in 1..5 |->
        LET kind == <<"mov", "arith", "deref", "logic", "cond">>[k]
        IN  <<stats[kind]["global"], stats[kind]["mixed"], stats[kind]["local"]>>])

------------------------------------------------------------------------------
ReportInit ==
    /\ result \in Maps
    /\ mode \in {"details", "source", "stats"}
    /\ todo = Stores
    /\ stats = [kind \in ReportKinds |-> [scope \in Scopes |-> 0]]
    /\ lines = <<>> /\ line = <<>> /\ columns = <<>>
    /\ phase = "running"

(* One turn of the loop of printStats.                                      *)
Count(s) ==
    /\ mode = "stats" /\ s \in todo
    /\ LET field == StatField(StatScope(result[s].ptr, result[s].value))
       IN  stats' = [kind \in ReportKinds |->
                       IF kind \in StatKinds(result[s])
                       THEN [stats[kind] EXCEPT ![field] = @ + 1] ELSE stats[kind]]
    /\ todo' = todo \ {s}
    /\ UNCHANGED <<result, mode, lines, line, columns, phase>>

PrintStats ==
    /\ mode = "stats" /\ todo = {} /\ phase = "running"
    /\ columns' = Columns
    /\ phase' = "done"
    /\ UNCHANGED <<result, mode, todo, stats, lines, line>>

(* Slip: the line is ended once for each record, not for each row.          *)
RowsOnOneLine(s) ==
    /\ mode = "source" /\ s \in todo
    /\ LET kinds == SourceKinds(result[s])
           rows == [k \in DOMAIN kinds |-> <<kinds[k], ScopeName(result[s]), s>>]
       IN  IF result[s].hasLoc
           THEN /\ lines' = Append(lines, line \o rows)
                /\ line' = <<>>
           ELSE /\ line' = line \o rows
                /\ lines' = lines
    /\ todo' = todo \ {s}
    /\ UNCHANGED <<result, mode, stats, columns, phase>>

(* One turn of the loop of printSource: sourceHelper ends the line only     *)
(* when the store has a debug location; without one the next row is glued   *)
(* to this one.                                                             *)
Rows(s) ==
    /\ mode = "source" /\ s \in todo
    /\ LET kinds == SourceKinds(result[s])
           rows == [k \in DOMAIN kinds |-> <<kinds[k], ScopeName(result[s]), s>>]
       IN  IF result[s].hasLoc
           THEN /\ lines' = lines \o [k \in DOMAIN rows |->
                                        IF k = 1 THEN Append(line, rows[1]) ELSE <<rows[k]>>]
                /\ line' = <<>>
           ELSE /\ line' = line \o rows
                /\ lines' = lines
    /\ todo' = todo \ {s}
    /\ UNCHANGED <<result, mode, stats, columns, phase>>

(* One turn of the loop of printDetail: the sets of the record and, in the  *)
(* text that follows, its sources.                                          *)
Detail(s) ==
    /\ mode = "details" /\ s \in todo
    /\ lines' = Append(lines, <<<<[value |-> result[s].value, ptr |-> result[s].ptr],
                                 result[s].gadgetSet, s>>>>)
    /\ todo' = todo \ {s}
    /\ UNCHANGED <<result, mode, stats, line, columns, phase>>

FinishRows ==
    /\ mode \in {"details", "source"} /\ todo = {} /\ phase = "running"
    /\ phase' = "done"
    /\ UNCHANGED <<result, mode, todo, stats, lines, line, columns>>

ReportNext ==
    \/ \E s \in Stores : Count(s)
    \/ \E s \in Stores : Rows(s) \/ Detail(s)
    \/ PrintStats
    \/ FinishRows

ReportSpec == ReportInit /\ [][ReportNext]_reportVars

------------------------------------------------------------------------------
(* Properties.                                                              *)

(* The header printed before the scan, without the loop counts.             *)
Header ==
    <<<<"mov", "global">>, <<"mov", "mixed">>, <<"mov", "local">>,
      <<"arith", "global">>, <<"arith", "mixed">>, <<"arith", "local">>,
      <<"deref", "global">>, <<"deref", "mixed">>, <<"deref", "local">>,
      <<"logic", "global">>, <<"logic", "mixed">>, <<"logic", "local">>,
      <<"cond", "global">>, <<"cond", "mixed">>, <<"cond", "local">>>>

(* The stores that belong in a column, from the flags alone.                *)
Belongs(s, column) ==
    LET rec == result[s]
        flag == [arith |-> "ARITHMETIC", deref |-> "DEREF", logic |-> "LOGICAL",
                 cond |-> "CONDITIONAL", mov |-> "MOV"]
        globals == Cardinality({S \in {<<1, rec.ptr>>, <<2, rec.value>>} :
                                  S[2] \cap {"GLOBAL_VAR", "FUNCTION_PTR"} # {}})
    IN  /\ column[2] = <<"local", "mixed", "global">>[globals + 1]
        /\ IF column[1] = "mov" THEN rec.gadgetSet \subseteq {"MOV"}
           ELSE flag[column[1]] \in rec.gadgetSet

(* Each number printed counts the records of the header's column above it,  *)
(* in whatever order the map held them.                                     *)
ColumnsMatchHeader ==
    columns # <<>> =>
        /\ Len(columns) = Len(Header)
        /\ \A c \in DOMAIN Header :
             columns[c] = Cardinality({s \in Stores : Belongs(s, Header[c])})

(* printSource lists a row for exactly the columns printStats would have    *)
(* counted the record in, so the two reports of one scan agree; there and   *)
(* with -details every record appears.                                      *)
RowsMatchStats ==
    mode # "stats" /\ phase = "done" =>
        LET rows == FlattenSeq(lines) \o line
        IN  /\ mode = "source" => \A s \in Stores, c \in ToSet(Header) :
                 Belongs(s, c) <=> <<c[1], c[2], s>> \in ToSet(rows)
            /\ IsInjective(rows)
            /\ {row[3] : row \in ToSet(rows)} = Stores

(* printSource: a line ends exactly at the row of a store with a debug      *)
(* location.  Rows of stores without one, of whichever records, are put in  *)
(* front of the next row with one, or left on a last line without an end.   *)
(* A record with a location never shares its line with the next record.     *)
(* With -details each record has a line of its own.                         *)
HasLoc(row) == result[row[3]].hasLoc
EndsAtLocation(l) == \A j \in DOMAIN l : HasLoc(l[j]) <=> j = Len(l)

LinesEndAtLocations ==
    /\ \A k \in DOMAIN lines : Len(lines[k]) >= 1
    /\ mode = "source" =>
         /\ \A k \in DOMAIN lines : EndsAtLocation(lines[k])
         /\ \A j \in DOMAIN line : ~HasLoc(line[j])
    /\ mode = "details" => line = <<>> /\ \A k \in DOMAIN lines : Len(lines[k]) = 1
==============================================================================
