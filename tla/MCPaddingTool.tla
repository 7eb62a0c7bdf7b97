--------------------------- MODULE MCPaddingTool ---------------------------
(***************************************************************************)
(* Instances of PaddingTool for TLC.  Layouts are those of the x86-64       *)
(* ABI: each field at the next multiple of its alignment, after a prefix (a *)
(* vtable pointer or base) and before a virtual base, the size a multiple   *)
(* of the largest alignment.  The records include those of                  *)
(* tests/basic.c and basic.cpp.                                             *)
(***************************************************************************)
EXTENDS PaddingTool

RoundUp(x, a) == ((x + a - 1) \div a) * a

(* Fields are given by their types.                                         *)
SizeOfType == [char |-> 1, int |-> 4, pointer |-> 8, has_pad |-> 12, chars |-> 3]
AlignOfType == [char |-> 1, int |-> 4, pointer |-> 8, has_pad |-> 4, chars |-> 1]

Layout(types, prefix, virtualBase) ==
    LET Aligned(at, t) == RoundUp(at, AlignOfType[t])
        offsets[k \in 1..Len(types)] ==
          Aligned(IF k = 1 THEN prefix ELSE offsets[k - 1] + SizeOfType[types[k - 1]], types[k])
        align == CHOOSE a \in {1, 4, 8} :
                   /\ \A t \in ToSet(types) : AlignOfType[t] <= a
                   /\ prefix + virtualBase > 0 => a = 8
                   /\ prefix + virtualBase = 0 => a \in {AlignOfType[t] : t \in ToSet(types)}
        end == IF types = <<>> THEN prefix
               ELSE offsets[Len(types)] + SizeOfType[types[Len(types)]]
    IN  [fields |-> [k \in DOMAIN types |->
                       [size |-> SizeOfType[types[k]], offset |-> offsets[k],
                        pointer |-> types[k] = "pointer"]],
         size |-> RoundUp(end + virtualBase, align)]

Record(layout, traits, place) ==
    [fields |-> layout.fields, size |-> layout.size, traits |-> traits, place |-> place]

MCRecords == {"r", "q"}

Layouts ==
    {Layout(types, 0, 0) :
        types \in {<<"int", "int", "pointer">>, <<"char", "int", "char">>, <<"char">>,
                   <<"pointer", "char", "int">>, <<"chars", "has_pad", "char">>}}
    \cup {Layout(types, 8, vbase) :
        types \in {<<"int">>, <<"int", "int">>, <<"char", "pointer">>}, vbase \in {0, 8}}

Firsts == {Record(layout, {}, place) : layout \in Layouts, place \in Places}
Seconds ==
    {Record(Layout(<<"char", "int", "char">>, 0, 0), traits, "project") :
        traits \in {{}, {"dependent"}, {"bitfield"}, {"incomplete array"}}}
    \cup {Record([fields |-> <<>>, size |-> 1], {}, "project"),
          Record([fields |-> <<[size |-> 4, offset |-> 0, pointer |-> FALSE],
                               [size |-> 8, offset |-> 0, pointer |-> TRUE]>>, size |-> 8],
                 {"union"}, "project")}

Of(r, definition) == [kind |-> "record", record |-> r, definition |-> definition]
Variable(kind, r, elements) == [kind |-> kind, record |-> r, elements |-> elements]

DeclLists ==
    {<<Of("r", FALSE), Of("r", TRUE), Of("r", FALSE), Variable("constant array", "r", 10)>>,
     <<Of("q", TRUE), Of("r", TRUE), Variable("constant array", "r", 0),
       Variable("constant array", "q", 2), Variable("constant array", "r", 3)>>,
     <<Of("r", TRUE), Variable("array", "r", 0), Variable("scalar", None, 0),
       Variable("constant array", None, 4), Of("q", TRUE)>>}

MCUnits ==
    {[record |-> [x \in MCRecords |-> IF x = "r" THEN first ELSE second], decls |-> decls] :
        first \in Firsts, second \in Seconds, decls \in DeclLists}

(* One unit at a time, and a few of them together: one path twice, a        *)
(* command that does not run, files that cannot be written.                 *)
MCPaths == {"a.c", "b.c", "locked.c", "missing/a.c"}
MCAccess == [p \in MCPaths |-> CASE p = "locked.c" -> "no file"
                                [] p = "missing/a.c" -> "no directory"
                                [] OTHER -> "write"]

Command(p, u) == [path |-> p, unit |-> u, runs |-> TRUE]

UnitOf(types, decls) ==
    [record |-> [x \in MCRecords |-> Record(Layout(types, 0, 0), {}, "project")], decls |-> decls]

SomeUnits ==
    {UnitOf(<<"char", "int">>, <<Of("q", TRUE), Of("r", TRUE)>>),
     UnitOf(<<"int">>, <<Of("r", TRUE), Variable("constant array", "r", 2)>>),
     UnitOf(<<"int", "pointer">>, <<Of("r", FALSE)>>)}

MCCommandLists ==
    {<<Command("a.c", u)>> : u \in MCUnits}
      \cup {<<Command(p, u), [Command(q, v) EXCEPT !.runs = b], Command("a.c", u)>> :
              p \in MCPaths, q \in MCPaths, u \in SomeUnits, v \in SomeUnits, b \in BOOLEAN}
==============================================================================
