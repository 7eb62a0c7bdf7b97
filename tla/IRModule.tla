------------------------------ MODULE IRModule ------------------------------
(***************************************************************************)
(* The LLVM module that the passes of one opt process work on, as far as    *)
(* they look at it: global variables, and functions with their blocks of    *)
(* allocas, calls, stores and other instructions.                           *)
(***************************************************************************)
EXTENDS SequencesExt, FiniteSetsExt, Naturals

CONSTANT Programs   \* modules before the first pass

VARIABLES
    globals,     \* the types of the global variables
    functions    \* the functions, in the order of the module's list

(* A type is a number of pointers to something that is or is not a function. *)
Types == [pointers: Nat, function: BOOLEAN]
PointerTo(T) == [T EXCEPT !.pointers = @ + 1]

(* The name of a function and the suffixes added to make it unique.         *)
IsName(name) == Len(name) \in Nat \ {0} /\ name = [k \in 1..Len(name) |-> name[k]]

Instructions(names) ==
    [kind: {"alloca"}, type: Types]
      \cup [kind: {"call"}, callee: {"function"}, to: names]
      \cup [kind: {"call"}, callee: {"value", "constant"}]
      \cup [kind: {"store", "other"}]

NamesIn(p) == {p.functions[x].name : x \in DOMAIN p.functions}

IsProgram(p) ==
    /\ p.globals \in Seq(Types)
    /\ p.functions \in Seq([name: NamesIn(p), section: {""},
                            blocks: Seq(Seq(Instructions(NamesIn(p))))])
    /\ Cardinality(NamesIn(p)) = Len(p.functions)
    /\ \A name \in NamesIn(p) : IsName(name)

ASSUME ProgramsAssumption == \A p \in Programs : IsProgram(p)

isDeclaration(F) == F.blocks = <<>>

(* The functions with a body, in their order.                               *)
Defined(funs) ==
    LET upTo[n \in 0..Len(funs)] ==
            IF n = 0 THEN <<>>
            ELSE IF isDeclaration(funs[n]) THEN upTo[n - 1] ELSE Append(upTo[n - 1], funs[n])
    IN  upTo[Len(funs)]

Definitions == Defined(functions)
Insts(F) == FlattenSeq(F.blocks)
==============================================================================
