----------------------------- MODULE PaddingTool -----------------------------
(***************************************************************************)
(* clang/RecordDeclPadding-tooling: the tool around RecordPadding.  The     *)
(* front end runs one action per compile command, one after another in one  *)
(* process; each opens an output file named after the source file as the    *)
(* command spells it, below the directory in which the tool was started.    *)
(***************************************************************************)
EXTENDS RecordPadding

CONSTANTS
    Paths,         \* source files as commands spell them
    Access,        \* what can be done with the output file of each
    CommandLists   \* compile commands in the order in which they are run

VARIABLES
    commands,   \* one of CommandLists
    c,          \* the position in it
    outputs,    \* the files: the rows under each path, None if there is none
    tool        \* "creating", "handling", "ended" or "crashed"

driver == <<commands, c, outputs, tool>>

(* `runs` tells whether the command gets as far as its front-end action.    *)
ASSUME CommandsAssumption ==
    \A list \in CommandLists :
      /\ Len(list) \in Nat \ {0} /\ DOMAIN list = 1..Len(list)
      /\ \A x \in DOMAIN list :
           list[x].path \in Paths /\ IsUnit(list[x].unit) /\ list[x].runs \in BOOLEAN
ASSUME AccessAssumption ==
    Access \in [Paths -> {"write", "no file", "no directory"}]

Path == commands[c].path

------------------------------------------------------------------------------
ToolInit ==
    /\ commands \in CommandLists
    /\ c = 1
    /\ outputs = [p \in Paths |-> None]
    /\ tool = "creating"
    /\ unit = commands[1].unit /\ d = 1
    /\ n = 0 /\ Offset = 0 /\ PaddingSum = 0 /\ Pads = <<>>
    /\ rows = <<>> /\ status = "visiting"

(* Slip: rows are added to a file that exists.                              *)
OpenedAppending == IF outputs[Path] = None THEN rows ELSE outputs[Path]

(* An output stream starts its file afresh.                                 *)
Opened == rows

(* A directory is made and the file opened.  That the file cannot be        *)
(* written is not noticed; its rows are lost.                               *)
CreateASTConsumer ==
    /\ tool = "creating"
    /\ commands[c].runs
    /\ Access[Path] # "no directory"
    /\ outputs' = IF Access[Path] = "write" THEN [outputs EXCEPT ![Path] = Opened] ELSE outputs
    /\ tool' = "handling"
    /\ UNCHANGED <<commands, c, vars>>

(* create_directories throws, and nothing catches it.                       *)
CrashOnDirectory ==
    /\ tool = "creating"
    /\ commands[c].runs
    /\ Access[Path] = "no directory"
    /\ tool' = "crashed"
    /\ UNCHANGED <<commands, c, outputs, vars>>

HandleTranslationUnit ==
    /\ tool = "handling"
    /\ Next
    /\ outputs' = IF Access[Path] = "write" /\ rows' # rows
                  THEN [outputs EXCEPT ![Path] = Append(@, Last(rows'))] ELSE outputs
    /\ UNCHANGED <<commands, c, tool>>

(* The next command, with a visitor and a Processor of its own.             *)
EndCommand ==
    /\ \/ tool = "handling" /\ status = "done"
       \/ tool = "creating" /\ ~commands[c].runs
    /\ UNCHANGED <<commands, outputs>>
    /\ IF c = Len(commands)
       THEN tool' = "ended" /\ UNCHANGED <<c, vars>>
       ELSE /\ c' = c + 1 /\ tool' = "creating"
            /\ unit' = commands[c + 1].unit /\ d' = 1
            /\ n' = 0 /\ Offset' = 0 /\ PaddingSum' = 0 /\ Pads' = <<>>
            /\ rows' = <<>> /\ status' = "visiting"

ToolNext ==
    CreateASTConsumer \/ CrashOnDirectory \/ HandleTranslationUnit \/ EndCommand

(* The tool has one thread, which does not stop between two steps.          *)
ToolSpec == ToolInit /\ [][ToolNext]_<<driver, vars>> /\ WF_<<driver, vars>>(ToolNext)

------------------------------------------------------------------------------
(* The rows that the first m declarations of a unit lead to, as pairs of a  *)
(* record and a number of copies.                                           *)
HasRow(u, decl) ==
    /\ decl.record # None
    /\ IF decl.kind = "record" THEN decl.definition
       ELSE decl.kind = "constant array" /\ decl.elements > 0
    /\ ~shouldSkipDecl(u.record[decl.record])

RowOf(decl) ==
    [record |-> decl.record, copies |-> IF decl.kind = "record" THEN 1 ELSE decl.elements]

Due(u, m) ==
    LET upTo[k \in 0..Len(u.decls)] ==
            IF k = 0 THEN <<>>
            ELSE IF HasRow(u, u.decls[k]) THEN Append(upTo[k - 1], RowOf(u.decls[k]))
            ELSE upTo[k - 1]
    IN  upTo[m]

Summary(file) == [k \in DOMAIN file |-> [record |-> file[k].record, copies |-> file[k].copies]]

(* The tool gets through all commands, or up to the first whose directory   *)
(* cannot be made; each file then holds the complete rows of the last       *)
(* command that wrote to its path, and of no other.  A file is one per      *)
(* path: of two units with the same path the first is lost.                 *)
Crashing == {x \in DOMAIN commands : commands[x].runs /\ Access[commands[x].path] = "no directory"}

Writers(p) ==
    {x \in DOMAIN commands : /\ commands[x].path = p /\ commands[x].runs
                             /\ \A y \in Crashing : x < y}

FilesHoldLastUnit ==
    \A p \in Paths :
      IF Writers(p) = {} \/ Access[p] # "write" THEN outputs[p] = None
      ELSE LET last == CHOOSE x \in Writers(p) : \A y \in Writers(p) : y <= x
               u == commands[last].unit
           IN  Summary(outputs[p]) = Due(u, Len(u.decls))

FilesAreComplete ==
    <>(/\ tool = IF Crashing = {} THEN "ended" ELSE "crashed"
       /\ FilesHoldLastUnit)
==============================================================================
