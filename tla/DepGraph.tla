------------------------------ MODULE DepGraph ------------------------------
(***************************************************************************)
(* clang/CXXDepGraph-libclang: one script parses the source file of every   *)
(* compile command and walks its tree from the root.  Each class met adds a *)
(* node, its base classes and edges to one graph, in which a class is its   *)
(* displayed name.  The graph is written when all files have been walked.   *)
(***************************************************************************)
EXTENDS SequencesExt, FiniteSets, Naturals

CONSTANTS
    Names,       \* names of classes as displayed
    None,        \* no definition
    Files,       \* source files
    Cursors,     \* the cursors of all translation units, equal trees as one
    Compdbs      \* compilation databases, with the trees of their files

VARIABLES
    compdb,    \* one of Compdbs
    c,         \* how many compile commands have been taken up
    pending,   \* the cursors to visit, the next one first
    nodes, edges,   \* the graph
    status     \* "running", "written" or "raised"

graph == <<nodes, edges>>
vars == <<compdb, c, pending, graph, status>>

ClassKinds == {"CLASS_DECL", "STRUCT_DECL", "CLASS_TEMPLATE"}
Kinds == ClassKinds \cup {"CXX_BASE_SPECIFIER", "other"}

(* A cursor has a kind, a displayed name, the name of its definition (None  *)
(* for a base that depends on a template parameter), children, and a        *)
(* location below /usr or not.                                              *)
IsCursor(x) ==
    /\ x.kind \in Kinds /\ x.displayname \in Names
    /\ x.definition \in Names \cup {None}
    /\ x.children \in Seq(Cursors) /\ x.usr \in BOOLEAN

(* A database has commands, each for a file, with its name among the        *)
(* arguments or spelled differently there (one that does not load counts as *)
(* one without commands).  It finds commands for the files in `resolved`:   *)
(* it looks for absolute paths, and answers None to others.  clang makes a  *)
(* translation unit, with a root, of the files in `parses` and not of one   *)
(* that is missing.  `writable` is whether networkx can write the graph.    *)
IsCompdb(db) ==
    /\ db.commands \in Seq([filename: Files, named: BOOLEAN])
    /\ db.resolved \subseteq Files /\ db.parses \subseteq Files
    /\ db.writable \in BOOLEAN
    /\ db.root \in [Files -> Cursors]
    /\ DOMAIN db.cursor = Cursors
    /\ \A x \in Cursors : IsCursor(db.cursor[x])

ASSUME CursorsAssumption == IsFiniteSet(Cursors)
ASSUME CompdbsAssumption == \A db \in Compdbs : IsCompdb(db)

------------------------------------------------------------------------------
Cursor(x) == compdb.cursor[x]

(* The positions of the base classes among the children of a class, and the *)
(* names of their definitions.                                              *)
Bases(x) ==
    {n \in DOMAIN Cursor(x).children :
       Cursor(Cursor(x).children[n]).kind = "CXX_BASE_SPECIFIER"}

BaseName(x, n) == Cursor(Cursor(x).children[n]).definition

shouldSkipDecl(x) == Cursor(x).usr
Processed(x) == Cursor(x).kind \in ClassKinds /\ ~shouldSkipDecl(x)

(* The bases that have no definition.                                       *)
Undefined(x) == {n \in Bases(x) : BaseName(x, n) = None}

Init ==
    /\ compdb \in Compdbs
    /\ c = 0
    /\ pending = <<>>
    /\ nodes = {} /\ edges = {}
    /\ status = "running"

(* A database without commands answers None, which is not iterable.         *)
FailToList ==
    /\ status = "running" /\ compdb.commands = <<>>
    /\ status' = "raised"
    /\ UNCHANGED <<compdb, c, pending, graph>>

Taking == status = "running" /\ pending = <<>> /\ c < Len(compdb.commands)
File == compdb.commands[c + 1].filename

(* Arguments of all commands for the file are put together, each without    *)
(* the name of the file; a database that answers None for the file, or a    *)
(* command that does not hold the name as the database spells it, raises an *)
(* error.                                                                   *)
Arguable(db, k) ==
    LET file == db.commands[k].filename
    IN  /\ file \in db.resolved
        /\ \A n \in DOMAIN db.commands :
             db.commands[n].filename = file => db.commands[n].named

ParseFile ==
    /\ Taking
    /\ Arguable(compdb, c + 1) /\ File \in compdb.parses
    /\ c' = c + 1
    /\ pending' = <<compdb.root[File]>>
    /\ UNCHANGED <<compdb, graph, status>>

FailToArgue ==
    /\ Taking
    /\ ~Arguable(compdb, c + 1)
    /\ status' = "raised"
    /\ UNCHANGED <<compdb, c, pending, graph>>

(* TranslationUnitLoadError.                                                *)
FailToParse ==
    /\ Taking
    /\ Arguable(compdb, c + 1) /\ File \notin compdb.parses
    /\ status' = "raised"
    /\ UNCHANGED <<compdb, c, pending, graph>>

Visiting == status = "running" /\ pending # <<>>
X == Head(pending)

(* Slip: a class that is skipped is not descended into.                     *)
PassBySkipped ==
    /\ Visiting
    /\ ~Processed(X)
    /\ pending' = IF Cursor(X).usr THEN Tail(pending) ELSE Cursor(X).children \o Tail(pending)
    /\ UNCHANGED <<compdb, c, graph, status>>

(* Whatever is not processed is descended into all the same.                *)
PassBy ==
    /\ Visiting
    /\ ~Processed(X)
    /\ pending' = Cursor(X).children \o Tail(pending)
    /\ UNCHANGED <<compdb, c, graph, status>>

(* A class is a node at each of its declarations; bases are taken from the  *)
(* declaration that has them, wherever they are located.                    *)
processClass ==
    /\ Visiting
    /\ Processed(X)
    /\ Undefined(X) = {}
    /\ nodes' = nodes \cup {Cursor(X).displayname} \cup {BaseName(X, n) : n \in Bases(X)}
    /\ edges' = edges \cup {<<Cursor(X).displayname, BaseName(X, n)>> : n \in Bases(X)}
    /\ pending' = Cursor(X).children \o Tail(pending)
    /\ UNCHANGED <<compdb, c, status>>

(* Slip: a base without a definition is left out.                           *)
LeaveOutBase ==
    /\ Visiting
    /\ Processed(X)
    /\ Undefined(X) # {}
    /\ nodes' = nodes \cup {Cursor(X).displayname}
    /\ pending' = Cursor(X).children \o Tail(pending)
    /\ UNCHANGED <<compdb, c, edges, status>>

(* A base without a definition: None has no displayname.                    *)
FailOnBase ==
    /\ Visiting
    /\ Processed(X)
    /\ \E n \in Undefined(X) :
         /\ \A m \in Undefined(X) : n <= m
         /\ LET before == {m \in Bases(X) : m < n}
            IN  /\ nodes' = nodes \cup {Cursor(X).displayname} \cup {BaseName(X, m) : m \in before}
                /\ edges' = edges \cup {<<Cursor(X).displayname, BaseName(X, m)>> : m \in before}
    /\ status' = "raised"
    /\ UNCHANGED <<compdb, c, pending>>

(* A library's function, which raises whatever it may.                      *)
writeDot ==
    /\ status = "running" /\ pending = <<>>
    /\ compdb.commands # <<>> /\ c = Len(compdb.commands)
    /\ status' = IF compdb.writable THEN "written" ELSE "raised"
    /\ UNCHANGED <<compdb, c, pending, graph>>

Next ==
    \/ FailToList \/ ParseFile \/ FailToArgue \/ FailToParse
    \/ PassBy \/ processClass \/ FailOnBase
    \/ writeDot

(* The script has one thread, which does not stop between two steps.        *)
Spec == Init /\ [][Next]_vars /\ WF_vars(Next)

------------------------------------------------------------------------------
(* The cursors of a file: the root, its children, theirs and so on.         *)
Below(file) ==
    LET reach[n \in 0..Cardinality(Cursors)] ==
          IF n = 0 THEN {compdb.root[file]}
          ELSE LET above == reach[n - 1]
               IN  above \cup UNION {ToSet(Cursor(x).children) : x \in above}
    IN  reach[Cardinality(Cursors)]

Parsed == {compdb.commands[n].filename : n \in DOMAIN compdb.commands}
Classes == {x \in UNION {Below(file) : file \in Parsed} : Processed(x)}
BaseNames(x) == {BaseName(x, n) : n \in Bases(x)}

(* The graph that is written has every class outside /usr of every file,    *)
(* however deep it is nested (in a class of the system as well), its bases  *)
(* wherever they are, and the edges between them and no others, whatever    *)
(* the order of the commands and however often a file occurs.  Classes of   *)
(* one name, in one file or in several, are one node.                       *)
GraphIsExact ==
    status = "written" =>
      /\ nodes = UNION {{Cursor(x).displayname} \cup BaseNames(x) : x \in Classes}
      /\ edges = UNION {{Cursor(x).displayname} \X BaseNames(x) : x \in Classes}

(* What costs the whole graph: no commands at all, one command that spells  *)
(* its file otherwise, whose file the database does not find or clang does  *)
(* not parse, one base without a definition in one class of one file, or    *)
(* the write itself.  Otherwise the graph is written, and the script ends.  *)
(* A tree deeper than Python's recursion limit is not modelled.             *)
Doomed ==
    \/ compdb.commands = <<>> \/ ~compdb.writable
    \/ \E n \in DOMAIN compdb.commands :
         \/ ~compdb.commands[n].named
         \/ compdb.commands[n].filename \notin compdb.resolved \cap compdb.parses
    \/ \E x \in Classes : None \in BaseNames(x)

WrittenUnlessDoomed == <>(status = IF Doomed THEN "raised" ELSE "written")
==============================================================================
