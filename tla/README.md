# Models and proofs for llvm-clang-passes

TLA+ modules for the passes of this repository, the TLC configurations that
check them on small instances, and TLAPS proofs of all the invariants that hold.
Source paths are relative to `src/`; `DOPModule.cpp` stands for
`llvm/DOP-Gadgets/src/DOPModule.cpp`, `Processor.cpp` and `RecordDeclPadding.cpp`
for the files of `clang/RecordDeclPadding-tooling/src/` of that name.

## The system

The repository is a collection of independent passes and tools; none calls
another. Each runs once, in one thread, inside `opt`, `llc`, `clang` or a tool
of its own, over a program it does not own. What is hard is not concurrency but
long sequential searches with several pieces of state kept in step by hand,
`exit(1)` in the middle of them, options and option files that interact, counters
and files that outlive the unit they are about, and output whose columns are
computed in one place and named in another.

| Component | State | Operations |
|---|---|---|
| DOP-Gadgets, `Backtrack` | two parallel worklists, `visited`, an instruction stack, the sources found, `a_load`, `result` | the constructor, `isInteresting`, thirteen visitors |
| DOP-Gadgets, `InstInst` | for address and value of a store: sources, result set, gadget set; `interesting` | the constructor, which runs two `Backtrack` searches, and `prepResult` |
| DOP-Gadgets, scan (`runOnModule`) | the map `result`, two counters, `interesting`, three nested iterators | selection of loops, store analysis at three call depths |
| DOP-Gadgets, report | five groups of three counters | `printStats`, `printSource`, `printDetail` |
| DOP-Gadgets, `-vuln-list` | names, `worklist`, `visited` | the walk from a function to its callers, then `exit(1)` |
| DOP-Gadgets, option files, `-danger` | `functionList`, `dyn_map`, `closure_map` | three readers, `transitiveClosure` |
| RecordDeclPadding `Processor` | the output file; offset, sum and text of one record | `process` for records and for variables, `calculatePad`, `shouldSkipDecl` |
| RecordDeclPadding driver | output path | one front-end action per file |
| Statistics | five static counters | `runOnModule` |
| CloneFuncs | a snapshot of the defined functions | `runOnModule` |
| NoopInsertion (patches) | an option on its way from command line to code generator | option parsing, one no-op per basic block |
| CXXDepGraph | one graph for all translation units | a recursive visit |
| Hello pass | one counter for two passes | greet a function |
| Hello clang plugin, tool | none | print names |

How the parts of DOP-Gadgets interact: `runOnModule` makes an `InstInst` of every
store in scope; its constructor makes two `Backtrack` objects and calls
`isInteresting` on the second only if the first said yes; the instruction stacks
that `Backtrack` saved are turned into flags by `prepResult`; `runOnModule`
keeps interesting records in `result`, and the report reads only their flags.
The process ends with `exit(1)` from four places inside an analysis, and then
nothing is reported. Before any of this `runOnModule` reads its option files:
`-danger` and `-vuln-list` end the process, `-function-list` and `-dop-dyn` decide
which loops are scanned.

The other passes meet in one `opt` process: CloneFuncs changes the module that
Statistics counts and Hello greets, and the code generator, which may insert
no-ops, takes what is left. RecordDeclPadding and CXXDepGraph run over all
commands of a compilation database in one process.

What makes each component correct:

- `Backtrack`: it visits exactly the values the operand depends on, ends, and
  its verdict, sources and stacks are about those values, not about the order
  in which it happened to pop them.
- `InstInst`: the two searches do not influence each other, and the flags cover
  every source, by its own class, and nothing outside the slices.
- scan: the report holds exactly the stores in scope, once each, or there is no
  report.
- report: numbers agree with the header, rows agree with numbers.
- caller walk: exactly the callers of its own function, then an end.
- option files: what is reported is what the files ask for, and a file that is
  empty, malformed or missing ends in the way it must and no other.
- padding: every byte is accounted for once, rows about one record agree, and
  each file is complete.
- clones mirror their originals and nothing calls them; counters add up over
  passes; a flag gets through to the code generator unchanged.
- dependency graph: every class and base of every unit, once, or no graph.

`PROJECT.json` lists the hazards behind these properties, each at its line.

## Modules

| Module | Models | Remarks |
|---|---|---|
| `GraphSearch` | what any worklist search promises | abstract; no code of its own |
| `Backtrack` | `DOPModule.cpp` 31-249 | implements `GraphSearch` |
| `InstInst` | `DOPModule.cpp` 251-328 | extends `Backtrack` and composes two runs of its actions |
| `LoopScan` | `DOPModule.cpp` 583-593, 765-849 | takes the verdict of `InstInst` per store as an input |
| `Report` | `DOPModule.cpp` 404-579 | takes the records of `InstInst` as an input |
| `CallerWalk` | `DOPModule.cpp` 670-733 | states its result with `GraphSearch` |
| `OptionFiles` | `DOPModule.cpp` 595-682, 735-749 | the readers of the option files, and `-danger` |
| `RunOnModule` | `DOPModule.cpp` 642-863 | composes `OptionFiles` with `CallerWalk` and `LoopScan` by `INSTANCE` |
| `RecordPadding` | `Processor.cpp`, `MyASTVisitor.cpp` | layouts are an input |
| `PaddingTool` | `RecordDeclPadding.cpp` 74-104 | runs `RecordPadding` once per compile command |
| `IRModule` | what the small passes see of a module | declares the module they share |
| `CloneFuncs` | `llvm/CloneFuncs/src/CloneFunctions.cpp` | actions only, composed below |
| `Statistics` | `llvm/Statistics/src/Statistics.cpp`, `Statistics.h` | the same |
| `NoopInsertion` | `llvm/NoopInsertion/patches/release_8/*.patch` | the same |
| `OptPipeline` | `llvm/Hello/src/Hello.cpp` | the pass manager; composes the three above with Hello |
| `DepGraph` | `clang/CXXDepGraph-libclang/cxxdepgraph.py` | |
| `MC...` | | instances for TLC of the module of that name |
| `SequenceLemmas` | | facts about sequences, loops and least numbers for the proofs |
| `BacktrackProofs` | | theorems about `Backtrack` and `InstInst` |
| `LoopScanProofs` | | theorems about `LoopScan` |
| `DOPModuleProofs` | | theorems about `CallerWalk` and `Report` |
| `RunOnModuleProofs` | | theorems about `OptionFiles` and `RunOnModule`; instantiates `LoopScanProofs` |
| `PaddingToolProofs` | | theorems about `RecordPadding` and `PaddingTool` |
| `OptPipelineProofs` | | theorems about `OptPipeline` and the modules it composes |
| `DepGraphProofs` | | theorems about `DepGraph` |

### Backtrack

A module of LLVM is a def-use graph: a kind for each value, its operands in
order, which values have pointer type, and the operands of its stores. Kinds are
the classes the code tells apart: an `InstVisitor` method or a branch of
`isInteresting` corresponds to one kind or a few. `Traced(ir, v)` is the list of
operands the visit of `v` pushes, in order. There is one action per branch of
`isInteresting`; each includes the pop of both lists at the top of the loop, the
insertion into `visited`, the pushes of the visitor called and, for an
instruction, the trimming of the stack. `AbortOnInstruction` and
`AbortOnConstantExpr` are the two reachable calls of `exit(1)`. (The third, for a
value that is no constant, instruction or argument, would need a basic block or
metadata as a traced operand, which no visitor traces.)

Null operands are left out: a verified module has none where the visitors look.
Types are reduced to whether a value is a pointer. Opcodes of binary operators
are reduced to arithmetic and logical.

`a_load` deserves a word. It is one flag for the whole search, set when any load
has been popped, and a literal counts if it is set when the literal is popped. A
literal that depends on a load and can also be reached without one therefore
counts or not depending on the order of operands. `LiteralBehindLoadCounts` and
`VerdictMatchesSlice` state what holds for every order.

### InstInst

The variables of `Backtrack` are those of the search in progress; `phase` is the
place in the constructor. `Trace` takes a step of `Backtrack`'s `Next`, `TraceValue`
starts the second search on a new object, `Dismiss` and `Accept` are the two
outcomes of the `if`, `PrepPtr` and `PrepValue` the calls of `prepResult`, and
`AbortInPrep` its `exit(1)`, which is met by the few instructions that the
search traces and `prepResult` does not know. Bit masks are sets of flags. A
record kept for a literal alone has no recorded source, hence empty sets, and
is reported as a local `mov`. `ReportCoversEverySource` ties the result set to the
slice in both directions: the recorded sources are those of the slice, and the
classes named are exactly theirs (`ClassOf`: a global, a function, or an argument,
which is `ARGUMENT_PTR` in the address and `ARGUMENT_ANY` in the value).

### LoopScan

A module gives the functions in order, the instructions of each, its top-level
loops, the callee of each instruction and the verdict on each store. An action
handles one instruction of a selected loop whole: a store, or a call with every
store of the callee and of the callee's callees. `Abort` is the case that one of
these stores cannot be analysed. A call in a loop is found by `dyn_cast<CallInst>`
(`CalledFunction`), those of the function called are edges of the call graph
(`Callees`), and an `InvokeInst`, which in LLVM 8 is no `CallInst`, is an edge as
well: an invoke is passed over in the loop and followed one level further down.

### Report

The record of each store is reduced to the flags the report reads. The code has
two copies of its conditions, and so has the module: `getGadgetScope` and
`SourceKinds` are those of `printSource`, `StatScope` and `StatKinds` those of
`printStats`. A scope is an enumerator, which `printSource` turns into a name
by the place in `GadgetScopeStrings` and `printStats` into a counter by the switch of
`incStat` (`StatField`).

`ReportNext` counts or prints one entry of `result` at a time, in any order, since
the map is ordered by address (its names are told from those of `CallerWalk`,
which has its theorems in the same module). `LinesEndAtLocations` says where lines
end: a row without a debug location shares its line with the next one. With
`-details` the sets of each record are listed; the sources printed after them are
left out.

### CallerWalk

The names are those that `OptionFiles` reads; here every list of a few. Users of
a function are call instructions, which include those that only pass its address
as an argument, and others, invokes among them, which the walk does not take.
`taken` counts the names taken up. A function without a body is dropped before its
users are looked at, which is why no caller of a library function is found.

### OptionFiles and RunOnModule

A file is a sequence of words and newlines, or does not open, or is not given.
`stream` is the state of the `ifstream`: both kinds of reader test only its eof
bit, so what matters is which bit each extraction sets. `GetLine` takes a line
and sets eof if it ends without a newline; the end of a terminated file is one
more, empty, line. `ReadPair` takes a word and a number, across lines if need be.
A word in the number's place enters 0 and sets the fail bit, after which
`while (!eof)` spins: the model then has no step left in that stage, and that
this happens exactly when it must is part of `EndsUnlessTraceIsMalformed`. A list
that does not open is the same, except that each turn pushes an empty name, so
that memory runs out: `MaxNames` is how many names fit. A number is one that
fits its type; a word that only begins with digits is not among the words.

`MapTrace` is the loop that looks for the instructions on the traced lines;
`MapCrash` is `getLine` of an instruction without a debug location, which reads
a null pointer (an assertion in builds that have them).

`RunOnModule` instantiates `LoopScan` on the names and instructions read and
`CallerWalk` on the names of `-vuln-list` and the call graph of the same module.
Its properties read the command line's texts a second way (`TheLines`,
`WellFormed`, `LineIn`), by the places of a text and without the order of reading.

### RecordPadding and PaddingTool

A translation unit is a sequence of declarations in the order of the visit. The
loop of `calculatePad` is one step per field. The text of the Pads column is a
sequence of numbers, commas and quotes, because the code drops its last
character without looking at it. The record's name and `isVirtual` are left out.

`PaddingTool` runs one front-end action per compile command. `outputs` is what is
on disk; each row is written when it is computed. A command may fail before its
action (`runs` is FALSE), a directory may be impossible to make, which throws,
and a file impossible to open, which is not noticed.

### IRModule, CloneFuncs, Statistics, NoopInsertion, OptPipeline

A module is its globals' types and its functions' blocks of instructions, of
which only allocas, calls and stores are told apart. `OptPipeline` runs a list of
passes in the pass manager's order: module passes one by one, neighbouring
function passes together, function by function. A step clones, counts or greets
one function. `Defined` is the list of the functions with a body, `Copies` how
often passes have doubled it. `enabled` is whether the build of LLVM counts: without assertions
its counters stay zero, those that Statistics prints included. Names are
sequences, a clone's the original's with a number that makes it unique.

The module then goes to a code generator through `llc`, the front end or the
driver. `command` is the command line, `flag` what its parser has stored and
`option` what has been copied from there into the options of the target; llc and
the front end have a parser and a copy each, and each is an action. The driver
accepts `-fnoop-insertion` and starts the front end on a command line of its own,
to which the patch adds no flag (`RunFrontEnd`): the one job it tells of the flag is
that of XCore's assembler, which generates no code and is not modelled. A cc1
flag handed through with `-Xclang` is the same as a cc1 line that has it. The
targets' choice of the no-op instruction is left out.

`ClonesMirrorOriginals` says which clones there are: `Found(n)` is the number of
definitions the `n`-th pass finds, and those it adds are, one by one and in their
order, the clones of these; nothing else is ever added.

### DepGraph

Trees are cursors with children; equal trees in two units are one. `pending`
holds the cursors still to visit in the order of the recursion. A class that is
skipped because it is below `/usr` is descended into all the same. `FailOnBase`
is the base without a definition, on which `get_definition()` is `None`. The other
errors end the script as well: a database without commands (`FailToList`); a
file for which `getCompileCommands` answers `None`, or a command whose arguments do
not hold the file as the database spells it (`FailToArgue`); a file that is missing
or not parsed, `TranslationUnitLoadError` (`FailToParse`); and an output that cannot
be written (`writeDot`). `Doomed` is their union, read off the input. Not
modelled is Python's limit on recursion, which a deep enough tree exceeds.

## Runs

| Run | Shows | Bounds |
|---|---|---|
| `backtrack` | eight properties of the search and that it implements `GraphSearch` | 9 values, every combination of the operand choices in `MCBacktrack` that is in SSA form |
| `backtrack_stack` | a saved stack may end in another operand's instructions | the same |
| `inst_inst` | the record of a store agrees with both slices | 7 values |
| `loop_scan` | the report is exact, or absent | 5 functions, 8 instructions, 5 command lines |
| `loop_scan_ignore` | listed functions are scanned, not ignored | the same |
| `report` | columns, rows and numbers agree in the three modes | 2 stores, all flag combinations for one |
| `caller_walk` | walks are exact, independent and end | 4 functions and an unknown name, lists of up to 4 names |
| `run_on_module` | reports follow the files, ends have their reason | 4 modules, 960 command lines: 8 lists, 5 lists of `-vuln-list`, 12 traces; `MaxNames` 6 |
| `record_padding` | bytes, lists, rows and files | 11 layouts in 3 places, a second record; up to 3 commands on 4 paths; every kind of failure |
| `record_padding_system` | system records are reported | the same |
| `opt_pipeline` | clones, counters, greetings, no-ops | 4 modules, 6 pipelines of up to 5 passes, 10 command lines, both builds |
| `dep_graph` | the graph is exact, or absent for a reason | 13 cursors in 2 files, 6 lists of up to 3 commands, bases defined or not, a file not found or not parsed, output writable or not |

The runs `backtrack_stack`, `loop_scan_ignore` and `record_padding_system` check
what a comment or an option's help says, and TLC finds it violated; each is
a finding in `PROJECT.json`. All other runs pass. Four more findings are
statements about what passing runs show: the column `interesting_loops` counts
functions (`InterestingCountsFunctions`), the callers of a function without a
body are not found (`VisitedIsExact`), two compile commands of one path leave one
file (`FilesAreComplete`), and the driver's `-fnoop-insertion` inserts nothing, nor
does llc know `-mnoop-insertion` (`NoopsFollowBackEndFlag`, by which only a flag of
the command line that generates code counts).

Why the bounds are enough to be worth checking. The def-use graphs hold chains
longer than two instructions (so that trimming the stack has something to cut),
two instructions under one user, an operand shared by two users, phi cycles of one value
and through several, constant expressions over constant expressions and each
way to end; the modules of `LoopScan` reach three calls deep, one more than the
scan follows, with recursion, a call of a declaration, an invoke in place of
either call and both orders of caller and callee; call graphs of `CallerWalk` have direct, repeated, self and mutual
calls; the layouts of `RecordPadding` are those of the tool's own tests and
variants with a virtual table and a virtual base. The files of `RunOnModule` are
empty, terminated or not, hold blank lines, lines of two words and names of
nothing; the traces repeat a function, spread a pair over two lines, lack a
number or hold a word in its place; `MaxNames` is more than any file has lines,
so that only a reader that does not stop gets there. The pipelines of
`OptPipeline` clone clones, count twice and greet in a group, on the modules of
the passes' own tests; an assumption of `MCOptPipeline` compares the counts with
the numbers that `tests/test_runner.py` of Statistics expects. The databases of
`DepGraph` parse two files in both orders and one of them twice; a file
that is not found or not parsed is the first one or a later one. Every property is shown
sensitive to the code: for each, a changed definition (named "Slip" where it is
defined) makes TLC find it violated.

Deadlock checking is off because each program stops.

### Fairness

Every behaviour is one thread that runs until it returns or exits, so weak
fairness of `Next` is the assumption that the process keeps being scheduled.
`Report` and `OptPipeline` state no liveness and assume none. Termination is
checked for `Backtrack` (as part of implementing `GraphSearch`), `InstInst`,
`LoopScan`, `CallerWalk`, `PaddingTool` and `DepGraph`; for `RunOnModule` it is
checked exactly where it holds, and that it fails elsewhere too. A loop that goes
round without changing anything is a state without a step, so fairness does not
turn it into progress.

## Proofs

Every theorem holds for all values of the constants that satisfy the named
assumptions; the runs show the same properties on the instances above.

### Backtrack

For every set of values, every well-formed def-use graph and either operand of a
store.

| Theorem | Shows |
|---|---|
| `TypeCorrect` | `TypeOK`: both worklists always have the same length, so that no `back()` is taken of an empty vector, and the trimmed stack holds instructions only |
| `SliceCorrect`, `PendingCorrect` | `VisitsExactlyTheSlice`, `PendingHasItsUser` |
| `RefinesGraphSearch` | the safety half of `ImplementsGraphSearch`: initial states and steps are those of `GraphSearch` |
| `StackCorrect` | `StackIsDefUsePath` |
| `RecordedStacksCorrect` | `RecordedStackHoldsUser` |
| `SourcesCorrect`, `VerdictCorrect`, `LiteralsCorrect` | `SourcesRecordedOnce`, `VerdictMatchesSlice`, `LiteralBehindLoadCounts` |

Assumptions: `ProgramsAssumption` (graphs are well formed: operands exist and
are as many as the instruction needs; constants are built from constants) and
`StoreAssumption` (the store is not one of the values searched).

The slice. `VisitsExactlyTheSlice` is not inductive: that everything visited
is reachable needs that everything pending is, and that everything reachable has
been visited at the end needs that no operand of a visited value was lost on the
way. `SliceInv` adds `PendingHasItsUser` (what is pending is traced by a visited
user or is the root) and `NothingLost` (the operands of a visited value are
visited or pending, and nothing is pending at the end). Reachability is the
intersection of all closed sets around the root, so no induction over paths is
needed: a visited set that is closed and holds the root contains the slice. Every
action pops one value and pushes what `Traced` names; `SliceVisit` proves that
this preserves the invariant whatever the kind, `SliceSkip` the case of a value
visited before, and the other actions change nothing the invariant speaks of.
The same facts make each visit a `Mark` of the abstract search, a value met
again a stutter, and a return a `Finish` with an empty frontier.

The stack. That trimming it back to the popped value's user leaves a def-use
path needs that the user is still there: `StackInv` adds that the users of all
pending values are on the stack (`UsersOnStack`) and that those popped later lie
deeper (`UsersInOrder`), so that a cut never loses one that is still needed.
This in turn needs that an instruction is pushed once (`StackIsVisited`).
`RecordInv` adds, for stacks saved while constant expressions are taken
apart, that values pushed by constants are always on top of the worklist.

The verdict. `a_load` and `result` depend on the order of popping; `VerdictInv`
states the part that does not: what has been visited while `a_load` is unset is
reachable without passing a load (`LiteralInv`).

### InstInst

`RecordTypeCorrect`, `RecordVerdictCorrect`, `GadgetsCorrect`, `CoverageCorrect`
and `ExitsCorrect` state the five invariants of the run `inst_inst`, under the
assumptions of `Backtrack`. The search in progress has the variables of
`Backtrack`, so the step lemmas of that module are used for both searches
rather than repeated. `BuildInv` says what is known in each phase of the
constructor: while a search runs, its invariant; afterwards, that the verdict
and the records of the address are those of a finished search of its slice
(`AddressKnown`); in the end that each record is what `prepResult` makes of its
search. That the two searches do not influence each other is that the second one
again starts in a state `Started`, as the first one did. That a recorded type
is that of its source is a conjunct of the list's invariant (`ListInv`), and a source
is of one class, so the classes named are those of the sources (`RecordClass`).

### LoopScan

`TypeCorrect`, `ReportExact`, `InterestingCountExact` and `ReportAllOrNothing`
state the four invariants of the run `loop_scan`. Assumption: `ModulesAssumption`
(functions are listed once; loops are made of instructions of their function;
declarations have neither). The properties are stated without the order of the
scan, so the invariants need what has been done at a place: `SeenAt(f, l, i)` the
stores analysed before a position of the three iterators, `Entered` the loops
entered. `ResultInv` says that the result holds the interesting ones among
those seen, `TotalInv` and `FlagInv` that the counters are the cardinalities of
the sets they count. Each step moves the position by one, and the lemmas on
`SeenAt` and `DoneAt` say what that adds; that nothing is counted twice is that
a function has one place in the list. At the end everything in scope has been
seen.

### Report

`ColumnsCorrect`, `RowsCorrect` and `LinesCorrect` state the three invariants of
the run `report`, from `MapsAssumption` (the map holds records of the flags
there are); the map may even be infinite. None of the properties is inductive:
they are about the end, or about all records at once. `IInv` says them of the
records already walked, `Stores \ todo`: each counter is the cardinality of its
column among them (`CountersInv`), what is printed is what is owed them, without
repetitions (`PrintedInv`), and a line ends at a location (`LinesInv`). A step walks
one more record. That both copies of the conditions come to the same scope
(`BothCopiesOfScope`) and the same kinds (`KindsProperties`, `CountedKinds`), that the
scope is the number of global sets (`ScopeIsGlobals`) and the kinds are the flags,
each once, connects the code's conditions to `Belongs`; what a list of lines holds when a line is added to it is a fact about
`FlattenSeq` in `SequenceLemmas`.

### CallerWalk

`TypeCorrect` and `WalkExact` state the two invariants of the run `caller_walk`,
from `NoFunctionAssumption` (the null pointer is no function), `ModulesAssumption`
and `ListsAssumption`. `WalkInv` is `SliceInv` for a search that begins anew with
each name: visited functions reach the name of this walk and their callers are
visited or pending. Functions without a body may be pending though they are out
of the graph, and a null start has nothing to reach.

### OptionFiles and RunOnModule

`ReportFollows` and `EndsExplained` state the two invariants of the run
`run_on_module`, for every command line and every text of its files. Assumptions:
`CommandsAssumption` and `WordsAssumption` (the form of a command line, a name is
not a number, memory holds at least one name), and `ModulesAssumption` (as in
`LoopScan`, and a function with a body is listed).

The properties read a text by its places, the code word by word from the front.
`ListInv` and `TraceInv` connect the two: the text left is the file behind some
place, the names read are those of the lines up to it (`LinesTo`), and the map
agrees with the pairs up to it (`Paired`): an even number of words, every second
one a number, and for each name the word behind its last mention. The step
lemmas say what one more line (`LinesFurther`), one more pair (`PairedFurther`)
or a last name without a number (`PairedName`) adds. `ControlInv` holds what each
stage was reached by; `ScanInv` that the scan is untouched until its options
are complete, and from then on satisfies the invariants of `LoopScanProofs`,
which are used by `INSTANCE`; `CrashInv` and `WalkInv` the reasons of ends.

### RecordPadding and PaddingTool

`TypeCorrect` (no gap, sum or offset is ever negative), `PaddingAccountsForSize`,
`RowsOfOneRecordAgree` and `PadsAreThePadding` are proved of `ToolSpec`, that is,
for every list of commands, every unit and every layout. Assumptions:
`CommandsAssumption` (a command line names at least one file; units hold records
whose fields lie in order, without overlap, inside the record) and
`AccessAssumption`. `MeasureInv` says in the middle of a record that the fields
passed and the gaps found add up to the place reached; `OwnInv` that a row which
is not an array's belongs to a definition already visited; `PadsInv` that the text
under way is a quote and then numbers each followed by a comma (`OpenColumn`), so
that dropping the last character and closing the quote gives a list, and that
those numbers add up to the padding found. `SumOf` is a recursive function over
the places of a vector; that a sum grows by the element appended is proved once,
along the vector (`PrefixInduction`).

`FilesCorrect` is the safety half of `FilesAreComplete`: the tool has crashed
exactly if a directory cannot be made, and once it has ended, either way, every
file is as `FilesHoldLastUnit` says. `Due(u, m)` is what the first `m` declarations
of a unit lead to, and `DueInv` that the rows under way are those due of the
declarations visited. `FileInv` says of every path, at every moment, that it has
no file if no command up to now wrote to it, the rows so far if the present
command is the last that did, and otherwise all that is due of the last one's
unit; `StageInv` that no command passed was one to crash on, so that at the end
`Writers` are the commands passed (`AllWritten`).

### CloneFuncs, Statistics, Hello and NoopInsertion

`ClonesCorrect`, `NoopsCorrect`, `GreetsCorrect` and `ReportsCorrect` state the four
invariants of the run `opt_pipeline`, for every program, every list of passes and
every command line. Assumptions: `ProgramsAssumption` (a module as LLVM has it
before the first pass: distinct names, in the section of none, calls of
functions of its own), `PipelinesAssumption` and `InvocationsAssumption`.

`CloneInvariant` carries the others. `CloneInv` says that the list begins with the
program's functions, that no two functions have one name, that what each
clonefuncs has added are the clones of what it found, in order (`MirrorInv`), and
nothing else is added, and, as `CountInv`, that the definitions there are and those
still to be cloned are `First * Copies[p]` together. That the next clone has its
place in that order is `PendingInv`: what is still to be cloned are the definitions
from the first one that has no clone yet. That names stay
distinct rests on `Unique`, a `CHOOSE` over one number more than there are
functions: by the pigeonhole principle one of them is free (`UniqueNew`). That
no clone is called is not an invariant of its own: code is copied, so every
call is one of the program's.

`NoopInv`: behind the position of the code generator every definition has its
row and nothing else has one; that names are distinct makes it a row of its own.
It also follows the flag: what is parsed is whether the tool's own flag is on the
command line (`Wanted`), and what is set in the target's options is that.

`GreetInv` counts the greetings in the middle of a group of function passes: all
of earlier passes, the whole group for each definition behind the current one,
and `g` for that one; `TurnInv` the same for one function of the program and one
pass. That the neighbouring function passes are an interval, whose length is
that of the step `EndGroup`, is `GroupSpan`.

`TotalInv` says that the counts of all bodies, with those of the functions still to
be cloned, are `Times(Copies[p], Bodies)`, since a clone has its original's
counts. `CounterInv` says what the counters hold at every moment: the last report
and, while Statistics is counting, the globals and the functions passed
(`Counted`), or nothing in a build that does not count. Both rest on sums being
those of their parts (`SumAppend`, `TotalConcat`).

### DepGraph

`GraphExact` states the invariant of the run `dep_graph`, and `EndDeserved` the
safety half of `WrittenUnlessDoomed`: a graph is written only if nothing stands
against it, and the script fails only for one of the reasons of `Doomed`. Assumptions:
`CursorsAssumption` (finitely many cursors) and `CompdbsAssumption`. The code
does not record which cursors it has visited, so the invariant says that there
is a set `V` of them (`Walked(V)`): closed up to what is pending, with the roots
of all files taken up, and the graph is that of `V`. `Below` is what is found
in as many rounds as there are cursors; that so many rounds are enough is
an argument about cardinalities: a round that adds nothing is the last, and
each one before it adds a cursor.

### Shared lemmas

`SequenceLemmas`: the least and the greatest number with a property, from the
well-foundedness of the naturals' order; induction along the prefixes of a
sequence (`PrefixInduction`) and along `Append` (`AppendInduction`), stated for sets
rather than predicates, so that no operator has to be passed; that a loop over
`1..n` has a run and stays in the type its turns stay in (`IterationExists`,
`IterationStays`), which every recursive function here is an instance of; what
appending, popping, pushing, concatenation and `FlattenSeq` do to length,
contents and type.

### Only model-checked

Every invariant of every passing run is a theorem. What is left to TLC:

- Liveness: `RecordIsBuilt`, `ScanEnds`, `WalksEnd`, `FilesAreComplete`,
  `EndsUnlessTraceIsMalformed`, `WrittenUnlessDoomed`, and the fairness of
  `GraphSearch` in `ImplementsGraphSearch`. They rest on weak fairness, hence
  `ENABLED`, which the prover does not handle. Of `ImplementsGraphSearch`,
  `FilesAreComplete` and `WrittenUnlessDoomed` the safety halves are theorems
  (`RefinesGraphSearch`, `FilesCorrect`, `EndDeserved`), and `EndsExplained` gives the
  reasons of the ends of `RunOnModule`.
- The three runs that expect a violation.
- That the numbers of `Statistics` are those that its tests expect, an assumption
  that TLC evaluates in `MCOptPipeline`.

Definitions that the proofs unfold use recursive functions over the places of a
sequence (`Defined`, `SumOf`, `Copies`, `Due`), because operators that take an
operator, such as `SelectSeq` and the folds, have no meaning to the provers'
backends.

## Not modelled

- The Hello plugin and tool of clang: they print the name of each function met
  and keep no state.
- Text: the wording of every output, the sources that `-details` lists, the
  `RecordName` and `isVirtual` columns.
- `transitiveClosure` fills a table that nothing reads; it is the exit it ends in.
- The recursion limit of Python; the driver's job for XCore's assembler.
- Numbers of a trace that do not fit `unsigned`, and words that begin with digits.
- Which instruction a target uses as a no-op; include paths.
- Build files and tests, which are read for what they expect.

## State

All components but the Hello plugin and tool are modelled, and every safety
property of the passing runs is proved. The plan is done; a change of the code
would be followed by a change of the definitions that `PROJECT.json` maps to its
lines, and the step lemma of the action concerned is what has to be proved again.
