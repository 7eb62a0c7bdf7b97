----------------------------- MODULE OptionFiles -----------------------------
(***************************************************************************)
(* llvm/DOP-Gadgets: how runOnModule takes up its options before it looks   *)
(* at a loop.  -danger ends the process; the files of -function-list,       *)
(* -vuln-list and -dop-dyn are read in this order, each by a loop that runs *)
(* until the eof bit of its stream is set.                                  *)
(***************************************************************************)
EXTENDS SequencesExt, Naturals

CONSTANTS
    Functions,    \* names of functions
    Numbers,      \* the words that are numbers
    Zero,         \* among them, 0
    Newline,      \* the character
    EmptyLine,    \* the empty string
    OtherLine,    \* a line of several words, the name of nothing
    Unreadable,   \* a file that does not open
    NotGiven,     \* an option that is not on the command line
    MaxNames,     \* how many names fit into memory
    Commands      \* the command lines

VARIABLES
    cmd,            \* the command line: -danger and the three files
    stage,          \* what runOnModule is doing
    text,           \* what the open file still holds
    stream,         \* its state: "closed", "good", "eof" or "fail"
    functionList,   \* the names of -function-list
    vulnFuncList,   \* the names of -vuln-list
    temp_map        \* the line of each function in the trace, 0 for none

reader == <<stage, text, stream>>
lists == <<functionList, vulnFuncList, temp_map>>

Words == Functions \cup Numbers
Names == Words \cup {OtherLine}
Readers == {"function-list", "vuln-list", "dop-dyn"}

(* A text is a sequence of words, parted by blanks that are not shown, and  *)
(* newlines.                                                                *)
IsFile(file) == file \in {NotGiven, Unreadable} \/ file \in Seq(Words \cup {Newline})

IsCommand(c) ==
    /\ DOMAIN c = Readers \cup {"danger"}
    /\ c["danger"] \in BOOLEAN
    /\ \A r \in Readers : IsFile(c[r])

ASSUME CommandsAssumption == \A c \in Commands : IsCommand(c)
ASSUME WordsAssumption ==
    Zero \in Numbers /\ MaxNames \in Nat \ {0} /\ Functions \cap Numbers = {}

Given(r) == cmd[r] # NotGiven

------------------------------------------------------------------------------
(* A definition introduced as a "Slip" is the one after it with a plausible *)
(* mistake; nothing uses it but the runs that show a property notices.      *)

(* A line as one name.                                                      *)
Line(words) ==
    CASE words = <<>> -> EmptyLine
      [] Len(words) = 1 -> words[1]
      [] OTHER -> OtherLine

(* Where the next newline is, or the end.                                   *)
LineEnd(t) ==
    CHOOSE n \in 1..Len(t) + 1 :
      /\ n <= Len(t) => t[n] = Newline
      /\ \A j \in 1..n - 1 : t[j] # Newline

(* An extraction passes over white space first.                             *)
DropBlank(t) ==
    IF \A n \in DOMAIN t : t[n] = Newline THEN <<>>
    ELSE SubSeq(t, CHOOSE n \in DOMAIN t : /\ t[n] # Newline
                                           /\ \A j \in 1..n - 1 : t[j] = Newline, Len(t))

StartReader ==
    /\ cmd \in Commands
    /\ stage = "start"
    /\ text = <<>> /\ stream = "closed"
    /\ functionList = <<>> /\ vulnFuncList = <<>>
    /\ temp_map = [w \in Words |-> Zero]

(* transitiveClosure fills a table of its own and calls exit(1), as it does *)
(* when it meets a block that ends without a terminator.                    *)
Danger ==
    /\ stage = "start"
    /\ cmd["danger"]
    /\ stage' = "exited"
    /\ UNCHANGED <<cmd, text, stream, lists>>

Begin ==
    /\ stage = "start"
    /\ ~cmd["danger"]
    /\ stage' = "function-list"
    /\ UNCHANGED <<cmd, text, stream, lists>>

(* Where runOnModule goes on without, and after, a file.                    *)
Without == [r \in Readers |-> CASE r = "function-list" -> "vuln-list"
                                [] r = "vuln-list" -> "dop-dyn"
                                [] r = "dop-dyn" -> "scan"]

(* Slip: the walk returns to the pass.                                      *)
AfterReturning == [r \in Readers |-> CASE r = "function-list" -> "vuln-list"
                                       [] r = "vuln-list" -> "dop-dyn"
                                       [] r = "dop-dyn" -> "map"]

After == [r \in Readers |-> CASE r = "function-list" -> "vuln-list"
                              [] r = "vuln-list" -> "walk"
                              [] r = "dop-dyn" -> "map"]

SkipOption ==
    /\ stage \in Readers /\ stream = "closed"
    /\ ~Given(stage)
    /\ stage' = Without[stage]
    /\ UNCHANGED <<cmd, text, stream, lists>>

(* The fail bit is all that tells that the file did not open, and nobody    *)
(* looks at it.                                                             *)
Open ==
    /\ stage \in Readers /\ stream = "closed"
    /\ Given(stage)
    /\ IF cmd[stage] = Unreadable
       THEN stream' = "fail" /\ text' = <<>>
       ELSE stream' = "good" /\ text' = cmd[stage]
    /\ UNCHANGED <<cmd, stage, lists>>

push_back(name) ==
    IF stage = "function-list"
    THEN functionList' = Append(functionList, name) /\ UNCHANGED <<vulnFuncList, temp_map>>
    ELSE vulnFuncList' = Append(vulnFuncList, name) /\ UNCHANGED <<functionList, temp_map>>

Listing == stage \in {"function-list", "vuln-list"} /\ stream \in {"good", "fail"}
Filled == Len(functionList) + Len(vulnFuncList) >= MaxNames

(* One getline: up to a newline, which is taken off, or up to the end,      *)
(* which sets the eof bit; the end itself counts as a last line.            *)
GetLine ==
    /\ Listing /\ stream = "good"
    /\ LET end == LineEnd(text)
       IN  /\ push_back(Line(SubSeq(text, 1, end - 1)))
           /\ text' = SubSeq(text, end + 1, Len(text))
           /\ stream' = IF end <= Len(text) THEN "good" ELSE "eof"
    /\ UNCHANGED <<cmd, stage>>

(* With the fail bit set getline leaves its string empty, and it is pushed  *)
(* for as long as there is memory.                                          *)
GetNothing ==
    /\ Listing /\ stream = "fail" /\ ~Filled
    /\ push_back(EmptyLine)
    /\ UNCHANGED <<cmd, reader>>

OutOfMemory ==
    /\ Listing /\ stream = "fail" /\ Filled
    /\ stage' = "crashed"
    /\ UNCHANGED <<cmd, text, stream, lists>>

Tracing == stage = "dop-dyn" /\ stream = "good"

(* Slip: a function keeps its first line.                                   *)
EnterFirst(name, lineno) ==
    temp_map' = IF temp_map[name] = Zero THEN [temp_map EXCEPT ![name] = lineno] ELSE temp_map

Enter(name, lineno) == temp_map' = [temp_map EXCEPT ![name] = lineno]

(* Slip: the end sets the fail bit only.                                    *)
ReadNoPairFailing ==
    /\ Tracing
    /\ DropBlank(text) = <<>>
    /\ text' = <<>> /\ stream' = "fail"
    /\ UNCHANGED <<cmd, stage, lists>>

(* The extraction of the name meets the end: nothing is entered.            *)
ReadNoPair ==
    /\ Tracing
    /\ DropBlank(text) = <<>>
    /\ text' = <<>> /\ stream' = "eof"
    /\ UNCHANGED <<cmd, stage, lists>>

(* A name and a number, on one line or not.  The end of the file is noticed *)
(* with the number only if no newline follows it.                           *)
ReadPair ==
    /\ Tracing
    /\ DropBlank(text) # <<>>
    /\ LET rest == DropBlank(Tail(DropBlank(text)))
       IN  /\ rest # <<>> /\ Head(rest) \in Numbers
           /\ Enter(Head(DropBlank(text)), Head(rest))
           /\ text' = Tail(rest)
           /\ stream' = IF Tail(rest) = <<>> THEN "eof" ELSE "good"
    /\ UNCHANGED <<cmd, stage, functionList, vulnFuncList>>

(* A name without a number enters 0.  At the end of the file this is the    *)
(* last pair; before another word the stream has failed, and from then on   *)
(* the loop goes round without reading and without ending: no step is left. *)
ReadLoneName ==
    /\ Tracing
    /\ DropBlank(text) # <<>>
    /\ LET rest == DropBlank(Tail(DropBlank(text)))
       IN  /\ rest # <<>> => Head(rest) \notin Numbers
           /\ Enter(Head(DropBlank(text)), Zero)
           /\ text' = rest
           /\ stream' = IF rest = <<>> THEN "eof" ELSE "fail"
    /\ UNCHANGED <<cmd, stage, functionList, vulnFuncList>>

Close ==
    /\ stage \in Readers /\ stream = "eof"
    /\ stage' = After[stage]
    /\ stream' = "closed" /\ text' = <<>>
    /\ UNCHANGED <<cmd, lists>>

TakeOptions ==
    \/ Danger \/ Begin \/ SkipOption \/ Open
    \/ GetLine \/ GetNothing \/ OutOfMemory
    \/ ReadNoPair \/ ReadPair \/ ReadLoneName
    \/ Close

------------------------------------------------------------------------------
(* What the files say, without the order of reading.                        *)
TheLines(file) ==
    LET ends == {0, Len(file) + 1} \cup {n \in DOMAIN file : file[n] = Newline}
    IN  {Line(SubSeq(file, p[1] + 1, p[2] - 1)) :
           p \in {q \in ends \X ends : q[1] < q[2] /\ \A e \in ends : e <= q[1] \/ e >= q[2]}}

(* Every second word of a trace, the first included, names a function.      *)
WordsTo(file, n) == {m \in 1..n : file[m] # Newline}
WordAt(file, n) == n \in DOMAIN file /\ file[n] # Newline
NameAt(file, n) == WordAt(file, n) /\ Cardinality(WordsTo(file, n)) % 2 = 1

(* In a well-formed trace the others are numbers.                           *)
WellFormed(file) ==
    /\ file # Unreadable
    /\ \A n \in DOMAIN file : WordAt(file, n) /\ ~NameAt(file, n) => file[n] \in Numbers

(* The word that follows the last mention of a function.                    *)
LineIn(file, g) ==
    LET mentions == {n \in DOMAIN file : NameAt(file, n) /\ file[n] = g}
        last == CHOOSE n \in mentions : \A m \in mentions : m <= n
        later == {n \in DOMAIN file : WordAt(file, n) /\ n > last}
        next == CHOOSE n \in later : \A m \in later : n <= m
    IN  IF mentions = {} \/ later = {} THEN Zero ELSE file[next]
==============================================================================
