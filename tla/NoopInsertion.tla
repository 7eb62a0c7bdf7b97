---------------------------- MODULE NoopInsertion ----------------------------
(***************************************************************************)
(* llvm/NoopInsertion: the way of the flag from a command line to the code  *)
(* generator, and the machine pass that puts a no-op in front of each block. *)
(***************************************************************************)
EXTENDS IRModule

CONSTANT Invocations   \* command lines of llc, clang -cc1 and clang

VARIABLES
    command,   \* the command line being run, one of Invocations at first
    flag,      \* what its parser has stored: llc's cl::opt, the front end's
               \* CodeGenOpts.NoopInsertion
    option,    \* TargetOptions.NoopInsertion
    noops      \* the no-ops in front of each block, by function

Tools == {"llc", "clang -cc1", "clang"}

IsInvocation(inv) == inv.tool \in Tools /\ inv.flags \in Seq(STRING)

ASSUME InvocationsAssumption == \A inv \in Invocations : IsInvocation(inv)

(* The flags each tool knows.                                               *)
Known(tool) ==
    CASE tool = "llc" -> {"-noop-insertion"}
      [] tool = "clang -cc1" -> {"-mnoop-insertion"}
      [] tool = "clang" -> {"-fnoop-insertion", "-fno-noop-insertion"}

(* llc's parser takes a flag once, clang's as often as it is given.         *)
IsAccepted(inv) ==
    /\ ToSet(inv.flags) \subseteq Known(inv.tool)
    /\ inv.tool = "llc" => Len(inv.flags) <= 1

------------------------------------------------------------------------------
(* The driver starts the front end on a command line of its own.  The patch *)
(* adds none of its flags to it: of all jobs, only that of XCore's          *)
(* assembler, which generates no code, is told of -fnoop-insertion.         *)
RunFrontEnd ==
    /\ command.tool = "clang" /\ IsAccepted(command)
    /\ command' = [tool |-> "clang -cc1", flags |-> <<>>]
    /\ UNCHANGED <<flag, option, noops>>

(* The cl::opt of llc.                                                      *)
ParseCommandLineOptions ==
    /\ command.tool = "llc" /\ IsAccepted(command)
    /\ flag' = ("-noop-insertion" \in ToSet(command.flags))
    /\ UNCHANGED <<command, option, noops>>

(* The front end's CodeGenOpts.                                             *)
ParseCodeGenArgs ==
    /\ command.tool = "clang -cc1" /\ IsAccepted(command)
    /\ flag' = ("-mnoop-insertion" \in ToSet(command.flags))
    /\ UNCHANGED <<command, option, noops>>

(* What the parsers have stored is copied into the options of the target.   *)
InitTargetOptionsFromCodeGenFlags ==
    /\ command.tool = "llc"
    /\ option' = flag
    /\ UNCHANGED <<command, flag, noops>>

(* Slip: the line that copies the option is left out.                       *)
initTargetOptionsAsBefore ==
    /\ command.tool = "clang -cc1"
    /\ UNCHANGED <<command, flag, option, noops>>

initTargetOptions ==
    /\ command.tool = "clang -cc1"
    /\ option' = flag
    /\ UNCHANGED <<command, flag, noops>>

(* The pass is part of the code generator only if the option is set, and    *)
(* runs on each function that has code.                                     *)
EmitFunction(F) ==
    /\ noops' = [name \in DOMAIN noops \cup {F.name} |->
                   IF name = F.name THEN [b \in DOMAIN F.blocks |-> IF option THEN 1 ELSE 0]
                   ELSE noops[name]]
    /\ UNCHANGED <<command, flag, option>>
==============================================================================
