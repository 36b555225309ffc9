------------------------------ MODULE CmdLine ------------------------------
(***************************************************************************)
(* The command line (parse_cmd_flags of PietraLang.cpp).  The words are    *)
(* chosen as they are shifted off argv, so argc is how many are left.      *)
(* The names CmdInit, CmdNext and so on leave Init and Next to the back    *)
(* end, the other end of main, which the proofs are about as well.         *)
(***************************************************************************)
EXTENDS Integers, Sequences

CONSTANTS
    MaxWords,    \* the bound on the words after the name of the program
    Paths        \* words that are no option and no target that is allowed

VARIABLES
    argc,              \* the words left
    out_p, in_p,       \* cmd_flags
    target_arch_str,
    stage,             \* "parsing", "audit" or "done"
    status,            \* what parse_cmd_flags returns
    read               \* history: the options read, each with what came of it

cmdVars == <<argc, out_p, in_p, target_arch_str, stage, status, read>>

ASSUME WordsAssumption ==
    /\ MaxWords \in Nat
    /\ \A w \in Paths : w \notin {"nullptr", "a.out", "-o", "-h", "-t", "bin", "wasm"}

allowed_target_arch_str == {"bin", "wasm"}
OUT_FLAG    == "-o"    \* or --output
TARGET_FLAG == "-t"    \* or --target
HELP_FLAG   == "-h"    \* or --help
Words       == {OUT_FLAG, TARGET_FLAG, HELP_FLAG} \cup allowed_target_arch_str \cup Paths

flags == <<out_p, in_p, target_arch_str>>
-----------------------------------------------------------------------------
\* The name of the program has been shifted.
CmdInit ==
    /\ argc \in 0..MaxWords
    /\ out_p = "a.out" /\ in_p = "nullptr" /\ target_arch_str = "bin"
    /\ stage = "parsing" /\ status = "none" /\ read = <<>>

Shifted(n) == argc' = argc - n
Reads(flag, operand, ok) == read' = Append(read, [flag |-> flag, operand |-> operand, ok |-> ok])

\* parse_cmd_flag has no return at its end: what comes back to the loop is not
\* determined, and can be EXIT_FAILURE.
Returned   == stage' \in {"parsing", "audit"} /\ UNCHANGED status
CarryOn    == stage' = "parsing" /\ UNCHANGED status   \* mutant: the loop goes on after an error
Failed     == stage' = "audit" /\ UNCHANGED status
Option     == stage = "parsing" /\ argc > 0

UncheckedOutput ==    \* mutant: the operand is shifted without a look at argc
    /\ Option /\ Shifted(2) /\ Returned
    /\ \E w \in Words : in_p' = w /\ Reads(OUT_FLAG, w, TRUE)
    /\ UNCHANGED <<out_p, target_arch_str>>
OutputFlag ==
    /\ Option /\ argc >= 2 /\ Shifted(2) /\ Returned
    /\ \E w \in Words : in_p' = w /\ Reads(OUT_FLAG, w, TRUE)
    /\ UNCHANGED <<out_p, target_arch_str>>

TargetFlag ==
    /\ Option /\ argc >= 2 /\ Shifted(2) /\ Returned
    /\ \E w \in allowed_target_arch_str : target_arch_str' = w /\ Reads(TARGET_FLAG, w, TRUE)
    /\ UNCHANGED <<out_p, in_p>>

BadTarget ==
    /\ Option /\ argc >= 2 /\ Shifted(2) /\ Failed
    /\ \E w \in Words \ allowed_target_arch_str :
         target_arch_str' = w /\ Reads(TARGET_FLAG, w, FALSE)
    /\ UNCHANGED <<out_p, in_p>>

NoOperand ==
    /\ Option /\ argc = 1 /\ Shifted(1) /\ Failed
    /\ \E flag \in {OUT_FLAG, TARGET_FLAG} : Reads(flag, "nullptr", FALSE)
    /\ UNCHANGED flags

HelpOrUnknown ==
    /\ Option /\ Shifted(1) /\ Failed
    /\ \E flag \in Words \ {OUT_FLAG, TARGET_FLAG} : Reads(flag, "nullptr", FALSE)
    /\ UNCHANGED flags

AllRead ==
    /\ stage = "parsing" /\ argc = 0 /\ stage' = "audit"
    /\ UNCHANGED <<argc, flags, status, read>>

\* audit_flags, and the end of parse_cmd_flags
Audit ==
    /\ stage = "audit" /\ stage' = "done"
    /\ status' = IF in_p # "nullptr" /\ argc = 0 THEN "EXIT_SUCCESS" ELSE "EXIT_FAILURE"
    /\ UNCHANGED <<argc, flags, read>>

CmdNext ==
    \/ OutputFlag \/ TargetFlag \/ BadTarget \/ NoOperand \/ HelpOrUnknown \/ AllRead \/ Audit

CmdSpec == CmdInit /\ [][CmdNext]_cmdVars
-----------------------------------------------------------------------------
Success == stage = "done" /\ status = "EXIT_SUCCESS"

\* Types of the state.
CmdTypeOK ==
    /\ argc \in 0..MaxWords /\ Len(read) <= MaxWords
    /\ out_p \in {"a.out"} \cup Words /\ in_p \in {"nullptr"} \cup Words
    /\ target_arch_str \in Words
    /\ stage \in {"parsing", "audit", "done"} /\ status \in {"none", "EXIT_SUCCESS", "EXIT_FAILURE"}

\* The loop stops at the first option that is wrong, wherever it is found out:
\* no word after it is read, and none changes what the options before it set.
StopsAtError ==
    [][(\E i \in DOMAIN read : ~read[i].ok) => UNCHANGED <<argc, flags, read>>]_cmdVars
-----------------------------------------------------------------------------
\* The comment where -h returns, "to stop further steps on compilation": a
\* command line with an -h in it is not accepted.
HelpStops == Success => \A i \in DOMAIN read : read[i].flag # HELP_FLAG
=============================================================================
