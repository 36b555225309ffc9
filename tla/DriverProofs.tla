---------------------------- MODULE DriverProofs ---------------------------
(***************************************************************************)
(* Proofs about the two ends of a run of the compiler: its command line    *)
(* and the files it leaves.                                                *)
(*                                                                         *)
(* On a command line of any length nothing is read after an option that    *)
(* was wrong.  What makes it inductive: while the loop runs no option has  *)
(* been wrong.                                                             *)
(*                                                                         *)
(* A build is bounded by nothing here: any number of builds follow one     *)
(* another, each killed anywhere.  The strengthening says, of each place a *)
(* process can be in, what it has made so far: its own IR until llc has    *)
(* read it, no object file or its own at the link, and a file named by a   *)
(* temporary wherever it has made one.                                     *)
(***************************************************************************)
EXTENDS Driver, TLAPS

ReadOptions == [flag : Words, operand : Words \cup {"nullptr"}, ok : BOOLEAN]

CmdTyped ==
    /\ CmdTypeOK
    /\ read \in Seq(ReadOptions) /\ argc + Len(read) <= MaxWords

RightSoFar == stage = "parsing" => \A i \in 1..Len(read) : read[i].ok

CmdInv == CmdTyped /\ RightSoFar
-----------------------------------------------------------------------------
LEMMA CmdInvInit == CmdInit => CmdInv
  BY WordsAssumption DEF CmdInit, CmdTypeOK, Words,
         allowed_target_arch_str, CmdInv, CmdTyped, RightSoFar

(***************************************************************************)
(* Reading one more option, right unless it is the last.                   *)
(***************************************************************************)
LEMMA OneMore ==
    ASSUME CmdInv, stage = "parsing", NEW e \in ReadOptions,
           read' = Append(read, e), stage' \in {"parsing", "audit"}, stage' = "parsing" => e.ok,
           argc' \in 0..argc - 1, status' = status, out_p' = out_p,
           in_p' \in {"nullptr"} \cup Words, target_arch_str' \in Words
    PROVE  CmdInv'
  <1>1. /\ read \in Seq(ReadOptions) /\ read' \in Seq(ReadOptions)
        /\ Len(read') = Len(read) + 1 /\ read'[Len(read')] = e
        /\ \A i \in 1..Len(read) : read'[i] = read[i]
    BY DEF CmdInv, CmdTyped
  <1>2. CmdTyped'
    BY <1>1, WordsAssumption DEF CmdInv, CmdTyped, CmdTypeOK
  <1>3. RightSoFar'
    BY <1>1 DEF CmdInv, RightSoFar
  <1> QED
    BY <1>2, <1>3 DEF CmdInv

LEMMA CmdInvStep == ASSUME CmdInv, [CmdNext]_cmdVars PROVE CmdInv'
  <1>1. /\ OUT_FLAG \in Words /\ TARGET_FLAG \in Words
        /\ allowed_target_arch_str \subseteq Words
    BY DEF Words
  <1>2. /\ argc \in Nat /\ in_p \in {"nullptr"} \cup Words
        /\ target_arch_str \in Words
    BY DEF CmdInv, CmdTyped, CmdTypeOK
  <1>3. CASE OutputFlag
    <2>1. PICK w \in Words : in_p' = w /\ Reads(OUT_FLAG, w, TRUE)
      BY <1>3 DEF OutputFlag
    <2> DEFINE e == [flag |-> OUT_FLAG, operand |-> w, ok |-> TRUE]
    <2>2. e \in ReadOptions /\ read' = Append(read, e) /\ e.ok
      BY <1>1, <2>1 DEF ReadOptions, Reads
    <2>3. /\ stage = "parsing" /\ stage' \in {"parsing", "audit"} /\ argc' \in 0..argc - 1
          /\ status' = status /\ out_p' = out_p /\ target_arch_str' = target_arch_str
      BY <1>2, <1>3 DEF OutputFlag, Option, Shifted, Returned
    <2> QED
      BY <1>2, <2>1, <2>2, <2>3, OneMore
  <1>4. CASE TargetFlag
    <2>1. PICK w \in allowed_target_arch_str :
            target_arch_str' = w /\ Reads(TARGET_FLAG, w, TRUE)
      BY <1>4 DEF TargetFlag
    <2> DEFINE e == [flag |-> TARGET_FLAG, operand |-> w, ok |-> TRUE]
    <2>2. /\ e \in ReadOptions /\ read' = Append(read, e) /\ e.ok
          /\ target_arch_str' \in Words
      BY <1>1, <2>1 DEF ReadOptions, Reads
    <2>3. /\ stage = "parsing" /\ stage' \in {"parsing", "audit"} /\ argc' \in 0..argc - 1
          /\ status' = status /\ out_p' = out_p /\ in_p' = in_p
      BY <1>2, <1>4 DEF TargetFlag, Option, Shifted, Returned
    <2> QED
      BY <1>2, <2>2, <2>3, OneMore
  <1>5. CASE BadTarget
    <2>1. PICK w \in Words :
            target_arch_str' = w /\ Reads(TARGET_FLAG, w, FALSE)
      BY <1>5 DEF BadTarget
    <2> DEFINE e == [flag |-> TARGET_FLAG, operand |-> w, ok |-> FALSE]
    <2>2. /\ e \in ReadOptions /\ read' = Append(read, e)
          /\ target_arch_str' \in Words
      BY <1>1, <2>1 DEF ReadOptions, Reads
    <2>3. /\ stage = "parsing" /\ stage' = "audit" /\ argc' \in 0..argc - 1
          /\ status' = status /\ out_p' = out_p /\ in_p' = in_p
      BY <1>2, <1>5 DEF BadTarget, Option, Shifted, Failed
    <2> QED
      BY <1>2, <2>2, <2>3, OneMore
  <1>6. CASE NoOperand \/ HelpOrUnknown
    <2>1. PICK flag \in Words : Reads(flag, "nullptr", FALSE)
      BY <1>1, <1>6 DEF NoOperand, HelpOrUnknown
    <2> DEFINE e == [flag |-> flag, operand |-> "nullptr", ok |-> FALSE]
    <2>2. e \in ReadOptions /\ read' = Append(read, e)
      BY <2>1 DEF ReadOptions, Reads
    <2>3. /\ stage = "parsing" /\ stage' = "audit" /\ argc' \in 0..argc - 1 /\ status' = status
          /\ out_p' = out_p /\ in_p' = in_p /\ target_arch_str' = target_arch_str
      <3>1. CASE NoOperand
        BY <1>2, <3>1 DEF NoOperand, Option, Shifted, Failed,
                          flags
      <3>2. CASE HelpOrUnknown
        BY <1>2, <3>2 DEF HelpOrUnknown, Option, Shifted, Failed,
                          flags
      <3> QED
        BY <1>6, <3>1, <3>2
    <2> QED
      BY <1>2, <2>2, <2>3, OneMore
  <1>7. CASE AllRead
    BY <1>7 DEF AllRead, flags, CmdTypeOK, CmdInv, CmdTyped, RightSoFar
  <1>8. CASE Audit
    BY <1>8 DEF Audit, flags, CmdTypeOK, CmdInv, CmdTyped, RightSoFar
  <1>9. CASE UNCHANGED cmdVars
    BY <1>9 DEF cmdVars, flags, CmdTypeOK, CmdInv, CmdTyped, RightSoFar
  <1> QED
    BY <1>3, <1>4, <1>5, <1>6, <1>7, <1>8, <1>9 DEF CmdNext

(***************************************************************************)
(* The words left and the options read never exceed the command line, and  *)
(* the flags are only given words of it.                                   *)
(***************************************************************************)
THEOREM CmdLineIsTyped == CmdSpec => []CmdTypeOK
  <1>1. CmdInv => CmdTypeOK
    BY DEF CmdInv, CmdTyped
  <1> QED
    BY CmdInvInit, CmdInvStep, <1>1, PTL DEF CmdSpec

(***************************************************************************)
(* On a command line of any length an option that is wrong is the last one *)
(* that is read: parse_cmd_flag finds it out at many places, and the loop  *)
(* of its caller stops for each of them.                                   *)
(***************************************************************************)
THEOREM NothingReadAfterError == CmdSpec => StopsAtError
  <1>1. ASSUME CmdInv, [CmdNext]_cmdVars, \E i \in DOMAIN read : ~read[i].ok
        PROVE  UNCHANGED <<argc, flags, read>>
    <2>1. DOMAIN read = 1..Len(read)
      BY <1>1 DEF CmdInv, CmdTyped
    <2>2. stage # "parsing"
      BY <1>1, <2>1 DEF CmdInv, RightSoFar
    <2>3. Audit \/ UNCHANGED cmdVars
      BY <1>1, <2>2 DEF CmdNext, OutputFlag, TargetFlag, BadTarget, NoOperand, HelpOrUnknown,
                        AllRead, Option
    <2> QED
      BY <2>3 DEF Audit, cmdVars, flags
  <1> QED
    BY CmdInvInit, CmdInvStep, <1>1, PTL DEF CmdSpec, StopsAtError
-----------------------------------------------------------------------------
ObjectIsNotOld ==
    /\ pc = "llc" => obj = "absent"
    /\ pc = "clang" => obj # "old"

Named ==
    /\ pc \in {"open", "target", "llc", "clang"} => tmpIR
    /\ pc \in {"llc", "clang"} => tmpMiddle /\ kind # "TO_WASM"
    /\ pc \notin {"none", "killed"} /\ ir = "new" => tmpIR
    /\ pc \notin {"none", "killed"} /\ obj = "new" => tmpMiddle

\* A failure before the link is llc's, and then there is no object file.
FailedBefore ==
    /\ pc \in {"verify", "create", "open", "target", "llc"} => ~failed
    /\ pc = "clang" /\ failed => obj = "absent"

IInv == TypeOK /\ ObjectIsNotOld /\ Named /\ ZeroIsBuilt /\ TemporariesLast
          /\ FailedBefore /\ FailureShows

-----------------------------------------------------------------------------
LEMMA IInvInit == Init => IInv
  BY DEF Init, IInv, TypeOK, ObjectIsNotOld, Named, ZeroIsBuilt, TemporariesLast,
         FailedBefore, FailureShows,
         FileStates, Failures, EXIT_SUCCESS, EXIT_FAILURE

USE DEF At, files, EXIT_SUCCESS, EXIT_FAILURE, Failures, FileStates

LEMMA IInvStep == ASSUME IInv, [Next]_vars PROVE IInv'
  <1> USE DEF IInv, TypeOK, ObjectIsNotOld, Named, ZeroIsBuilt, TemporariesLast,
              FailedBefore, FailureShows
  <1>1. CASE Start
    BY <1>1 DEF Start, Age
  <1>2. CASE VerifyModule
    BY <1>2 DEF VerifyModule
  <1>3. CASE CreateIR
    BY <1>3 DEF CreateIR, Create
  <1>4. CASE PrintIR
    <2>1. TypeOK'
      BY <1>4 DEF PrintIR
    <2>2. ObjectIsNotOld'
      BY <1>4 DEF PrintIR
    <2>3. Named'
      BY <1>4 DEF PrintIR
    <2>4. ZeroIsBuilt'
      BY <1>4 DEF PrintIR
    <2>5. TemporariesLast'
      BY <1>4 DEF PrintIR
    <2>6. FailedBefore'
      BY <1>4 DEF PrintIR
    <2>7. FailureShows'
      BY <1>4 DEF PrintIR
    <2> QED
      BY <2>1, <2>2, <2>3, <2>4, <2>5, <2>6, <2>7
  <1>5. CASE CompileToWasm
    <2>1. TypeOK'
      BY <1>5 DEF CompileToWasm, Command
    <2>2. ObjectIsNotOld'
      BY <1>5 DEF CompileToWasm, Command
    <2>3. Named'
      BY <1>5 DEF CompileToWasm, Command
    <2>4. ZeroIsBuilt'
      BY <1>5 DEF CompileToWasm, Command
    <2>5. TemporariesLast'
      BY <1>5 DEF CompileToWasm, Command
    <2>6. FailedBefore'
      BY <1>5 DEF CompileToWasm, Command
    <2>7. FailureShows'
      <3>1. CASE ir # "absent" /\ wasm' = ir /\ result' = 0 /\ failed' = failed
        <4>1. ~failed
          BY <1>5, <3>1 DEF CompileToWasm
        <4> QED
          BY <4>1, <3>1
      <3>2. CASE result' \in Failures
        BY <3>2
      <3> QED
        BY <1>5, <3>1, <3>2 DEF CompileToWasm, Command
    <2> QED
      BY <2>1, <2>2, <2>3, <2>4, <2>5, <2>6, <2>7
  <1>6. CASE CreateMiddle
    BY <1>6 DEF CreateMiddle, Create
  <1>7. CASE CompileToObject
    <2>1. TypeOK'
      BY <1>7 DEF CompileToObject, Command
    <2>2. ObjectIsNotOld'
      BY <1>7 DEF CompileToObject, Command
    <2>3. Named'
      BY <1>7 DEF CompileToObject, Command
    <2>4. ZeroIsBuilt'
      BY <1>7 DEF CompileToObject, Command
    <2>5. TemporariesLast'
      BY <1>7 DEF CompileToObject, Command
    <2>6. FailedBefore'
      BY <1>7 DEF CompileToObject, Command
    <2>7. FailureShows'
      BY <1>7 DEF CompileToObject, Command
    <2> QED
      BY <2>1, <2>2, <2>3, <2>4, <2>5, <2>6, <2>7
  <1>8. CASE Link
    <2>1. TypeOK'
      BY <1>8 DEF Link, Command
    <2>2. ObjectIsNotOld'
      BY <1>8 DEF Link, Command
    <2>3. Named'
      BY <1>8 DEF Link, Command
    <2>4. ZeroIsBuilt'
      BY <1>8 DEF Link, Command
    <2>5. TemporariesLast'
      BY <1>8 DEF Link, Command
    <2>6. FailedBefore'
      BY <1>8 DEF Link, Command
    <2>7. FailureShows'
      <3>1. CASE obj # "absent" /\ exe' = obj /\ result' = 0 /\ failed' = failed
        <4>1. ~failed
          BY <1>8, <3>1 DEF Link
        <4> QED
          BY <4>1, <3>1
      <3>2. CASE result' \in Failures
        BY <3>2
      <3> QED
        BY <1>8, <3>1, <3>2 DEF Link, Command
    <2> QED
      BY <2>1, <2>2, <2>3, <2>4, <2>5, <2>6, <2>7
  <1>9. CASE Report \/ RunExecutable
    BY <1>9 DEF Report, RunExecutable
  <1>10. CASE Exit
    BY <1>10 DEF Exit, Destroy
  <1>11. CASE Kill
    BY <1>11 DEF Kill, Cut
  <1>12. CASE UNCHANGED vars
    BY <1>12 DEF vars
  <1> QED
    BY <1>1, <1>2, <1>3, <1>4, <1>5, <1>6, <1>7, <1>8, <1>9, <1>10, <1>11, <1>12 DEF Next

LEMMA IInvAlways == Spec => []IInv
  BY IInvInit, IInvStep, PTL DEF Spec
-----------------------------------------------------------------------------
\* The state of the builds has its types.
THEOREM BackendTypeCorrect == Spec => []TypeOK
  BY IInvAlways, PTL DEF IInv

(***************************************************************************)
(* However many builds were killed before, and wherever, clang is never    *)
(* given an object file of an earlier build.                               *)
(***************************************************************************)
THEOREM LinksOwnObject == Spec => []LinksThisModule
  <1>1. IInv => LinksThisModule
    BY DEF IInv, ObjectIsNotOld, LinksThisModule
  <1> QED
    BY IInvAlways, <1>1, PTL

\* A result of zero means that the file asked for is of the module compiled.
THEOREM ZeroMeansBuilt == Spec => []ZeroIsBuilt
  BY IInvAlways, PTL DEF IInv

\* Every command finds whole what the one before it made, and a build that
\* ends by itself leaves no temporary file of its own.
THEOREM TemporariesLastAsNeeded == Spec => []TemporariesLast
  BY IInvAlways, PTL DEF IInv

\* A failure of a command shows in the result, whatever is run after it.
THEOREM FailureNotCovered == Spec => []FailureShows
  BY IInvAlways, PTL DEF IInv
-----------------------------------------------------------------------------
(***************************************************************************)
(* main is one end after the other: what is proved of the command line and *)
(* of the back end holds of the whole.                                     *)
(***************************************************************************)
THEOREM DriverRunsBoth == DriverSpec => CmdSpec /\ Spec
  <1>1. DriverInit => CmdInit /\ Init
    BY DEF DriverInit
  <1>2. [DriverNext]_<<cmdVars, vars>> => [CmdNext]_cmdVars /\ [Next]_vars
    BY DEF DriverNext, ParseCmdFlags, Build
  <1> QED
    BY <1>1, <1>2, PTL DEF DriverSpec, CmdSpec, Spec
=============================================================================
