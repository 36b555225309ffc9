------------------------------ MODULE Backend ------------------------------
(***************************************************************************)
(* From the LLVM module to a file that can be run (compilerLLVM.cpp, the   *)
(* TemporaryFile of common.cpp, and the end of main), and the files that   *)
(* one build leaves to the next.  The process can be killed anywhere; the  *)
(* files stay, and another build is started beside them.                   *)
(*                                                                         *)
(* A file is absent, "new" when it is of the module of this build and      *)
(* whole, "old" when it is of an earlier build or cut short.               *)
(***************************************************************************)
EXTENDS Naturals

CONSTANT Kinds     \* the values of IR_out_kind builds are made with

ASSUME KindsAssumption == Kinds \subseteq {"TO_NONE", "TO_WASM", "TO_BIN"}

VARIABLES
    ir,          \* the file a.out, which tmpIR names
    obj,         \* the file a.out.TMP.o, which tmpMiddle names
    wasm,        \* the file a.out.wasm
    exe,         \* the file pietra_out.exe
    tmpIR,       \* tmpIR.isSet
    tmpMiddle,   \* tmpMiddle.isSet
    kind,        \* IR_out_kind
    result,      \* what compile returns
    failed,      \* history: a command of this build failed
    pc           \* where the process is; "none" when there is no process

files == <<ir, obj, wasm, exe>>
vars  == <<files, tmpIR, tmpMiddle, kind, result, failed, pc>>

FileStates   == {"absent", "old", "new"}
EXIT_SUCCESS == 0
EXIT_FAILURE == 1

\* What system() returns: zero, or, for a command that fails, EXIT_FAILURE or
\* another number (the status of a POSIX wait, a code of the command's own).
Failures == {EXIT_FAILURE, 2}

At(here, next) == pc = here /\ pc' = next
Age(f)         == IF f = "new" THEN "old" ELSE f
-----------------------------------------------------------------------------
Init ==
    /\ ir \in {"absent", "old"} /\ obj \in {"absent", "old"}
    /\ wasm \in {"absent", "old"} /\ exe \in {"absent", "old"}
    /\ tmpIR = FALSE /\ tmpMiddle = FALSE /\ kind \in Kinds
    /\ result = EXIT_SUCCESS /\ failed = FALSE /\ pc = "none"

Start ==
    /\ pc \in {"none", "killed"} /\ pc' = "verify"
    /\ ir' = Age(ir) /\ obj' = Age(obj) /\ wasm' = Age(wasm) /\ exe' = Age(exe)
    /\ tmpIR' = FALSE /\ tmpMiddle' = FALSE /\ kind' \in Kinds
    /\ result' = EXIT_SUCCESS /\ failed' = FALSE

\* compile_module_to_LLVM_IR and prepare_compilation
VerifyModule ==
    /\ \/ At("verify", "create") /\ UNCHANGED result
       \/ At("verify", "return") /\ result' = EXIT_FAILURE
    /\ UNCHANGED <<files, tmpIR, tmpMiddle, kind, failed>>

\* TemporaryFile::create: the value it returns is copied and destroyed, and its
\* destructor removes the file.
Kept(f)    == f          \* mutant: the value returned is moved from, and removes nothing
Touched(f) == "empty"    \* mutant: the file is opened when it is named
Create(f)  == "absent"

CreateIR ==
    /\ At("create", "open") /\ ir' = Create(ir) /\ tmpIR' = TRUE
    /\ UNCHANGED <<obj, wasm, exe, tmpMiddle, kind, result, failed>>

NamedLast ==    \* mutant: the file is named once it is written, and so removed
    /\ \/ At("open", "target") /\ ir' = Create("new") /\ UNCHANGED result
       \/ At("open", "return") /\ UNCHANGED ir /\ result' = EXIT_FAILURE
    /\ UNCHANGED <<obj, wasm, exe, tmpIR, tmpMiddle, kind, failed>>
PrintIR ==
    /\ \/ At("open", "target") /\ ir' = "new" /\ UNCHANGED result
       \/ At("open", "return") /\ UNCHANGED ir /\ result' = EXIT_FAILURE
    /\ UNCHANGED <<obj, wasm, exe, tmpIR, tmpMiddle, kind, failed>>
-----------------------------------------------------------------------------
\* A command that makes the file `to` out of the file `from`: it needs `from`,
\* and when it fails it leaves `to` alone or removes it.
Command(from, to, made, r, fails) ==
    \/ from # "absent" /\ made = from /\ r = EXIT_SUCCESS /\ fails = failed
    \/ made \in {to, "absent"} /\ r \in Failures /\ fails = TRUE

\* compile_to_target.  Of the two commands of a binary only the second is
\* asked for its result.
CompileToWasm ==
    /\ At("target", "return") /\ kind = "TO_WASM"
    /\ Command(ir, wasm, wasm', result', failed')
    /\ UNCHANGED <<ir, obj, exe, tmpIR, tmpMiddle, kind>>

CreateMiddle ==
    /\ At("target", "llc") /\ kind # "TO_WASM"
    /\ obj' = Create(obj) /\ tmpMiddle' = TRUE
    /\ UNCHANGED <<ir, wasm, exe, tmpIR, kind, result, failed>>

CompileToObject ==
    /\ At("llc", "clang")
    /\ \E ignored \in {EXIT_SUCCESS, EXIT_FAILURE} : Command(ir, obj, obj', ignored, failed')
    /\ UNCHANGED <<ir, wasm, exe, tmpIR, tmpMiddle, kind, result>>

LinkNothing == At("clang", "return") /\ result' = EXIT_SUCCESS  \* mutant: the link is not looked at either
                 /\ exe' \in {exe, obj} /\ UNCHANGED <<ir, obj, wasm, tmpIR, tmpMiddle, kind, failed>>
Link ==
    /\ At("clang", "return") /\ Command(obj, exe, exe', result', failed')
    /\ UNCHANGED <<ir, obj, wasm, tmpIR, tmpMiddle, kind>>
-----------------------------------------------------------------------------
\* The end of main: only EXIT_FAILURE is an error.
Report ==
    /\ \/ At("return", "exit") /\ result = EXIT_FAILURE
       \/ At("return", "mounted") /\ result # EXIT_FAILURE
    /\ UNCHANGED <<files, tmpIR, tmpMiddle, kind, result, failed>>

RunExecutable == At("mounted", "exit") /\ UNCHANGED <<files, tmpIR, tmpMiddle, kind, result, failed>>

\* The destructor of cstats removes the files its members name.
Destroy(set, f) == IF set THEN "absent" ELSE f

Exit ==
    /\ At("exit", "none")
    /\ ir' = Destroy(tmpIR, ir) /\ obj' = Destroy(tmpMiddle, obj)
    /\ UNCHANGED <<wasm, exe, tmpIR, tmpMiddle, kind, result, failed>>

\* The process is killed, and what it or a command was writing is cut short.
Cut(f, here) == IF pc = here THEN {f, "old"} ELSE {f}

Kill ==
    /\ pc \notin {"none", "killed"} /\ pc' = "killed"
    /\ ir' \in Cut(ir, "open") /\ obj' \in Cut(obj, "llc")
    /\ wasm' \in Cut(wasm, "target") /\ exe' \in Cut(exe, "clang")
    /\ UNCHANGED <<tmpIR, tmpMiddle, kind, result, failed>>

Next ==
    \/ Start \/ VerifyModule \/ CreateIR \/ PrintIR \/ CompileToWasm \/ CreateMiddle
    \/ CompileToObject \/ Link \/ Report \/ RunExecutable \/ Exit \/ Kill

Spec == Init /\ [][Next]_vars
-----------------------------------------------------------------------------
\* Types of the state.
TypeOK ==
    /\ ir \in FileStates /\ obj \in FileStates /\ wasm \in FileStates /\ exe \in FileStates
    /\ tmpIR \in BOOLEAN /\ tmpMiddle \in BOOLEAN /\ kind \in Kinds /\ failed \in BOOLEAN
    /\ result \in {EXIT_SUCCESS} \cup Failures
    /\ pc \in {"none", "verify", "create", "open", "target", "llc", "clang", "return",
               "mounted", "exit", "killed"}

\* Although the result of llc is not looked at, clang is never given an object
\* file of an earlier build, whatever a build that was killed left behind.
LinksThisModule == pc = "clang" => obj # "old"

\* When compile returns zero, the file that was asked for is of this module.
ZeroIsBuilt ==
    pc \in {"return", "mounted"} /\ result = EXIT_SUCCESS
        => "new" = IF kind = "TO_WASM" THEN wasm ELSE exe

\* The temporary files last as long as they are needed and no longer: the
\* command that reads one finds the whole of this build's in it, unless the
\* command that was to make it failed, and a build that was not killed leaves
\* nothing of its own in them.
TemporariesLast ==
    /\ pc \in {"target", "llc"} => ir = "new"
    /\ pc = "clang" /\ ~failed => obj = "new"
    /\ pc = "none" => ir # "new" /\ obj # "new"

\* A command that failed is not covered up by one that succeeds after it: the
\* result of the build is not zero.  (It can be a number that main does not take
\* for a failure.)
FailureShows == pc \in {"return", "mounted"} /\ failed => result # EXIT_SUCCESS
=============================================================================
