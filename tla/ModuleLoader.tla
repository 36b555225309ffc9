----------------------------- MODULE ModuleLoader -----------------------------
(***************************************************************************)
(* The imports of a program: compile_module and compile_decl_use of        *)
(* declCompiler.cpp with the ModuleManager of scopes.cpp and the           *)
(* constructor of Module.  A use declaration reads and parses a file and   *)
(* compiles its declarations on the spot, inside the loop over the         *)
(* declarations of the module that uses it; a file used before is skipped. *)
(* The root file is compiled first and is not among the files used.        *)
(*                                                                         *)
(* The stack of activations of compile_module is explicit.  Declarations   *)
(* that are not uses matter only when one fails and ends the loop it is    *)
(* in.  Files are identified by the path a use declaration gives them.     *)
(***************************************************************************)
EXTENDS Naturals, Sequences, FiniteSets

CONSTANTS
  Files,     \* the files of a program
  Root,      \* the file given to main
  MaxUses,   \* bound on the use declarations of a file
  MaxStack   \* bound on the nested activations of compile_module

ASSUME FilesAssumption == Root \in Files /\ IsFiniteSet(Files)
ASSUME BoundsAssumption == MaxUses \in Nat /\ MaxStack \in Nat \ {0}

VARIABLES
  uses,      \* the files each file uses, in the order of its declarations
  readable,  \* the files that can be read
  paths,     \* ModuleManager::paths
  stack,     \* activations of compile_module, the innermost last
  status,    \* of the pass: "running", "done", or "dead" when the process ended
  loaded,    \* history: files read and parsed for a use declaration
  whole,     \* history: files whose declaration loop came to its end
  broken     \* history: files whose declaration loop was broken off

program == <<uses, readable>>
vars == <<program, paths, stack, status, loaded, whole, broken>>

UseLists   == UNION {[1..k -> Files] : k \in 0..MaxUses}
Activation == [file : Files, next : Nat \ {0}]

(***************************************************************************)
(* A Module whose file cannot be read has no declarations: getAst is empty *)
(* (only compile_decl_use looks at the error, main does not).              *)
(***************************************************************************)
Uses(f) == IF f \in readable THEN uses[f] ELSE <<>>

Init ==
  /\ uses \in [Files -> UseLists]
  /\ readable \in SUBSET Files
  /\ paths = {}
  /\ stack = <<[file |-> Root, next |-> 1]>>
  /\ status = "running"
  /\ loaded = {} /\ whole = {} /\ broken = {}

Top     == stack[Len(stack)]
Running == status = "running" /\ stack # <<>>
AtUse   == Running /\ Top.next <= Len(Uses(Top.file))
Used    == Uses(Top.file)[Top.next]

(***************************************************************************)
(* The loop goes on to the declaration after the use.                      *)
(***************************************************************************)
AdvancedTwice == [stack EXCEPT ![Len(stack)].next = @ + 2]  \* mutant: ++ in the body too
Advanced      == [stack EXCEPT ![Len(stack)].next = @ + 1]

(***************************************************************************)
(* An activation returns to the use declaration that made it, which        *)
(* succeeds, or to main.                                                   *)
(***************************************************************************)
Return == /\ stack' = SubSeq(stack, 1, Len(stack) - 1)
          /\ status' = IF Len(stack) = 1 THEN "done" ELSE status

BreakLoop == /\ Return
             /\ broken' = broken \cup {Top.file}
             /\ UNCHANGED whole

EndOfFile == /\ Running
             /\ Top.next > Len(Uses(Top.file))
             /\ Return
             /\ whole' = whole \cup {Top.file}
             /\ UNCHANGED <<program, paths, loaded, broken>>

\* Any declaration but a use can fail, wherever it is in the file.
DeclFails == /\ Running
             /\ Top.file \in readable
             /\ BreakLoop
             /\ UNCHANGED <<program, paths, loaded>>

(***************************************************************************)
(* ModuleManager::add_path: the path is noted before the file is read.     *)
(***************************************************************************)
AddPathLate(f) == UNCHANGED paths  \* mutant: only find_path is called
AddPath(f)     == paths' = paths \cup {f}

\* Mutant: add_path's FALSE is taken for a failure.
UseKnownFails == /\ AtUse
                 /\ Used \in paths
                 /\ Return
                 /\ UNCHANGED <<program, paths, loaded, whole, broken>>
UseKnown == /\ AtUse
            /\ Used \in paths
            /\ stack' = Advanced
            /\ UNCHANGED <<program, paths, status, loaded, whole, broken>>

UseMissing == /\ AtUse
              /\ Used \notin paths
              /\ Used \notin readable
              /\ AddPath(Used)
              /\ BreakLoop
              /\ UNCHANGED <<program, loaded>>

\* A syntax error ends the process.
UseUnparsable == /\ AtUse
                 /\ Used \notin paths
                 /\ Used \in readable
                 /\ AddPath(Used)
                 /\ status' = "dead"
                 /\ UNCHANGED <<program, stack, loaded, whole, broken>>

(***************************************************************************)
(* The used module is compiled at once, before the next declaration.       *)
(***************************************************************************)
Opened(f) == [file |-> f, next |-> 1]
CallLater(f) == <<Opened(f)>> \o Advanced  \* mutant: after the modules at hand
Call(f)      == Append(Advanced, Opened(f))

UseLoads == /\ AtUse
            /\ Used \notin paths
            /\ Used \in readable
            /\ Len(stack) < MaxStack
            /\ AddPath(Used)
            /\ stack' = Call(Used)
            /\ loaded' = loaded \cup {Used}
            /\ UNCHANGED <<program, status, whole, broken>>

Stopped == status # "running" /\ UNCHANGED vars

Next == \/ EndOfFile \/ DeclFails
        \/ UseKnown \/ UseMissing \/ UseUnparsable \/ UseLoads
        \/ Stopped

(***************************************************************************)
(* The pass is the only thread of the process and never waits: it goes on  *)
(* through its uses to the end of each file.  A declaration may fail on    *)
(* the way, and a file not parse, but need not.                            *)
(***************************************************************************)
GoesOn == EndOfFile \/ UseKnown \/ UseMissing \/ UseLoads

Spec == Init /\ [][Next]_vars /\ WF_vars(GoesOn)

-------------------------------------------------------------------------------
(***************************************************************************)
(* Type invariant: activations are inside their files, the pass is running *)
(* as long as there is one, and only files that are readable were loaded.  *)
(***************************************************************************)
TypeOK ==
  /\ uses \in [Files -> UseLists]
  /\ readable \subseteq Files
  /\ paths \subseteq Files
  /\ stack \in Seq(Activation)
  /\ \A i \in DOMAIN stack : stack[i].next <= Len(Uses(stack[i].file)) + 1
  /\ status \in {"running", "done", "dead"}
  /\ stack = <<>> <=> status = "done"
  /\ loaded \subseteq paths \cap readable
  /\ whole \subseteq Files /\ broken \subseteq Files

(***************************************************************************)
(* No file is read twice for a use declaration, however the files use one  *)
(* another: with the root file itself, which its users compile once more,  *)
(* each file is compiled at most once, and the root file at most twice.    *)
(***************************************************************************)
ReadOnce == [][ Len(stack') > Len(stack) =>
                  stack'[Len(stack')].file \notin loaded ]_vars

(***************************************************************************)
(* Everything a program uses, directly or not, is compiled to its end if   *)
(* no loop was broken off.  (Reachable is the least set with the root that *)
(* is closed under uses.)                                                  *)
(***************************************************************************)
Closed(C)  == \A f \in C : \A k \in DOMAIN uses[f] : uses[f][k] \in C
Reachable  == {f \in Files : \A C \in SUBSET Files : Root \in C /\ Closed(C) => f \in C}

Complete == status = "done" /\ broken = {} /\ Root \in readable => Reachable \subseteq whole

(***************************************************************************)
(* Declarations come after what they use.  Each activation was made by the *)
(* use declaration its caller is at, and a module that is past a use finds *)
(* the used file compiled, unless the two use one another (its own         *)
(* compilation is then in progress), or the file is missing, and then      *)
(* some module that uses it was broken off.                                *)
(***************************************************************************)
Active(f) == \E i \in DOMAIN stack : stack[i].file = f

CalledByUse ==
  \A i \in 2..Len(stack) :
    LET caller == stack[i - 1] IN
      caller.next > 1 /\ stack[i].file = Uses(caller.file)[caller.next - 1]

PastUse(f) ==
  \/ f \in whole \cup broken \/ Active(f)
  \/ f \notin readable /\ \E g \in broken : \E k \in DOMAIN uses[g] : uses[g][k] = f

UsedBefore ==
  /\ CalledByUse
  /\ \A i \in DOMAIN stack : \A k \in 1..(stack[i].next - 1) :
       PastUse(Uses(stack[i].file)[k])

(***************************************************************************)
(* The pass ends, whatever files use one another: the recursion of         *)
(* compile_module through compile_decl_use is bounded by the files.        *)
(***************************************************************************)
Termination == <>(status # "running")

===============================================================================
