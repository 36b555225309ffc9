------------------------------- MODULE Compiler -------------------------------
(***************************************************************************)
(* The compile pass: compile_module walks the declarations of a parsed     *)
(* module, and of the modules it uses, and generates one LLVM function     *)
(* after another (declCompiler.cpp, stmtCompiler.cpp), all in one context, *)
(* the PContext of scopes.cpp.  The driver then looks at the recorded      *)
(* errors and at the verifier (PietraLang.cpp, compilerLLVM.cpp).          *)
(*                                                                         *)
(* The pass is sequential.  What makes it hard is that every step reads    *)
(* and writes the one context: tables of symbols, the flags of the current *)
(* statement, the struct that Self stands for, the current function.  A    *)
(* step of this module is a stretch of code with at most one operation on  *)
(* the tables, so that the pass is, step for step, a client of Scopes.     *)
(*                                                                         *)
(* The program compiled is not fixed: each declaration and each statement  *)
(* is chosen when the pass reaches it, so that a behaviour of this module  *)
(* is the compilation of some program.                                     *)
(***************************************************************************)
EXTENDS Naturals, Sequences, FiniteSets

CONSTANTS
  Names,       \* identifiers of functions, parameters and variables
  ClassNames,  \* identifiers of structs
  SelfParam,   \* the identifier "self"
  MethodNames, \* MethodNames[c]: the identifiers c_method its methods can get
  Paths,       \* files that a use declaration can name
  MaxParams,   \* bound on the parameters of a function
  MaxFns,      \* bound on the functions a program declares
  MaxDepth     \* bound on the number of nested scopes

ASSUME NamesAssumption   == /\ SelfParam \in Names
                            /\ MethodNames \in [ClassNames -> SUBSET Names]
ASSUME BuiltinAssumption == {"prim", "void", "none", "Self", "null"} \cap ClassNames = {}
ASSUME BoundsAssumption  == /\ MaxParams \in Nat
                            /\ MaxFns \in Nat
                            /\ MaxDepth \in Nat \ {0}

VARIABLES
  m_scopes, m_classes, underflow,   \* PContext::scope, see Scopes
  defined_return,    \* the last statement compiled was a return
  current_self,      \* the type that Self stands for
  current_function,  \* index in mod of the function being compiled, 0 for none
  errs,              \* PContext::errs is not empty
  mod,               \* the functions of the LLVM module, in creation order
  paths,             \* PContext::modMan: the files already used
  pc,                \* where the pass is
  params, bound,     \* parameters of the current function, how many are bound
  agg,               \* the struct whose methods are being compiled
  uses,              \* nested activations of compile_module
  broke              \* some declaration loop stopped at a failing declaration

scopeVars == <<m_scopes, m_classes, underflow>>
flagVars  == <<defined_return, current_self>>
fnVars    == <<current_function, params, bound>>
useVars   == <<paths, uses>>
vars == <<scopeVars, flagVars, fnVars, errs, mod, useVars, pc, agg, broke>>

(***************************************************************************)
(* A symbol is bound to a function of mod, or to the storage of a variable *)
(* or parameter that some function of mod allocated.                       *)
(***************************************************************************)
SymVals == [kind : {"fn", "var"}, fn : 1..MaxFns]

S == INSTANCE Scopes WITH Vals <- SymVals, ClassVals <- {"struct"}

NoClass  == "none"
NoSelf   == "null"
SelfVals == ClassNames \cup {"prim"}   \* what Self can stand for

VisibleClass(c) == S!Has(S!Back(m_classes), c)
VisibleVar(n)   == \E s \in S!Syms(S!Back(m_scopes)) : s.name = n /\ s.val.kind = "var"

(***************************************************************************)
(* Types as written in the program: a name, or a pointer to one.  "prim"   *)
(* stands for the builtin types, "none" for a type that is not written.    *)
(***************************************************************************)
Bases    == ClassNames \cup {"prim", "Self"}
TypeSpec == [ptr : BOOLEAN, base : Bases]
RetSpec  == TypeSpec \cup {[ptr |-> FALSE, base |-> "void"], [ptr |-> FALSE, base |-> "none"]}

(***************************************************************************)
(* compile_typespec, whatever pointers are around the base, and            *)
(* compile_name_typespec: builtin types always compile, Self when a Self   *)
(* is set, a struct when it is visible.                                    *)
(***************************************************************************)
Resolves(base, self) ==
  \/ base \in {"prim", "void"}
  \/ base = "Self" /\ self # NoSelf
  \/ base \in ClassNames /\ VisibleClass(base)

(***************************************************************************)
(* A procedure declaration: its parameters, the types they mention, its    *)
(* return type and whether it is extern.  A list of types resolves when    *)
(* each does, so the one that decides stands for it.                       *)
(***************************************************************************)
Deciding(T) == {{}} \cup {{x} : x \in T}
ParamLists == UNION {[1..k -> Names] : k \in 0..MaxParams}
ProcDecl   == [name : Names, params : ParamLists, types : Deciding(Bases),
               ret : RetSpec, isExtern : BOOLEAN]

-------------------------------------------------------------------------------
(***************************************************************************)
(* The body of a function as the verifier sees it: "decl" has none, "open" *)
(* ends without a terminator, "closed" ends with its only one, "illformed" *)
(* cannot verify (code after a return, a second return, a value of another *)
(* type returned, an instruction applied to operands of the wrong type).   *)
(***************************************************************************)
Blocks == {"decl", "open", "closed", "illformed"}
Emit(block, code) == CASE code = "none"  -> block
                       [] code = "valid" -> IF block = "closed" THEN "illformed" ELSE block
                       [] code = "wrong" -> "illformed"
Terminate(block)  == IF block = "open" THEN "closed" ELSE "illformed"

Function == [method : BOOLEAN, void : BOOLEAN, block : Blocks]

SetBlock(b) == mod' = [mod EXCEPT ![current_function].block = b]
CurrentBlock == mod[current_function].block

-------------------------------------------------------------------------------
(***************************************************************************)
(* The constructor leaves defined_return uninitialised.                    *)
(***************************************************************************)
Init ==
  /\ S!Init
  /\ defined_return \in BOOLEAN
  /\ current_self = NoSelf
  /\ current_function = 0 /\ params = <<>> /\ bound = 0
  /\ errs = FALSE
  /\ mod = <<>>
  /\ paths = {} /\ uses = 0
  /\ pc = "start"
  /\ agg = NoClass
  /\ broke = FALSE

(***************************************************************************)
(* compile_module opens the global scope for the root module only.         *)
(***************************************************************************)
Start == /\ pc = "start"
         /\ S!EnterScope
         /\ pc' = "loop"
         /\ UNCHANGED <<flagVars, fnVars, errs, mod, useVars, agg, broke>>

(***************************************************************************)
(* context_variables_rewind, before each declaration and each statement.   *)
(* (The third flag, expect_load_addr, only selects between the instructions *)
(* of an expression, which this module does not tell apart.)               *)
(***************************************************************************)
RewindSelf == /\ UNCHANGED defined_return  \* mutant: one flag is forgotten
              /\ current_self' = NoSelf
Rewind == /\ defined_return' = FALSE
          /\ current_self' = NoSelf

(***************************************************************************)
(* The declaration loop of a module ends, at its last declaration or by a  *)
(* break.  The loop of a used module returns to the use declaration, which *)
(* succeeds, and so to the loop of the module that uses it.                *)
(***************************************************************************)
LeaveLoop == IF uses > 0 THEN pc' = "loop" /\ uses' = uses - 1
                         ELSE pc' = "leave" /\ UNCHANGED uses

EndOfModule == /\ pc = "loop"
               /\ LeaveLoop
               /\ UNCHANGED <<scopeVars, flagVars, fnVars, errs, mod, paths, agg, broke>>

Break == broke' = TRUE /\ LeaveLoop

-------------------------------------------------------------------------------
(***************************************************************************)
(* Functions.  compile_proc_proto resolves the types of the parameters and *)
(* then the return type.  A parameter that fails is recorded as an error;  *)
(* a return type that fails is recorded only when it is a pointer.         *)
(***************************************************************************)
ParamsResolve(p, self) == \A base \in p.types : Resolves(base, self)

ProtoFails(p, self) ==
  \/ ~ParamsResolve(p, self)              /\ errs' = TRUE
  \/ /\ ParamsResolve(p, self)
     /\ ~Resolves(p.ret.base, self)
     /\ errs' = (errs \/ p.ret.ptr)

(***************************************************************************)
(* The LLVM function is created (under another name if its own is taken)   *)
(* and defined in the innermost table, unless the name is there already.   *)
(* The body of a function that is not extern comes next.                   *)
(***************************************************************************)
ProtoDone(p, self, method, after) ==
  /\ ParamsResolve(p, self)
  /\ Resolves(p.ret.base, self)
  /\ Len(mod) < MaxFns
  /\ mod' = Append(mod, [method |-> method,
                         void |-> ~p.ret.ptr /\ p.ret.base = "void",
                         block |-> "decl"])
  /\ S!Define(p.name, [kind |-> "fn", fn |-> Len(mod) + 1])
  /\ \/ /\ p.isExtern
        /\ pc' = after
        /\ UNCHANGED fnVars
     \/ /\ ~p.isExtern
        /\ pc' = "enter"
        /\ current_function' = Len(mod) + 1
        /\ params' = p.params
        /\ bound' = 0

WrittenProc(p) == p.params = <<>> => p.types = {}

(***************************************************************************)
(* A declaration of the module: the context is rewound first, and a        *)
(* declaration that fails stops the loop.                                  *)
(***************************************************************************)
NextProc(p) ==
  /\ pc = "loop"
  /\ WrittenProc(p)
  /\ Rewind
  /\ \/ /\ ProtoDone(p, NoSelf, FALSE, "loop")
        /\ UNCHANGED <<errs, useVars, agg, broke>>
     \/ /\ ProtoFails(p, NoSelf)
        /\ Break
        /\ UNCHANGED <<scopeVars, fnVars, mod, paths, agg>>

(***************************************************************************)
(* A method, declared as m in a struct C, is compiled under the name C_m   *)
(* with the parameter self in front.  The context is not rewound, and a    *)
(* method that fails is passed over: propagate_aggregate_methods asks for  *)
(* a result below zero.                                                    *)
(***************************************************************************)
MethodOf(p) == [p EXCEPT !.params = <<SelfParam>> \o p.params,
                         !.types = @ \cup {agg}]

RewindMethod == Rewind  \* mutant: a method is rewound like a declaration
NoRewind     == UNCHANGED flagVars

NextMethod(p) ==
  /\ pc = "methods"
  /\ p.name \in MethodNames[agg]
  /\ WrittenProc(p)
  /\ \/ /\ ProtoDone(MethodOf(p), current_self, TRUE, "methods")
        /\ UNCHANGED errs
     \/ /\ ProtoFails(MethodOf(p), current_self)
        /\ UNCHANGED <<scopeVars, fnVars, mod, pc>>
  /\ NoRewind
  /\ UNCHANGED <<useVars, agg, broke>>

(***************************************************************************)
(* The body: a scope for the parameters, in which they are bound one by    *)
(* one, inside it a scope for the statements.  (The types of the           *)
(* parameters are compiled a second time here; nothing has changed since   *)
(* they first were.)                                                       *)
(***************************************************************************)
EnterProc == /\ pc = "enter"
             /\ S!EnterScope
             /\ SetBlock("open")
             /\ pc' = "params"
             /\ UNCHANGED <<flagVars, fnVars, errs, useVars, agg, broke>>

Var == [kind |-> "var", fn |-> current_function]

BindParam == /\ pc = "params"
             /\ bound < Len(params)
             /\ S!Define(params[bound + 1], Var)
             /\ bound' = bound + 1
             /\ UNCHANGED <<flagVars, current_function, params, errs, mod, useVars,
                            pc, agg, broke>>

\* Mutant: the scope of the statements starts empty.
EnterBodyFresh == /\ pc = "params"
                  /\ bound = Len(params)
                  /\ m_scopes' = Append(m_scopes, <<>>)
                  /\ m_classes' = Append(m_classes, <<>>)
                  /\ pc' = "body"
                  /\ UNCHANGED <<underflow, flagVars, fnVars, errs, mod, useVars, agg, broke>>
EnterBody == /\ pc = "params"
             /\ bound = Len(params)
             /\ S!EnterScope
             /\ pc' = "body"
             /\ UNCHANGED <<flagVars, fnVars, errs, mod, useVars, agg, broke>>

(***************************************************************************)
(* The end of a function: a default return unless the last statement was   *)
(* one, and the scope of the parameters is left.                           *)
(***************************************************************************)
KeepFunction == UNCHANGED fnVars  \* mutant: the function is not dropped
DropFunction == current_function' = 0 /\ params' = <<>> /\ bound' = 0

FinishProc ==
  /\ pc = "return"
  /\ IF defined_return THEN UNCHANGED mod ELSE SetBlock(Terminate(CurrentBlock))
  /\ S!LeaveScope
  /\ DropFunction
  /\ pc' = IF mod[current_function].method THEN "methods" ELSE "loop"
  /\ UNCHANGED <<flagVars, errs, useVars, agg, broke>>

-------------------------------------------------------------------------------
(***************************************************************************)
(* Statements.  compile_stmt rewinds the context and compiles the          *)
(* expression.  The names in it that are visible leave no trace in the     *)
(* context (one that is not makes the statement fail); its last field      *)
(* access, which needs a variable to start from, leaves the type of its    *)
(* base as Self; and it generates instructions: none for a literal and the *)
(* name of a function, and wrong ones when the arguments of a call or the  *)
(* operand of * or - do not have the type they should have, which nothing  *)
(* checks.                                                                 *)
(***************************************************************************)
Codes == {"none", "valid", "wrong"}

Expression(self) == self \in ClassNames => VisibleClass(self) /\ \E n \in Names : VisibleVar(n)

ExprStmt(self, code) ==
  /\ pc = "body"
  /\ Expression(self)
  /\ defined_return' = FALSE
  /\ current_self' = self
  /\ SetBlock(Emit(CurrentBlock, code))
  /\ UNCHANGED <<scopeVars, fnVars, errs, useVars, pc, agg, broke>>

(***************************************************************************)
(* x : T = e.  The type is compiled before the initialiser, so that Self   *)
(* never resolves; the name is defined last.                               *)
(***************************************************************************)
InitStmt(x, base, self, code) ==
  /\ pc = "body"
  /\ Resolves(base, NoSelf)
  /\ code # "none"
  /\ Expression(self)
  /\ defined_return' = FALSE
  /\ current_self' = self
  /\ SetBlock(Emit(CurrentBlock, code))
  /\ S!Define(x, Var)
  /\ UNCHANGED <<fnVars, errs, useVars, pc, agg, broke>>

(***************************************************************************)
(* return and return e.  The types of e and of the function are not        *)
(* compared, the verifier will: fits says whether they agree and e is free *)
(* of wrong code.                                                          *)
(***************************************************************************)
ReturnStmt(self, valued, fits) ==
  /\ pc = "body"
  /\ Expression(self)
  /\ valued \/ (self = NoSelf /\ fits /\ mod[current_function].void)
  /\ valued /\ mod[current_function].void => ~fits
  /\ defined_return' = TRUE
  /\ current_self' = self
  /\ SetBlock(IF fits THEN Terminate(CurrentBlock) ELSE "illformed")
  /\ UNCHANGED <<scopeVars, fnVars, errs, useVars, pc, agg, broke>>

(***************************************************************************)
(* A statement that cannot be compiled (a loop, an undefined name, an      *)
(* operator that is not supported...): the error is recorded and the       *)
(* statements are given up, without leaving their scope.  A field access   *)
(* that fails may leave a type that is not a struct as Self.               *)
(***************************************************************************)
FailStmt(self, code) ==
  /\ pc = "body"
  /\ Expression(self)
  /\ errs' = TRUE
  /\ defined_return' = FALSE
  /\ current_self' = self
  /\ SetBlock(Emit(CurrentBlock, code))
  /\ pc' = "return"
  /\ UNCHANGED <<scopeVars, fnVars, useVars, agg, broke>>

\* Mutant: the scope of the statements is never left.
EndBodyInside == /\ pc = "body"
                 /\ pc' = "return"
                 /\ UNCHANGED <<scopeVars, flagVars, fnVars, errs, mod, useVars, agg, broke>>
EndBody == /\ pc = "body"
           /\ S!LeaveScope
           /\ pc' = "return"
           /\ UNCHANGED <<flagVars, fnVars, errs, mod, useVars, agg, broke>>

(***************************************************************************)
(* The process may end in the middle of a function: exit(1) when + is      *)
(* applied to operands that do not add, a null pointer when the function   *)
(* was declared without a body or the base of a field access has no type.  *)
(***************************************************************************)
Die == /\ \/ pc = "params" /\ bound = Len(params)
          \/ pc = "body"
       /\ pc' = "dead"
       /\ UNCHANGED <<scopeVars, flagVars, fnVars, errs, mod, useVars, agg, broke>>

-------------------------------------------------------------------------------
(***************************************************************************)
(* Structs.  The types of the fields come first; a failing field is        *)
(* recorded only when it is a pointer.  Then the struct is defined, unless *)
(* its name is taken, and Self stands for it.                              *)
(***************************************************************************)
DefineUnmounted(c) == S!DefineCls(c, "struct", FALSE)  \* mutant: mounting fails
DefineStruct(c)    == S!DefineCls(c, "struct", TRUE)

KeepReturn  == UNCHANGED defined_return  \* mutant: the struct is compiled without a rewind
LowerReturn == defined_return' = FALSE

NextAggregate(c, fields) ==
  /\ pc = "loop"
  /\ \/ /\ \A f \in fields : Resolves(f.base, NoSelf)
        /\ DefineStruct(c)
        /\ LowerReturn
        /\ current_self' = c
        /\ agg' = c
        /\ pc' = "methods"
        /\ UNCHANGED <<errs, uses, broke>>
     \/ /\ \E f \in fields : /\ ~Resolves(f.base, NoSelf)
                             /\ errs' = (errs \/ f.ptr)
        /\ Rewind
        /\ Break
        /\ UNCHANGED <<scopeVars, agg>>
  /\ UNCHANGED <<fnVars, mod, paths>>

EndAggregate == /\ pc = "methods"
                /\ current_self' = NoSelf
                /\ agg' = NoClass
                /\ pc' = "loop"
                /\ UNCHANGED <<scopeVars, defined_return, fnVars, errs, mod, useVars, broke>>

-------------------------------------------------------------------------------
(***************************************************************************)
(* Uses.  A file used before is skipped.  Any other is noted before it is  *)
(* read: it may be missing, which fails the declaration with a message     *)
(* but no recorded error; it may not parse, which ends the process; or its *)
(* declarations are compiled in the scope of the module that uses it.      *)
(***************************************************************************)
Load == uses' = uses + 1 /\ UNCHANGED scopeVars

NextUse(path) ==
  /\ pc = "loop"
  /\ Rewind
  /\ paths' = paths \cup {path}
  /\ \/ path \in paths /\ UNCHANGED <<scopeVars, pc, uses, broke>>
     \/ path \notin paths /\ Break /\ UNCHANGED scopeVars
     \/ path \notin paths /\ pc' = "dead" /\ UNCHANGED <<scopeVars, uses, broke>>
     \/ path \notin paths /\ Load /\ UNCHANGED <<pc, broke>>
  /\ UNCHANGED <<fnVars, errs, mod, agg>>

-------------------------------------------------------------------------------
(***************************************************************************)
(* The root module leaves the global scope.  The driver stops when an      *)
(* error was recorded; else it announces success and has the module        *)
(* verified before it is written out.                                      *)
(***************************************************************************)
LeaveModule == /\ pc = "leave"
               /\ S!LeaveScope
               /\ pc' = "report"
               /\ UNCHANGED <<flagVars, fnVars, errs, mod, useVars, agg, broke>>

Report == /\ pc = "report"
          /\ pc' = IF errs THEN "rejected" ELSE "mounted"
          /\ UNCHANGED <<scopeVars, flagVars, fnVars, errs, mod, useVars, agg, broke>>

Verify == /\ pc = "mounted"
          /\ pc' = IF \A i \in DOMAIN mod : mod[i].block \in {"decl", "closed"}
                   THEN "built" ELSE "unverified"
          /\ UNCHANGED <<scopeVars, flagVars, fnVars, errs, mod, useVars, agg, broke>>

Terminated == pc \in {"rejected", "unverified", "built", "dead"} /\ UNCHANGED vars

-------------------------------------------------------------------------------
Declaration == \/ \E p \in ProcDecl : NextProc(p) \/ NextMethod(p)
               \/ \E c \in ClassNames, fields \in Deciding(TypeSpec) : NextAggregate(c, fields)
               \/ EndAggregate
               \/ \E path \in Paths : NextUse(path)
               \/ EndOfModule

Statement ==
  \/ \E self \in SelfVals \cup {NoSelf}, code \in Codes :
       FailStmt(self, code)
  \/ \E self \in ClassNames \cup {NoSelf} :
       \/ \E code \in Codes : ExprStmt(self, code)
       \/ \E x \in Names, base \in Bases, code \in Codes : InitStmt(x, base, self, code)
       \/ \E valued, fits \in BOOLEAN : ReturnStmt(self, valued, fits)
  \/ EndBody

Body == EnterProc \/ BindParam \/ EnterBody \/ Statement \/ FinishProc \/ Die

Driver == Start \/ LeaveModule \/ Report \/ Verify \/ Terminated

Next == ~underflow /\ (Declaration \/ Body \/ Driver)

Spec == Init /\ [][Next]_vars

-------------------------------------------------------------------------------
(***************************************************************************)
(* Type invariant.  The current function is set exactly while its scopes   *)
(* are open, it is always the function created last, and the parameters    *)
(* and the struct being compiled are set exactly while they are needed.    *)
(***************************************************************************)
InProc  == {"enter", "params", "body", "return"}
Outcome == {"rejected", "unverified", "built"}
Places  == {"start", "loop", "methods", "leave", "report", "mounted", "dead"}
             \cup InProc \cup Outcome

TypeOK ==
  /\ S!TypeOK
  /\ defined_return \in BOOLEAN
  /\ current_self \in SelfVals \cup {NoSelf}
  /\ mod \in Seq(Function) /\ Len(mod) <= MaxFns
  /\ params \in Seq(Names) /\ bound \in 0..Len(params)
  /\ errs \in BOOLEAN /\ broke \in BOOLEAN
  /\ paths \subseteq Paths /\ uses \in Nat
  /\ pc \in Places
  /\ agg \in ClassNames \cup {NoClass}
  /\ current_function \in {0, Len(mod)}
  /\ pc \in InProc => current_function = Len(mod) /\ mod # <<>>
  /\ pc \notin InProc \cup {"dead"} => current_function = 0 /\ params = <<>>
  /\ pc = "methods" => agg # NoClass
  /\ pc \in InProc /\ mod[current_function].method => agg # NoClass

(***************************************************************************)
(* The scopes are balanced.  compile_module, compile_decl_proc and         *)
(* compile_scope each enter a scope and leave it, on every path but one: a *)
(* statement that fails leaves its scope open.  So there are never too few *)
(* scopes (leave_scope never finds the stack empty), and there are too     *)
(* many only when an error was recorded, so that the program is rejected.  *)
(***************************************************************************)
Depth == CASE pc \in {"loop", "methods", "enter", "leave"} -> 2
           [] pc \in {"params", "return"}                  -> 3
           [] pc = "body"                                  -> 4
           [] OTHER                                        -> 1

ScopeBalance ==
  /\ ~underflow
  /\ Len(m_scopes) >= Depth
  /\ ~errs /\ pc # "dead" => Len(m_scopes) = Depth

(***************************************************************************)
(* No function sees another one's storage: as long as no error was         *)
(* recorded, every variable or parameter that a name resolves to was       *)
(* allocated by the function being compiled.  (An instruction that uses    *)
(* another function's alloca would not verify.)                            *)
(***************************************************************************)
NoForeignLocals ==
  ~errs => \A s \in S!Syms(S!Back(m_scopes)) :
             s.val.kind = "var" => s.val.fn = current_function

(***************************************************************************)
(* Every function that is not a method ends with a terminator once it is   *)
(* compiled, whatever statements it has and whether they failed:           *)
(* compile_default_return_value adds the return that the flag              *)
(* defined_return misses, and the flag is fresh for each declaration.      *)
(***************************************************************************)
FreeFunctionsTerminated ==
  \A i \in DOMAIN mod : i # current_function /\ ~mod[i].method => mod[i].block # "open"

(***************************************************************************)
(* A method is not so lucky, for no rewind comes before it.  But the only  *)
(* flag it can find up is that of another method: the last body compiled   *)
(* before a method that ends without a terminator is a method's too, never *)
(* that of a function.                                                     *)
(***************************************************************************)
HasBody(i) == mod[i].block # "decl"

LastBodyIsMethod(n) ==
  \E j \in 1..n : mod[j].method /\ HasBody(j) /\ \A k \in j + 1..n : ~HasBody(k)

OpenAfterMethod ==
  \A i \in DOMAIN mod :
     i # current_function /\ mod[i].method /\ mod[i].block = "open" => LastBodyIsMethod(i - 1)

(***************************************************************************)
(* Self has the same weakness: the first statement of a method rewinds it, *)
(* and a field access leaves another struct in it.  The types of a method  *)
(* resolve Self to something else than its struct only when the last body  *)
(* compiled was a method's: declarations without a body, methods that      *)
(* fail, and whatever came before the struct, do not disturb it.           *)
(***************************************************************************)
SelfLostByBody == pc = "methods" /\ current_self # agg => LastBodyIsMethod(Len(mod))

(***************************************************************************)
(* The assertion of proc_params_with_self: the struct whose methods are    *)
(* compiled is visible, also after a method left scopes open.              *)
(***************************************************************************)
ClassAsserted == pc = "methods" => VisibleClass(agg)

(***************************************************************************)
(* The pass uses the tables as their class allows: it implements Scopes,   *)
(* and so inherits its properties.                                         *)
(***************************************************************************)
ScopesSpec == S!Spec

-------------------------------------------------------------------------------
(***************************************************************************)
(* What comments and messages of the code say and the code does not keep.  *)
(* Each of the two is checked alone, by a run that finds it violated.      *)
(*                                                                         *)
(* scope.hpp:33: the scopes are reset before the next function is          *)
(* compiled, so that no parameter or variable of another function is       *)
(* visible when its parameters are about to be bound.                      *)
(***************************************************************************)
ResetAtFunction == pc = "params" /\ bound = 0 => \A n \in Names : ~VisibleVar(n)

(***************************************************************************)
(* PietraLang.cpp:130: the success message is for a program compiled as a  *)
(* whole, not for the declarations that come before one that failed.       *)
(***************************************************************************)
SuccessIsComplete == pc = "mounted" => ~broke
===============================================================================
