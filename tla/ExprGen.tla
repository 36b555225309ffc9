------------------------------ MODULE ExprGen ------------------------------
(***************************************************************************)
(* The code generated for expressions (exprCompiler.cpp).  compile_expr    *)
(* returns a Val: an LLVM value, the LLVM type it is said to have, and its *)
(* type in the language.  The C++ recursion is the variable `stack`; the   *)
(* expression is chosen as it is compiled, node by node.                   *)
(*                                                                         *)
(* A type is a base and a number of pointers to it.  LLVM tells pointers   *)
(* apart from nothing else, so `type` is "ptr" or a base; `real` is what   *)
(* the value is in fact, with what it points to.                           *)
(*                                                                         *)
(* expect_load_addr is the flag that makes a name or a field a value       *)
(* rather than an address.  The nodes below pass it on, lower it or raise  *)
(* it on their way down, and what they leave is what the next operand of   *)
(* the statement finds.                                                    *)
(***************************************************************************)
EXTENDS Integers, Sequences

CONSTANTS
    MaxNodes,     \* the bound on the nodes of the expressions compiled
    MaxArgs       \* the bound on the arguments of a call

ASSUME ArgsAssumption == MaxArgs \in Nat

VARIABLES
    stack,              \* what is left to do: expressions, and what follows them
    val,                \* the Val last returned
    expect_load_addr,   \* PContext::m_expect_load_addr
    lowered,            \* history: an & or a method has left the flag down
    nodes,              \* how many nodes have been compiled
    outcome             \* "compiling", "error", "exited" or "crashed"

vars == <<stack, val, expect_load_addr, lowered, nodes, outcome>>

T(base, ptr)  == [base |-> base, ptr |-> ptr]
PointerTo(t)  == [t EXCEPT !.ptr = @ + 1]
Pointee(t)    == [t EXCEPT !.ptr = @ - 1]
IsPtr(t)      == t.ptr > 0
LLVM(t)       == IF IsPtr(t) THEN "ptr" ELSE t.base
Integers      == {"i8", "i64"}

Val(real, type, ptype) == [real |-> real, type |-> type, ptype |-> ptype]

(***************************************************************************)
(* The symbols.  A parameter of type T that is no pointer is stored in a   *)
(* variable, one that is a pointer stands for itself                       *)
(* (compile_proc_argument_stack_allocation).  A local of any type is known *)
(* by the type of its address (compile_expr_init).                         *)
(***************************************************************************)
Declared == {T("i64", 0), T("i8", 0), T("S", 0), T("i64", 1), T("S", 1)}

Param(t) == IF IsPtr(t) THEN Val(t, "ptr", t) ELSE Val(PointerTo(t), t.base, t)
Local(t) == Val(PointerTo(t), "ptr", t)
Variables == {Param(t) : t \in Declared} \cup {Local(t) : t \in Declared}

\* A function, which returns an i64, as its name and as a method of S.
Fn        == T("fn", 1)
Function  == Val(Fn, "ptr", T("i64", 0))
Method    == Val(Fn, "i64", T("proc", 0))

\* The fields of the struct S as define_cls knows them: compile_type gives
\* every integer 64 bits, whatever its place in the struct has.
Fields    == {T("i8", 0), T("i64", 0), T("S", 1)}
FieldLoaded(t) == IF t.base \in Integers /\ ~IsPtr(t) THEN T("i64", 0) ELSE t
-----------------------------------------------------------------------------
Expr          == [do |-> "expr"]
Rest(what)    == [do |-> what]
With(what, x) == [do |-> what, x |-> x]

Top      == Head(stack)
Busy(d)  == outcome = "compiling" /\ stack # <<>> /\ Top.do = d
Then(s)  == stack' = s \o Tail(stack)
Flag(b)  == expect_load_addr' = b
KeepFlag == UNCHANGED <<expect_load_addr, lowered>>

Returns(v) == val' = v /\ Then(<<>>)
Ends(o)    == outcome' = o /\ UNCHANGED <<stack, val, expect_load_addr, lowered, nodes>>
Goes       == UNCHANGED <<nodes, outcome>>

Node == Busy("expr") /\ nodes < MaxNodes /\ nodes' = nodes + 1 /\ UNCHANGED outcome
-----------------------------------------------------------------------------
Init ==
    /\ stack = <<>> /\ val = Val(T("void", 0), "void", T("none", 0))
    /\ expect_load_addr = TRUE /\ lowered = FALSE
    /\ nodes = 0 /\ outcome = "compiling"

\* compile_stmt: the context is rewound before each statement.
Forget == UNCHANGED expect_load_addr /\ lowered' = FALSE  \* mutant: the flag is not rewound
Rewind == Flag(TRUE) /\ lowered' = FALSE

Statement ==
    /\ outcome = "compiling" /\ stack = <<>> /\ nodes < MaxNodes
    /\ stack' = <<Expr>> /\ Rewind
    /\ UNCHANGED <<val, nodes, outcome>>

\* compile_expr_int, compile_expr_float and compile_expr_string
Literal == Node /\ KeepFlag
             /\ \E t \in {T("i64", 0), T("f64", 0), T("i8", 1)} : Returns(Val(t, LLVM(t), t))

\* compile_expr_name
Loaded(v)  == Val(Pointee(v.real), v.type, v.ptype)
Address(v) == Val(v.real, "ptr", PointerTo(v.ptype))
LoadAll(v) == IF expect_load_addr THEN Loaded(v) ELSE Address(v)  \* mutant: pointers as well
NameVal(v) == IF expect_load_addr /\ v.type # "ptr" THEN Loaded(v) ELSE Address(v)

NameExpr == Node /\ KeepFlag
              /\ \/ \E v \in Variables : Returns(NameVal(v))
                 \/ Returns(Function)

\* compile_expr_field: the base is compiled as an address.
FieldExpr ==
    /\ Node
    /\ \E arrow \in BOOLEAN :
         Then(<<Expr, With("field", [load_after |-> expect_load_addr, auto_derref |-> arrow,
                                     lowered |-> lowered])>>)
    /\ Flag(FALSE) /\ UNCHANGED <<val, lowered>>

\* The struct the base is, if any: the base is the address of a struct, or,
\* after an arrow, the address of a pointer to one (auto_load_struct_ptr,
\* whose load is commented out).
Through(p, arrow) == IF arrow /\ p.ptr >= 2 THEN p.ptr - 2 ELSE p.ptr - 1
IsStruct(p, arrow) == p.base = "S" /\ Through(p, arrow) = 0

FieldOf ==
    /\ Busy("field") /\ IsPtr(val.ptype) /\ IsStruct(val.ptype, Top.x.auto_derref)
    /\ \E t \in Fields :
         Returns(IF Top.x.load_after THEN Val(FieldLoaded(t), LLVM(FieldLoaded(t)), t)
                 ELSE Val(PointerTo(t), "ptr", PointerTo(t)))
    /\ Flag(Top.x.load_after) /\ lowered' = Top.x.lowered
    /\ Goes

\* check_for_struct_methods: the flag stays down.
MethodOf ==
    /\ Busy("field") /\ IsPtr(val.ptype) /\ IsStruct(val.ptype, Top.x.auto_derref)
    /\ Returns(Method)
    /\ UNCHANGED expect_load_addr /\ lowered' = TRUE
    /\ Goes

NoStruct ==
    /\ Busy("field") /\ IsPtr(val.ptype) /\ ~IsStruct(val.ptype, Top.x.auto_derref)
    /\ Ends("error")

\* ptr is what dynamic_cast made of a type that is no pointer; ptr->base is
\* read before it is looked at.
NullBase == Busy("field") /\ ~IsPtr(val.ptype) /\ Ends("crashed")
-----------------------------------------------------------------------------
\* compile_expr_call: the callee, then the arguments, under the flag it left.
CallExpr ==
    /\ Node /\ KeepFlag /\ UNCHANGED val
    /\ \E n \in 0..MaxArgs : Then(<<Expr, With("callee", n)>>)

Callee ==
    /\ Busy("callee")
    /\ Then([i \in 1..Top.x |-> Expr] \o <<With("called", val)>>)
    /\ KeepFlag /\ UNCHANGED val /\ Goes

Called ==
    /\ Busy("called") /\ Top.x.real = Fn
    /\ Returns([Top.x EXCEPT !.real = T("i64", 0)])
    /\ KeepFlag /\ Goes

NotCalled == Busy("called") /\ Top.x.real # Fn /\ Ends("error")

\* compile_expr_unary: &, * and -.
AddressOf ==
    /\ Node /\ Then(<<Expr>>)
    /\ Flag(FALSE) /\ lowered' = TRUE /\ UNCHANGED val

UnaryExpr ==
    /\ Node /\ KeepFlag /\ UNCHANGED val
    /\ \E op \in {"deref", "minus"} : Then(<<Expr, Rest(op)>>)

Deref ==
    /\ Busy("deref") /\ IsPtr(val.ptype)
    /\ Returns([val EXCEPT !.real = IF val.type # "ptr" THEN T(val.type, 0)
                                    ELSE IF @.ptr > 1 THEN Pointee(@) ELSE T("junk", 1)])
    /\ KeepFlag /\ Goes

NoDeref == Busy("deref") /\ ~IsPtr(val.ptype) /\ Ends("error")

\* What is negated is a new value of the same type, and no function.
Negated(t) == IF t = Fn THEN T("junk", 1) ELSE t

Minus ==
    /\ Busy("minus")
    /\ Returns([val EXCEPT !.real = Negated(@)])
    /\ KeepFlag /\ Goes
-----------------------------------------------------------------------------
\* compile_expr_binary_eq: an address, then a value, then a store, which is
\* returned under the type of the address.
Assign == Node /\ Then(<<Expr, Rest("rhs")>>) /\ Flag(FALSE) /\ UNCHANGED <<val, lowered>>

AssignRhs ==
    /\ Busy("rhs") /\ Then(<<Expr, With("store", val)>>)
    /\ Flag(TRUE) /\ lowered' = FALSE /\ UNCHANGED val /\ Goes

Store ==
    /\ Busy("store")
    /\ Returns([Top.x EXCEPT !.real = T("void", 0)])
    /\ KeepFlag /\ Goes

\* compile_expr_binary_add: promote_type changes nothing, and values that are
\* not integers of one type end the program.
Add == Node /\ Then(<<Expr, Rest("addend")>>) /\ Flag(TRUE) /\ lowered' = FALSE /\ UNCHANGED val

Addend ==
    /\ Busy("addend") /\ Then(<<Expr, With("add", val)>>)
    /\ Flag(TRUE) /\ lowered' = FALSE /\ UNCHANGED val /\ Goes

AddUp ==
    /\ Busy("add") /\ Top.x.type \in Integers /\ Top.x.type = val.type
    /\ Returns([Top.x EXCEPT !.real = T(val.type, 0)])
    /\ KeepFlag /\ Goes

NoAdd == Busy("add") /\ ~(Top.x.type \in Integers /\ Top.x.type = val.type) /\ Ends("exited")

\* The other operators are not compiled.
Unknown == Busy("expr") /\ Ends("error")

\* compile_expr_init, with an initialiser and without one.
InitExpr ==
    /\ Node /\ KeepFlag /\ UNCHANGED val
    /\ \E t \in Declared : Then(<<Expr, With("init", t)>>)

Initialise ==
    /\ Busy("init") /\ Returns(Local(Top.x))
    /\ KeepFlag /\ Goes

Uninitialised == Node /\ KeepFlag /\ \E t \in Declared : Returns(Local(t))

Stopped == (outcome # "compiling" \/ nodes = MaxNodes) /\ UNCHANGED vars

Next ==
    \/ Statement \/ Literal \/ NameExpr \/ FieldExpr \/ FieldOf \/ MethodOf \/ NoStruct \/ NullBase
    \/ CallExpr \/ Callee \/ Called \/ NotCalled \/ AddressOf \/ UnaryExpr \/ Deref \/ NoDeref \/ Minus
    \/ Assign \/ AssignRhs \/ Store \/ Add \/ Addend \/ AddUp \/ NoAdd \/ Unknown
    \/ InitExpr \/ Initialise \/ Uninitialised \/ Stopped

Spec == Init /\ [][Next]_vars
-----------------------------------------------------------------------------
\* Whether the next operand is compiled as an address is never left over from
\* something that has nothing to do with it: the flag is down only inside the
\* base of a field, inside the target of an assignment, or after an & or a
\* method earlier in the same statement, with no + or = after it.
FlagAccounted ==
    ~expect_load_addr =>
        \/ \E i \in DOMAIN stack : stack[i].do \in {"field", "rhs"}
        \/ lowered
        \/ stack = <<>>

\* The LLVM type a Val claims is the type of its value, as the tests of its
\* users suppose, but for a method, a call of a function and an assignment.
TypeIsReal ==
    \/ val.type = LLVM(val.real)
    \/ val.ptype.base = "proc" \/ val.real = T("void", 0)
    \/ val = [Function EXCEPT !.real = T("i64", 0)]
=============================================================================
