--------------------------- MODULE ExprGenProofs ---------------------------
(***************************************************************************)
(* Proofs that the flag expect_load_addr is never left over, and that the  *)
(* type of a Val is that of its LLVM value.  What makes the first          *)
(* inductive is a fact about the field accesses that are pending: the one  *)
(* that will put the flag down again is itself inside the base of a field  *)
(* or the target of an assignment, or comes after an & or a method.  What  *)
(* makes the second inductive is which of the values can be called.        *)
(***************************************************************************)
EXTENDS ExprGen, TLAPS

Bases  == {"i8", "i64", "f64", "S", "fn", "proc", "void", "none", "junk"}
Types  == [base : Bases, ptr : Int]
Names  == Bases \cup {"ptr"}
Vals   == [real : Types, type : Names, ptype : Types]
Access == [load_after : BOOLEAN, auto_derref : BOOLEAN, lowered : BOOLEAN]
Frames == [do : {"expr", "deref", "minus", "rhs", "addend"}]
            \cup [do : {"field"}, x : Access]
            \cup [do : {"callee"}, x : Nat]
            \cup [do : {"called", "store", "add"}, x : Vals]
            \cup [do : {"init"}, x : Declared]

Typed ==
    /\ stack \in Seq(Frames) /\ val \in Vals
    /\ expect_load_addr \in BOOLEAN /\ lowered \in BOOLEAN

Inside(s, i) == \E j \in i..Len(s) : s[j].do \in {"field", "rhs"}

\* What is pending puts the flag down only where that is accounted for.
Pending == \A i \in 1..Len(stack) :
              stack[i].do = "field" /\ ~stack[i].x.load_after
                => stack[i].x.lowered \/ Inside(stack, i + 1)

Down == ~expect_load_addr => Inside(stack, 1) \/ lowered \/ stack = <<>>

IInv == Typed /\ Pending /\ Down
-----------------------------------------------------------------------------
(***************************************************************************)
(* The stack of a step is a sequence put in front of the rest.             *)
(***************************************************************************)
LEMMA Front ==
    ASSUME stack \in Seq(Frames), stack # <<>>,
           NEW s \in Seq(Frames), stack' = s \o Tail(stack)
    PROVE  /\ stack' \in Seq(Frames)
           /\ Len(stack') = Len(s) + Len(stack) - 1
           /\ \A i \in 1..Len(s) : stack'[i] = s[i]
           /\ \A i \in Len(s) + 1..Len(stack') : stack'[i] = stack[i - Len(s) + 1]
           /\ \A i \in 2..Len(stack) : stack[i] = stack'[i + Len(s) - 1]
  <1>1. Tail(stack) \in Seq(Frames) /\ Len(Tail(stack)) = Len(stack) - 1
    OBVIOUS
  <1>2. \A i \in 1..Len(stack) - 1 : Tail(stack)[i] = stack[i + 1]
    OBVIOUS
  <1>3. stack' \in Seq(Frames) /\ Len(stack') = Len(s) + Len(stack) - 1
    BY <1>1
  <1>4. \A i \in 1..Len(s) : stack'[i] = s[i]
    BY <1>1
  <1>5. \A i \in Len(s) + 1..Len(stack') : stack'[i] = stack[i - Len(s) + 1]
    BY <1>1, <1>2, <1>3
  <1>6. \A i \in 2..Len(stack) : stack[i] = stack'[i + Len(s) - 1]
    <2> SUFFICES ASSUME NEW i \in 2..Len(stack) PROVE stack[i] = stack'[i + Len(s) - 1]
      OBVIOUS
    <2>1. i + Len(s) - 1 \in Len(s) + 1..Len(stack')
      BY <1>3
    <2> QED
      BY <2>1, <1>5
  <1> QED
    BY <1>3, <1>4, <1>5, <1>6

(***************************************************************************)
(* Steps that put no field access on the stack keep what is pending.       *)
(***************************************************************************)
LEMMA KeepsPending ==
    ASSUME stack \in Seq(Frames), stack # <<>>, Pending,
           NEW s \in Seq(Frames), stack' = s \o Tail(stack),
           \A i \in 1..Len(s) : s[i].do # "field"
    PROVE  Pending'
  <1> SUFFICES ASSUME NEW i \in 1..Len(stack'), stack'[i].do = "field", ~stack'[i].x.load_after
               PROVE  stack'[i].x.lowered \/ Inside(stack', i + 1)
    BY DEF Pending, Inside
  <1>1. i \in Len(s) + 1..Len(stack') /\ stack'[i] = stack[i - Len(s) + 1]
    BY Front
  <1>2. i - Len(s) + 1 \in 1..Len(stack)
    BY <1>1, Front
  <1>3. stack[i - Len(s) + 1].x.lowered \/ Inside(stack, i - Len(s) + 2)
    <2>1. stack[i - Len(s) + 1].x.lowered \/ Inside(stack, (i - Len(s) + 1) + 1)
      BY <1>1, <1>2 DEF Pending
    <2> QED
      BY <2>1 DEF Inside
  <1>4. CASE Inside(stack, i - Len(s) + 2)
    <2>1. PICK j \in i - Len(s) + 2..Len(stack) : stack[j].do \in {"field", "rhs"}
      BY <1>4 DEF Inside
    <2>2. j \in 2..Len(stack) /\ j + Len(s) - 1 \in i + 1..Len(stack')
      BY <2>1, <1>1, Front
    <2>3. stack'[j + Len(s) - 1].do \in {"field", "rhs"}
      BY <2>1, <2>2, Front
    <2> QED
      BY <2>2, <2>3 DEF Inside
  <1> QED
    BY <1>1, <1>3, <1>4

(***************************************************************************)
(* When the step is of no field access and no assignment either, and       *)
(* leaves the flag alone, the flag stays accounted for.                    *)
(***************************************************************************)
LEMMA KeepsDown ==
    ASSUME stack \in Seq(Frames), stack # <<>>, Down,
           NEW s \in Seq(Frames), stack' = s \o Tail(stack),
           stack[1].do \notin {"field", "rhs"},
           UNCHANGED <<expect_load_addr, lowered>>
    PROVE  Down'
  <1>1. CASE Inside(stack, 1)
    <2>1. PICK j \in 1..Len(stack) : stack[j].do \in {"field", "rhs"}
      BY <1>1 DEF Inside
    <2>2. j \in 2..Len(stack) /\ j + Len(s) - 1 \in 1..Len(stack')
      BY <2>1, Front
    <2>3. stack'[j + Len(s) - 1].do \in {"field", "rhs"}
      BY <2>1, <2>2, Front
    <2> QED
      BY <2>2, <2>3 DEF Down, Inside
  <1> QED
    BY <1>1 DEF Down

\* A step that leaves the flag alone and neither begins nor ends a field access
\* or the target of an assignment.
LEMMA Neutral ==
    ASSUME IInv, stack # <<>>, NEW s \in Seq(Frames), stack' = s \o Tail(stack),
           \A i \in 1..Len(s) : s[i].do # "field",
           stack[1].do \notin {"field", "rhs"},
           UNCHANGED <<expect_load_addr, lowered>>, val' \in Vals
    PROVE  IInv'
  BY Front, KeepsPending, KeepsDown DEF IInv, Typed

\* A step after which the flag is up, or down because of an & or a method.
LEMMA Settled ==
    ASSUME IInv, stack # <<>>, NEW s \in Seq(Frames), stack' = s \o Tail(stack),
           \A i \in 1..Len(s) : s[i].do # "field",
           expect_load_addr' \in BOOLEAN, lowered' \in BOOLEAN, expect_load_addr' \/ lowered',
           val' \in Vals
    PROVE  IInv'
  BY Front, KeepsPending DEF IInv, Typed, Down
-----------------------------------------------------------------------------
(***************************************************************************)
(* What the expressions and what follows them are made of.                 *)
(***************************************************************************)
LEMMA Parts ==
    ASSUME Typed, stack # <<>>
    PROVE  /\ Top = stack[1] /\ Top \in Frames
           /\ Top.do = "field" => Top.x \in Access
           /\ Top.do = "callee" => Top.x \in Nat
           /\ Top.do \in {"called", "store", "add"} => Top.x \in Vals
           /\ Top.do = "init" => Top.x \in Declared
  <1>1. Top = stack[1] /\ Top \in Frames
    BY DEF Typed, Top
  <1> QED
    BY <1>1 DEF Frames

LEMMA TypesOfTypes ==
    ASSUME NEW t \in Types
    PROVE  PointerTo(t) \in Types /\ Pointee(t) \in Types /\ LLVM(t) \in Names
  <1>1. t.base \in Bases /\ t.ptr \in Int
    BY DEF Types
  <1>2. PointerTo(t) \in Types
    BY <1>1 DEF PointerTo, Types
  <1>3. Pointee(t) \in Types
    BY <1>1 DEF Pointee, Types
  <1>4. LLVM(t) \in Names
    BY <1>1 DEF LLVM, Names
  <1> QED
    BY <1>2, <1>3, <1>4

LEMMA NewType == ASSUME NEW b \in Bases, NEW n \in Int PROVE T(b, n) \in Types
  BY DEF T, Types

LEMMA NewVal ==
    ASSUME NEW r \in Types, NEW t \in Names, NEW p \in Types PROVE Val(r, t, p) \in Vals
  BY DEF Val, Vals

LEMMA ValsOfVals ==
    ASSUME NEW v \in Vals, NEW r \in Types
    PROVE  /\ [v EXCEPT !.real = r] \in Vals
           /\ v.real \in Types /\ v.type \in Names /\ v.ptype \in Types
  BY DEF Vals

LEMMA Symbols ==
    /\ Declared \subseteq Types /\ Fields \subseteq Types /\ Variables \subseteq Vals
    /\ Function \in Vals /\ Method \in Vals
    /\ \A t \in Types : Local(t) \in Vals /\ FieldLoaded(t) \in Types
  <1>1. Declared \subseteq Types /\ Fields \subseteq Types
    BY NewType DEF Declared, Fields, Bases
  <1>2. \A t \in Types : Local(t) \in Vals
    BY TypesOfTypes, NewVal DEF Local, Names
  <1>3. \A t \in Types : FieldLoaded(t) \in Types
    BY NewType DEF FieldLoaded, Bases
  <1>4. \A t \in Types : Param(t) \in Vals
    <2> SUFFICES ASSUME NEW t \in Types PROVE Param(t) \in Vals
      OBVIOUS
    <2>1. t.base \in Bases
      BY DEF Types
    <2>2. PointerTo(t) \in Types
      BY TypesOfTypes
    <2> QED
      BY <2>1, <2>2, NewVal DEF Param, Names
  <1>5. Function \in Vals
    BY NewType, NewVal DEF Function, Fn, Bases, Names
  <1>6. Method \in Vals
    BY NewType, NewVal DEF Method, Fn, Bases, Names
  <1> QED
    BY <1>1, <1>2, <1>3, <1>4, <1>5, <1>6 DEF Variables

\* The frames that steps put on the stack.
LEMMA NewFrames ==
    /\ <<>> \in Seq(Frames) /\ <<Expr>> \in Seq(Frames)
    /\ \A op \in {"deref", "minus", "rhs", "addend"} : <<Expr, Rest(op)>> \in Seq(Frames)
    /\ \A n \in Nat : <<Expr, With("callee", n)>> \in Seq(Frames)
    /\ \A t \in Declared : <<Expr, With("init", t)>> \in Seq(Frames)
    /\ \A v \in Vals, d \in {"store", "add"} : <<Expr, With(d, v)>> \in Seq(Frames)
    /\ \A a \in Access : <<Expr, With("field", a)>> \in Seq(Frames)
    /\ \A v \in Vals, n \in Nat : [i \in 1..n |-> Expr] \o <<With("called", v)>> \in Seq(Frames)
  <1>1. Expr \in Frames /\ \A op \in {"deref", "minus", "rhs", "addend"} : Rest(op) \in Frames
    BY DEF Frames, Expr, Rest
  <1>2. \A n \in Nat : With("callee", n) \in Frames
    BY DEF Frames, With
  <1>3. \A t \in Declared : With("init", t) \in Frames
    BY DEF Frames, With
  <1>4. \A v \in Vals, d \in {"called", "store", "add"} : With(d, v) \in Frames
    BY DEF Frames, With
  <1>5. \A a \in Access : With("field", a) \in Frames
    BY DEF Frames, With
  <1>6. \A n \in Nat : [i \in 1..n |-> Expr] \in Seq(Frames)
    BY <1>1
  <1>7. \A v \in Vals, n \in Nat : [i \in 1..n |-> Expr] \o <<With("called", v)>> \in Seq(Frames)
    BY <1>4, <1>6
  <1> QED
    BY <1>1, <1>2, <1>3, <1>4, <1>5, <1>7
-----------------------------------------------------------------------------
LEMMA IInvInit == Init => IInv
  <1> SUFFICES ASSUME Init PROVE IInv
    OBVIOUS
  <1>1. val \in Vals
    BY NewType, NewVal DEF Init, Bases, Names
  <1> QED
    <2>1. stack = <<>> /\ stack \in Seq(Frames) /\ 1..Len(stack) = {}
      BY DEF Init
    <2>2. Pending
      BY <2>1 DEF Pending
    <2>3. Typed
      BY <1>1, <2>1 DEF Init, Typed
    <2>4. Down
      BY DEF Init, Down
    <2> QED
      BY <2>2, <2>3, <2>4 DEF IInv

-----------------------------------------------------------------------------
LEMMA NameValIsVal == ASSUME NEW v \in Vals PROVE NameVal(v) \in Vals
  <1>1. v.real \in Types /\ v.type \in Names /\ v.ptype \in Types
    BY DEF Vals
  <1>2. Pointee(v.real) \in Types /\ PointerTo(v.ptype) \in Types
    BY <1>1, TypesOfTypes
  <1>3. Loaded(v) \in Vals
    BY <1>1, <1>2, NewVal DEF Loaded
  <1>4. Address(v) \in Vals
    BY <1>1, <1>2, NewVal DEF Address, Names
  <1> QED
    BY <1>3, <1>4 DEF NameVal

LEMMA DerefIsVal == ASSUME Typed, Deref PROVE val' \in Vals
  <1>1. val \in Vals /\ val.real \in Types /\ val.type \in Names
    BY DEF Typed, Vals
  <1> DEFINE r == IF val.type # "ptr" THEN T(val.type, 0)
                  ELSE IF val.real.ptr > 1 THEN Pointee(val.real) ELSE T("junk", 1)
  <1>2. r \in Types
    <2>1. CASE val.type # "ptr"
      BY <1>1, <2>1, NewType DEF Names
    <2>2. CASE val.type = "ptr"
      BY <1>1, <2>2, NewType, TypesOfTypes DEF Bases
    <2> QED
      BY <2>1, <2>2
  <1>3. val' = [val EXCEPT !.real = r]
    BY DEF Deref, Returns
  <1> QED
    BY <1>1, <1>2, <1>3, ValsOfVals

-----------------------------------------------------------------------------
(***************************************************************************)
(* The actions that leave the flag alone.                                  *)
(***************************************************************************)
LEMMA LiteralKeeps == ASSUME IInv, Literal PROVE IInv'
  <1>1. stack # <<>> /\ Typed
    BY DEF Literal, Node, Busy, IInv
  <1>2. stack' = <<>> \o Tail(stack)
    BY DEF Literal, Then, Returns
  <1>3. <<>> \in Seq(Frames)
    BY NewFrames
  <1>4. \A i \in 1..Len(<<>>) : <<>>[i].do # "field"
    OBVIOUS
  <1>5. val' \in Vals
    BY <1>1, NewType, NewVal, TypesOfTypes DEF Literal, Returns, Bases, Names
  <1>6. stack[1].do \notin {"field", "rhs"} /\ UNCHANGED <<expect_load_addr, lowered>>
    BY <1>1, Parts DEF Literal, Node, Busy, KeepFlag
  <1> QED
    BY <1>1, <1>2, <1>3, <1>4, <1>5, <1>6, Neutral

LEMMA NameExprKeeps == ASSUME IInv, NameExpr PROVE IInv'
  <1>1. stack # <<>> /\ Typed
    BY DEF NameExpr, Node, Busy, IInv
  <1>2. stack' = <<>> \o Tail(stack)
    BY DEF NameExpr, Then, Returns
  <1>3. <<>> \in Seq(Frames)
    BY NewFrames
  <1>4. \A i \in 1..Len(<<>>) : <<>>[i].do # "field"
    OBVIOUS
  <1>5. val' \in Vals
    BY <1>1, Symbols, NameValIsVal DEF NameExpr, Returns
  <1>6. stack[1].do \notin {"field", "rhs"} /\ UNCHANGED <<expect_load_addr, lowered>>
    BY <1>1, Parts DEF NameExpr, Node, Busy, KeepFlag
  <1> QED
    BY <1>1, <1>2, <1>3, <1>4, <1>5, <1>6, Neutral

LEMMA CallExprKeeps == ASSUME IInv, CallExpr PROVE IInv'
  <1>1. stack # <<>> /\ Typed
    BY DEF CallExpr, Node, Busy, IInv
  <1>2. PICK n \in 0..MaxArgs : stack' = <<Expr, With("callee", n)>> \o Tail(stack)
    BY DEF CallExpr, Node, Busy, Then
  <1>3. <<Expr, With("callee", n)>> \in Seq(Frames)
    BY NewFrames, ArgsAssumption
  <1>4. \A i \in 1..Len(<<Expr, With("callee", n)>>) : <<Expr, With("callee", n)>>[i].do # "field"
    BY DEF Expr, Rest, With
  <1>5. val' \in Vals
    BY <1>1, Parts DEF CallExpr, IInv, Typed
  <1>6. stack[1].do \notin {"field", "rhs"} /\ UNCHANGED <<expect_load_addr, lowered>>
    BY <1>1, Parts DEF CallExpr, Node, Busy, KeepFlag
  <1> QED
    BY <1>1, <1>2, <1>3, <1>4, <1>5, <1>6, Neutral

LEMMA CalleeKeeps == ASSUME IInv, Callee PROVE IInv'
  <1> DEFINE args == [i \in 1..Top.x |-> Expr]
             s    == args \o <<With("called", val)>>
  <1>1. stack # <<>> /\ Typed /\ Top.x \in Nat /\ val \in Vals
    BY Parts DEF Callee, Busy, IInv, Typed
  <1>2. stack' = s \o Tail(stack)
    BY DEF Callee, Then
  <1>3. s \in Seq(Frames)
    BY <1>1, NewFrames
  <1>4. \A i \in 1..Len(s) : s[i].do # "field"
    <2>1. Expr.do # "field" /\ With("called", val).do # "field"
      BY DEF Expr, With
    <2>2. args \in Seq({Expr}) /\ Len(args) = Top.x
      BY <1>1
    <2>3. \A i \in 1..Len(s) : s[i] = Expr \/ s[i] = With("called", val)
      BY <1>1, <2>2
    <2> QED
      BY <2>1, <2>3
  <1>5. val' \in Vals
    BY <1>1 DEF Callee
  <1>6. stack[1].do \notin {"field", "rhs"} /\ UNCHANGED <<expect_load_addr, lowered>>
    BY <1>1, Parts DEF Callee, Busy, KeepFlag
  <1> HIDE DEF s
  <1> QED
    BY <1>1, <1>2, <1>3, <1>4, <1>5, <1>6, Neutral

LEMMA CalledKeeps == ASSUME IInv, Called PROVE IInv'
  <1>1. stack # <<>> /\ Typed
    BY DEF Called, Busy, IInv
  <1>2. stack' = <<>> \o Tail(stack)
    BY DEF Called, Then, Returns
  <1>3. <<>> \in Seq(Frames)
    BY NewFrames
  <1>4. \A i \in 1..Len(<<>>) : <<>>[i].do # "field"
    OBVIOUS
  <1>5. val' \in Vals
    BY <1>1, Parts, NewType, ValsOfVals DEF Called, Returns, Busy, Bases
  <1>6. stack[1].do \notin {"field", "rhs"} /\ UNCHANGED <<expect_load_addr, lowered>>
    BY <1>1, Parts DEF Called, Busy, KeepFlag
  <1> QED
    BY <1>1, <1>2, <1>3, <1>4, <1>5, <1>6, Neutral

LEMMA UnaryExprKeeps == ASSUME IInv, UnaryExpr PROVE IInv'
  <1>1. stack # <<>> /\ Typed
    BY DEF UnaryExpr, Node, Busy, IInv
  <1>2. PICK op \in {"deref", "minus"} : stack' = <<Expr, Rest(op)>> \o Tail(stack)
    BY DEF UnaryExpr, Node, Busy, Then
  <1>3. <<Expr, Rest(op)>> \in Seq(Frames)
    BY NewFrames
  <1>4. \A i \in 1..Len(<<Expr, Rest(op)>>) : <<Expr, Rest(op)>>[i].do # "field"
    BY DEF Expr, Rest, With
  <1>5. val' \in Vals
    BY <1>1, Parts DEF UnaryExpr, Typed
  <1>6. stack[1].do \notin {"field", "rhs"} /\ UNCHANGED <<expect_load_addr, lowered>>
    BY <1>1, Parts DEF UnaryExpr, Node, Busy, KeepFlag
  <1> QED
    BY <1>1, <1>2, <1>3, <1>4, <1>5, <1>6, Neutral

LEMMA DerefKeeps == ASSUME IInv, Deref PROVE IInv'
  <1>1. stack # <<>> /\ Typed
    BY DEF Deref, Busy, IInv
  <1>2. stack' = <<>> \o Tail(stack)
    BY DEF Deref, Then, Returns
  <1>3. <<>> \in Seq(Frames)
    BY NewFrames
  <1>4. \A i \in 1..Len(<<>>) : <<>>[i].do # "field"
    OBVIOUS
  <1>5. val' \in Vals
    BY <1>1, DerefIsVal DEF Deref, Returns, Typed
  <1>6. stack[1].do \notin {"field", "rhs"} /\ UNCHANGED <<expect_load_addr, lowered>>
    BY <1>1, Parts DEF Deref, Busy, KeepFlag
  <1> QED
    BY <1>1, <1>2, <1>3, <1>4, <1>5, <1>6, Neutral

LEMMA MinusKeeps == ASSUME IInv, Minus PROVE IInv'
  <1>1. stack # <<>> /\ Typed
    BY DEF Minus, Busy, IInv
  <1>2. stack' = <<>> \o Tail(stack)
    BY DEF Minus, Then, Returns
  <1>3. <<>> \in Seq(Frames)
    BY NewFrames
  <1>4. \A i \in 1..Len(<<>>) : <<>>[i].do # "field"
    OBVIOUS
  <1>5. val' \in Vals
    <2>1. Negated(val.real) \in Types
      BY <1>1, NewType DEF Negated, Typed, Vals, Bases
    <2> QED
      BY <1>1, <2>1, ValsOfVals DEF Minus, Returns, Typed
  <1>6. stack[1].do \notin {"field", "rhs"} /\ UNCHANGED <<expect_load_addr, lowered>>
    BY <1>1, Parts DEF Minus, Busy, KeepFlag
  <1> QED
    BY <1>1, <1>2, <1>3, <1>4, <1>5, <1>6, Neutral

LEMMA StoreKeeps == ASSUME IInv, Store PROVE IInv'
  <1>1. stack # <<>> /\ Typed
    BY DEF Store, Busy, IInv
  <1>2. stack' = <<>> \o Tail(stack)
    BY DEF Store, Then, Returns
  <1>3. <<>> \in Seq(Frames)
    BY NewFrames
  <1>4. \A i \in 1..Len(<<>>) : <<>>[i].do # "field"
    OBVIOUS
  <1>5. val' \in Vals
    BY <1>1, Parts, NewType, ValsOfVals DEF Store, Returns, Busy, Bases
  <1>6. stack[1].do \notin {"field", "rhs"} /\ UNCHANGED <<expect_load_addr, lowered>>
    BY <1>1, Parts DEF Store, Busy, KeepFlag
  <1> QED
    BY <1>1, <1>2, <1>3, <1>4, <1>5, <1>6, Neutral

LEMMA AddUpKeeps == ASSUME IInv, AddUp PROVE IInv'
  <1>1. stack # <<>> /\ Typed
    BY DEF AddUp, Busy, IInv
  <1>2. stack' = <<>> \o Tail(stack)
    BY DEF AddUp, Then, Returns
  <1>3. <<>> \in Seq(Frames)
    BY NewFrames
  <1>4. \A i \in 1..Len(<<>>) : <<>>[i].do # "field"
    OBVIOUS
  <1>5. val' \in Vals
    BY <1>1, Parts, NewType, ValsOfVals DEF AddUp, Returns, Busy, Bases, Integers
  <1>6. stack[1].do \notin {"field", "rhs"} /\ UNCHANGED <<expect_load_addr, lowered>>
    BY <1>1, Parts DEF AddUp, Busy, KeepFlag
  <1> QED
    BY <1>1, <1>2, <1>3, <1>4, <1>5, <1>6, Neutral

LEMMA InitExprKeeps == ASSUME IInv, InitExpr PROVE IInv'
  <1>1. stack # <<>> /\ Typed
    BY DEF InitExpr, Node, Busy, IInv
  <1>2. PICK t \in Declared : stack' = <<Expr, With("init", t)>> \o Tail(stack)
    BY DEF InitExpr, Node, Busy, Then
  <1>3. <<Expr, With("init", t)>> \in Seq(Frames)
    BY NewFrames
  <1>4. \A i \in 1..Len(<<Expr, With("init", t)>>) : <<Expr, With("init", t)>>[i].do # "field"
    BY DEF Expr, Rest, With
  <1>5. val' \in Vals
    BY <1>1, Parts DEF InitExpr, Typed
  <1>6. stack[1].do \notin {"field", "rhs"} /\ UNCHANGED <<expect_load_addr, lowered>>
    BY <1>1, Parts DEF InitExpr, Node, Busy, KeepFlag
  <1> QED
    BY <1>1, <1>2, <1>3, <1>4, <1>5, <1>6, Neutral

LEMMA UninitialisedKeeps == ASSUME IInv, Uninitialised PROVE IInv'
  <1>1. stack # <<>> /\ Typed
    BY DEF Uninitialised, Node, Busy, IInv
  <1>2. stack' = <<>> \o Tail(stack)
    BY DEF Uninitialised, Then, Returns
  <1>3. <<>> \in Seq(Frames)
    BY NewFrames
  <1>4. \A i \in 1..Len(<<>>) : <<>>[i].do # "field"
    OBVIOUS
  <1>5. val' \in Vals
    BY <1>1, Symbols DEF Uninitialised, Returns
  <1>6. stack[1].do \notin {"field", "rhs"} /\ UNCHANGED <<expect_load_addr, lowered>>
    BY <1>1, Parts DEF Uninitialised, Node, Busy, KeepFlag
  <1> QED
    BY <1>1, <1>2, <1>3, <1>4, <1>5, <1>6, Neutral

LEMMA InitialiseKeeps == ASSUME IInv, Initialise PROVE IInv'
  <1>1. stack # <<>> /\ Typed
    BY DEF Initialise, Busy, IInv
  <1>2. stack' = <<>> \o Tail(stack)
    BY DEF Initialise, Then, Returns
  <1>3. <<>> \in Seq(Frames)
    BY NewFrames
  <1>4. \A i \in 1..Len(<<>>) : <<>>[i].do # "field"
    OBVIOUS
  <1>5. val' \in Vals
    BY <1>1, Parts, Symbols DEF Initialise, Returns, Busy
  <1>6. stack[1].do \notin {"field", "rhs"} /\ UNCHANGED <<expect_load_addr, lowered>>
    BY <1>1, Parts DEF Initialise, Busy, KeepFlag
  <1> QED
    BY <1>1, <1>2, <1>3, <1>4, <1>5, <1>6, Neutral

(***************************************************************************)
(* The actions after which the flag is up, or down because of an & or a    *)
(* method.                                                                 *)
(***************************************************************************)
LEMMA MethodOfKeeps == ASSUME IInv, MethodOf PROVE IInv'
  <1>1. stack # <<>> /\ Typed
    BY DEF MethodOf, Busy, IInv
  <1>2. stack' = <<>> \o Tail(stack)
    BY DEF MethodOf, Then, Returns
  <1>3. <<>> \in Seq(Frames)
    BY NewFrames
  <1>4. \A i \in 1..Len(<<>>) : <<>>[i].do # "field"
    OBVIOUS
  <1>5. val' \in Vals
    BY <1>1, Symbols DEF MethodOf, Returns
  <1>6. expect_load_addr' \in BOOLEAN /\ lowered' \in BOOLEAN /\ (expect_load_addr' \/ lowered')
    BY <1>1 DEF MethodOf, Flag, Typed, IInv
  <1> QED
    BY <1>1, <1>2, <1>3, <1>4, <1>5, <1>6, Settled

LEMMA AddressOfKeeps == ASSUME IInv, AddressOf PROVE IInv'
  <1>1. stack # <<>> /\ Typed
    BY DEF AddressOf, Node, Busy, IInv
  <1>2. stack' = <<Expr>> \o Tail(stack)
    BY DEF AddressOf, Then
  <1>3. <<Expr>> \in Seq(Frames)
    BY NewFrames
  <1>4. \A i \in 1..Len(<<Expr>>) : <<Expr>>[i].do # "field"
    BY DEF Expr, Rest, With
  <1>5. val' \in Vals
    BY <1>1, Parts DEF AddressOf, Typed
  <1>6. expect_load_addr' \in BOOLEAN /\ lowered' \in BOOLEAN /\ (expect_load_addr' \/ lowered')
    BY <1>1 DEF AddressOf, Flag, Typed, IInv
  <1> QED
    BY <1>1, <1>2, <1>3, <1>4, <1>5, <1>6, Settled

LEMMA AssignRhsKeeps == ASSUME IInv, AssignRhs PROVE IInv'
  <1>1. stack # <<>> /\ Typed
    BY DEF AssignRhs, Busy, IInv
  <1>2. stack' = <<Expr, With("store", val)>> \o Tail(stack)
    BY DEF AssignRhs, Then
  <1>3. <<Expr, With("store", val)>> \in Seq(Frames)
    BY <1>1, NewFrames DEF Typed
  <1>4. \A i \in 1..Len(<<Expr, With("store", val)>>) : <<Expr, With("store", val)>>[i].do # "field"
    BY DEF Expr, Rest, With
  <1>5. val' \in Vals
    BY <1>1, Parts DEF AssignRhs, Typed
  <1>6. expect_load_addr' \in BOOLEAN /\ lowered' \in BOOLEAN /\ (expect_load_addr' \/ lowered')
    BY <1>1 DEF AssignRhs, Flag, Typed, IInv
  <1> QED
    BY <1>1, <1>2, <1>3, <1>4, <1>5, <1>6, Settled

LEMMA AddKeeps == ASSUME IInv, Add PROVE IInv'
  <1>1. stack # <<>> /\ Typed
    BY DEF Add, Node, Busy, IInv
  <1>2. stack' = <<Expr, Rest("addend")>> \o Tail(stack)
    BY DEF Add, Then
  <1>3. <<Expr, Rest("addend")>> \in Seq(Frames)
    BY NewFrames
  <1>4. \A i \in 1..Len(<<Expr, Rest("addend")>>) : <<Expr, Rest("addend")>>[i].do # "field"
    BY DEF Expr, Rest, With
  <1>5. val' \in Vals
    BY <1>1, Parts DEF Add, Typed
  <1>6. expect_load_addr' \in BOOLEAN /\ lowered' \in BOOLEAN /\ (expect_load_addr' \/ lowered')
    BY <1>1 DEF Add, Flag, Typed, IInv
  <1> QED
    BY <1>1, <1>2, <1>3, <1>4, <1>5, <1>6, Settled

LEMMA AddendKeeps == ASSUME IInv, Addend PROVE IInv'
  <1>1. stack # <<>> /\ Typed
    BY DEF Addend, Busy, IInv
  <1>2. stack' = <<Expr, With("add", val)>> \o Tail(stack)
    BY DEF Addend, Then
  <1>3. <<Expr, With("add", val)>> \in Seq(Frames)
    BY <1>1, NewFrames DEF Typed
  <1>4. \A i \in 1..Len(<<Expr, With("add", val)>>) : <<Expr, With("add", val)>>[i].do # "field"
    BY DEF Expr, Rest, With
  <1>5. val' \in Vals
    BY <1>1, Parts DEF Addend, Typed
  <1>6. expect_load_addr' \in BOOLEAN /\ lowered' \in BOOLEAN /\ (expect_load_addr' \/ lowered')
    BY <1>1 DEF Addend, Flag, Typed, IInv
  <1> QED
    BY <1>1, <1>2, <1>3, <1>4, <1>5, <1>6, Settled

(***************************************************************************)
(* The actions of the flag's own: the base of a field, its end, and the    *)
(* target of an assignment.                                                *)
(***************************************************************************)
LEMMA FieldExprKeeps == ASSUME IInv, FieldExpr PROVE IInv'
  <1>1. stack # <<>> /\ Typed /\ Top = stack[1] /\ Top.do = "expr"
    BY Parts DEF FieldExpr, Node, Busy, IInv
  <1>2. PICK arrow \in BOOLEAN :
          stack' = <<Expr, With("field", [load_after |-> expect_load_addr, auto_derref |-> arrow,
                                          lowered |-> lowered])>> \o Tail(stack)
    BY DEF FieldExpr, Then
  <1> DEFINE a == [load_after |-> expect_load_addr, auto_derref |-> arrow, lowered |-> lowered]
             s == <<Expr, With("field", a)>>
  <1>3. a \in Access /\ s \in Seq(Frames) /\ Len(s) = 2
    BY <1>1, NewFrames DEF Typed, Access
  <1>4. s[1].do = "expr" /\ s[2].do = "field" /\ s[2].x = a
    BY DEF Expr, With
  <1> HIDE DEF s
  <1>5. stack' = s \o Tail(stack)
    BY <1>2 DEF s
  <1>6. /\ stack' \in Seq(Frames) /\ Len(stack') = Len(stack) + 1
        /\ stack'[1] = s[1] /\ stack'[2] = s[2]
        /\ \A i \in 3..Len(stack') : stack'[i] = stack[i - 1]
        /\ \A i \in 2..Len(stack) : stack[i] = stack'[i + 1]
        /\ Len(stack) >= 1
    <2>1. stack \in Seq(Frames) /\ Len(stack) >= 1
      BY <1>1 DEF Typed
    <2>2. /\ stack' \in Seq(Frames) /\ Len(stack') = Len(s) + Len(stack) - 1
          /\ \A i \in 1..Len(s) : stack'[i] = s[i]
          /\ \A i \in Len(s) + 1..Len(stack') : stack'[i] = stack[i - Len(s) + 1]
          /\ \A i \in 2..Len(stack) : stack[i] = stack'[i + Len(s) - 1]
      BY <1>1, <1>3, <1>5, <2>1, Front
    <2> QED
      BY <1>3, <2>1, <2>2
  <1>7. Typed'
    BY <1>1, <1>6 DEF Typed, FieldExpr, Flag
  <1>8. Down'
    BY <1>4, <1>6 DEF Down, Inside
  <1>9. \A n \in 1..Len(stack) : Inside(stack, n + 1) => Inside(stack', n + 2)
    <2> SUFFICES ASSUME NEW n \in 1..Len(stack), Inside(stack, n + 1) PROVE Inside(stack', n + 2)
      OBVIOUS
    <2>1. PICK j \in n + 1..Len(stack) : stack[j].do \in {"field", "rhs"}
      BY DEF Inside
    <2>2. j + 1 \in n + 2..Len(stack') /\ stack'[j + 1] = stack[j]
      BY <2>1, <1>6
    <2> QED
      BY <2>1, <2>2 DEF Inside
  <1>10. Pending'
    <2> SUFFICES ASSUME NEW i \in 1..Len(stack'), stack'[i].do = "field", ~stack'[i].x.load_after
                 PROVE  stack'[i].x.lowered \/ Inside(stack', i + 1)
      BY DEF Pending, Inside
    <2>1. CASE i = 1
      BY <2>1, <1>4, <1>6
    <2>2. CASE i = 2
      <3>1. ~expect_load_addr /\ stack'[i].x.lowered = lowered
        BY <2>2, <1>4, <1>6
      <3>2. CASE Inside(stack, 1)
        <4>1. Inside(stack, 2)
          <5>1. PICK j \in 1..Len(stack) : stack[j].do \in {"field", "rhs"}
            BY <3>2 DEF Inside
          <5>2. j # 1
            BY <5>1, <1>1
          <5> QED
            BY <5>1, <5>2 DEF Inside
        <4>2. Inside(stack', 3)
          BY <4>1, <1>6, <1>9
        <4> QED
          BY <2>2, <4>2
      <3> QED
        BY <3>1, <3>2, <1>1 DEF IInv, Down
    <2>3. CASE i >= 3
      <3>1. stack'[i] = stack[i - 1] /\ i - 1 \in 1..Len(stack)
        BY <2>3, <1>6
      <3>2. stack[i - 1].x.lowered \/ Inside(stack, (i - 1) + 1)
        BY <3>1 DEF IInv, Pending
      <3>3. Inside(stack, (i - 1) + 1) => Inside(stack', i + 1)
        BY <3>1, <1>9
      <3> QED
        BY <3>1, <3>2, <3>3
    <2> QED
      BY <2>1, <2>2, <2>3
  <1> QED
    BY <1>7, <1>8, <1>10 DEF IInv

LEMMA FieldOfKeeps == ASSUME IInv, FieldOf PROVE IInv'
  <1>1. stack # <<>> /\ Typed /\ Pending /\ Top = stack[1] /\ Top.do = "field" /\ Top.x \in Access
    BY Parts DEF FieldOf, Busy, IInv
  <1>2. stack' = <<>> \o Tail(stack) /\ <<>> \in Seq(Frames)
    BY NewFrames DEF FieldOf, Returns, Then
  <1>3. /\ stack' \in Seq(Frames) /\ Len(stack) >= 1 /\ Len(stack') = Len(stack) - 1
        /\ \A i \in 2..Len(stack) : stack[i] = stack'[i - 1]
    BY <1>1, <1>2, Front DEF Typed
  <1>4. val' \in Vals
    <2>1. PICK t \in Fields :
            val' = IF Top.x.load_after THEN Val(FieldLoaded(t), LLVM(FieldLoaded(t)), t)
                   ELSE Val(PointerTo(t), "ptr", PointerTo(t))
      BY DEF FieldOf, Returns
    <2>2. t \in Types /\ FieldLoaded(t) \in Types /\ PointerTo(t) \in Types
      BY Symbols, TypesOfTypes
    <2>3. LLVM(FieldLoaded(t)) \in Names /\ "ptr" \in Names
      BY <2>2, TypesOfTypes DEF Names
    <2>4. /\ Val(FieldLoaded(t), LLVM(FieldLoaded(t)), t) \in Vals
          /\ Val(PointerTo(t), "ptr", PointerTo(t)) \in Vals
      BY <2>2, <2>3, NewVal
    <2> QED
      BY <2>1, <2>4
  <1>5. expect_load_addr' = Top.x.load_after /\ lowered' = Top.x.lowered
    BY DEF FieldOf, Flag
  <1>6. Typed'
    BY <1>1, <1>3, <1>4, <1>5 DEF Typed, Access
  <1>7. Pending'
    <2>1. \A i \in 1..Len(<<>>) : <<>>[i].do # "field"
      OBVIOUS
    <2> QED
      BY <1>1, <1>2, <2>1, KeepsPending DEF Typed
  <1>8. Down'
    <2> SUFFICES ASSUME ~Top.x.load_after, ~Top.x.lowered PROVE Inside(stack', 1)
      BY <1>5 DEF Down, Inside
    <2>1. Inside(stack, 1 + 1)
      BY <1>1, <1>3 DEF Pending
    <2>2. PICK j \in 2..Len(stack) : stack[j].do \in {"field", "rhs"}
      BY <2>1 DEF Inside
    <2>3. j - 1 \in 1..Len(stack') /\ stack'[j - 1] = stack[j]
      BY <2>2, <1>3
    <2> QED
      BY <2>2, <2>3 DEF Inside
  <1> QED
    BY <1>6, <1>7, <1>8 DEF IInv

LEMMA AssignKeeps == ASSUME IInv, Assign PROVE IInv'
  <1> DEFINE s == <<Expr, Rest("rhs")>>
  <1>1. stack # <<>> /\ Typed /\ Pending
    BY DEF Assign, Node, Busy, IInv
  <1>2. stack' = s \o Tail(stack)
    BY DEF Assign, Then
  <1>3. s \in Seq(Frames) /\ Len(s) = 2
    BY NewFrames
  <1>4. (\A i \in 1..Len(s) : s[i].do # "field") /\ s[2].do = "rhs"
    BY DEF Expr, Rest
  <1> HIDE DEF s
  <1>5. stack' \in Seq(Frames) /\ Len(stack') >= 2 /\ stack'[2] = s[2]
    <2>1. stack \in Seq(Frames) /\ Len(stack) >= 1
      BY <1>1 DEF Typed
    <2>2. /\ stack' \in Seq(Frames) /\ Len(stack') = Len(s) + Len(stack) - 1
          /\ \A i \in 1..Len(s) : stack'[i] = s[i]
      BY <1>1, <1>2, <1>3, <2>1, Front
    <2> QED
      BY <1>3, <2>1, <2>2
  <1>6. Pending'
    BY <1>1, <1>2, <1>3, <1>4, KeepsPending DEF Typed
  <1>7. Typed'
    BY <1>1, <1>5 DEF Typed, Assign, Flag
  <1>8. Down'
    BY <1>4, <1>5 DEF Down, Inside
  <1> QED
    BY <1>6, <1>7, <1>8 DEF IInv

LEMMA StatementKeeps == ASSUME IInv, Statement PROVE IInv'
  <1>1. stack' = <<Expr>> /\ stack' \in Seq(Frames) /\ Len(stack') = 1 /\ stack'[1].do # "field"
    BY NewFrames DEF Statement, Expr
  <1>2. Typed'
    BY <1>1 DEF IInv, Typed, Statement, Rewind, Flag
  <1>3. Pending'
    BY <1>1 DEF Pending
  <1>4. Down'
    BY DEF Down, Statement, Rewind, Flag
  <1> QED
    BY <1>2, <1>3, <1>4 DEF IInv

LEMMA StopsKeep ==
    ASSUME IInv, UNCHANGED <<stack, val, expect_load_addr, lowered>> PROVE IInv'
  BY DEF IInv, Typed, Pending, Down, Inside
-----------------------------------------------------------------------------
LEMMA IInvStep == ASSUME IInv, Next PROVE IInv'
  <1>1. CASE NoStruct \/ NullBase \/ NotCalled \/ NoDeref \/ NoAdd \/ Unknown \/ Stopped
    BY <1>1, StopsKeep DEF NoStruct, NullBase, NotCalled, NoDeref, NoAdd, Unknown, Stopped, Ends, vars
  <1> QED
    BY <1>1, StatementKeeps, LiteralKeeps, NameExprKeeps, FieldExprKeeps, FieldOfKeeps, MethodOfKeeps,
       CallExprKeeps, CalleeKeeps, CalledKeeps, AddressOfKeeps, UnaryExprKeeps, DerefKeeps,
       MinusKeeps, AssignKeeps, AssignRhsKeeps, StoreKeeps, AddKeeps, AddendKeeps, AddUpKeeps,
       InitExprKeeps, InitialiseKeeps, UninitialisedKeeps DEF Next

(***************************************************************************)
(* However deep the expressions, and with any number of arguments in a     *)
(* call, expect_load_addr is down only where something that lowered it is  *)
(* still being compiled, or after an & or a method in the same statement.  *)
(***************************************************************************)
THEOREM FlagNeverLeftOver == Spec => []FlagAccounted
  <1>1. IInv => FlagAccounted
    BY DEF IInv, Typed, Down, Inside, FlagAccounted
  <1>2. IInv /\ UNCHANGED vars => IInv'
    BY StopsKeep DEF vars
  <1> QED
    BY IInvInit, IInvStep, <1>1, <1>2, PTL DEF Spec
-----------------------------------------------------------------------------
(***************************************************************************)
(* The type that a Val claims.  A function is called through a Val that    *)
(* was computed before its arguments, so the invariant is also about the   *)
(* callees that are pending: the only values that can be called are a      *)
(* function by its name and a method.                                      *)
(***************************************************************************)
Real(v) ==
    \/ v.type = LLVM(v.real)
    \/ v.ptype.base = "proc" \/ v.real = T("void", 0)
    \/ v = [Function EXCEPT !.real = T("i64", 0)]

OnlyFn(v) ==
    /\ v.real.base = "fn" => v.real.ptr <= 1
    /\ v.real = Fn => v = Function \/ v.ptype.base = "proc"

RealInv == /\ Real(val) /\ OnlyFn(val)
           /\ \A i \in 1..Len(stack) : stack[i].do = "called" => OnlyFn(stack[i].x)

\* What a step puts on the stack is to be looked at, and what it returns.
LEMMA RealKept ==
    ASSUME stack \in Seq(Frames), stack # <<>>, RealInv,
           NEW s \in Seq(Frames), stack' = s \o Tail(stack),
           \A i \in 1..Len(s) : s[i].do = "called" => OnlyFn(s[i].x),
           Real(val'), OnlyFn(val')
    PROVE  RealInv'
  <1> SUFFICES ASSUME NEW i \in 1..Len(stack'), stack'[i].do = "called"
               PROVE  OnlyFn(stack'[i].x)
    BY DEF RealInv, Real, OnlyFn
  <1>1. CASE i \in 1..Len(s)
    BY <1>1, Front
  <1>2. CASE i \notin 1..Len(s)
    <2>1. i \in Len(s) + 1..Len(stack') /\ i - Len(s) + 1 \in 1..Len(stack)
      BY <1>2, Front
    <2> QED
      BY <2>1, Front DEF RealInv
  <1> QED
    BY <1>1, <1>2

\* The steps that go on with a part of an expression return nothing.
LEMMA PartKept ==
    ASSUME stack \in Seq(Frames), stack # <<>>, RealInv, val' = val,
           NEW f, <<Expr, f>> \in Seq(Frames), f.do # "called",
           stack' = <<Expr, f>> \o Tail(stack)
    PROVE  RealInv'
  <1> DEFINE s == <<Expr, f>>
  <1>1. s \in Seq(Frames) /\ \A i \in 1..Len(s) : s[i].do # "called"
    BY DEF Expr
  <1> HIDE DEF s
  <1>2. stack' = s \o Tail(stack)
    BY DEF s
  <1>3. Real(val') /\ OnlyFn(val')
    BY DEF RealInv
  <1> QED
    BY <1>1, <1>2, <1>3, RealKept

LEMMA PartsKeepReal ==
    ASSUME IInv, RealInv,
           \/ FieldExpr \/ CallExpr \/ AddressOf \/ UnaryExpr \/ Assign \/ AssignRhs
           \/ Add \/ Addend \/ InitExpr
    PROVE  RealInv'
  <1>1. stack # <<>> /\ stack \in Seq(Frames) /\ val' = val /\ val \in Vals
        /\ expect_load_addr \in BOOLEAN /\ lowered \in BOOLEAN
    BY DEF FieldExpr, CallExpr, AddressOf, UnaryExpr, Assign, AssignRhs, Add, Addend, InitExpr,
           Node, Busy, IInv, Typed
  <1>2. \A op : Rest(op).do = op /\ \A x : With(op, x).do = op
    BY DEF Rest, With
  <1>3. CASE FieldExpr
    <2>1. PICK a \in Access : stack' = <<Expr, With("field", a)>> \o Tail(stack)
      BY <1>1, <1>3 DEF FieldExpr, Then, Access
    <2>2. <<Expr, With("field", a)>> \in Seq(Frames) /\ With("field", a).do # "called"
      BY <1>2, NewFrames
    <2> QED
      BY <1>1, <2>1, <2>2, PartKept
  <1>4. CASE CallExpr
    <2>1. PICK n \in Nat : stack' = <<Expr, With("callee", n)>> \o Tail(stack)
      <3>1. PICK n \in 0..MaxArgs : Then(<<Expr, With("callee", n)>>)
        BY <1>4 DEF CallExpr
      <3>2. n \in Nat
        BY ArgsAssumption
      <3> QED
        BY <3>1, <3>2 DEF Then
    <2>2. <<Expr, With("callee", n)>> \in Seq(Frames) /\ With("callee", n).do # "called"
      BY <1>2, NewFrames
    <2> QED
      BY <1>1, <2>1, <2>2, PartKept
  <1>5. CASE AddressOf
    <2> DEFINE s == <<Expr>>
    <2>1. s \in Seq(Frames) /\ stack' = s \o Tail(stack)
      BY <1>5, NewFrames DEF AddressOf, Then
    <2>2. \A i \in 1..Len(s) : s[i].do # "called"
      BY DEF Expr
    <2>3. Real(val') /\ OnlyFn(val')
      BY <1>1 DEF RealInv
    <2> HIDE DEF s
    <2> QED
      BY <1>1, <2>1, <2>2, <2>3, RealKept
  <1>6. CASE UnaryExpr
    <2>1. PICK op \in {"deref", "minus"} : Then(<<Expr, Rest(op)>>)
      BY <1>6 DEF UnaryExpr
    <2>2. stack' = <<Expr, Rest(op)>> \o Tail(stack)
      BY <2>1 DEF Then
    <2>3. <<Expr, Rest(op)>> \in Seq(Frames) /\ Rest(op).do # "called"
      BY <1>2, <2>1, NewFrames
    <2> QED
      BY <1>1, <2>2, <2>3, PartKept
  <1>7. CASE Assign
    <2>1. stack' = <<Expr, Rest("rhs")>> \o Tail(stack)
      BY <1>7 DEF Assign, Then
    <2>2. <<Expr, Rest("rhs")>> \in Seq(Frames) /\ Rest("rhs").do # "called"
      BY <1>1, <1>2, NewFrames
    <2> QED
      BY <1>1, <2>1, <2>2, PartKept
  <1>8. CASE AssignRhs
    <2>1. stack' = <<Expr, With("store", val)>> \o Tail(stack)
      BY <1>8 DEF AssignRhs, Then
    <2>2. <<Expr, With("store", val)>> \in Seq(Frames) /\ With("store", val).do # "called"
      BY <1>1, <1>2, NewFrames
    <2> QED
      BY <1>1, <2>1, <2>2, PartKept
  <1>9. CASE Add
    <2>1. stack' = <<Expr, Rest("addend")>> \o Tail(stack)
      BY <1>9 DEF Add, Then
    <2>2. <<Expr, Rest("addend")>> \in Seq(Frames) /\ Rest("addend").do # "called"
      BY <1>1, <1>2, NewFrames
    <2> QED
      BY <1>1, <2>1, <2>2, PartKept
  <1>10. CASE Addend
    <2>1. stack' = <<Expr, With("add", val)>> \o Tail(stack)
      BY <1>10 DEF Addend, Then
    <2>2. <<Expr, With("add", val)>> \in Seq(Frames) /\ With("add", val).do # "called"
      BY <1>1, <1>2, NewFrames
    <2> QED
      BY <1>1, <2>1, <2>2, PartKept
  <1>11. CASE InitExpr
    <2>1. PICK t \in Declared : stack' = <<Expr, With("init", t)>> \o Tail(stack)
      <3>1. PICK t \in Declared : Then(<<Expr, With("init", t)>>)
        BY <1>11 DEF InitExpr
      <3> QED
        BY <3>1 DEF Then
    <2>2. <<Expr, With("init", t)>> \in Seq(Frames) /\ With("init", t).do # "called"
      BY <1>2, NewFrames
    <2> QED
      BY <1>1, <2>1, <2>2, PartKept
  <1> QED
    BY <1>3, <1>4, <1>5, <1>6, <1>7, <1>8, <1>9, <1>10, <1>11

LEMMA CalleeKeepsReal == ASSUME IInv, RealInv, Callee PROVE RealInv'
  <1>1. stack # <<>> /\ Typed /\ stack \in Seq(Frames) /\ val' = val /\ val \in Vals
    BY DEF Callee, Busy, IInv, Typed
  <1>2. Top.x \in Nat
    BY <1>1, Parts DEF Callee, Busy
  <1> DEFINE s == [i \in 1..Top.x |-> Expr] \o <<With("called", val)>>
  <1>3. s \in Seq(Frames)
    BY <1>1, <1>2, NewFrames
  <1>4. ASSUME NEW i \in 1..Len(s), s[i].do = "called" PROVE s[i].x = val
    <2>1. s[i] = Expr \/ s[i] = With("called", val)
      BY <1>2
    <2>2. Expr.do = "expr" /\ With("called", val).x = val
      BY DEF Expr, With
    <2> QED
      BY <1>4, <2>1, <2>2
  <1>5. stack' = s \o Tail(stack)
    BY DEF Callee, Then
  <1> HIDE DEF s
  <1> QED
    BY <1>1, <1>3, <1>4, <1>5, RealKept DEF RealInv
-----------------------------------------------------------------------------
\* What a name, a field, a call and an operator return.
LEMMA NameReal ==
    ASSUME NEW v \in Variables
    PROVE  Real(NameVal(v)) /\ OnlyFn(NameVal(v))
  <1>1. PICK t \in Declared : v = Param(t) \/ v = Local(t)
    BY DEF Variables
  <1>2. t \in Types /\ t.base # "fn" /\ t.base # "ptr" /\ t.ptr >= 0 /\ t.ptr \in Int
    BY <1>1, Symbols DEF Declared, T
  <1> QED
    BY <1>1, <1>2 DEF NameVal, Loaded, Address, Param, Local, Val, Real, OnlyFn, LLVM, IsPtr,
                      PointerTo, Pointee, Types, Fn, T

LEMMA LocalReal ==
    ASSUME NEW t \in Declared
    PROVE  Real(Local(t)) /\ OnlyFn(Local(t))
  <1>1. t.base # "fn" /\ t.ptr >= 0 /\ t.ptr \in Int /\ t \in Types
    BY Symbols DEF Declared, T
  <1> QED
    BY <1>1 DEF Local, Val, Real, OnlyFn, LLVM, IsPtr, PointerTo, T, Fn, Types

LEMMA FieldReal ==
    ASSUME NEW t \in Fields
    PROVE  /\ Real(Val(FieldLoaded(t), LLVM(FieldLoaded(t)), t))
           /\ OnlyFn(Val(FieldLoaded(t), LLVM(FieldLoaded(t)), t))
           /\ Real(Val(PointerTo(t), "ptr", PointerTo(t)))
           /\ OnlyFn(Val(PointerTo(t), "ptr", PointerTo(t)))
  <1>1. t \in Types /\ t.base # "fn" /\ t.ptr >= 0 /\ t.ptr \in Int
    BY Symbols DEF Fields, T
  <1>2. FieldLoaded(t).base # "fn"
    BY <1>1 DEF FieldLoaded, T
  <1> QED
    BY <1>1, <1>2 DEF Val, Real, OnlyFn, LLVM, IsPtr, PointerTo, Types, Fn, T

LEMMA CalledReal ==
    ASSUME NEW v \in Vals, OnlyFn(v), v.real = Fn
    PROVE  Real([v EXCEPT !.real = T("i64", 0)]) /\ OnlyFn([v EXCEPT !.real = T("i64", 0)])
  BY DEF Real, OnlyFn, Vals, Fn, T

LEMMA DerefReal ==
    ASSUME NEW v \in Vals, OnlyFn(v)
    PROVE  LET r == IF v.type # "ptr" THEN T(v.type, 0)
                    ELSE IF v.real.ptr > 1 THEN Pointee(v.real) ELSE T("junk", 1)
           IN  Real([v EXCEPT !.real = r]) /\ OnlyFn([v EXCEPT !.real = r])
  <1>1. v.real \in Types /\ v.type \in Names
    BY DEF Vals
  <1>2. CASE v.type # "ptr"
    BY <1>1, <1>2 DEF Vals, Real, OnlyFn, LLVM, IsPtr, T, Fn
  <1>3. CASE v.type = "ptr" /\ v.real.ptr > 1
    BY <1>1, <1>3 DEF Vals, Real, OnlyFn, LLVM, IsPtr, T, Fn, Pointee, Types
  <1>4. CASE v.type = "ptr" /\ ~(v.real.ptr > 1)
    BY <1>1, <1>4 DEF Vals, Real, OnlyFn, LLVM, IsPtr, T, Fn
  <1> QED
    BY <1>2, <1>3, <1>4

\* What is negated can not be called.
LEMMA NegatedReal ==
    ASSUME NEW v \in Vals, Real(v), OnlyFn(v)
    PROVE  /\ Real([v EXCEPT !.real = Negated(v.real)])
           /\ OnlyFn([v EXCEPT !.real = Negated(v.real)])
  <1>1. v.real \in Types /\ v.type \in Names
    BY DEF Vals
  <1>2. CASE v.real # Fn
    BY <1>2 DEF Negated, Vals
  <1>3. CASE v.real = Fn
    BY <1>1, <1>3 DEF Negated, Vals, Real, OnlyFn, LLVM, IsPtr, T, Fn, Function, Val
  <1> QED
    BY <1>2, <1>3

LEMMA ReturnsReal ==
    ASSUME IInv, RealInv, stack # <<>>,
           \/ Literal \/ NameExpr \/ FieldOf \/ MethodOf \/ Called \/ Deref \/ Minus
           \/ Store \/ AddUp \/ Initialise \/ Uninitialised
    PROVE  Real(val') /\ OnlyFn(val')
  <1>0. Typed /\ val \in Vals /\ Real(val) /\ OnlyFn(val)
    BY DEF IInv, Typed, RealInv
  <1>1. CASE Literal
    BY <1>1 DEF Literal, Returns, Val, Real, OnlyFn, T, Fn
  <1>2. CASE NameExpr
    <2>1. Real(Function) /\ OnlyFn(Function)
      BY DEF Function, Real, OnlyFn, LLVM, IsPtr, Fn, T, Val
    <2> QED
      BY <1>2, <2>1, NameReal DEF NameExpr, Returns
  <1>3. CASE FieldOf
    BY <1>3, FieldReal DEF FieldOf, Returns
  <1>4. CASE MethodOf
    BY <1>4 DEF MethodOf, Returns, Method, Val, Real, OnlyFn, T, Fn
  <1>5. CASE Called
    <2>1. Top.do = "called" /\ Top = stack[1] /\ Top.x \in Vals /\ 1 \in 1..Len(stack)
      BY <1>0, <1>5, Parts DEF Called, Busy, Typed
    <2>2. OnlyFn(Top.x)
      BY <2>1 DEF RealInv
    <2> QED
      BY <1>5, <2>1, <2>2, CalledReal DEF Called, Returns
  <1>6. CASE Deref
    BY <1>0, <1>6, DerefReal DEF Deref, Returns
  <1>7. CASE Minus
    BY <1>0, <1>7, NegatedReal DEF Minus, Returns
  <1>8. CASE Store
    <2>1. Top.x \in Vals
      BY <1>0, <1>8, Parts DEF Store, Busy
    <2> QED
      BY <1>8, <2>1 DEF Store, Returns, Vals, Real, OnlyFn, T, Fn
  <1>9. CASE AddUp
    <2>1. Top.x \in Vals
      BY <1>0, <1>9, Parts DEF AddUp, Busy
    <2> QED
      BY <1>9, <2>1 DEF AddUp, Returns, Vals, Real, OnlyFn, LLVM, IsPtr, T, Fn, Integers
  <1>10. CASE Initialise
    <2>1. Top.x \in Declared
      BY <1>0, <1>10, Parts DEF Initialise, Busy
    <2> QED
      BY <1>10, <2>1, LocalReal DEF Initialise, Returns
  <1>11. CASE Uninitialised
    BY <1>11, LocalReal DEF Uninitialised, Returns
  <1> QED
    BY <1>1, <1>2, <1>3, <1>4, <1>5, <1>6, <1>7, <1>8, <1>9, <1>10, <1>11

LEMMA RealStep == ASSUME IInv, RealInv, Next PROVE RealInv'
  <1>0. stack \in Seq(Frames)
    BY DEF IInv, Typed
  <1>1. CASE Statement
    BY <1>1 DEF Statement, RealInv, Real, OnlyFn, Expr
  <1>2. CASE \/ FieldExpr \/ CallExpr \/ AddressOf \/ UnaryExpr \/ Assign \/ AssignRhs
             \/ Add \/ Addend \/ InitExpr
    BY <1>2, PartsKeepReal
  <1>3. CASE Callee
    BY <1>3, CalleeKeepsReal
  <1>4. CASE \/ Literal \/ NameExpr \/ FieldOf \/ MethodOf \/ Called \/ Deref \/ Minus
             \/ Store \/ AddUp \/ Initialise \/ Uninitialised
    <2>1. stack # <<>> /\ stack' = <<>> \o Tail(stack)
      BY <1>4 DEF Literal, NameExpr, FieldOf, MethodOf, Called, Deref, Minus, Store, AddUp,
                  Initialise, Uninitialised, Node, Busy, Returns, Then
    <2>2. Real(val') /\ OnlyFn(val')
      BY <1>4, <2>1, ReturnsReal
    <2>3. <<>> \in Seq(Frames) /\ \A i \in 1..Len(<<>>) : <<>>[i].do = "called" => OnlyFn(<<>>[i].x)
      BY NewFrames
    <2> QED
      BY <1>0, <2>1, <2>2, <2>3, RealKept
  <1>5. CASE UNCHANGED <<stack, val>>
    BY <1>5 DEF RealInv, Real, OnlyFn
  <1> QED
    BY <1>1, <1>2, <1>3, <1>4, <1>5 DEF Next, NoStruct, NullBase, NotCalled, NoDeref, NoAdd,
       Unknown, Stopped, Ends, vars

(***************************************************************************)
(* Of every expression, however deep, the LLVM type that the Val returned  *)
(* claims is the type of its value, but for the three kinds of Val that    *)
(* TypeIsReal names: compile_expr's users read Val::type as the type of    *)
(* Val::value.                                                             *)
(***************************************************************************)
THEOREM TypesAreReal == Spec => []TypeIsReal
  <1>1. Init => RealInv
    BY DEF Init, RealInv, Real, OnlyFn, Val, T, Fn
  <1>2. IInv /\ RealInv /\ [Next]_vars => IInv' /\ RealInv'
    <2>1. IInv /\ RealInv /\ UNCHANGED vars => IInv' /\ RealInv'
      BY StopsKeep DEF vars, RealInv, Real, OnlyFn
    <2> QED
      BY <2>1, IInvStep, RealStep
  <1>3. RealInv => TypeIsReal
    BY DEF RealInv, Real, TypeIsReal
  <1> QED
    BY IInvInit, <1>1, <1>2, <1>3, PTL DEF Spec
=============================================================================
