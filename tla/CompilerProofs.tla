---------------------------- MODULE CompilerProofs ----------------------------
(***************************************************************************)
(* Proofs about Compiler, for every set of names, structs and files and    *)
(* every bound on parameters, functions and depth.                         *)
(***************************************************************************)
EXTENDS Compiler, SequenceTheorems, TLAPS

(***************************************************************************)
(* The operations on the tables as the pass sees them: what they do to the *)
(* two stacks, level by level.                                             *)
(***************************************************************************)
Pushed(s, t) == /\ Len(t) = Len(s) + 1
                /\ \A i \in 1..Len(s) : t[i] = s[i]
                /\ s # <<>> => t[Len(s) + 1] = s[Len(s)]

Popped(s, t) == /\ s # <<>>
                /\ Len(t) = Len(s) - 1
                /\ \A i \in 1..(Len(s) - 1) : t[i] = s[i]

Defined(s, t, x) == /\ s # <<>>
                    /\ Len(t) = Len(s)
                    /\ \A i \in 1..(Len(s) - 1) : t[i] = s[i]
                    /\ S!Has(t[Len(s)], x.name)
                    /\ \A n : S!Has(s[Len(s)], n) => S!Has(t[Len(s)], n)
                    /\ S!Syms(t[Len(s)]) \subseteq S!Syms(s[Len(s)]) \cup {x}

(***************************************************************************)
(* Pushing a copy of the innermost table.                                  *)
(***************************************************************************)
LEMMA PushShape ==
  ASSUME NEW T, NEW s \in Seq(Seq(T))
  PROVE  S!EnterStack(s) \in Seq(Seq(T)) /\ Pushed(s, S!EnterStack(s))
BY DEF S!EnterStack, S!Back, Pushed

(***************************************************************************)
(* Popping the innermost table.                                            *)
(***************************************************************************)
LEMMA PopShape ==
  ASSUME NEW T, NEW s \in Seq(Seq(T)), s # <<>>
  PROVE  S!Pop(s) \in Seq(Seq(T)) /\ Popped(s, S!Pop(s))
<1> DEFINE m == Len(s) - 1
<1>1. m \in Nat /\ \A i \in 1..m : s[i] \in Seq(T)
  OBVIOUS
<1> HIDE DEF m
<1>2. /\ SubSeq(s, 1, m) \in Seq(Seq(T))
      /\ Len(SubSeq(s, 1, m)) = IF 1 <= m THEN m - 1 + 1 ELSE 0
      /\ \A i \in 1..(m - 1 + 1) : SubSeq(s, 1, m)[i] = s[1 + i - 1]
  BY <1>1, SubSeqProperties
<1> DEFINE p == SubSeq(s, 1, m)
<1> HIDE DEF p
<1>3. p \in Seq(Seq(T)) /\ Len(p) = m
  BY <1>1, <1>2 DEF p
<1>4. \A i \in 1..m : p[i] = s[i]
  <2>1. \A i \in 1..m : i \in 1..(m - 1 + 1) /\ 1 + i - 1 = i
    BY <1>1
  <2> QED
    BY <2>1, <1>2 DEF p
<1> QED
  BY <1>3, <1>4 DEF S!Pop, Popped, p, m

(***************************************************************************)
(* Defining a symbol in the innermost table.                               *)
(***************************************************************************)
LEMMA DefineShape ==
  ASSUME NEW T, NEW s \in Seq(Seq(T)), s # <<>>, NEW x \in T
  PROVE  LET t == [s EXCEPT ![Len(s)] = S!TableDefine(@, x)] IN
           t \in Seq(Seq(T)) /\ Defined(s, t, x)
<1> DEFINE a == s[Len(s)]
           b == S!TableDefine(a, x)
           t == [s EXCEPT ![Len(s)] = b]
<1>1. a \in Seq(T) /\ Len(s) \in DOMAIN s /\ Len(s) \in Nat
  OBVIOUS
<1>2. /\ b \in Seq(T)
      /\ S!Has(b, x.name)
      /\ \A n : S!Has(a, n) => S!Has(b, n)
      /\ S!Syms(b) \subseteq S!Syms(a) \cup {x}
  <2>1. CASE S!Has(a, x.name)
    BY <1>1, <2>1 DEF S!TableDefine
  <2>2. CASE ~S!Has(a, x.name)
    <3>1. b = Append(a, x)
      BY <2>2 DEF S!TableDefine
    <3> HIDE DEF a, b
    <3>2. /\ b \in Seq(T) /\ Len(b) = Len(a) + 1 /\ b[Len(a) + 1] = x
          /\ \A k \in 1..Len(a) : b[k] = a[k]
      BY <1>1, <3>1
    <3>3. Len(a) \in Nat /\ DOMAIN a = 1..Len(a) /\ DOMAIN b = 1..(Len(a) + 1)
      BY <1>1, <3>2
    <3>4. Len(a) + 1 \in DOMAIN b /\ DOMAIN a \subseteq DOMAIN b
          /\ \A k \in DOMAIN b : k \in DOMAIN a \/ k = Len(a) + 1
      BY <3>3
    <3>5. S!Has(b, x.name)
      BY <3>2, <3>4 DEF S!Has
    <3>6. \A n : S!Has(a, n) => S!Has(b, n)
      BY <3>2, <3>3, <3>4 DEF S!Has
    <3>7. S!Syms(b) \subseteq S!Syms(a) \cup {x}
      BY <3>2, <3>3, <3>4 DEF S!Syms
    <3> QED
      BY <3>2, <3>5, <3>6, <3>7
  <2> QED
    BY <2>1, <2>2
<1> HIDE DEF b
<1>3. t \in Seq(Seq(T)) /\ Len(t) = Len(s) /\ t[Len(s)] = b
      /\ \A i \in 1..(Len(s) - 1) : t[i] = s[i]
  BY <1>1, <1>2
<1> QED
  BY <1>2, <1>3 DEF Defined, b

-------------------------------------------------------------------------------
(***************************************************************************)
(* The calls of the pass, as steps of the two stacks.                      *)
(***************************************************************************)
LEMMA EnterCall ==
  ASSUME S!TypeOK, S!EnterScope
  PROVE  /\ S!TypeOK' /\ underflow' = underflow
         /\ Pushed(m_scopes, m_scopes') /\ Pushed(m_classes, m_classes')
<1>1. /\ m_scopes \in Seq(Seq(S!Sym)) /\ m_classes \in Seq(Seq(S!ClassSym))
      /\ Len(m_scopes) = Len(m_classes) /\ underflow \in BOOLEAN
  BY DEF S!TypeOK
<1>2. /\ m_scopes' = S!EnterStack(m_scopes) /\ m_classes' = S!EnterStack(m_classes)
      /\ underflow' = underflow
  BY DEF S!EnterScope
<1>3. m_scopes' \in Seq(Seq(S!Sym)) /\ Pushed(m_scopes, m_scopes')
  BY <1>1, <1>2, PushShape
<1>4. m_classes' \in Seq(Seq(S!ClassSym)) /\ Pushed(m_classes, m_classes')
  BY <1>1, <1>2, PushShape
<1>5. Len(m_scopes') = Len(m_classes')
  BY <1>1, <1>3, <1>4 DEF Pushed
<1> QED
  BY <1>1, <1>2, <1>3, <1>4, <1>5 DEF S!TypeOK, S!Sym, S!ClassSym

(***************************************************************************)
(* leave_scope with a scope to leave.                                      *)
(***************************************************************************)
LEMMA LeaveCall ==
  ASSUME S!TypeOK, S!LeaveScope, m_scopes # <<>>
  PROVE  /\ S!TypeOK' /\ underflow' = underflow
         /\ Popped(m_scopes, m_scopes') /\ Popped(m_classes, m_classes')
<1>1. /\ m_scopes \in Seq(Seq(S!Sym)) /\ m_classes \in Seq(Seq(S!ClassSym))
      /\ Len(m_scopes) = Len(m_classes) /\ underflow \in BOOLEAN
  BY DEF S!TypeOK
<1>2. /\ m_scopes' = S!Pop(m_scopes) /\ m_classes' = S!Pop(m_classes)
      /\ underflow' = underflow
  BY DEF S!LeaveScope
<1>3. m_scopes' \in Seq(Seq(S!Sym)) /\ Popped(m_scopes, m_scopes')
  BY <1>1, <1>2, PopShape
<1>4. m_classes # <<>>
  BY <1>1
<1>5. m_classes' \in Seq(Seq(S!ClassSym)) /\ Popped(m_classes, m_classes')
  BY <1>1, <1>2, <1>4, PopShape
<1>6. Len(m_scopes') = Len(m_classes')
  BY <1>1, <1>3, <1>5 DEF Popped
<1> QED
  BY <1>1, <1>2, <1>3, <1>5, <1>6 DEF S!TypeOK, S!Sym, S!ClassSym

(***************************************************************************)
(* PContext::define.                                                       *)
(***************************************************************************)
LEMMA DefineCall ==
  ASSUME S!TypeOK, NEW n \in Names, NEW v \in SymVals, S!Define(n, v)
  PROVE  /\ S!TypeOK' /\ UNCHANGED <<underflow, m_classes>>
         /\ Defined(m_scopes, m_scopes', [name |-> n, val |-> v])
<1> DEFINE x == [name |-> n, val |-> v]
<1>1. x \in S!Sym
  BY DEF S!Sym
<1>2. /\ m_scopes # <<>> /\ UNCHANGED <<underflow, m_classes>>
      /\ m_scopes' = [m_scopes EXCEPT ![Len(m_scopes)] = S!TableDefine(@, x)]
  BY DEF S!Define
<1>3. /\ m_scopes \in Seq(Seq(S!Sym)) /\ m_classes \in Seq(Seq(S!ClassSym))
      /\ Len(m_scopes) = Len(m_classes) /\ underflow \in BOOLEAN
  BY DEF S!TypeOK
<1> HIDE DEF x
<1>4. m_scopes' \in Seq(Seq(S!Sym)) /\ Defined(m_scopes, m_scopes', x)
  BY <1>1, <1>2, <1>3, DefineShape
<1>5. Len(m_scopes') = Len(m_classes')
  BY <1>2, <1>3, <1>4 DEF Defined
<1> QED
  BY <1>2, <1>3, <1>4, <1>5 DEF S!TypeOK, S!Sym, S!ClassSym, x

(***************************************************************************)
(* PContext::define_cls.                                                   *)
(***************************************************************************)
LEMMA StructCall ==
  ASSUME S!TypeOK, NEW c \in ClassNames, DefineStruct(c)
  PROVE  /\ S!TypeOK' /\ UNCHANGED <<underflow, m_scopes>>
         /\ Defined(m_classes, m_classes', [name |-> c, val |-> "struct"])
<1> DEFINE x == [name |-> c, val |-> "struct"]
<1>1. x \in S!ClassSym
  BY DEF S!ClassSym
<1>2. /\ m_classes # <<>> /\ UNCHANGED <<underflow, m_scopes>>
      /\ m_classes' = [m_classes EXCEPT ![Len(m_classes)] = S!TableDefine(@, x)]
  BY DEF DefineStruct, S!DefineCls
<1>3. /\ m_scopes \in Seq(Seq(S!Sym)) /\ m_classes \in Seq(Seq(S!ClassSym))
      /\ Len(m_scopes) = Len(m_classes) /\ underflow \in BOOLEAN
  BY DEF S!TypeOK
<1> HIDE DEF x
<1>4. m_classes' \in Seq(Seq(S!ClassSym)) /\ Defined(m_classes, m_classes', x)
  BY <1>1, <1>2, <1>3, DefineShape
<1>5. Len(m_scopes') = Len(m_classes')
  BY <1>2, <1>3, <1>4 DEF Defined
<1> QED
  BY <1>2, <1>3, <1>4, <1>5 DEF S!TypeOK, S!Sym, S!ClassSym, x

-------------------------------------------------------------------------------
(***************************************************************************)
(* What the pass does to the module under construction: it closes or       *)
(* spoils the block of the current function, or appends a function.        *)
(***************************************************************************)
LEMMA BlockSet ==
  ASSUME mod \in Seq(Function), current_function \in DOMAIN mod,
         NEW b \in Blocks, SetBlock(b)
  PROVE  /\ mod' \in Seq(Function) /\ Len(mod') = Len(mod)
         /\ \A i \in DOMAIN mod : mod'[i].method = mod[i].method
         /\ \A i \in DOMAIN mod \ {current_function} : mod'[i] = mod[i]
         /\ mod'[current_function].block = b
<1>1. mod[current_function] \in Function
  OBVIOUS
<1>2. [mod[current_function] EXCEPT !.block = b] \in Function
  BY <1>1 DEF Function
<1> QED
  BY <1>1, <1>2 DEF SetBlock, Function

(***************************************************************************)
(* The blocks an instruction or a terminator can leave.                    *)
(***************************************************************************)
LEMMA BlockType ==
  ASSUME NEW b \in Blocks
  PROVE  /\ \A code \in Codes : Emit(b, code) \in Blocks
         /\ Terminate(b) \in Blocks \ {"open"}
BY DEF Blocks, Codes, Emit, Terminate

(***************************************************************************)
(* The parameters of a declaration, with self in front for a method.       *)
(***************************************************************************)
LEMMA DeclType ==
  ASSUME NEW p \in ProcDecl
  PROVE  /\ p.name \in Names /\ p.params \in Seq(Names) /\ p.isExtern \in BOOLEAN
         /\ MethodOf(p).name = p.name
         /\ MethodOf(p).params \in Seq(Names)
         /\ MethodOf(p).isExtern = p.isExtern
<1>1. p.name \in Names /\ p.params \in ParamLists /\ p.isExtern \in BOOLEAN
  BY DEF ProcDecl
<1>2. p.params \in Seq(Names)
  BY <1>1 DEF ParamLists
<1>3. <<SelfParam>> \o p.params \in Seq(Names)
  BY <1>2, NamesAssumption
<1> QED
  BY <1>1, <1>2, <1>3 DEF MethodOf, ProcDecl

(***************************************************************************)
(* A prototype adds one function and defines its name.                     *)
(***************************************************************************)
LEMMA ProtoCall ==
  ASSUME TypeOK, NEW p, p.name \in Names, NEW self, NEW method \in BOOLEAN, NEW after,
         ProtoDone(p, self, method, after)
  PROVE  /\ mod' \in Seq(Function) /\ Len(mod') = Len(mod) + 1 /\ Len(mod') <= MaxFns
         /\ \A i \in DOMAIN mod : mod'[i] = mod[i]
         /\ mod'[Len(mod) + 1].method = method /\ mod'[Len(mod) + 1].block = "decl"
         /\ S!TypeOK' /\ UNCHANGED <<underflow, m_classes>>
         /\ Defined(m_scopes, m_scopes',
                    [name |-> p.name, val |-> [kind |-> "fn", fn |-> Len(mod) + 1]])
<1> DEFINE f == [method |-> method, void |-> ~p.ret.ptr /\ p.ret.base = "void",
                 block |-> "decl"]
           v == [kind |-> "fn", fn |-> Len(mod) + 1]
<1>1. f \in Function
  BY DEF Function, Blocks
<1>2. mod \in Seq(Function) /\ Len(mod) < MaxFns /\ mod' = Append(mod, f)
      /\ S!Define(p.name, v)
  BY DEF TypeOK, ProtoDone
<1>3. v \in SymVals
  BY <1>2, BoundsAssumption DEF SymVals
<1>4. f.method = method /\ f.block = "decl"
  OBVIOUS
<1> HIDE DEF f, v
<1>5. /\ mod' \in Seq(Function) /\ Len(mod') = Len(mod) + 1
      /\ \A i \in DOMAIN mod : mod'[i] = mod[i]
      /\ mod'[Len(mod) + 1] = f
  BY <1>1, <1>2
<1>6. /\ S!TypeOK' /\ UNCHANGED <<underflow, m_classes>>
      /\ Defined(m_scopes, m_scopes', [name |-> p.name, val |-> v])
  BY <1>2, <1>3, DefineCall DEF TypeOK
<1> QED
  BY <1>2, <1>4, <1>5, <1>6, BoundsAssumption DEF v

-------------------------------------------------------------------------------
(***************************************************************************)
(* Type correctness.                                                       *)
(***************************************************************************)
LEMMA SameTables == S!TypeOK /\ UNCHANGED scopeVars => S!TypeOK'
BY DEF S!TypeOK, scopeVars, S!Sym, S!ClassSym

(***************************************************************************)
(* The steps that only move the pass from one place to another.            *)
(***************************************************************************)
LEMMA TypeMove ==
  ASSUME TypeOK, m_scopes # <<>>,
         Start \/ EndOfModule \/ EndAggregate \/ LeaveModule \/ Report \/ Verify \/ Terminated
  PROVE  TypeOK'
<1> USE SameTables DEF scopeVars, flagVars, fnVars, useVars, InProc, Places, Outcome, SelfVals
<1>1. CASE Start
  BY <1>1, EnterCall DEF TypeOK, Start
<1>2. CASE EndOfModule
  BY <1>2 DEF TypeOK, EndOfModule, LeaveLoop
<1>3. CASE EndAggregate
  BY <1>3 DEF TypeOK, EndAggregate
<1>4. CASE LeaveModule
  BY <1>4, LeaveCall DEF TypeOK, LeaveModule
<1>5. CASE Report
  BY <1>5 DEF TypeOK, Report
<1>6. CASE Verify
  BY <1>6 DEF TypeOK, Verify
<1>7. CASE Terminated
  BY <1>7 DEF TypeOK, Terminated, vars
<1> QED
  BY <1>1, <1>2, <1>3, <1>4, <1>5, <1>6, <1>7

(***************************************************************************)
(* A declaration loop that ends is back in a loop, or at the end.          *)
(***************************************************************************)
LEMMA LoopExit ==
  ASSUME uses \in Nat, LeaveLoop
  PROVE  pc' \in {"loop", "leave"} /\ uses' \in Nat
BY DEF LeaveLoop

(***************************************************************************)
(* A prototype leaves the pass well typed, in its loop or at the body.     *)
(***************************************************************************)
LEMMA TypeProto ==
  ASSUME TypeOK, NEW p, p.name \in Names, p.params \in Seq(Names), NEW self,
         NEW method \in BOOLEAN, NEW after \in {"loop", "methods"},
         pc \in {"loop", "methods"}, ProtoDone(p, self, method, after),
         after = "methods" \/ method => agg # NoClass,
         defined_return' \in BOOLEAN, current_self' \in SelfVals \cup {NoSelf},
         UNCHANGED <<errs, useVars, agg, broke>>
  PROVE  TypeOK'
<1>1. /\ mod' \in Seq(Function) /\ Len(mod') = Len(mod) + 1 /\ Len(mod') <= MaxFns
      /\ mod'[Len(mod) + 1].method = method
      /\ S!TypeOK'
  BY ProtoCall
<1>2. /\ mod \in Seq(Function) /\ current_function = 0 /\ params = <<>> /\ bound \in 0..Len(params)
      /\ errs \in BOOLEAN /\ broke \in BOOLEAN /\ paths \subseteq Paths /\ uses \in Nat
      /\ agg \in ClassNames \cup {NoClass}
  BY DEF TypeOK, InProc
<1>3. \/ pc' = after /\ UNCHANGED fnVars
      \/ pc' = "enter" /\ current_function' = Len(mod) + 1 /\ params' = p.params /\ bound' = 0
  BY DEF ProtoDone
<1>4. /\ params' \in Seq(Names) /\ bound' \in 0..Len(params')
      /\ pc' \in {"loop", "methods", "enter"}
      /\ current_function' \in {0, Len(mod')}
  <2>1. CASE pc' = after /\ UNCHANGED fnVars
    BY <1>2, <2>1 DEF fnVars
  <2>2. CASE pc' = "enter" /\ current_function' = Len(mod) + 1 /\ params' = p.params /\ bound' = 0
    BY <1>1, <2>2
  <2> QED
    BY <1>3, <2>1, <2>2
<1>5. pc' = "enter" => /\ current_function' = Len(mod') /\ mod' # <<>>
                       /\ mod'[current_function'].method => agg' # NoClass
  BY <1>1, <1>2, <1>3
<1>6. pc' # "enter" => /\ current_function' = 0 /\ params' = <<>>
                       /\ pc' = "methods" => agg' # NoClass
  BY <1>2, <1>3 DEF fnVars
<1> QED
  BY <1>1, <1>2, <1>4, <1>5, <1>6 DEF TypeOK, InProc, Places, useVars

(***************************************************************************)
(* The steps of a declaration.                                             *)
(***************************************************************************)
LEMMA TypeDeclaration ==
  ASSUME TypeOK, m_scopes # <<>>,
         \/ \E p \in ProcDecl : NextProc(p) \/ NextMethod(p)
         \/ \E c \in ClassNames, fields \in Deciding(TypeSpec) : NextAggregate(c, fields)
         \/ \E path \in Paths : NextUse(path)
  PROVE  TypeOK'
<1> USE SameTables DEF scopeVars, flagVars, fnVars, useVars, InProc, Places, Outcome, SelfVals
<1>1. ASSUME NEW p \in ProcDecl, NextProc(p)
      PROVE  TypeOK'
  <2>0. p.name \in Names /\ p.params \in Seq(Names) /\ pc = "loop" /\ Rewind
    BY <1>1, DeclType DEF NextProc
  <2>1. CASE ProtoDone(p, NoSelf, FALSE, "loop") /\ UNCHANGED <<errs, useVars, agg, broke>>
    BY ONLY TypeOK, <2>0, <2>1, TypeProto DEF Rewind
  <2>2. CASE ProtoFails(p, NoSelf) /\ Break
             /\ UNCHANGED <<scopeVars, fnVars, mod, paths, agg>>
    <3>1. errs' \in BOOLEAN
      BY <2>2 DEF ProtoFails, TypeOK, ProcDecl, RetSpec, TypeSpec
    <3>2. pc' \in {"loop", "leave"} /\ uses' \in Nat /\ broke' \in BOOLEAN
      BY <2>2, LoopExit DEF Break, TypeOK
    <3> QED
      BY <2>0, <2>2, <3>1, <3>2 DEF TypeOK, Rewind
  <2> QED
    BY <1>1, <2>1, <2>2 DEF NextProc
<1>2. ASSUME NEW p \in ProcDecl, NextMethod(p)
      PROVE  TypeOK'
  <2>0. /\ MethodOf(p).name \in Names /\ MethodOf(p).params \in Seq(Names)
        /\ pc = "methods" /\ UNCHANGED <<flagVars, useVars, agg, broke>>
    BY <1>2, DeclType DEF NextMethod, NoRewind
  <2>1. CASE ProtoDone(MethodOf(p), current_self, TRUE, "methods") /\ UNCHANGED errs
    <3>1. /\ agg # NoClass /\ defined_return' \in BOOLEAN
          /\ current_self' \in SelfVals \cup {NoSelf}
      BY <2>0 DEF TypeOK
    <3> QED
      BY ONLY TypeOK, <2>0, <2>1, <3>1, TypeProto DEF useVars
  <2>2. CASE ProtoFails(MethodOf(p), current_self) /\ UNCHANGED <<scopeVars, fnVars, mod, pc>>
    <3>1. errs' \in BOOLEAN
      BY <2>2 DEF ProtoFails, TypeOK, MethodOf, ProcDecl, RetSpec, TypeSpec
    <3> QED
      BY <2>0, <2>2, <3>1 DEF TypeOK
  <2> QED
    BY <1>2, <2>1, <2>2 DEF NextMethod, NoRewind
<1>3. ASSUME NEW c \in ClassNames, NEW fields \in Deciding(TypeSpec), NextAggregate(c, fields)
      PROVE  TypeOK'
  <2>0. pc = "loop" /\ UNCHANGED <<fnVars, mod, paths>>
    BY <1>3 DEF NextAggregate, LowerReturn
  <2>1. CASE /\ DefineStruct(c) /\ defined_return' = FALSE /\ current_self' = c
             /\ agg' = c /\ pc' = "methods" /\ UNCHANGED <<errs, uses, broke>>
    <3>1. S!TypeOK'
      BY <2>1, StructCall DEF TypeOK
    <3>2. agg' # NoClass
      BY <2>1, BuiltinAssumption DEF NoClass
    <3> QED
      BY <2>0, <2>1, <3>1, <3>2 DEF TypeOK
  <2>2. CASE /\ \E f \in fields : errs' = (errs \/ f.ptr)
             /\ Rewind /\ Break /\ UNCHANGED <<scopeVars, agg>>
    <3>1. errs' \in BOOLEAN
      BY <2>2 DEF TypeOK, TypeSpec
    <3>2. pc' \in {"loop", "leave"} /\ uses' \in Nat /\ broke' \in BOOLEAN
      BY <2>2, LoopExit DEF Break, TypeOK
    <3> QED
      BY <2>0, <2>2, <3>1, <3>2 DEF TypeOK, Rewind
  <2> QED
    BY <1>3, <2>1, <2>2 DEF NextAggregate, LowerReturn
<1>4. ASSUME NEW path \in Paths, NextUse(path)
      PROVE  TypeOK'
  <2>1. /\ S!TypeOK' /\ pc = "loop" /\ Rewind /\ paths' \subseteq Paths
        /\ UNCHANGED <<fnVars, errs, mod, agg>>
    BY <1>4 DEF TypeOK, NextUse, Load
  <2>2. CASE Break
    BY <2>1, <2>2, LoopExit DEF TypeOK, Break, Rewind
  <2>3. CASE pc' \in {"loop", "dead"} /\ uses' \in {uses, uses + 1} /\ UNCHANGED broke
    <3>1. uses' \in Nat /\ broke' \in BOOLEAN
      BY <2>3 DEF TypeOK
    <3> QED
      BY <2>1, <2>3, <3>1 DEF TypeOK, Rewind
  <2> QED
    BY <1>4, <2>1, <2>2, <2>3 DEF NextUse, Load
<1> QED
  BY <1>1, <1>2, <1>3, <1>4

(***************************************************************************)
(* Inside a function there is one: it has a block, and can have storage.   *)
(***************************************************************************)
LEMMA InFunction ==
  ASSUME TypeOK, pc \in InProc
  PROVE  /\ mod \in Seq(Function) /\ current_function \in DOMAIN mod
         /\ current_function = Len(mod) /\ Len(mod) \in 1..MaxFns
         /\ CurrentBlock \in Blocks /\ mod[current_function].method \in BOOLEAN
         /\ Var \in SymVals
<1>1. mod \in Seq(Function) /\ mod # <<>> /\ current_function = Len(mod) /\ Len(mod) <= MaxFns
  BY DEF TypeOK
<1>2. current_function \in DOMAIN mod /\ Len(mod) \in 1..MaxFns /\ mod[current_function] \in Function
  BY <1>1, BoundsAssumption
<1> QED
  BY <1>1, <1>2 DEF CurrentBlock, Function, Var, SymVals

(***************************************************************************)
(* The steps of a function.                                                *)
(***************************************************************************)
LEMMA TypeBody == ASSUME TypeOK, m_scopes # <<>>, Body PROVE TypeOK'
<1> USE SameTables DEF scopeVars, flagVars, fnVars, useVars, InProc, Places, Outcome, SelfVals
<1>1. CASE EnterProc
  <2>1. current_function \in DOMAIN mod /\ mod \in Seq(Function) /\ Len(mod) \in 1..MaxFns
    BY <1>1, InFunction DEF EnterProc
  <2>2. SetBlock("open") /\ "open" \in Blocks
    BY <1>1 DEF EnterProc, Blocks
  <2>3. mod' \in Seq(Function) /\ Len(mod') = Len(mod)
        /\ \A i \in DOMAIN mod : mod'[i].method = mod[i].method
    BY ONLY <2>1, <2>2, BlockSet
  <2> QED
    BY <1>1, <2>1, <2>3, EnterCall DEF TypeOK, EnterProc
<1>2. CASE BindParam
  <2>1. params[bound + 1] \in Names /\ Var \in SymVals
    BY <1>2, BoundsAssumption DEF TypeOK, BindParam, Var, SymVals
  <2>2. S!TypeOK'
    BY <1>2, <2>1, DefineCall DEF TypeOK, BindParam
  <2> QED
    BY <1>2, <2>2 DEF TypeOK, BindParam
<1>3. CASE EnterBody
  BY <1>3, EnterCall DEF TypeOK, EnterBody
<1>4. CASE EndBody
  BY <1>4, LeaveCall DEF TypeOK, EndBody
<1>5. CASE Die
  BY <1>5 DEF TypeOK, Die
<1>6. CASE FinishProc
  <2>1. /\ current_function \in DOMAIN mod /\ mod \in Seq(Function)
        /\ mod[current_function].method \in BOOLEAN /\ CurrentBlock \in Blocks
    BY <1>6, InFunction DEF FinishProc
  <2>2. mod' = mod \/ SetBlock(Terminate(CurrentBlock))
    BY <1>6 DEF FinishProc
  <2>3. Terminate(CurrentBlock) \in Blocks
    BY <2>1, BlockType
  <2>4. mod' \in Seq(Function) /\ Len(mod') = Len(mod)
    BY ONLY <2>1, <2>2, <2>3, BlockSet
  <2>5. S!TypeOK'
    BY <1>6, LeaveCall DEF TypeOK, FinishProc
  <2>6. pc' \in {"methods", "loop"} /\ (pc' = "methods" => mod[current_function].method)
    BY <1>6 DEF FinishProc
  <2>7. pc' = "methods" => agg' # NoClass
    BY <1>6, <2>6 DEF TypeOK, FinishProc
  <2> QED
    BY <1>6, <2>4, <2>5, <2>6, <2>7 DEF TypeOK, FinishProc, DropFunction
<1>7. ASSUME NEW b \in Blocks, SetBlock(b), pc = "body", pc' \in {"body", "return"},
             defined_return' \in BOOLEAN, current_self' \in SelfVals \cup {NoSelf},
             errs' \in BOOLEAN, S!TypeOK', UNCHANGED <<fnVars, useVars, agg, broke>>
      PROVE  TypeOK'
  <2>1. current_function \in DOMAIN mod /\ mod \in Seq(Function) /\ Len(mod) \in 1..MaxFns
        /\ current_function = Len(mod)
    BY <1>7, InFunction
  <2>2. mod' \in Seq(Function) /\ Len(mod') = Len(mod)
        /\ \A i \in DOMAIN mod : mod'[i].method = mod[i].method
    BY ONLY <1>7, <2>1, BlockSet
  <2>3. mod'[current_function'].method => agg' # NoClass
    BY <1>7, <2>1, <2>2 DEF TypeOK
  <2> QED
    BY <1>7, <2>1, <2>2, <2>3 DEF TypeOK
<1>8. pc = "body" => /\ \A code \in Codes : Emit(CurrentBlock, code) \in Blocks
                     /\ Terminate(CurrentBlock) \in Blocks
                     /\ Var \in SymVals
  BY InFunction, BlockType
<1>9. ASSUME NEW self \in SelfVals \cup {NoSelf}, NEW code \in Codes,
             FailStmt(self, code)
      PROVE  TypeOK'
  BY <1>7, <1>8, <1>9 DEF TypeOK, FailStmt
<1>10. ASSUME NEW self \in ClassNames \cup {NoSelf}, NEW code \in Codes,
              ExprStmt(self, code)
       PROVE  TypeOK'
  BY <1>7, <1>8, <1>10 DEF TypeOK, ExprStmt
<1>11. ASSUME NEW self \in ClassNames \cup {NoSelf}, NEW code \in Codes,
              NEW x \in Names, NEW base \in Bases, InitStmt(x, base, self, code)
       PROVE  TypeOK'
  <2>1. S!TypeOK'
    BY <1>8, <1>11, DefineCall DEF TypeOK, InitStmt
  <2> QED
    BY <1>7, <1>8, <1>11, <2>1 DEF TypeOK, InitStmt
<1>12. ASSUME NEW self \in ClassNames \cup {NoSelf},
              NEW valued \in BOOLEAN, NEW fits \in BOOLEAN, ReturnStmt(self, valued, fits)
       PROVE  TypeOK'
  <2>1. (IF fits THEN Terminate(CurrentBlock) ELSE "illformed") \in Blocks
    BY <1>8, <1>12 DEF ReturnStmt, Blocks
  <2> QED
    BY <1>7, <1>12, <2>1 DEF TypeOK, ReturnStmt
<1> QED
  BY <1>1, <1>2, <1>3, <1>4, <1>5, <1>6, <1>9, <1>10, <1>11, <1>12 DEF Body, Statement

(***************************************************************************)
(* A step of the pass keeps the types of its variables.                    *)
(***************************************************************************)
LEMMA TypeStep == TypeOK /\ m_scopes # <<>> /\ [Next]_vars => TypeOK'
<1> SUFFICES ASSUME TypeOK, m_scopes # <<>>, [Next]_vars PROVE TypeOK'
  OBVIOUS
<1>1. CASE UNCHANGED vars
  <2>1. Terminated \/ TypeOK'
    BY <1>1, SameTables DEF TypeOK, vars, flagVars, fnVars, useVars
  <2> QED
    BY <2>1, TypeMove
<1>2. CASE Declaration
  BY <1>2, TypeMove, TypeDeclaration DEF Declaration
<1>3. CASE Body
  BY <1>3, TypeBody
<1>4. CASE Driver
  BY <1>4, TypeMove DEF Driver
<1> QED
  BY <1>1, <1>2, <1>3, <1>4 DEF Next

-------------------------------------------------------------------------------
(***************************************************************************)
(* Balance: a step moves the height of the stacks by as much as it moves   *)
(* the depth of the place the pass is at, unless it records an error.      *)
(***************************************************************************)
LEMMA KeepsBalance ==
  ASSUME TypeOK, ScopeBalance, underflow' = underflow,
         errs => errs', pc # "dead" \/ pc' = "dead",
         Len(m_scopes') \in Nat, Depth' \in 1..4,
         \/ Len(m_scopes') - Len(m_scopes) = Depth' - Depth
         \/ (errs' \/ pc' = "dead") /\ Len(m_scopes') - Len(m_scopes) >= Depth' - Depth
  PROVE  ScopeBalance'
<1>1. Len(m_scopes) \in Nat /\ Depth \in 1..4
  BY DEF TypeOK, S!TypeOK, Depth
<1> HIDE DEF Depth
<1> QED
  BY <1>1 DEF ScopeBalance

(***************************************************************************)
(* A step of the pass keeps the scopes balanced: it enters or leaves as    *)
(* many as it changes the depth by, but for a failing statement, which     *)
(* records an error.                                                       *)
(***************************************************************************)
LEMMA BalanceStep == TypeOK /\ ScopeBalance /\ [Next]_vars => ScopeBalance'
<1> SUFFICES ASSUME TypeOK, ScopeBalance, [Next]_vars PROVE ScopeBalance'
  OBVIOUS
<1>0. /\ m_scopes # <<>> /\ Len(m_scopes) \in Nat /\ S!TypeOK /\ errs \in BOOLEAN
      /\ Depth \in 1..4 /\ Depth' \in 1..4
  BY DEF TypeOK, S!TypeOK, ScopeBalance, Depth
<1>1. CASE UNCHANGED vars
  BY <1>1 DEF vars, scopeVars, ScopeBalance, Depth
<1>2. CASE Start \/ EnterProc \/ EnterBody
  <2>1. S!EnterScope /\ Depth' = Depth + 1 /\ UNCHANGED errs /\ pc # "dead"
    BY <1>2 DEF Start, EnterProc, EnterBody, Depth
  <2>2. underflow' = underflow /\ Len(m_scopes') = Len(m_scopes) + 1
    BY <1>0, <2>1, EnterCall DEF Pushed
  <2> QED
    BY <1>0, <2>1, <2>2, KeepsBalance
<1>3. CASE LeaveModule \/ EndBody \/ FinishProc
  <2>1. S!LeaveScope /\ Depth' = Depth - 1 /\ UNCHANGED errs /\ pc # "dead"
    BY <1>3 DEF LeaveModule, EndBody, FinishProc, Depth
  <2>2. underflow' = underflow /\ Len(m_scopes') = Len(m_scopes) - 1
    BY <1>0, <2>1, LeaveCall DEF Popped
  <2> QED
    BY <1>0, <2>1, <2>2, KeepsBalance
<1>4. ASSUME UNCHANGED <<m_scopes, underflow>>, Depth' = Depth, errs => errs', pc # "dead"
      PROVE  ScopeBalance'
  BY <1>0, <1>4, KeepsBalance
<1>5. ASSUME UNCHANGED underflow, Len(m_scopes') = Len(m_scopes), Depth' = Depth,
             errs => errs', pc # "dead"
      PROVE  ScopeBalance'
  BY <1>0, <1>5, KeepsBalance
<1>6. CASE EndOfModule \/ EndAggregate \/ Report \/ Verify
  <2>1. UNCHANGED <<m_scopes, underflow, errs>> /\ Depth' = Depth /\ pc # "dead"
    BY <1>6 DEF EndOfModule, LeaveLoop, EndAggregate, Report, Verify, scopeVars, Depth
  <2> QED
    BY <2>1, <1>4
<1>7. CASE Terminated
  BY <1>1, <1>7 DEF Terminated
<1>8. CASE Die
  <2>1. UNCHANGED <<m_scopes, underflow, errs>> /\ Depth' = 1 /\ pc' = "dead" /\ Depth \in 1..4
    BY <1>8 DEF Die, scopeVars, Depth
  <2> QED
    BY <1>0, <2>1, KeepsBalance
<1>9. CASE BindParam
  <2>1. /\ params[bound + 1] \in Names /\ Var \in SymVals
        /\ S!Define(params[bound + 1], Var) /\ UNCHANGED <<pc, errs>> /\ pc # "dead"
    BY <1>9, InFunction DEF TypeOK, BindParam, InProc
  <2>2. UNCHANGED underflow /\ Len(m_scopes') = Len(m_scopes)
    BY <1>0, <2>1, DefineCall DEF Defined
  <2> QED
    BY <1>5, <2>1, <2>2 DEF Depth
<1>10. ASSUME NEW p \in ProcDecl, NextProc(p) \/ NextMethod(p)
       PROVE  ScopeBalance'
  <2>1. /\ pc \in {"loop", "methods"} /\ p.name \in Names /\ MethodOf(p).name \in Names
    BY <1>10, DeclType DEF NextProc, NextMethod, NoRewind
  <2>2. ASSUME NEW q, q.name \in Names, NEW self, NEW method \in BOOLEAN,
               NEW after \in {"loop", "methods"},
               ProtoDone(q, self, method, after), UNCHANGED errs
        PROVE  ScopeBalance'
    <3>1. UNCHANGED underflow /\ Len(m_scopes') = Len(m_scopes)
      BY <2>2, ProtoCall DEF Defined
    <3>2. Depth' = Depth
      BY <2>1, <2>2 DEF ProtoDone, Depth
    <3> QED
      BY <1>5, <2>1, <2>2, <3>1, <3>2
  <2>3. ASSUME NEW q, NEW self, ProtoFails(q, self), UNCHANGED scopeVars,
               pc' \in {"loop", "leave", "methods"}
        PROVE  ScopeBalance'
    <3>1. errs => errs'
      BY <2>3 DEF ProtoFails
    <3>2. Depth' = Depth /\ UNCHANGED <<m_scopes, underflow>>
      BY <2>1, <2>3 DEF Depth, scopeVars
    <3> QED
      BY <1>4, <2>1, <3>1, <3>2
  <2>4. CASE NextProc(p)
    BY <2>1, <2>2, <2>3, <2>4 DEF NextProc, Break, LeaveLoop
  <2>5. CASE NextMethod(p)
    BY <2>1, <2>2, <2>3, <2>5 DEF NextMethod, NoRewind
  <2> QED
    BY <1>10, <2>4, <2>5
<1>11. ASSUME NEW c \in ClassNames, NEW fields \in Deciding(TypeSpec), NextAggregate(c, fields)
       PROVE  ScopeBalance'
  <2>1. UNCHANGED <<m_scopes, underflow>>
    BY <1>0, <1>11, StructCall DEF NextAggregate, LowerReturn, scopeVars
  <2>2. pc = "loop" /\ pc' \in {"loop", "leave", "methods"}
    BY <1>11 DEF NextAggregate, LowerReturn, Break, LeaveLoop
  <2>3. errs => errs'
    BY <1>11 DEF NextAggregate, LowerReturn
  <2> QED
    BY <1>4, <2>1, <2>2, <2>3 DEF Depth
<1>12. ASSUME NEW path \in Paths, NextUse(path)
       PROVE  ScopeBalance'
  <2>1. /\ UNCHANGED <<m_scopes, underflow, errs>> /\ pc = "loop"
        /\ pc' \in {"loop", "leave", "dead"}
    BY <1>12 DEF NextUse, Load, Break, LeaveLoop, scopeVars
  <2>2. CASE pc' = "dead"
    BY <1>0, <2>1, <2>2, KeepsBalance DEF Depth
  <2>3. CASE pc' # "dead"
    BY <1>4, <2>1, <2>3 DEF Depth
  <2> QED
    BY <2>2, <2>3
<1>13. CASE Statement
  <2>1. ASSUME NEW self, NEW code, FailStmt(self, code)
        PROVE  ScopeBalance'
    <3>1. UNCHANGED <<m_scopes, underflow>> /\ errs' /\ pc # "dead"
          /\ Depth' = 3 /\ Depth = 4
      BY <2>1 DEF FailStmt, scopeVars, Depth
    <3> QED
      BY <1>0, <3>1, KeepsBalance
  <2>2. ASSUME NEW self, NEW code, ExprStmt(self, code)
        PROVE  ScopeBalance'
    BY <1>4, <2>2 DEF ExprStmt, scopeVars, Depth
  <2>3. ASSUME NEW self, NEW valued, NEW fits, ReturnStmt(self, valued, fits)
        PROVE  ScopeBalance'
    BY <1>4, <2>3 DEF ReturnStmt, scopeVars, Depth
  <2>4. ASSUME NEW x \in Names, NEW base, NEW self, NEW code,
               InitStmt(x, base, self, code)
        PROVE  ScopeBalance'
    <3>1. S!Define(x, Var) /\ UNCHANGED <<pc, errs>> /\ pc = "body"
      BY <2>4 DEF InitStmt
    <3>2. UNCHANGED underflow /\ Len(m_scopes') = Len(m_scopes)
      BY <1>0, <3>1, InFunction, DefineCall DEF Defined, InProc
    <3> QED
      BY <1>5, <3>1, <3>2 DEF Depth
  <2> QED
    BY <1>3, <1>13, <2>1, <2>2, <2>3, <2>4 DEF Statement
<1> QED
  BY <1>1, <1>2, <1>3, <1>6, <1>7, <1>8, <1>9, <1>10, <1>11, <1>12, <1>13
     DEF Next, Declaration, Body, Driver

(***************************************************************************)
(* The pass starts well typed and balanced.                                *)
(***************************************************************************)
LEMMA TypeInit == Init => TypeOK /\ ScopeBalance
<1> SUFFICES ASSUME Init PROVE TypeOK /\ ScopeBalance
  OBVIOUS
<1>1. <<>> \in Seq(S!Sym) /\ <<>> \in Seq(S!ClassSym)
  OBVIOUS
<1>2. << << >> >> \in Seq(Seq(S!Sym))
  BY <1>1
<1>3. << << >> >> \in Seq(Seq(S!ClassSym))
  BY <1>1
<1>4. S!TypeOK /\ Len(m_scopes) = 1 /\ ~underflow
  BY <1>2, <1>3 DEF Init, S!Init, S!TypeOK
<1>5. TypeOK
  <2>1. mod = <<>> /\ params = <<>> /\ bound = 0 /\ current_function = 0 /\ pc = "start"
    BY DEF Init
  <2>2. mod \in Seq(Function) /\ Len(mod) = 0 /\ params \in Seq(Names) /\ Len(params) = 0
    BY <2>1
  <2>3. /\ defined_return \in BOOLEAN /\ current_self = NoSelf /\ errs \in BOOLEAN
        /\ broke \in BOOLEAN /\ paths \subseteq Paths /\ uses \in Nat /\ agg = NoClass
    BY DEF Init
  <2> QED
    BY <1>4, <2>1, <2>2, <2>3, BoundsAssumption DEF TypeOK, Places, InProc
<1>6. Depth = 1
  BY DEF Init, Depth
<1> QED
  BY <1>4, <1>5, <1>6 DEF ScopeBalance, Init

(***************************************************************************)
(* The two invariants hold together: TypeOK alone is not inductive, for a  *)
(* step that leaves a scope has to find one.                               *)
(***************************************************************************)
THEOREM BalanceCorrect == Spec => [](TypeOK /\ ScopeBalance)
<1>1. TypeOK /\ ScopeBalance => m_scopes # <<>>
  BY DEF TypeOK, S!TypeOK, ScopeBalance, Depth
<1> QED
  BY <1>1, TypeInit, TypeStep, BalanceStep, PTL DEF Spec

(***************************************************************************)
(* The variables of the pass have their types in every behaviour, whatever *)
(* the program compiled is.                                                *)
(***************************************************************************)
THEOREM TypeCorrect == Spec => []TypeOK
BY BalanceCorrect, PTL

(***************************************************************************)
(* compile_module, compile_decl_proc and compile_scope leave the scopes    *)
(* they enter: leave_scope never finds the stack empty, and a scope stays  *)
(* open only after an error.                                               *)
(***************************************************************************)
THEOREM ScopeBalanceCorrect == Spec => []ScopeBalance
BY BalanceCorrect, PTL

-------------------------------------------------------------------------------
(***************************************************************************)
(* The pass is a client of Scopes: each of its steps is one call of the    *)
(* class or none.                                                          *)
(***************************************************************************)
LEMMA ScopesStep == TypeOK /\ ScopeBalance /\ [Next]_vars => [S!Next]_(S!vars)
<1> SUFFICES ASSUME TypeOK, ScopeBalance, [Next]_vars PROVE [S!Next]_(S!vars)
  OBVIOUS
<1>1. ~underflow
  BY DEF ScopeBalance
<1>2. ASSUME UNCHANGED scopeVars
      PROVE  [S!Next]_(S!vars)
  BY <1>2 DEF scopeVars, S!vars
<1>3. ASSUME S!EnterScope \/ S!LeaveScope
      PROVE  [S!Next]_(S!vars)
  BY <1>1, <1>3 DEF S!Next
<1>4. ASSUME NEW n \in Names, NEW v \in SymVals, S!Define(n, v)
      PROVE  [S!Next]_(S!vars)
  BY <1>1, <1>4 DEF S!Next
<1>5. ASSUME NEW c \in ClassNames, DefineStruct(c)
      PROVE  [S!Next]_(S!vars)
  BY <1>1, <1>5 DEF S!Next, DefineStruct
<1>6. CASE UNCHANGED vars
  BY <1>2, <1>6 DEF vars
<1>7. CASE Start \/ EnterProc \/ EnterBody \/ LeaveModule \/ EndBody \/ FinishProc
  BY <1>3, <1>7 DEF Start, EnterProc, EnterBody, LeaveModule, EndBody, FinishProc
<1>8. CASE EndOfModule \/ EndAggregate \/ Report \/ Verify \/ Die \/ Terminated
  BY <1>2, <1>8 DEF EndOfModule, EndAggregate, Report, Verify, Die, Terminated, vars
<1>9. CASE BindParam
  BY <1>4, <1>9, InFunction DEF TypeOK, BindParam, InProc
<1>10. ASSUME NEW p \in ProcDecl, NextProc(p) \/ NextMethod(p)
       PROVE  [S!Next]_(S!vars)
  <2>1. p.name \in Names /\ MethodOf(p).name \in Names
    BY DeclType
  <2>2. ASSUME NEW q, q.name \in Names, NEW self, NEW method, NEW after,
               ProtoDone(q, self, method, after)
        PROVE  [S!Next]_(S!vars)
    <3>1. [kind |-> "fn", fn |-> Len(mod) + 1] \in SymVals
      BY <2>2, BoundsAssumption DEF TypeOK, ProtoDone, SymVals
    <3> QED
      BY <1>4, <2>2, <3>1 DEF ProtoDone
  <2>3. CASE NextProc(p)
    BY <1>2, <2>1, <2>2, <2>3 DEF NextProc
  <2>4. CASE NextMethod(p)
    BY <1>2, <2>1, <2>2, <2>4 DEF NextMethod, NoRewind
  <2> QED
    BY <1>10, <2>3, <2>4
<1>11. ASSUME NEW c \in ClassNames, NEW fields \in Deciding(TypeSpec), NextAggregate(c, fields)
       PROVE  [S!Next]_(S!vars)
  <2>1. DefineStruct(c) \/ UNCHANGED scopeVars
    BY <1>11 DEF NextAggregate, LowerReturn
  <2> QED
    BY <1>2, <1>5, <2>1
<1>12. ASSUME NEW path \in Paths, NextUse(path)
       PROVE  [S!Next]_(S!vars)
  BY <1>2, <1>12 DEF NextUse, Load
<1>13. CASE Statement
  <2>1. ASSUME NEW self, NEW code, FailStmt(self, code) \/ ExprStmt(self, code)
        PROVE  [S!Next]_(S!vars)
    BY <1>2, <2>1 DEF FailStmt, ExprStmt
  <2>2. ASSUME NEW self, NEW valued, NEW fits, ReturnStmt(self, valued, fits)
        PROVE  [S!Next]_(S!vars)
    BY <1>2, <2>2 DEF ReturnStmt
  <2>3. ASSUME NEW x \in Names, NEW base, NEW self, NEW code,
               InitStmt(x, base, self, code)
        PROVE  [S!Next]_(S!vars)
    BY <1>4, <2>3, InFunction DEF InitStmt, InProc
  <2> QED
    BY <1>7, <1>13, <2>1, <2>2, <2>3 DEF Statement
<1> QED
  BY <1>6, <1>7, <1>8, <1>9, <1>10, <1>11, <1>12, <1>13 DEF Next, Declaration, Body, Driver

(***************************************************************************)
(* The pass refines the class Scope: every property of Scopes, and of the  *)
(* lexical environment it implements, is one of the pass.                  *)
(***************************************************************************)
THEOREM CompilerImplementsScopes == Spec => ScopesSpec
<1>1. Init => S!Init
  BY DEF Init
<1> QED
  BY <1>1, ScopesStep, BalanceCorrect, PTL DEF Spec, ScopesSpec, S!Spec

-------------------------------------------------------------------------------
(***************************************************************************)
(* Storage.  What makes NoForeignLocals inductive: while no error was      *)
(* recorded, variables live only in the two scopes of the function being   *)
(* compiled, the third and the fourth of the stack, and in none outside.   *)
(***************************************************************************)
LocalsAt(i, table, f) == \A s \in S!Syms(table) : s.val.kind = "var" => i >= 3 /\ s.val.fn = f

LocalsInside == ~errs => \A i \in DOMAIN m_scopes : LocalsAt(i, m_scopes[i], current_function)

(***************************************************************************)
(* What the calls on the tables do to storage.                             *)
(***************************************************************************)
LEMMA PushLocals ==
  ASSUME NEW T, NEW s \in Seq(Seq(T)), NEW t \in Seq(Seq(T)), s # <<>>, Pushed(s, t), NEW f,
         \A i \in DOMAIN s : LocalsAt(i, s[i], f)
  PROVE  \A i \in DOMAIN t : LocalsAt(i, t[i], f)
<1>1. /\ Len(s) \in Nat /\ DOMAIN s = 1..Len(s) /\ DOMAIN t = 1..(Len(s) + 1)
      /\ Len(s) \in DOMAIN s
  BY DEF Pushed
<1>2. LocalsAt(Len(s) + 1, t[Len(s) + 1], f)
  <2>1. LocalsAt(Len(s), s[Len(s)], f) /\ t[Len(s) + 1] = s[Len(s)]
    BY <1>1 DEF Pushed
  <2>2. Len(s) >= 3 => Len(s) + 1 >= 3
    BY <1>1
  <2> QED
    BY <2>1, <2>2 DEF LocalsAt
<1>3. \A i \in 1..Len(s) : LocalsAt(i, t[i], f)
  BY <1>1 DEF Pushed
<1>4. \A i \in DOMAIN t : i \in 1..Len(s) \/ i = Len(s) + 1
  BY <1>1
<1> QED
  BY <1>2, <1>3, <1>4

(***************************************************************************)
(* Leaving a scope takes the innermost storage away.                       *)
(***************************************************************************)
LEMMA PopLocals ==
  ASSUME NEW T, NEW s \in Seq(Seq(T)), NEW t \in Seq(Seq(T)), Popped(s, t), NEW f,
         \A i \in DOMAIN s : LocalsAt(i, s[i], f)
  PROVE  \A i \in DOMAIN t : LocalsAt(i, t[i], f) /\ i < Len(s)
<1>1. /\ Len(s) \in Nat /\ DOMAIN s = 1..Len(s) /\ DOMAIN t = 1..(Len(s) - 1)
  BY DEF Popped
<1>2. \A i \in DOMAIN t : i \in 1..(Len(s) - 1) /\ i \in DOMAIN s /\ i < Len(s)
  BY <1>1
<1>3. \A i \in DOMAIN t : t[i] = s[i]
  BY <1>2 DEF Popped
<1> QED
  BY <1>2, <1>3

(***************************************************************************)
(* Defining a variable of the function f, in the scopes of a function,     *)
(* adds storage of f only.                                                 *)
(***************************************************************************)
LEMMA DefineLocals ==
  ASSUME NEW T, NEW s \in Seq(Seq(T)), NEW t \in Seq(Seq(T)), NEW x, Defined(s, t, x), NEW f,
         \A i \in DOMAIN s : LocalsAt(i, s[i], f),
         x.val.kind = "var" => Len(s) >= 3 /\ x.val.fn = f
  PROVE  \A i \in DOMAIN t : LocalsAt(i, t[i], f)
<1>1. /\ Len(s) \in Nat /\ DOMAIN s = 1..Len(s) /\ DOMAIN t = 1..Len(s)
      /\ Len(s) \in DOMAIN s
  BY DEF Defined
<1>2. LocalsAt(Len(s), t[Len(s)], f)
  BY <1>1 DEF Defined, LocalsAt
<1>3. \A i \in 1..(Len(s) - 1) : LocalsAt(i, t[i], f)
  <2>1. \A i \in 1..(Len(s) - 1) : i \in DOMAIN s /\ t[i] = s[i]
    BY <1>1 DEF Defined
  <2> QED
    BY <2>1
<1>4. \A i \in DOMAIN t : i \in 1..(Len(s) - 1) \/ i = Len(s)
  BY <1>1
<1> QED
  BY <1>2, <1>3, <1>4

(***************************************************************************)
(* Outside functions there are two scopes and no storage; a function that  *)
(* begins finds none, and the scopes it leaves take its own with them.     *)
(***************************************************************************)
LEMMA LocalsStep == TypeOK /\ ScopeBalance /\ LocalsInside /\ [Next]_vars => LocalsInside'
<1> DEFINE Goal == \A i \in DOMAIN m_scopes' : LocalsAt(i, m_scopes'[i], current_function')
<1> SUFFICES ASSUME TypeOK, ScopeBalance, LocalsInside, [Next]_vars, ~errs'
             PROVE  Goal
  BY DEF LocalsInside
<1>0. /\ m_scopes # <<>> /\ m_scopes \in Seq(Seq(S!Sym)) /\ S!TypeOK /\ errs \in BOOLEAN
      /\ Len(m_scopes) \in Nat /\ DOMAIN m_scopes = 1..Len(m_scopes)
  BY DEF TypeOK, S!TypeOK, ScopeBalance, Depth
<1> HIDE DEF Goal
<1>1. ~errs => \A i \in DOMAIN m_scopes : LocalsAt(i, m_scopes[i], current_function)
  BY DEF LocalsInside
<1>2. ASSUME UNCHANGED <<m_scopes, current_function, errs>>
      PROVE  Goal
  BY <1>1, <1>2 DEF Goal
<1>3. ASSUME S!EnterScope, UNCHANGED <<current_function, errs>>
      PROVE  Goal
  <2>1. m_scopes' \in Seq(Seq(S!Sym)) /\ Pushed(m_scopes, m_scopes')
    BY <1>0, <1>3, EnterCall DEF S!TypeOK, S!Sym
  <2> QED
    BY <1>0, <1>1, <1>3, <2>1, PushLocals DEF Goal
<1>4. ASSUME S!LeaveScope, UNCHANGED errs
      PROVE  \A i \in DOMAIN m_scopes' :
               LocalsAt(i, m_scopes'[i], current_function) /\ i < Len(m_scopes)
  <2>1. m_scopes' \in Seq(Seq(S!Sym)) /\ Popped(m_scopes, m_scopes')
    BY <1>0, <1>4, LeaveCall DEF S!TypeOK, S!Sym
  <2> QED
    BY <1>0, <1>1, <1>4, <2>1, PopLocals
<1>5. ASSUME NEW x \in Names, S!Define(x, Var), pc \in {"params", "body"},
             UNCHANGED <<current_function, errs>>
      PROVE  Goal
  <2> DEFINE y == [name |-> x, val |-> Var]
  <2>1. Var \in SymVals /\ y.val.fn = current_function
    BY <1>5, InFunction DEF InProc, Var
  <2>2. m_scopes' \in Seq(Seq(S!Sym)) /\ Defined(m_scopes, m_scopes', y)
    BY <1>0, <1>5, <2>1, DefineCall DEF S!TypeOK, S!Sym
  <2>3. Len(m_scopes) >= 3
    BY <1>0, <1>5 DEF ScopeBalance, Depth
  <2> HIDE DEF y
  <2>4. \A i \in DOMAIN m_scopes' : LocalsAt(i, m_scopes'[i], current_function)
    BY <1>0, <1>1, <1>5, <2>1, <2>2, <2>3, DefineLocals
  <2> QED
    BY <1>5, <2>4 DEF Goal
<1>6. ASSUME NEW q, q.name \in Names, NEW self, NEW method \in BOOLEAN,
             NEW after \in {"loop", "methods"}, pc \in {"loop", "methods"},
             ProtoDone(q, self, method, after), UNCHANGED errs
      PROVE  Goal
  <2> DEFINE x == [name |-> q.name, val |-> [kind |-> "fn", fn |-> Len(mod) + 1]]
  <2>1. S!TypeOK' /\ Defined(m_scopes, m_scopes', x)
    BY <1>6, ProtoCall
  <2>2. m_scopes' \in Seq(Seq(S!Sym)) /\ x.val.kind # "var"
    BY <2>1 DEF S!TypeOK, S!Sym
  <2> HIDE DEF x
  <2>3. \A i \in DOMAIN m_scopes' : LocalsAt(i, m_scopes'[i], current_function)
    BY <1>0, <1>1, <1>6, <2>1, <2>2, DefineLocals
  <2>4. Len(m_scopes') = 2
    BY <1>0, <1>6, <2>1 DEF Defined, ScopeBalance, Depth
  <2>5. DOMAIN m_scopes' = 1..2
    BY <2>2, <2>4
  <2>6. \A i \in DOMAIN m_scopes' : ~(i >= 3)
    BY <2>5
  <2> QED
    BY <2>3, <2>6 DEF LocalsAt, Goal
<1>7. CASE UNCHANGED vars
  BY <1>2, <1>7 DEF vars, scopeVars, fnVars
<1>8. CASE Start \/ EnterProc \/ EnterBody
  BY <1>3, <1>8 DEF Start, EnterProc, EnterBody, fnVars
<1>9. CASE LeaveModule \/ EndBody
  BY <1>4, <1>9 DEF LeaveModule, EndBody, fnVars, Goal
<1>10. CASE FinishProc
  <2>1. Len(m_scopes) = 3 /\ S!LeaveScope /\ UNCHANGED errs
    BY <1>0, <1>10 DEF FinishProc, ScopeBalance, Depth
  <2>2. m_scopes' \in Seq(Seq(S!Sym))
    BY <1>0, <2>1, LeaveCall DEF S!TypeOK, S!Sym
  <2>3. \A i \in DOMAIN m_scopes' : ~(i >= 3)
    BY <1>4, <2>1, <2>2
  <2> QED
    BY <1>4, <2>1, <2>3 DEF LocalsAt, Goal
<1>11. CASE EndOfModule \/ EndAggregate \/ Report \/ Verify \/ Die \/ Terminated
  BY <1>2, <1>7, <1>11 DEF EndOfModule, EndAggregate, Report, Verify, Die, Terminated, scopeVars,
                           fnVars
<1>12. CASE BindParam
  <2>1. params[bound + 1] \in Names
    BY <1>12 DEF TypeOK, BindParam
  <2> QED
    BY <1>5, <1>12, <2>1 DEF BindParam
<1>13. ASSUME NEW p \in ProcDecl, NextProc(p) \/ NextMethod(p)
       PROVE  Goal
  <2>1. p.name \in Names /\ MethodOf(p).name \in Names
    BY DeclType
  <2>2. ASSUME NEW q, NEW self, ProtoFails(q, self), UNCHANGED <<scopeVars, fnVars>>
        PROVE  Goal
    <3>1. UNCHANGED <<m_scopes, current_function>> /\ ~errs
      BY <2>2 DEF ProtoFails, scopeVars, fnVars
    <3> QED
      BY <1>1, <3>1 DEF Goal
  <2>3. CASE NextProc(p)
    BY <1>6, <2>1, <2>2, <2>3 DEF NextProc
  <2>4. CASE NextMethod(p)
    BY <1>6, <2>1, <2>2, <2>4 DEF NextMethod, NoRewind
  <2> QED
    BY <1>13, <2>3, <2>4
<1>14. ASSUME NEW c \in ClassNames, NEW fields \in Deciding(TypeSpec), NextAggregate(c, fields)
       PROVE  Goal
  <2>1. UNCHANGED <<m_scopes, current_function>>
    BY <1>0, <1>14, StructCall DEF NextAggregate, LowerReturn, scopeVars, fnVars
  <2>2. ~errs
    BY <1>14 DEF NextAggregate, LowerReturn
  <2> QED
    BY <1>1, <2>1, <2>2 DEF Goal
<1>15. ASSUME NEW path \in Paths, NextUse(path)
       PROVE  Goal
  BY <1>2, <1>15 DEF NextUse, Load, scopeVars, fnVars
<1>16. CASE Statement
  <2>1. ASSUME NEW self, NEW code, FailStmt(self, code)
        PROVE  Goal
    BY <2>1 DEF FailStmt
  <2>2. ASSUME NEW self, NEW code, ExprStmt(self, code)
        PROVE  Goal
    BY <1>2, <2>2 DEF ExprStmt, scopeVars, fnVars
  <2>3. ASSUME NEW self, NEW valued, NEW fits, ReturnStmt(self, valued, fits)
        PROVE  Goal
    BY <1>2, <2>3 DEF ReturnStmt, scopeVars, fnVars
  <2>4. ASSUME NEW x \in Names, NEW base, NEW self, NEW code,
               InitStmt(x, base, self, code)
        PROVE  Goal
    BY <1>5, <2>4 DEF InitStmt, fnVars
  <2> QED
    BY <1>9, <1>16, <2>1, <2>2, <2>3, <2>4 DEF Statement
<1> QED
  BY <1>7, <1>8, <1>9, <1>10, <1>11, <1>12, <1>13, <1>14, <1>15, <1>16
     DEF Next, Declaration, Body, Driver, Goal

(***************************************************************************)
(* No function of a program without recorded errors sees the storage of    *)
(* another one, whatever its declarations and statements are.              *)
(***************************************************************************)
THEOREM NoForeignLocalsCorrect == Spec => []NoForeignLocals
<1>1. Init => LocalsInside
  <2> SUFFICES ASSUME Init PROVE \A i \in DOMAIN m_scopes : LocalsAt(i, m_scopes[i], current_function)
    BY DEF LocalsInside
  <2>1. m_scopes = << << >> >>
    BY DEF Init, S!Init
  <2> QED
    BY <2>1 DEF LocalsAt, S!Syms
<1>2. TypeOK /\ ScopeBalance /\ LocalsInside => NoForeignLocals
  <2> SUFFICES ASSUME TypeOK, ScopeBalance, LocalsInside, ~errs
               PROVE  \A s \in S!Syms(S!Back(m_scopes)) :
                        s.val.kind = "var" => s.val.fn = current_function
    BY DEF NoForeignLocals
  <2>1. Len(m_scopes) \in DOMAIN m_scopes
    BY DEF TypeOK, S!TypeOK, ScopeBalance, Depth
  <2> QED
    BY <2>1 DEF LocalsInside, LocalsAt, S!Back
<1> QED
  BY <1>1, <1>2, BalanceCorrect, LocalsStep, PTL DEF Spec

-------------------------------------------------------------------------------
(***************************************************************************)
(* Terminators.  What makes FreeFunctionsTerminated inductive: in a        *)
(* function that is not a method, the flag defined_return is down when its *)
(* body begins and, when it is up, the block has been closed.              *)
(***************************************************************************)
FlagTrue == (pc \in InProc /\ ~mod[current_function].method) =>
              /\ pc = "enter" => ~defined_return
              /\ (pc # "enter" /\ defined_return) => CurrentBlock # "open"

Returns == FreeFunctionsTerminated /\ FlagTrue

(***************************************************************************)
(* A prototype comes with a block that is not open, and with the flag as   *)
(* it was: down, unless it is the one of a method.                         *)
(***************************************************************************)
LEMMA ProtoReturns ==
  ASSUME TypeOK, Returns, NEW p, p.name \in Names, NEW self, NEW method \in BOOLEAN,
         NEW after \in {"loop", "methods"}, pc \in {"loop", "methods"},
         ProtoDone(p, self, method, after), method \/ ~defined_return'
  PROVE  Returns'
<1>1. /\ mod' \in Seq(Function) /\ Len(mod') = Len(mod) + 1
      /\ \A i \in DOMAIN mod : mod'[i] = mod[i]
      /\ mod'[Len(mod) + 1].method = method /\ mod'[Len(mod) + 1].block = "decl"
  BY ProtoCall
<1>2. current_function = 0 /\ mod \in Seq(Function)
  BY DEF TypeOK, InProc
<1>3. \A i \in DOMAIN mod' : i \in DOMAIN mod \/ i = Len(mod) + 1
  BY <1>1, <1>2
<1>4. \A i \in DOMAIN mod : ~mod[i].method => mod[i].block # "open"
  BY <1>2 DEF Returns, FreeFunctionsTerminated
<1>5. FreeFunctionsTerminated'
  BY <1>1, <1>3, <1>4 DEF FreeFunctionsTerminated
<1>6. \/ pc' = after
      \/ pc' = "enter" /\ current_function' = Len(mod) + 1
  BY DEF ProtoDone
<1>7. FlagTrue'
  BY <1>1, <1>6 DEF FlagTrue, InProc
<1> QED
  BY <1>5, <1>7 DEF Returns

(***************************************************************************)
(* Inside a function only its own block changes.                           *)
(***************************************************************************)
LEMMA BlockReturns ==
  ASSUME TypeOK, Returns, pc \in InProc, NEW b \in Blocks, SetBlock(b),
         UNCHANGED current_function, pc' # "enter", defined_return' => b # "open"
  PROVE  Returns'
<1>1. mod \in Seq(Function) /\ current_function \in DOMAIN mod
  BY InFunction
<1>2. /\ mod' \in Seq(Function) /\ Len(mod') = Len(mod)
      /\ \A i \in DOMAIN mod \ {current_function} : mod'[i] = mod[i]
      /\ mod'[current_function].block = b
  BY ONLY <1>1, b \in Blocks, SetBlock(b), BlockSet
<1>3. DOMAIN mod' = DOMAIN mod
  BY <1>1, <1>2
<1>4. FreeFunctionsTerminated'
  BY <1>2, <1>3 DEF Returns, FreeFunctionsTerminated
<1>5. FlagTrue'
  BY <1>2 DEF FlagTrue, CurrentBlock
<1> QED
  BY <1>4, <1>5 DEF Returns

(***************************************************************************)
(* Each step keeps the flag and the block of the function in agreement:    *)
(* the flag is lowered by each statement, raised by a return only, and     *)
(* read once, where the function ends.                                     *)
(***************************************************************************)
LEMMA ReturnsStep == TypeOK /\ ScopeBalance /\ Returns /\ [Next]_vars => Returns'
<1> SUFFICES ASSUME TypeOK, ScopeBalance, Returns, [Next]_vars PROVE Returns'
  OBVIOUS
<1>1. ASSUME UNCHANGED <<mod, current_function, defined_return>>,
             pc' # "enter", pc' \in InProc => pc \in InProc \ {"enter"}
      PROVE  Returns'
  <2>1. FreeFunctionsTerminated'
    BY <1>1 DEF Returns, FreeFunctionsTerminated
  <2>2. CurrentBlock' = CurrentBlock
    BY <1>1 DEF CurrentBlock
  <2>3. pc' \in InProc /\ ~mod[current_function].method /\ defined_return => CurrentBlock # "open"
    BY <1>1 DEF Returns, FlagTrue
  <2>4. FlagTrue'
    BY <1>1, <2>2, <2>3 DEF FlagTrue
  <2> QED
    BY <2>1, <2>4 DEF Returns
<1>2. ASSUME UNCHANGED <<mod, current_function>>, pc' \notin InProc
      PROVE  Returns'
  BY <1>2 DEF Returns, FreeFunctionsTerminated, FlagTrue
<1>3. CASE UNCHANGED vars
  BY <1>3 DEF vars, flagVars, fnVars, Returns, FreeFunctionsTerminated, FlagTrue, CurrentBlock
<1>4. CASE Start \/ EndOfModule \/ EndAggregate \/ LeaveModule \/ Report \/ Verify \/ Die
           \/ \E path \in Paths : NextUse(path)
  <2>1. UNCHANGED <<mod, current_function>> /\ pc' \notin InProc
    BY <1>4 DEF Start, EndOfModule, LeaveLoop, EndAggregate, LeaveModule, Report, Verify, Die,
                NextUse, Break, Load, fnVars, InProc
  <2> QED
    BY <1>2, <2>1
<1>5. CASE Terminated
  BY <1>3, <1>5 DEF Terminated
<1>6. CASE BindParam \/ EnterBody \/ EndBody
  BY <1>1, <1>6 DEF BindParam, EnterBody, EndBody, flagVars, fnVars, InProc
<1>7. CASE EnterProc
  <2>1. SetBlock("open") /\ pc = "enter" /\ pc' = "params"
        /\ UNCHANGED <<defined_return, current_function>>
    BY <1>7 DEF EnterProc, flagVars, fnVars
  <2>2. mod \in Seq(Function) /\ current_function \in DOMAIN mod /\ "open" \in Blocks
    BY <2>1, InFunction DEF InProc, Blocks
  <2>3. /\ mod' \in Seq(Function) /\ Len(mod') = Len(mod)
        /\ \A i \in DOMAIN mod : mod'[i].method = mod[i].method
        /\ \A i \in DOMAIN mod \ {current_function} : mod'[i] = mod[i]
    BY ONLY <2>1, <2>2, BlockSet
  <2>4. DOMAIN mod' = DOMAIN mod
    BY <2>2, <2>3
  <2>5. FreeFunctionsTerminated'
    BY <2>1, <2>3, <2>4 DEF Returns, FreeFunctionsTerminated
  <2>6. FlagTrue'
    BY <2>1, <2>2, <2>3 DEF Returns, FlagTrue, InProc
  <2> QED
    BY <2>5, <2>6 DEF Returns
<1>8. CASE FinishProc
  <2>1. /\ mod \in Seq(Function) /\ current_function \in DOMAIN mod
        /\ CurrentBlock \in Blocks /\ pc = "return" /\ pc' \notin InProc
    BY <1>8, InFunction DEF FinishProc, InProc
  <2>2. Terminate(CurrentBlock) \in Blocks \ {"open"}
    BY <2>1, BlockType
  <2>3. \A i \in DOMAIN mod \ {current_function} : ~mod[i].method => mod[i].block # "open"
    BY DEF Returns, FreeFunctionsTerminated
  <2>4. CASE defined_return
    <3>1. mod' = mod
      BY <1>8, <2>4 DEF FinishProc
    <3>2. ~mod[current_function].method => mod[current_function].block # "open"
      BY <2>1, <2>4 DEF Returns, FlagTrue, InProc, CurrentBlock
    <3> QED
      BY <2>1, <2>3, <3>1, <3>2 DEF Returns, FreeFunctionsTerminated, FlagTrue
  <2>5. CASE ~defined_return
    <3>1. SetBlock(Terminate(CurrentBlock))
      BY <1>8, <2>5 DEF FinishProc
    <3>2. /\ mod' \in Seq(Function) /\ Len(mod') = Len(mod)
          /\ \A i \in DOMAIN mod \ {current_function} : mod'[i] = mod[i]
          /\ mod'[current_function].block = Terminate(CurrentBlock)
      BY ONLY <2>1, <2>2, <3>1, BlockSet
    <3>3. DOMAIN mod' = DOMAIN mod
      BY <2>1, <3>2
    <3> QED
      BY <2>1, <2>2, <2>3, <3>2, <3>3 DEF Returns, FreeFunctionsTerminated, FlagTrue
  <2> QED
    BY <2>4, <2>5
<1>9. ASSUME NEW p \in ProcDecl, NextProc(p) \/ NextMethod(p)
      PROVE  Returns'
  <2>1. p.name \in Names /\ MethodOf(p).name \in Names
    BY DeclType
  <2>2. CASE UNCHANGED <<mod, fnVars>> /\ pc' \in {"loop", "leave", "methods"}
    BY <1>2, <2>2 DEF fnVars, InProc
  <2>3. CASE NextProc(p)
    BY <2>1, <2>2, <2>3, ProtoReturns DEF NextProc, Rewind, Break, LeaveLoop
  <2>4. CASE NextMethod(p)
    BY <2>1, <2>2, <2>4, ProtoReturns DEF NextMethod, NoRewind
  <2> QED
    BY <1>9, <2>3, <2>4
<1>10. ASSUME NEW c, NEW fields, NextAggregate(c, fields)
       PROVE  Returns'
  <2>1. UNCHANGED <<mod, current_function>> /\ pc' \notin InProc
    BY <1>10 DEF NextAggregate, LowerReturn, Break, LeaveLoop, fnVars, InProc
  <2> QED
    BY <1>2, <2>1
<1>11. ASSUME NEW code \in Codes, SetBlock(Emit(CurrentBlock, code)), ~defined_return',
              pc = "body", pc' # "enter", UNCHANGED fnVars
       PROVE  Returns'
  <2>1. Emit(CurrentBlock, code) \in Blocks
    BY <1>11, InFunction, BlockType DEF InProc
  <2> QED
    BY <1>11, <2>1, BlockReturns DEF InProc, fnVars
<1>12. CASE Statement
  <2>1. ASSUME NEW self, NEW code \in Codes,
               FailStmt(self, code) \/ ExprStmt(self, code)
        PROVE  Returns'
    BY <1>11, <2>1 DEF FailStmt, ExprStmt
  <2>2. ASSUME NEW x, NEW base, NEW self, NEW code \in Codes,
               InitStmt(x, base, self, code)
        PROVE  Returns'
    BY <1>11, <2>2 DEF InitStmt
  <2>3. ASSUME NEW self, NEW valued, NEW fits, ReturnStmt(self, valued, fits)
        PROVE  Returns'
    <3> DEFINE b == IF fits THEN Terminate(CurrentBlock) ELSE "illformed"
    <3>1. pc = "body" /\ SetBlock(b) /\ UNCHANGED <<fnVars, pc>>
      BY <2>3 DEF ReturnStmt
    <3>2. b \in Blocks \ {"open"}
      BY <3>1, InFunction, BlockType DEF InProc, Blocks
    <3> HIDE DEF b
    <3> QED
      BY <3>1, <3>2, BlockReturns DEF InProc, fnVars
  <2> QED
    BY <1>6, <1>12, <2>1, <2>2, <2>3 DEF Statement
<1> QED
  BY <1>3, <1>4, <1>5, <1>6, <1>7, <1>8, <1>9, <1>10, <1>12
     DEF Next, Declaration, Body, Driver

(***************************************************************************)
(* Every function that is not a method ends with a terminator once it is   *)
(* compiled, however its body ends.                                        *)
(***************************************************************************)
THEOREM FreeFunctionsTerminatedCorrect == Spec => []FreeFunctionsTerminated
<1>1. Init => Returns
  BY DEF Init, Returns, FreeFunctionsTerminated, FlagTrue, InProc
<1>2. Returns => FreeFunctionsTerminated
  BY DEF Returns
<1> QED
  BY <1>1, <1>2, BalanceCorrect, ReturnsStep, PTL DEF Spec

-------------------------------------------------------------------------------
(***************************************************************************)
(* The struct of the methods.  What makes ClassAsserted inductive: while   *)
(* methods are compiled, the struct is visible in the scope they are       *)
(* declared in and in every scope opened since.                            *)
(***************************************************************************)
Covered(stack, k, c) == \A i \in DOMAIN stack : i + k >= Len(stack) => S!Has(stack[i], c)

AmongMethods == pc = "methods" \/ (pc \in InProc /\ mod[current_function].method)

StructCovered == AmongMethods => Covered(m_classes, Depth - 2, agg)

(***************************************************************************)
(* Entering a scope, leaving one and defining a struct keep a struct       *)
(* covered, to one scope more, one scope less and in the last one.         *)
(***************************************************************************)
LEMMA PushCovers ==
  ASSUME NEW T, NEW s \in Seq(Seq(T)), NEW t \in Seq(Seq(T)), s # <<>>, Pushed(s, t),
         NEW k \in Nat, NEW c, Covered(s, k, c)
  PROVE  Covered(t, k + 1, c)
<1>1. /\ Len(s) \in Nat /\ DOMAIN s = 1..Len(s) /\ DOMAIN t = 1..(Len(s) + 1)
      /\ Len(s) \in DOMAIN s /\ Len(t) = Len(s) + 1
  BY DEF Pushed
<1>2. S!Has(t[Len(s) + 1], c)
  <2>1. t[Len(s) + 1] = s[Len(s)]
    BY DEF Pushed
  <2>2. Len(s) + k >= Len(s)
    BY <1>1
  <2> QED
    BY <1>1, <2>1, <2>2 DEF Covered
<1>3. ASSUME NEW i \in 1..Len(s), i + (k + 1) >= Len(s) + 1
      PROVE  S!Has(t[i], c)
  <2>1. i \in DOMAIN s /\ i + k >= Len(s)
    BY <1>1, <1>3
  <2>2. t[i] = s[i]
    BY <1>3 DEF Pushed
  <2> QED
    BY <2>1, <2>2 DEF Covered
<1>4. \A i \in DOMAIN t : i \in 1..Len(s) \/ i = Len(s) + 1
  BY <1>1
<1> QED
  BY <1>1, <1>2, <1>3, <1>4 DEF Covered

(***************************************************************************)
(* Leaving a scope.                                                        *)
(***************************************************************************)
LEMMA PopCovers ==
  ASSUME NEW T, NEW s \in Seq(Seq(T)), NEW t \in Seq(Seq(T)), Popped(s, t),
         NEW k \in Nat, NEW c, Covered(s, k + 1, c)
  PROVE  Covered(t, k, c)
<1>1. /\ Len(s) \in Nat /\ DOMAIN s = 1..Len(s) /\ DOMAIN t = 1..(Len(s) - 1)
      /\ Len(t) = Len(s) - 1
  BY DEF Popped
<1>2. ASSUME NEW i \in DOMAIN t, i + k >= Len(t)
      PROVE  S!Has(t[i], c)
  <2>1. i \in 1..(Len(s) - 1) /\ i \in DOMAIN s
    BY <1>1
  <2>2. i + (k + 1) >= Len(s)
    BY <1>1, <1>2, <2>1
  <2>3. t[i] = s[i]
    BY <2>1 DEF Popped
  <2> QED
    BY <2>1, <2>2, <2>3 DEF Covered
<1> QED
  BY <1>2 DEF Covered

(***************************************************************************)
(* Every step keeps the struct of the methods covered, also one that fails *)
(* and leaves a scope open: the scopes it leaves open are covered too.     *)
(***************************************************************************)
LEMMA StructStep == TypeOK /\ ScopeBalance /\ StructCovered /\ [Next]_vars => StructCovered'
<1> SUFFICES ASSUME TypeOK, ScopeBalance, StructCovered, [Next]_vars, AmongMethods'
             PROVE  Covered(m_classes', Depth' - 2, agg')
  BY DEF StructCovered
<1>0. /\ m_classes # <<>> /\ m_classes \in Seq(Seq(S!ClassSym)) /\ S!TypeOK
      /\ m_scopes # <<>> /\ Len(m_classes) \in Nat /\ DOMAIN m_classes = 1..Len(m_classes)
  BY DEF TypeOK, S!TypeOK, ScopeBalance, Depth
<1>1. ASSUME UNCHANGED <<m_classes, agg>>, AmongMethods, Depth' = Depth
      PROVE  Covered(m_classes', Depth' - 2, agg')
  BY <1>1 DEF StructCovered, Covered
<1>2. ASSUME S!EnterScope, UNCHANGED agg, AmongMethods, Depth \in {2, 3}, Depth' = Depth + 1
      PROVE  Covered(m_classes', Depth' - 2, agg')
  <2> DEFINE k == Depth - 2
  <2>1. k \in Nat /\ k + 1 = Depth' - 2
    BY <1>2
  <2>2. m_classes' \in Seq(Seq(S!ClassSym)) /\ Pushed(m_classes, m_classes')
    BY <1>0, <1>2, EnterCall DEF S!TypeOK, S!ClassSym
  <2>3. Covered(m_classes, k, agg)
    BY <1>2 DEF StructCovered
  <2> HIDE DEF k
  <2>4. Covered(m_classes', k + 1, agg)
    BY <1>0, <2>1, <2>2, <2>3, PushCovers
  <2> QED
    BY <1>2, <2>1, <2>4
<1>3. ASSUME S!LeaveScope, UNCHANGED agg, AmongMethods, Depth \in {3, 4}, Depth' = Depth - 1
      PROVE  Covered(m_classes', Depth' - 2, agg')
  <2> DEFINE k == Depth - 3
  <2>1. k \in Nat /\ k = Depth' - 2 /\ k + 1 = Depth - 2
    BY <1>3
  <2>2. m_classes' \in Seq(Seq(S!ClassSym)) /\ Popped(m_classes, m_classes')
    BY <1>0, <1>3, LeaveCall DEF S!TypeOK, S!ClassSym
  <2>3. Covered(m_classes, k + 1, agg)
    BY <1>3, <2>1 DEF StructCovered
  <2> HIDE DEF k
  <2>4. Covered(m_classes', k, agg)
    BY <2>1, <2>2, <2>3, <1>0, PopCovers
  <2> QED
    BY <1>3, <2>1, <2>4
<1>4. ASSUME UNCHANGED <<pc, mod, current_function>>
      PROVE  AmongMethods /\ Depth' = Depth
  BY <1>4 DEF AmongMethods, Depth
<1>5. ASSUME pc \in InProc, NEW b \in Blocks, SetBlock(b), UNCHANGED current_function,
             pc' \in InProc
      PROVE  AmongMethods
  <2>1. mod \in Seq(Function) /\ current_function \in DOMAIN mod
    BY <1>5, InFunction
  <2>2. mod'[current_function].method = mod[current_function].method
    BY ONLY <1>5, <2>1, BlockSet
  <2>3. pc' # "methods"
    BY <1>5 DEF InProc
  <2> QED
    BY <1>5, <2>2, <2>3 DEF AmongMethods
<1>6. CASE UNCHANGED vars
  BY <1>1, <1>4, <1>6 DEF vars, scopeVars, fnVars
<1>7. CASE Start \/ EndOfModule \/ EndAggregate \/ LeaveModule \/ Report \/ Verify \/ Die
           \/ \E path \in Paths : NextUse(path)
  <2>1. pc' \notin InProc \cup {"methods"}
    BY <1>7 DEF Start, EndOfModule, LeaveLoop, EndAggregate, LeaveModule, Report, Verify, Die,
                NextUse, Break, Load, InProc
  <2> QED
    BY <2>1 DEF AmongMethods
<1>8. CASE Terminated
  BY <1>6, <1>8 DEF Terminated
<1>9. CASE EnterProc
  <2>1. /\ pc = "enter" /\ pc' = "params" /\ SetBlock("open") /\ S!EnterScope
        /\ UNCHANGED <<current_function, agg>> /\ "open" \in Blocks
    BY <1>9 DEF EnterProc, fnVars, Blocks
  <2>2. AmongMethods
    BY <1>5, <2>1 DEF InProc
  <2>3. Depth = 2 /\ Depth' = 3
    BY <2>1 DEF Depth
  <2> QED
    BY <1>2, <2>1, <2>2, <2>3
<1>10. CASE EnterBody
  <2>1. /\ pc = "params" /\ pc' = "body" /\ S!EnterScope
        /\ UNCHANGED <<mod, current_function, agg>>
    BY <1>10 DEF EnterBody, fnVars
  <2>2. AmongMethods
    BY <2>1 DEF AmongMethods, InProc
  <2>3. Depth = 3 /\ Depth' = 4
    BY <2>1 DEF Depth
  <2> QED
    BY <1>2, <2>1, <2>2, <2>3
<1>11. CASE BindParam
  <2>1. params[bound + 1] \in Names /\ pc = "params" /\ Var \in SymVals
    BY <1>11, InFunction DEF TypeOK, BindParam, InProc
  <2>2. UNCHANGED <<m_classes, agg, pc, mod, current_function>>
    BY <1>0, <1>11, <2>1, DefineCall DEF BindParam
  <2> QED
    BY <1>1, <1>4, <2>2
<1>12. CASE FinishProc
  <2>1. /\ pc = "return" /\ pc' \notin InProc /\ S!LeaveScope /\ UNCHANGED agg
        /\ pc' = "methods" => mod[current_function].method
    BY <1>12 DEF FinishProc, InProc
  <2>2. pc' = "methods" /\ AmongMethods
    BY <2>1 DEF AmongMethods, InProc
  <2>3. Depth = 3 /\ Depth' = 2
    BY <2>1, <2>2 DEF Depth
  <2> QED
    BY <1>3, <2>1, <2>2, <2>3
<1>13. ASSUME NEW p \in ProcDecl, NextProc(p)
       PROVE  Covered(m_classes', Depth' - 2, agg')
  <2>1. p.name \in Names
    BY DeclType
  <2>2. CASE ProtoDone(p, NoSelf, FALSE, "loop")
    <3>1. ~mod'[Len(mod) + 1].method
      BY <2>1, <2>2, ProtoCall
    <3>2. pc' = "loop" \/ (pc' = "enter" /\ current_function' = Len(mod) + 1)
      BY <2>2 DEF ProtoDone
    <3> QED
      BY <3>1, <3>2 DEF AmongMethods, InProc
  <2>3. CASE Break
    BY <2>3 DEF Break, LeaveLoop, AmongMethods, InProc
  <2> QED
    BY <1>13, <2>2, <2>3 DEF NextProc
<1>14. ASSUME NEW p \in ProcDecl, NextMethod(p)
       PROVE  Covered(m_classes', Depth' - 2, agg')
  <2>1. MethodOf(p).name \in Names /\ pc = "methods" /\ UNCHANGED agg
    BY <1>14, DeclType DEF NextMethod, NoRewind
  <2>2. UNCHANGED m_classes /\ pc' \in {"methods", "enter"}
    <3>1. CASE ProtoDone(MethodOf(p), current_self, TRUE, "methods")
      BY <2>1, <3>1, ProtoCall DEF ProtoDone
    <3>2. CASE UNCHANGED <<scopeVars, pc>>
      BY <2>1, <3>2 DEF scopeVars
    <3> QED
      BY <1>14, <3>1, <3>2 DEF NextMethod, NoRewind
  <2>3. AmongMethods /\ Depth = 2 /\ Depth' = 2
    BY <2>1, <2>2 DEF AmongMethods, Depth
  <2> QED
    BY <1>1, <2>1, <2>2, <2>3
<1>15. ASSUME NEW c \in ClassNames, NEW fields \in Deciding(TypeSpec), NextAggregate(c, fields)
       PROVE  Covered(m_classes', Depth' - 2, agg')
  <2>1. DefineStruct(c) /\ agg' = c /\ pc' = "methods"
    BY <1>15 DEF NextAggregate, LowerReturn, Break, LeaveLoop, AmongMethods, InProc
  <2>2. /\ m_classes' \in Seq(Seq(S!ClassSym)) /\ Len(m_classes') = Len(m_classes)
        /\ S!Has(m_classes'[Len(m_classes)], c)
    BY <1>0, <2>1, StructCall DEF Defined, S!TypeOK, S!ClassSym
  <2>3. Depth' - 2 = 0
    BY <2>1 DEF Depth
  <2>4. \A i \in DOMAIN m_classes' : i + 0 >= Len(m_classes') => i = Len(m_classes)
    BY <1>0, <2>2
  <2> QED
    BY <2>1, <2>2, <2>3, <2>4 DEF Covered
<1>16. ASSUME NEW code \in Codes, SetBlock(Emit(CurrentBlock, code)),
              pc = "body", pc' = "body", UNCHANGED <<m_classes, agg, current_function>>
       PROVE  Covered(m_classes', Depth' - 2, agg')
  <2>1. Emit(CurrentBlock, code) \in Blocks
    BY <1>16, InFunction, BlockType DEF InProc
  <2>2. AmongMethods
    BY <1>5, <1>16, <2>1 DEF InProc
  <2> QED
    BY <1>1, <1>16, <2>2 DEF Depth
<1>17. CASE Statement
  <2>1. ASSUME NEW self, NEW code \in Codes, FailStmt(self, code)
        PROVE  Covered(m_classes', Depth' - 2, agg')
    <3>1. /\ pc = "body" /\ pc' = "return" /\ SetBlock(Emit(CurrentBlock, code))
          /\ UNCHANGED <<m_classes, agg, current_function>>
      BY <2>1 DEF FailStmt, scopeVars, fnVars
    <3>2. Emit(CurrentBlock, code) \in Blocks
      BY <3>1, InFunction, BlockType DEF InProc
    <3>3. AmongMethods /\ Depth = 4 /\ Depth' = 3
      BY <1>5, <3>1, <3>2 DEF InProc, Depth
    <3>4. Covered(m_classes, 2, agg)
      BY <3>3 DEF StructCovered
    <3>5. \A i \in DOMAIN m_classes : i + 1 >= Len(m_classes) => i + 2 >= Len(m_classes)
      BY <1>0
    <3> QED
      BY <3>1, <3>3, <3>4, <3>5 DEF Covered
  <2>2. ASSUME NEW self, NEW code \in Codes, ExprStmt(self, code)
        PROVE  Covered(m_classes', Depth' - 2, agg')
    BY <1>16, <2>2 DEF ExprStmt, scopeVars, fnVars
  <2>3. ASSUME NEW x \in Names, NEW base, NEW self, NEW code \in Codes,
               InitStmt(x, base, self, code)
        PROVE  Covered(m_classes', Depth' - 2, agg')
    <3>1. pc = "body" /\ S!Define(x, Var)
      BY <2>3 DEF InitStmt
    <3>2. UNCHANGED m_classes
      BY <1>0, <3>1, InFunction, DefineCall DEF InProc
    <3> QED
      BY <1>16, <2>3, <3>2 DEF InitStmt, fnVars
  <2>4. ASSUME NEW self, NEW valued, NEW fits, ReturnStmt(self, valued, fits)
        PROVE  Covered(m_classes', Depth' - 2, agg')
    <3> DEFINE b == IF fits THEN Terminate(CurrentBlock) ELSE "illformed"
    <3>1. /\ pc = "body" /\ pc' = "body" /\ SetBlock(b)
          /\ UNCHANGED <<m_classes, agg, current_function>>
      BY <2>4 DEF ReturnStmt, scopeVars, fnVars
    <3>2. b \in Blocks
      BY <3>1, InFunction, BlockType DEF InProc, Blocks
    <3> HIDE DEF b
    <3>3. AmongMethods
      BY <1>5, <3>1, <3>2 DEF InProc
    <3> QED
      BY <1>1, <3>1, <3>3 DEF Depth
  <2>5. CASE EndBody
    <3>1. /\ pc = "body" /\ pc' = "return" /\ S!LeaveScope
          /\ UNCHANGED <<mod, current_function, agg>>
      BY <2>5 DEF EndBody, fnVars
    <3>2. AmongMethods /\ Depth = 4 /\ Depth' = 3
      BY <3>1 DEF AmongMethods, InProc, Depth
    <3> QED
      BY <1>3, <3>1, <3>2
  <2> QED
    BY <1>17, <2>1, <2>2, <2>3, <2>4, <2>5 DEF Statement
<1> QED
  BY <1>6, <1>7, <1>8, <1>9, <1>10, <1>11, <1>12, <1>13, <1>14, <1>15, <1>17
     DEF Next, Declaration, Body, Driver

(***************************************************************************)
(* The assertion of proc_params_with_self never fails: the struct whose    *)
(* methods are compiled is visible at each of them, also after a method    *)
(* that failed left its scope open.                                        *)
(***************************************************************************)
THEOREM ClassAssertedCorrect == Spec => []ClassAsserted
<1>1. Init => StructCovered
  BY DEF Init, StructCovered, AmongMethods, InProc
<1>2. TypeOK /\ ScopeBalance /\ StructCovered => ClassAsserted
  <2> SUFFICES ASSUME TypeOK, ScopeBalance, StructCovered, pc = "methods"
               PROVE  S!Has(S!Back(m_classes), agg)
    BY DEF ClassAsserted, VisibleClass
  <2>1. Len(m_classes) \in DOMAIN m_classes /\ Len(m_classes) \in Nat /\ Depth = 2
    BY DEF TypeOK, S!TypeOK, ScopeBalance, Depth
  <2>2. Covered(m_classes, 0, agg)
    BY <2>1 DEF StructCovered, AmongMethods
  <2>3. Len(m_classes) + 0 >= Len(m_classes)
    BY <2>1
  <2> QED
    BY <2>1, <2>2, <2>3 DEF Covered, S!Back
<1> QED
  BY <1>1, <1>2, BalanceCorrect, StructStep, PTL DEF Spec

-------------------------------------------------------------------------------
(***************************************************************************)
(* Proofs about the context that methods are compiled in, which is not     *)
(* rewound between them: what OpenAfterMethod and SelfLostByBody say of    *)
(* any program.                                                            *)
(*                                                                         *)
(* Both flags start afresh with the struct, and only statements change     *)
(* them.  So when one is not fresh where a method is declared, a body was  *)
(* compiled since, and it was the body of a method of the struct; and a    *)
(* return that is found up when a body begins stays without effect only    *)
(* until the first statement.                                              *)
(***************************************************************************)

\* Where methods are declared, a context that is not fresh comes from a method.
StaleIsMethods ==
  pc = "methods" /\ (defined_return \/ current_self # agg) => LastBodyIsMethod(Len(mod))

\* In a method: a return was found up when it began, or closed the block.
ReturnFound ==
  pc \in InProc /\ mod[current_function].method /\ defined_return =>
     \/ LastBodyIsMethod(current_function - 1)
     \/ pc # "enter" /\ CurrentBlock # "open"

\* The function being compiled has a body once its first scope is entered.
Embodied == pc \in InProc \ {"enter"} => HasBody(current_function)

Context == OpenAfterMethod /\ StaleIsMethods /\ ReturnFound /\ Embodied

-------------------------------------------------------------------------------
(***************************************************************************)
(* The last body among the first n functions depends on these alone.       *)
(***************************************************************************)
LEMMA LastBodyKept ==
  ASSUME NEW n \in Nat, \A i \in 1..n : mod'[i] = mod[i], LastBodyIsMethod(n)
  PROVE  LastBodyIsMethod(n)'
BY DEF LastBodyIsMethod, HasBody

(***************************************************************************)
(* A function without a body is not the last one that has a body.          *)
(***************************************************************************)
LEMMA LastBodyPassed ==
  ASSUME NEW n \in Nat, \A i \in 1..n : mod'[i] = mod[i], mod'[n + 1].block = "decl",
         LastBodyIsMethod(n)
  PROVE  LastBodyIsMethod(n + 1)'
BY DEF LastBodyIsMethod, HasBody

(***************************************************************************)
(* A prototype: its block is not open yet, and the context is as it was.   *)
(***************************************************************************)
LEMMA ProtoContext ==
  ASSUME TypeOK, Context, NEW p, p.name \in Names, NEW self, NEW method \in BOOLEAN,
         NEW after \in {"loop", "methods"}, pc = after,
         ProtoDone(p, self, method, after),
         IF method THEN after = "methods" /\ UNCHANGED <<flagVars, agg>>
                   ELSE after = "loop" /\ ~defined_return'
  PROVE  Context'
<1>1. /\ mod' \in Seq(Function) /\ Len(mod') = Len(mod) + 1
      /\ \A i \in DOMAIN mod : mod'[i] = mod[i]
      /\ mod'[Len(mod) + 1].method = method /\ mod'[Len(mod) + 1].block = "decl"
  BY ProtoCall
<1>2. current_function = 0 /\ mod \in Seq(Function) /\ Len(mod) \in Nat
  BY DEF TypeOK, InProc
<1>3. \/ pc' = after /\ current_function' = 0
      \/ pc' = "enter" /\ current_function' = Len(mod) + 1
  BY <1>2 DEF ProtoDone, fnVars
<1>4. OpenAfterMethod'
  <2> SUFFICES ASSUME NEW i \in DOMAIN mod', mod'[i].method, mod'[i].block = "open"
               PROVE  LastBodyIsMethod(i - 1)'
    BY DEF OpenAfterMethod
  <2>1. i \in DOMAIN mod
    BY <1>1, <1>2
  <2>2. LastBodyIsMethod(i - 1)
    BY <1>1, <1>2, <2>1 DEF Context, OpenAfterMethod
  <2>3. i - 1 \in Nat /\ \A k \in 1..i - 1 : mod'[k] = mod[k]
    BY <1>1, <1>2, <2>1
  <2> QED
    BY <2>2, <2>3, LastBodyKept
<1>5. method /\ (defined_return \/ current_self # agg) => LastBodyIsMethod(Len(mod))
  BY DEF Context, StaleIsMethods
<1>6. \A i \in 1..Len(mod) : mod'[i] = mod[i]
  BY <1>1, <1>2
<1>7. StaleIsMethods'
  <2> SUFFICES ASSUME pc' = "methods", defined_return' \/ current_self' # agg'
               PROVE  LastBodyIsMethod(Len(mod))'
    BY DEF StaleIsMethods
  <2>1. method
    BY <1>3
  <2>2. LastBodyIsMethod(Len(mod))
    BY <1>5, <2>1 DEF flagVars
  <2> QED
    BY <1>1, <1>2, <1>6, <2>2, LastBodyPassed DEF LastBodyIsMethod
<1>8. ReturnFound'
  <2> SUFFICES ASSUME pc' = "enter", method, defined_return'
               PROVE  LastBodyIsMethod(current_function - 1)'
    BY <1>1, <1>3 DEF ReturnFound, InProc
  <2>1. LastBodyIsMethod(Len(mod))
    BY <1>5 DEF flagVars
  <2>2. current_function' - 1 = Len(mod)
    BY <1>2, <1>3
  <2> QED
    BY <1>2, <1>6, <2>1, <2>2, LastBodyKept DEF LastBodyIsMethod
<1>9. Embodied'
  BY <1>3 DEF Embodied, InProc
<1> QED
  BY <1>4, <1>7, <1>8, <1>9 DEF Context

(***************************************************************************)
(* Inside a function only its own block changes, and it keeps its body.    *)
(***************************************************************************)
LEMMA BlockContext ==
  ASSUME TypeOK, Context, pc \in InProc, NEW b \in Blocks \ {"decl"}, SetBlock(b),
         UNCHANGED current_function, pc' \in InProc \ {"enter"},
         \/ ~defined_return'
         \/ b # "open"
         \/ pc = "enter" /\ UNCHANGED defined_return
  PROVE  Context'
<1>1. mod \in Seq(Function) /\ current_function \in DOMAIN mod /\ current_function = Len(mod)
  BY InFunction DEF TypeOK
<1>2. /\ mod' \in Seq(Function) /\ Len(mod') = Len(mod)
      /\ \A i \in DOMAIN mod : mod'[i].method = mod[i].method
      /\ \A i \in DOMAIN mod \ {current_function} : mod'[i] = mod[i]
      /\ mod'[current_function].block = b
  BY ONLY <1>1, b \in Blocks, SetBlock(b), BlockSet
<1>3. \A n \in 0..current_function - 1 : LastBodyIsMethod(n) => LastBodyIsMethod(n)'
  <2> SUFFICES ASSUME NEW n \in 0..current_function - 1, LastBodyIsMethod(n)
               PROVE  LastBodyIsMethod(n)'
    OBVIOUS
  <2>1. n \in Nat /\ \A i \in 1..n : mod'[i] = mod[i]
    BY <1>1, <1>2
  <2> QED
    BY <2>1, LastBodyKept
<1>4. OpenAfterMethod'
  <2> SUFFICES ASSUME NEW i \in DOMAIN mod', i # current_function, mod'[i].method,
                      mod'[i].block = "open"
               PROVE  LastBodyIsMethod(i - 1)'
    BY DEF OpenAfterMethod
  <2>1. i \in DOMAIN mod /\ i - 1 \in 0..current_function - 1
    BY <1>1, <1>2
  <2>2. LastBodyIsMethod(i - 1)
    BY <1>2, <2>1 DEF Context, OpenAfterMethod
  <2> QED
    BY <1>3, <2>1, <2>2
<1>5. StaleIsMethods'
  BY DEF StaleIsMethods, InProc
<1>6. ReturnFound'
  <2> SUFFICES ASSUME mod'[current_function].method, defined_return', b = "open"
               PROVE  LastBodyIsMethod(current_function - 1)'
    BY <1>2 DEF ReturnFound, CurrentBlock
  <2>1. LastBodyIsMethod(current_function - 1)
    BY <1>1, <1>2 DEF Context, ReturnFound, InProc
  <2>2. current_function - 1 \in 0..current_function - 1
    BY <1>1
  <2>3. LastBodyIsMethod(current_function - 1)' <=> \E n \in {current_function - 1} : LastBodyIsMethod(n)'
    BY DEF LastBodyIsMethod
  <2> QED
    BY <1>3, <2>1, <2>2, <2>3
<1>7. Embodied'
  BY <1>2 DEF Embodied, HasBody
<1> QED
  BY <1>4, <1>5, <1>6, <1>7 DEF Context

(***************************************************************************)
(* The blocks that statements leave.                                       *)
(***************************************************************************)
LEMMA BlockStays ==
  ASSUME NEW b \in Blocks \ {"decl"}
  PROVE  /\ \A code \in Codes : Emit(b, code) \in Blocks \ {"decl"}
         /\ Terminate(b) \in Blocks \ {"decl", "open"}
BY DEF Blocks, Codes, Emit, Terminate

(***************************************************************************)
(* Each step keeps the context accounted for.                              *)
(***************************************************************************)
LEMMA ContextStep == TypeOK /\ Context /\ [Next]_vars => Context'
<1> SUFFICES ASSUME TypeOK, Context, [Next]_vars PROVE Context'
  OBVIOUS
<1>1. ASSUME UNCHANGED <<mod, current_function, flagVars, agg>>,
             pc' # "enter", pc' \in InProc => pc \in InProc \ {"enter"},
             pc' = "methods" => pc = "methods"
      PROVE  Context'
  BY <1>1 DEF Context, OpenAfterMethod, StaleIsMethods, ReturnFound, Embodied, LastBodyIsMethod,
              HasBody, CurrentBlock, flagVars, InProc
<1>2. ASSUME UNCHANGED <<mod, current_function>>, pc' \notin InProc, pc' # "methods"
      PROVE  Context'
  BY <1>2 DEF Context, OpenAfterMethod, StaleIsMethods, ReturnFound, Embodied, LastBodyIsMethod,
              HasBody
<1>3. CASE UNCHANGED vars
  BY <1>3 DEF vars, flagVars, fnVars, Context, OpenAfterMethod, StaleIsMethods, ReturnFound,
              Embodied, LastBodyIsMethod, HasBody, CurrentBlock
<1>4. CASE Start \/ EndOfModule \/ EndAggregate \/ LeaveModule \/ Report \/ Verify \/ Die
           \/ \E path \in Paths : NextUse(path)
  <2>1. UNCHANGED <<mod, current_function>> /\ pc' \notin InProc /\ pc' # "methods"
    BY <1>4 DEF Start, EndOfModule, LeaveLoop, EndAggregate, LeaveModule, Report, Verify, Die,
                NextUse, Break, Load, fnVars, InProc
  <2> QED
    BY <1>2, <2>1
<1>5. CASE Terminated
  BY <1>3, <1>5 DEF Terminated
<1>6. CASE BindParam \/ EnterBody \/ EndBody
  BY <1>1, <1>6 DEF BindParam, EnterBody, EndBody, fnVars, InProc
<1>7. CASE EnterProc
  BY <1>7, BlockContext DEF EnterProc, flagVars, fnVars, InProc, Blocks
<1>8. CASE FinishProc
  <2>1. /\ mod \in Seq(Function) /\ current_function \in DOMAIN mod /\ current_function = Len(mod)
        /\ CurrentBlock \in Blocks \ {"decl"} /\ pc = "return"
    BY <1>8, InFunction DEF FinishProc, InProc, TypeOK, Context, Embodied, HasBody, CurrentBlock
  <2>2. Terminate(CurrentBlock) \in Blocks \ {"decl", "open"}
    BY <2>1, BlockStays
  <2>3. /\ Len(mod') = Len(mod) /\ mod' \in Seq(Function)
        /\ \A i \in DOMAIN mod : mod'[i].method = mod[i].method
        /\ \A i \in DOMAIN mod \ {current_function} : mod'[i] = mod[i]
        /\ mod'[current_function].block # "decl"
        /\ mod'[current_function].block = "open" => defined_return /\ CurrentBlock = "open"
    <3>1. CASE defined_return
      BY <1>8, <2>1, <3>1 DEF FinishProc, CurrentBlock
    <3>2. CASE ~defined_return
      <4>1. SetBlock(Terminate(CurrentBlock))
        BY <1>8, <3>2 DEF FinishProc
      <4>2. Terminate(CurrentBlock) \in Blocks
        BY <2>2
      <4>3. /\ Len(mod') = Len(mod) /\ mod' \in Seq(Function)
            /\ \A i \in DOMAIN mod : mod'[i].method = mod[i].method
            /\ \A i \in DOMAIN mod \ {current_function} : mod'[i] = mod[i]
            /\ mod'[current_function].block = Terminate(CurrentBlock)
        BY ONLY <2>1, <4>1, <4>2, BlockSet
      <4> QED
        BY <2>2, <4>3
    <3> QED
      BY <3>1, <3>2
  <2>4. /\ pc' = IF mod[current_function].method THEN "methods" ELSE "loop"
        /\ UNCHANGED <<flagVars, agg>> /\ current_function' = 0
    BY <1>8 DEF FinishProc, DropFunction
  <2>5. OpenAfterMethod'
    <3> SUFFICES ASSUME NEW i \in DOMAIN mod', mod'[i].method, mod'[i].block = "open"
                 PROVE  LastBodyIsMethod(i - 1)'
      BY DEF OpenAfterMethod
    <3>1. i \in DOMAIN mod /\ i - 1 \in Nat /\ \A k \in 1..i - 1 : mod'[k] = mod[k]
      BY <2>1, <2>3
    <3>2. CASE i # current_function
      <4>1. LastBodyIsMethod(i - 1)
        BY <2>3, <3>1, <3>2 DEF Context, OpenAfterMethod
      <4> QED
        BY <3>1, <4>1, LastBodyKept
    <3>3. CASE i = current_function
      <4>1. mod[i].method /\ defined_return /\ CurrentBlock = "open"
        BY <2>3, <3>1, <3>3
      <4>2. LastBodyIsMethod(i - 1)
        BY <2>1, <3>3, <4>1 DEF Context, ReturnFound, InProc
      <4> QED
        BY <3>1, <4>2, LastBodyKept
    <3> QED
      BY <3>2, <3>3
  <2>6. StaleIsMethods'
    <3> SUFFICES ASSUME pc' = "methods" PROVE LastBodyIsMethod(Len(mod))'
      BY DEF StaleIsMethods
    <3>1. mod[current_function].method
      BY <2>4
    <3>2. Len(mod') \in 1..Len(mod') /\ mod'[Len(mod')].method /\ HasBody(Len(mod))'
      BY <2>1, <2>3, <3>1 DEF HasBody
    <3> QED
      BY <2>1, <2>3, <3>2 DEF LastBodyIsMethod
  <2> QED
    BY <2>4, <2>5, <2>6 DEF Context, ReturnFound, Embodied, InProc
<1>9. ASSUME NEW p \in ProcDecl, NextProc(p) \/ NextMethod(p)
      PROVE  Context'
  <2>1. p.name \in Names /\ MethodOf(p).name \in Names
    BY DeclType
  <2>2. CASE NextProc(p)
    <3>1. CASE ProtoDone(p, NoSelf, FALSE, "loop") /\ Rewind /\ pc = "loop"
      BY <2>1, <3>1, ProtoContext DEF Rewind
    <3>2. CASE UNCHANGED <<mod, fnVars>> /\ Break
      BY <1>2, <3>2 DEF Break, LeaveLoop, fnVars, InProc
    <3> QED
      BY <2>2, <3>1, <3>2 DEF NextProc
  <2>3. CASE NextMethod(p)
    <3>1. CASE ProtoDone(MethodOf(p), current_self, TRUE, "methods") /\ NoRewind /\ pc = "methods"
               /\ UNCHANGED agg
      BY <2>1, <3>1, ProtoContext DEF NoRewind
    <3>2. CASE UNCHANGED <<mod, fnVars, flagVars, agg, pc>> /\ pc = "methods"
      BY <1>1, <3>2 DEF fnVars, InProc
    <3> QED
      BY <2>3, <3>1, <3>2 DEF NextMethod, NoRewind
  <2> QED
    BY <1>9, <2>2, <2>3
<1>10. ASSUME NEW c, NEW fields, NextAggregate(c, fields)
       PROVE  Context'
  <2>1. UNCHANGED <<mod, current_function>> /\ pc' \notin InProc
    BY <1>10 DEF NextAggregate, LowerReturn, Break, LeaveLoop, fnVars, InProc
  <2>2. pc' = "methods" => ~defined_return' /\ current_self' = agg'
    BY <1>10 DEF NextAggregate, LowerReturn, Break, LeaveLoop
  <2> QED
    BY <2>1, <2>2 DEF Context, OpenAfterMethod, StaleIsMethods, ReturnFound, Embodied,
                      LastBodyIsMethod, HasBody
<1>11. ASSUME NEW code \in Codes, SetBlock(Emit(CurrentBlock, code)), ~defined_return',
              pc = "body", pc' \in {"body", "return"}, UNCHANGED fnVars
       PROVE  Context'
  <2>1. CurrentBlock \in Blocks \ {"decl"}
    BY <1>11, InFunction DEF InProc, Context, Embodied, HasBody, CurrentBlock
  <2>2. Emit(CurrentBlock, code) \in Blocks \ {"decl"}
    BY <2>1, BlockStays
  <2> QED
    BY <1>11, <2>2, BlockContext DEF InProc, fnVars
<1>12. CASE Statement
  <2>1. ASSUME NEW self, NEW code \in Codes,
               FailStmt(self, code) \/ ExprStmt(self, code)
        PROVE  Context'
    BY <1>11, <2>1 DEF FailStmt, ExprStmt
  <2>2. ASSUME NEW x, NEW base, NEW self, NEW code \in Codes,
               InitStmt(x, base, self, code)
        PROVE  Context'
    BY <1>11, <2>2 DEF InitStmt
  <2>3. ASSUME NEW self, NEW valued, NEW fits, ReturnStmt(self, valued, fits)
        PROVE  Context'
    <3> DEFINE b == IF fits THEN Terminate(CurrentBlock) ELSE "illformed"
    <3>1. pc = "body" /\ SetBlock(b) /\ UNCHANGED <<fnVars, pc>>
      BY <2>3 DEF ReturnStmt
    <3>2. CurrentBlock \in Blocks \ {"decl"}
      BY <3>1, InFunction DEF InProc, Context, Embodied, HasBody, CurrentBlock
    <3>3. b \in Blocks \ {"decl", "open"}
      BY <3>2, BlockStays DEF Blocks
    <3> HIDE DEF b
    <3> QED
      BY <3>1, <3>3, BlockContext DEF InProc, fnVars
  <2> QED
    BY <1>6, <1>12, <2>1, <2>2, <2>3 DEF Statement
<1> QED
  BY <1>3, <1>4, <1>5, <1>6, <1>7, <1>8, <1>9, <1>10, <1>12
     DEF Next, Declaration, Body, Driver

LEMMA ContextInit == Init => Context
BY DEF Init, Context, OpenAfterMethod, StaleIsMethods, ReturnFound, Embodied, InProc

(***************************************************************************)
(* A method ends without a terminator only after another method's body,    *)
(* whatever functions, structs and files come between.                     *)
(***************************************************************************)
THEOREM OpenAfterMethodCorrect == Spec => []OpenAfterMethod
<1>1. Context => OpenAfterMethod
  BY DEF Context
<1> QED
  BY <1>1, ContextInit, TypeCorrect, ContextStep, PTL DEF Spec

(***************************************************************************)
(* Self stands for the struct whose methods are compiled, unless the last  *)
(* body compiled was a method's.                                           *)
(***************************************************************************)
THEOREM SelfLostByBodyCorrect == Spec => []SelfLostByBody
<1>1. Context => SelfLostByBody
  BY DEF Context, StaleIsMethods, SelfLostByBody
<1> QED
  BY <1>1, ContextInit, TypeCorrect, ContextStep, PTL DEF Spec
===============================================================================
