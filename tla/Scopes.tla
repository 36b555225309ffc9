-------------------------------- MODULE Scopes --------------------------------
(***************************************************************************)
(* The class Scope of src/Plang/src/llvm/scopes.cpp with the SymTable of   *)
(* sym.cpp: two parallel stacks of tables, m_scopes for variables and      *)
(* functions and m_classes for structs.  Entering a scope pushes a COPY of *)
(* the innermost tables, leaving pops them, a lookup reads the innermost   *)
(* table only, and a definition is refused when the lookup already finds   *)
(* the name.                                                               *)
(*                                                                         *)
(* A table is the sequence of its symbols in the order of their            *)
(* definition; a symbol is a name with a value.  The symbols are shared    *)
(* between the copies of a table, but no code writes to one after its      *)
(* definition, so a value stands for it.                                   *)
(***************************************************************************)
EXTENDS Naturals, Sequences

CONSTANTS
  Names,       \* identifiers (interned strings, compared by address)
  Vals,        \* what a variable or function name can be bound to
  ClassNames,  \* identifiers of structs
  ClassVals,   \* what a struct name can be bound to
  MaxDepth     \* bound on the number of nested scopes explored

ASSUME MaxDepthAssumption == MaxDepth \in Nat \ {0}

VARIABLES
  m_scopes,    \* stack of tables of variables and functions
  m_classes,   \* stack of tables of structs
  underflow    \* leave_scope found no scope and ended the process

vars == <<m_scopes, m_classes, underflow>>

Sym      == [name : Names, val : Vals]
ClassSym == [name : ClassNames, val : ClassVals]

Back(s) == s[Len(s)]
Pop(s)  == SubSeq(s, 1, Len(s) - 1)
Syms(table) == {table[k] : k \in DOMAIN table}

(***************************************************************************)
(* SymTable::find returns the first symbol with the name.                  *)
(***************************************************************************)
Has(table, n) == \E k \in DOMAIN table : table[k].name = n
Find(table, n) == table[CHOOSE k \in DOMAIN table :
                          /\ table[k].name = n
                          /\ \A j \in 1..(k - 1) : table[j].name # n]

(***************************************************************************)
(* SymTable::define appends the symbol, unless its name is there already   *)
(* (it then prints a message and does nothing).                            *)
(***************************************************************************)
TableDefineBlind(table, sym) == Append(table, sym)  \* mutant: no lookup first
TableDefine(table, sym) ==
  IF Has(table, sym.name) THEN table ELSE Append(table, sym)

(***************************************************************************)
(* The constructor starts with one empty table of each kind.               *)
(***************************************************************************)
Init == /\ m_scopes = << << >> >>
        /\ m_classes = << << >> >>
        /\ underflow = FALSE

(***************************************************************************)
(* Entering copies the innermost table (an empty stack gets an empty one). *)
(* Mutants: a fresh table instead of a copy; a copy of the global table.   *)
(***************************************************************************)
EnterStackFresh(s)  == Append(s, <<>>)
EnterStackGlobal(s) == Append(s, IF s = <<>> THEN <<>> ELSE s[1])
EnterStack(s) == Append(s, IF s = <<>> THEN <<>> ELSE Back(s))

EnterScope == /\ Len(m_scopes) < MaxDepth
              /\ m_scopes' = EnterStack(m_scopes)
              /\ m_classes' = EnterStack(m_classes)
              /\ UNCHANGED underflow

(***************************************************************************)
(* Leaving pops both stacks; without a scope to leave the process exits.   *)
(* Mutants: m_classes is forgotten; the table left replaces the enclosing  *)
(* one.                                                                    *)
(***************************************************************************)
LeaveScopeHalf == /\ m_scopes # <<>>
                  /\ m_scopes' = Pop(m_scopes)
                  /\ UNCHANGED <<m_classes, underflow>>
LeaveScopeMerging == /\ Len(m_scopes) > 1
                     /\ m_scopes' = [Pop(m_scopes) EXCEPT ![Len(m_scopes) - 1] = Back(m_scopes)]
                     /\ m_classes' = Pop(m_classes)
                     /\ UNCHANGED underflow
LeaveScope ==
  \/ /\ m_scopes # <<>>
     /\ m_scopes' = Pop(m_scopes)
     /\ m_classes' = Pop(m_classes)
     /\ UNCHANGED underflow
  \/ /\ m_scopes = <<>>
     /\ underflow' = TRUE
     /\ UNCHANGED <<m_scopes, m_classes>>

(***************************************************************************)
(* define_named_sym_in_last_scope.  Without a scope back() is undefined:   *)
(* callers define only while one is open.                                  *)
(***************************************************************************)
Define(n, v) ==
  /\ m_scopes # <<>>
  /\ m_scopes' = [m_scopes EXCEPT ![Len(m_scopes)] =
                    TableDefine(@, [name |-> n, val |-> v])]
  /\ UNCHANGED <<m_classes, underflow>>

(***************************************************************************)
(* define_cls mounts the struct before it defines it: when the type of a   *)
(* field cannot be compiled (mounted is FALSE) nothing is defined.         *)
(***************************************************************************)
DefineCls(c, v, mounted) ==
  /\ m_classes # <<>>
  /\ m_classes' = [m_classes EXCEPT ![Len(m_classes)] =
                     IF mounted THEN TableDefine(@, [name |-> c, val |-> v]) ELSE @]
  /\ UNCHANGED <<m_scopes, underflow>>

Next == /\ ~underflow
        /\ \/ EnterScope
           \/ LeaveScope
           \/ \E n \in Names, v \in Vals : Define(n, v)
           \/ \E c \in ClassNames, v \in ClassVals, mounted \in BOOLEAN :
                DefineCls(c, v, mounted)

Spec == Init /\ [][Next]_vars

-------------------------------------------------------------------------------
(***************************************************************************)
(* Type invariant: both stacks hold tables of well-formed symbols, and     *)
(* they grow and shrink together (Scope::enter_scope and leave_scope       *)
(* treat the two vectors one after the other).                             *)
(***************************************************************************)
TypeOK == /\ m_scopes \in Seq(Seq(Sym))
          /\ m_classes \in Seq(Seq(ClassSym))
          /\ Len(m_scopes) = Len(m_classes)
          /\ underflow \in BOOLEAN

(***************************************************************************)
(* No table of a stack holds two symbols with one name.                    *)
(***************************************************************************)
OneSymPerName(stack) ==
  \A i \in DOMAIN stack : \A j, k \in DOMAIN stack[i] :
    stack[i][j].name = stack[i][k].name => j = k

(***************************************************************************)
(* Each table starts with a copy of every table that encloses it.          *)
(***************************************************************************)
IsCopiedInto(outer, inner) == /\ Len(outer) <= Len(inner)
                              /\ \A k \in DOMAIN outer : inner[k] = outer[k]

Nested(stack) == \A j \in DOMAIN stack : \A i \in 1..j :
                   IsCopiedInto(stack[i], stack[j])

(***************************************************************************)
(* What scope i owns: the symbols its table has and the enclosing one has  *)
(* not.  Each visible symbol is owned by some open scope.                  *)
(***************************************************************************)
Own(stack, i) ==
  Syms(stack[i]) \ (IF i = 1 THEN {} ELSE Syms(stack[i - 1]))

Owned(stack) ==
  \A j \in DOMAIN stack : \A s \in Syms(stack[j]) :
    \E i \in 1..j : s \in Own(stack, i)

(***************************************************************************)
(* The inductive invariant: copying whole tables keeps them distinct,      *)
(* nested and accounted for, in both stacks.                               *)
(***************************************************************************)
TablesOK == /\ OneSymPerName(m_scopes)  /\ OneSymPerName(m_classes)
            /\ Nested(m_scopes)         /\ Nested(m_classes)
            /\ Owned(m_scopes)          /\ Owned(m_classes)

(***************************************************************************)
(* Lookups are stable: what an outer scope resolves, every scope opened    *)
(* inside it resolves to the same symbol, whatever was defined since       *)
(* (get_sym_by_name reads only the innermost copy).                        *)
(***************************************************************************)
StableIn(stack) ==
  \A j \in DOMAIN stack : \A i \in 1..j : \A k \in DOMAIN stack[i] :
    LET n == stack[i][k].name IN
      /\ Has(stack[j], n)
      /\ Find(stack[j], n) = stack[i][k]

LookupStable == StableIn(m_scopes) /\ StableIn(m_classes)

(***************************************************************************)
(* A step never touches the tables of enclosing scopes: only the table     *)
(* that is innermost after the step may differ from what it was, and       *)
(* leaving a scope brings back the enclosing table exactly as it was when  *)
(* the scope was entered.                                                  *)
(***************************************************************************)
OuterUntouched(stack, next) ==
  /\ \A i \in DOMAIN stack \cap DOMAIN next :
       \/ next[i] = stack[i]
       \/ i = Len(stack) /\ Len(next) = Len(stack)
  /\ Len(next) \in {Len(stack) - 1, Len(stack), Len(stack) + 1}

OuterFrozen == [][ /\ OuterUntouched(m_scopes, m_scopes')
                   /\ OuterUntouched(m_classes, m_classes') ]_vars

(***************************************************************************)
(* The stack of copied tables implements the lexical environment whose     *)
(* frames are what each scope owns: a declaration is accepted exactly when *)
(* no open scope owns the name, and leaving forgets the innermost frame.   *)
(* A refused definition, one that could not be mounted and the exit on     *)
(* underflow are stutters of the environment.                              *)
(***************************************************************************)
OwnFrames == [i \in 1..Len(m_scopes) |-> [vars    |-> Own(m_scopes, i),
                                          classes |-> Own(m_classes, i)]]

Env == INSTANCE LexicalEnv WITH frames <- OwnFrames
EnvSpec == Env!Spec
===============================================================================
