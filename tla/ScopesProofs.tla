----------------------------- MODULE ScopesProofs -----------------------------
(***************************************************************************)
(* Proofs about Scopes, for every set of names and values and every depth. *)
(* The lemmas treat one stack of tables at a time, over any set S of       *)
(* symbols, so that they serve m_scopes and m_classes alike.               *)
(***************************************************************************)
EXTENDS Scopes, SequenceTheorems, TLAPS

StackOK(stack) == OneSymPerName(stack) /\ Nested(stack) /\ Owned(stack)

(***************************************************************************)
(* What StackOK says of the table at level j.                              *)
(***************************************************************************)
LevelOK(stack, j) ==
  /\ \A k, l \in DOMAIN stack[j] :
       stack[j][k].name = stack[j][l].name => k = l
  /\ \A i \in 1..j : IsCopiedInto(stack[i], stack[j])
  /\ \A x \in Syms(stack[j]) : \E i \in 1..j : x \in Own(stack, i)

(***************************************************************************)
(* A stack is in order when each of its levels is.                         *)
(***************************************************************************)
LEMMA StackByLevel ==
  ASSUME NEW s
  PROVE  StackOK(s) <=> \A j \in DOMAIN s : LevelOK(s, j)
BY DEF StackOK, LevelOK, OneSymPerName, Nested, Owned

DefineStack(stack, x) ==
  [stack EXCEPT ![Len(stack)] = TableDefine(@, x)]

(***************************************************************************)
(* Entering a scope keeps every table and copies the innermost one.        *)
(***************************************************************************)
LEMMA EnterShape ==
  ASSUME NEW S, NEW s \in Seq(Seq(S))
  PROVE  /\ EnterStack(s) \in Seq(Seq(S))
         /\ Len(EnterStack(s)) = Len(s) + 1
         /\ \A i \in 1..Len(s) : EnterStack(s)[i] = s[i]
         /\ s # <<>> => EnterStack(s)[Len(s) + 1] = s[Len(s)]
         /\ s = <<>> => EnterStack(s)[Len(s) + 1] = <<>>
BY DEF EnterStack, Back

(***************************************************************************)
(* Leaving a scope keeps every table but the innermost one.                *)
(***************************************************************************)
LEMMA SeqPopShape ==
  ASSUME NEW S, NEW s \in Seq(S), s # <<>>
  PROVE  /\ Pop(s) \in Seq(S)
         /\ Len(Pop(s)) = Len(s) - 1
         /\ \A i \in 1..(Len(s) - 1) : Pop(s)[i] = s[i]
<1> DEFINE m == Len(s) - 1
<1>1. m \in Nat /\ \A i \in 1..m : s[i] \in S
  OBVIOUS
<1> HIDE DEF m
<1>2. /\ SubSeq(s, 1, m) \in Seq(S)
      /\ Len(SubSeq(s, 1, m)) = IF 1 <= m THEN m - 1 + 1 ELSE 0
      /\ \A i \in 1..(m - 1 + 1) : SubSeq(s, 1, m)[i] = s[1 + i - 1]
  BY <1>1, SubSeqProperties
<1> DEFINE p == SubSeq(s, 1, m)
<1> HIDE DEF p
<1>3. p \in Seq(S) /\ Len(p) = m
  BY <1>1, <1>2 DEF p
<1>4. \A i \in 1..m : p[i] = s[i]
  <2>1. \A i \in 1..m : i \in 1..(m - 1 + 1) /\ 1 + i - 1 = i
    BY <1>1
  <2> QED
    BY <2>1, <1>2 DEF p
<1> QED
  BY <1>3, <1>4 DEF Pop, p, m

(***************************************************************************)
(* The same for a stack of tables.                                         *)
(***************************************************************************)
LEMMA PopShape ==
  ASSUME NEW S, NEW s \in Seq(Seq(S)), s # <<>>
  PROVE  /\ Pop(s) \in Seq(Seq(S))
         /\ Len(Pop(s)) = Len(s) - 1
         /\ \A i \in 1..(Len(s) - 1) : Pop(s)[i] = s[i]
BY SeqPopShape

(***************************************************************************)
(* A definition keeps every table but the innermost one, and adds to that  *)
(* one at most one symbol, at its end, when the name is new there.         *)
(***************************************************************************)
LEMMA DefineShape ==
  ASSUME NEW S, NEW s \in Seq(Seq(S)), s # <<>>,
         NEW x \in S
  PROVE  /\ DefineStack(s, x) \in Seq(Seq(S))
         /\ Len(DefineStack(s, x)) = Len(s)
         /\ \A i \in 1..(Len(s) - 1) : DefineStack(s, x)[i] = s[i]
         /\ DefineStack(s, x)[Len(s)] = TableDefine(s[Len(s)], x)
<1>1. s[Len(s)] \in Seq(S) /\ Len(s) \in DOMAIN s
  OBVIOUS
<1>2. TableDefine(s[Len(s)], x) \in Seq(S)
  BY <1>1 DEF TableDefine
<1> QED
  BY <1>1, <1>2 DEF DefineStack

(***************************************************************************)
(* SymTable::define leaves the table alone when the name is taken, and     *)
(* else adds the symbol at its end.                                        *)
(***************************************************************************)
LEMMA TableDefineShape ==
  ASSUME NEW S, NEW t \in Seq(S), NEW x \in S
  PROVE  /\ TableDefine(t, x) \in Seq(S)
         /\ Has(t, x.name) => TableDefine(t, x) = t
         /\ ~Has(t, x.name) =>
              /\ Len(TableDefine(t, x)) = Len(t) + 1
              /\ \A k \in 1..Len(t) : TableDefine(t, x)[k] = t[k]
              /\ TableDefine(t, x)[Len(t) + 1] = x
BY DEF TableDefine

(***************************************************************************)
(* A level is in order in every stack that has the same tables up to it.   *)
(***************************************************************************)
LEMMA SameOwn ==
  ASSUME NEW s, NEW t, NEW j \in Nat, \A i \in 1..j : t[i] = s[i]
  PROVE  \A i \in 1..j : Own(t, i) = Own(s, i)
<1>1. SUFFICES ASSUME NEW i \in 1..j
               PROVE  Own(t, i) = Own(s, i)
  OBVIOUS
<1>2. t[i] = s[i]
  BY <1>1
<1>3. i # 1 => t[i - 1] = s[i - 1]
  BY <1>1
<1> QED
  BY <1>2, <1>3 DEF Own

(***************************************************************************)
(* Level by level, order depends on the tables up to that level only.      *)
(***************************************************************************)
LEMMA SameLevel ==
  ASSUME NEW s, NEW t, NEW j \in Nat \ {0}, \A i \in 1..j : t[i] = s[i],
         LevelOK(s, j)
  PROVE  LevelOK(t, j)
<1>1. t[j] = s[j]
  OBVIOUS
<1>2. \A i \in 1..j : Own(t, i) = Own(s, i)
  BY SameOwn
<1> QED
  BY <1>1, <1>2 DEF LevelOK

(***************************************************************************)
(* A copy of the innermost table is in order one level further in, and     *)
(* owns nothing.                                                           *)
(***************************************************************************)
LEMMA CopyLevel ==
  ASSUME NEW s, NEW t, NEW j \in Nat \ {0}, \A i \in 1..j : t[i] = s[i],
         t[j + 1] = s[j], LevelOK(s, j)
  PROVE  LevelOK(t, j + 1) /\ Own(t, j + 1) = {}
<1>1. \A i \in 1..j : Own(t, i) = Own(s, i)
  BY SameOwn
<1>2. \A k, l \in DOMAIN t[j + 1] : t[j + 1][k].name = t[j + 1][l].name => k = l
  BY DEF LevelOK
<1>3. \A i \in 1..(j + 1) : IsCopiedInto(t[i], t[j + 1])
  <2>1. SUFFICES ASSUME NEW i \in 1..(j + 1)
                 PROVE  IsCopiedInto(t[i], t[j + 1])
    OBVIOUS
  <2>2. CASE i = j + 1
    <3>1. IsCopiedInto(s[j], s[j])
      BY DEF LevelOK
    <3> QED
      BY <2>2, <3>1
  <2>3. CASE i \in 1..j
    <3>1. IsCopiedInto(s[i], s[j])
      BY <2>3 DEF LevelOK
    <3> QED
      BY <2>3, <3>1
  <2> QED
    BY <2>2, <2>3
<1>4. \A x \in Syms(t[j + 1]) : \E i \in 1..(j + 1) : x \in Own(t, i)
  <2>1. SUFFICES ASSUME NEW x \in Syms(t[j + 1])
                 PROVE  \E i \in 1..(j + 1) : x \in Own(t, i)
    OBVIOUS
  <2>2. PICK i \in 1..j : x \in Own(s, i)
    BY <2>1 DEF LevelOK
  <2> QED
    BY <2>2, <1>1
<1>5. Own(t, j + 1) = {}
  BY DEF Own
<1> QED
  BY <1>2, <1>3, <1>4, <1>5 DEF LevelOK

(***************************************************************************)
(* A new name defined in the table at level j is owned by that level, and  *)
(* the level stays in order: a name that is new in the innermost table is  *)
(* new in every table copied into it.                                      *)
(***************************************************************************)
AddsAt(S, s, t, j, x) ==
  /\ j \in Nat \ {0} /\ x \in S
  /\ \A i \in 1..(j - 1) : t[i] = s[i]
  /\ \A i \in 1..j : s[i] \in Seq(S)
  /\ ~Has(s[j], x.name)
  /\ t[j] = Append(s[j], x)

(***************************************************************************)
(* The level at which a new symbol x turns s into t.                       *)
(***************************************************************************)
LEMMA DefineLevel ==
  ASSUME NEW S, NEW s, NEW t, NEW j, NEW x,
         AddsAt(S, s, t, j, x), LevelOK(s, j)
  PROVE  /\ LevelOK(t, j)
         /\ Own(t, j) = Own(s, j) \cup {x}
<1> DEFINE a == s[j]
           b == t[j]
<1>0. /\ j \in Nat \ {0} /\ x \in S
      /\ \A i \in 1..(j - 1) : t[i] = s[i]
      /\ \A i \in 1..j : s[i] \in Seq(S)
      /\ ~Has(s[j], x.name)
      /\ t[j] = Append(s[j], x)
  BY DEF AddsAt
<1> USE <1>0
<1>1. a \in Seq(S) /\ b \in Seq(S) /\ Len(b) = Len(a) + 1 /\ b[Len(a) + 1] = x
  OBVIOUS
<1>2. \A k \in 1..Len(a) : b[k] = a[k]
  OBVIOUS
<1>3. Len(a) \in Nat /\ DOMAIN a = 1..Len(a) /\ DOMAIN b = 1..(Len(a) + 1)
  BY <1>1
<1>4. \A k \in 1..Len(a) : a[k].name # x.name
  BY <1>3 DEF Has
<1>5. \A k, l \in DOMAIN a : a[k].name = a[l].name => k = l
  BY DEF LevelOK
<1>6. \A i \in 1..j : IsCopiedInto(s[i], a)
  BY DEF LevelOK
<1>7. \A y \in Syms(a) : \E i \in 1..j : y \in Own(s, i)
  BY DEF LevelOK
<1>8. \A i \in 1..(j - 1) : Own(t, i) = Own(s, i)
  <2>1. j - 1 \in Nat
    OBVIOUS
  <2> QED
    BY <2>1, SameOwn
<1>9. Syms(b) = Syms(a) \cup {x}
  BY <1>1, <1>2, <1>3 DEF Syms
<1>10. j # 1 => t[j - 1] = s[j - 1] /\ j - 1 \in 1..j
  OBVIOUS
<1>11. j # 1 => x \notin Syms(s[j - 1])
  <2>1. SUFFICES ASSUME j # 1, x \in Syms(s[j - 1])
                 PROVE  FALSE
    OBVIOUS
  <2>2. PICK k \in DOMAIN s[j - 1] : s[j - 1][k] = x
    BY <2>1 DEF Syms
  <2>3. s[j - 1] \in Seq(S) /\ IsCopiedInto(s[j - 1], a)
    BY <2>1, <1>6, <1>10
  <2>4. a[k] = x /\ k \in 1..Len(a)
    BY <2>2, <2>3, <1>3 DEF IsCopiedInto
  <2> QED
    BY <2>4, <1>4
<1>12. Own(t, j) = Own(s, j) \cup {x}
  BY <1>9, <1>10, <1>11 DEF Own
<1>13. \A k, l \in DOMAIN b : b[k].name = b[l].name => k = l
  <2>1. SUFFICES ASSUME NEW k \in 1..(Len(a) + 1), NEW l \in 1..(Len(a) + 1),
                        b[k].name = b[l].name
                 PROVE  k = l
    BY <1>3
  <2> HIDE DEF a, b
  <2>2. CASE k \in 1..Len(a) /\ l \in 1..Len(a)
    BY <2>1, <2>2, <1>2, <1>3, <1>5
  <2>3. CASE k = Len(a) + 1 /\ l \in 1..Len(a)
    BY <2>1, <2>3, <1>1, <1>2, <1>4
  <2>4. CASE l = Len(a) + 1 /\ k \in 1..Len(a)
    BY <2>1, <2>4, <1>1, <1>2, <1>4
  <2>5. CASE k = Len(a) + 1 /\ l = Len(a) + 1
    BY <2>5
  <2> QED
    BY <2>1, <2>2, <2>3, <2>4, <2>5, <1>3
<1>14. \A i \in 1..j : IsCopiedInto(t[i], b)
  <2>1. SUFFICES ASSUME NEW i \in 1..j
                 PROVE  IsCopiedInto(t[i], b)
    OBVIOUS
  <2>2. CASE i = j
    BY <2>2, <1>1, <1>3 DEF IsCopiedInto
  <2>3. CASE i # j
    <3>1. t[i] = s[i] /\ IsCopiedInto(s[i], a) /\ s[i] \in Seq(S)
      BY <2>1, <2>3, <1>6
    <3>2. Len(s[i]) \in Nat /\ DOMAIN s[i] = 1..Len(s[i])
      BY <3>1
    <3> HIDE DEF a, b
    <3> QED
      BY <3>1, <3>2, <1>1, <1>2, <1>3 DEF IsCopiedInto
  <2> QED
    BY <2>2, <2>3
<1>15. \A y \in Syms(b) : \E i \in 1..j : y \in Own(t, i)
  <2>1. SUFFICES ASSUME NEW y \in Syms(b)
                 PROVE  \E i \in 1..j : y \in Own(t, i)
    OBVIOUS
  <2>2. CASE y = x
    BY <2>2, <1>12
  <2>3. CASE y # x
    <3>1. PICK i \in 1..j : y \in Own(s, i)
      BY <2>1, <2>3, <1>7, <1>9
    <3>2. CASE i = j
      BY <3>1, <3>2, <1>12
    <3>3. CASE i # j
      <4>1. i \in 1..(j - 1)
        BY <3>3
      <4> QED
        BY <3>1, <4>1, <1>8
    <3> QED
      BY <3>2, <3>3
  <2> QED
    BY <2>2, <2>3
<1> QED
  BY <1>12, <1>13, <1>14, <1>15 DEF LevelOK

(***************************************************************************)
(* The three operations keep a stack in order, and what they change of     *)
(* what each scope owns.                                                   *)
(***************************************************************************)
LEMMA EnterOK ==
  ASSUME NEW S, NEW s \in Seq(Seq(S)), StackOK(s)
  PROVE  /\ StackOK(EnterStack(s))
         /\ \A i \in 1..Len(s) : Own(EnterStack(s), i) = Own(s, i)
         /\ Own(EnterStack(s), Len(s) + 1) = {}
<1> DEFINE t == EnterStack(s)
           m == Len(s)
<1>1. /\ t \in Seq(Seq(S)) /\ Len(t) = m + 1
      /\ \A i \in 1..m : t[i] = s[i]
      /\ s # <<>> => t[m + 1] = s[m]
      /\ s = <<>> => t[m + 1] = <<>>
  BY EnterShape
<1>2. /\ m \in Nat /\ DOMAIN s = 1..m /\ DOMAIN t = 1..(m + 1)
      /\ s # <<>> => m # 0
      /\ s = <<>> => m = 0
  BY <1>1
<1>3. \A j \in 1..m : LevelOK(s, j)
  BY <1>2, StackByLevel
<1> HIDE DEF t, m
<1>4. \A j \in 1..m : LevelOK(t, j)
  <2>1. SUFFICES ASSUME NEW j \in 1..m
                 PROVE  LevelOK(t, j)
    OBVIOUS
  <2>2. j \in Nat \ {0} /\ \A i \in 1..j : t[i] = s[i]
    BY <1>1, <1>2
  <2> QED
    BY <2>2, <1>3, SameLevel
<1>5. LevelOK(t, m + 1) /\ Own(t, m + 1) = {}
  <2>1. CASE s # <<>>
    <3>1. m \in Nat \ {0} /\ t[m + 1] = s[m] /\ LevelOK(s, m)
      BY <2>1, <1>1, <1>2, <1>3
    <3> QED
      BY <3>1, <1>1, CopyLevel
  <2>2. CASE s = <<>>
    <3>1. m = 0 /\ t[1] = <<>>
      BY <2>2, <1>1, <1>2
    <3>2. Own(t, 1) = {} /\ LevelOK(t, 1)
      BY <3>1 DEF Own, Syms, LevelOK, IsCopiedInto
    <3> QED
      BY <3>1, <3>2
  <2> QED
    BY <2>1, <2>2
<1>6. StackOK(t)
  BY <1>2, <1>4, <1>5, StackByLevel
<1>7. \A i \in 1..m : Own(t, i) = Own(s, i)
  BY <1>1, <1>2, SameOwn
<1> QED
  BY <1>5, <1>6, <1>7 DEF t, m

(***************************************************************************)
(* Leaving keeps the rest of the stack in order, with the same owners.     *)
(***************************************************************************)
LEMMA PopOK ==
  ASSUME NEW S, NEW s \in Seq(Seq(S)), s # <<>>, StackOK(s)
  PROVE  /\ StackOK(Pop(s))
         /\ \A i \in 1..(Len(s) - 1) : Own(Pop(s), i) = Own(s, i)
<1> DEFINE t == Pop(s)
           m == Len(s) - 1
<1>1. t \in Seq(Seq(S)) /\ Len(t) = m /\ \A i \in 1..m : t[i] = s[i]
  BY PopShape
<1>2. m \in Nat /\ DOMAIN t = 1..m /\ 1..m \subseteq DOMAIN s
  BY <1>1
<1>3. \A j \in 1..m : LevelOK(s, j)
  BY <1>2, StackByLevel
<1> HIDE DEF t, m
<1>4. \A j \in 1..m : LevelOK(t, j)
  <2>1. SUFFICES ASSUME NEW j \in 1..m
                 PROVE  LevelOK(t, j)
    OBVIOUS
  <2>2. j \in Nat \ {0} /\ \A i \in 1..j : t[i] = s[i]
    BY <1>1, <1>2
  <2> QED
    BY <2>2, <1>3, SameLevel
<1>5. StackOK(t)
  BY <1>2, <1>4, StackByLevel
<1>6. \A i \in 1..m : Own(t, i) = Own(s, i)
  BY <1>1, <1>2, SameOwn
<1> QED
  BY <1>5, <1>6 DEF t, m

(***************************************************************************)
(* A definition keeps the stack in order; a new symbol is owned by the     *)
(* innermost scope.                                                        *)
(***************************************************************************)
LEMMA DefineOK ==
  ASSUME NEW S, NEW s \in Seq(Seq(S)), s # <<>>, StackOK(s),
         NEW x \in S
  PROVE  /\ StackOK(DefineStack(s, x))
         /\ \A i \in 1..(Len(s) - 1) : Own(DefineStack(s, x), i) = Own(s, i)
         /\ Has(s[Len(s)], x.name) => DefineStack(s, x) = s
         /\ ~Has(s[Len(s)], x.name) =>
              Own(DefineStack(s, x), Len(s))
                = Own(s, Len(s)) \cup {x}
<1> DEFINE t == DefineStack(s, x)
           m == Len(s)
<1>1. /\ t \in Seq(Seq(S)) /\ Len(t) = m
      /\ \A i \in 1..(m - 1) : t[i] = s[i]
      /\ t[m] = TableDefine(s[m], x)
  BY DefineShape
<1>2. /\ m \in Nat \ {0} /\ m - 1 \in Nat /\ DOMAIN s = 1..m /\ DOMAIN t = 1..m
      /\ \A i \in 1..m : s[i] \in Seq(S)
  BY <1>1
<1>3. \A j \in 1..m : LevelOK(s, j)
  BY <1>2, StackByLevel
<1>4. CASE Has(s[m], x.name)
  <2>1. t[m] = s[m]
    BY <1>1, <1>4 DEF TableDefine
  <2> HIDE DEF t, m
  <2>2. \A i \in 1..m : t[i] = s[i]
    <3>1. \A i \in 1..m : i = m \/ i \in 1..(m - 1)
      BY <1>2
    <3> QED
      BY <3>1, <2>1, <1>1
  <2>3. t = s
    BY <2>2, <1>1, SeqEqual DEF m
  <2> QED
    BY <2>3, <1>4 DEF t, m
<1>5. CASE ~Has(s[m], x.name)
  <2>1. t[m] = Append(s[m], x) 
    BY <1>1, <1>5 DEF TableDefine
  <2> HIDE DEF t, m
  <2>2. LevelOK(t, m) /\ Own(t, m) = Own(s, m) \cup {x}
    <3>1. LevelOK(s, m)
      BY <1>2, <1>3
    <3>2. /\ m \in Nat \ {0}
          /\ \A i \in 1..(m - 1) : t[i] = s[i]
          /\ \A i \in 1..m : s[i] \in Seq(S)
      BY <1>1, <1>2
    <3>3. AddsAt(S, s, t, m, x)
      BY <3>2, <2>1, <1>5 DEF AddsAt
    <3> QED
      BY <3>1, <3>3, DefineLevel
  <2>3. \A i \in 1..(m - 1) : Own(t, i) = Own(s, i)
    <3> DEFINE l == m - 1
    <3>1. l \in Nat /\ \A i \in 1..l : t[i] = s[i]
      BY <1>1, <1>2
    <3> HIDE DEF l
    <3>2. \A i \in 1..l : Own(t, i) = Own(s, i)
      BY ONLY <3>1, SameOwn
    <3> QED
      BY <3>2 DEF l
  <2>4. \A j \in 1..(m - 1) : LevelOK(t, j)
    <3>1. SUFFICES ASSUME NEW j \in 1..(m - 1)
                   PROVE  LevelOK(t, j)
      OBVIOUS
    <3>2. j \in Nat \ {0} /\ j \in 1..m /\ \A i \in 1..j : t[i] = s[i]
      BY <1>1, <1>2
    <3> QED
      BY <3>2, <1>3, SameLevel
  <2>5. \A j \in 1..m : LevelOK(t, j)
    BY <2>2, <2>4, <1>2
  <2>6. StackOK(t)
    BY <2>5, <1>2, StackByLevel
  <2> QED
    BY <2>2, <2>3, <2>6, <1>5 DEF t, m
<1> QED
  BY <1>4, <1>5

-------------------------------------------------------------------------------
(***************************************************************************)
(* Each operation, seen on the two stacks.                                 *)
(***************************************************************************)
LEMMA StackSteps ==
  ASSUME TypeOK, Next
  PROVE  \/ /\ m_scopes' = EnterStack(m_scopes)
            /\ m_classes' = EnterStack(m_classes)
            /\ underflow' = underflow
         \/ /\ m_scopes # <<>> /\ m_classes # <<>>
            /\ m_scopes' = Pop(m_scopes)
            /\ m_classes' = Pop(m_classes)
            /\ underflow' = underflow
         \/ /\ UNCHANGED <<m_scopes, m_classes>>
            /\ underflow' \in BOOLEAN
         \/ \E n \in Names, v \in Vals :
              /\ m_scopes # <<>>
              /\ m_scopes' = DefineStack(m_scopes, [name |-> n, val |-> v])
              /\ UNCHANGED <<m_classes, underflow>>
         \/ \E c \in ClassNames, v \in ClassVals :
              /\ m_classes # <<>>
              /\ m_classes' = DefineStack(m_classes, [name |-> c, val |-> v])
              /\ UNCHANGED <<m_scopes, underflow>>
<1>1. CASE EnterScope
  BY <1>1 DEF EnterScope
<1>2. CASE LeaveScope
  <2>1. m_scopes # <<>> => m_classes # <<>>
    BY DEF TypeOK
  <2> QED
    BY <1>2, <2>1 DEF LeaveScope
<1>3. ASSUME NEW n \in Names, NEW v \in Vals, Define(n, v)
      PROVE  /\ m_scopes # <<>>
             /\ m_scopes' = DefineStack(m_scopes, [name |-> n, val |-> v])
             /\ UNCHANGED <<m_classes, underflow>>
  BY <1>3 DEF Define, DefineStack
<1>4. ASSUME NEW c \in ClassNames, NEW v \in ClassVals, DefineCls(c, v, TRUE)
      PROVE  /\ m_classes # <<>>
             /\ m_classes' = DefineStack(m_classes, [name |-> c, val |-> v])
             /\ UNCHANGED <<m_scopes, underflow>>
  BY <1>4 DEF DefineCls, DefineStack
<1>5. ASSUME NEW c \in ClassNames, NEW v \in ClassVals, DefineCls(c, v, FALSE)
      PROVE  UNCHANGED vars
  BY <1>5 DEF DefineCls, TypeOK, vars
<1> QED
  BY <1>1, <1>2, <1>3, <1>4, <1>5 DEF Next, TypeOK, vars

(***************************************************************************)
(* The inductive invariant speaks of the two stacks one by one.            *)
(***************************************************************************)
LEMMA TablesByStack == TablesOK <=> StackOK(m_scopes) /\ StackOK(m_classes)
BY DEF TablesOK, StackOK

(***************************************************************************)
(* Type correctness: the stacks of scopes.cpp hold well-formed tables and  *)
(* have equal length, whatever sequence of calls is made.                  *)
(***************************************************************************)
LEMMA TypeStep == TypeOK /\ [Next]_vars => TypeOK'
<1> SUFFICES ASSUME TypeOK, [Next]_vars PROVE TypeOK'
  OBVIOUS
<1>1. CASE UNCHANGED vars
  BY <1>1 DEF TypeOK, vars
<1>2. CASE m_scopes' = EnterStack(m_scopes) /\ m_classes' = EnterStack(m_classes)
           /\ underflow' = underflow
  BY <1>2, EnterShape DEF TypeOK
<1>3. CASE /\ m_scopes # <<>> /\ m_classes # <<>>
           /\ m_scopes' = Pop(m_scopes) /\ m_classes' = Pop(m_classes)
           /\ underflow' = underflow
  BY <1>3, PopShape DEF TypeOK
<1>4. CASE UNCHANGED <<m_scopes, m_classes>> /\ underflow' \in BOOLEAN
  BY <1>4 DEF TypeOK
<1>5. ASSUME NEW n \in Names, NEW v \in Vals, m_scopes # <<>>,
             m_scopes' = DefineStack(m_scopes, [name |-> n, val |-> v]),
             UNCHANGED <<m_classes, underflow>>
      PROVE  TypeOK'
  <2>1. [name |-> n, val |-> v] \in Sym
    BY DEF Sym
  <2> QED
    BY <1>5, <2>1, DefineShape DEF TypeOK
<1>6. ASSUME NEW c \in ClassNames, NEW v \in ClassVals, m_classes # <<>>,
             m_classes' = DefineStack(m_classes, [name |-> c, val |-> v]),
             UNCHANGED <<m_scopes, underflow>>
      PROVE  TypeOK'
  <2>1. [name |-> c, val |-> v] \in ClassSym
    BY DEF ClassSym
  <2> QED
    BY <1>6, <2>1, DefineShape DEF TypeOK
<1> QED
  BY <1>1, <1>2, <1>3, <1>4, <1>5, <1>6, StackSteps

(***************************************************************************)
(* Every behaviour of the two stacks is well typed: m_scopes and m_classes *)
(* of scopes.cpp hold tables of symbols and have the same height, for      *)
(* every number of names and every depth.                                  *)
(***************************************************************************)
THEOREM TypeCorrect == Spec => []TypeOK
<1>1. Init => TypeOK
  <2>1. <<>> \in Seq(Sym) /\ <<>> \in Seq(ClassSym)
    OBVIOUS
  <2>2. << << >> >> \in Seq(Seq(Sym))
    BY <2>1
  <2>3. << << >> >> \in Seq(Seq(ClassSym))
    BY <2>1
  <2> QED
    BY <2>2, <2>3 DEF Init, TypeOK
<1> QED
  BY <1>1, TypeStep, PTL DEF Spec

(***************************************************************************)
(* Copying whole tables at every enter keeps both stacks free of duplicate *)
(* names, nested, and accounted for by the frames.                         *)
(***************************************************************************)
LEMMA TablesStep == TypeOK /\ TablesOK /\ [Next]_vars => TablesOK'
<1> SUFFICES ASSUME TypeOK, TablesOK, [Next]_vars PROVE TablesOK'
  OBVIOUS
<1>1. /\ m_scopes \in Seq(Seq(Sym)) /\ StackOK(m_scopes)
      /\ m_classes \in Seq(Seq(ClassSym)) /\ StackOK(m_classes)
  BY TablesByStack DEF TypeOK
<1>2. SUFFICES StackOK(m_scopes') /\ StackOK(m_classes')
  BY DEF TablesOK, StackOK, OneSymPerName, Nested, Owned, Own
<1>3. CASE UNCHANGED <<m_scopes, m_classes>>
  BY <1>1, <1>3
<1>4. CASE m_scopes' = EnterStack(m_scopes) /\ m_classes' = EnterStack(m_classes)
  <2>1. StackOK(EnterStack(m_scopes)) /\ StackOK(EnterStack(m_classes))
    BY <1>1, EnterOK
  <2> QED
    BY <1>4, <2>1
<1>5. CASE /\ m_scopes # <<>> /\ m_classes # <<>>
           /\ m_scopes' = Pop(m_scopes) /\ m_classes' = Pop(m_classes)
  <2>1. StackOK(Pop(m_scopes)) /\ StackOK(Pop(m_classes))
    BY <1>1, <1>5, PopOK
  <2> QED
    BY <1>5, <2>1
<1>6. ASSUME NEW n \in Names, NEW v \in Vals, m_scopes # <<>>,
             m_scopes' = DefineStack(m_scopes, [name |-> n, val |-> v]),
             UNCHANGED <<m_classes, underflow>>
      PROVE  StackOK(m_scopes') /\ StackOK(m_classes')
  <2>1. [name |-> n, val |-> v] \in Sym
    BY DEF Sym
  <2>2. StackOK(DefineStack(m_scopes, [name |-> n, val |-> v]))
    BY <1>1, <1>6, <2>1, DefineOK
  <2> QED
    BY <1>1, <1>6, <2>2
<1>7. ASSUME NEW c \in ClassNames, NEW v \in ClassVals, m_classes # <<>>,
             m_classes' = DefineStack(m_classes, [name |-> c, val |-> v]),
             UNCHANGED <<m_scopes, underflow>>
      PROVE  StackOK(m_scopes') /\ StackOK(m_classes')
  <2>1. [name |-> c, val |-> v] \in ClassSym
    BY DEF ClassSym
  <2>2. StackOK(DefineStack(m_classes, [name |-> c, val |-> v]))
    BY <1>1, <1>7, <2>1, DefineOK
  <2> QED
    BY <1>1, <1>7, <2>2
<1> QED
  BY <1>3, <1>4, <1>5, <1>6, <1>7, StackSteps DEF vars

(***************************************************************************)
(* The constructor's two empty tables are in order.                        *)
(***************************************************************************)
LEMMA TablesInit == Init => TablesOK
BY DEF Init, TablesOK, OneSymPerName, Nested, Owned, IsCopiedInto, Syms, Own

(***************************************************************************)
(* The copying enter_scope and the checking define of scopes.cpp keep      *)
(* every table free of duplicates, nested in the tables opened later, and  *)
(* owned.                                                                  *)
(***************************************************************************)
THEOREM TablesInOrder == Spec => []TablesOK
<1> QED
  BY TablesInit, TablesStep, TypeCorrect, PTL DEF Spec

(***************************************************************************)
(* Lookups are stable in a stack in order: the symbol an outer scope finds *)
(* for a name is the one every scope inside it finds.                      *)
(***************************************************************************)
LEMMA FindUnique ==
  ASSUME NEW S, NEW t \in Seq(S), NEW k \in DOMAIN t,
         \A j, l \in DOMAIN t : t[j].name = t[l].name => j = l
  PROVE  Find(t, t[k].name) = t[k]
<1> DEFINE n == t[k].name
           P(l) == t[l].name = n /\ \A j \in 1..(l - 1) : t[j].name # n
<1>1. DOMAIN t = 1..Len(t) /\ Len(t) \in Nat
  OBVIOUS
<1>2. P(k)
  <2>1. \A j \in 1..(k - 1) : j \in DOMAIN t /\ j # k
    BY <1>1
  <2> QED
    BY <2>1
<1>3. \A l \in DOMAIN t : P(l) => l = k
  OBVIOUS
<1>4. (CHOOSE l \in DOMAIN t : P(l)) = k
  <2> HIDE DEF P
  <2> QED
    BY <1>2, <1>3
<1> QED
  BY <1>4 DEF Find

(***************************************************************************)
(* In a stack in order, a name an outer scope resolves means the same in   *)
(* every scope inside it.                                                  *)
(***************************************************************************)
LEMMA StableWhenOK ==
  ASSUME NEW S, NEW s \in Seq(Seq(S)), StackOK(s)
  PROVE  StableIn(s)
<1>1. SUFFICES ASSUME NEW j \in DOMAIN s, NEW i \in 1..j, NEW k \in DOMAIN s[i]
               PROVE  /\ Has(s[j], s[i][k].name)
                      /\ Find(s[j], s[i][k].name) = s[i][k]
  BY DEF StableIn
<1>2. s[i] \in Seq(S) /\ s[j] \in Seq(S)
  BY <1>1
<1>3. LevelOK(s, j)
  BY StackByLevel
<1>4. k \in DOMAIN s[j] /\ s[j][k] = s[i][k]
  BY <1>2, <1>3 DEF LevelOK, IsCopiedInto
<1>5. \A a, b \in DOMAIN s[j] : s[j][a].name = s[j][b].name => a = b
  BY <1>3 DEF LevelOK
<1>6. Find(s[j], s[j][k].name) = s[j][k]
  BY <1>2, <1>4, <1>5, FindUnique
<1> QED
  BY <1>4, <1>6 DEF Has

(***************************************************************************)
(* A lookup, which reads the innermost copy only, finds what the enclosing *)
(* scope that owns the name defined (get_sym_by_name of scopes.cpp).       *)
(***************************************************************************)
THEOREM LookupStableCorrect == Spec => []LookupStable
<1>1. TypeOK /\ TablesOK => LookupStable
  BY TablesByStack, StableWhenOK DEF TypeOK, LookupStable
<1> QED
  BY <1>1, TypeCorrect, TablesInOrder, PTL

(***************************************************************************)
(* No operation touches the table of an enclosing scope.                   *)
(***************************************************************************)
LEMMA EnterFrozen ==
  ASSUME NEW S, NEW s \in Seq(Seq(S))
  PROVE  OuterUntouched(s, EnterStack(s))
<1> DEFINE t == EnterStack(s)
<1>1. t \in Seq(Seq(S)) /\ Len(t) = Len(s) + 1 /\ \A i \in 1..Len(s) : t[i] = s[i]
  BY EnterShape
<1> HIDE DEF t
<1>2. Len(s) \in Nat /\ DOMAIN s = 1..Len(s) /\ DOMAIN t = 1..(Len(s) + 1)
  BY <1>1
<1>3. \A i \in DOMAIN s \cap DOMAIN t : i \in 1..Len(s)
  BY <1>2
<1>4. OuterUntouched(s, t)
  BY <1>1, <1>2, <1>3 DEF OuterUntouched
<1> QED
  BY <1>4 DEF t

(***************************************************************************)
(* Leaving touches no table that stays.                                    *)
(***************************************************************************)
LEMMA PopFrozen ==
  ASSUME NEW S, NEW s \in Seq(Seq(S)), s # <<>>
  PROVE  OuterUntouched(s, Pop(s))
<1> DEFINE t == Pop(s)
<1>1. t \in Seq(Seq(S)) /\ Len(t) = Len(s) - 1 /\ \A i \in 1..(Len(s) - 1) : t[i] = s[i]
  BY PopShape
<1> HIDE DEF t
<1>2. Len(s) \in Nat /\ DOMAIN s = 1..Len(s) /\ DOMAIN t = 1..(Len(s) - 1)
  BY <1>1
<1>3. \A i \in DOMAIN s \cap DOMAIN t : i \in 1..(Len(s) - 1)
  BY <1>2
<1>4. OuterUntouched(s, t)
  BY <1>1, <1>2, <1>3 DEF OuterUntouched
<1> QED
  BY <1>4 DEF t

(***************************************************************************)
(* A definition touches the innermost table only.                          *)
(***************************************************************************)
LEMMA DefineFrozen ==
  ASSUME NEW S, NEW s \in Seq(Seq(S)), s # <<>>, NEW x \in S
  PROVE  OuterUntouched(s, DefineStack(s, x))
<1> DEFINE t == DefineStack(s, x)
<1>1. t \in Seq(Seq(S)) /\ Len(t) = Len(s) /\ \A i \in 1..(Len(s) - 1) : t[i] = s[i]
  BY DefineShape
<1> HIDE DEF t
<1>2. Len(s) \in Nat /\ DOMAIN s = 1..Len(s) /\ DOMAIN t = 1..(Len(s))
  BY <1>1
<1>3. \A i \in DOMAIN s \cap DOMAIN t : i \in 1..(Len(s) - 1) \/ i = Len(s)
  BY <1>2
<1>4. OuterUntouched(s, t)
  BY <1>1, <1>2, <1>3 DEF OuterUntouched
<1> QED
  BY <1>4 DEF t

(***************************************************************************)
(* A stack that does not change is untouched.                              *)
(***************************************************************************)
LEMMA SameFrozen ==
  ASSUME NEW S, NEW s \in Seq(Seq(S))
  PROVE  OuterUntouched(s, s)
BY DEF OuterUntouched

(***************************************************************************)
(* No call of the class Scope changes the table of an enclosing scope:     *)
(* leave_scope brings back exactly what was there at the matching          *)
(* enter_scope.                                                            *)
(***************************************************************************)
THEOREM OuterFrozenCorrect == Spec => OuterFrozen
<1> DEFINE Frozen == /\ OuterUntouched(m_scopes, m_scopes')
                     /\ OuterUntouched(m_classes, m_classes')
<1>1. TypeOK /\ [Next]_vars => Frozen
  <2> SUFFICES ASSUME TypeOK, [Next]_vars PROVE Frozen
    OBVIOUS
  <2>1. m_scopes \in Seq(Seq(Sym)) /\ m_classes \in Seq(Seq(ClassSym))
    BY DEF TypeOK
  <2>2. CASE UNCHANGED <<m_scopes, m_classes>>
    BY <2>1, <2>2, SameFrozen
  <2>3. CASE m_scopes' = EnterStack(m_scopes) /\ m_classes' = EnterStack(m_classes)
    BY <2>1, <2>3, EnterFrozen
  <2>4. CASE /\ m_scopes # <<>> /\ m_classes # <<>>
             /\ m_scopes' = Pop(m_scopes) /\ m_classes' = Pop(m_classes)
    BY <2>1, <2>4, PopFrozen
  <2>5. ASSUME NEW n \in Names, NEW v \in Vals, m_scopes # <<>>,
               m_scopes' = DefineStack(m_scopes, [name |-> n, val |-> v]),
               UNCHANGED <<m_classes, underflow>>
        PROVE  Frozen
    <3>1. [name |-> n, val |-> v] \in Sym
      BY DEF Sym
    <3> QED
      BY <2>1, <2>5, <3>1, DefineFrozen, SameFrozen
  <2>6. ASSUME NEW c \in ClassNames, NEW v \in ClassVals, m_classes # <<>>,
               m_classes' = DefineStack(m_classes, [name |-> c, val |-> v]),
               UNCHANGED <<m_scopes, underflow>>
        PROVE  Frozen
    <3>1. [name |-> c, val |-> v] \in ClassSym
      BY DEF ClassSym
    <3> QED
      BY <2>1, <2>6, <3>1, DefineFrozen, SameFrozen
  <2> QED
    BY <2>2, <2>3, <2>4, <2>5, <2>6, StackSteps DEF vars
<1> QED
  BY <1>1, TypeCorrect, PTL DEF Spec, OuterFrozen

-------------------------------------------------------------------------------
(***************************************************************************)
(* The copied tables implement the lexical environment.                    *)
(***************************************************************************)
FrameAt(s, c, i) == [vars |-> Own(s, i), classes |-> Own(c, i)]
FramesOf(s, c)   == [i \in 1..Len(s) |-> FrameAt(s, c, i)]
FrameSet(S, C)   == [vars : SUBSET S, classes : SUBSET C]
NoFrame          == [vars |-> {}, classes |-> {}]

(***************************************************************************)
(* What a scope owns are symbols of the stack.                             *)
(***************************************************************************)
LEMMA OwnType ==
  ASSUME NEW S, NEW s \in Seq(Seq(S)), NEW i \in 1..Len(s)
  PROVE  Own(s, i) \in SUBSET S
<1>1. s[i] \in Seq(S)
  OBVIOUS
<1>2. Syms(s[i]) \subseteq S
  BY <1>1 DEF Syms
<1> QED
  BY <1>2 DEF Own

(***************************************************************************)
(* The frames of two stacks of equal height, and what each one holds.      *)
(***************************************************************************)
LEMMA FramesType ==
  ASSUME NEW S, NEW s \in Seq(Seq(S)), NEW C, NEW c \in Seq(Seq(C)), Len(s) = Len(c)
  PROVE  /\ FramesOf(s, c) \in Seq(FrameSet(S, C))
         /\ Len(FramesOf(s, c)) = Len(s)
         /\ \A i \in 1..Len(s) : FramesOf(s, c)[i] = FrameAt(s, c, i)
<1>1. Len(s) \in Nat
  OBVIOUS
<1>2. \A i \in 1..Len(s) : FrameAt(s, c, i) \in FrameSet(S, C)
  <2>1. \A i \in 1..Len(s) : Own(s, i) \in SUBSET S
    BY OwnType
  <2>2. \A i \in 1..Len(c) : Own(c, i) \in SUBSET C
    BY OwnType
  <2> QED
    BY <2>1, <2>2 DEF FrameAt, FrameSet
<1> QED
  BY <1>1, <1>2 DEF FramesOf

(***************************************************************************)
(* Entering a scope appends an empty frame.                                *)
(***************************************************************************)
LEMMA EnterFrames ==
  ASSUME NEW S, NEW s \in Seq(Seq(S)), StackOK(s),
         NEW C, NEW c \in Seq(Seq(C)), StackOK(c), Len(s) = Len(c)
  PROVE  FramesOf(EnterStack(s), EnterStack(c))
           = Append(FramesOf(s, c), NoFrame)
<1> DEFINE F == FrameSet(S, C)
           e == NoFrame
           f == FramesOf(s, c)
           g == FramesOf(EnterStack(s), EnterStack(c))
           m == Len(s)
<1>1. f \in Seq(F) /\ Len(f) = m
      /\ \A i \in 1..m : f[i] = FrameAt(s, c, i)
  BY FramesType
<1>2. /\ EnterStack(s) \in Seq(Seq(S)) /\ Len(EnterStack(s)) = m + 1
      /\ EnterStack(c) \in Seq(Seq(C)) /\ Len(EnterStack(c)) = m + 1
  BY EnterShape
<1>3. g \in Seq(F) /\ Len(g) = m + 1
      /\ \A i \in 1..(m + 1) :
           g[i] = FrameAt(EnterStack(s), EnterStack(c), i)
  BY <1>2, FramesType
<1>4. /\ \A i \in 1..m : Own(EnterStack(s), i) = Own(s, i)
      /\ \A i \in 1..m : Own(EnterStack(c), i) = Own(c, i)
      /\ Own(EnterStack(s), m + 1) = {} /\ Own(EnterStack(c), m + 1) = {}
  BY EnterOK
<1>5. m \in Nat /\ e \in F
  BY DEF NoFrame, FrameSet
<1> HIDE DEF F, e, f, g, m
<1>6. Append(f, e) \in Seq(F) /\ Len(Append(f, e)) = m + 1
      /\ Append(f, e)[m + 1] = e /\ \A i \in 1..m : Append(f, e)[i] = f[i]
  BY <1>1, <1>5, AppendProperties
<1>7. \A i \in 1..(m + 1) : g[i] = Append(f, e)[i]
  <2>1. \A i \in 1..m : g[i] = Append(f, e)[i]
    <3>1. \A i \in 1..m : i \in 1..(m + 1)
      BY <1>5
    <3> QED
      BY <3>1, <1>1, <1>3, <1>4, <1>6 DEF FrameAt
  <2>2. g[m + 1] = Append(f, e)[m + 1]
    <3>1. m + 1 \in 1..(m + 1)
      BY <1>5
    <3> QED
      BY <3>1, <1>3, <1>4, <1>6 DEF e, NoFrame, FrameAt
  <2>3. \A i \in 1..(m + 1) : i \in 1..m \/ i = m + 1
    BY <1>5
  <2> QED
    BY <2>1, <2>2, <2>3
<1>8. g = Append(f, e)
  BY <1>3, <1>6, <1>7, SeqEqual
<1> QED
  BY <1>8 DEF e, f, g

(***************************************************************************)
(* Leaving a scope drops the innermost frame.                              *)
(***************************************************************************)
LEMMA PopFrames ==
  ASSUME NEW S, NEW s \in Seq(Seq(S)), StackOK(s), s # <<>>,
         NEW C, NEW c \in Seq(Seq(C)), StackOK(c), c # <<>>, Len(s) = Len(c)
  PROVE  FramesOf(Pop(s), Pop(c))
           = SubSeq(FramesOf(s, c), 1, Len(FramesOf(s, c)) - 1)
<1> DEFINE F == FrameSet(S, C)
           f == FramesOf(s, c)
           g == FramesOf(Pop(s), Pop(c))
           m == Len(s) - 1
<1>1. f \in Seq(F) /\ Len(f) = Len(s)
      /\ \A i \in 1..Len(s) : f[i] = FrameAt(s, c, i)
  BY FramesType
<1>2. /\ Pop(s) \in Seq(Seq(S)) /\ Len(Pop(s)) = m
      /\ Pop(c) \in Seq(Seq(C)) /\ Len(Pop(c)) = m
  BY PopShape
<1>3. g \in Seq(F) /\ Len(g) = m
      /\ \A i \in 1..m : g[i] = FrameAt(Pop(s), Pop(c), i)
  BY <1>2, FramesType
<1>4. /\ \A i \in 1..m : Own(Pop(s), i) = Own(s, i)
      /\ \A i \in 1..m : Own(Pop(c), i) = Own(c, i)
  BY PopOK
<1>5. m \in Nat /\ 1..m \subseteq 1..Len(s) /\ f # <<>> /\ Len(f) - 1 = m
  BY <1>1
<1>6. g \in Seq(F) /\ SubSeq(f, 1, m) = Pop(f)
  BY <1>3, <1>5 DEF Pop
<1> HIDE DEF F, f, g, m
<1>7. Pop(f) \in Seq(F) /\ Len(Pop(f)) = m /\ \A i \in 1..m : Pop(f)[i] = f[i]
  BY <1>1, <1>5, SeqPopShape
<1>8. \A i \in 1..m : g[i] = Pop(f)[i]
  BY <1>1, <1>3, <1>4, <1>5, <1>7 DEF FrameAt
<1>9. g = Pop(f)
  BY <1>3, <1>7, <1>8, SeqEqual
<1> QED
  BY <1>5, <1>6, <1>9 DEF f, g

(***************************************************************************)
(* A definition adds its symbol to the innermost frame, or does nothing.   *)
(***************************************************************************)
AddVar(f, x)   == [f EXCEPT ![Len(f)].vars = @ \cup {x}]
AddClass(f, x) == [f EXCEPT ![Len(f)].classes = @ \cup {x}]

(***************************************************************************)
(* The definition of a variable or function.                               *)
(***************************************************************************)
LEMMA DefineVarFrames ==
  ASSUME NEW S, NEW s \in Seq(Seq(S)), StackOK(s), s # <<>>,
         NEW C, NEW c \in Seq(Seq(C)), Len(s) = Len(c),
         NEW x \in S, ~Has(s[Len(s)], x.name)
  PROVE  FramesOf(DefineStack(s, x), c) = AddVar(FramesOf(s, c), x)
<1> DEFINE f == FramesOf(s, c)
           g == FramesOf(DefineStack(s, x), c)
           m == Len(s)
<1>1. /\ f \in Seq(FrameSet(S, C)) /\ Len(f) = m
      /\ \A i \in 1..m : f[i] = FrameAt(s, c, i)
  BY FramesType
<1>2. DefineStack(s, x) \in Seq(Seq(S)) /\ Len(DefineStack(s, x)) = m
  BY DefineShape
<1>3. g \in Seq(FrameSet(S, C)) /\ Len(g) = m
      /\ \A i \in 1..m : g[i] = FrameAt(DefineStack(s, x), c, i)
  BY <1>2, FramesType
<1>4. /\ \A i \in 1..(m - 1) : Own(DefineStack(s, x), i) = Own(s, i)
      /\ Own(DefineStack(s, x), m) = Own(s, m) \cup {x}
  BY DefineOK
<1>5. m \in Nat \ {0} /\ m \in 1..m
      /\ \A i \in 1..m : i \in 1..(m - 1) \/ i = m
  OBVIOUS
<1> HIDE DEF f, g, m
<1>6. f = [i \in 1..m |-> f[i]] /\ g = [i \in 1..m |-> g[i]]
  BY <1>1, <1>3
<1>7. \A i \in 1..(m - 1) : g[i] = f[i]
  <2>1. \A i \in 1..(m - 1) : i \in 1..m
    BY <1>5
  <2> QED
    BY <2>1, <1>1, <1>3, <1>4 DEF FrameAt
<1>8. g[m] = [f[m] EXCEPT !.vars = @ \cup {x}]
  BY <1>1, <1>3, <1>4, <1>5 DEF FrameAt
<1>9. AddVar(f, x) = [i \in 1..m |-> IF i = m THEN [f[m] EXCEPT !.vars = @ \cup {x}] ELSE f[i]]
  BY <1>1, <1>6 DEF AddVar
<1>10. g = AddVar(f, x)
  BY <1>5, <1>6, <1>7, <1>8, <1>9
<1> QED
  BY <1>10 DEF f, g

(***************************************************************************)
(* The same for the definition of a struct.                                *)
(***************************************************************************)
LEMMA DefineClassFrames ==
  ASSUME NEW S, NEW s \in Seq(Seq(S)), s # <<>>,
         NEW C, NEW c \in Seq(Seq(C)), StackOK(c), c # <<>>, Len(s) = Len(c),
         NEW x \in C, ~Has(c[Len(c)], x.name)
  PROVE  FramesOf(s, DefineStack(c, x)) = AddClass(FramesOf(s, c), x)
<1> DEFINE f == FramesOf(s, c)
           g == FramesOf(s, DefineStack(c, x))
           m == Len(c)
<1>1. /\ f \in Seq(FrameSet(S, C)) /\ Len(f) = m
      /\ \A i \in 1..m : f[i] = FrameAt(s, c, i)
  BY FramesType
<1>2. DefineStack(c, x) \in Seq(Seq(C)) /\ Len(DefineStack(c, x)) = m
  BY DefineShape
<1>3. g \in Seq(FrameSet(S, C)) /\ Len(g) = m
      /\ \A i \in 1..m : g[i] = FrameAt(s, DefineStack(c, x), i)
  BY <1>2, FramesType
<1>4. /\ \A i \in 1..(m - 1) : Own(DefineStack(c, x), i) = Own(c, i)
      /\ Own(DefineStack(c, x), m) = Own(c, m) \cup {x}
  BY ONLY c \in Seq(Seq(C)), StackOK(c), c # <<>>, x \in C,
          ~Has(c[Len(c)], x.name), DefineOK
<1>5. m \in Nat \ {0} /\ m \in 1..m
      /\ \A i \in 1..m : i \in 1..(m - 1) \/ i = m
  OBVIOUS
<1> HIDE DEF f, g, m
<1>6. f = [i \in 1..m |-> f[i]] /\ g = [i \in 1..m |-> g[i]]
  BY <1>1, <1>3
<1>7. \A i \in 1..(m - 1) : g[i] = f[i]
  <2>1. \A i \in 1..(m - 1) : i \in 1..m
    BY <1>5
  <2> QED
    BY <2>1, <1>1, <1>3, <1>4 DEF FrameAt
<1>8. g[m] = [f[m] EXCEPT !.classes = @ \cup {x}]
  BY <1>1, <1>3, <1>4, <1>5 DEF FrameAt
<1>9. AddClass(f, x) = [i \in 1..m |-> IF i = m THEN [f[m] EXCEPT !.classes = @ \cup {x}] ELSE f[i]]
  BY <1>1, <1>6 DEF AddClass
<1>10. g = AddClass(f, x)
  BY <1>5, <1>6, <1>7, <1>8, <1>9
<1> QED
  BY <1>10 DEF f, g

(***************************************************************************)
(* A name no table has in its innermost copy is owned by no open scope.    *)
(***************************************************************************)
LEMMA NotOwned ==
  ASSUME NEW S, NEW s \in Seq(Seq(S)), StackOK(s), s # <<>>,
         NEW n, ~Has(s[Len(s)], n)
  PROVE  \A i \in 1..Len(s) : \A x \in Own(s, i) : x.name # n
<1>1. SUFFICES ASSUME NEW i \in 1..Len(s), NEW x \in Own(s, i)
               PROVE  x.name # n
  OBVIOUS
<1>2. PICK k \in DOMAIN s[i] : s[i][k] = x
  BY <1>1 DEF Own, Syms
<1>3. Len(s) \in 1..Len(s) /\ LevelOK(s, Len(s))
  BY StackByLevel
<1>4. s[i] \in Seq(S) /\ s[Len(s)] \in Seq(S)
  BY <1>3
<1>5. k \in DOMAIN s[Len(s)] /\ s[Len(s)][k] = x
  BY <1>2, <1>3, <1>4 DEF LevelOK, IsCopiedInto
<1> QED
  BY <1>5 DEF Has

(***************************************************************************)
(* The refinement mapping of Scopes in terms of the two stacks.            *)
(***************************************************************************)
LEMMA OwnFramesShape ==
  ASSUME TypeOK
  PROVE  /\ OwnFrames = FramesOf(m_scopes, m_classes)
         /\ Len(OwnFrames) = Len(m_scopes)
         /\ OwnFrames # <<>> <=> m_scopes # <<>>
         /\ \A i \in 1..Len(m_scopes) : OwnFrames[i] = FrameAt(m_scopes, m_classes, i)
         /\ DOMAIN OwnFrames = 1..Len(m_scopes)
<1>1. OwnFrames = FramesOf(m_scopes, m_classes)
  BY DEF OwnFrames, FramesOf, FrameAt
<1>2. /\ FramesOf(m_scopes, m_classes) \in Seq(FrameSet(Sym, ClassSym))
      /\ Len(FramesOf(m_scopes, m_classes)) = Len(m_scopes)
      /\ \A i \in 1..Len(m_scopes) :
           FramesOf(m_scopes, m_classes)[i] = FrameAt(m_scopes, m_classes, i)
  BY FramesType DEF TypeOK
<1>3. m_scopes \in Seq(Seq(Sym))
  BY DEF TypeOK
<1> QED
  BY <1>1, <1>2, <1>3

(***************************************************************************)
(* Every step of the stacks is a step of the environment or leaves its     *)
(* frames alone.                                                           *)
(***************************************************************************)
LEMMA EnvStep == TypeOK /\ TablesOK /\ [Next]_vars => [Env!Next]_OwnFrames
<1> SUFFICES ASSUME TypeOK, TablesOK, [Next]_vars PROVE [Env!Next]_OwnFrames
  OBVIOUS
<1>1. /\ m_scopes \in Seq(Seq(Sym)) /\ StackOK(m_scopes)
      /\ m_classes \in Seq(Seq(ClassSym)) /\ StackOK(m_classes)
      /\ Len(m_scopes) = Len(m_classes)
  BY TablesByStack DEF TypeOK
<1>2. OwnFrames = FramesOf(m_scopes, m_classes)
      /\ OwnFrames' = FramesOf(m_scopes', m_classes')
  BY DEF OwnFrames, FramesOf, FrameAt, Own
<1>3. CASE UNCHANGED <<m_scopes, m_classes>>
  BY <1>2, <1>3
<1>4. CASE m_scopes' = EnterStack(m_scopes) /\ m_classes' = EnterStack(m_classes)
  <2>1. OwnFrames' = Append(OwnFrames, NoFrame)
    BY <1>1, <1>2, <1>4, EnterFrames
  <2> QED
    BY <2>1 DEF NoFrame, Env!Next, Env!Enter, Env!EmptyFrame
<1>5. CASE /\ m_scopes # <<>> /\ m_classes # <<>>
           /\ m_scopes' = Pop(m_scopes) /\ m_classes' = Pop(m_classes)
  <2>1. OwnFrames' = SubSeq(OwnFrames, 1, Len(OwnFrames) - 1)
    BY <1>1, <1>2, <1>5, PopFrames
  <2>2. OwnFrames # <<>>
    BY <1>5, OwnFramesShape
  <2> QED
    BY <2>1, <2>2 DEF Env!Next, Env!Leave
<1>6. ASSUME NEW n \in Names, NEW v \in Vals, m_scopes # <<>>,
             m_scopes' = DefineStack(m_scopes, [name |-> n, val |-> v]),
             UNCHANGED <<m_classes, underflow>>
      PROVE  [Env!Next]_OwnFrames
  <2> DEFINE x == [name |-> n, val |-> v]
  <2>1. x \in Sym /\ x \in Env!Binding /\ x.name = n
    BY DEF Sym, Env!Binding
  <2>2. m_scopes' = DefineStack(m_scopes, x)
    BY <1>6
  <2> HIDE DEF x
  <2>3. CASE Has(m_scopes[Len(m_scopes)], n)
    <3>1. m_scopes' = m_scopes
      BY <1>1, <1>6, <2>1, <2>2, <2>3, DefineOK
    <3> QED
      BY <3>1, <1>2, <1>6
  <2>4. CASE ~Has(m_scopes[Len(m_scopes)], n)
    <3>1. OwnFrames' = AddVar(OwnFrames, x)
      BY <1>1, <1>2, <1>6, <2>1, <2>2, <2>4, DefineVarFrames
    <3>2. \A i \in 1..Len(m_scopes) : \A y \in Own(m_scopes, i) : y.name # n
      BY <1>1, <1>6, <2>4, NotOwned
    <3>3. ~Env!VisibleVar(x.name)
      BY <3>2, <2>1, OwnFramesShape DEF Env!VisibleVar, FrameAt
    <3>4. Env!Declare(x)
      BY <3>1, <3>3, <1>6, OwnFramesShape DEF Env!Declare, AddVar
    <3> QED
      BY <3>4, <2>1 DEF Env!Next
  <2> QED
    BY <2>3, <2>4
<1>7. ASSUME NEW c \in ClassNames, NEW v \in ClassVals, m_classes # <<>>,
             m_classes' = DefineStack(m_classes, [name |-> c, val |-> v]),
             UNCHANGED <<m_scopes, underflow>>
      PROVE  [Env!Next]_OwnFrames
  <2> DEFINE x == [name |-> c, val |-> v]
  <2>1. x \in ClassSym /\ x \in Env!ClassBinding /\ x.name = c
    BY DEF ClassSym, Env!ClassBinding
  <2>2. m_classes' = DefineStack(m_classes, x) /\ m_scopes # <<>>
    BY <1>1, <1>7
  <2> HIDE DEF x
  <2>3. CASE Has(m_classes[Len(m_classes)], c)
    <3>1. m_classes' = m_classes
      BY <1>1, <1>7, <2>1, <2>2, <2>3, DefineOK
    <3> QED
      BY <3>1, <1>2, <1>7
  <2>4. CASE ~Has(m_classes[Len(m_classes)], c)
    <3>0. FramesOf(m_scopes, DefineStack(m_classes, x))
            = AddClass(FramesOf(m_scopes, m_classes), x)
      <4>1. /\ m_scopes \in Seq(Seq(Sym)) /\ m_scopes # <<>>
            /\ m_classes \in Seq(Seq(ClassSym)) /\ StackOK(m_classes) /\ m_classes # <<>>
            /\ Len(m_scopes) = Len(m_classes) /\ x \in ClassSym
            /\ ~Has(m_classes[Len(m_classes)], x.name)
        BY <1>1, <1>7, <2>1, <2>2, <2>4
      <4> QED
        BY ONLY <4>1, DefineClassFrames
    <3>1. OwnFrames' = AddClass(OwnFrames, x)
      BY <3>0, <1>2, <1>7, <2>2
    <3>2. \A i \in 1..Len(m_classes) : \A y \in Own(m_classes, i) : y.name # c
      BY <1>1, <1>7, <2>4, NotOwned
    <3>3. ~Env!VisibleClass(x.name)
      BY <3>2, <2>1, <1>1, OwnFramesShape DEF Env!VisibleClass, FrameAt
    <3>4. Env!DeclareClass(x)
      BY <3>1, <3>3, <2>2, OwnFramesShape DEF Env!DeclareClass, AddClass
    <3> QED
      BY <3>4, <2>1 DEF Env!Next
  <2> QED
    BY <2>3, <2>4
<1> QED
  BY <1>3, <1>4, <1>5, <1>6, <1>7, StackSteps DEF vars

(***************************************************************************)
(* The initial tables are the initial environment.                         *)
(***************************************************************************)
LEMMA EnvInit == Init => Env!Init
<1> SUFFICES ASSUME Init PROVE Env!Init
  OBVIOUS
<1>1. /\ m_scopes = << << >> >> /\ m_classes = << << >> >>
      /\ Len(m_scopes) = 1 /\ m_scopes[1] = <<>> /\ m_classes[1] = <<>>
  BY DEF Init
<1>2. Own(m_scopes, 1) = {} /\ Own(m_classes, 1) = {}
  BY <1>1 DEF Own, Syms
<1>3. OwnFrames = [i \in 1..1 |-> Env!EmptyFrame]
  BY <1>1, <1>2 DEF OwnFrames, Env!EmptyFrame
<1>4. [i \in 1..1 |-> Env!EmptyFrame] = <<Env!EmptyFrame>>
  OBVIOUS
<1> QED
  BY <1>3, <1>4 DEF Env!Init

(***************************************************************************)
(* The stack of copied tables implements the lexical environment of module *)
(* LexicalEnv: the copies of scopes.cpp cannot be told from one frame per  *)
(* scope.                                                                  *)
(***************************************************************************)
THEOREM ScopesImplementEnv == Spec => EnvSpec
<1> QED
  BY EnvInit, EnvStep, TypeCorrect, TablesInOrder, PTL DEF Spec, EnvSpec, Env!Spec
===============================================================================
