-------------------------- MODULE ModuleLoaderProofs --------------------------
(***************************************************************************)
(* Proofs about ModuleLoader, for every finite set of files, every graph   *)
(* of imports over them and every bound.                                   *)
(***************************************************************************)
EXTENDS ModuleLoader, SequenceTheorems, FiniteSetTheorems, TLAPS

(***************************************************************************)
(* The declarations of a file are a sequence of files.                     *)
(***************************************************************************)
LEMMA UsesType ==
  ASSUME uses \in [Files -> UseLists], NEW f \in Files
  PROVE  /\ uses[f] \in Seq(Files)
         /\ Uses(f) \in Seq(Files)
         /\ f \notin readable => Len(Uses(f)) = 0
<1>1. uses[f] \in UNION {[1..k -> Files] : k \in 0..MaxUses}
  BY DEF UseLists
<1>2. PICK k \in 0..MaxUses : uses[f] \in [1..k -> Files]
  BY <1>1
<1>3. k \in Nat
  BY <1>2, BoundsAssumption
<1>4. uses[f] \in Seq(Files)
  BY <1>2, <1>3, SeqDef
<1> QED
  BY <1>4 DEF Uses

(***************************************************************************)
(* Taking the innermost activation off a stack keeps the others.           *)
(***************************************************************************)
LEMMA PopShape ==
  ASSUME NEW S, NEW s \in Seq(S), s # <<>>
  PROVE  /\ SubSeq(s, 1, Len(s) - 1) \in Seq(S)
         /\ Len(SubSeq(s, 1, Len(s) - 1)) = Len(s) - 1
         /\ \A i \in 1..(Len(s) - 1) : SubSeq(s, 1, Len(s) - 1)[i] = s[i]
<1> DEFINE m == Len(s) - 1
<1>1. m \in Nat /\ \A i \in 1..m : s[i] \in S
  OBVIOUS
<1> HIDE DEF m
<1>2. /\ SubSeq(s, 1, m) \in Seq(S)
      /\ Len(SubSeq(s, 1, m)) = IF 1 <= m THEN m - 1 + 1 ELSE 0
      /\ \A i \in 1..(m - 1 + 1) : SubSeq(s, 1, m)[i] = s[1 + i - 1]
  BY <1>1, SubSeqProperties
<1>3. \A i \in 1..m : i \in 1..(m - 1 + 1) /\ 1 + i - 1 = i
  BY <1>1
<1>4. Len(SubSeq(s, 1, m)) = m
  BY <1>1, <1>2
<1>5. \A i \in 1..m : SubSeq(s, 1, m)[i] = s[i]
  BY <1>2, <1>3
<1> QED
  BY <1>2, <1>4, <1>5 DEF m

(***************************************************************************)
(* What the actions do to the stack: an activation returns, goes on to its *)
(* next declaration, or makes another one.                                 *)
(***************************************************************************)
Returned(s, t) == /\ Len(t) = Len(s) - 1
                  /\ \A i \in 1..(Len(s) - 1) : t[i] = s[i]

WentOn(s, t, n) == /\ Len(t) = n
                   /\ \A i \in 1..(Len(s) - 1) : t[i] = s[i]
                   /\ t[Len(s)].file = s[Len(s)].file
                   /\ t[Len(s)].next = s[Len(s)].next + 1

(***************************************************************************)
(* An activation that returns leaves its callers as they are.              *)
(***************************************************************************)
LEMMA ReturnShape ==
  ASSUME stack \in Seq(Activation), stack # <<>>, Return
  PROVE  stack' \in Seq(Activation) /\ Returned(stack, stack')
BY PopShape DEF Return, Returned

(***************************************************************************)
(* The innermost activation of a running pass.                             *)
(***************************************************************************)
LEMMA TopShape ==
  ASSUME TypeOK, stack # <<>>
  PROVE  /\ Len(stack) \in Nat \ {0} /\ Len(stack) \in DOMAIN stack
         /\ Top \in Activation /\ Top.file \in Files /\ Top.next \in Nat \ {0}
         /\ Top.next <= Len(Uses(Top.file)) + 1
         /\ Uses(Top.file) \in Seq(Files)
<1>1. Len(stack) \in Nat \ {0} /\ Len(stack) \in DOMAIN stack
  BY DEF TypeOK
<1>2. Top \in Activation
  BY <1>1 DEF TypeOK, Top
<1>3. Top.file \in Files /\ Top.next \in Nat \ {0}
  BY <1>2 DEF Activation
<1> QED
  BY <1>1, <1>2, <1>3, UsesType DEF TypeOK, Top

(***************************************************************************)
(* The file of a use declaration; only a readable file has any.            *)
(***************************************************************************)
LEMMA UsedShape ==
  ASSUME TypeOK, AtUse
  PROVE  /\ Used \in Files
         /\ Top.file \in readable
         /\ Top.next \in DOMAIN uses[Top.file]
         /\ Used = uses[Top.file][Top.next]
<1> USE TopShape
<1>1. stack # <<>> /\ Top.next <= Len(Uses(Top.file))
  BY DEF AtUse, Running
<1>2. Top.file \in readable
  BY <1>1, UsesType DEF TypeOK
<1> QED
  BY <1>1, <1>2 DEF Used, Uses

(***************************************************************************)
(* Going on to the next declaration.                                       *)
(***************************************************************************)
LEMMA AdvanceShape ==
  ASSUME TypeOK, stack # <<>>
  PROVE  /\ Advanced \in Seq(Activation)
         /\ WentOn(stack, Advanced, Len(stack))
<1> USE TopShape
<1>1. [stack[Len(stack)] EXCEPT !.next = @ + 1] \in Activation
  BY DEF Top, Activation
<1>2. Advanced = [stack EXCEPT ![Len(stack)] = [stack[Len(stack)] EXCEPT !.next = @ + 1]]
  BY DEF Advanced
<1>3. Advanced \in Seq(Activation) /\ Len(Advanced) = Len(stack)
  BY <1>1, <1>2 DEF TypeOK
<1>4. \A i \in DOMAIN stack : Advanced[i] =
         IF i = Len(stack) THEN [stack[Len(stack)] EXCEPT !.next = @ + 1] ELSE stack[i]
  BY <1>2 DEF TypeOK
<1>5. \A i \in 1..(Len(stack) - 1) : Advanced[i] = stack[i]
  BY <1>4 DEF TypeOK
<1>6. /\ Advanced[Len(stack)].file = stack[Len(stack)].file
      /\ Advanced[Len(stack)].next = stack[Len(stack)].next + 1
  BY <1>4 DEF Top, Activation
<1> QED
  BY <1>3, <1>5, <1>6 DEF WentOn

(***************************************************************************)
(* The activation of a used file comes above its user, which goes on.      *)
(***************************************************************************)
LEMMA CallShape ==
  ASSUME TypeOK, stack # <<>>, NEW f \in Files
  PROVE  /\ Call(f) \in Seq(Activation)
         /\ WentOn(stack, Call(f), Len(stack) + 1)
         /\ Call(f)[Len(stack) + 1] = Opened(f)
<1>1. Opened(f) \in Activation
  BY DEF Opened, Activation
<1>2. Advanced \in Seq(Activation) /\ WentOn(stack, Advanced, Len(stack))
  BY AdvanceShape
<1>3. Len(stack) \in Nat \ {0} /\ Len(Advanced) = Len(stack)
  BY <1>2, TopShape DEF WentOn
<1>4. /\ Call(f) \in Seq(Activation)
      /\ Len(Call(f)) = Len(stack) + 1
      /\ \A i \in 1..Len(stack) : Call(f)[i] = Advanced[i]
      /\ Call(f)[Len(stack) + 1] = Opened(f)
  BY <1>1, <1>2, <1>3 DEF Call
<1> QED
  BY <1>2, <1>3, <1>4 DEF WentOn

-------------------------------------------------------------------------------
(***************************************************************************)
(* Type correctness.  The stack is inside its files when no activation is  *)
(* further than one past the last declaration.                             *)
(***************************************************************************)
Inside(s) == \A i \in DOMAIN s : s[i].next <= Len(Uses(s[i].file)) + 1

(***************************************************************************)
(* The callers of the innermost activation are inside their files.         *)
(***************************************************************************)
LEMMA CallersInside ==
  ASSUME TypeOK, NEW t, \A i \in 1..(Len(stack) - 1) : t[i] = stack[i]
  PROVE  \A i \in 1..(Len(stack) - 1) : t[i].next <= Len(Uses(t[i].file)) + 1
<1> TAKE i \in 1..(Len(stack) - 1)
<1>1. i \in DOMAIN stack
  BY DEF TypeOK
<1>2. stack[i].next <= Len(Uses(stack[i].file)) + 1
  BY <1>1 DEF TypeOK
<1>3. t[i] = stack[i]
  OBVIOUS
<1> QED
  BY <1>2, <1>3

(***************************************************************************)
(* A return keeps the stack and the status well typed.                     *)
(***************************************************************************)
LEMMA ReturnTyped ==
  ASSUME TypeOK, Running, Return
  PROVE  /\ stack' \in Seq(Activation)
         /\ Inside(stack')
         /\ status' \in {"running", "done"}
         /\ stack' = <<>> <=> status' = "done"
<1>1. stack \in Seq(Activation) /\ stack # <<>> /\ status = "running"
  BY DEF TypeOK, Running
<1>2. stack' \in Seq(Activation) /\ Returned(stack, stack')
  BY <1>1, ReturnShape
<1>3. Inside(stack')
  <2>1. \A i \in 1..(Len(stack) - 1) : stack'[i].next <= Len(Uses(stack'[i].file)) + 1
    BY <1>2, CallersInside DEF Returned
  <2>2. DOMAIN stack' = 1..(Len(stack) - 1)
    BY <1>1, <1>2 DEF Returned
  <2> QED
    BY <2>1, <2>2 DEF Inside
<1>4. stack' = <<>> <=> Len(stack) = 1
  BY <1>1, <1>2 DEF Returned
<1> QED
  BY <1>1, <1>2, <1>3, <1>4 DEF Return

(***************************************************************************)
(* Going on and calling keep the stack inside its files.                   *)
(***************************************************************************)
LEMMA AdvanceTyped ==
  ASSUME TypeOK, AtUse
  PROVE  Advanced \in Seq(Activation) /\ Inside(Advanced) /\ Advanced # <<>>
<1> USE TopShape DEF AtUse, Running
<1>1. Advanced \in Seq(Activation) /\ WentOn(stack, Advanced, Len(stack))
  BY AdvanceShape
<1>2. Advanced[Len(stack)].next <= Len(Uses(Advanced[Len(stack)].file)) + 1
  BY <1>1 DEF WentOn, Top
<1>3. \A i \in 1..(Len(stack) - 1) :
         Advanced[i].next <= Len(Uses(Advanced[i].file)) + 1
  BY <1>1, CallersInside DEF WentOn
<1>4. \A i \in DOMAIN Advanced : i \in 1..(Len(stack) - 1) \/ i = Len(stack)
  BY <1>1 DEF WentOn
<1> QED
  BY <1>1, <1>2, <1>3, <1>4 DEF Inside, WentOn

(***************************************************************************)
(* A call puts an activation on the stack that is at its first             *)
(* declaration.                                                            *)
(***************************************************************************)
LEMMA CallTyped ==
  ASSUME TypeOK, AtUse, NEW f \in Files
  PROVE  Call(f) \in Seq(Activation) /\ Inside(Call(f)) /\ Call(f) # <<>>
<1> USE TopShape DEF AtUse, Running
<1>1. /\ Call(f) \in Seq(Activation)
      /\ WentOn(stack, Call(f), Len(stack) + 1)
      /\ Call(f)[Len(stack) + 1] = Opened(f)
  BY CallShape
<1>2. Call(f)[Len(stack)].next <= Len(Uses(Call(f)[Len(stack)].file)) + 1
  BY <1>1 DEF WentOn, Top
<1>3. \A i \in 1..(Len(stack) - 1) :
         Call(f)[i].next <= Len(Uses(Call(f)[i].file)) + 1
  BY <1>1, CallersInside DEF WentOn
<1>4. Call(f)[Len(stack) + 1].next <= Len(Uses(Call(f)[Len(stack) + 1].file)) + 1
  <2>1. Len(Uses(f)) \in Nat
    BY UsesType DEF TypeOK
  <2> QED
    BY <1>1, <2>1 DEF Opened
<1>5. \A i \in DOMAIN Call(f) :
         i \in 1..(Len(stack) - 1) \/ i = Len(stack) \/ i = Len(stack) + 1
  BY <1>1 DEF WentOn
<1>6. Call(f) # <<>>
  BY <1>1 DEF WentOn
<1>7. Inside(Call(f))
  BY <1>2, <1>3, <1>4, <1>5 DEF Inside
<1> QED
  BY <1>1, <1>6, <1>7

(***************************************************************************)
(* Steps leave the program alone, so Uses(f) is what it was.               *)
(***************************************************************************)
LEMMA ProgramKept ==
  ASSUME [Next]_vars
  PROVE  uses' = uses /\ readable' = readable
BY DEF Next, vars, program, EndOfFile, DeclFails, UseKnown, UseMissing,
       UseUnparsable, UseLoads, Stopped

(***************************************************************************)
(* The root file is at its first declaration.                              *)
(***************************************************************************)
LEMMA TypeInit == Init => TypeOK
<1> SUFFICES ASSUME Init
             PROVE  TypeOK
  OBVIOUS
<1> DEFINE a == [file |-> Root, next |-> 1]
<1>1. a \in Activation
  BY FilesAssumption DEF Activation
<1>2. stack = <<a>> /\ stack \in Seq(Activation)
  BY <1>1 DEF Init
<1>3. Len(Uses(Root)) \in Nat
  BY FilesAssumption, UsesType DEF Init
<1>4. \A i \in DOMAIN stack : stack[i].next <= Len(Uses(stack[i].file)) + 1
  BY <1>2, <1>3
<1> QED
  BY <1>2, <1>4 DEF Init, TypeOK

(***************************************************************************)
(* Every step keeps the types, by what it does to the stack.               *)
(***************************************************************************)
LEMMA TypeStep ==
  ASSUME TypeOK, [Next]_vars
  PROVE  TypeOK'
<1>p. uses' = uses /\ readable' = readable
  BY ProgramKept
<1>s. ASSUME stack' \in Seq(Activation), Inside(stack'),
             status' \in {"running", "done", "dead"},
             stack' = <<>> <=> status' = "done",
             paths' \subseteq Files, loaded' \subseteq paths' \cap readable,
             whole' \subseteq Files, broken' \subseteq Files
      PROVE  TypeOK'
  BY <1>p, <1>s DEF TypeOK, Inside, Uses
<1>t. \A i \in DOMAIN stack : stack[i].next <= Len(Uses(stack[i].file)) + 1
  BY DEF TypeOK
<1>f. Running => Top.file \in Files
  BY TopShape DEF Running
<1>1. CASE EndOfFile
  <2>1. Running /\ Return
    BY <1>1 DEF EndOfFile
  <2> QED
    BY <1>1, <1>s, <1>f, <2>1, ReturnTyped DEF EndOfFile, TypeOK
<1>2. CASE DeclFails
  <2>1. Running /\ Return
    BY <1>2 DEF DeclFails, BreakLoop
  <2> QED
    BY <1>2, <1>s, <1>f, <2>1, ReturnTyped DEF DeclFails, BreakLoop, TypeOK
<1>3. CASE UseKnown
  BY <1>3, <1>s, AdvanceTyped DEF UseKnown, TypeOK, AtUse, Running
<1>4. CASE UseMissing
  <2>1. AtUse /\ Running /\ Return /\ Used \in Files
    BY <1>4, UsedShape DEF UseMissing, BreakLoop, AtUse
  <2> QED
    BY <1>4, <1>s, <1>f, <2>1, ReturnTyped DEF UseMissing, BreakLoop, AddPath, TypeOK
<1>5. CASE UseUnparsable
  <2>1. Used \in Files /\ stack # <<>>
    BY <1>5, UsedShape DEF UseUnparsable, AtUse, Running
  <2> QED
    BY <1>5, <1>s, <1>t, <2>1 DEF UseUnparsable, AddPath, TypeOK, Inside
<1>6. CASE UseLoads
  <2>1. AtUse /\ Used \in Files
    BY <1>6, UsedShape DEF UseLoads
  <2> QED
    BY <1>6, <1>s, <2>1, CallTyped DEF UseLoads, AddPath, TypeOK, AtUse, Running
<1>7. CASE Stopped \/ UNCHANGED vars
  BY <1>7 DEF Stopped, vars, program, TypeOK, Uses
<1> QED
  BY <1>1, <1>2, <1>3, <1>4, <1>5, <1>6, <1>7 DEF Next

(***************************************************************************)
(* The pass is well typed: its activations are inside their files, it runs *)
(* as long as there is one, and what was loaded is among the paths.        *)
(***************************************************************************)
THEOREM TypeCorrect == Spec => []TypeOK
<1>1. Init => TypeOK
  BY TypeInit
<1>2. TypeOK /\ [Next]_vars => TypeOK'
  BY TypeStep
<1> QED
  BY <1>1, <1>2, PTL DEF Spec

(***************************************************************************)
(* No file is read for a use declaration twice: the stack only grows over  *)
(* a file whose path was not noted, and the path of a file that was loaded *)
(* is.                                                                     *)
(***************************************************************************)
THEOREM ReadOnceCorrect == Spec => ReadOnce
<1> DEFINE Fresh == Len(stack') > Len(stack) =>
                      stack'[Len(stack')].file \notin loaded
<1>1. ASSUME TypeOK, [Next]_vars
      PROVE  [Fresh]_vars
  <2>1. CASE EndOfFile \/ DeclFails \/ UseMissing
    <3>1. Return /\ stack # <<>>
      BY <2>1 DEF EndOfFile, DeclFails, UseMissing, BreakLoop, AtUse, Running
    <3>2. Len(stack') = Len(stack) - 1 /\ Len(stack) \in Nat
      BY <1>1, <3>1, ReturnShape DEF Returned, TypeOK
    <3> QED
      BY <3>2
  <2>2. CASE UseKnown
    <3>1. stack' = Advanced /\ stack # <<>>
      BY <2>2 DEF UseKnown, AtUse, Running
    <3>2. Len(stack') = Len(stack) /\ Len(stack) \in Nat
      BY <1>1, <3>1, AdvanceShape, TopShape DEF WentOn
    <3> QED
      BY <3>2
  <2>3. CASE UseUnparsable
    BY <1>1, <2>3 DEF UseUnparsable, TypeOK
  <2>4. CASE UseLoads
    <3>1. AtUse /\ stack # <<>> /\ Used \notin paths /\ stack' = Call(Used)
      BY <2>4 DEF UseLoads, AtUse, Running
    <3>2. Used \in Files
      BY <1>1, <3>1, UsedShape
    <3>3. Len(stack') = Len(stack) + 1 /\ stack'[Len(stack) + 1] = Opened(Used)
      BY <1>1, <3>1, <3>2, CallShape DEF WentOn
    <3>4. Used \notin loaded
      BY <1>1, <3>1 DEF TypeOK
    <3> QED
      BY <3>3, <3>4 DEF Opened
  <2>5. CASE Stopped \/ UNCHANGED vars
    BY <2>5 DEF Stopped
  <2> QED
    BY <1>1, <2>1, <2>2, <2>3, <2>4, <2>5 DEF Next
<1> QED
  BY <1>1, TypeCorrect, PTL DEF Spec, ReadOnce

-------------------------------------------------------------------------------
(***************************************************************************)
(* Completeness and the order of declarations.  A file that is past use    *)
(* stays so; every path that was noted is past use (until a syntax error   *)
(* ends the process between the two), and so is whatever a file whose loop *)
(* came to its end uses, and whatever the loops in progress have behind    *)
(* them.                                                                   *)
(***************************************************************************)
NotedPast == status # "dead" => \A f \in paths : PastUse(f)
WholePast == \A f \in whole : \A k \in DOMAIN Uses(f) : PastUse(Uses(f)[k])
BehindPast ==
  \A i \in DOMAIN stack : \A k \in 1..(stack[i].next - 1) :
    PastUse(Uses(stack[i].file)[k])
Sources == /\ \A i \in DOMAIN stack : stack[i].file \in readable \cup {Root}
           /\ whole \subseteq readable \cup {Root}
RootPast == Active(Root) \/ Root \in whole \cup broken

(***************************************************************************)
(* The histories only grow.                                                *)
(***************************************************************************)
LEMMA HistoriesGrow ==
  ASSUME [Next]_vars
  PROVE  whole \subseteq whole' /\ broken \subseteq broken'
BY DEF Next, vars, EndOfFile, DeclFails, UseKnown, UseMissing,
       UseUnparsable, UseLoads, Stopped, BreakLoop

(***************************************************************************)
(* A file leaves the stack only when its loop came to its end or was       *)
(* broken off.                                                             *)
(***************************************************************************)
LEMMA ActiveKept ==
  ASSUME TypeOK, [Next]_vars, NEW f, Active(f)
  PROVE  Active(f)' \/ f \in whole' \cup broken'
<1>1. PICK i \in DOMAIN stack : stack[i].file = f
  BY DEF Active
<1>2. stack # <<>> /\ stack \in Seq(Activation) /\ DOMAIN stack = 1..Len(stack)
  BY <1>1 DEF TypeOK
<1>3. CASE EndOfFile \/ DeclFails \/ UseMissing
  <2>1. Return /\ Top.file \in whole' \cup broken'
    BY <1>3 DEF EndOfFile, DeclFails, UseMissing, BreakLoop
  <2>2. Returned(stack, stack') /\ stack' \in Seq(Activation)
    BY <1>2, <2>1, ReturnShape
  <2>3. CASE i = Len(stack)
    BY <1>1, <2>1, <2>3 DEF Top
  <2>4. CASE i \in 1..(Len(stack) - 1)
    <3>1. i \in DOMAIN stack' /\ stack'[i].file = f
      BY <1>1, <2>2, <2>4 DEF Returned
    <3> QED
      BY <3>1 DEF Active
  <2> QED
    BY <1>2, <2>3, <2>4
<1>4. CASE UseKnown \/ UseLoads
  <2>1. PICK n \in Nat : /\ n >= Len(stack)
                         /\ WentOn(stack, stack', n)
                         /\ stack' \in Seq(Activation)
    <3>1. CASE UseKnown
      BY <1>2, <3>1, AdvanceShape DEF UseKnown
    <3>2. CASE UseLoads
      <4>1. Used \in Files /\ stack' = Call(Used)
        BY <3>2, UsedShape DEF UseLoads
      <4> QED
        BY <1>2, <4>1, CallShape
    <3> QED
      BY <1>4, <3>1, <3>2
  <2>2. i \in DOMAIN stack'
    BY <1>2, <2>1 DEF WentOn
  <2>3. stack'[i].file = f
    BY <1>1, <1>2, <2>1 DEF WentOn
  <2> QED
    BY <2>2, <2>3 DEF Active
<1>5. CASE UseUnparsable \/ Stopped \/ UNCHANGED vars
  BY <1>5 DEF UseUnparsable, Stopped, vars, Active
<1> QED
  BY <1>3, <1>4, <1>5 DEF Next

(***************************************************************************)
(* What is past use stays so.                                              *)
(***************************************************************************)
LEMMA PastKept ==
  ASSUME TypeOK, [Next]_vars, NEW f, PastUse(f)
  PROVE  PastUse(f)'
<1>1. whole \subseteq whole' /\ broken \subseteq broken'
  BY HistoriesGrow
<1>2. uses' = uses /\ readable' = readable
  BY ProgramKept
<1>3. CASE Active(f)
  BY <1>1, <1>3, ActiveKept DEF PastUse
<1>4. CASE f \in whole \cup broken
  BY <1>1, <1>4 DEF PastUse
<1>5. CASE f \notin readable /\ \E g \in broken : \E k \in DOMAIN uses[g] : uses[g][k] = f
  BY <1>1, <1>2, <1>5 DEF PastUse
<1> QED
  BY <1>3, <1>4, <1>5 DEF PastUse

(***************************************************************************)
(* A missing file is past use once the loop that wanted it was broken off. *)
(***************************************************************************)
LEMMA MissingPast ==
  ASSUME TypeOK, UseMissing, NEW f, f = Used
  PROVE  PastUse(f)'
<1>1. /\ Top.next \in DOMAIN uses[Top.file]
      /\ f = uses[Top.file][Top.next]
      /\ f \notin readable
  BY UsedShape DEF UseMissing
<1>2. Top.file \in broken' /\ uses' = uses /\ readable' = readable
  BY DEF UseMissing, BreakLoop, program
<1>3. \E g \in broken' : \E k \in DOMAIN uses'[g] : uses'[g][k] = f
  BY <1>1, <1>2
<1> QED
  BY <1>1, <1>2, <1>3 DEF PastUse

(***************************************************************************)
(* The file just called is on the stack.                                   *)
(***************************************************************************)
LEMMA LoadedPast ==
  ASSUME TypeOK, UseLoads, NEW f, f = Used
  PROVE  PastUse(f)'
<1>1. stack # <<>> /\ f \in Files /\ stack' = Call(f)
  BY UsedShape DEF UseLoads, AtUse, Running
<1>2. /\ stack' \in Seq(Activation)
      /\ Len(stack') = Len(stack) + 1
      /\ stack'[Len(stack) + 1] = Opened(f)
  BY <1>1, CallShape DEF WentOn
<1>3. Len(stack) + 1 \in DOMAIN stack' /\ stack'[Len(stack) + 1].file = f
  BY <1>1, <1>2, TopShape DEF Opened
<1> QED
  BY <1>3 DEF PastUse, Active

(***************************************************************************)
(* Every path that was noted stays past use; a path is noted only together *)
(* with the call or the break that makes it so.                            *)
(***************************************************************************)
LEMMA NotedPastStep ==
  ASSUME TypeOK, [Next]_vars, NotedPast
  PROVE  NotedPast'
<1> SUFFICES ASSUME status' # "dead", NEW f \in paths'
             PROVE  PastUse(f)'
  BY DEF NotedPast
<1>1. status # "dead"
  BY DEF Next, vars, EndOfFile, DeclFails, UseKnown, UseMissing,
         UseUnparsable, UseLoads, Stopped, AtUse, Running
<1>2. CASE f \in paths
  BY <1>1, <1>2, PastKept DEF NotedPast
<1>3. CASE f \notin paths
  <2>1. \/ UseMissing /\ f = Used
        \/ UseLoads /\ f = Used
    BY <1>3 DEF Next, vars, EndOfFile, DeclFails, UseKnown, UseMissing,
         UseUnparsable, UseLoads, Stopped, AddPath
  <2> QED
    BY <2>1, MissingPast, LoadedPast
<1> QED
  BY <1>2, <1>3

(***************************************************************************)
(* What the loops have behind them stays past use, and so does the use a   *)
(* loop goes past: its path was noted.                                     *)
(***************************************************************************)
LEMMA BehindPastStep ==
  ASSUME TypeOK, [Next]_vars, NotedPast, BehindPast
  PROVE  BehindPast'
<1>p. uses' = uses /\ readable' = readable
  BY ProgramKept
<1>u. \A f : Uses(f)' = Uses(f)
  BY <1>p DEF Uses
<1> SUFFICES ASSUME NEW i \in DOMAIN stack', NEW k \in 1..(stack'[i].next - 1)
             PROVE  \E f : f = Uses(stack'[i].file)[k] /\ PastUse(f)'
  <2>1. \A i \in DOMAIN stack' : \A k \in 1..(stack'[i].next - 1) :
           \A f : f = Uses(stack'[i].file)[k] /\ PastUse(f)'
                    => PastUse(Uses(stack[i].file)[k])'
    BY <1>u DEF PastUse, Active
  <2> QED
    BY <2>1 DEF BehindPast
<1>o. ASSUME i \in DOMAIN stack, stack'[i] = stack[i]
      PROVE  \E f : f = Uses(stack'[i].file)[k] /\ PastUse(f)'
  <2>1. PastUse(Uses(stack[i].file)[k])
    BY <1>o DEF BehindPast
  <2> DEFINE f == Uses(stack[i].file)[k]
  <2>2. PICK g : g = f
    OBVIOUS
  <2>3. PastUse(g)'
    BY <2>1, <2>2, PastKept
  <2> QED
    BY <1>o, <2>2, <2>3
<1>1. CASE EndOfFile \/ DeclFails \/ UseMissing
  <2>1. Return /\ stack \in Seq(Activation) /\ stack # <<>>
    BY <1>1 DEF EndOfFile, DeclFails, UseMissing, BreakLoop, AtUse, Running, TypeOK
  <2>2. Returned(stack, stack') /\ stack' \in Seq(Activation)
    BY <2>1, ReturnShape
  <2>3. i \in DOMAIN stack /\ stack'[i] = stack[i]
    BY <2>1, <2>2 DEF Returned
  <2> QED
    BY <1>o, <2>3
<1>2. CASE UseKnown \/ UseLoads
  <2>1. stack # <<>> /\ AtUse /\ Used \in Files
    BY <1>2, UsedShape DEF UseKnown, UseLoads, AtUse, Running
  <2>2. PICK n \in {Len(stack), Len(stack) + 1} :
            /\ WentOn(stack, stack', n)
            /\ stack' \in Seq(Activation)
            /\ n = Len(stack) + 1 => stack'[n].next = 1
    <3>1. CASE UseKnown
      <4>1. stack' = Advanced /\ Len(stack) \in Nat
        BY <3>1, <2>1, TopShape DEF UseKnown
      <4>2. WentOn(stack, stack', Len(stack)) /\ stack' \in Seq(Activation)
        BY <2>1, <4>1, AdvanceShape
      <4> QED
        BY <4>1, <4>2
    <3>2. CASE UseLoads
      <4>1. stack' = Call(Used) /\ Len(stack) \in Nat
        BY <3>2, <2>1, TopShape DEF UseLoads
      <4>2. /\ WentOn(stack, stack', Len(stack) + 1)
            /\ stack' \in Seq(Activation)
            /\ stack'[Len(stack) + 1] = Opened(Used)
        BY <2>1, <4>1, CallShape
      <4>3. stack'[Len(stack) + 1].next = 1
        BY <4>2 DEF Opened
      <4> QED
        BY <4>2, <4>3
    <3> QED
      BY <1>2, <3>1, <3>2
  <2>3. \/ i \in 1..(Len(stack) - 1)
        \/ i = Len(stack)
        \/ i = Len(stack) + 1 /\ n = Len(stack) + 1
    BY <2>1, <2>2, TopShape DEF WentOn
  <2>4. CASE i \in 1..(Len(stack) - 1)
    <3>1. i \in DOMAIN stack
      BY <2>4 DEF TypeOK
    <3>2. stack'[i] = stack[i]
      BY <2>2, <2>4 DEF WentOn
    <3> QED
      BY <1>o, <3>1, <3>2
  <2>5. CASE i = Len(stack)
    <3>1. stack'[i].file = Top.file /\ stack'[i].next = Top.next + 1
      BY <2>2, <2>5 DEF WentOn, Top
    <3>2. k \in 1..(Top.next - 1) \/ k = Top.next
      BY <2>1, <3>1, TopShape
    <3>3. CASE k \in 1..(Top.next - 1)
      <4>1. PastUse(Uses(Top.file)[k])
        BY <2>1, <3>3, TopShape DEF BehindPast, Top
      <4>2. PICK g : g = Uses(Top.file)[k]
        OBVIOUS
      <4>3. PastUse(g)'
        BY <4>1, <4>2, PastKept
      <4> QED
        BY <3>1, <4>2, <4>3
    <3>4. CASE k = Top.next
      <4>1. PICK g : g = Used
        OBVIOUS
      <4>2. g = Uses(stack'[i].file)[k]
        BY <3>1, <3>4, <4>1 DEF Used
      <4>3. PastUse(g)'
        <5>1. CASE UseKnown
          <6>1. g \in paths /\ status # "dead"
            BY <4>1, <5>1 DEF UseKnown, AtUse, Running
          <6> QED
            BY <6>1, PastKept DEF NotedPast
        <5>2. CASE UseLoads
          BY <4>1, <5>2, LoadedPast
        <5> QED
          BY <1>2, <5>1, <5>2
      <4> QED
        BY <4>2, <4>3
    <3> QED
      BY <3>2, <3>3, <3>4
  <2>6. CASE i = Len(stack) + 1 /\ n = Len(stack) + 1
    <3>1. stack'[i].next = 1
      BY <2>2, <2>6
    <3> QED
      BY <3>1
  <2> QED
    BY <2>3, <2>4, <2>5, <2>6
<1>3. CASE UseUnparsable \/ Stopped \/ UNCHANGED vars
  BY <1>3, <1>o DEF UseUnparsable, Stopped, vars
<1> QED
  BY <1>1, <1>2, <1>3 DEF Next

(***************************************************************************)
(* A file whose loop comes to its end has all its uses behind it.          *)
(***************************************************************************)
LEMMA WholePastStep ==
  ASSUME TypeOK, [Next]_vars, BehindPast, WholePast
  PROVE  WholePast'
<1>p. uses' = uses /\ readable' = readable
  BY ProgramKept
<1>u. \A f : Uses(f)' = Uses(f)
  BY <1>p DEF Uses
<1>1. ASSUME NEW f \in whole', NEW k \in DOMAIN Uses(f)
      PROVE  PastUse(Uses(f)[k])
  <2>1. CASE f \in whole
    BY <1>1, <2>1 DEF WholePast
  <2>2. CASE f \notin whole
    <3>1. EndOfFile /\ f = Top.file
      BY <1>1, <2>2 DEF Next, vars, EndOfFile, DeclFails, UseKnown, UseMissing,
           UseUnparsable, UseLoads, Stopped, BreakLoop
    <3>2. stack # <<>> /\ Top.next > Len(Uses(f))
      BY <3>1 DEF EndOfFile, Running
    <3>3. k \in 1..(Top.next - 1)
      BY <1>1, <3>1, <3>2, TopShape
    <3> QED
      BY <3>1, <3>2, <3>3, TopShape DEF BehindPast, Top
  <2> QED
    BY <2>1, <2>2
<1>2. ASSUME NEW f \in whole', NEW k \in DOMAIN Uses(f), NEW g, g = Uses(f)[k]
      PROVE  PastUse(g)'
  BY <1>1, <1>2, PastKept
<1>3. \A f \in whole' : \A k \in DOMAIN Uses(f) :
         \A g : g = Uses(f)[k] => PastUse(g)'
  BY <1>2
<1> QED
  BY <1>3, <1>u DEF WholePast, PastUse, Active

(***************************************************************************)
(* Only the root file is compiled without having been read.                *)
(***************************************************************************)
LEMMA SourcesStep ==
  ASSUME TypeOK, [Next]_vars, Sources
  PROVE  Sources'
<1>p. readable' = readable
  BY ProgramKept
<1>1. CASE EndOfFile \/ DeclFails \/ UseMissing
  <2>1. Return /\ stack \in Seq(Activation) /\ stack # <<>>
    BY <1>1 DEF EndOfFile, DeclFails, UseMissing, BreakLoop, AtUse, Running, TypeOK
  <2>2. Returned(stack, stack') /\ stack' \in Seq(Activation)
    BY <2>1, ReturnShape
  <2>3. \A i \in DOMAIN stack' : i \in DOMAIN stack /\ stack'[i] = stack[i]
    BY <2>1, <2>2 DEF Returned
  <2>4. whole' \subseteq whole \cup {Top.file}
    BY <1>1 DEF EndOfFile, DeclFails, UseMissing, BreakLoop
  <2>5. Top.file \in readable \cup {Root}
    BY <2>1, TopShape DEF Sources, Top
  <2> QED
    BY <1>p, <2>3, <2>4, <2>5 DEF Sources
<1>2. CASE UseKnown \/ UseLoads
  <2>1. AtUse /\ stack # <<>> /\ Used \in Files /\ whole' = whole
    BY <1>2, UsedShape DEF UseKnown, UseLoads, AtUse, Running
  <2>2. PICK n \in {Len(stack), Len(stack) + 1} :
            /\ WentOn(stack, stack', n)
            /\ stack' \in Seq(Activation)
            /\ n = Len(stack) + 1 => stack'[n].file \in readable
    <3>1. CASE UseKnown
      <4>1. stack' = Advanced /\ Len(stack) \in Nat
        BY <3>1, <2>1, TopShape DEF UseKnown
      <4>2. WentOn(stack, stack', Len(stack)) /\ stack' \in Seq(Activation)
        BY <2>1, <4>1, AdvanceShape
      <4> QED
        BY <4>1, <4>2
    <3>2. CASE UseLoads
      <4>1. stack' = Call(Used) /\ Len(stack) \in Nat /\ Used \in readable
        BY <3>2, <2>1, TopShape DEF UseLoads
      <4>2. /\ WentOn(stack, stack', Len(stack) + 1)
            /\ stack' \in Seq(Activation)
            /\ stack'[Len(stack) + 1] = Opened(Used)
        BY <2>1, <4>1, CallShape
      <4>3. stack'[Len(stack) + 1].file \in readable
        BY <4>1, <4>2 DEF Opened
      <4> QED
        BY <4>2, <4>3
    <3> QED
      BY <1>2, <3>1, <3>2
  <2>3. ASSUME NEW i \in DOMAIN stack'
        PROVE  stack'[i].file \in readable \cup {Root}
    <3>1. \/ i \in 1..(Len(stack) - 1)
          \/ i = Len(stack)
          \/ i = Len(stack) + 1 /\ n = Len(stack) + 1
      BY <2>1, <2>2, TopShape DEF WentOn
    <3>2. CASE i \in 1..(Len(stack) - 1) \/ i = Len(stack)
      <4>1. i \in DOMAIN stack
        BY <2>1, <3>2, TopShape DEF TypeOK
      <4>2. stack'[i].file = stack[i].file
        BY <2>2, <3>2 DEF WentOn
      <4> QED
        BY <4>1, <4>2 DEF Sources
    <3>3. CASE i = Len(stack) + 1 /\ n = Len(stack) + 1
      BY <2>2, <3>3
    <3> QED
      BY <3>1, <3>2, <3>3
  <2> QED
    BY <1>p, <2>1, <2>3 DEF Sources
<1>3. CASE UseUnparsable \/ Stopped \/ UNCHANGED vars
  BY <1>p, <1>3 DEF UseUnparsable, Stopped, vars, Sources
<1> QED
  BY <1>1, <1>2, <1>3 DEF Next

(***************************************************************************)
(* The strengthening of Complete: inductive together with TypeOK.          *)
(***************************************************************************)
Past == TypeOK /\ NotedPast /\ BehindPast /\ WholePast /\ Sources /\ RootPast

(***************************************************************************)
(* At first there is only the root file, at its first declaration.         *)
(***************************************************************************)
LEMMA PastInit == Init => Past
<1> SUFFICES ASSUME Init
             PROVE  Past
  OBVIOUS
<1>1. stack = <<[file |-> Root, next |-> 1]>> /\ paths = {} /\ whole = {}
  BY DEF Init
<1>2. /\ DOMAIN stack = {1}
      /\ stack[1].file = Root
      /\ stack[1].next = 1
  BY <1>1
<1>3. BehindPast
  BY <1>2 DEF BehindPast
<1> QED
  BY <1>1, <1>2, <1>3, TypeInit
     DEF Past, NotedPast, WholePast, Sources, RootPast, Active

(***************************************************************************)
(* Every step keeps Past; the root file stays on the stack until its loop  *)
(* has ended.                                                              *)
(***************************************************************************)
LEMMA PastStep ==
  ASSUME Past, [Next]_vars
  PROVE  Past'
<1> USE DEF Past
<1>1. TypeOK'
  BY TypeStep
<1>2. NotedPast'
  BY NotedPastStep
<1>3. BehindPast' /\ WholePast'
  BY BehindPastStep, WholePastStep
<1>4. Sources'
  BY SourcesStep
<1>5. RootPast'
  <2>1. CASE Active(Root)
    BY <2>1, ActiveKept DEF RootPast
  <2>2. CASE Root \in whole \cup broken
    BY <2>2, HistoriesGrow DEF RootPast
  <2> QED
    BY <2>1, <2>2 DEF RootPast
<1> QED
  BY <1>1, <1>2, <1>3, <1>4, <1>5

(***************************************************************************)
(* Past is an invariant.                                                   *)
(***************************************************************************)
LEMMA PastCorrect == Spec => []Past
<1>1. Init => Past
  BY PastInit
<1>2. Past /\ [Next]_vars => Past'
  BY PastStep
<1> QED
  BY <1>1, <1>2, PTL DEF Spec

(***************************************************************************)
(* Whatever a program uses, directly or not, is compiled to its end when   *)
(* no loop was broken off: the files compiled to their end are closed      *)
(* under uses then, and the root file is one of them.                      *)
(***************************************************************************)
THEOREM CompleteCorrect == Spec => []Complete
<1>1. ASSUME Past
      PROVE  Complete
  <2> SUFFICES ASSUME status = "done", broken = {}, Root \in readable
               PROVE  Reachable \subseteq whole
    BY DEF Complete
  <2>1. stack = <<>> /\ DOMAIN stack = {}
    BY <1>1 DEF Past, TypeOK
  <2>2. \A f : PastUse(f) => f \in whole
    BY <2>1 DEF PastUse, Active
  <2>3. Root \in whole
    BY <1>1, <2>1 DEF Past, RootPast, Active
  <2>4. whole \subseteq readable
    BY <1>1 DEF Past, Sources
  <2>5. Closed(whole)
    <3> SUFFICES ASSUME NEW f \in whole, NEW k \in DOMAIN uses[f]
                 PROVE  uses[f][k] \in whole
      BY DEF Closed
    <3>1. Uses(f) = uses[f]
      BY <2>4 DEF Uses
    <3> QED
      BY <1>1, <2>2, <3>1 DEF Past, WholePast
  <2>6. whole \in SUBSET Files
    BY <1>1 DEF Past, TypeOK
  <2> QED
    BY <2>3, <2>5, <2>6 DEF Reachable
<1> QED
  BY <1>1, PastCorrect, PTL

(***************************************************************************)
(* Each caller is right after the use declaration that made the activation *)
(* above it: only the innermost activation moves.                          *)
(***************************************************************************)
LEMMA CalledByUseStep ==
  ASSUME TypeOK, [Next]_vars, CalledByUse
  PROVE  CalledByUse'
<1>p. uses' = uses /\ readable' = readable
  BY ProgramKept
<1>u. \A f : Uses(f)' = Uses(f)
  BY <1>p DEF Uses
<1> DEFINE Made(s, i) == /\ s[i - 1].next > 1
                         /\ s[i].file = Uses(s[i - 1].file)[s[i - 1].next - 1]
<1>s. ASSUME \A i \in 2..Len(stack') : Made(stack', i)
      PROVE  CalledByUse'
  BY <1>s, <1>u DEF CalledByUse
<1>o. \A i \in 2..Len(stack) : Made(stack, i)
  BY DEF CalledByUse
<1>1. CASE EndOfFile \/ DeclFails \/ UseMissing
  <2>1. Return /\ stack \in Seq(Activation) /\ stack # <<>>
    BY <1>1 DEF EndOfFile, DeclFails, UseMissing, BreakLoop, AtUse, Running, TypeOK
  <2>2. Returned(stack, stack') /\ stack' \in Seq(Activation)
    BY <2>1, ReturnShape
  <2>3. ASSUME NEW i \in 2..Len(stack')
        PROVE  Made(stack', i)
    <3>1. i \in 2..Len(stack) /\ stack'[i] = stack[i] /\ stack'[i - 1] = stack[i - 1]
      BY <2>1, <2>2 DEF Returned
    <3> QED
      BY <1>o, <3>1
  <2> QED
    BY <1>s, <2>3
<1>2. CASE UseKnown \/ UseLoads
  <2>1. /\ AtUse /\ stack # <<>> /\ Used \in Files
        /\ Len(stack) \in Nat \ {0} /\ Top.next \in Nat \ {0}
    BY <1>2, UsedShape, TopShape DEF UseKnown, UseLoads, AtUse, Running
  <2>2. PICK n \in {Len(stack), Len(stack) + 1} :
            /\ WentOn(stack, stack', n)
            /\ n = Len(stack) + 1 => stack'[n].file = Used
    <3>1. CASE UseKnown
      <4>1. WentOn(stack, stack', Len(stack))
        BY <2>1, <3>1, AdvanceShape DEF UseKnown
      <4> QED
        BY <2>1, <4>1
    <3>2. CASE UseLoads
      <4>1. stack' = Call(Used)
        BY <3>2 DEF UseLoads
      <4>2. /\ WentOn(stack, stack', Len(stack) + 1)
            /\ stack'[Len(stack) + 1] = Opened(Used)
        BY <2>1, <4>1, CallShape
      <4>3. stack'[Len(stack) + 1].file = Used
        BY <4>2 DEF Opened
      <4> QED
        BY <4>2, <4>3
    <3> QED
      BY <1>2, <3>1, <3>2
  <2>3. ASSUME NEW i \in 2..Len(stack')
        PROVE  Made(stack', i)
    <3>1. \/ i \in 2..(Len(stack) - 1)
          \/ i = Len(stack)
          \/ i = Len(stack) + 1 /\ n = Len(stack) + 1
      BY <2>1, <2>2 DEF WentOn
    <3>2. CASE i \in 2..Len(stack)
      <4>1. stack'[i - 1] = stack[i - 1] /\ stack'[i].file = stack[i].file
        BY <2>1, <2>2, <3>2 DEF WentOn
      <4> QED
        BY <1>o, <3>2, <4>1
    <3>3. CASE i = Len(stack) + 1 /\ n = Len(stack) + 1
      <4>1. i - 1 = Len(stack)
        BY <2>1, <3>3
      <4>2. stack'[i - 1].file = Top.file /\ stack'[i - 1].next = Top.next + 1
        BY <2>2, <4>1 DEF WentOn, Top
      <4>3. stack'[i].file = Used
        BY <2>2, <3>3
      <4>4. stack'[i - 1].next > 1 /\ stack'[i - 1].next - 1 = Top.next
        BY <2>1, <4>2
      <4>5. Uses(stack'[i - 1].file)[stack'[i - 1].next - 1] = Uses(Top.file)[Top.next]
        BY <4>2, <4>4
      <4> QED
        BY <4>3, <4>4, <4>5 DEF Used
    <3> QED
      BY <2>1, <3>1, <3>2, <3>3
  <2> QED
    BY <1>s, <2>3
<1>3. CASE UseUnparsable \/ Stopped \/ UNCHANGED vars
  BY <1>3, <1>o, <1>s DEF UseUnparsable, Stopped, vars
<1> QED
  BY <1>1, <1>2, <1>3 DEF Next

(***************************************************************************)
(* Declarations come after what they use: each activation was made by the  *)
(* use its caller is at, and what is behind a loop was compiled, is being  *)
(* compiled, or is missing and broke a loop off.                           *)
(***************************************************************************)
THEOREM UsedBeforeCorrect == Spec => []UsedBefore
<1>1. Init => CalledByUse
  <2> SUFFICES ASSUME Init
               PROVE  CalledByUse
    OBVIOUS
  <2>1. Len(stack) = 1
    BY DEF Init
  <2> QED
    BY <2>1 DEF CalledByUse
<1>2. TypeOK /\ CalledByUse /\ [Next]_vars => CalledByUse'
  BY CalledByUseStep
<1>3. Past /\ CalledByUse => UsedBefore
  BY DEF Past, BehindPast, UsedBefore
<1> QED
  BY <1>1, <1>2, <1>3, TypeCorrect, PastCorrect, PTL DEF Spec

-------------------------------------------------------------------------------
(***************************************************************************)
(* The pass ends.  What is left of it is counted: the declarations before  *)
(* the loops in progress, the end of each loop with them, and for each     *)
(* file not used yet more than a loop over it can add.                     *)
(***************************************************************************)
Row(i, a) == {<<i, k>> : k \in a.next..Len(Uses(a.file)) + 1}
Todo      == UNION {Row(i, stack[i]) : i \in DOMAIN stack}
Work      == (MaxUses + 2) * Cardinality(Files \ paths) + Cardinality(Todo)

WorkRunsOut == [][Work' \in Nat /\ Work' < Work]_vars

(***************************************************************************)
(* The declarations left in a file just opened are finitely many.          *)
(***************************************************************************)
Opening(i, m) == {<<i, k>> : k \in 1..m}

LEMMA RowOfOpened ==
  ASSUME NEW i \in Nat, NEW m \in Nat
  PROVE  /\ IsFiniteSet(Opening(i, m))
         /\ Cardinality(Opening(i, m)) <= m
<1> DEFINE R == Opening(i, m)
           f == [k \in 1..m |-> <<i, k>>]
<1>1. f \in Surjection(1..m, R)
  BY DEF Surjection, Opening
<1>2. IsFiniteSet(1..m) /\ Cardinality(1..m) <= m
  BY FS_Interval
<1>3. IsFiniteSet(R) /\ Cardinality(R) <= Cardinality(1..m)
  BY <1>1, <1>2, FS_Surjection
<1>4. Cardinality(R) \in Nat /\ Cardinality(1..m) \in Nat
  BY <1>2, <1>3, FS_CardinalityType
<1> HIDE DEF R
<1>5. IsFiniteSet(R) /\ Cardinality(R) <= m
  BY <1>2, <1>3, <1>4
<1> QED
  BY <1>5 DEF R

(***************************************************************************)
(* A file has at most MaxUses declarations that matter.                    *)
(***************************************************************************)
LEMMA UsesBounded ==
  ASSUME uses \in [Files -> UseLists], NEW f \in Files
  PROVE  Len(Uses(f)) \in 0..MaxUses
<1>1. PICK k \in 0..MaxUses : uses[f] \in [1..k -> Files]
  BY DEF UseLists
<1>2. k \in Nat /\ k <= MaxUses /\ MaxUses \in Nat
  BY <1>1, BoundsAssumption
<1>3. uses[f] \in Seq(Files) /\ Len(uses[f]) = k
  BY <1>1, <1>2, SeqDef
<1> QED
  BY <1>2, <1>3 DEF Uses

(***************************************************************************)
(* A declaration is left to do exactly when its loop has not passed it.    *)
(***************************************************************************)
LEMMA TodoIs ==
  ASSUME NEW i, NEW k
  PROVE  <<i, k>> \in Todo <=> i \in DOMAIN stack
                                 /\ k \in stack[i].next..Len(Uses(stack[i].file)) + 1
BY DEF Todo, Row

(***************************************************************************)
(* So after a step, over the same program.                                 *)
(***************************************************************************)
LEMMA TodoIsNext ==
  ASSUME [Next]_vars, NEW i, NEW k
  PROVE  <<i, k>> \in Todo' <=> i \in DOMAIN stack'
                                  /\ k \in stack'[i].next..Len(Uses(stack'[i].file)) + 1
BY ProgramKept DEF Todo, Row, Uses

(***************************************************************************)
(* What is left to do are pairs of an activation and a declaration.        *)
(***************************************************************************)
LEMMA TodoPairs == \A x \in Todo' : x = <<x[1], x[2]>>
BY DEF Todo, Row

(***************************************************************************)
(* The end of the innermost loop is always left to do.                     *)
(***************************************************************************)
LEMMA TopLeft ==
  ASSUME TypeOK, stack # <<>>
  PROVE  <<Len(stack), Top.next>> \in Todo
<1>1. Len(Uses(Top.file)) \in Nat
  BY TopShape
<1>2. Top.next \in Top.next..Len(Uses(Top.file)) + 1
  BY <1>1, TopShape
<1> QED
  BY <1>2, TopShape, TodoIs DEF Top

(***************************************************************************)
(* An activation that returns takes what was left of its loop with it.     *)
(***************************************************************************)
LEMMA ReturnTakesOff ==
  ASSUME TypeOK, [Next]_vars, stack # <<>>, Return
  PROVE  /\ Todo' \subseteq Todo
         /\ <<Len(stack), Top.next>> \notin Todo'
<1>1. stack \in Seq(Activation) /\ stack' \in Seq(Activation) /\ Returned(stack, stack')
  BY ReturnShape DEF TypeOK
<1>2. DOMAIN stack' = 1..(Len(stack) - 1) /\ Len(stack) \in Nat
  BY <1>1 DEF Returned
<1>3. Len(stack) \notin DOMAIN stack'
  BY <1>2
<1>4. <<Len(stack), Top.next>> \notin Todo'
  BY <1>3, TodoIsNext
<1>5. ASSUME NEW x \in Todo' PROVE x \in Todo
  <2>1. x = <<x[1], x[2]>>
    BY TodoPairs
  <2>2. /\ x[1] \in DOMAIN stack'
        /\ x[2] \in stack'[x[1]].next..Len(Uses(stack'[x[1]].file)) + 1
    BY <2>1, TodoIsNext
  <2>3. x[1] \in DOMAIN stack /\ stack'[x[1]] = stack[x[1]]
    BY <1>1, <1>2, <2>2 DEF Returned
  <2>4. <<x[1], x[2]>> \in Todo
    BY <2>2, <2>3, TodoIs
  <2> QED
    BY <2>1, <2>4
<1> QED
  BY <1>4, <1>5

(***************************************************************************)
(* A loop that goes on has one declaration less.                           *)
(***************************************************************************)
LEMMA AdvanceTakesOff ==
  ASSUME TypeOK, [Next]_vars, stack # <<>>, stack' \in Seq(Activation),
         NEW n \in {Len(stack), Len(stack) + 1}, WentOn(stack, stack', n)
  PROVE  /\ <<Len(stack), Top.next>> \notin Todo'
         /\ \A x \in Todo' : x \in Todo \/ (x[1] = Len(stack) + 1 /\ n = Len(stack) + 1)
<1>1. Len(stack) \in Nat \ {0} /\ Top.next \in Nat \ {0} /\ Len(Uses(Top.file)) \in Nat
  BY TopShape
<1>2. DOMAIN stack' = 1..n
  BY <1>1 DEF WentOn
<1>3. stack'[Len(stack)].file = Top.file /\ stack'[Len(stack)].next = Top.next + 1
  BY DEF WentOn, Top
<1>4. <<Len(stack), Top.next>> \notin Todo'
  <2>1. Top.next \notin Top.next + 1..Len(Uses(Top.file)) + 1
    BY <1>1
  <2> QED
    BY <1>3, <2>1, TodoIsNext
<1>5. ASSUME NEW x \in Todo'
      PROVE  x \in Todo \/ (x[1] = Len(stack) + 1 /\ n = Len(stack) + 1)
  <2>1. x = <<x[1], x[2]>>
    BY TodoPairs
  <2>2. /\ x[1] \in DOMAIN stack'
        /\ x[2] \in stack'[x[1]].next..Len(Uses(stack'[x[1]].file)) + 1
    BY <2>1, TodoIsNext
  <2>3. \/ x[1] \in 1..(Len(stack) - 1)
        \/ x[1] = Len(stack)
        \/ x[1] = Len(stack) + 1 /\ n = Len(stack) + 1
    BY <1>1, <1>2, <2>2
  <2>4. CASE x[1] \in 1..(Len(stack) - 1)
    <3>1. x[1] \in DOMAIN stack
      BY <1>1, <2>4 DEF TypeOK
    <3>t. stack'[x[1]] = stack[x[1]]
      BY <2>4 DEF WentOn
    <3>2. <<x[1], x[2]>> \in Todo
      BY <2>2, <3>1, <3>t, TodoIs
    <3> QED
      BY <2>1, <3>2
  <2>5. CASE x[1] = Len(stack)
    <3>1. x[2] \in Top.next + 1..Len(Uses(Top.file)) + 1
      BY <1>3, <2>2, <2>5
    <3>2. x[2] \in Top.next..Len(Uses(Top.file)) + 1
      BY <1>1, <3>1
    <3>3. <<x[1], x[2]>> \in Todo
      BY <2>5, <3>2, TodoIs, TopShape DEF Top
    <3> QED
      BY <2>1, <3>3
  <2> QED
    BY <2>3, <2>4, <2>5
<1> QED
  BY <1>4, <1>5

(***************************************************************************)
(* Noting a path leaves one file less to be used.                          *)
(***************************************************************************)
LEMMA NotingTakesOff ==
  ASSUME NEW f \in Files, f \notin paths, AddPath(f)
  PROVE  /\ Cardinality(Files \ paths) \in Nat /\ Cardinality(Files \ paths') \in Nat
         /\ Cardinality(Files \ paths') = Cardinality(Files \ paths) - 1
<1>1. IsFiniteSet(Files \ paths)
  BY FilesAssumption, FS_Subset
<1>2. Files \ paths' = (Files \ paths) \ {f}
  BY DEF AddPath
<1>3. f \in Files \ paths
  OBVIOUS
<1> QED
  BY <1>1, <1>2, <1>3, FS_RemoveElement, FS_CardinalityType

(***************************************************************************)
(* A set of things to do that loses one and gains none is smaller.         *)
(***************************************************************************)
LEMMA LessTodo ==
  ASSUME IsFiniteSet(Todo), Todo' \subseteq Todo, NEW x, x \in Todo, x \notin Todo'
  PROVE  /\ IsFiniteSet(Todo')
         /\ Cardinality(Todo) \in Nat /\ Cardinality(Todo') \in Nat
         /\ Cardinality(Todo') < Cardinality(Todo)
<1>1. IsFiniteSet(Todo') /\ Cardinality(Todo') <= Cardinality(Todo)
  BY FS_Subset
<1>2. Cardinality(Todo) # Cardinality(Todo')
  BY FS_Subset
<1>3. Cardinality(Todo) \in Nat /\ Cardinality(Todo') \in Nat
  BY <1>1, FS_CardinalityType
<1> QED
  BY <1>1, <1>2, <1>3

(***************************************************************************)
(* A file less is worth more than the declarations it may bring.           *)
(***************************************************************************)
LEMMA WorkFalls ==
  ASSUME NEW p \in Nat, NEW q \in Nat, NEW t \in Nat, NEW u \in Nat,
         q <= p, q = p => u < t, u <= t + MaxUses + 1
  PROVE  /\ (MaxUses + 2) * q + u \in Nat
         /\ (MaxUses + 2) * q + u < (MaxUses + 2) * p + t
<1> DEFINE M == MaxUses + 2
<1>1. M \in Nat /\ MaxUses \in Nat
  BY BoundsAssumption
<1>2. CASE q = p
  <2>1. M * q = M * p /\ M * p \in Nat
    BY <1>1, <1>2
  <2> HIDE DEF M
  <2>2. M * q + u \in Nat /\ M * q + u < M * p + t
    BY <1>2, <2>1
  <2> QED
    BY <2>2 DEF M
<1>3. CASE q # p
  <2>1. PICK d \in Nat : p = q + 1 + d
    <3>1. p - q - 1 \in Nat /\ p = q + 1 + (p - q - 1)
      BY <1>3
    <3> QED
      BY <3>1
  <2>2. M * p = M * q + M + M * d /\ M * q \in Nat /\ M * d \in Nat
    <3> HIDE DEF M
    <3> QED
      BY <1>1, <2>1
  <2>3. u < M + t
    BY <1>1
  <2> HIDE DEF M
  <2>4. M * q + u \in Nat /\ M * q + u < M * p + t
    BY <1>1, <2>2, <2>3
  <2> QED
    BY <2>4 DEF M
<1> QED
  BY <1>2, <1>3

(***************************************************************************)
(* Every step takes some work off: it ends a loop, goes on to the next     *)
(* declaration, or notes a path, for which it may open one more file.      *)
(***************************************************************************)
LEMMA WorkStep ==
  ASSUME TypeOK, [Next]_vars, IsFiniteSet(Todo), vars' # vars
  PROVE  /\ IsFiniteSet(Todo')
         /\ Work' \in Nat /\ Work' < Work
<1> DEFINE p == Cardinality(Files \ paths)
           q == Cardinality(Files \ paths')
           t == Cardinality(Todo)
           u == Cardinality(Todo')
<1>m. MaxUses \in Nat
  BY BoundsAssumption
<1>p. p \in Nat /\ q \in Nat
  BY FilesAssumption, FS_Subset, FS_CardinalityType
<1>t. t \in Nat
  BY FS_CardinalityType
<1>e. Work = (MaxUses + 2) * p + t /\ Work' = (MaxUses + 2) * q + u
  BY DEF Work
<1>s. ASSUME IsFiniteSet(Todo'), u \in Nat, q <= p, q = p => u < t, u <= t + MaxUses + 1
      PROVE  IsFiniteSet(Todo') /\ Work' \in Nat /\ Work' < Work
  <2> HIDE DEF p, q, t, u
  <2>1. (MaxUses + 2) * q + u \in Nat /\ (MaxUses + 2) * q + u < (MaxUses + 2) * p + t
    BY <1>p, <1>t, <1>s, WorkFalls
  <2> QED
    BY <1>s, <1>e, <2>1
<1>k. paths' = paths => q = p
  OBVIOUS
<1> HIDE DEF p, q, t, u
<1>1. CASE EndOfFile \/ DeclFails \/ UseMissing
  <2>1. Return /\ stack # <<>>
    BY <1>1 DEF EndOfFile, DeclFails, UseMissing, BreakLoop, AtUse, Running
  <2>2. IsFiniteSet(Todo') /\ u \in Nat /\ u < t
    BY <2>1, ReturnTakesOff, TopLeft, LessTodo DEF t, u
  <2>3. q <= p
    <3>1. CASE EndOfFile \/ DeclFails
      BY <3>1, <1>k, <1>p DEF EndOfFile, DeclFails
    <3>2. CASE UseMissing
      <4>1. Used \in Files /\ Used \notin paths /\ AddPath(Used)
        BY <3>2, UsedShape DEF UseMissing
      <4> QED
        BY <4>1, NotingTakesOff DEF p, q
    <3> QED
      BY <1>1, <3>1, <3>2
  <2> QED
    BY <1>s, <1>m, <1>t, <2>2, <2>3
<1>2. CASE UseKnown
  <2>1. stack' = Advanced /\ stack # <<>> /\ paths' = paths
    BY <1>2 DEF UseKnown, AtUse, Running
  <2>2. /\ stack' \in Seq(Activation) /\ WentOn(stack, stack', Len(stack))
        /\ Len(stack) # Len(stack) + 1
    BY <2>1, AdvanceShape, TopShape
  <2>3. Todo' \subseteq Todo /\ <<Len(stack), Top.next>> \notin Todo'
    BY <2>1, <2>2, AdvanceTakesOff
  <2>4. IsFiniteSet(Todo') /\ u \in Nat /\ u < t
    BY <2>1, <2>3, TopLeft, LessTodo DEF t, u
  <2> QED
    BY <1>s, <1>m, <1>p, <1>t, <1>k, <2>1, <2>4
<1>3. CASE UseUnparsable
  <2>1. Used \in Files /\ Used \notin paths /\ AddPath(Used) /\ stack' = stack
    BY <1>3, UsedShape DEF UseUnparsable
  <2>2. Todo' = Todo
    BY <2>1, ProgramKept DEF Todo, Row, Uses
  <2>3. q \in Nat /\ p \in Nat /\ q = p - 1
    BY <2>1, NotingTakesOff DEF p, q
  <2>4. u = t
    BY <2>2 DEF t, u
  <2> QED
    BY <1>s, <1>m, <1>t, <2>2, <2>3, <2>4
<1>4. CASE UseLoads
  <2>1. /\ Used \in Files /\ Used \notin paths /\ AddPath(Used)
        /\ stack' = Call(Used) /\ stack # <<>>
    BY <1>4, UsedShape DEF UseLoads, AtUse, Running
  <2>2. q \in Nat /\ p \in Nat /\ q = p - 1
    BY <2>1, NotingTakesOff DEF p, q
  <2>3. /\ stack' \in Seq(Activation) /\ WentOn(stack, stack', Len(stack) + 1)
        /\ stack'[Len(stack) + 1] = Opened(Used) /\ Len(stack) \in Nat
    BY <2>1, CallShape, TopShape
  <2> DEFINE m == Len(Uses(Used)) + 1
             R == Opening(Len(stack) + 1, m)
  <2>4. m \in Nat /\ m <= MaxUses + 1
    BY <1>m, <2>1, UsesBounded DEF TypeOK
  <2>5. IsFiniteSet(R) /\ Cardinality(R) <= m /\ Cardinality(R) \in Nat
    BY <2>3, <2>4, RowOfOpened, FS_CardinalityType
  <2>6. Todo' \subseteq Todo \cup R
    <3> SUFFICES ASSUME NEW x \in Todo', x \notin Todo
                 PROVE  x \in R
      OBVIOUS
    <3>1. x = <<x[1], x[2]>>
      BY TodoPairs
    <3>2. x[1] = Len(stack) + 1
      BY <2>1, <2>3, AdvanceTakesOff
    <3>3. x[2] \in stack'[x[1]].next..Len(Uses(stack'[x[1]].file)) + 1
      BY <3>1, TodoIsNext
    <3>4. x[2] \in 1..m
      BY <2>3, <3>2, <3>3 DEF Opened
    <3> QED
      BY <3>1, <3>2, <3>4 DEF Opening
  <2>7. /\ IsFiniteSet(Todo \cup R)
        /\ Cardinality(Todo \cup R) = t + Cardinality(R) - Cardinality(Todo \cap R)
    BY <2>5, FS_Union DEF t
  <2>8. Cardinality(Todo \cap R) \in Nat
    BY FS_Subset, FS_CardinalityType
  <2>9. IsFiniteSet(Todo') /\ u <= Cardinality(Todo \cup R) /\ u \in Nat
    BY <2>6, <2>7, FS_Subset, FS_CardinalityType DEF u
  <2> HIDE DEF R, m
  <2>10. u <= t + MaxUses + 1
    BY <1>m, <1>t, <2>4, <2>5, <2>7, <2>8, <2>9
  <2> QED
    BY <1>s, <1>m, <1>t, <2>2, <2>9, <2>10
<1>5. CASE Stopped
  BY <1>5 DEF Stopped
<1> QED
  BY <1>1, <1>2, <1>3, <1>4, <1>5 DEF Next

(***************************************************************************)
(* At first the loop over the root file is left, and every file may be     *)
(* used.                                                                   *)
(***************************************************************************)
MaxWork == (MaxUses + 2) * Cardinality(Files) + MaxUses + 1

LEMMA WorkInit ==
  ASSUME Init
  PROVE  IsFiniteSet(Todo) /\ Work \in Nat /\ Work <= MaxWork
<1>1. stack = <<[file |-> Root, next |-> 1]>> /\ Files \ paths = Files
  BY DEF Init
<1>2. DOMAIN stack = {1} /\ stack[1].file = Root /\ stack[1].next = 1
  BY <1>1
<1>3. Len(Uses(Root)) \in 0..MaxUses /\ MaxUses \in Nat
  BY FilesAssumption, BoundsAssumption, UsesBounded DEF Init
<1>4. Todo = Opening(1, Len(Uses(Root)) + 1)
  BY <1>2 DEF Todo, Row, Opening
<1>5. IsFiniteSet(Todo) /\ Cardinality(Todo) <= Len(Uses(Root)) + 1
  BY <1>3, <1>4, RowOfOpened
<1>6. Cardinality(Todo) \in Nat /\ Cardinality(Files) \in Nat
  BY <1>5, FilesAssumption, FS_CardinalityType
<1> DEFINE M == (MaxUses + 2) * Cardinality(Files)
<1>7. M \in Nat
  BY <1>3, <1>6
<1>8. Work = M + Cardinality(Todo) /\ MaxWork = M + MaxUses + 1
  BY <1>1 DEF Work, MaxWork
<1> HIDE DEF M
<1> QED
  BY <1>3, <1>5, <1>6, <1>7, <1>8

(***************************************************************************)
(* The pass does not go on for ever, whatever files use one another: every *)
(* step takes some work off what is left, so that there are at most        *)
(* MaxWork of them.                                                        *)
(***************************************************************************)
InWork == IsFiniteSet(Todo) /\ Work \in 0..MaxWork

THEOREM WorkRunsOutCorrect == Spec => []InWork /\ WorkRunsOut
<1>m. MaxWork \in Int
  <2>1. MaxUses \in Nat /\ Cardinality(Files) \in Nat
    BY FilesAssumption, BoundsAssumption, FS_CardinalityType
  <2> QED
    BY <2>1 DEF MaxWork
<1>1. Init => InWork
  BY <1>m, WorkInit DEF InWork
<1>2. TypeOK /\ InWork /\ [Next]_vars => InWork'
  <2> SUFFICES ASSUME TypeOK, InWork, [Next]_vars
               PROVE  InWork'
    OBVIOUS
  <2>m. MaxWork' = MaxWork
    BY DEF MaxWork
  <2>1. CASE vars' = vars
    <3>1. Todo' = Todo /\ Work' = Work
      BY <2>1 DEF vars, program, Work, Todo, Row, Uses
    <3> QED
      BY <2>m, <3>1 DEF InWork
  <2>2. CASE vars' # vars
    <3>1. IsFiniteSet(Todo') /\ Work' \in Nat /\ Work' < Work
      BY <2>2, WorkStep DEF InWork
    <3> QED
      BY <1>m, <2>m, <3>1 DEF InWork
  <2> QED
    BY <2>1, <2>2
<1>3. TypeOK /\ InWork /\ [Next]_vars => [Work' \in Nat /\ Work' < Work]_vars
  BY WorkStep DEF InWork
<1> QED
  BY <1>1, <1>2, <1>3, TypeCorrect, PTL DEF Spec, WorkRunsOut

-------------------------------------------------------------------------------
(***************************************************************************)
(* The recursion of compile_module is no deeper than the program has       *)
(* files: the activations above the first are of different files, each     *)
(* loaded for a use declaration.                                           *)
(***************************************************************************)
LoadedOnce ==
  /\ \A i \in 2..Len(stack) : stack[i].file \in loaded
  /\ \A i, j \in 2..Len(stack) : i # j => stack[i].file # stack[j].file

LEMMA LoadedOnceStep ==
  ASSUME TypeOK, LoadedOnce, [Next]_vars
  PROVE  LoadedOnce'
<1>s. stack \in Seq(Activation) /\ Len(stack) \in Nat
  BY DEF TypeOK
<1>k. ASSUME Len(stack') \in Nat, Len(stack') <= Len(stack), loaded' = loaded,
             \A i \in 2..Len(stack') : stack'[i].file = stack[i].file
      PROVE  LoadedOnce'
  <2>1. \A i \in 2..Len(stack') : i \in 2..Len(stack)
    BY <1>s, <1>k
  <2> QED
    BY <1>k, <2>1 DEF LoadedOnce
<1>1. CASE EndOfFile \/ DeclFails \/ UseMissing
  <2>1. Return /\ stack # <<>> /\ loaded' = loaded
    BY <1>1 DEF EndOfFile, DeclFails, UseMissing, BreakLoop, AtUse, Running
  <2>2. Returned(stack, stack')
    BY <1>s, <2>1, ReturnShape
  <2>3. Len(stack') = Len(stack) - 1 /\ Len(stack) # 0
    BY <1>s, <2>1, <2>2 DEF Returned
  <2>4. \A i \in 2..Len(stack') : stack'[i] = stack[i]
    BY <1>s, <2>2, <2>3 DEF Returned
  <2> QED
    BY <1>k, <1>s, <2>1, <2>3, <2>4
<1>2. CASE UseKnown
  <2>1. stack' = Advanced /\ stack # <<>> /\ loaded' = loaded
    BY <1>2 DEF UseKnown, AtUse, Running
  <2>2. WentOn(stack, stack', Len(stack))
    BY <2>1, AdvanceShape
  <2>3. \A i \in 2..Len(stack') : i \in 1..(Len(stack) - 1) \/ i = Len(stack)
    BY <1>s, <2>2 DEF WentOn
  <2> QED
    BY <1>k, <1>s, <2>1, <2>2, <2>3 DEF WentOn
<1>3. CASE UseLoads
  <2>1. /\ Used \in Files /\ Used \notin paths /\ loaded' = loaded \cup {Used}
        /\ stack' = Call(Used) /\ stack # <<>>
    BY <1>3, UsedShape DEF UseLoads, AtUse, Running
  <2>2. Used \notin loaded
    BY <2>1 DEF TypeOK
  <2>3. WentOn(stack, stack', Len(stack) + 1) /\ stack'[Len(stack) + 1] = Opened(Used)
    BY <2>1, CallShape
  <2>4. stack'[Len(stack) + 1].file = Used /\ Len(stack') = Len(stack) + 1
    BY <2>3 DEF Opened, WentOn
  <2>5. ASSUME NEW i \in 2..Len(stack'), i # Len(stack) + 1
        PROVE  i \in 2..Len(stack) /\ stack'[i].file = stack[i].file
    <3>1. i \in 1..(Len(stack) - 1) \/ i = Len(stack)
      BY <1>s, <2>4, <2>5
    <3> QED
      BY <1>s, <2>3, <3>1 DEF WentOn
  <2>6. \A i \in 2..Len(stack') : stack'[i].file \in loaded'
    BY <2>1, <2>4, <2>5 DEF LoadedOnce
  <2>7. \A i, j \in 2..Len(stack') : i # j => stack'[i].file # stack'[j].file
    BY <2>2, <2>4, <2>5 DEF LoadedOnce
  <2> QED
    BY <2>6, <2>7 DEF LoadedOnce
<1>4. CASE UseUnparsable \/ Stopped \/ UNCHANGED vars
  BY <1>4 DEF UseUnparsable, Stopped, vars, LoadedOnce
<1> QED
  BY <1>1, <1>2, <1>3, <1>4 DEF Next

(***************************************************************************)
(* The stack has at most one activation more than there are files, and     *)
(* when a file is loaded there is room below the number of files: a        *)
(* MaxStack above it leaves no program out.                                *)
(***************************************************************************)
RecursionBounded ==
  /\ Len(stack) <= Cardinality(Files) + 1
  /\ AtUse /\ Used \notin paths => Len(stack) <= Cardinality(Files)

THEOREM RecursionBoundedCorrect == Spec => []RecursionBounded
<1>1. Init => LoadedOnce
  <2> SUFFICES ASSUME Init
               PROVE  LoadedOnce
    OBVIOUS
  <2>1. Len(stack) = 1
    BY DEF Init
  <2> QED
    BY <2>1 DEF LoadedOnce
<1>2. TypeOK /\ LoadedOnce /\ [Next]_vars => LoadedOnce'
  BY LoadedOnceStep
<1>3. ASSUME TypeOK, LoadedOnce
      PROVE  RecursionBounded
  <2>1. Len(stack) \in Nat /\ loaded \subseteq paths /\ paths \subseteq Files
    BY <1>3 DEF TypeOK
  <2>2. /\ IsFiniteSet(Files) /\ Cardinality(Files) \in Nat
        /\ IsFiniteSet(loaded) /\ Cardinality(loaded) \in Nat
        /\ Cardinality(loaded) <= Cardinality(Files)
    BY <2>1, FilesAssumption, FS_Subset, FS_CardinalityType
  <2>3. Len(stack) <= Cardinality(loaded) + 1
    <3> DEFINE I == 2..Len(stack)
               f == [i \in I |-> stack[i].file]
    <3>1. f \in Injection(I, loaded)
      BY <1>3 DEF LoadedOnce, Injection, IsInjective
    <3>2. Cardinality(I) <= Cardinality(loaded)
      BY <2>2, <3>1, FS_Injection
    <3>3. Cardinality(I) = IF 2 > Len(stack) THEN 0 ELSE Len(stack) - 2 + 1
      BY <2>1, FS_Interval
    <3> HIDE DEF I
    <3> QED
      BY <2>1, <2>2, <3>2, <3>3
  <2>4. ASSUME AtUse, Used \notin paths
        PROVE  Cardinality(loaded) < Cardinality(Files)
    <3>1. Used \in Files /\ Used \notin loaded
      BY <1>3, <2>1, <2>4, UsedShape
    <3>2. Cardinality(loaded) # Cardinality(Files)
      BY <2>1, <2>2, <3>1, FS_Subset
    <3> QED
      BY <2>2, <3>2
  <2> QED
    BY <2>1, <2>2, <2>3, <2>4 DEF RecursionBounded
<1> QED
  BY <1>1, <1>2, <1>3, TypeCorrect, PTL DEF Spec

===============================================================================
