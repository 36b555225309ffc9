------------------------------ MODULE LexicalEnv ------------------------------
(***************************************************************************)
(* What the symbol tables of the compiler promise to the code that uses    *)
(* them: a lexical environment.  Each open scope owns the declarations     *)
(* made while it was the innermost one; a name is visible while a scope    *)
(* that owns a declaration of it is open; no two visible declarations      *)
(* share a name, so an inner scope cannot shadow an outer one; and leaving *)
(* a scope forgets what that scope owns and nothing else.                  *)
(*                                                                         *)
(* The code keeps no such frames: scopes.cpp copies a whole table at every *)
(* enter and throws it away at every leave.  Module Scopes models that and *)
(* is shown to implement this one.                                         *)
(***************************************************************************)
EXTENDS Naturals, Sequences

CONSTANTS
  Names,       \* identifiers (interned strings)
  Vals,        \* what a variable or function name can be bound to
  ClassNames,  \* identifiers of structs
  ClassVals    \* what a struct name can be bound to

VARIABLE frames  \* one frame per open scope, the innermost last

Binding      == [name : Names, val : Vals]
ClassBinding == [name : ClassNames, val : ClassVals]
Frame        == [vars : SUBSET Binding, classes : SUBSET ClassBinding]
EmptyFrame   == [vars |-> {}, classes |-> {}]

VisibleVar(n)   == \E i \in DOMAIN frames : \E b \in frames[i].vars    : b.name = n
VisibleClass(c) == \E i \in DOMAIN frames : \E b \in frames[i].classes : b.name = c

(***************************************************************************)
(* The constructor opens one empty scope.                                  *)
(***************************************************************************)
Init == frames = <<EmptyFrame>>

Enter == frames' = Append(frames, EmptyFrame)

Leave == /\ frames # <<>>
         /\ frames' = SubSeq(frames, 1, Len(frames) - 1)

Declare(b) ==
  /\ frames # <<>>
  /\ ~VisibleVar(b.name)
  /\ frames' = [frames EXCEPT ![Len(frames)].vars = @ \cup {b}]

DeclareClass(b) ==
  /\ frames # <<>>
  /\ ~VisibleClass(b.name)
  /\ frames' = [frames EXCEPT ![Len(frames)].classes = @ \cup {b}]

Next == \/ Enter
        \/ Leave
        \/ \E b \in Binding : Declare(b)
        \/ \E b \in ClassBinding : DeclareClass(b)

Spec == Init /\ [][Next]_frames
===============================================================================
