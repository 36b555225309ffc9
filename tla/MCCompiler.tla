------------------------------ MODULE MCCompiler ------------------------------
(***************************************************************************)
(* Small instances of Compiler for TLC.                                    *)
(***************************************************************************)
EXTENDS Compiler

\* Every name but self can be the mangled name of a method: a program may also
\* declare functions, parameters and variables of that name.
MCMethodNames == [c \in ClassNames |-> Names \ {SelfParam}]
===============================================================================
