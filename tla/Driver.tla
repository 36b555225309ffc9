------------------------------- MODULE Driver -------------------------------
(***************************************************************************)
(* main of PietraLang.cpp: the command line is read, and whatever came of  *)
(* it, since its result is not looked at, the module is built.  Builds     *)
(* with the same command line follow one another.  The return that stands  *)
(* between the two ends of main is not modelled: what is after it is the   *)
(* code that is meant to run.                                              *)
(***************************************************************************)
EXTENDS CmdLine, Backend

DriverInit == CmdInit /\ Init

ParseCmdFlags == CmdNext /\ UNCHANGED vars
Build         == stage = "done" /\ Next /\ UNCHANGED cmdVars

DriverNext == ParseCmdFlags \/ Build

DriverSpec == DriverInit /\ [][DriverNext]_<<cmdVars, vars>>
=============================================================================
