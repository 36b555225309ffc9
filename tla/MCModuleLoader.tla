---------------------------- MODULE MCModuleLoader ----------------------------
(***************************************************************************)
(* Small instance of ModuleLoader for TLC: every graph of imports over     *)
(* three files, with any of the files missing.                             *)
(***************************************************************************)
EXTENDS ModuleLoader
===============================================================================
