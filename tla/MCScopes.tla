------------------------------- MODULE MCScopes -------------------------------
(***************************************************************************)
(* Small instance of Scopes for TLC.                                       *)
(***************************************************************************)
EXTENDS Scopes
===============================================================================
