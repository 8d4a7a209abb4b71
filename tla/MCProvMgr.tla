----------------------------- MODULE MCProvMgr ------------------------------
(***************************************************************************)
(* ProvMgr with names for the application tasks.                           *)
(***************************************************************************)
EXTENDS ProvMgr, TLC

CONSTANTS a1, a2

ASSUME a1 # a2
=============================================================================
