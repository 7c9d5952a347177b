-------------------------- MODULE MCCommandChannel --------------------------
(* A small instance of CommandChannel for TLC.                             *)
EXTENDS CommandChannel
=============================================================================
