---------------------------- MODULE MCClientTool ----------------------------
(* All socket types of the tool, a few lines and messages. *)
EXTENDS ClientTool
=============================================================================
