--------------------------- MODULE MCPromptMirror ---------------------------
(* A small instance of PromptMirror for TLC. *)
EXTENDS PromptMirror, MCMessageResolver
=============================================================================
