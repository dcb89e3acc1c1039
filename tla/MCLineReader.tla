---------------------------- MODULE MCLineReader ----------------------------
(* LineReader with a limit of one byte. *)
EXTENDS LineReader
=============================================================================
