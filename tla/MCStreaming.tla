---------------------------- MODULE MCStreaming ----------------------------
(***************************************************************************)
(* Streaming on small instances; the values are in the .cfg files.         *)
(***************************************************************************)
EXTENDS Streaming
=============================================================================
