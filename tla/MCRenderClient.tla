--------------------------- MODULE MCRenderClient ---------------------------
(***************************************************************************)
(* RenderClient on a small instance.  Two renders let a call find the      *)
(* worker of the one before, alive, dying or dead; more are the proofs'    *)
(* business (RenderClientProofs).                                          *)
(***************************************************************************)
EXTENDS RenderClient
=============================================================================
