---------------------------- MODULE MCLlamaBackend ----------------------------
(***************************************************************************)
(* Instances of LlamaBackend for TLC.  Clients and libraries are model     *)
(* values.  The runs check liveness too, for which symmetry is not sound.  *)
(***************************************************************************)
EXTENDS LlamaBackend
===============================================================================
