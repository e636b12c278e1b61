--------------------------- MODULE MCDemuxSocket ---------------------------
(* Two buffers per batch, so that a batch can mix both kinds. *)
EXTENDS DemuxSocket
=============================================================================
