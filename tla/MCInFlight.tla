----------------------------- MODULE MCInFlight -----------------------------
(* A small instance of InFlight for TLC.  A tick is the cleanup period; the  *)
(* evict timeout is shorter than one.                                        *)
EXTENDS InFlight
=============================================================================
