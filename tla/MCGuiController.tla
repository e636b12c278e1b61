-------------------------- MODULE MCGuiController --------------------------
(* The node list alone, without edits from outside or failing writes. *)
EXTENDS GuiController
=============================================================================
