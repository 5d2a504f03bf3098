-------------------------- MODULE MCGuiSendServer --------------------------
(***************************************************************************)
(* Two drops and two receivers, so that a drop made for the first receiver *)
(* can meet the second.                                                    *)
(***************************************************************************)
EXTENDS GuiSendServer

MCDrops == 1 .. 2

=============================================================================
