---------------------------- MODULE MCEasySplit ----------------------------
(* Values for the constants of EasySplit that a .cfg cannot write. *)
EXTENDS EasySplit

MCMousePos == {-1, 4, 8, 11, 20}
===========================================================================
