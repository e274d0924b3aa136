---------------------------- MODULE MCGaitCommand ----------------------------
(* GaitCommand with one move of each kind and one local caller.            *)
EXTENDS GaitCommand
=============================================================================
