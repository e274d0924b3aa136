---------------------------- MODULE MCMotionCore ----------------------------
(* MotionCore with one HTTP task and one skill task.                       *)
EXTENDS MotionCore
=============================================================================
