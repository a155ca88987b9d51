---------------------------- MODULE MCSleeplock -----------------------------
(* A small instance of Sleeplock for model checking. *)
EXTENDS Sleeplock
=============================================================================
