------------------------------- MODULE MCProc -------------------------------
(* Small instances of Proc for model checking; the configurations give the sizes. *)
EXTENDS Proc
=============================================================================
