------------------------------- MODULE MCProc -------------------------------
(* Model-checking instance of Proc: one CPU (main() never starts the other *)
(* processors), three process slots, pids up to 4.                          *)
EXTENDS Proc

=============================================================================
