---------------------------- MODULE MCCondVarGate ---------------------------
(* Three waiters and two notifiers on one gate: enough for a notified      *)
(* sleeper to be overtaken by a thread that has just called Wait, and for  *)
(* two notifications to fall together.                                     *)
EXTENDS CondVarGate

=============================================================================
