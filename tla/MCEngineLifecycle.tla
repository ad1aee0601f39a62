-------------------------- MODULE MCEngineLifecycle --------------------------
(* The lifecycle has no constants: one program, checked over every failure. *)
EXTENDS EngineLifecycle
===============================================================================
