-------------------------- MODULE MCTaskLifecycle --------------------------
(* The instances of TaskLifecycle: ids and handlers are model values. *)
EXTENDS TaskLifecycle
============================================================================
