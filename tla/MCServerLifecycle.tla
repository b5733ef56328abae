-------------------------- MODULE MCServerLifecycle --------------------------
(* ServerLifecycle on a few registries, which a run's cfg names. *)
EXTENDS ServerLifecycle

==============================================================================
