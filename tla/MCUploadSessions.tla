-------------------------- MODULE MCUploadSessions ---------------------------
(* UploadSessions on the sessions and requests that a run's cfg names. *)
EXTENDS UploadSessions

==============================================================================
