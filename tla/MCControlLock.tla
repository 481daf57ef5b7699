--------------------------- MODULE MCControlLock ---------------------------
(* Starts and probes against one lock file, removed at most once. *)
EXTENDS ControlLock

=============================================================================
