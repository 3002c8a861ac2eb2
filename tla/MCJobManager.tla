----------------------------- MODULE MCJobManager -----------------------------
(* Model checking of JobManager; its constants are all given in the .cfg.  *)
EXTENDS JobManager

=============================================================================
