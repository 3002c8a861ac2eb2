-------------------------- MODULE MCWorkerDispatcher --------------------------
(* Model checking of WorkerDispatcher; its constants are all given in the  *)
(* .cfg.                                                                   *)
EXTENDS WorkerDispatcher

=============================================================================
