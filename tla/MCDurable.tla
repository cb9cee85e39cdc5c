------------------------------ MODULE MCDurable ------------------------------
(***************************************************************************)
(* Small instances of DurableCoordinator: those of MCCoordinator.          *)
(***************************************************************************)
EXTENDS DurableCoordinator, MCCoordinator
=============================================================================
