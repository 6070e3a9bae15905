---------------------------- MODULE MCProjectsPage ----------------------------
(***************************************************************************)
(* One tab's projects: the first-run catalogue, one project of the         *)
(* account's own that this device has a copy of, and one action at a time. *)
(***************************************************************************)
EXTENDS ProjectsPage

CONSTANTS project, catalogue, rescue

\* Where an orphan's data is kept.
Rescues == project :> rescue
=============================================================================
