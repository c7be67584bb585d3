---------------------------- MODULE MC_MeshSetup ----------------------------
(***************************************************************************)
(* Setting up a mesh of three parties, with faults.                        *)
(***************************************************************************)
EXTENDS MeshSetup
=============================================================================
