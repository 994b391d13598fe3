---------------------------- MODULE MCWorkspaces ----------------------------
(* A workspace, three people and two requests in flight.                   *)
EXTENDS Workspaces, TLC

MCSymmetry == Permutations(User)
=============================================================================
