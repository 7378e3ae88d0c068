---------------------------- MODULE MCWorkspace ----------------------------
(***************************************************************************)
(* The files of Workspace are interchangeable: no action looks at a name.  *)
(***************************************************************************)
EXTENDS Workspace, TLC

AnyFile == Permutations(Files)
=============================================================================
