----------------------------- MODULE MCDrivePaths -----------------------------
(***************************************************************************)
(* DrivePaths with a path and one below it: each may be a folder or a file.*)
(***************************************************************************)
EXTENDS DrivePaths, TLC

MCPaths == {<<"BYOC">>, <<"BYOC", "d">>, <<"BYOC", "d", "f">>}

Symmetry == Permutations(Caller)
===============================================================================
