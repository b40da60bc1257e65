---------------------------- MODULE MCProviderOps ----------------------------
(***************************************************************************)
(* ProviderOps with a folder in a folder, and a name that ends like        *)
(* WebDAV's root folder.                                                   *)
(***************************************************************************)
EXTENDS ProviderOps, TLC

CONSTANTS v1, v2

MCPaths == {<<"a">>, <<"a", "R">>, <<"a", "R", "a">>, <<"R">>, <<"R", "a">>}

MCStores ==
  { [p \in MCPaths |-> IF p = <<"a", "R", "a">> THEN v1 ELSE IF p = <<"R">> THEN v2 ELSE None],
    [p \in MCPaths |-> IF p = <<"a", "R">> THEN v1 ELSE IF p = <<"R", "a">> THEN v2 ELSE None],
    [p \in MCPaths |-> CASE p = <<"a", "R", "a">> -> v1 [] p = <<"R">> -> v2
                         [] p = <<"R", "a">> -> None [] OTHER -> Folder],
    [p \in MCPaths |-> IF Len(p) = 1 THEN Folder ELSE IF p = <<"a", "R">> THEN v1
                       ELSE IF p = <<"R", "a">> THEN v2 ELSE None] }

Symmetry == Permutations(Worker)
===============================================================================
