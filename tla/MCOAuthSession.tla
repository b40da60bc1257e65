---------------------------- MODULE MCOAuthSession ----------------------------
(***************************************************************************)
(* OAuthSession with calls and consents that may be exchanged.             *)
(***************************************************************************)
EXTENDS OAuthSession, TLC

Symmetry == Permutations(Caller) \cup Permutations(Grant)
===============================================================================
