-------------------------- MODULE MCRefreshWindow --------------------------
(***************************************************************************)
(* Small instances of RefreshWindow.                                       *)
(***************************************************************************)
EXTENDS RefreshWindow, TLC

\* No action orders logins or requests.
Symmetry == Permutations(Login) \cup Permutations(Request)
=============================================================================
