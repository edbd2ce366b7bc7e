---------------------------- MODULE MCMcpSessions ----------------------------
(***************************************************************************)
(* A small instance of McpSessions.                                        *)
(***************************************************************************)
EXTENDS McpSessions, TLC

\* A setting is probed first, then the publishing app.
SettingThenApp == <<"dataforge", "published">>

\* No action orders session servers or published servers.
Symmetry == Permutations(Server) \cup Permutations(PublishedApp)
=============================================================================
