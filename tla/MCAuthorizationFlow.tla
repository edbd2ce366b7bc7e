------------------------ MODULE MCAuthorizationFlow ------------------------
(***************************************************************************)
(* Small instances of AuthorizationFlow.                                   *)
(***************************************************************************)
EXTENDS AuthorizationFlow, TLC

\* No action orders these ids; clients are interchangeable because the instance
\* that uses this definition has only self-chosen ids.
Symmetry == Permutations(User) \cup Permutations(Code)
              \cup Permutations(BrokerState) \cup Permutations(Client)
              \cup Permutations(Verifier)
=============================================================================
