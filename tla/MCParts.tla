------------------------------ MODULE MCParts ------------------------------
(***************************************************************************)
(* A small instance of Parts, and the parts that only compute (queries,    *)
(* files, RTF), which are checked on each of their inputs, one state each. *)
(***************************************************************************)
EXTENDS Parts, MCAccessEdge, TLC

CONSTANTS
  r1, r2,        \* requests to Creatio
  a, g1, g2      \* values of its records

TwoTokens == {-1, -2}
EachCarriesOne == r1 :> -1 @@ r2 :> -2

\* Only the publishing app is probed: MCMcpSessions has a setting before it.
PublishedOnly == <<Published>>

Texts == {a}
Dates == [clock : {1}, zone : {0, 1}]
Guids == {g1, g2}

Q == INSTANCE MCReadQuery WITH g <- g1, h <- g2, Null <- None
F == INSTANCE MCFileExtraction

Documents == {doc \in UNION {[1..n -> T!Token] : n \in 1..5} : T!WellWritten(doc)}

SmallInputs == "queries" :> Q!Input @@ "files" :> F!Input @@ "rtf" :> Documents
=============================================================================
