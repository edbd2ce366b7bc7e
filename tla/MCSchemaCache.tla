--------------------------- MODULE MCSchemaCache ---------------------------
(***************************************************************************)
(* Small instances of SchemaCache.                                         *)
(***************************************************************************)
EXTENDS SchemaCache, TLC

\* DataService: one cache of runtime schemas.
OneCache == [x \in Cached |-> "schemas"]

\* OData: a cache of documents and a cache of lists.
TwoCaches == [x \in Cached |-> IF x = List THEN "lists" ELSE "docs"]

\* No action orders reads.
Symmetry == Permutations(Reader)
=============================================================================
