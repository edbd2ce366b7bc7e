---------------------------- MODULE MCAccessEdge ----------------------------
(***************************************************************************)
(* Small instances of AccessEdge.                                          *)
(***************************************************************************)
EXTENDS AccessEdge

\* Creatio's lifetimes: one that the margin swallows, one that leaves a second,
\* one that ends a JWT and one that is longer than any JWT.
EachKindOfLifetime == {Margin, Margin + 1, MaxTtl + Margin, MaxTtl + Margin + 2}
=============================================================================
