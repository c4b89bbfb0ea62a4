------------------------------ MODULE MCQueries ------------------------------
(* Queries over the chains of MCIngest.                                       *)
EXTENDS Queries, MCIngest
=============================================================================
