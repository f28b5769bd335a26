----------------------------- MODULE MCPagination -----------------------------
(***************************************************************************)
(* Small instances of Pagination: lists of two and three conversations read *)
(* one per page, while ingestion changes what a list would select.         *)
(***************************************************************************)
EXTENDS Pagination, TLC

Changing == {<<1, 2>>, <<3, 1, 2>>}
ClientSymmetry == Permutations(Clients)
=============================================================================
