----------------------------- MODULE MCLmdbTxn -----------------------------
(* An instance of LmdbTxn: k1 has a leaf page, k2 two overflow pages.       *)
EXTENDS LmdbTxn

CONSTANTS k1, k2, r1

MCPagesOf == [k \in Keys |-> IF k = k1 THEN 1 ELSE 2]
=============================================================================
