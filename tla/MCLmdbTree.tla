---------------------------- MODULE MCLmdbTree ----------------------------
(* Trees of one, two and three levels.  In the second load the branch page  *)
(* is full, and the separator 3 is shorter than the key that replaces it    *)
(* when 3 is deleted.                                                       *)
EXTENDS LmdbTree

MCKsz == [k \in Keys |-> IF k \in {1, 3} THEN 0 ELSE 1]
MCDsz == [v \in Vals |-> IF v = "big" THEN 2 ELSE 0]
Big(s) == [i \in DOMAIN s |-> <<s[i], "big">>]
MCLoads == {Big(s) : s \in {<<2, 1>>, <<1, 3, 4, 5, 8, 6, 2>>, <<1, 2, 3, 4, 5, 6, 7, 8>>,
                            <<8, 7, 6, 5, 4, 3, 2, 1>>}}
=============================================================================
