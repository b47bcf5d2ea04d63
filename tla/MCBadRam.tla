------------------------------ MODULE MCBadRam ------------------------------
EXTENDS BadRam

(* Four neighbouring longwords, which merge into one pattern, *)
Block == SUBSET {2, 3}

(* and three more that lie at growing distances from them. *)
Spread == Block \cup {{2, 4}, {3, 5}, {2, 3, 4, 5}}
=============================================================================
