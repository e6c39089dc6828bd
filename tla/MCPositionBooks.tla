-------------------------- MODULE MCPositionBooks --------------------------
(* PositionBooks with what its comments say of a split, for TLC.           *)
EXTENDS PositionBooks

\* The comments of apply_stock_split(): it is cost-preserving, and its row
\* does not disturb the average.  A correction after it multiplies the cost.
CorrectedBooksBalance == \A p \in PosId : "edit" \notin manual[p] => Balanced(p)
=============================================================================
