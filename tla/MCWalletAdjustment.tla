------------------------- MODULE MCWalletAdjustment -------------------------
(***************************************************************************)
(* Instances of WalletAdjustment for TLC.                                  *)
(***************************************************************************)
EXTENDS WalletAdjustment

CONSTANTS debit, refund, extra

\* A debit, and two refunds of which one purchase of three allows either but
\* not both.
MixedKind == [a \in Adjustment |-> IF a = debit THEN "debit" ELSE "business_refund"]
MixedAmount == [a \in Adjustment |-> 2]
=============================================================================
