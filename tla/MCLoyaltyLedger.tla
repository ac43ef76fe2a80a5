--------------------------- MODULE MCLoyaltyLedger ---------------------------
(* Instances of LoyaltyLedger for TLC.                                     *)
EXTENDS LoyaltyLedger

CONSTANTS c1, r1, r2
=============================================================================
