--------------------------- MODULE MCAuthSessions ---------------------------
(* Instances of AuthSessions for TLC.                                      *)
EXTENDS AuthSessions, TLC

CONSTANTS u1, u2, r1, r2, r3

SlotSymmetry == Permutations(Slots)
=============================================================================
