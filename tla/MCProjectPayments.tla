-------------------------- MODULE MCProjectPayments --------------------------
(* Instances of ProjectPayments for TLC.                                   *)
EXTENDS ProjectPayments, TLC

CONSTANTS n1, final, s1, s2

\* One invoice, whose description names the last stage.
OneFinal == [i \in {final} |-> "FINAL_20"]
OneNotice == [n \in {n1} |-> final]

SlotSymmetry == Permutations(Slots)
=============================================================================
