------------------------ MODULE MCNotificationQueue ------------------------
(* Instances of NotificationQueue for TLC.                                 *)
EXTENDS NotificationDelivery, TLC

CONSTANTS w1, w2, c1, c2, h1, k1, k2, k3, k4

(* Keys addressed to a provider: the contended case.                       *)
ExternalKeys == [k \in Keys |-> "external"]

(* One key of each kind of recipient.                                      *)
EveryKind ==
    k1 :> "external" @@ k2 :> "fail" @@ k3 :> "portal" @@ k4 :> "hard-fail"

WorkerSymmetry == Permutations(Workers)
=============================================================================
