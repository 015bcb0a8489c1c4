-------------------------- MODULE MCFeatureHistory --------------------------
(* Instances of FeatureHistory and the modules that extend it, for TLC.    *)
EXTENDS FeatureDataset, TLC

CONSTANTS u1, u2, u3, d1, d2, a1, a2, y1, y2, y3

\* u1 and u2 share a device, u2 and u3 another one, u1 and u3 an address; u2 has a
\* choice of device.
Household == u1 :> {d1, a1, y1} @@ u2 :> {d1, d2, a2, y2} @@ u3 :> {d2, a1, y3}

\* u1 and u3 may change places, with their device and payment method.
Swap == u1 :> u3 @@ u3 :> u1 @@ d1 :> d2 @@ d2 :> d1 @@ y1 :> y3 @@ y3 :> y1
Mirror == {p \in Permutations(DOMAIN Swap) : p = Swap \/ \A x \in DOMAIN p : p[x] = x}
=============================================================================
