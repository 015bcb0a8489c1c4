---------------------------- MODULE MCModelBundle ----------------------------
(* Instances of ModelBundle for TLC.                                       *)
EXTENDS ModelBundle

\* The second training has a feature more than the first, the third has not.
ThreeTrainings == <<1, 2, 2>>
==============================================================================
