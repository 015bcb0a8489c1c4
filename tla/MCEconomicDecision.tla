------------------------- MODULE MCEconomicDecision -------------------------
(* Instances of EconomicDecision for TLC.                                  *)
EXTENDS EconomicDecision

\* The profile of config/economics/merchant_profiles.yaml (churn multiplier 2.5).
DefaultMerchant == {[cac |-> 450, churn |-> 250]}

\* "fashion", whose salvage value can exceed the direct loss, and "electronics".
TwoCategories ==
    {[shipping |-> 110, handling |-> 60, restocking |-> 5, cogs |-> 45, salvage |-> 60],
     [shipping |-> 180, handling |-> 80, restocking |-> 8, cogs |-> 65, salvage |-> 40]}

\* No file, the shipped file, and thresholds the wrong way round.
ThreePolicies == {NoPolicy, OwnPolicy, [approve |-> 75, verify |-> 25]}
OnePolicy == {OwnPolicy}
=============================================================================
