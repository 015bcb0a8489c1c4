\* Both sides of every threshold, three amounts, two categories, three policies.
SPECIFICATION Spec
CONSTANTS
  Probabilities = {0, 10, 25, 26, 50, 75, 76, 100}
  Amounts = {0, 500, 2000}
  Merchants <- DefaultMerchant
  Products <- TwoCategories
  Policies <- ThreePolicies
  NoPolicy = NoPolicy
INVARIANT TypeOK
INVARIANT SimulatorAgrees
PROPERTY RiskierIsStricter
