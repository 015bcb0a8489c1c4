----------------------- MODULE EconomicDecisionProofs -----------------------
(* Proofs about EconomicDecision, for any probabilities, amounts, profiles *)
(* and policies.                                                           *)
EXTENDS EconomicDecision, TLAPS

USE DEF Percent

\* Products of the factors of a loss stay non-negative integers.
LEMMA ProductIsNat == \A a, b \in Nat : a * b \in Nat
  OBVIOUS

\* The fields of a case.
LEMMA CaseTyping ==
    ASSUME NEW c \in Cases
    PROVE  /\ c.p \in 0..100 /\ c.refund \in Nat /\ c.order \in Nat
           /\ c.merchant.cac \in Nat /\ c.merchant.churn \in Nat
           /\ c.product.shipping \in Nat /\ c.product.handling \in Nat
           /\ c.product.restocking \in Nat /\ c.product.cogs \in Nat /\ c.product.salvage \in Nat
<1>1. /\ c.p \in Probabilities /\ c.refund \in Amounts /\ c.order \in Amounts
      /\ c.merchant \in Merchants /\ c.product \in Products
  BY DEF Cases
<1>2. c.merchant \in MerchantProfiles /\ c.product \in ProductProfiles
  BY <1>1, DecisionAssumption DEF DecisionAssumption
<1>3. c.p \in 0..100 /\ c.refund \in Nat /\ c.order \in Nat
  BY <1>1, DecisionAssumption DEF DecisionAssumption
<1>4. c.merchant.cac \in Nat /\ c.merchant.churn \in Nat
  BY <1>2 DEF MerchantProfiles
<1>5. /\ c.product.shipping \in Nat /\ c.product.handling \in Nat
      /\ c.product.restocking \in Nat /\ c.product.cogs \in Nat /\ c.product.salvage \in Nat
  BY <1>2 DEF ProductProfiles
<1>6. QED
  BY <1>3, <1>4, <1>5

\* The clamp makes the loss of an undetected fraud a natural number.
LEMMA FraudLossIsNat ==
    ASSUME NEW c \in Cases
    PROVE  FraudLoss(c) \in Nat
<1> DEFINE paid == (c.refund + c.product.shipping + c.product.handling) * 10000
           restock == c.order * c.product.restocking * 100
           salvage == c.order * c.product.cogs * c.product.salvage
<1>1. paid \in Nat
  BY CaseTyping
<1>2. restock \in Nat
  <2>1. c.order * c.product.restocking \in Nat
    BY CaseTyping, ProductIsNat
  <2>2. QED
    BY <2>1, ProductIsNat
<1>3. salvage \in Nat
  <2>1. c.order * c.product.cogs \in Nat
    BY CaseTyping, ProductIsNat
  <2>2. QED
    BY <2>1, CaseTyping, ProductIsNat
<1>4. Direct(c) = paid + restock - salvage
  BY DEF Direct
<1> HIDE DEF paid, restock, salvage
<1>5. Direct(c) \in Int
  BY <1>1, <1>2, <1>3, <1>4
<1>6. QED
  BY <1>5 DEF FraudLoss

\* No action of any case has a negative expected loss.
LEMMA LossIsNat ==
    ASSUME NEW c \in Cases, NEW action \in Verdicts
    PROVE  Loss(action, c) \in Nat
<1>1. c.p \in Nat /\ 100 - c.p \in Nat
  BY CaseTyping
<1>2. LegitCost(c) \in Nat
  BY CaseTyping DEF LegitCost
<1>3. CASE action = "APPROVE"
  <2>1. c.p * FraudLoss(c) \in Nat /\ (100 - c.p) * LegitCost(c) \in Nat
    BY <1>1, <1>2, FraudLossIsNat, ProductIsNat
  <2>2. Loss(action, c) = c.p * FraudLoss(c) + (100 - c.p) * LegitCost(c)
    BY <1>3 DEF Loss
  <2>3. QED
    BY <2>1, <2>2
<1>4. CASE action = "VERIFY"
  <2>1. LegitCost(c) + FrictionCost * 10000 \in Nat
    BY <1>2 DEF FrictionCost
  <2>2. (100 - c.p) * (LegitCost(c) + FrictionCost * 10000) \in Nat
    BY <1>1, <2>1, ProductIsNat
  <2>3. Loss(action, c) = InspectionCost * 1000000
                          + (100 - c.p) * (LegitCost(c) + FrictionCost * 10000)
    BY <1>4 DEF Loss
  <2>4. QED
    BY <2>2, <2>3 DEF InspectionCost
<1>5. CASE action = "BLOCK"
  <2>1. c.merchant.cac * c.merchant.churn \in Nat
    BY CaseTyping, ProductIsNat
  <2>2. c.merchant.cac * c.merchant.churn * 100 \in Nat
    BY <2>1, ProductIsNat
  <2>3. (100 - c.p) * (c.merchant.cac * c.merchant.churn * 100) \in Nat
    BY <1>1, <2>2, ProductIsNat
  <2>4. Loss(action, c) = (100 - c.p) * (c.merchant.cac * c.merchant.churn * 100)
    BY <1>5 DEF Loss
  <2>5. QED
    BY <2>3, <2>4
<1>6. QED
  BY <1>3, <1>4, <1>5 DEF Verdicts

\* A decision is an action with a loss that DecisionResult accepts.
LEMMA DecisionTyping ==
    ASSUME NEW c \in Cases
    PROVE  Decision(c) \in [action : Verdicts, loss : Nat]
<1>1. Action(c.p, c.policy) \in Verdicts
  BY DEF Action, Verdicts
<1>2. QED
  BY <1>1, LossIsNat DEF Decision

\* Every decision is well formed, and no expected loss is negative.
THEOREM DecisionsTyped == Spec => []TypeOK
<1>1. Init => TypeOK
  BY DecisionTyping DEF Init, TypeOK
<1>2. TypeOK /\ [Decide]_vars => TypeOK'
  BY DecisionTyping DEF TypeOK, Decide, vars
<1>3. QED
  BY <1>1, <1>2, PTL DEF Spec

\* The answer is always the one of the case it is for.
Consistent == asked \in Cases /\ answer = Decision(asked)

\* No step separates the answer from its question.
LEMMA ConsistentInvariant == Spec => []Consistent
<1>1. Init => Consistent
  BY DEF Init, Consistent
<1>2. Consistent /\ [Decide]_vars => Consistent'
  BY DEF Consistent, Decide, vars
<1>3. QED
  BY <1>1, <1>2, PTL DEF Spec

\* The threshold of every policy is a number that probabilities compare with.
LEMMA ActiveTyping ==
    ASSUME NEW c \in Cases
    PROVE  Active(c.policy) \in Thresholds
<1>1. c.policy \in Policies
  BY DEF Cases
<1>2. QED
  BY <1>1, DecisionAssumption DEF Active, OwnPolicy, Thresholds, DecisionAssumption

\* Under one policy the riskier return never gets the milder action.
THEOREM RiskierIsStricterHolds == Spec => RiskierIsStricter
<1>1. ASSUME Consistent, Consistent', asked.policy = asked'.policy, asked.p <= asked'.p
      PROVE  Severity[answer.action] <= Severity[answer'.action]
  <2> DEFINE t == Active(asked.policy)
             q == asked'.p
  <2>1. t.approve \in Int /\ t.verify \in Int
    BY <1>1, ActiveTyping DEF Consistent, Thresholds
  <2>2. asked.p \in Int /\ q \in Int
    BY <1>1, CaseTyping DEF Consistent
  <2>3. answer.action = Action(asked.p, asked.policy) /\ answer'.action = Action(q, asked.policy)
    BY <1>1 DEF Consistent, Decision
  <2>4. asked.p <= q
    BY <1>1
  <2> HIDE DEF q
  <2>5. QED
    BY <2>1, <2>2, <2>3, <2>4 DEF Action, Severity
<1>2. QED
  BY <1>1, ConsistentInvariant, PTL DEF RiskierIsStricter

\* The simulator of the dashboard and the engine agree off the thresholds.
THEOREM SimulatorAgreesHolds == Spec => []SimulatorAgrees
<1>1. ASSUME Consistent
      PROVE  SimulatorAgrees
  <2> DEFINE t == Active(asked.policy)
  <2>1. t.approve \in Int /\ t.verify \in Int
    BY <1>1, ActiveTyping DEF Consistent, Thresholds
  <2>2. asked.p \in Int
    BY <1>1, CaseTyping DEF Consistent
  <2>3. answer.action = Action(asked.p, asked.policy)
    BY <1>1 DEF Consistent, Decision
  <2>4. QED
    BY <2>1, <2>2, <2>3 DEF SimulatorAgrees, Simulated, Action
<1>2. QED
  BY <1>1, ConsistentInvariant, PTL

=============================================================================
