-------------------------- MODULE EconomicDecision --------------------------
(***************************************************************************)
(* EconomicDecisionEngine.decide: from a calibrated probability, the       *)
(* amounts of a return, the economic profiles and a policy to an action    *)
(* and its expected loss; and the dashboard's simulation of thresholds.    *)
(*                                                                         *)
(* Probabilities, rates and thresholds are in percent, amounts in whole    *)
(* currency units, so losses come out in millionths and are exact.  The    *)
(* rounding of the reported loss to cents is left out.                     *)
(***************************************************************************)
EXTENDS Integers

CONSTANTS Probabilities,    \* calibrated probabilities, already clamped to 0..100
          Amounts,          \* refund and order amounts
          Merchants,        \* merchant profiles
          Products,         \* product category profiles
          Policies,         \* thresholds a policy may carry
          NoPolicy          \* no policy file: the engine's own policy applies

Verdicts == {"APPROVE", "VERIFY", "BLOCK"}
Percent == 0..100

MerchantProfiles == [cac : Nat, churn : Nat]
ProductProfiles == [shipping : Nat, handling : Nat, restocking : Percent,
                    cogs : Percent, salvage : Percent]
Thresholds == [approve : Percent, verify : Percent]

ASSUME DecisionAssumption ==
    /\ Probabilities \subseteq Percent /\ Amounts \subseteq Nat
    /\ Merchants \subseteq MerchantProfiles /\ Products \subseteq ProductProfiles
    /\ Policies \subseteq Thresholds \cup {NoPolicy}
    /\ NoPolicy \notin Thresholds

Cases == [p : Probabilities, refund : Amounts, order : Amounts,
          merchant : Merchants, product : Products, policy : Policies]

VARIABLES asked,    \* the case decided last
          answer    \* its action and expected loss

vars == <<asked, answer>>

\* The engine's own policy, and the one of config/policies/decision_policy.yaml.
OwnPolicy == [approve |-> 25, verify |-> 75]

Active(policy) == IF policy = NoPolicy THEN OwnPolicy ELSE policy

\* What an undetected fraud costs (in 1/10000), and a legitimate return.
Direct(c) == (c.refund + c.product.shipping + c.product.handling) * 10000
             + c.order * c.product.restocking * 100
             - c.order * c.product.cogs * c.product.salvage
\* Mutant: without the clamp.
FraudLossUnclamped(c) == Direct(c)

FraudLoss(c) == IF Direct(c) < 0 THEN 0 ELSE Direct(c)
LegitCost(c) == (c.product.shipping + c.product.handling) * 10000

InspectionCost == 60
FrictionCost == 25

\* Expected losses per action (in 1/1000000).
Loss(action, c) ==
    CASE action = "APPROVE" -> c.p * FraudLoss(c) + (100 - c.p) * LegitCost(c)
      [] action = "VERIFY"  -> InspectionCost * 1000000
                               + (100 - c.p) * (LegitCost(c) + FrictionCost * 10000)
      [] action = "BLOCK"   -> (100 - c.p) * (c.merchant.cac * c.merchant.churn * 100)

\* Mutant: the middle band is tested first.
VerifyFirst(p, policy) ==
    IF p <= Active(policy).verify THEN "VERIFY"
    ELSE IF p <= Active(policy).approve THEN "APPROVE"
    ELSE "BLOCK"

\* The thresholds decide; the losses are only reported.
Action(p, policy) ==
    IF p <= Active(policy).approve THEN "APPROVE"
    ELSE IF p <= Active(policy).verify THEN "VERIFY"
    ELSE "BLOCK"

\* Mutant: the lower threshold is tested first.
SimulatedVerifyFirst(p, verify, block) ==
    IF p >= verify THEN "VERIFY" ELSE IF p >= block THEN "BLOCK" ELSE "APPROVE"

\* What the policy simulator of the dashboard says a score gets under thresholds.
Simulated(p, verify, block) ==
    IF p >= block THEN "BLOCK" ELSE IF p >= verify THEN "VERIFY" ELSE "APPROVE"

Decision(c) == [action |-> Action(c.p, c.policy), loss |-> Loss(Action(c.p, c.policy), c)]

Init == \E c \in Cases : asked = c /\ answer = Decision(c)

Decide == \E c \in Cases : asked' = c /\ answer' = Decision(c)

Spec == Init /\ [][Decide]_vars
------------------------------------------------------------------------------
(* Properties.                                                             *)

\* DecisionResult accepts no negative loss (ge=0.0): if the formula went below
\* zero for some profile, the scoring request would end with a 500.  The salvage
\* value may exceed the direct loss, so this takes the clamp.
TypeOK == /\ asked \in Cases
          /\ answer \in [action : Verdicts, loss : Nat]

Severity == [APPROVE |-> 0, VERIFY |-> 1, BLOCK |-> 2]

\* Between two decisions under one policy, the riskier return never gets the
\* milder action, whatever the amounts and profiles, and whichever way round the
\* two thresholds of the policy are.
RiskierIsStricter ==
    [][asked.policy = asked'.policy /\ asked.p <= asked'.p
         => Severity[answer.action] <= Severity[answer'.action]]_vars

\* The dashboard simulates a policy on past scores with conditions of its own, >=
\* where the engine has <=, and in the other order: for thresholds that are in
\* order both give a score the same action, unless it is a threshold itself.
SimulatorAgrees ==
    LET t == Active(asked.policy) IN
    t.approve <= t.verify /\ asked.p \notin {t.approve, t.verify}
      => Simulated(asked.p, t.approve, t.verify) = answer.action
=============================================================================
