----------------------------- MODULE ReasonCodes -----------------------------
(***************************************************************************)
(* What the SHAP worker makes of one set of attributions: the groups,      *)
(* ranked, at most three reason codes with their evidence, and the         *)
(* confidence in the data (steps 3 to 6 of ShapWorker.process_job).        *)
(*                                                                         *)
(* SHAP values are integers in units of their last digit, so are feature   *)
(* values; features that are not in the vector read as 0.                  *)
(* Titles, texts and severities are left out: of an evidence text only the *)
(* values it quotes are kept.                                              *)
(***************************************************************************)
EXTENDS Integers, Sequences, FiniteSets, Functions

CONSTANTS Shaps,        \* attributions
          Vectors,      \* feature vectors, each over the features it holds
          Drivers,      \* the features the model was trained on
          MaxReasons,
          NotYet

\* The groups in the order of the catalogue.
GroupFeatures ==
    [graph_abuse |->
        {"linked_accounts_1hop", "linked_accounts_2hop", "shared_device_accounts",
         "shared_address_accounts", "shared_payment_accounts", "high_return_neighbor_count",
         "connected_component_size"},
     velocity |->
        {"returns_24h", "returns_7d", "returns_30d", "orders_24h", "orders_7d", "orders_30d",
         "device_returns_30d", "address_returns_30d", "payment_returns_30d"},
     return_behavior |->
        {"return_rate_30d", "return_rate_all_time", "total_returns_all_time",
         "days_to_return_current", "avg_days_to_return_user", "wardrobing_risk_score",
         "category_return_rate_baseline", "user_category_return_rate_diff",
         "device_return_rate_30d"},
     transaction_value |->
        {"order_amount", "refund_amount", "cogs", "shipping_cost", "return_shipping_cost",
         "handling_cost", "restocking_cost", "salvage_value_percentage",
         "estimated_return_loss", "total_spend_30d", "refund_amount_30d", "refund_ratio_30d",
         "item_price_vs_user_avg"},
     sequence |->
        {"days_since_last_order", "days_since_last_return", "total_orders_all_time"},
     evidence_quality |->
        {"is_first_purchase", "account_age_hours", "account_age_under_24h",
         "has_prior_orders", "has_prior_returns", "user_history_count",
         "baseline_support_count", "used_category_fallback", "device_users_count",
         "address_users_count", "payment_users_count"}]
Groups == DOMAIN GroupFeatures
GroupOrder == <<"graph_abuse", "velocity", "return_behavior", "transaction_value",
                "sequence", "evidence_quality">>
Punitive(g) == g # "evidence_quality"

Code(group, priority, features, quotes) ==
    [group |-> group, priority |-> priority, features |-> features, quotes |-> quotes]

\* reason_codes.yaml, which the worker loads; quotes are the fields of the template.
Catalogue ==
    [RC_NETWORK_ABUSE |-> Code("graph_abuse", 1,
        {"linked_accounts_1hop", "linked_accounts_2hop", "connected_component_size",
         "high_return_neighbor_count"},
        {"linked_accounts_1hop", "connected_component_size"}),
     RC_SHARED_DEVICE_RISK |-> Code("graph_abuse", 2,
        {"shared_device_accounts", "device_returns_30d", "device_return_rate_30d"},
        {"shared_device_accounts", "device_returns_30d"}),
     RC_HIGH_RETURN_VELOCITY |-> Code("velocity", 3,
        {"returns_24h", "returns_7d", "returns_30d"},
        {"returns_24h", "returns_7d"}),
     RC_RAPID_WARDROBING |-> Code("return_behavior", 4,
        {"wardrobing_risk_score", "days_to_return_current", "avg_days_to_return_user"},
        {"days_to_return_current", "wardrobing_risk_score"}),
     RC_EXCESSIVE_REFUND_RATIO |-> Code("transaction_value", 5,
        {"refund_ratio_30d", "refund_amount_30d", "refund_amount"},
        {"refund_ratio_30d", "refund_amount"}),
     RC_DISPROPORTIONATE_RETURN_LOSS |-> Code("transaction_value", 6,
        {"estimated_return_loss", "order_amount", "cogs", "return_shipping_cost"},
        {"estimated_return_loss", "order_amount"}),
     RC_CATEGORY_RETURN_ANOMALY |-> Code("return_behavior", 7,
        {"user_category_return_rate_diff", "return_rate_30d",
         "category_return_rate_baseline"},
        {"user_category_return_rate_diff"}),
     RC_CHRONIC_RETURN_RATE |-> Code("return_behavior", 8,
        {"return_rate_30d", "return_rate_all_time", "total_returns_all_time"},
        {"return_rate_30d", "total_returns_all_time"})]
Codes == DOMAIN Catalogue

\* Mutant: the category baseline is worded with the flag for its use.
FeaturesWithFallback(code) ==
    Catalogue[code].features
      \cup (IF code = "RC_CATEGORY_RETURN_ANOMALY" THEN {"used_category_fallback"} ELSE {})

FeaturesOf(code) == Catalogue[code].features

ASSUME ReasonAssumption ==
    /\ Shaps \subseteq Int /\ IsFiniteSet(Drivers) /\ MaxReasons \in Nat \ {0}
    /\ \A v \in Vectors : \A f \in DOMAIN v : v[f] \in Int

VARIABLES shap,     \* the attribution of each driver
          vector,   \* the feature vector of the job
          record    \* what the explanation record gets

vars == <<shap, vector, record>>

Value(v, f) == IF f \in DOMAIN v THEN v[f] ELSE 0

------------------------------------------------------------------------------
(* group_attributions.                                                     *)

Total(s, g) == SumFunction([f \in GroupFeatures[g] \cap DOMAIN s |-> s[f]])

Listed(g) == CHOOSE i \in 1..Len(GroupOrder) : GroupOrder[i] = g

\* Mutant: the totals alone decide.
OutranksByTotal(s, g, h) ==
    Total(s, g) > Total(s, h) \/ (Total(s, g) = Total(s, h) /\ Listed(g) < Listed(h))

\* A stable sort, punitive groups first, then by total.
Outranks(s, g, h) ==
    \/ Punitive(g) /\ ~Punitive(h)
    \/ /\ Punitive(g) = Punitive(h)
       /\ \/ Total(s, g) > Total(s, h)
          \/ Total(s, g) = Total(s, h) /\ Listed(g) < Listed(h)

Ranks(s) == [g \in Groups |-> 1 + Cardinality({h \in Groups : Outranks(s, h, g)})]

------------------------------------------------------------------------------
(* generate_reason_codes.  The list of candidate features it filters first  *)
(* is not used afterwards.                                                  *)

\* Mutant: the magnitude of an attribution is its weight.
WeightAbs(s, f) == IF s[f] < 0 THEN - s[f] ELSE s[f]

Weight(s, f) == IF s[f] > 0 THEN s[f] ELSE 0

Score(s, c) == SumFunction([f \in FeaturesOf(c) \cap DOMAIN s |-> Weight(s, f)])

Triggers(s, v, c) == {f \in FeaturesOf(c) \cap DOMAIN s : s[f] > 0 /\ Value(v, f) > 0}

Candidates(s, v) ==
    {c \in Codes : Punitive(Catalogue[c].group) /\ Triggers(s, v, c) # {} /\ Score(s, c) > 0}

Precedes(s, c, d) ==
    \/ Score(s, c) > Score(s, d)
    \/ Score(s, c) = Score(s, d) /\ Catalogue[c].priority < Catalogue[d].priority

\* Where a candidate is after the sort.
Places(s, v) ==
    [c \in Candidates(s, v) |->
        1 + Cardinality({d \in Candidates(s, v) : Precedes(s, d, c)})]

\* The best MaxReasons candidates.  The break of the diversity heuristic is only
\* reached with MaxReasons reasons selected, when the loop has already ended.
Reasons(s, v) ==
    LET n == Cardinality(Candidates(s, v))
    IN [i \in 1..(IF n < MaxReasons THEN n ELSE MaxReasons) |->
            CHOOSE c \in Candidates(s, v) : Places(s, v)[c] = i]

Selected(s, v) == {Reasons(s, v)[i] : i \in DOMAIN Reasons(s, v)}

\* EvidenceBuilder: what the text quotes; one missing field is quoted as 0, with
\* two the bare template is shown.
Quoted(v, c) ==
    LET missing == Catalogue[c].quotes \ DOMAIN v
    IN IF Cardinality(missing) > 1 THEN NotYet
       ELSE [f \in Catalogue[c].quotes |-> Value(v, f)]

Evidence(v, c) ==
    [code |-> c, quoted |-> Quoted(v, c),
     supporting |-> [f \in FeaturesOf(c) \cap DOMAIN v |-> v[f]]]

------------------------------------------------------------------------------
(* evaluate_data_confidence; a feature that is missing reads as an          *)
(* established account.                                                     *)

OrElse(v, f, default) == IF f \in DOMAIN v THEN v[f] ELSE default

Confidence(v) ==
    LET history == OrElse(v, "user_history_count", 10)
    IN IF \/ OrElse(v, "account_age_hours", 720) < 24
          \/ OrElse(v, "is_first_purchase", 0) = 1
          \/ history < 1 THEN "LOW_COLD_START"
       ELSE IF history < 3 THEN "MEDIUM"
       ELSE "HIGH"

------------------------------------------------------------------------------
Init ==
    /\ shap \in [Drivers -> Shaps]
    /\ vector \in Vectors
    /\ record = NotYet

Explain ==
    /\ record = NotYet
    /\ record' = [ranks |-> Ranks(shap),
                  reasons |-> [i \in DOMAIN Reasons(shap, vector) |->
                                  Evidence(vector, Reasons(shap, vector)[i])],
                  confidence |-> Confidence(vector)]
    /\ UNCHANGED <<shap, vector>>

Next == Explain

Spec == Init /\ [][Next]_vars

------------------------------------------------------------------------------
(* Properties.                                                             *)

Codified == {record.reasons[i].code : i \in DOMAIN record.reasons}

\* "Cold-start and evidence-quality features are strictly excluded from punitive
\* codes" (reason_codes.py): whatever the model attributes to them, and whatever
\* they read, a record without them has the same codes in the same order.  Nothing
\* more is true: the confidence decides nothing either, so a LOW_COLD_START customer
\* gets the codes of any other with these attributions, although the repository's
\* README.md (line 223) calls him "programmatically forbidden from being issued"
\* any.
ColdStartDecidesNothing ==
    LET quality == GroupFeatures.evidence_quality
        s == [f \in Drivers \ quality |-> shap[f]]
        v == [f \in DOMAIN vector \ quality |-> vector[f]]
    IN record # NotYet =>
         Reasons(s, v) = [i \in DOMAIN record.reasons |-> record.reasons[i].code]

\* The ranks are a ranking, the informational group is its last whatever its total,
\* and the first group is the punitive group with the most net risk.
RanksFollowRisk ==
    record # NotYet =>
      /\ \A g, h \in Groups : g # h => record.ranks[g] # record.ranks[h]
      /\ record.ranks["evidence_quality"] = Cardinality(Groups)
      /\ \A g \in Groups : record.ranks[g] = 1 =>
            \A h \in Groups : Punitive(h) => Total(shap, g) >= Total(shap, h)

\* More risk hides no reason: when a feature gets a larger attribution, every selected
\* code that lists it stays selected, although codes share features and compete for
\* MaxReasons places.  The one exception is a feature that did not raise the risk
\* before: now it may trigger another code that lists it and that had its score, but
\* no trigger.
MoreRiskKeepsReasons ==
    record # NotYet =>
      \A f \in Drivers : \A d \in 1..2 :
        LET more == [shap EXCEPT ![f] = @ + d]
            fresh == Selected(more, vector) \ Candidates(shap, vector)
        IN \A c \in Codified : f \in FeaturesOf(c) =>
             \/ c \in Selected(more, vector)
             \/ shap[f] <= 0 /\ \E e \in fresh : f \in FeaturesOf(e)
=============================================================================
