--------------------------- MODULE FeatureDataset ---------------------------
(***************************************************************************)
(* build_features.py: the numbers of the rows, what FeatureValidator says  *)
(* of them, and the three files the model is trained and tested on.        *)
(*                                                                         *)
(* Features that are a function of the return and its product alone, the   *)
(* means, the amounts and the age of the account are left out.  A rate is  *)
(* in percent.                                                             *)
(***************************************************************************)
EXTENDS OnlineFeatures

CONSTANTS EnoughOrders,     \* that make a history of one's own (5 in the code)
          TrainShare,       \* percent of the rows to train with (70), and
          ValidationShare   \* to train or validate with (85)

ASSUME DatasetAssumption ==
    /\ EnoughOrders \in Nat
    /\ TrainShare \in 0..100 /\ ValidationShare \in TrainShare..100

Percent(n, d) == (100 * n) \div (IF d > 1 THEN d ELSE 1)

\* Mutant: a rate as it comes.
RateUncapped(returned, ordered) == Percent(Cardinality(returned), Cardinality(ordered))

\* Returns of a window may be of orders before it: a rate is capped.
Rate(returned, ordered) ==
    LET p == Percent(Cardinality(returned), Cardinality(ordered)) IN IF p > 100 THEN 100 ELSE p

Flag(condition) == IF condition THEN 1 ELSE 0

\* graph_last_updated_at: the latest first_seen up to t, and t when there is none.
GraphUpdatedAt(t) ==
    LET seen == {edges[k].first : k \in ActiveEdges(t)}
    IN IF seen = {} THEN t ELSE CHOOSE s \in seen : \A x \in seen : x <= s

\* The row of r as a row of numbers.
DataRow(r) ==
    LET features == Features(r)
        row == features.past
        base == features.baseline
        size(f) == Cardinality(row[f])
    IN [count |-> [f \in DOMAIN row |-> size(f)],
        rate |-> [return_rate_30d |-> Rate(row.returns_30d, row.orders_30d),
                  return_rate_all_time |-> Rate(row.total_returns, row.total_orders),
                  device_return_rate_30d |-> Rate(row.device_returns, row.device_orders),
                  category_return_rate_baseline |->
                      Percent(Cardinality(base.returns), Cardinality(base.orders))],
        flag |-> [is_first_purchase |-> Flag(row.history = {}),
                  has_prior_orders |-> Flag(row.history # {}),
                  has_prior_returns |-> Flag(row.total_returns # {}),
                  used_category_fallback |-> Flag(size("history") < EnoughOrders)],
        component |-> 1 + size("linked_1hop") + size("linked_2hop"),
        support |-> IF size("history") >= EnoughOrders THEN size("history")
                    ELSE Cardinality(base.orders),
        graph_last_updated_at |-> GraphUpdatedAt(r.time)]

------------------------------------------------------------------------------
(* FeatureValidator.                                                       *)

RangesHold(row) ==
    /\ \A f \in DOMAIN row.rate : row.rate[f] \in 0..100
    /\ \A f \in DOMAIN row.count : row.count[f] >= 0
    /\ row.component >= 0 /\ row.support >= 0
    /\ \A f \in DOMAIN row.flag : row.flag[f] \in {0, 1}

\* The returns are counted again, from the files.
NothingLeaks(r, row) ==
    LET bought == {o.txn : o \in {x \in orders : x.user = r.order.user}}
    IN /\ row.graph_last_updated_at <= r.time
       /\ row.count.total_returns =
            Cardinality({x \in returns : x.order.txn \in bought /\ x.time < r.time})

\* run_all_validations; the sample is any row.
Validated(r) == LET row == DataRow(r) IN RangesHold(row) /\ NothingLeaks(r, row)

------------------------------------------------------------------------------
(* split_and_save.                                                         *)

\* Mutant: the oldest rows first.
OldestFirst(n) ==
    {s \in [1..n -> returns] : \A i, j \in 1..n : i < j => s[i] # s[j] /\ s[i].time <= s[j].time}

\* The rows from the newest request to the oldest; those of one moment in any order.
NewestFirst(n) ==
    {s \in [1..n -> returns] : \A i, j \in 1..n : i < j => s[i] # s[j] /\ s[i].time >= s[j].time}

Slice(s, from, to) == {s[i] : i \in from + 1..to}

\* The three files that the rows may end up in.
Splits ==
    LET n == Cardinality(returns)
        train == (TrainShare * n) \div 100
        validation == (ValidationShare * n) \div 100
    IN {[train |-> Slice(s, 0, train), validation |-> Slice(s, train, validation),
         test |-> Slice(s, validation, n)] : s \in NewestFirst(n)}

------------------------------------------------------------------------------
(* Properties.                                                             *)

\* Whatever the shop's history, the builder's rows pass the builder's validation: the
\* returns that it counts again are those of the row, no rate leaves its range although
\* a window may hold the returns of more orders than it holds orders, and the graph is
\* never newer than the request.
ValidationPasses == \A r \in returns : Validated(r)

\* The returns that the row of r has counted for the customer, his entities and his
\* neighbours.
CountedAsPast(past, r) ==
    past.total_returns \cup past.device_returns \cup past.address_returns
      \cup past.payment_returns
      \cup UNION {PriorReturns(returns, n, r.time) : n \in past.linked_1hop}

\* Of the returns of the earlier rows, the rows have counted those of their category,
\* and these in the baseline only.
BaselineOnly(rows, earlier) ==
    \A r \in rows :
        LET row == Features(r)
        IN /\ earlier \cap CountedAsPast(row.past, r) = {}
           /\ earlier \cap row.baseline.returns
                = {x \in earlier : x.order.category = r.order.category}

\* The model is trained on the newest rows and tested on the oldest, so no row that it
\* is tested or validated with has counted a return that it was trained with, those of
\* the same moment included, except in the category baseline, which has counted all of
\* its category.
OnlyBaselineLeaks ==
    \A s \in Splits :
        /\ s.train \cup s.validation \cup s.test = returns
        /\ BaselineOnly(s.test, s.train \cup s.validation)
        /\ BaselineOnly(s.validation, s.train)
=============================================================================
