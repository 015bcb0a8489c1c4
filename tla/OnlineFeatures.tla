--------------------------- MODULE OnlineFeatures ---------------------------
(***************************************************************************)
(* The features that a scoring reads from Redis, next to the ones the      *)
(* model was trained on.  OnlineFeatureBuilder accumulates the replayed    *)
(* orders and returns and computes aggregates at the time of a flush;      *)
(* GraphProcessor loads the relationships and the returns and computes     *)
(* graph metrics.  Both start from the files of FeatureHistory, whose Row  *)
(* is what OfflineFeatureBuilder makes of them for a return.               *)
(*                                                                         *)
(* As in FeatureHistory a feature is represented by the set it counts, and *)
(* a constant by an empty set.  The amounts of the request, and the costs  *)
(* (those of the product in a training row, fixed sums and shares of the   *)
(* order's amount in a scoring) are left out.                              *)
(***************************************************************************)
EXTENDS FeatureHistory

Graph == INSTANCE GraphMetrics

------------------------------------------------------------------------------
(* OnlineFeatureBuilder after a replay of the orders os and the returns    *)
(* rs, flushed at time t.                                                  *)

\* Mutant: the order of the moment is missed.
OnlineOrdersBefore(os, u, t) == {o \in os : o.user = u /\ o.time < t}

OnlineOrders(os, u, t) == {o \in os : o.user = u /\ o.time <= t}

OnlineReturns(rs, u, t) == {r \in rs : r.order.user = u /\ r.time <= t}

\* compute_user_features; the counts of prior orders are counts of all orders.
OnlineUser(os, rs, u, t) ==
    LET ordered == OnlineOrders(os, u, t)
        returned == OnlineReturns(rs, u, t)
    IN [orders_24h   |-> Since(ordered, t, Day),
        orders_7d    |-> Since(ordered, t, Week),
        orders_30d   |-> Since(ordered, t, Month),
        total_orders |-> ordered,
        history      |-> ordered,
        returns_24h  |-> Since(returned, t, Day),
        returns_7d   |-> Since(returned, t, Week),
        returns_30d  |-> Since(returned, t, Month),
        total_returns |-> returned]

\* compute_device_features and its two siblings: no upper end on the times.
OnlineEntity(os, rs, e, t) ==
    LET used == {o \in os : e \in Uses(o)}
    IN [users   |-> {o.user : o \in used},
        orders  |-> Since(used, t, Month),
        returns |-> Since({r \in rs : e \in Uses(r.order)}, t, Month)]

\* GraphProcessor.load_from_parquet keeps the pairs of an edge, not its span, and
\* counts the returns of each customer through their orders.
LoadedRels == {k \in Users \X Entities : edges[k] # NoEdge}
LoadedCounts == [u \in Users |-> Cardinality({r \in returns : r.order.user = u})]

------------------------------------------------------------------------------
(* What a scoring of the order o at time t reads, without the return that  *)
(* is being scored, and the same features of an offline row.               *)

\* The rest of compute_user_features, and what resolve puts in the place of the
\* features that need the return: the average for the current days, constants for
\* the wardrobing score (0.5 if Wearable) and the comparison with the baseline.
OnlineDeviation(ordered, returned, t) ==
    [since_last_order |-> IF ordered = {} THEN 0 ELSE t - LastTime(ordered),
     averaged   |-> returned,
     current    |-> returned,
     wardrobing |-> {},
     compared   |-> ordered]

OnlineRow(os, rs, o, t) ==
    LET user == OnlineUser(os, rs, o.user, t)
    IN [user    |-> user,
        device  |-> OnlineEntity(os, rs, o.device, t),
        address |-> OnlineEntity(os, rs, o.address, t).returns,
        payment |-> OnlineEntity(os, rs, o.payment, t).returns,
        address_users |-> OnlineEntity(os, rs, o.address, t).users,
        payment_users |-> OnlineEntity(os, rs, o.payment, t).users,
        is_first_purchase |-> Cardinality(user.total_orders) <= 1,
        deviation |-> OnlineDeviation(user.total_orders, user.total_returns, t),
        baseline  |-> [orders |-> {}, returns |-> {}],
        category_diff |-> <<>>]

OfflineUser(row) ==
    [orders_24h   |-> row.orders_24h,
     orders_7d    |-> row.orders_7d,
     orders_30d   |-> row.orders_30d,
     total_orders |-> row.total_orders,
     history      |-> row.history,
     returns_24h  |-> row.returns_24h,
     returns_7d   |-> row.returns_7d,
     returns_30d  |-> row.returns_30d,
     total_returns |-> row.total_returns]

OfflineGraph(row) ==
    [linked_1hop    |-> row.linked_1hop,
     linked_2hop    |-> row.linked_2hop,
     shared_device  |-> row.shared_device,
     shared_address |-> row.shared_address,
     shared_payment |-> row.shared_payment,
     high_return    |-> row.high_return]

\* r is the latest thing that happened: the files are up to date when it is scored.
Newest(r) ==
    /\ \A o \in orders : o.time <= r.time
    /\ \A x \in returns \ {r} : x.time < r.time

------------------------------------------------------------------------------
(* Properties.                                                             *)

\* "Graph metrics are present and consistent with offline computed graph features"
\* (PHASE_5_REDIS_GRAPH_ONLINE.md): the graph key of the customer of the newest
\* return holds what the offline row of that return holds, although the processor
\* forgets when an edge was first seen and counts returns without a cut; and the
\* key never knows less than the row of any earlier return.
GraphParity ==
    \A r \in returns :
        LET key == Graph!Metrics(LoadedRels, LoadedCounts, r.order.user)
            row == Past(r)
        IN /\ Newest(r) => key = OfflineGraph(row)
           /\ row.linked_1hop \subseteq key.linked_1hop
           /\ row.high_return \subseteq key.high_return

\* The aggregates agree for the newest return as well: flushed at the moment of the
\* request, the online windows, totals and entity counts are those of the offline
\* row, although one program cuts with <= at the flush and the other with < and <=
\* at the request.
AggregateParity ==
    \A r \in returns : Newest(r) =>
        LET row == Past(r)
            online == OnlineRow(orders, returns \ {r}, r.order, r.time)
        IN /\ [online.user EXCEPT !.history = row.history] = OfflineUser(row)
           /\ online.device = [users |-> row.device_users, orders |-> row.device_orders,
                               returns |-> row.device_returns]
           /\ online.address = row.address_returns /\ online.payment = row.payment_returns
           /\ online.address_users = row.address_users
           /\ online.payment_users = row.payment_users

\* The other features are not those of the training row, even then.  The history is
\* that of the training row and every order since (the one in question is the first of
\* them), so a first purchase is one only until the next order, prices are compared
\* with other orders, and the gap before the order is the time since it.  The average
\* days agree from the second return on; the current days never do.  The score of
\* wardrobing agrees where it is zero, and the difference to the baseline where the
\* customer has fewer than two orders in the category; the baseline is a constant.
StandsIn(r) ==
    LET o == r.order
        row == Features(r)
        online == OnlineRow(orders, returns \ {r}, o, r.time)
        since == {x \in row.past.total_orders : x.time >= o.time}
        agreeing == {f \in DOMAIN row.deviation : online.deviation[f] = row.deviation[f]}
    IN /\ online.user.history = row.past.history \cup since
       /\ online.is_first_purchase <=> row.past.history = {} /\ since = {o}
       /\ since = {o} => online.deviation.since_last_order = r.time - o.time
       /\ "compared" \notin agreeing /\ "current" \notin agreeing
       /\ "averaged" \in agreeing <=> row.past.total_returns # {}
       /\ "wardrobing" \in agreeing <=> o.category \notin Wearable
       /\ online.category_diff = CategoryDiff(row)
            <=> Cardinality(row.past.category_orders) < 2
       /\ online.baseline # row.baseline
StandIns == \A r \in returns : Newest(r) => StandsIn(r)

\* What a scoring reads of what the model was trained on, and what it does not.
\* PHASE_5_REDIS_GRAPH_ONLINE.md asks that all "feature values match offline".
OnlineParity == GraphParity /\ AggregateParity /\ StandIns
=============================================================================
