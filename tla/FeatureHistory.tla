--------------------------- MODULE FeatureHistory ---------------------------
(***************************************************************************)
(* From the simulated shop to the training features: the generator writes  *)
(* orders and returns in no order of time, GraphBuilder condenses the      *)
(* orders to relationships, and OfflineFeatureBuilder computes one row per *)
(* return request from the whole of the three files.                       *)
(*                                                                         *)
(* A feature is a count, a sum or a mean over some set of orders, returns  *)
(* or users; a row holds these sets, so that two equal rows have equal     *)
(* features.  A return carries its order, as after the join on             *)
(* transaction_id.  Prices, products and the events that no feature reads  *)
(* are left out.  Times are ticks; Day, Week and Month are the windows.    *)
(***************************************************************************)
EXTENDS Integers, FiniteSets

CONSTANTS Users,
          Categories,       \* product categories
          Devices, Addresses, Payments,
          Owns,             \* customer -> the device, address and payment ids he uses
          MaxTime,          \* the end of the simulation
          MaxOrders,        \* bound on the number of orders
          Day, Week, Month, \* 24h, 7d and 30d in ticks
          NoEdge

Times == 0..MaxTime
Entities == Devices \cup Addresses \cup Payments

ASSUME HistoryAssumption ==
    /\ MaxTime \in Nat /\ MaxOrders \in Nat
    /\ Day \in Nat /\ Week \in Nat /\ Month \in Nat
    /\ Owns \in [Users -> SUBSET Entities]
    /\ NoEdge \notin [first : Times, last : Times]

Orders == [txn : 1..MaxOrders, user : Users, category : Categories, time : Times,
           device : Devices, address : Addresses, payment : Payments]
Returns == [order : Orders, time : Times]
Edges == [first : Times, last : Times]

VARIABLES orders,   \* orders.parquet
          returns,  \* returns.parquet
          edges     \* GraphBuilder._edges, then relationships.parquet

vars == <<orders, returns, edges>>

TypeOK ==
    /\ orders \subseteq Orders
    /\ returns \subseteq Returns
    /\ edges \in [Users \X Entities -> Edges \cup {NoEdge}]

Init ==
    /\ orders = {}
    /\ returns = {}
    /\ edges = [k \in Users \X Entities |-> NoEdge]

Uses(o) == {o.device, o.address, o.payment}

------------------------------------------------------------------------------
(* The simulation.                                                         *)

\* Mutant: an edge starts with the first order that is recorded, not the earliest.
Extended(edge, t) ==
    IF edge = NoEdge THEN [first |-> t, last |-> t]
    ELSE [first |-> edge.first, last |-> IF t > edge.last THEN t ELSE edge.last]

\* GraphBuilder.record_interaction on one edge; orders come in any order of time.
Seen(edge, t) ==
    IF edge = NoEdge THEN [first |-> t, last |-> t]
    ELSE [first |-> IF t < edge.first THEN t ELSE edge.first,
          last  |-> IF t > edge.last THEN t ELSE edge.last]

\* An order of some customer at a random time, with its three interactions.
PlaceOrder(o) ==
    /\ o.txn = Cardinality(orders) + 1
    /\ Uses(o) \subseteq Owns[o.user]
    /\ orders' = orders \cup {o}
    /\ edges' = [k \in Users \X Entities |->
                   IF k[1] = o.user /\ k[2] \in Uses(o) THEN Seen(edges[k], o.time)
                   ELSE edges[k]]
    /\ UNCHANGED returns

\* Mutants: an order may be returned again; a return is stamped when it arrives.
ReturnsAgain(o, t) ==
    /\ t > o.time
    /\ returns' = returns \cup {[order |-> o, time |-> t]}
    /\ UNCHANGED <<orders, edges>>
Arrives(o, t) ==
    /\ t > o.time
    /\ \A r \in returns : r.order # o
    /\ returns' = returns \cup {[order |-> o, time |-> t + Week]}
    /\ UNCHANGED <<orders, edges>>

\* Each order is returned at most once, after its delivery.
RequestReturn(o, t) ==
    /\ t > o.time
    /\ \A r \in returns : r.order # o
    /\ returns' = returns \cup {[order |-> o, time |-> t]}
    /\ UNCHANGED <<orders, edges>>

Next ==
    \/ \E o \in Orders : PlaceOrder(o)
    \/ \E o \in orders, t \in Times : RequestReturn(o, t)

Spec == Init /\ [][Next]_vars

------------------------------------------------------------------------------
(* OfflineFeatureBuilder.compute_features_for_return.  The operators take  *)
(* the files they read as arguments: os the orders, rs the returns, and    *)
(* links the user-entity edges with first_seen <= t.                       *)

PriorOrders(os, u, t) == {o \in os : o.user = u /\ o.time <= t}
OrdersBefore(os, txn) == {o \in os : o.user = txn.user /\ o.time < txn.time}

\* Mutant: the request itself is counted.
ReturnsUntil(rs, u, t) == {r \in rs : r.order.user = u /\ r.time <= t}

\* Strictly before t: the request itself is never a prior return.
PriorReturns(rs, u, t) == {r \in rs : r.order.user = u /\ r.time < t}

Since(events, t, window) == {x \in events : x.time >= t - window}

\* Mutant: every user of the entity, as the online builder counts them.
UsersEver(os, e, t) == {o.user : o \in {x \in os : e \in Uses(x)}}

\* The aggregates of one device, address or payment method e.
UsersOf(os, e, t) == {o.user : o \in {x \in os : e \in Uses(x) /\ x.time <= t}}
OrdersOn(os, e, t) == {o \in os : e \in Uses(o) /\ o.time <= t}
ReturnsOn(rs, e, t) == {r \in rs : e \in Uses(r.order) /\ r.time < t}

\* The edges that are active at t.
ActiveEdges(t) == {k \in Users \X Entities : edges[k] # NoEdge /\ edges[k].first <= t}

SharedVia(links, kinds, u) ==
    {v \in Users \ {u} : \E e \in kinds : <<u, e>> \in links /\ <<v, e>> \in links}

OneHop(links, u) == SharedVia(links, Entities, u)

TwoHop(links, u) ==
    {n \in Users \ {u} : /\ n \notin OneHop(links, u)
                         /\ \E m \in OneHop(links, u) : n \in OneHop(links, m)}

HighReturn(rs, links, u, t) ==
    {n \in OneHop(links, u) : Cardinality(PriorReturns(rs, n, t)) >= 2}

\* The features that are cut at the request.
PastRow(os, rs, links, r) ==
    LET t == r.time
        o == r.order
        u == o.user
        prior == PriorOrders(os, u, t)
        returned == PriorReturns(rs, u, t)
    IN [orders_24h   |-> Since(prior, t, Day),
        orders_7d    |-> Since(prior, t, Week),
        orders_30d   |-> Since(prior, t, Month),
        total_orders |-> prior,
        history      |-> OrdersBefore(os, o),
        returns_24h  |-> Since(returned, t, Day),
        returns_7d   |-> Since(returned, t, Week),
        returns_30d  |-> Since(returned, t, Month),
        total_returns |-> returned,
        category_orders  |-> {x \in prior : x.category = o.category},
        category_returns |-> {x \in returned : x.order.category = o.category},
        device_users    |-> UsersOf(os, o.device, t),
        device_orders   |-> Since(OrdersOn(os, o.device, t), t, Month),
        device_returns  |-> Since(ReturnsOn(rs, o.device, t), t, Month),
        address_users   |-> UsersOf(os, o.address, t),
        address_returns |-> Since(ReturnsOn(rs, o.address, t), t, Month),
        payment_users   |-> UsersOf(os, o.payment, t),
        payment_returns |-> Since(ReturnsOn(rs, o.payment, t), t, Month),
        linked_1hop    |-> OneHop(links, u),
        linked_2hop    |-> TwoHop(links, u),
        shared_device  |-> SharedVia(links, Devices, u),
        shared_address |-> SharedVia(links, Addresses, u),
        shared_payment |-> SharedVia(links, Payments, u),
        high_return    |-> HighReturn(rs, links, u, t)]

\* The category baseline and its support, counted once over both files.
Baseline(os, rs, r) ==
    [orders  |-> {o \in os : o.category = r.order.category},
     returns |-> {x \in rs : x.order.category = r.order.category}]

Wearable == {"fashion", "electronics"}
LastTime(os) == CHOOSE t \in {o.time : o \in os} : \A o \in os : o.time <= t

\* The features that set the return against the customer's past: the gap before its
\* order, the returns whose days are averaged, the return whose days are current and
\* make the wardrobing score, and the orders whose prices its price is compared with.
Deviation(past, r) ==
    [since_last_order |-> IF past.history = {} THEN 0
                          ELSE r.order.time - LastTime(past.history),
     averaged   |-> IF past.total_returns = {} THEN {r} ELSE past.total_returns,
     current    |-> {r},
     wardrobing |-> IF r.order.category \in Wearable THEN {r} ELSE {},
     compared   |-> past.history]

\* The row of return r.
Row(os, rs, links, r) ==
    LET past == PastRow(os, rs, links, r)
    IN [past |-> past, baseline |-> Baseline(os, rs, r), deviation |-> Deviation(past, r)]

\* user_category_return_rate_diff: the customer's rate against the baseline, or 0.
CategoryDiff(row) ==
    IF Cardinality(row.past.category_orders) >= 2
    THEN <<row.past.category_orders, row.past.category_returns, row.baseline>>
    ELSE <<>>

\* What the builder computes for r from the three files.
Features(r) == Row(orders, returns, ActiveEdges(r.time), r)
Past(r) == Features(r).past

------------------------------------------------------------------------------
(* Properties.                                                             *)

OrdersUpTo(t) == {o \in orders : o.time <= t}
ReturnsUpTo(t) == {r \in returns : r.time <= t}
LinksOf(os) == UNION {{<<o.user, e>> : e \in Uses(o)} : o \in os}

\* "The builder must use only events that occurred before the decision timestamp"
\* (PHASE_2_FEATURE_ENGINEERING_OFFLINE.md): apart from the category baseline, a row
\* computed from the complete files is the row that a shop stopped at the request
\* time would have given, the graph included, although the relationships file only
\* keeps a span per edge.
PointInTime ==
    \A r \in returns :
        LET known == OrdersUpTo(r.time)
            then == Row(known, ReturnsUpTo(r.time), LinksOf(known), r)
            row == Features(r)
        IN row = [then EXCEPT !.baseline = row.baseline]

\* "Current return must NEVER be counted as prior return!" (offline_builder.py): the
\* return is nowhere in the row but in the category baseline, which counts it always:
\* without it in the file, the baseline has this return less and the rest is the same.
CountsItselfOnce ==
    \A r \in returns :
        LET row == Features(r)
        IN /\ r \in row.baseline.returns
           /\ Row(orders, returns \ {r}, ActiveEdges(r.time), r)
                = [row EXCEPT !.baseline.returns = @ \ {r}]

\* The graph features, from the relationships file, and the entity aggregates,
\* from the orders file, tell one story: whoever shares the device, address or
\* payment method of the order is a neighbour, and every neighbour shares some
\* entity with an earlier order of the user.
GraphMatchesOrders ==
    \A r \in returns :
        LET o == r.order
            row == Past(r)
            shares(n) == \E x \in row.total_orders : \E e \in Uses(x) :
                            n \in UsersOf(orders, e, r.time)
        IN /\ row.device_users \ {o.user} \subseteq row.shared_device
           /\ row.address_users \ {o.user} \subseteq row.shared_address
           /\ row.payment_users \ {o.user} \subseteq row.shared_payment
           /\ \A n \in row.linked_1hop : shares(n)

\* A user never has as many prior returns as orders: return_rate_all_time is
\* below one before it is capped, since the order in question is an order and its
\* return is not yet a prior return.
ReturnsTrailOrders ==
    \A r \in returns :
        LET row == Past(r) IN Cardinality(row.total_returns) < Cardinality(row.total_orders)

(* The next one states what the repository says of the program; a run       *)
(* refutes it.                                                              *)

\* The features are "strictly as of return request_time" (offline_builder.py), and
\* so is category_return_rate_baseline.
BaselineIsPointInTime ==
    \A r \in returns :
        Features(r).baseline = Baseline(OrdersUpTo(r.time), ReturnsUpTo(r.time), r)
=============================================================================
