---------------------------- MODULE FeatureProofs ---------------------------
(***************************************************************************)
(* For every set of customers, entities and times, and any number of       *)
(* orders.  FeatureHistory: the files are well typed, a training row is    *)
(* the row a shop stopped at the request time would have given, but for    *)
(* the category baseline, which alone counts the row's own return, its     *)
(* graph features match its entity aggregates, and it has fewer returns    *)
(* than orders.  OnlineFeatures: which features of a training row a        *)
(* scoring reads, and which it replaces.  FeatureDataset: the rows of the  *)
(* builder pass the builder's validation, and a row that the model is      *)
(* tested with has counted the returns that it was trained with in the     *)
(* category baseline only.                                                 *)
(***************************************************************************)
EXTENDS FeatureDataset, FiniteSetTheorems, TLAPS

Keys == Users \X Entities

\* The relationships file is the orders file condensed: an edge starts at the
\* time of some order that uses it, and at no later time than any of them.
EdgesAreOrders ==
    /\ \A k \in Keys : edges[k] # NoEdge =>
          \E o \in orders : o.user = k[1] /\ k[2] \in Uses(o) /\ o.time = edges[k].first
    /\ \A o \in orders : \A e \in Uses(o) :
          edges[<<o.user, e>>] # NoEdge /\ edges[<<o.user, e>>].first <= o.time

\* A return is a return of an order of the file, later than it, and the only one.
ReturnsFollow ==
    /\ \A r \in returns : r.order \in orders /\ r.order.time < r.time
    /\ \A r, q \in returns : r.order = q.order => r = q

IInv == TypeOK /\ EdgesAreOrders /\ ReturnsFollow /\ IsFiniteSet(orders)

\* An order uses entities of its customer.
LEMMA UsesEntities ==
    ASSUME NEW o \in Orders
    PROVE  /\ Uses(o) \subseteq Entities
           /\ o.user \in Users /\ o.time \in Times
           /\ \A e \in Uses(o) : <<o.user, e>> \in Keys
  BY DEF Uses, Entities, Orders, Keys

\* GraphBuilder.record_interaction keeps the earliest time.
LEMMA SeenSpan ==
    ASSUME NEW edge \in Edges \cup {NoEdge}, NEW t \in Times
    PROVE  /\ Seen(edge, t) \in Edges
           /\ Seen(edge, t) # NoEdge
           /\ Seen(edge, t).first <= t
           /\ edge # NoEdge => Seen(edge, t).first <= edge.first
           /\ Seen(edge, t).first = t \/ (edge # NoEdge /\ Seen(edge, t).first = edge.first)
  <1>1. Times \subseteq Int
    BY HistoryAssumption DEF Times
  <1>2. NoEdge \notin Edges
    BY HistoryAssumption DEF Edges
  <1>3. CASE edge = NoEdge
    <2>1. Seen(edge, t) = [first |-> t, last |-> t]
      BY <1>3 DEF Seen
    <2>2. Seen(edge, t) \in Edges
      BY <2>1 DEF Edges
    <2> QED BY <1>1, <1>2, <1>3, <2>1, <2>2
  <1>4. CASE edge # NoEdge
    <2>1. edge \in Edges /\ edge.first \in Times /\ edge.last \in Times
      BY <1>4 DEF Edges
    <2>2. Seen(edge, t) = [first |-> IF t < edge.first THEN t ELSE edge.first,
                           last  |-> IF t > edge.last THEN t ELSE edge.last]
      BY <1>4 DEF Seen
    <2>3. Seen(edge, t) \in Edges
      BY <2>1, <2>2 DEF Edges
    <2>4. Seen(edge, t).first = IF t < edge.first THEN t ELSE edge.first
      BY <2>2
    <2>5. edge.first \in Int /\ t \in Int
      BY <1>1, <2>1
    <2>6. /\ Seen(edge, t).first <= t
          /\ Seen(edge, t).first <= edge.first
          /\ Seen(edge, t).first = t \/ Seen(edge, t).first = edge.first
      BY <2>4, <2>5
    <2>7. Seen(edge, t) # NoEdge
      BY <1>2, <2>3
    <2> QED BY <1>4, <2>3, <2>6, <2>7
  <1> QED BY <1>3, <1>4

\* Nothing is recorded at first.
LEMMA InitInv == Init => IInv
  BY FS_EmptySet DEF Init, IInv, TypeOK, EdgesAreOrders, ReturnsFollow, Keys

\* An order adds itself and widens the spans of the edges it uses.
LEMMA OrderKeepsInv ==
    ASSUME IInv, NEW o \in Orders, PlaceOrder(o)
    PROVE  IInv'
  <1>1. orders' = orders \cup {o} /\ returns' = returns
    BY DEF PlaceOrder
  <1>2. edges' = [k \in Keys |-> IF k[1] = o.user /\ k[2] \in Uses(o)
                                 THEN Seen(edges[k], o.time) ELSE edges[k]]
    BY DEF PlaceOrder, Keys
  <1>3. \A k \in Keys : edges[k] \in Edges \cup {NoEdge}
    BY DEF IInv, TypeOK, Keys
  <1>4. o.time \in Times
    BY UsesEntities
  <1>5. TypeOK'
    <2>1. orders' \subseteq Orders /\ returns' \subseteq Returns
      BY <1>1 DEF IInv, TypeOK
    <2>2. \A k \in Keys : edges'[k] \in Edges \cup {NoEdge}
      BY <1>2, <1>3, <1>4, SeenSpan
    <2>3. edges' \in [Users \X Entities -> Edges \cup {NoEdge}]
      BY <1>2, <2>2 DEF Keys
    <2> QED BY <2>1, <2>3 DEF TypeOK
  <1>6. EdgesAreOrders'
    <2>1. ASSUME NEW k \in Keys, edges'[k] # NoEdge
          PROVE  \E x \in orders' : x.user = k[1] /\ k[2] \in Uses(x) /\ x.time = edges'[k].first
      <3>1. CASE k[1] = o.user /\ k[2] \in Uses(o) /\ edges'[k].first = o.time
        BY <1>1, <3>1
      <3>2. CASE edges[k] # NoEdge /\ edges'[k].first = edges[k].first
        BY <1>1, <3>2 DEF IInv, EdgesAreOrders
      <3>3. CASE ~(k[1] = o.user /\ k[2] \in Uses(o))
        BY <1>2, <2>1, <3>2, <3>3
      <3>4. CASE k[1] = o.user /\ k[2] \in Uses(o)
        <4>1. edges'[k] = Seen(edges[k], o.time)
          BY <1>2, <3>4
        <4>2. \/ edges'[k].first = o.time
              \/ edges[k] # NoEdge /\ edges'[k].first = edges[k].first
          BY <1>3, <1>4, <4>1, SeenSpan
        <4> QED BY <3>1, <3>2, <3>4, <4>2
      <3> QED BY <3>3, <3>4
    <2>2. ASSUME NEW x \in orders', NEW e \in Uses(x)
          PROVE  edges'[<<x.user, e>>] # NoEdge /\ edges'[<<x.user, e>>].first <= x.time
      <3> DEFINE k == <<x.user, e>>
      <3>1. x \in Orders
        BY <1>1 DEF IInv, TypeOK
      <3>2. k \in Keys /\ x.time \in Times /\ k[1] = x.user /\ k[2] = e
        BY <3>1, UsesEntities
      <3>3. Times \subseteq Int /\ \A edge \in Edges : edge.first \in Times
        BY HistoryAssumption DEF Times, Edges
      <3>4. CASE k[1] = o.user /\ k[2] \in Uses(o)
        <4>1. edges'[k] = Seen(edges[k], o.time)
          BY <1>2, <3>2, <3>4
        <4>2. edges'[k] \in Edges /\ edges'[k] # NoEdge /\ edges'[k].first <= o.time
          BY <1>3, <1>4, <3>2, <4>1, SeenSpan
        <4>3. CASE x = o
          BY <4>2, <4>3
        <4>4. CASE x \in orders
          <5>1. edges[k] # NoEdge /\ edges[k].first <= x.time
            BY <4>4 DEF IInv, EdgesAreOrders
          <5>2. edges[k] \in Edges /\ edges'[k].first <= edges[k].first
            BY <1>3, <1>4, <3>2, <4>1, <5>1, SeenSpan
          <5>3. edges[k].first \in Int /\ edges'[k].first \in Int /\ x.time \in Int
            BY <3>2, <3>3, <4>2, <5>2
          <5> QED BY <4>2, <5>1, <5>2, <5>3
        <4> QED BY <1>1, <4>3, <4>4
      <3>5. CASE ~(k[1] = o.user /\ k[2] \in Uses(o))
        <4>1. x \in orders /\ edges'[k] = edges[k]
          BY <1>1, <1>2, <3>2, <3>5
        <4> QED BY <4>1 DEF IInv, EdgesAreOrders
      <3> QED BY <3>4, <3>5
    <2> QED BY <2>1, <2>2 DEF EdgesAreOrders
  <1>7. ReturnsFollow'
    BY <1>1 DEF IInv, ReturnsFollow
  <1>8. IsFiniteSet(orders')
    BY <1>1, FS_AddElement DEF IInv
  <1> QED BY <1>5, <1>6, <1>7, <1>8 DEF IInv

\* A return is of a recorded order that had none.
LEMMA ReturnKeepsInv ==
    ASSUME IInv, NEW o \in orders, NEW t \in Times, RequestReturn(o, t)
    PROVE  IInv'
  <1>1. /\ returns' = returns \cup {[order |-> o, time |-> t]}
        /\ orders' = orders /\ edges' = edges /\ t > o.time
        /\ \A r \in returns : r.order # o
    BY DEF RequestReturn
  <1>2. o \in Orders /\ [order |-> o, time |-> t] \in Returns
    BY DEF IInv, TypeOK, Returns
  <1>3. TypeOK'
    BY <1>1, <1>2 DEF IInv, TypeOK
  <1>4. EdgesAreOrders'
    BY <1>1 DEF IInv, EdgesAreOrders
  <1>5. o.time < t
    BY <1>1, <1>2, HistoryAssumption DEF Orders, Times
  <1>6. ReturnsFollow'
    BY <1>1, <1>5 DEF IInv, ReturnsFollow
  <1> QED BY <1>1, <1>3, <1>4, <1>6 DEF IInv

\* So the invariant holds.
LEMMA Inductive == Spec => []IInv
  <1>1. IInv /\ [Next]_vars => IInv'
    <2> SUFFICES ASSUME IInv, [Next]_vars PROVE IInv'
      OBVIOUS
    <2>1. CASE \E o \in Orders : PlaceOrder(o)
      BY <2>1, OrderKeepsInv
    <2>2. CASE \E o \in orders, t \in Times : RequestReturn(o, t)
      BY <2>2, ReturnKeepsInv
    <2>3. CASE UNCHANGED vars
      BY <2>3 DEF vars, IInv, TypeOK, EdgesAreOrders, ReturnsFollow
    <2> QED BY <2>1, <2>2, <2>3 DEF Next
  <1> QED BY <1>1, InitInv, PTL DEF Spec

\* The files are well typed.
THEOREM Typing == Spec => []TypeOK
  <1>1. IInv => TypeOK
    BY DEF IInv
  <1> QED BY <1>1, Inductive, PTL

\* The edges that are active at t are those of the orders placed by t.
LEMMA ActiveEdgesAreKnown ==
    ASSUME IInv, NEW t \in Times
    PROVE  ActiveEdges(t) = LinksOf(OrdersUpTo(t))
  <1>1. Times \subseteq Int /\ \A edge \in Edges : edge.first \in Times
    BY HistoryAssumption DEF Times, Edges
  <1>2. \A o \in orders : o \in Orders /\ o.time \in Times
    BY UsesEntities DEF IInv, TypeOK
  <1>3. ASSUME NEW k \in ActiveEdges(t)
        PROVE  k \in LinksOf(OrdersUpTo(t))
    <2>1. k \in Keys /\ edges[k] # NoEdge /\ edges[k].first <= t
      BY DEF ActiveEdges, Keys
    <2>2. PICK o \in orders : o.user = k[1] /\ k[2] \in Uses(o) /\ o.time = edges[k].first
      BY <2>1 DEF IInv, EdgesAreOrders
    <2>3. o \in OrdersUpTo(t)
      BY <2>1, <2>2 DEF OrdersUpTo
    <2>4. k = <<o.user, k[2]>>
      BY <2>1, <2>2 DEF Keys
    <2> QED BY <2>2, <2>3, <2>4 DEF LinksOf
  <1>4. ASSUME NEW k \in LinksOf(OrdersUpTo(t))
        PROVE  k \in ActiveEdges(t)
    <2>0. PICK o \in OrdersUpTo(t) : \E e \in Uses(o) : k = <<o.user, e>>
      BY DEF LinksOf
    <2>1. PICK e \in Uses(o) : k = <<o.user, e>>
      BY <2>0
    <2>2. o \in orders /\ o.time <= t
      BY DEF OrdersUpTo
    <2>3. k \in Keys
      BY <1>2, <2>1, <2>2, UsesEntities
    <2>4. edges[k] # NoEdge /\ edges[k].first <= o.time
      BY <2>1, <2>2 DEF IInv, EdgesAreOrders
    <2>5. edges[k] \in Edges
      BY <2>3, <2>4 DEF IInv, TypeOK, Keys
    <2>6. edges[k].first \in Int /\ o.time \in Int /\ t \in Int
      BY <1>1, <1>2, <2>2, <2>5
    <2>7. edges[k].first <= t
      BY <2>2, <2>4, <2>6
    <2> QED BY <2>3, <2>4, <2>7 DEF ActiveEdges, Keys
  <1> QED BY <1>3, <1>4

\* Two pairs of files that hold the same orders and returns up to a return's time
\* give the same row, for the same edges.
LEMMA SamePastSameRow ==
    ASSUME NEW os, NEW ps, NEW rs, NEW qs, NEW links, NEW r,
           \A u : PriorOrders(os, u, r.time) = PriorOrders(ps, u, r.time),
           OrdersBefore(os, r.order) = OrdersBefore(ps, r.order),
           \A u : PriorReturns(rs, u, r.time) = PriorReturns(qs, u, r.time),
           \A e : UsersOf(os, e, r.time) = UsersOf(ps, e, r.time),
           \A e : OrdersOn(os, e, r.time) = OrdersOn(ps, e, r.time),
           \A e : ReturnsOn(rs, e, r.time) = ReturnsOn(qs, e, r.time)
    PROVE  PastRow(os, rs, links, r) = PastRow(ps, qs, links, r)
  <1>1. HighReturn(rs, links, r.order.user, r.time) = HighReturn(qs, links, r.order.user, r.time)
    BY DEF HighReturn
  <1> QED BY <1>1 DEF PastRow

\* The rest of a row is what its past makes it, and the baseline.
LEMMA SameButBaseline ==
    ASSUME NEW os, NEW ps, NEW rs, NEW qs, NEW links, NEW r,
           PastRow(os, rs, links, r) = PastRow(ps, qs, links, r)
    PROVE  Row(os, rs, links, r) = [Row(ps, qs, links, r) EXCEPT !.baseline = Baseline(os, rs, r)]
  <1>3. PICK past : past = PastRow(ps, qs, links, r)
    OBVIOUS
  <1>4. /\ Row(os, rs, links, r) = [past |-> past, baseline |-> Baseline(os, rs, r),
                                   deviation |-> Deviation(past, r)]
        /\ Row(ps, qs, links, r) = [past |-> past, baseline |-> Baseline(ps, qs, r),
                                   deviation |-> Deviation(past, r)]
    BY <1>3 DEF Row
  <1> QED BY <1>4

\* The part of the row that is cut at the request.
LEMMA RowParts ==
    ASSUME NEW r
    PROVE  /\ Past(r) = PastRow(orders, returns, ActiveEdges(r.time), r)
           /\ Features(r) = [past |-> Past(r), baseline |-> Baseline(orders, returns, r),
                             deviation |-> Deviation(Past(r), r)]
           /\ Features(r).past = Past(r)
           /\ Features(r).baseline = Baseline(orders, returns, r)
           /\ Features(r).deviation = Deviation(Past(r), r)
  <1>1. PICK past : past = PastRow(orders, returns, ActiveEdges(r.time), r)
    OBVIOUS
  <1>2. Features(r) = [past |-> past, baseline |-> Baseline(orders, returns, r),
                       deviation |-> Deviation(past, r)]
    BY <1>1 DEF Features, Row
  <1>3. Past(r) = past
    BY <1>2 DEF Past
  <1> QED BY <1>1, <1>2, <1>3

\* What a row counts is the same in the files as they were at its request.
LEMMA KnownIsEnough ==
    ASSUME IInv, NEW r \in returns
    PROVE  /\ \A u : PriorOrders(orders, u, r.time) = PriorOrders(OrdersUpTo(r.time), u, r.time)
           /\ OrdersBefore(orders, r.order) = OrdersBefore(OrdersUpTo(r.time), r.order)
           /\ \A u : PriorReturns(returns, u, r.time)
                       = PriorReturns(ReturnsUpTo(r.time), u, r.time)
           /\ \A e : UsersOf(orders, e, r.time) = UsersOf(OrdersUpTo(r.time), e, r.time)
           /\ \A e : OrdersOn(orders, e, r.time) = OrdersOn(OrdersUpTo(r.time), e, r.time)
           /\ \A e : ReturnsOn(returns, e, r.time) = ReturnsOn(ReturnsUpTo(r.time), e, r.time)
  <1>1. Times \subseteq Int
    BY HistoryAssumption DEF Times
  <1>2. r.time \in Int /\ r.order.time \in Int /\ r.order.time < r.time
    BY <1>1 DEF IInv, TypeOK, Returns, Orders, ReturnsFollow
  <1>3. \A o \in orders : o.time \in Int
    BY <1>1 DEF IInv, TypeOK, Orders
  <1>4. \A q \in returns : q.time \in Int
    BY <1>1 DEF IInv, TypeOK, Returns
  <1>5. \A u : PriorOrders(orders, u, r.time) = PriorOrders(OrdersUpTo(r.time), u, r.time)
    BY DEF PriorOrders, OrdersUpTo
  <1>6. OrdersBefore(orders, r.order) = OrdersBefore(OrdersUpTo(r.time), r.order)
    BY <1>2, <1>3 DEF OrdersBefore, OrdersUpTo
  <1>7. \A u : PriorReturns(returns, u, r.time) = PriorReturns(ReturnsUpTo(r.time), u, r.time)
    BY <1>2, <1>4 DEF PriorReturns, ReturnsUpTo
  <1>8. \A e : {x \in orders : e \in Uses(x) /\ x.time <= r.time}
                 = {x \in OrdersUpTo(r.time) : e \in Uses(x) /\ x.time <= r.time}
    BY DEF OrdersUpTo
  <1>9. \A e : UsersOf(orders, e, r.time) = UsersOf(OrdersUpTo(r.time), e, r.time)
    BY <1>8 DEF UsersOf
  <1>10. \A e : OrdersOn(orders, e, r.time) = OrdersOn(OrdersUpTo(r.time), e, r.time)
    BY <1>8 DEF OrdersOn
  <1>11. \A e : ReturnsOn(returns, e, r.time) = ReturnsOn(ReturnsUpTo(r.time), e, r.time)
    BY <1>2, <1>4 DEF ReturnsOn, ReturnsUpTo
  <1> QED BY <1>5, <1>6, <1>7, <1>9, <1>10, <1>11

LEMMA PastIsPastRow ==
    ASSUME NEW r
    PROVE  Past(r) = PastRow(orders, returns, ActiveEdges(r.time), r)
  BY RowParts

\* No training row looks ahead, the graph features included, but for the baseline.
THEOREM PointInTimeHolds == Spec => []PointInTime
  <1>1. IInv => PointInTime
    <2> SUFFICES ASSUME IInv, NEW r \in returns, NEW then,
                        then = Row(OrdersUpTo(r.time), ReturnsUpTo(r.time),
                                   LinksOf(OrdersUpTo(r.time)), r)
                 PROVE  Features(r) = [then EXCEPT !.baseline = Features(r).baseline]
      BY DEF PointInTime
    <2>1. r.time \in Times
      BY DEF IInv, TypeOK, Returns
    <2>2. PICK links : links = ActiveEdges(r.time) /\ links = LinksOf(OrdersUpTo(r.time))
      BY <2>1, ActiveEdgesAreKnown
    <2>3. Row(orders, returns, links, r)
            = [Row(OrdersUpTo(r.time), ReturnsUpTo(r.time), links, r)
                 EXCEPT !.baseline = Baseline(orders, returns, r)]
      <3>1. PICK os, rs : os = OrdersUpTo(r.time) /\ rs = ReturnsUpTo(r.time)
        OBVIOUS
      <3>2. /\ \A u : PriorOrders(orders, u, r.time) = PriorOrders(os, u, r.time)
            /\ OrdersBefore(orders, r.order) = OrdersBefore(os, r.order)
            /\ \A u : PriorReturns(returns, u, r.time) = PriorReturns(rs, u, r.time)
            /\ \A e : UsersOf(orders, e, r.time) = UsersOf(os, e, r.time)
            /\ \A e : OrdersOn(orders, e, r.time) = OrdersOn(os, e, r.time)
            /\ \A e : ReturnsOn(returns, e, r.time) = ReturnsOn(rs, e, r.time)
        BY <3>1, KnownIsEnough
      <3>3. Row(orders, returns, links, r)
              = [Row(os, rs, links, r) EXCEPT !.baseline = Baseline(orders, returns, r)]
        <4>1. PastRow(orders, returns, links, r) = PastRow(os, rs, links, r)
          BY <3>2, SamePastSameRow
        <4> QED BY <4>1, SameButBaseline
      <3> QED BY <3>1, <3>3
    <2>4. Features(r) = [then EXCEPT !.baseline = Baseline(orders, returns, r)]
      BY <2>2, <2>3 DEF Features
    <2> QED BY <2>4, RowParts
  <1> QED BY <1>1, Inductive, PTL

\* A training row counts its own return in the category baseline and nowhere else.
THEOREM CountsItselfOnceHolds == Spec => []CountsItselfOnce
  <1>1. IInv => CountsItselfOnce
    <2> SUFFICES ASSUME IInv, NEW r \in returns
                 PROVE  /\ r \in Features(r).baseline.returns
                        /\ Row(orders, returns \ {r}, ActiveEdges(r.time), r)
                             = [Features(r) EXCEPT !.baseline.returns = @ \ {r}]
      BY DEF CountsItselfOnce
    <2>1. r.time \in Int
      BY HistoryAssumption DEF IInv, TypeOK, Returns, Times
    <2>2. \A u : PriorReturns(returns \ {r}, u, r.time) = PriorReturns(returns, u, r.time)
      BY <2>1 DEF PriorReturns
    <2>3. \A e : ReturnsOn(returns \ {r}, e, r.time) = ReturnsOn(returns, e, r.time)
      BY <2>1 DEF ReturnsOn
    <2>4. PICK links : links = ActiveEdges(r.time)
      OBVIOUS
    <2>5. PICK row, base, less : /\ row = Features(r) /\ base = Baseline(orders, returns, r)
                                 /\ less = Baseline(orders, returns \ {r}, r)
      OBVIOUS
    <2>6. Row(orders, returns \ {r}, links, r) = [row EXCEPT !.baseline = less]
      <3>1. PastRow(orders, returns \ {r}, links, r) = PastRow(orders, returns, links, r)
        BY <2>2, <2>3, SamePastSameRow
      <3>2. Row(orders, returns \ {r}, links, r)
              = [Row(orders, returns, links, r) EXCEPT !.baseline = Baseline(orders, returns \ {r}, r)]
        BY <3>1, SameButBaseline
      <3> QED BY <2>4, <2>5, <3>2 DEF Features
    <2>7. /\ r \in base.returns
          /\ less = [base EXCEPT !.returns = @ \ {r}]
      <3>1. base = [orders  |-> {o \in orders : o.category = r.order.category},
                    returns |-> {x \in returns : x.order.category = r.order.category}]
        BY <2>5 DEF Baseline
      <3>2. less = [orders  |-> {o \in orders : o.category = r.order.category},
                    returns |-> {x \in returns : x.order.category = r.order.category} \ {r}]
        <4>1. {x \in returns \ {r} : x.order.category = r.order.category}
                = {x \in returns : x.order.category = r.order.category} \ {r}
          OBVIOUS
        <4> QED BY <2>5, <4>1 DEF Baseline
      <3>3. r \in base.returns
        BY <3>1
      <3>4. less = [base EXCEPT !.returns = @ \ {r}]
        <4>1. PICK os, rs : /\ os = {o \in orders : o.category = r.order.category}
                            /\ rs = {x \in returns : x.order.category = r.order.category}
          OBVIOUS
        <4>2. base = [orders |-> os, returns |-> rs] /\ less = [orders |-> os, returns |-> rs \ {r}]
          BY <3>1, <3>2, <4>1
        <4> QED BY <4>2
      <3> QED BY <3>3, <3>4
    <2>8. row.baseline = base
      BY <2>5, RowParts
    <2>9. [row EXCEPT !.baseline.returns = @ \ {r}] = [row EXCEPT !.baseline = less]
      BY <2>7, <2>8
    <2> QED BY <2>4, <2>5, <2>6, <2>7, <2>8, <2>9
  <1> QED BY <1>1, Inductive, PTL

\* The graph features, from the relationships file, match the entity aggregates,
\* from the orders file.
THEOREM GraphMatchesOrdersHolds == Spec => []GraphMatchesOrders
  <1>1. ASSUME IInv, NEW r \in returns
        PROVE  LET o == r.order
                   row == Past(r)
                   shares(n) == \E x \in row.total_orders : \E e \in Uses(x) :
                                   n \in UsersOf(orders, e, r.time)
               IN /\ row.device_users \ {o.user} \subseteq row.shared_device
                  /\ row.address_users \ {o.user} \subseteq row.shared_address
                  /\ row.payment_users \ {o.user} \subseteq row.shared_payment
                  /\ \A n \in row.linked_1hop : shares(n)
    <2> DEFINE o == r.order
               t == r.time
               links == ActiveEdges(t)
    <2>1. o \in orders /\ o \in Orders /\ t \in Times /\ o.time < t
      BY <1>1 DEF IInv, TypeOK, ReturnsFollow, Returns
    <2>2. o.time <= t
      BY <2>1, HistoryAssumption DEF Orders, Times
    <2>3. links = LinksOf(OrdersUpTo(t))
      BY <1>1, <2>1, ActiveEdgesAreKnown
    <2>4. ASSUME NEW kinds \in SUBSET Entities, NEW e \in kinds, e \in Uses(o)
          PROVE  UsersOf(orders, e, t) \ {o.user} \subseteq SharedVia(links, kinds, o.user)
      <3>1. <<o.user, e>> \in links
        BY <2>1, <2>2, <2>3, <2>4 DEF LinksOf, OrdersUpTo
      <3>2. ASSUME NEW n \in UsersOf(orders, e, t)
            PROVE  n \in Users /\ <<n, e>> \in links
        <4>1. PICK x \in orders : e \in Uses(x) /\ x.time <= t /\ x.user = n
          BY DEF UsersOf
        <4>2. n \in Users
          BY <1>1, <4>1 DEF IInv, TypeOK, Orders
        <4> QED BY <2>3, <4>1, <4>2 DEF LinksOf, OrdersUpTo
      <3> QED BY <3>1, <3>2 DEF SharedVia
    <2>5. /\ o.device \in Devices /\ o.address \in Addresses /\ o.payment \in Payments
          /\ o.device \in Uses(o) /\ o.address \in Uses(o) /\ o.payment \in Uses(o)
      BY <2>1 DEF Orders, Uses
    <2>6. /\ UsersOf(orders, o.device, t) \ {o.user} \subseteq SharedVia(links, Devices, o.user)
          /\ UsersOf(orders, o.address, t) \ {o.user} \subseteq SharedVia(links, Addresses, o.user)
          /\ UsersOf(orders, o.payment, t) \ {o.user} \subseteq SharedVia(links, Payments, o.user)
      BY <2>4, <2>5 DEF Entities
    <2>7. ASSUME NEW n \in OneHop(links, o.user)
          PROVE  \E x \in PriorOrders(orders, o.user, t) : \E e \in Uses(x) :
                    n \in UsersOf(orders, e, t)
      <3>1. PICK e \in Entities : <<o.user, e>> \in links /\ <<n, e>> \in links
        BY DEF OneHop, SharedVia
      <3>2. ASSUME NEW v, <<v, e>> \in links
            PROVE  \E x \in orders : x.user = v /\ e \in Uses(x) /\ x.time <= t
        BY <2>3, <3>2 DEF LinksOf, OrdersUpTo
      <3>3. PICK x \in orders : x.user = o.user /\ e \in Uses(x) /\ x.time <= t
        BY <3>1, <3>2
      <3>4. n \in UsersOf(orders, e, t)
        BY <3>1, <3>2 DEF UsersOf
      <3> QED BY <3>3, <3>4 DEF PriorOrders
    <2>8. /\ Past(r).device_users = UsersOf(orders, o.device, t)
          /\ Past(r).address_users = UsersOf(orders, o.address, t)
          /\ Past(r).payment_users = UsersOf(orders, o.payment, t)
          /\ Past(r).shared_device = SharedVia(links, Devices, o.user)
          /\ Past(r).shared_address = SharedVia(links, Addresses, o.user)
          /\ Past(r).shared_payment = SharedVia(links, Payments, o.user)
          /\ Past(r).linked_1hop = OneHop(links, o.user)
          /\ Past(r).total_orders = PriorOrders(orders, o.user, t)
      BY PastIsPastRow DEF PastRow
    <2> QED BY <2>6, <2>7, <2>8
  <1>2. IInv => GraphMatchesOrders
    BY <1>1 DEF GraphMatchesOrders
  <1> QED BY <1>2, Inductive, PTL

\* A row counts fewer returns than orders: each prior return has an order of its
\* own among the prior orders, and none of them is the order of the row.
THEOREM ReturnsTrailOrdersHolds == Spec => []ReturnsTrailOrders
  <1>1. ASSUME IInv, NEW r \in returns
        PROVE  Cardinality(Past(r).total_returns) < Cardinality(Past(r).total_orders)
    <2> DEFINE o == r.order
               t == r.time
               prior == PriorOrders(orders, o.user, t)
               returned == PriorReturns(returns, o.user, t)
               own == [q \in returned |-> q.order]
    <2>1. Times \subseteq Int
      BY HistoryAssumption DEF Times
    <2>2. \A q \in returns : /\ q.order \in orders /\ q.order.time < q.time
                             /\ q.order.time \in Int /\ q.time \in Int
      BY <1>1, <2>1 DEF IInv, TypeOK, ReturnsFollow, Returns, Orders
    <2>3. o \in prior
      BY <2>2 DEF PriorOrders
    <2>4. \A q \in returned : q \in returns /\ q.order \in prior \ {o}
      <3> SUFFICES ASSUME NEW q \in returned
                   PROVE  q \in returns /\ q.order \in prior \ {o}
        OBVIOUS
      <3>1. q \in returns /\ q.order.user = o.user /\ q.time < t
        BY DEF PriorReturns
      <3>2. q # r
        BY <2>2, <3>1
      <3>3. q.order # o
        BY <1>1, <3>1, <3>2 DEF IInv, ReturnsFollow
      <3>4. q.order.time <= t
        BY <2>2, <3>1
      <3> QED BY <2>2, <3>1, <3>3, <3>4 DEF PriorOrders
    <2>5. own \in Injection(returned, prior \ {o})
      <3>1. \A q, z \in returned : q.order = z.order => q = z
        BY <1>1, <2>4 DEF IInv, ReturnsFollow
      <3> HIDE DEF returned, prior
      <3> QED BY <2>4, <3>1 DEF Injection, IsInjective
    <2>6. IsFiniteSet(prior)
      <3>1. prior \in SUBSET orders
        BY DEF PriorOrders
      <3> QED BY <1>1, <3>1, FS_Subset DEF IInv
    <2>7. /\ Past(r).total_returns = returned
          /\ Past(r).total_orders = prior
      BY PastIsPastRow DEF PastRow
    <2> HIDE DEF prior, returned, own
    <2>8. IsFiniteSet(prior \ {o}) /\ Cardinality(prior \ {o}) = Cardinality(prior) - 1
      BY <2>3, <2>6, FS_RemoveElement
    <2>9. IsFiniteSet(returned) /\ Cardinality(returned) <= Cardinality(prior \ {o})
      BY <2>5, <2>8, FS_Injection
    <2>10. Cardinality(prior) \in Nat /\ Cardinality(returned) \in Nat
      BY <2>6, <2>9, FS_CardinalityType
    <2> QED BY <2>7, <2>8, <2>9, <2>10
  <1>2. IInv => ReturnsTrailOrders
    BY <1>1 DEF ReturnsTrailOrders
  <1> QED BY <1>2, Inductive, PTL

------------------------------------------------------------------------------
(* The numbers of the orders, and the size of the files.                   *)

\* The transaction ids number the orders.
Numbered ==
    /\ \A o \in orders : o.txn <= Cardinality(orders)
    /\ \A o, q \in orders : o.txn = q.txn => o = q

DataInv == IInv /\ Numbered

\* Times and transaction ids are integers.
LEMMA Integers ==
    ASSUME IInv
    PROVE  /\ Times \subseteq Int
           /\ \A o \in orders : o \in Orders /\ o.time \in Times /\ o.time \in Int /\ o.txn \in Int
           /\ \A r \in returns : /\ r.order \in orders /\ r.time \in Times /\ r.time \in Int
                                 /\ r.order.time < r.time
  <1>1. Times \subseteq Int
    BY HistoryAssumption DEF Times
  <1>2. \A o \in orders : o \in Orders /\ o.time \in Times /\ o.txn \in Int
    BY DEF IInv, TypeOK, Orders
  <1>3. \A r \in returns : r.time \in Times /\ r.order \in orders /\ r.order.time < r.time
    BY DEF IInv, TypeOK, Returns, ReturnsFollow
  <1> QED BY <1>1, <1>2, <1>3

\* An order that is placed has the next number.
LEMMA OrderKeepsNumbers ==
    ASSUME DataInv, NEW o \in Orders, PlaceOrder(o)
    PROVE  Numbered'
  <1>1. orders' = orders \cup {o} /\ o.txn = Cardinality(orders) + 1
    BY DEF PlaceOrder
  <1>2. PICK n : n = Cardinality(orders)
    OBVIOUS
  <1>3. n \in Nat
    BY <1>2, FS_CardinalityType DEF DataInv, IInv
  <1>4. \A x \in orders : x.txn <= n /\ x.txn \in Int
    BY <1>2, Integers DEF DataInv, Numbered
  <1>5. o \notin orders
    BY <1>1, <1>2, <1>3, <1>4
  <1>6. Cardinality(orders') = n + 1
    BY <1>1, <1>2, <1>5, FS_AddElement DEF DataInv, IInv
  <1>7. \A x \in orders' : x.txn <= n + 1
    BY <1>1, <1>2, <1>3, <1>4
  <1>8. \A x, y \in orders' : x.txn = y.txn => x = y
    BY <1>1, <1>2, <1>3, <1>4 DEF DataInv, Numbered
  <1> QED BY <1>6, <1>7, <1>8 DEF Numbered

\* The numbers of transactions stay distinct and dense.
LEMMA DataInductive == Spec => []DataInv
  <1>1. Init => DataInv
    BY InitInv DEF Init, DataInv, Numbered
  <1>2. DataInv /\ [Next]_vars => DataInv'
    <2> SUFFICES ASSUME DataInv, [Next]_vars PROVE DataInv'
      OBVIOUS
    <2>1. CASE \E o \in Orders : PlaceOrder(o)
      BY <2>1, OrderKeepsInv, OrderKeepsNumbers DEF DataInv
    <2>2. CASE \E o \in orders, t \in Times : RequestReturn(o, t)
      <3>1. IInv'
        BY <2>2, ReturnKeepsInv DEF DataInv
      <3>2. orders' = orders
        BY <2>2 DEF RequestReturn
      <3> QED BY <3>1, <3>2 DEF DataInv, Numbered
    <2>3. CASE UNCHANGED vars
      BY <2>3 DEF vars, DataInv, Numbered, IInv, TypeOK, EdgesAreOrders, ReturnsFollow
    <2> QED BY <2>1, <2>2, <2>3 DEF Next
  <1> QED BY <1>1, <1>2, PTL DEF Spec

\* There are at most as many returns as orders.
LEMMA ReturnsAreFinite ==
    ASSUME IInv
    PROVE  IsFiniteSet(returns)
  <1>1. PICK own : own = [r \in returns |-> r.order]
    OBVIOUS
  <1>2. own \in Injection(returns, orders)
    BY <1>1 DEF Injection, IsInjective, IInv, ReturnsFollow
  <1> QED BY <1>2, FS_Injection DEF IInv

------------------------------------------------------------------------------
(* Training, validation and test.                                          *)

\* The sizes of the slices follow each other.
LEMMA SharesFollow ==
    ASSUME NEW n \in Nat
    PROVE  /\ (TrainShare * n) \div 100 \in 0..(ValidationShare * n) \div 100
           /\ (ValidationShare * n) \div 100 \in 0..n
  <1>1. PICK a, b : a = TrainShare /\ b = ValidationShare
    OBVIOUS
  <1>2. a \in Nat /\ b \in Nat /\ a <= b /\ b <= 100
    BY <1>1, DatasetAssumption
  <1>3. PICK x, y : x = a * n /\ y = b * n
    OBVIOUS
  <1>4. x \in Nat /\ y \in Nat /\ x <= y /\ y <= 100 * n
    BY <1>2, <1>3
  <1>5. x \div 100 \in 0..(y \div 100) /\ y \div 100 \in 0..n
    BY <1>4
  <1> QED BY <1>1, <1>3, <1>5

\* A row counts as past only returns that are older than its request.
LEMMA CountsTheOlder ==
    ASSUME NEW r, NEW x \in CountedAsPast(Past(r), r)
    PROVE  x.time < r.time
  <1>1. /\ Past(r).total_returns = PriorReturns(returns, r.order.user, r.time)
        /\ Past(r).device_returns = Since(ReturnsOn(returns, r.order.device, r.time), r.time, Month)
        /\ Past(r).address_returns = Since(ReturnsOn(returns, r.order.address, r.time), r.time, Month)
        /\ Past(r).payment_returns = Since(ReturnsOn(returns, r.order.payment, r.time), r.time, Month)
    BY PastIsPastRow DEF PastRow
  <1>2. \A u : x \in PriorReturns(returns, u, r.time) => x.time < r.time
    BY DEF PriorReturns
  <1>3. \A e : x \in Since(ReturnsOn(returns, e, r.time), r.time, Month) => x.time < r.time
    BY DEF Since, ReturnsOn
  <1>4. \/ x \in PriorReturns(returns, r.order.user, r.time)
        \/ \E e : x \in Since(ReturnsOn(returns, e, r.time), r.time, Month)
        \/ \E u : x \in PriorReturns(returns, u, r.time)
    BY <1>1 DEF CountedAsPast
  <1> QED BY <1>2, <1>3, <1>4

\* An order of the rows from the newest to the oldest leaves none out.
LEMMA AllAreSorted ==
    ASSUME IInv, NEW n, n = Cardinality(returns), NEW s \in NewestFirst(n)
    PROVE  /\ n \in Nat /\ s \in [1..n -> returns]
           /\ returns = {s[i] : i \in 1..n}
           /\ \A i, j \in 1..n : i < j => s[i].time >= s[j].time
  <1>1. n \in Nat
    BY ReturnsAreFinite, FS_CardinalityType
  <1>2. /\ s \in [1..n -> returns]
        /\ \A i, j \in 1..n : i < j => s[i] # s[j] /\ s[i].time >= s[j].time
    BY DEF NewestFirst
  <1>3. \A i, j \in 1..n : s[i] = s[j] => i = j
    <2> SUFFICES ASSUME NEW i \in 1..n, NEW j \in 1..n, i # j PROVE s[i] # s[j]
      OBVIOUS
    <2>1. i < j \/ j < i
      BY <1>1
    <2> QED BY <1>2, <2>1
  <1>4. s \in Injection(1..n, returns)
    BY <1>2, <1>3 DEF Injection, IsInjective
  <1>5. Cardinality(1..n) = n
    BY <1>1, FS_Interval
  <1>6. s \in Surjection(1..n, returns)
    BY <1>4, <1>5, ReturnsAreFinite, FS_Injection
  <1>7. returns = {s[i] : i \in 1..n}
    BY <1>2, <1>6 DEF Surjection
  <1> QED BY <1>1, <1>2, <1>7

\* Rows that are no newer than the earlier ones have counted of them what the baseline
\* counts.
LEMMA OlderSeeTheBaseline ==
    ASSUME IInv, NEW rows \in SUBSET returns, NEW earlier \in SUBSET returns,
           \A r \in rows, x \in earlier : x.time >= r.time
    PROVE  BaselineOnly(rows, earlier)
  <1> SUFFICES ASSUME NEW r \in rows, NEW x \in earlier
               PROVE  /\ x \notin CountedAsPast(Past(r), r)
                      /\ x \in Features(r).baseline.returns
                           <=> x.order.category = r.order.category
    BY DEF BaselineOnly, Past
  <1>1. x.time \in Int /\ r.time \in Int /\ x.time >= r.time
    BY Integers
  <1>2. ~(x.time < r.time)
    BY <1>1
  <1>3. x \notin CountedAsPast(Past(r), r)
    BY <1>2, CountsTheOlder
  <1>4. Features(r).baseline = [orders  |-> {o \in orders : o.category = r.order.category},
                                returns |-> {y \in returns : y.order.category = r.order.category}]
    BY RowParts DEF Baseline
  <1>5. x \in Features(r).baseline.returns <=> x.order.category = r.order.category
    BY <1>4
  <1> QED BY <1>3, <1>5

\* The three files hold every row, and a later file has counted the returns of an
\* earlier one in the category baseline only, whatever the shares.
THEOREM OnlyBaselineLeaksHolds == Spec => []OnlyBaselineLeaks
  <1>1. ASSUME IInv, NEW n, n = Cardinality(returns), NEW s \in NewestFirst(n),
               NEW a \in 0..n, NEW b \in a..n
        PROVE  /\ Slice(s, 0, a) \cup Slice(s, a, b) \cup Slice(s, b, n) = returns
               /\ BaselineOnly(Slice(s, b, n), Slice(s, 0, a) \cup Slice(s, a, b))
               /\ BaselineOnly(Slice(s, a, b), Slice(s, 0, a))
    <2>1. /\ n \in Nat /\ s \in [1..n -> returns]
          /\ returns = {s[i] : i \in 1..n}
          /\ \A i, j \in 1..n : i < j => s[i].time >= s[j].time
      BY <1>1, AllAreSorted
    <2>2. a \in Nat /\ b \in Nat /\ a <= b /\ b <= n
      BY <2>1
    <2>3. \A i : i \in 1..n <=> i \in 0 + 1..a \/ i \in a + 1..b \/ i \in b + 1..n
      BY <2>1, <2>2
    <2>4. Slice(s, 0, a) \cup Slice(s, a, b) \cup Slice(s, b, n) = returns
      BY <2>1, <2>3 DEF Slice
    <2>5. ASSUME NEW c \in 0..n, NEW r \in Slice(s, c, n), NEW d \in 0..c, NEW x \in Slice(s, 0, d)
          PROVE  x.time >= r.time
      <3>1. PICK i \in c + 1..n : r = s[i]
        BY DEF Slice
      <3>2. PICK j \in 0 + 1..d : x = s[j]
        BY DEF Slice
      <3>3. i \in 1..n /\ j \in 1..n /\ j < i
        BY <2>1
      <3> QED BY <2>1, <3>1, <3>2, <3>3
    <2>6. Slice(s, 0, a) \cup Slice(s, a, b) \subseteq Slice(s, 0, b)
      BY <2>2 DEF Slice
    <2>7. Slice(s, a, b) \subseteq Slice(s, a, n)
      BY <2>1, <2>2 DEF Slice
    <2>8. a \in 0..n /\ a \in 0..a /\ b \in 0..n /\ b \in 0..b
      BY <2>1, <2>2
    <2>9. BaselineOnly(Slice(s, b, n), Slice(s, 0, a) \cup Slice(s, a, b))
      <3>1. \A r \in Slice(s, b, n) : \A x \in Slice(s, 0, a) \cup Slice(s, a, b) : x.time >= r.time
        BY <2>5, <2>6, <2>8
      <3> QED BY <1>1, <2>4, <3>1, OlderSeeTheBaseline
    <2>10. BaselineOnly(Slice(s, a, b), Slice(s, 0, a))
      <3>1. \A r \in Slice(s, a, b) : \A x \in Slice(s, 0, a) : x.time >= r.time
        BY <2>5, <2>7, <2>8
      <3> QED BY <1>1, <2>4, <3>1, OlderSeeTheBaseline
    <2> QED BY <2>4, <2>9, <2>10
  <1>2. IInv => OnlyBaselineLeaks
    <2> SUFFICES ASSUME IInv, NEW f \in Splits
                 PROVE  /\ f.train \cup f.validation \cup f.test = returns
                        /\ BaselineOnly(f.test, f.train \cup f.validation)
                        /\ BaselineOnly(f.validation, f.train)
      BY DEF OnlyBaselineLeaks
    <2>1. PICK n, a, b : /\ n = Cardinality(returns)
                         /\ a = (TrainShare * n) \div 100
                         /\ b = (ValidationShare * n) \div 100
      OBVIOUS
    <2>2. n \in Nat
      BY <2>1, ReturnsAreFinite, FS_CardinalityType
    <2>3. a \in 0..b /\ b \in 0..n
      BY <2>1, <2>2, SharesFollow
    <2>4. a \in 0..n /\ b \in a..n
      BY <2>2, <2>3
    <2>5. PICK s \in NewestFirst(n) : f = [train |-> Slice(s, 0, a), validation |-> Slice(s, a, b),
                                           test |-> Slice(s, b, n)]
      BY <2>1 DEF Splits
    <2>6. /\ f.train = Slice(s, 0, a) /\ f.validation = Slice(s, a, b)
          /\ f.test = Slice(s, b, n)
      BY <2>5
    <2> QED BY <1>1, <2>1, <2>4, <2>6
  <1> QED BY <1>2, Inductive, PTL

------------------------------------------------------------------------------
(* What is trained on, and what is scored with.                            *)

\* The graph processor shares entities as the offline builder does.
LEMMA SharingIsShared ==
    ASSUME NEW rels, NEW u, NEW kinds
    PROVE  Graph!Sharing(rels, u, kinds) = SharedVia(rels, kinds, u)
  <1>1. \A v : v \in Graph!Sharing(rels, u, kinds) <=>
           /\ v # u
           /\ \E e \in Graph!EntitiesOf(rels, u, kinds) : v \in Graph!UsersOn(rels, e)
    BY DEF Graph!Sharing
  <1>2. \A e : e \in Graph!EntitiesOf(rels, u, kinds) <=> e \in kinds /\ <<u, e>> \in rels
    BY DEF Graph!EntitiesOf
  <1>3. \A v, e : v \in Graph!UsersOn(rels, e) <=> v \in Users /\ <<v, e>> \in rels
    BY DEF Graph!UsersOn
  <1>4. \A v : v \in SharedVia(rels, kinds, u) <=>
           /\ v \in Users /\ v # u
           /\ \E e \in kinds : <<u, e>> \in rels /\ <<v, e>> \in rels
    BY DEF SharedVia
  <1>5. \A v : v \in Graph!Sharing(rels, u, kinds) <=> v \in SharedVia(rels, kinds, u)
    BY <1>1, <1>2, <1>3, <1>4
  <1> QED BY <1>5

\* The two hops of the processor are those of the offline builder.
LEMMA HopsAreHops ==
    ASSUME NEW rels, NEW u
    PROVE  /\ Graph!Hop1(rels, u) = OneHop(rels, u)
           /\ Graph!Hop2(rels, u) = TwoHop(rels, u)
  <1>1. Graph!Hop1(rels, u) = OneHop(rels, u)
    BY SharingIsShared DEF Graph!Hop1, OneHop, Graph!Entities, Entities
  <1>2. PICK near : near = OneHop(rels, u)
    OBVIOUS
  <1>3. \A v : v \in Graph!Hop2(rels, u) <=>
           /\ v \in Users /\ v # u /\ v \notin near
           /\ \E m \in near : \E e \in Entities : <<m, e>> \in rels /\ <<v, e>> \in rels
    <2>1. \A v : v \in Graph!Hop2(rels, u) <=>
             /\ v # u /\ v \notin near
             /\ \E m \in near : \E e \in Graph!EntitiesOf(rels, m, Graph!Entities) :
                   v \in Graph!UsersOn(rels, e)
      BY <1>1, <1>2 DEF Graph!Hop2
    <2>2. \A m, e : e \in Graph!EntitiesOf(rels, m, Graph!Entities)
                      <=> e \in Entities /\ <<m, e>> \in rels
      BY DEF Graph!EntitiesOf, Graph!Entities, Entities
    <2>3. \A v, e : v \in Graph!UsersOn(rels, e) <=> v \in Users /\ <<v, e>> \in rels
      BY DEF Graph!UsersOn
    <2> QED BY <2>1, <2>2, <2>3
  <1>4. \A v, m : v \in OneHop(rels, m) <=>
           /\ v \in Users /\ v # m
           /\ \E e \in Entities : <<m, e>> \in rels /\ <<v, e>> \in rels
    BY DEF OneHop, SharedVia
  <1>5. \A v : v \in TwoHop(rels, u) <=>
           /\ v \in Users /\ v # u /\ v \notin near
           /\ \E m \in near : v \in OneHop(rels, m)
    BY <1>2 DEF TwoHop
  <1>6. \A v : v \in Graph!Hop2(rels, u) <=> v \in TwoHop(rels, u)
    <2>1. ASSUME NEW v, NEW m \in near, v \notin near, v \in Users
          PROVE  v \in OneHop(rels, m) <=>
                   \E e \in Entities : <<m, e>> \in rels /\ <<v, e>> \in rels
      BY <1>4, <2>1
    <2> QED BY <1>3, <1>5, <2>1
  <1> QED BY <1>1, <1>6

\* What the customer returned before the request, and ever.
ReturnsEver(u) == {x \in returns : x.order.user = u}

\* The key of a customer knows at least the edges of an earlier row.
LEMMA LoadedKnowsMore ==
    ASSUME IInv, NEW t \in Times
    PROVE  /\ ActiveEdges(t) \subseteq LoadedRels
           /\ (\A o \in orders : o.time <= t) => ActiveEdges(t) = LoadedRels
  <1>1. ActiveEdges(t) \subseteq LoadedRels
    BY DEF ActiveEdges, LoadedRels
  <1>2. ASSUME \A o \in orders : o.time <= t, NEW k \in LoadedRels
        PROVE  k \in ActiveEdges(t)
    <2>1. k \in Keys /\ edges[k] # NoEdge
      BY DEF LoadedRels, Keys
    <2>2. PICK o \in orders : o.time = edges[k].first
      BY <2>1 DEF IInv, EdgesAreOrders
    <2>3. edges[k].first <= t
      BY <1>2, <2>2
    <2> QED BY <2>1, <2>3 DEF ActiveEdges, Keys
  <1> QED BY <1>1, <1>2

\* Whoever is linked has ordered; and counts only grow.
LEMMA CountsGrow ==
    ASSUME IInv, NEW u, NEW t
    PROVE  /\ Cardinality(PriorReturns(returns, u, t)) \in Nat
           /\ Cardinality(ReturnsEver(u)) \in Nat
           /\ Cardinality(PriorReturns(returns, u, t)) <= Cardinality(ReturnsEver(u))
  <1>1. ReturnsEver(u) \in SUBSET returns
    BY DEF ReturnsEver
  <1>2. IsFiniteSet(ReturnsEver(u))
    BY <1>1, ReturnsAreFinite, FS_Subset
  <1>3. PriorReturns(returns, u, t) \in SUBSET ReturnsEver(u)
    BY DEF PriorReturns, ReturnsEver
  <1> QED BY <1>2, <1>3, FS_Subset, FS_CardinalityType

\* The graph key holds what the row of the newest return holds, and no less than
\* the row of any other.
LEMMA GraphParityHolds ==
    ASSUME IInv
    PROVE  GraphParity
  <1> SUFFICES ASSUME NEW r \in returns, NEW key,
                      key = Graph!Metrics(LoadedRels, LoadedCounts, r.order.user)
               PROVE  /\ Newest(r) => key = OfflineGraph(Past(r))
                      /\ Past(r).linked_1hop \subseteq key.linked_1hop
                      /\ Past(r).high_return \subseteq key.high_return
    BY DEF GraphParity
  <1>1. PICK u, t : u = r.order.user /\ t = r.time
    OBVIOUS
  <1>2. t \in Times
    BY <1>1, Integers
  <1>3. key = [linked_1hop    |-> OneHop(LoadedRels, u),
               linked_2hop    |-> TwoHop(LoadedRels, u),
               shared_device  |-> SharedVia(LoadedRels, Devices, u),
               shared_address |-> SharedVia(LoadedRels, Addresses, u),
               shared_payment |-> SharedVia(LoadedRels, Payments, u),
               high_return    |-> {n \in OneHop(LoadedRels, u) : LoadedCounts[n] >= 2}]
    BY <1>1, HopsAreHops, SharingIsShared DEF Graph!Metrics
  <1>4. OfflineGraph(Past(r)) =
          [linked_1hop    |-> OneHop(ActiveEdges(t), u),
           linked_2hop    |-> TwoHop(ActiveEdges(t), u),
           shared_device  |-> SharedVia(ActiveEdges(t), Devices, u),
           shared_address |-> SharedVia(ActiveEdges(t), Addresses, u),
           shared_payment |-> SharedVia(ActiveEdges(t), Payments, u),
           high_return    |-> HighReturn(returns, ActiveEdges(t), u, t)]
    BY <1>1, PastIsPastRow DEF OfflineGraph, PastRow
  <1>5. /\ Past(r).linked_1hop = OneHop(ActiveEdges(t), u)
        /\ Past(r).high_return = HighReturn(returns, ActiveEdges(t), u, t)
    BY <1>1, PastIsPastRow DEF PastRow
  <1>6. \A n \in Users : LoadedCounts[n] = Cardinality(ReturnsEver(n))
    BY DEF LoadedCounts, ReturnsEver
  <1>7. \A rels : OneHop(rels, u) \subseteq Users \ {u}
    BY DEF OneHop, SharedVia
  <1>8. OneHop(ActiveEdges(t), u) \subseteq OneHop(LoadedRels, u)
    BY <1>2, LoadedKnowsMore DEF OneHop, SharedVia
  <1>9. HighReturn(returns, ActiveEdges(t), u, t)
          \subseteq {n \in OneHop(LoadedRels, u) : LoadedCounts[n] >= 2}
    <2> SUFFICES ASSUME NEW n \in OneHop(ActiveEdges(t), u),
                        Cardinality(PriorReturns(returns, n, t)) >= 2
                 PROVE  n \in OneHop(LoadedRels, u) /\ LoadedCounts[n] >= 2
      BY DEF HighReturn
    <2>1. n \in Users /\ n \in OneHop(LoadedRels, u)
      BY <1>7, <1>8
    <2>2. Cardinality(ReturnsEver(n)) >= 2
      BY CountsGrow
    <2> QED BY <1>6, <2>1, <2>2
  <1>10. ASSUME Newest(r)
         PROVE  key = OfflineGraph(Past(r))
    <2>1. ActiveEdges(t) = LoadedRels
      BY <1>1, <1>2, <1>10, LoadedKnowsMore DEF Newest
    <2>2. ASSUME NEW n \in OneHop(LoadedRels, u)
          PROVE  ReturnsEver(n) = PriorReturns(returns, n, t)
      <3>1. n # u
        BY <1>7
      <3>2. \A x \in returns : x.order.user = n => x.time < t
        BY <1>1, <1>10, <3>1 DEF Newest
      <3> QED BY <3>2 DEF ReturnsEver, PriorReturns
    <2>3. \A n \in OneHop(LoadedRels, u) :
             LoadedCounts[n] = Cardinality(PriorReturns(returns, n, t))
      BY <1>6, <1>7, <2>2
    <2>4. HighReturn(returns, LoadedRels, u, t)
            = {n \in OneHop(LoadedRels, u) : LoadedCounts[n] >= 2}
      BY <2>3 DEF HighReturn
    <2> QED BY <1>3, <1>4, <2>1, <2>4
  <1>11. /\ key.linked_1hop = OneHop(LoadedRels, u)
         /\ key.high_return = {n \in OneHop(LoadedRels, u) : LoadedCounts[n] >= 2}
    BY <1>3
  <1> QED BY <1>5, <1>8, <1>9, <1>10, <1>11

\* Flushed at the moment of the newest return, the aggregates are those of its row.
LEMMA AggregateParityHolds ==
    ASSUME IInv
    PROVE  AggregateParity
  <1> SUFFICES ASSUME NEW r \in returns, Newest(r), NEW online,
                      online = OnlineRow(orders, returns \ {r}, r.order, r.time)
               PROVE  LET row == Past(r)
                      IN /\ [online.user EXCEPT !.history = row.history] = OfflineUser(row)
                         /\ online.device = [users |-> row.device_users,
                                             orders |-> row.device_orders,
                                             returns |-> row.device_returns]
                         /\ online.address = row.address_returns
                         /\ online.payment = row.payment_returns
                         /\ online.address_users = row.address_users
                         /\ online.payment_users = row.payment_users
    BY DEF AggregateParity
  <1>1. PICK o, t, row : o = r.order /\ t = r.time /\ row = Past(r)
    OBVIOUS
  <1>2. /\ t \in Int /\ \A x \in returns : x.time \in Int
        /\ \A x \in orders : x.time <= t
        /\ \A x \in returns \ {r} : x.time < t
    BY <1>1, Integers DEF Newest
  <1>3. ~(t < t)
    BY <1>2
  <1>4. OnlineOrders(orders, o.user, t) = PriorOrders(orders, o.user, t)
    BY DEF OnlineOrders, PriorOrders
  <1>5. OnlineReturns(returns \ {r}, o.user, t) = PriorReturns(returns, o.user, t)
    BY <1>1, <1>2, <1>3 DEF OnlineReturns, PriorReturns
  <1>6. ASSUME NEW e
        PROVE  OnlineEntity(orders, returns \ {r}, e, t) =
                 [users   |-> UsersOf(orders, e, t),
                  orders  |-> Since(OrdersOn(orders, e, t), t, Month),
                  returns |-> Since(ReturnsOn(returns, e, t), t, Month)]
    <2>1. {x \in orders : e \in Uses(x)} = {x \in orders : e \in Uses(x) /\ x.time <= t}
      BY <1>2
    <2>2. {x \in returns \ {r} : e \in Uses(x.order)} = ReturnsOn(returns, e, t)
      BY <1>1, <1>2, <1>3 DEF ReturnsOn
    <2> QED BY <2>1, <2>2 DEF OnlineEntity, UsersOf, OrdersOn
  <1>7. /\ online.user = OnlineUser(orders, returns \ {r}, o.user, t)
        /\ online.device = OnlineEntity(orders, returns \ {r}, o.device, t)
        /\ online.address = OnlineEntity(orders, returns \ {r}, o.address, t).returns
        /\ online.payment = OnlineEntity(orders, returns \ {r}, o.payment, t).returns
        /\ online.address_users = OnlineEntity(orders, returns \ {r}, o.address, t).users
        /\ online.payment_users = OnlineEntity(orders, returns \ {r}, o.payment, t).users
    BY <1>1 DEF OnlineRow
  <1>8. /\ row.device_users = UsersOf(orders, o.device, t)
        /\ row.device_orders = Since(OrdersOn(orders, o.device, t), t, Month)
        /\ row.device_returns = Since(ReturnsOn(returns, o.device, t), t, Month)
        /\ row.address_returns = Since(ReturnsOn(returns, o.address, t), t, Month)
        /\ row.payment_returns = Since(ReturnsOn(returns, o.payment, t), t, Month)
        /\ row.address_users = UsersOf(orders, o.address, t)
        /\ row.payment_users = UsersOf(orders, o.payment, t)
    BY <1>1, PastIsPastRow DEF PastRow
  <1>9. /\ online.device = [users |-> row.device_users, orders |-> row.device_orders,
                            returns |-> row.device_returns]
        /\ online.address = row.address_returns /\ online.payment = row.payment_returns
        /\ online.address_users = row.address_users
        /\ online.payment_users = row.payment_users
    <2>1. online.device = [users |-> row.device_users, orders |-> row.device_orders,
                           returns |-> row.device_returns]
      BY <1>6, <1>7, <1>8
    <2>2. \A e : /\ OnlineEntity(orders, returns \ {r}, e, t).users = UsersOf(orders, e, t)
                 /\ OnlineEntity(orders, returns \ {r}, e, t).returns
                      = Since(ReturnsOn(returns, e, t), t, Month)
      <3> TAKE e
      <3>1. PICK entity : entity = OnlineEntity(orders, returns \ {r}, e, t)
        OBVIOUS
      <3>2. entity = [users   |-> UsersOf(orders, e, t),
                      orders  |-> Since(OrdersOn(orders, e, t), t, Month),
                      returns |-> Since(ReturnsOn(returns, e, t), t, Month)]
        BY <1>6, <3>1
      <3>3. /\ entity.users = UsersOf(orders, e, t)
            /\ entity.returns = Since(ReturnsOn(returns, e, t), t, Month)
        BY <3>2
      <3> QED BY <3>1, <3>3
    <2> QED BY <1>7, <1>8, <2>1, <2>2
  <1>10. [online.user EXCEPT !.history = row.history] = OfflineUser(row)
    <2>1. PICK prior, returned : /\ prior = PriorOrders(orders, o.user, t)
                                 /\ returned = PriorReturns(returns, o.user, t)
      OBVIOUS
    <2>2. online.user =
            [orders_24h   |-> Since(prior, t, Day),
             orders_7d    |-> Since(prior, t, Week),
             orders_30d   |-> Since(prior, t, Month),
             total_orders |-> prior,
             history      |-> prior,
             returns_24h  |-> Since(returned, t, Day),
             returns_7d   |-> Since(returned, t, Week),
             returns_30d  |-> Since(returned, t, Month),
             total_returns |-> returned]
      BY <1>4, <1>5, <1>7, <2>1 DEF OnlineUser
    <2>3. /\ row.orders_24h = Since(prior, t, Day)
          /\ row.orders_7d = Since(prior, t, Week)
          /\ row.orders_30d = Since(prior, t, Month)
          /\ row.total_orders = prior
          /\ row.returns_24h = Since(returned, t, Day)
          /\ row.returns_7d = Since(returned, t, Week)
          /\ row.returns_30d = Since(returned, t, Month)
          /\ row.total_returns = returned
      BY <1>1, <2>1, PastIsPastRow DEF PastRow
    <2>4. [online.user EXCEPT !.history = row.history] =
            [orders_24h   |-> Since(prior, t, Day),
             orders_7d    |-> Since(prior, t, Week),
             orders_30d   |-> Since(prior, t, Month),
             total_orders |-> prior,
             history      |-> row.history,
             returns_24h  |-> Since(returned, t, Day),
             returns_7d   |-> Since(returned, t, Week),
             returns_30d  |-> Since(returned, t, Month),
             total_returns |-> returned]
      BY <2>2
    <2> QED BY <2>3, <2>4 DEF OfflineUser
  <1> QED BY <1>1, <1>9, <1>10

\* The latest of some times is their greatest.
LEMMA LastIsGreatest ==
    ASSUME NEW os, NEW o \in os, \A x \in os : x.time \in Int /\ x.time <= o.time
    PROVE  LastTime(os) = o.time
  <1>1. PICK T : T = {x.time : x \in os}
    OBVIOUS
  <1>2. o.time \in T /\ \A x \in os : x.time <= o.time
    BY <1>1
  <1>3. LastTime(os) = CHOOSE t \in T : \A x \in os : x.time <= t
    BY <1>1 DEF LastTime
  <1>4. LastTime(os) \in T /\ \A x \in os : x.time <= LastTime(os)
    BY <1>2, <1>3
  <1>5. LastTime(os) \in Int /\ LastTime(os) <= o.time /\ o.time <= LastTime(os)
    BY <1>1, <1>4
  <1> QED BY <1>5

\* The features of the newest return that a scoring replaces.
LEMMA StandInsHold ==
    ASSUME IInv
    PROVE  StandIns
  <1> SUFFICES ASSUME NEW r \in returns, Newest(r) PROVE StandsIn(r)
    BY DEF StandIns
  <1>0. PICK o, row, online, since :
           /\ o = r.order /\ row = Features(r)
           /\ online = OnlineRow(orders, returns \ {r}, r.order, r.time)
           /\ since = {x \in row.past.total_orders : x.time >= o.time}
    OBVIOUS
  <1>1. PICK t, past, ordered, returned :
           /\ t = r.time /\ past = Past(r)
           /\ ordered = PriorOrders(orders, o.user, t)
           /\ returned = PriorReturns(returns, o.user, t)
    OBVIOUS
  <1>2. /\ t \in Int /\ \A x \in returns : x.time \in Int
        /\ o \in orders /\ o.time < t /\ \A x \in orders : x.time \in Int
        /\ \A x \in returns \ {r} : x.time < t
    BY <1>0, <1>1, Integers DEF Newest
  <1>3. ~(t < t)
    BY <1>2
  <1>4. OnlineOrders(orders, o.user, t) = ordered
    BY <1>1 DEF OnlineOrders, PriorOrders
  <1>5. OnlineReturns(returns \ {r}, o.user, t) = returned
    BY <1>0, <1>1, <1>2, <1>3 DEF OnlineReturns, PriorReturns
  <1>6. PICK user : user = OnlineUser(orders, returns \ {r}, o.user, t)
    OBVIOUS
  <1>7. user.total_orders = ordered /\ user.total_returns = returned /\ user.history = ordered
    BY <1>4, <1>5, <1>6 DEF OnlineUser
  <1>8. /\ online.user = user
        /\ online.is_first_purchase = (Cardinality(ordered) <= 1)
        /\ online.deviation = OnlineDeviation(ordered, returned, t)
        /\ online.baseline = [orders |-> {}, returns |-> {}]
        /\ online.category_diff = <<>>
    BY <1>0, <1>1, <1>6, <1>7 DEF OnlineRow
  <1>9. /\ row.past = past /\ row.baseline = Baseline(orders, returns, r)
        /\ row.deviation = Deviation(past, r)
    BY <1>0, <1>1, RowParts
  <1>10. /\ past.total_orders = ordered /\ past.total_returns = returned
         /\ past.history = OrdersBefore(orders, o)
    BY <1>0, <1>1, PastIsPastRow DEF PastRow
  <1>11. o \in ordered /\ o \in since /\ o \notin past.history
    <2>1. o \in ordered
      BY <1>1, <1>2 DEF PriorOrders
    <2>2. o \in since
      BY <1>0, <1>2, <1>9, <1>10, <2>1
    <2>3. o \notin past.history
      BY <1>2, <1>10 DEF OrdersBefore
    <2> QED BY <2>1, <2>2, <2>3
  <1>12. ordered = past.history \cup since
    <2>1. since = {x \in ordered : x.time >= o.time}
      BY <1>0, <1>9, <1>10
    <2>2. past.history = {x \in ordered : x.time < o.time}
      <3>1. \A x : x \in OrdersBefore(orders, o) <=>
               x \in orders /\ x.user = o.user /\ x.time < o.time
        BY DEF OrdersBefore
      <3>2. \A x : x \in ordered <=> x \in orders /\ x.user = o.user /\ x.time <= t
        BY <1>1 DEF PriorOrders
      <3>3. \A x \in orders : x.time < o.time => x.time <= t
        BY <1>2
      <3> QED BY <1>10, <3>1, <3>2, <3>3
    <2>3. \A x \in ordered : x.time < o.time \/ x.time >= o.time
      BY <1>1, <1>2 DEF PriorOrders
    <2> QED BY <2>1, <2>2, <2>3
  <1>13. IsFiniteSet(ordered)
    <2>1. ordered \in SUBSET orders
      BY <1>1 DEF PriorOrders
    <2> QED BY <2>1, FS_Subset DEF IInv
  <1>14. Cardinality(ordered) <= 1 <=> past.history = {} /\ since = {o}
    <2>1. ASSUME past.history = {}, since = {o} PROVE Cardinality(ordered) <= 1
      <3>1. ordered = {o}
        BY <1>12, <2>1
      <3>2. Cardinality({o}) = 1
        BY FS_Singleton
      <3> QED BY <3>1, <3>2
    <2>2. ASSUME Cardinality(ordered) <= 1 PROVE past.history = {} /\ since = {o}
      <3>1. Cardinality(ordered) \in Nat /\ Cardinality(ordered \ {o}) = Cardinality(ordered) - 1
            /\ IsFiniteSet(ordered \ {o}) /\ Cardinality(ordered \ {o}) \in Nat
        BY <1>11, <1>13, FS_RemoveElement, FS_CardinalityType
      <3>2. Cardinality(ordered \ {o}) = 0
        BY <2>2, <3>1
      <3>3. ordered \ {o} = {}
        BY <3>1, <3>2, FS_EmptySet
      <3> QED BY <1>11, <1>12, <3>3
    <2> QED BY <2>1, <2>2
  <1>15. ASSUME since = {o} PROVE online.deviation.since_last_order = r.time - o.time
    <2>1. \A x \in ordered : x.time \in Int
      BY <1>1, <1>2 DEF PriorOrders
    <2>2. \A x \in ordered : x.time <= o.time
      <3>1. \A x \in past.history : x.time < o.time /\ x.time \in Int
        BY <1>2, <1>10 DEF OrdersBefore
      <3>2. o.time \in Int
        BY <1>2
      <3>3. \A x \in past.history : x.time <= o.time
        BY <3>1, <3>2
      <3> QED BY <1>12, <1>15, <3>2, <3>3
    <2>3. LastTime(ordered) = o.time
      BY <1>11, <2>1, <2>2, LastIsGreatest
    <2>4. online.deviation.since_last_order = t - LastTime(ordered)
      BY <1>8, <1>11 DEF OnlineDeviation
    <2> QED BY <1>1, <2>3, <2>4
  <1>16. /\ online.deviation["compared"] = ordered /\ online.deviation["current"] = returned
         /\ online.deviation["averaged"] = returned /\ online.deviation["wardrobing"] = {}
    <2>1. PICK gap : gap = IF ordered = {} THEN 0 ELSE t - LastTime(ordered)
      OBVIOUS
    <2>2. online.deviation = [since_last_order |-> gap, averaged |-> returned,
                              current |-> returned, wardrobing |-> {}, compared |-> ordered]
      BY <1>8, <2>1 DEF OnlineDeviation
    <2> QED BY <2>2
  <1>17. /\ row.deviation["compared"] = past.history /\ row.deviation["current"] = {r}
         /\ row.deviation["averaged"] = IF returned = {} THEN {r} ELSE returned
         /\ row.deviation["wardrobing"] = IF o.category \in Wearable THEN {r} ELSE {}
         /\ {"compared", "current", "averaged", "wardrobing"} \subseteq DOMAIN row.deviation
    <2>1. PICK gap, averaged, worn :
             /\ gap = IF past.history = {} THEN 0 ELSE r.order.time - LastTime(past.history)
             /\ averaged = IF past.total_returns = {} THEN {r} ELSE past.total_returns
             /\ worn = IF r.order.category \in Wearable THEN {r} ELSE {}
      OBVIOUS
    <2>2. row.deviation = [since_last_order |-> gap, averaged |-> averaged, current |-> {r},
                           wardrobing |-> worn, compared |-> past.history]
      BY <1>9, <2>1 DEF Deviation
    <2>3. averaged = (IF returned = {} THEN {r} ELSE returned)
          /\ worn = (IF o.category \in Wearable THEN {r} ELSE {})
      BY <1>0, <1>10, <2>1
    <2> QED BY <2>2, <2>3
  <1>18. r \notin returned
    BY <1>1, <1>3 DEF PriorReturns
  <1>19. /\ ~(online.deviation["compared"] = row.deviation["compared"])
         /\ ~(online.deviation["current"] = row.deviation["current"])
    BY <1>11, <1>16, <1>17, <1>18
  <1>20. online.deviation["averaged"] = row.deviation["averaged"] <=> row.past.total_returns # {}
    BY <1>9, <1>10, <1>16, <1>17
  <1>21. online.deviation["wardrobing"] = row.deviation["wardrobing"] <=> o.category \notin Wearable
    BY <1>16, <1>17
  <1>22. online.category_diff = CategoryDiff(row) <=> Cardinality(row.past.category_orders) < 2
    <2>1. PICK n : n = Cardinality(row.past.category_orders)
      OBVIOUS
    <2>2. n \in Nat
      <3>1. row.past.category_orders = {x \in ordered : x.category = o.category}
        BY <1>0, <1>1, <1>9, PastIsPastRow DEF PastRow
      <3> QED BY <1>13, <2>1, <3>1, FS_Subset, FS_CardinalityType
    <2>3. CategoryDiff(row) = IF n >= 2 THEN <<row.past.category_orders,
                                               row.past.category_returns, row.baseline>>
                              ELSE <<>>
      BY <2>1 DEF CategoryDiff
    <2> QED BY <1>8, <2>1, <2>2, <2>3
  <1>23. online.baseline # row.baseline
    <2>1. row.baseline.returns = {x \in returns : x.order.category = r.order.category}
      BY <1>0, <1>9 DEF Baseline
    <2>2. online.baseline.returns = {}
      BY <1>8
    <2> QED BY <2>1, <2>2
  <1>24. online.user.history = row.past.history \cup since
    BY <1>7, <1>8, <1>9, <1>12
  <1>25. online.is_first_purchase <=> row.past.history = {} /\ since = {o}
    BY <1>8, <1>9, <1>14
  <1>26. PICK agreeing : agreeing = {f \in DOMAIN row.deviation :
                                          online.deviation[f] = row.deviation[f]}
    OBVIOUS
  <1>27. /\ "compared" \notin agreeing /\ "current" \notin agreeing
         /\ "averaged" \in agreeing <=> row.past.total_returns # {}
         /\ "wardrobing" \in agreeing <=> o.category \notin Wearable
    BY <1>17, <1>19, <1>20, <1>21, <1>26
  <1> QED
    BY <1>0, <1>15, <1>22, <1>23, <1>24, <1>25, <1>26, <1>27 DEF StandsIn

\* A scoring of the newest return reads the windows, totals, entity counts and graph
\* features of its training row, and replaces the others as stated.
THEOREM OnlineParityHolds == Spec => []OnlineParity
  <1>1. IInv => OnlineParity
    BY GraphParityHolds, AggregateParityHolds, StandInsHold DEF OnlineParity
  <1> QED BY <1>1, Inductive, PTL

------------------------------------------------------------------------------
(* The builder's rows and the builder's validation.                        *)

\* A set of times has a latest one.
LEMMA LatestTime ==
    ASSUME NEW S \in SUBSET Times, S # {}
    PROVE  \E m \in S : \A x \in S : x <= m
  <1>1. MaxTime \in Nat /\ Times = 0..MaxTime
    BY HistoryAssumption DEF Times
  <1>2. PICK less : less = OpToRel(<, Nat)
    OBVIOUS
  <1>3. IsWellFoundedOn(less, Nat)
    BY <1>2, NatLessThanWellFounded
  <1>4. \A x, y \in Nat : <<x, y>> \in less <=> x < y
    BY <1>2 DEF OpToRel
  <1>5. PICK T : T = {MaxTime - x : x \in S}
    OBVIOUS
  <1>6. T \subseteq Nat /\ T # {}
    <2>1. \A x \in S : MaxTime - x \in Nat
      BY <1>1
    <2>2. PICK x \in S : TRUE
      OBVIOUS
    <2> QED BY <1>5, <2>1, <2>2
  <1>7. PICK m \in T : \A y \in T : <<y, m>> \notin less
    BY <1>3, <1>6, WFMin
  <1>8. PICK s \in S : m = MaxTime - s
    BY <1>5
  <1>9. ASSUME NEW x \in S PROVE x <= s
    <2>1. MaxTime - x \in T /\ ~(MaxTime - x < m)
      BY <1>4, <1>5, <1>6, <1>7
    <2> QED BY <1>1, <1>8, <2>1
  <1> QED BY <1>9

\* graph_last_updated_at is a time, and no later than the request.
LEMMA UpdatedInTime ==
    ASSUME IInv, NEW t \in Times
    PROVE  GraphUpdatedAt(t) <= t
  <1>1. PICK seen : seen = {edges[k].first : k \in ActiveEdges(t)}
    OBVIOUS
  <1>2. GraphUpdatedAt(t) = IF seen = {} THEN t ELSE CHOOSE s \in seen : \A x \in seen : x <= s
    BY <1>1 DEF GraphUpdatedAt
  <1>3. \A k \in ActiveEdges(t) : edges[k].first \in Times /\ edges[k].first <= t
    BY DEF ActiveEdges, IInv, TypeOK, Edges
  <1>4. \A s \in seen : s \in Times /\ s <= t
    BY <1>1, <1>3
  <1>5. CASE seen = {}
    BY <1>2, <1>5, Integers
  <1>6. CASE seen # {}
    <2>1. \E m \in seen : \A x \in seen : x <= m
      BY <1>4, <1>6, LatestTime
    <2>2. GraphUpdatedAt(t) \in seen
      BY <1>2, <1>6, <2>1
    <2> QED BY <1>4, <2>2
  <1> QED BY <1>5, <1>6

\* A share of a whole is at most a hundred percent.
LEMMA PercentRange ==
    ASSUME NEW n \in Nat, NEW d \in Nat
    PROVE  /\ Percent(n, d) \in Nat
           /\ n <= d => Percent(n, d) <= 100
  <1>1. PICK whole : whole = IF d > 1 THEN d ELSE 1
    OBVIOUS
  <1>2. whole \in Nat /\ whole >= 1 /\ whole >= d
    BY <1>1
  <1>3. PICK x : x = 100 * n
    OBVIOUS
  <1>4. x \in Nat /\ (n <= d => x <= 100 * whole)
    BY <1>2, <1>3
  <1>5. x \div whole \in Nat
    BY <1>2, <1>4
  <1>6. x <= 100 * whole => x \div whole <= 100
    BY <1>2, <1>4
  <1> QED BY <1>1, <1>3, <1>4, <1>5, <1>6 DEF Percent

\* A capped rate is a percentage.
LEMMA RateRange ==
    ASSUME NEW returned, NEW ordered, IsFiniteSet(returned), IsFiniteSet(ordered)
    PROVE  Rate(returned, ordered) \in 0..100
  <1>1. PICK p : p = Percent(Cardinality(returned), Cardinality(ordered))
    OBVIOUS
  <1>2. p \in Nat
    BY <1>1, FS_CardinalityType, PercentRange
  <1> QED BY <1>1, <1>2 DEF Rate

\* The customers that have ordered anything.
Buyers == {o.user : o \in orders}

\* They are at most as many as the orders.
LEMMA BuyersAreFinite ==
    ASSUME IInv
    PROVE  IsFiniteSet(Buyers)
  <1>1. PICK buyer : buyer = [o \in orders |-> o.user]
    OBVIOUS
  <1>2. buyer \in Surjection(orders, Buyers)
    BY <1>1 DEF Surjection, Buyers
  <1> QED BY <1>2, FS_Surjection DEF IInv

\* A linked customer has ordered with the entity that links him.
LEMMA LinkedAreBuyers ==
    ASSUME IInv, NEW t \in Times, NEW u, NEW kinds
    PROVE  /\ SharedVia(ActiveEdges(t), kinds, u) \subseteq Buyers
           /\ OneHop(ActiveEdges(t), u) \subseteq Buyers
           /\ TwoHop(ActiveEdges(t), u) \subseteq Buyers
  <1>1. \A v, e : <<v, e>> \in ActiveEdges(t) => v \in Buyers
    <2> SUFFICES ASSUME NEW v, NEW e, <<v, e>> \in LinksOf(OrdersUpTo(t)) PROVE v \in Buyers
      BY ActiveEdgesAreKnown
    <2>1. PICK o \in OrdersUpTo(t) : \E x \in Uses(o) : <<v, e>> = <<o.user, x>>
      BY DEF LinksOf
    <2> QED BY <2>1 DEF OrdersUpTo, Buyers
  <1>2. \A w, some : SharedVia(ActiveEdges(t), some, w) \subseteq Buyers
    BY <1>1 DEF SharedVia
  <1>3. \A w : OneHop(ActiveEdges(t), w) \subseteq Buyers
    BY <1>2 DEF OneHop
  <1>4. TwoHop(ActiveEdges(t), u) \subseteq Buyers
    BY <1>3 DEF TwoHop
  <1> QED BY <1>2, <1>3, <1>4

\* Every feature of a row counts a finite set.
LEMMA FeaturesAreFinite ==
    ASSUME IInv, NEW r \in returns
    PROVE  \A f \in DOMAIN Past(r) : IsFiniteSet(Past(r)[f])
  <1>1. PICK o, t, u, links : o = r.order /\ t = r.time /\ u = o.user /\ links = ActiveEdges(t)
    OBVIOUS
  <1>2. t \in Times
    BY <1>1, Integers
  <1>3. \A S : S \subseteq orders \/ S \subseteq returns \/ S \subseteq Buyers => IsFiniteSet(S)
    BY ReturnsAreFinite, BuyersAreFinite, FS_Subset DEF IInv
  <1>4. PICK prior, returned : prior = PriorOrders(orders, u, t) /\ returned = PriorReturns(returns, u, t)
    OBVIOUS
  <1>5. prior \subseteq orders /\ returned \subseteq returns
    BY <1>4 DEF PriorOrders, PriorReturns
  <1>6. \A w : /\ IsFiniteSet(Since(prior, t, w))
               /\ IsFiniteSet(Since(returned, t, w))
    BY <1>3, <1>5 DEF Since
  <1>7. /\ IsFiniteSet(prior) /\ IsFiniteSet(returned)
        /\ IsFiniteSet(OrdersBefore(orders, o))
        /\ IsFiniteSet({x \in prior : x.category = o.category})
        /\ IsFiniteSet({x \in returned : x.order.category = o.category})
    <2>1. /\ OrdersBefore(orders, o) \subseteq orders
          /\ {x \in prior : x.category = o.category} \subseteq orders
          /\ {x \in returned : x.order.category = o.category} \subseteq returns
      BY <1>5 DEF OrdersBefore
    <2> QED BY <1>3, <1>5, <2>1
  <1>8. \A e : /\ IsFiniteSet(UsersOf(orders, e, t))
               /\ IsFiniteSet(Since(OrdersOn(orders, e, t), t, Month))
               /\ IsFiniteSet(Since(ReturnsOn(returns, e, t), t, Month))
    <2>1. \A e : /\ UsersOf(orders, e, t) \subseteq Buyers
                 /\ Since(OrdersOn(orders, e, t), t, Month) \subseteq orders
                 /\ Since(ReturnsOn(returns, e, t), t, Month) \subseteq returns
      BY DEF UsersOf, Buyers, Since, OrdersOn, ReturnsOn
    <2> QED BY <1>3, <2>1
  <1>9. /\ IsFiniteSet(OneHop(links, u)) /\ IsFiniteSet(TwoHop(links, u))
        /\ \A kinds : IsFiniteSet(SharedVia(links, kinds, u))
        /\ IsFiniteSet(HighReturn(returns, links, u, t))
    <2>1. /\ OneHop(links, u) \subseteq Buyers /\ TwoHop(links, u) \subseteq Buyers
          /\ \A kinds : SharedVia(links, kinds, u) \subseteq Buyers
      BY <1>1, <1>2, LinkedAreBuyers
    <2>2. HighReturn(returns, links, u, t) \subseteq Buyers
      BY <2>1 DEF HighReturn
    <2> QED BY <1>3, <2>1, <2>2
  <1>10. Past(r) =
           [orders_24h   |-> Since(prior, t, Day),
            orders_7d    |-> Since(prior, t, Week),
            orders_30d   |-> Since(prior, t, Month),
            total_orders |-> prior,
            history      |-> OrdersBefore(orders, o),
            returns_24h  |-> Since(returned, t, Day),
            returns_7d   |-> Since(returned, t, Week),
            returns_30d  |-> Since(returned, t, Month),
            total_returns |-> returned,
            category_orders  |-> {x \in prior : x.category = o.category},
            category_returns |-> {x \in returned : x.order.category = o.category},
            device_users    |-> UsersOf(orders, o.device, t),
            device_orders   |-> Since(OrdersOn(orders, o.device, t), t, Month),
            device_returns  |-> Since(ReturnsOn(returns, o.device, t), t, Month),
            address_users   |-> UsersOf(orders, o.address, t),
            address_returns |-> Since(ReturnsOn(returns, o.address, t), t, Month),
            payment_users   |-> UsersOf(orders, o.payment, t),
            payment_returns |-> Since(ReturnsOn(returns, o.payment, t), t, Month),
            linked_1hop    |-> OneHop(links, u),
            linked_2hop    |-> TwoHop(links, u),
            shared_device  |-> SharedVia(links, Devices, u),
            shared_address |-> SharedVia(links, Addresses, u),
            shared_payment |-> SharedVia(links, Payments, u),
            high_return    |-> HighReturn(returns, links, u, t)]
    BY <1>1, <1>4, PastIsPastRow DEF PastRow
  <1>11. PICK row : row = Past(r)
    OBVIOUS
  <1>12. /\ IsFiniteSet(row.orders_24h)
         /\ IsFiniteSet(row.orders_7d)
         /\ IsFiniteSet(row.orders_30d)
         /\ IsFiniteSet(row.total_orders)
         /\ IsFiniteSet(row.history)
         /\ IsFiniteSet(row.returns_24h)
         /\ IsFiniteSet(row.returns_7d)
         /\ IsFiniteSet(row.returns_30d)
         /\ IsFiniteSet(row.total_returns)
         /\ IsFiniteSet(row.category_orders)
         /\ IsFiniteSet(row.category_returns)
         /\ IsFiniteSet(row.device_users)
         /\ IsFiniteSet(row.device_orders)
         /\ IsFiniteSet(row.device_returns)
         /\ IsFiniteSet(row.address_users)
         /\ IsFiniteSet(row.address_returns)
         /\ IsFiniteSet(row.payment_users)
         /\ IsFiniteSet(row.payment_returns)
         /\ IsFiniteSet(row.linked_1hop)
         /\ IsFiniteSet(row.linked_2hop)
         /\ IsFiniteSet(row.shared_device)
         /\ IsFiniteSet(row.shared_address)
         /\ IsFiniteSet(row.shared_payment)
         /\ IsFiniteSet(row.high_return)
    BY <1>6, <1>7, <1>8, <1>9, <1>10, <1>11
  <1>13. DOMAIN row = {"orders_24h", "orders_7d", "orders_30d", "total_orders", "history",
                         "returns_24h", "returns_7d", "returns_30d", "total_returns",
                         "category_orders", "category_returns", "device_users",
                         "device_orders", "device_returns", "address_users", "address_returns",
                         "payment_users", "payment_returns", "linked_1hop", "linked_2hop",
                         "shared_device", "shared_address", "shared_payment", "high_return"}
    BY <1>10, <1>11
  <1>14. \A f \in DOMAIN row : IsFiniteSet(row[f])
    BY <1>12, <1>13
  <1> QED BY <1>11, <1>14

\* In no category are there more returns than orders.
LEMMA BaselineRange ==
    ASSUME IInv, NEW r, NEW base, base = Baseline(orders, returns, r)
    PROVE  /\ Cardinality(base.orders) \in Nat
           /\ Percent(Cardinality(base.returns), Cardinality(base.orders)) \in 0..100
  <1>1. PICK os, rs : /\ os = {o \in orders : o.category = r.order.category}
                      /\ rs = {x \in returns : x.order.category = r.order.category}
    OBVIOUS
  <1>2. base.orders = os /\ base.returns = rs
    BY <1>1 DEF Baseline
  <1>3. IsFiniteSet(os)
    BY <1>1, FS_Subset DEF IInv
  <1>4. PICK own : own = [x \in rs |-> x.order]
    OBVIOUS
  <1>5. own \in Injection(rs, os)
    <2>1. \A x \in rs : x \in returns /\ x.order \in os
      BY <1>1, Integers
    <2>2. \A x, y \in rs : x.order = y.order => x = y
      BY <2>1 DEF IInv, ReturnsFollow
    <2> QED BY <1>4, <2>1, <2>2 DEF Injection, IsInjective
  <1>6. PICK n, d : n = Cardinality(rs) /\ d = Cardinality(os)
    OBVIOUS
  <1>7. IsFiniteSet(rs) /\ n <= d
    BY <1>3, <1>5, <1>6, FS_Injection
  <1>8. n \in Nat /\ d \in Nat
    BY <1>3, <1>6, <1>7, FS_CardinalityType
  <1>9. Percent(n, d) \in 0..100
    <2>1. PICK p : p = Percent(n, d)
      OBVIOUS
    <2>2. p \in Nat /\ p <= 100
      BY <1>7, <1>8, <2>1, PercentRange
    <2> QED BY <2>1, <2>2
  <1> QED BY <1>2, <1>6, <1>8, <1>9

\* The returns of a customer, found through his transaction ids, are those found
\* through the customer of their orders.
LEMMA RecountAgrees ==
    ASSUME DataInv, NEW r \in returns, NEW bought,
           bought = {o.txn : o \in {x \in orders : x.user = r.order.user}}
    PROVE  {x \in returns : x.order.txn \in bought /\ x.time < r.time}
             = PriorReturns(returns, r.order.user, r.time)
  <1>1. ASSUME NEW x \in returns
        PROVE  x.order.txn \in bought <=> x.order.user = r.order.user
    <2>1. x.order \in orders
      BY Integers DEF DataInv
    <2>2. ASSUME x.order.txn \in bought PROVE x.order.user = r.order.user
      <3>1. PICK o \in orders : o.user = r.order.user /\ o.txn = x.order.txn
        BY <2>2
      <3>2. o = x.order
        BY <2>1, <3>1 DEF DataInv, Numbered
      <3> QED BY <3>1, <3>2
    <2> QED BY <2>1, <2>2
  <1> QED BY <1>1 DEF PriorReturns

\* Every row passes run_all_validations.
THEOREM ValidationPassesHolds == Spec => []ValidationPasses
  <1>1. ASSUME DataInv, NEW r \in returns
        PROVE  Validated(r)
    <2>1. PICK row, base, data : /\ row = Past(r) /\ base = Features(r).baseline
                                 /\ data = DataRow(r)
      OBVIOUS
    <2>2. IInv
      BY <1>1 DEF DataInv
    <2>3. \A f \in DOMAIN row : Cardinality(row[f]) \in Nat
      BY <2>1, <2>2, FeaturesAreFinite, FS_CardinalityType
    <2>4. /\ data.count = [f \in DOMAIN row |-> Cardinality(row[f])]
          /\ data.rate = [return_rate_30d |-> Rate(row.returns_30d, row.orders_30d),
                          return_rate_all_time |-> Rate(row.total_returns, row.total_orders),
                          device_return_rate_30d |-> Rate(row.device_returns, row.device_orders),
                          category_return_rate_baseline |->
                              Percent(Cardinality(base.returns), Cardinality(base.orders))]
          /\ data.flag = [is_first_purchase |-> Flag(row.history = {}),
                          has_prior_orders |-> Flag(row.history # {}),
                          has_prior_returns |-> Flag(row.total_returns # {}),
                          used_category_fallback |->
                              Flag(Cardinality(row["history"]) < EnoughOrders)]
          /\ data.component = 1 + Cardinality(row["linked_1hop"]) + Cardinality(row["linked_2hop"])
          /\ data.support = IF Cardinality(row["history"]) >= EnoughOrders
                            THEN Cardinality(row["history"]) ELSE Cardinality(base.orders)
          /\ data.graph_last_updated_at = GraphUpdatedAt(r.time)
      BY <2>1 DEF DataRow, Past
    <2>5. /\ {"returns_30d", "orders_30d", "total_returns", "total_orders", "device_returns",
              "device_orders", "history", "linked_1hop", "linked_2hop"} \subseteq DOMAIN row
          /\ row.total_returns = PriorReturns(returns, r.order.user, r.time)
      BY <2>1, PastIsPastRow DEF PastRow
    <2>6. \A f \in DOMAIN row : IsFiniteSet(row[f])
      BY <2>1, <2>2, FeaturesAreFinite
    <2>7. \A f \in DOMAIN data.rate : data.rate[f] \in 0..100
      <3>1. /\ Rate(row.returns_30d, row.orders_30d) \in 0..100
            /\ Rate(row.total_returns, row.total_orders) \in 0..100
            /\ Rate(row.device_returns, row.device_orders) \in 0..100
        BY <2>5, <2>6, RateRange
      <3>2. Percent(Cardinality(base.returns), Cardinality(base.orders)) \in 0..100
        BY <2>1, <2>2, RowParts, BaselineRange
      <3> QED BY <2>4, <3>1, <3>2
    <2>8. \A f \in DOMAIN data.count : data.count[f] >= 0
      BY <2>3, <2>4
    <2>9. data.component >= 0 /\ data.support >= 0
      <3>1. /\ Cardinality(row["history"]) \in Nat /\ Cardinality(row["linked_1hop"]) \in Nat
            /\ Cardinality(row["linked_2hop"]) \in Nat
        BY <2>3, <2>5
      <3>2. Cardinality(base.orders) \in Nat
        BY <2>1, <2>2, RowParts, BaselineRange
      <3> QED BY <2>4, <3>1, <3>2
    <2>10. \A f \in DOMAIN data.flag : data.flag[f] \in {0, 1}
      BY <2>4 DEF Flag
    <2>11. RangesHold(data)
      BY <2>7, <2>8, <2>9, <2>10 DEF RangesHold
    <2>12. data.graph_last_updated_at <= r.time
      BY <2>2, <2>4, Integers, UpdatedInTime
    <2>13. PICK bought : bought = {o.txn : o \in {x \in orders : x.user = r.order.user}}
      OBVIOUS
    <2>14. data.count.total_returns
             = Cardinality({x \in returns : x.order.txn \in bought /\ x.time < r.time})
      <3>1. data.count.total_returns = Cardinality(row.total_returns)
        BY <2>4, <2>5
      <3>2. {x \in returns : x.order.txn \in bought /\ x.time < r.time} = row.total_returns
        BY <1>1, <2>5, <2>13, RecountAgrees
      <3> QED BY <3>1, <3>2
    <2>15. NothingLeaks(r, data)
      BY <2>12, <2>13, <2>14 DEF NothingLeaks
    <2> QED BY <2>1, <2>11, <2>15 DEF Validated
  <1>2. DataInv => ValidationPasses
    BY <1>1 DEF ValidationPasses
  <1> QED BY <1>2, DataInductive, PTL
=============================================================================
