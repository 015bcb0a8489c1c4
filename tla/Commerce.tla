------------------------------ MODULE Commerce ------------------------------
(***************************************************************************)
(* SimulationGenerator: the population, its shared households and fraud    *)
(* rings, the traffic of one customer after the other, and the export of   *)
(* the data set with the checks of generate_data.py.                       *)
(*                                                                         *)
(* Every draw of the random generator is a choice.  A product is its price *)
(* and category, a duration one of a few ticks that keep the order of the  *)
(* code's intervals.  Regions, amounts other than prices, account and      *)
(* browsing events, and the static tables are left out.                    *)
(***************************************************************************)
EXTENDS Naturals, Sequences, FiniteSets

CONSTANTS Devices, Addresses, Payments,   \* ids of generate_entities
          Products,         \* [price, category]
          Populations,      \* customer -> his ids, as generate_entities may draw them
          NumCustomers, NumFamilies,
          Draws,            \* what may be sampled for _inject_fraud_rings: the candidates,
                            \* the numbers of the mix, difficulties, who gets the address
          ClusterSize,
          MaxPerCustomer,   \* bound on the orders drawn for a customer
          MaxOrders,        \* bound on all orders
          OrderTimes,
          ShipDelays, DeliveryDelays, ReturnDelays,
          PickUp, Receipt, Refund,   \* after a request: a day, three, four
          ReceiptByPost,    \* two days after the request of a ring or a wardrober
          Guess,            \* the delivery that a scenario assumes of an unknown order
          None

Customers == 1..NumCustomers
Ring(kind, i) == <<kind, i>>
Rings(kind) == {Ring(kind, i) : i \in 1..((NumCustomers - 1) \div ClusterSize + 1)}
AllDevices == Devices \cup Rings("device")
AllAddresses == Addresses \cup Rings("address")
AllPayments == Payments \cup Rings("payment")
Entities == AllDevices \cup AllAddresses \cup AllPayments

LongestOf(delays) == CHOOSE d \in delays : \A e \in delays : e <= d
MaxTime == LongestOf(OrderTimes) + LongestOf(ShipDelays) + LongestOf(DeliveryDelays)
           + LongestOf(ReturnDelays)

Difficulties == {"easy", "moderate", "stealthy"}
Scenarios == {"multi_account_abuse", "serial_return_abuse", "wardrobing"}
Flags == [scenario : Scenarios, difficulty : Difficulties]

ASSUME CommerceAssumption ==
    /\ NumCustomers \in Nat \ {0} /\ NumFamilies \in Nat /\ MaxOrders \in Nat
    /\ \A draw \in Draws :
         /\ draw.candidates \in Seq(Customers)
         /\ \A i, j \in DOMAIN draw.candidates :
              i # j => draw.candidates[i] # draw.candidates[j]
         /\ draw.multi \in Nat /\ draw.serial \in Nat
         /\ draw.multi + draw.serial <= Len(draw.candidates)
         /\ draw.difficulty \in [Customers -> Difficulties]
    /\ ClusterSize \in Nat \ {0} /\ MaxPerCustomer \in Nat \ {0}
    /\ \A delays \in {ShipDelays, DeliveryDelays, ReturnDelays} : delays \subseteq Nat \ {0}
    /\ \A times \in {OrderTimes, ShipDelays, DeliveryDelays, ReturnDelays} :
         /\ times \subseteq Nat
         /\ \E longest \in times : \A d \in times : d <= longest
    /\ \A d \in {PickUp, Receipt, Refund, ReceiptByPost} : d \in Nat
    /\ 0 < PickUp /\ PickUp < Receipt /\ Receipt < Refund /\ 0 < ReceiptByPost
    /\ \A p \in Populations :
         /\ p \in [Customers -> [devices : Seq(Devices), addresses : Seq(Addresses),
                               payments : Seq(Payments)]]
         /\ \A c \in Customers :
              p[c].devices # <<>> /\ p[c].addresses # <<>> /\ p[c].payments # <<>>
    /\ None \notin Flags \cup Scenarios

VARIABLES own,        \* customer -> his device, address and payment ids
          families,   \* households drawn so far
          flags,      \* fraud_map: customer -> scenario and difficulty, or None
          stage,      \* where simulate_traffic is
          current,    \* the customer it is at
          left,       \* orders it has left to place for him
          targets,    \* the orders it has left to return for him, with their request times
          orders,     \* the transactions, numbered by txn_counter
          delivery,   \* order_delivery_times: transaction -> time
          returns, labels,
          events,     \* of the scheduler, in the order they were scheduled
          edges,      \* of the GraphBuilder
          files       \* the exported data set, or None

world == <<own, families, flags>>
traffic == <<current, left, targets>>
shop == <<orders, delivery, returns, labels, events, edges>>
vars == <<world, stage, traffic, shop, files>>

Span(first, last) == [first |-> first, last |-> last]

Init ==
    /\ own \in Populations
    /\ families = 0
    /\ flags = [c \in Customers |-> None]
    /\ stage = "households"
    /\ current = 1
    /\ left = 0
    /\ targets = {}
    /\ orders = <<>> /\ delivery = <<>> /\ events = <<>>
    /\ returns = <<>> /\ labels = <<>>
    /\ edges = [k \in Customers \X Entities |-> None]
    /\ files = None

Holds(seq, x) == \E i \in DOMAIN seq : seq[i] = x
With(seq, x) == IF Holds(seq, x) THEN seq ELSE Append(seq, x)

------------------------------------------------------------------------------
(* The population.                                                         *)

\* Two customers share the first address of one of them, and perhaps his device.
InjectHousehold(c1, c2, device) ==
    /\ stage = "households" /\ families < NumFamilies
    /\ c1 # c2
    /\ own' = [own EXCEPT ![c2].addresses = With(@, own[c1].addresses[1]),
                          ![c2].devices = IF device THEN With(@, own[c1].devices[1]) ELSE @]
    /\ families' = families + 1
    /\ UNCHANGED <<flags, stage, traffic, shop, files>>

Cluster(i, multi) == {j \in 1..multi : (j - 1) \div ClusterSize = (i - 1) \div ClusterSize}

\* Mutant: a candidate left over alone is flagged with a ring of his own.
RingedAlways(i, multi) == i <= multi

Ringed(i, multi) == i <= multi /\ Cardinality(Cluster(i, multi)) > 1

ScenarioAt(i, draw) ==
    IF Ringed(i, draw.multi) THEN "multi_account_abuse"
    ELSE IF i <= draw.multi THEN None
    ELSE IF i <= draw.multi + draw.serial THEN "serial_return_abuse"
    ELSE "wardrobing"

\* The sampled candidates: rings first, then serial returners, then wardrobers.
InjectRings(draw) ==
    /\ stage = "households" /\ families = NumFamilies
    /\ LET sampled == {draw.candidates[i] : i \in DOMAIN draw.candidates}
           place(c) == CHOOSE i \in DOMAIN draw.candidates : draw.candidates[i] = c
           ringed == {c \in sampled : Ringed(place(c), draw.multi)}
           number(c) == (place(c) - 1) \div ClusterSize + 1
       IN /\ own' = [c \in Customers |->
               IF c \notin ringed THEN own[c]
               ELSE [devices   |-> Append(own[c].devices, Ring("device", number(c))),
                     payments  |-> Append(own[c].payments, Ring("payment", number(c))),
                     addresses |-> IF c \in draw.addressed
                                   THEN Append(own[c].addresses, Ring("address", number(c)))
                                   ELSE own[c].addresses]]
          /\ flags' = [c \in Customers |->
               IF c \notin sampled \/ ScenarioAt(place(c), draw) = None THEN None
               ELSE [scenario |-> ScenarioAt(place(c), draw), difficulty |-> draw.difficulty[c]]]
    /\ stage' = "customer"
    /\ UNCHANGED <<families, traffic, shop, files>>

------------------------------------------------------------------------------
(* The traffic.                                                            *)

Event(kind, txn, time) == [kind |-> kind, txn |-> txn, time |-> time]

Flagged(c) == flags[c] # None
Serial(c) == Flagged(c) /\ flags[c].scenario = "serial_return_abuse"

\* The number of orders of the next customer, at the bound for a serial returner.
BeginCustomer(n) ==
    /\ stage = "customer" /\ current <= NumCustomers
    /\ Len(orders) + n + (NumCustomers - current) <= MaxOrders
    /\ Serial(current) => n = MaxPerCustomer \/ Len(orders) + n + 1 > MaxOrders
    /\ left' = n
    /\ stage' = "order"
    /\ UNCHANGED <<world, current, targets, shop, files>>

\* Mutant: as if the orders came in the order of time.
SeenLast(edge, t) == IF edge = None THEN Span(t, t) ELSE Span(edge.first, t)

\* GraphBuilder.record_interaction.
Seen(edge, t) ==
    IF edge = None THEN Span(t, t)
    ELSE Span(IF t < edge.first THEN t ELSE edge.first, IF t > edge.last THEN t ELSE edge.last)

\* One order with its three interactions, and its way to the customer.
PlaceOrder(t, product, device, address, payment, ship, deliver) ==
    LET c == current
        txn == Len(orders) + 1
        shipped == t + ship
    IN /\ stage = "order"
       /\ Holds(own[c].devices, device) /\ Holds(own[c].addresses, address)
       /\ Holds(own[c].payments, payment)
       /\ orders' = Append(orders, [user |-> c, product |-> product, time |-> t,
                                    device |-> device, address |-> address,
                                    payment |-> payment])
       /\ edges' = [k \in Customers \X Entities |->
                      IF k[1] = c /\ k[2] \in {device, address, payment}
                      THEN Seen(edges[k], t) ELSE edges[k]]
       /\ delivery' = Append(delivery, shipped + deliver)
       /\ events' = events \o <<Event("PURCHASE", txn, t), Event("ORDER_SHIPPED", txn, shipped),
                                Event("ORDER_DELIVERED", txn, shipped + deliver)>>
       /\ left' = left - 1
       /\ stage' = "delivered"
       /\ UNCHANGED <<world, current, targets, returns, labels, files>>

Onwards(c) ==
    stage' = IF left > 0 THEN "order" ELSE IF Flagged(c) THEN "scenario" ELSE "customer"

NextCustomer == current' = IF stage' = "customer" THEN current + 1 ELSE current

Return(scenario, txn, t) == [id |-> <<scenario, txn>>, txn |-> txn, time |-> t]

\* Only customers that are not in fraud_map return of their own accord.
MayReturn(c) == ~Flagged(c)

\* decide_legitimate_return: the coin shows keep ...
Keep ==
    /\ stage = "delivered"
    /\ Onwards(current) /\ NextCustomer
    /\ UNCHANGED <<world, left, targets, shop, files>>

\* ... or return, between one and fourteen days after the delivery.
ReturnLegitimately(delay) ==
    LET txn == Len(orders)
        t == delivery[txn] + delay
    IN /\ stage = "delivered" /\ MayReturn(current)
       /\ returns' = Append(returns, Return("legitimate", txn, t))
       /\ labels' = Append(labels, [id |-> <<"legitimate", txn>>, fraud |-> FALSE,
                                    scenario |-> "legitimate", difficulty |-> None])
       /\ events' = events \o <<Event("RETURN_REQUESTED", txn, t),
                                Event("RETURN_PICKED_UP", txn, t + PickUp),
                                Event("RETURN_RECEIVED", txn, t + Receipt),
                                Event("REFUND_ISSUED", txn, t + Refund)>>
       /\ Onwards(current) /\ NextCustomer
       /\ UNCHANGED <<world, left, targets, orders, delivery, edges, files>>

------------------------------------------------------------------------------
(* The fraud scenarios, over the orders of the current customer.           *)

Mine == {txn \in DOMAIN orders : orders[txn].user = current}
Dearer(price) == {txn \in Mine : orders[txn].product.price >= price}

Last(txns, k) == {txn \in txns : Cardinality({later \in txns : later > txn}) < k}

\* Mutant: a stealthy abuser without expensive orders returns nothing.
SerialTargetsOnlyDear(difficulty, k) ==
    IF difficulty = "stealthy" THEN Last(Dearer(4001), k) ELSE Last(Mine, k)

\* The last k orders, of the expensive ones for a stealthy abuser who has any.
SerialTargets(difficulty, k) ==
    IF difficulty # "stealthy" THEN Last(Mine, k)
    ELSE IF Dearer(4001) # {} THEN Last(Dearer(4001), k)
    ELSE Last(Mine, 1)

Burst(difficulty) ==
    CASE difficulty = "easy" -> 4..7
      [] difficulty = "moderate" -> 2..4
      [] difficulty = "stealthy" -> 1..2

\* Mutant: the fallback for orders without a delivery time, for all of them.
RequestTimeGuessed(txn, delay) == orders[txn].time + Guess + delay

\* Every order of the customer has its delivery time by now.
RequestTime(txn, delay) == delivery[txn] + delay

MultiTargets == Last(Mine, 1)
WardrobeTargets == IF Dearer(2000) # {} THEN Last(Dearer(2000), 1) ELSE Last(Mine, 1)

Targets(flag) ==
    CASE flag.scenario = "serial_return_abuse" ->
           {SerialTargets(flag.difficulty, k) : k \in Burst(flag.difficulty)}
      [] flag.scenario = "multi_account_abuse" -> {MultiTargets}
      [] flag.scenario = "wardrobing" -> {WardrobeTargets}

\* The scenario picks its orders and one delay for all of them.
BeginAbuse(txns, delay) ==
    /\ targets' = {[txn |-> txn, time |-> RequestTime(txn, delay)] : txn \in txns}
    /\ stage' = IF txns = {} THEN "customer" ELSE "abuse"
    /\ NextCustomer
    /\ UNCHANGED <<world, left, shop, files>>

\* What a scenario writes about one order: the return, its label, its events.
Written(scenario, difficulty, txn, t, later) ==
    [return |-> Return(scenario, txn, t),
     label  |-> [id |-> <<scenario, txn>>, fraud |-> TRUE,
                 scenario |-> scenario, difficulty |-> difficulty],
     events |-> <<Event("RETURN_REQUESTED", txn, t)>> \o later]

\* A serial abuser's parcels are picked up; the other two only come back.
SerialReturnAbuse(difficulty, txn, t) ==
    Written("serial_return_abuse", difficulty, txn, t,
            <<Event("RETURN_PICKED_UP", txn, t + PickUp),
              Event("RETURN_RECEIVED", txn, t + Receipt)>>)
MultiAccountAbuse(difficulty, txn, t) ==
    Written("multi_account_abuse", difficulty, txn, t,
            <<Event("RETURN_RECEIVED", txn, t + ReceiptByPost)>>)
Wardrobing(difficulty, txn, t) ==
    Written("wardrobing", difficulty, txn, t,
            <<Event("RETURN_RECEIVED", txn, t + ReceiptByPost)>>)

Apply(flag, txn, t) ==
    CASE flag.scenario = "serial_return_abuse" -> SerialReturnAbuse(flag.difficulty, txn, t)
      [] flag.scenario = "multi_account_abuse" -> MultiAccountAbuse(flag.difficulty, txn, t)
      [] flag.scenario = "wardrobing" -> Wardrobing(flag.difficulty, txn, t)

\* One order after the other, in the order they were placed.
Abuse(target) ==
    LET written == Apply(flags[current], target.txn, target.time)
    IN /\ stage = "abuse"
       /\ \A other \in targets : target.txn <= other.txn
       /\ returns' = Append(returns, written.return)
       /\ labels' = Append(labels, written.label)
       /\ events' = events \o written.events
       /\ targets' = targets \ {target}
       /\ stage' = IF targets' # {} THEN "abuse" ELSE "customer"
       /\ NextCustomer
       /\ UNCHANGED <<world, left, orders, delivery, edges, files>>

------------------------------------------------------------------------------
(* The data set.                                                           *)

\* EventScheduler.get_all_events, a stable sort: event i comes after those that are
\* earlier, and after those of the same time that were scheduled before it.
Earlier(seq, i) == {j \in DOMAIN seq : \/ seq[j].time < seq[i].time
                                       \/ seq[j].time = seq[i].time /\ j < i}
Chronological(seq) ==
    LET earlier == [i \in DOMAIN seq |-> Cardinality(Earlier(seq, i))]
    IN [k \in DOMAIN seq |-> seq[CHOOSE i \in DOMAIN seq : earlier[i] = k - 1]]

Export ==
    /\ stage = "customer" /\ current > NumCustomers
    /\ files' = [orders |-> orders, returns |-> returns, labels |-> labels,
                 events |-> Chronological(events),
                 relationships |-> {k \in DOMAIN edges : edges[k] # None}]
    /\ stage' = "exported"
    /\ UNCHANGED <<world, traffic, shop>>

\* The three assertions of validate_generated_data.
Sound(data) ==
    /\ \A i \in DOMAIN data.returns : data.returns[i].txn \in DOMAIN data.orders
    /\ Len(data.returns) = Len(data.labels)
    /\ \A i, j \in DOMAIN data.events : i < j => data.events[i].time <= data.events[j].time

Validate ==
    /\ stage = "exported"
    /\ stage' = IF Sound(files) THEN "valid" ELSE "invalid"
    /\ UNCHANGED <<world, traffic, shop, files>>

Next ==
    \/ \E c1, c2 \in Customers, device \in BOOLEAN : InjectHousehold(c1, c2, device)
    \/ \E draw \in Draws : InjectRings(draw)
    \/ \E n \in 1..MaxPerCustomer : BeginCustomer(n)
    \/ \E t \in OrderTimes, p \in Products, d \in AllDevices, a \in AllAddresses,
          y \in AllPayments, ship \in ShipDelays, deliver \in DeliveryDelays :
          PlaceOrder(t, p, d, a, y, ship, deliver)
    \/ Keep
    \/ \E delay \in ReturnDelays : ReturnLegitimately(delay)
    \/ /\ stage = "scenario"
       /\ \E txns \in Targets(flags[current]), delay \in ReturnDelays : BeginAbuse(txns, delay)
    \/ \E target \in targets : Abuse(target)
    \/ Export
    \/ Validate

Spec == Init /\ [][Next]_vars

------------------------------------------------------------------------------
(* Properties.                                                             *)

\* The files of FeatureHistory: a return carries its order.
HistoryOrder(txn) ==
    [txn |-> txn, user |-> orders[txn].user, category |-> orders[txn].product.category,
     time |-> orders[txn].time, device |-> orders[txn].device,
     address |-> orders[txn].address, payment |-> orders[txn].payment]

History == INSTANCE FeatureHistory WITH
    Users <- Customers, Categories <- {p.category : p \in Products},
    Devices <- AllDevices, Addresses <- AllAddresses, Payments <- AllPayments,
    Owns <- [c \in Customers |-> Entities],
    Day <- 1, Week <- 1, Month <- 1, NoEdge <- None,
    orders <- {HistoryOrder(txn) : txn \in DOMAIN orders},
    returns <- {[order |-> HistoryOrder(returns[i].txn), time |-> returns[i].time] :
                i \in DOMAIN returns}

\* The simulation is one of the histories that the features are checked and proved
\* over: whatever scenario returns an order, it is returned once, after it was
\* placed, and the edges are those of the orders.
ImplementsHistory == History!Spec

Place(kind) ==
    CASE kind = "PURCHASE" -> 1 [] kind = "ORDER_SHIPPED" -> 2
      [] kind = "ORDER_DELIVERED" -> 3 [] kind = "RETURN_REQUESTED" -> 4
      [] kind = "RETURN_PICKED_UP" -> 5 [] kind = "RETURN_RECEIVED" -> 6
      [] kind = "REFUND_ISSUED" -> 7

\* The event log tells the life of each order in its order, each step at most once:
\* nothing is requested before it was delivered or received before it was picked
\* up, whichever of four pieces of code wrote the return; and the export passes the
\* generator's own validation, its events sorted.
LivesAreOrdered ==
  /\ stage # "invalid"
  /\ \A i, j \in DOMAIN events :
        i # j /\ events[i].txn = events[j].txn =>
          /\ events[i].kind # events[j].kind
          /\ Place(events[i].kind) < Place(events[j].kind) => events[i].time < events[j].time

\* The ground truth is true: returns and labels pair up, a return is fraud exactly
\* when its customer is flagged, for the scenario and at the difficulty he was
\* flagged with, and when the traffic is over every flagged customer has abused.
LabelsTellTheFlags ==
    /\ Len(labels) = Len(returns)
    /\ \A i \in DOMAIN labels :
         LET flag == flags[orders[returns[i].txn].user]
         IN /\ labels[i].id = returns[i].id
            /\ labels[i].fraud = (flag # None)
            /\ labels[i].fraud => /\ labels[i].scenario = flag.scenario
                                  /\ labels[i].difficulty = flag.difficulty
    /\ files # None =>
         \A c \in Customers : Flagged(c) =>
           \E i \in DOMAIN returns : orders[returns[i].txn].user = c

\* "Form clusters of 3-5 users sharing same device/card" (generator.py): whoever is
\* flagged for multi-account abuse shares a device and a card with another one who
\* is, through all the households drawn before.
RingsShare ==
    \A c \in Customers : Flagged(c) /\ flags[c].scenario = "multi_account_abuse" =>
        \E d \in Customers \ {c} :
          /\ Flagged(d) /\ flags[d].scenario = "multi_account_abuse"
          /\ \E x \in AllDevices : Holds(own[c].devices, x) /\ Holds(own[d].devices, x)
          /\ \E x \in AllPayments : Holds(own[c].payments, x) /\ Holds(own[d].payments, x)
=============================================================================
