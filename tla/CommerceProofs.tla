--------------------------- MODULE CommerceProofs ---------------------------
(***************************************************************************)
(* For every population, every draw of the simulation and any number of    *)
(* customers and orders: the simulation is a history of FeatureHistory,    *)
(* its labels tell the flags, its fraud rings share what they are said to  *)
(* share, and the lives in its event log are in order.                     *)
(***************************************************************************)
EXTENDS Commerce, FiniteSetTheorems, NaturalsInduction, TLAPS

------------------------------------------------------------------------------
(* The inductive invariant.                                                *)

Kinds == Scenarios \cup {"legitimate"}
Ids == [devices : Seq(AllDevices), addresses : Seq(AllAddresses), payments : Seq(AllPayments)]
Placed == [user : Customers, product : Products, time : OrderTimes,
           device : AllDevices, address : AllAddresses, payment : AllPayments]
Requested == [id : Kinds \X Nat, txn : Nat, time : 0..MaxTime]
Labelled == [id : Kinds \X Nat, fraud : BOOLEAN, scenario : Kinds,
             difficulty : Difficulties \cup {None}]

\* The ids of a population are never lost.
NonEmpty(ids) == \A c \in Customers :
    ids[c].devices # <<>> /\ ids[c].addresses # <<>> /\ ids[c].payments # <<>>
NonEmptyIds == NonEmpty(own)

Types ==
    /\ own \in [Customers -> Ids] /\ NonEmptyIds
    /\ flags \in [Customers -> Flags \cup {None}]
    /\ current \in Nat \ {0} /\ left \in Nat
    /\ orders \in Seq(Placed)
    /\ delivery \in Seq(Nat) /\ Len(delivery) = Len(orders)
    /\ returns \in Seq(Requested)
    /\ labels \in Seq(Labelled) /\ Len(labels) = Len(returns)

Attending(s) == s \in {"order", "delivered", "scenario", "abuse"}
Over(s) == s \in {"exported", "valid", "invalid"}

\* Where the traffic is: the customer that is served exists, the bound on the orders
\* leaves one for each that is to come, and only flagged customers get to a scenario.
Stages ==
    /\ stage \in {"households", "customer"} \/ Attending(stage) \/ Over(stage)
    /\ stage = "households" =>
          orders = <<>> /\ returns = <<>> /\ current = 1 /\ \A c \in Customers : ~Flagged(c)
    /\ Attending(stage) => current <= NumCustomers
    /\ Over(stage) => current > NumCustomers
    /\ files # None => Over(stage)
    /\ stage \in {"order", "delivered"} =>
          Len(orders) + left + (NumCustomers - current) <= MaxOrders
    /\ stage = "order" => left > 0
    /\ stage \in {"delivered", "scenario"} => Len(orders) > 0 /\ orders[Len(orders)].user = current
    /\ stage \in {"scenario", "abuse"} => Flagged(current)

\* Orders are delivered after they were placed, and customers come one after the other.
Delivered ==
    /\ \A i \in 1..Len(orders) : \E ship \in ShipDelays, deliver \in DeliveryDelays :
          delivery[i] = orders[i].time + ship + deliver
    /\ Attending(stage) => \A i \in 1..Len(orders) : orders[i].user <= current
    /\ stage = "customer" => \A i \in 1..Len(orders) : orders[i].user < current

\* What has been returned: orders of the file, after they were placed; not the order
\* that has just been delivered, none of a flagged customer before his scenario, and
\* none of the targets of a scenario.
Returned ==
    /\ \A i \in 1..Len(returns) :
          returns[i].txn \in 1..Len(orders) /\ returns[i].time > orders[returns[i].txn].time
    /\ stage = "delivered" => \A i \in 1..Len(returns) : returns[i].txn # Len(orders)
    /\ stage \in {"order", "delivered", "scenario"} /\ Flagged(current) =>
          \A i \in 1..Len(returns) : orders[returns[i].txn].user # current
    /\ stage = "abuse" =>
          /\ targets # {}
          /\ \A g \in targets :
                /\ g.txn \in 1..Len(orders) /\ orders[g.txn].user = current
                /\ \E delay \in ReturnDelays : g.time = delivery[g.txn] + delay
                /\ \A i \in 1..Len(returns) : returns[i].txn # g.txn
          /\ \A g, h \in targets : g.txn = h.txn => g = h

Tells(label, return, flag) ==
    /\ label.id = return.id
    /\ label.fraud = (flag # None)
    /\ label.fraud => label.scenario = flag.scenario /\ label.difficulty = flag.difficulty

\* Labels tell the flags, and every flagged customer that was served has returned.
Labelling ==
    /\ \A i \in 1..Len(returns) :
         Tells(labels[i], returns[i], flags[orders[returns[i].txn].user])
    /\ \A c \in Customers : flags[c] # None /\ c < current =>
         \E i \in 1..Len(returns) : orders[returns[i].txn].user = c

IInv == Types /\ Stages /\ Delivered /\ Returned /\ Labelling

------------------------------------------------------------------------------
(* The constants.                                                          *)

\* The delays and times of the code are numbers with a largest one.
LEMMA Longest ==
    ASSUME NEW S \in {OrderTimes, ShipDelays, DeliveryDelays, ReturnDelays}
    PROVE  /\ S \subseteq Nat
           /\ LongestOf(S) \in Nat
           /\ \A d \in S : d <= LongestOf(S)
  <1>1. S \subseteq Nat /\ \E longest \in S : \A d \in S : d <= longest
    BY CommerceAssumption
  <1>2. LongestOf(S) \in S /\ \A d \in S : d <= LongestOf(S)
    BY <1>1 DEF LongestOf
  <1> QED BY <1>1, <1>2

\* The intervals of the code fit into the simulated time.
LEMMA TimesFit ==
    /\ MaxTime \in Nat
    /\ \A t \in OrderTimes : t \in 0..MaxTime
    /\ \A t \in OrderTimes, ship \in ShipDelays, deliver \in DeliveryDelays, delay \in ReturnDelays :
          /\ t + ship + deliver \in Nat
          /\ t + ship + deliver + delay \in 0..MaxTime
          /\ t + ship + deliver + delay > t
  <1>1. PICK a, b, c, d : /\ a = LongestOf(OrderTimes) /\ b = LongestOf(ShipDelays)
                          /\ c = LongestOf(DeliveryDelays) /\ d = LongestOf(ReturnDelays)
    OBVIOUS
  <1>2. MaxTime = a + b + c + d
    BY <1>1 DEF MaxTime
  <1>3. a \in Nat /\ \A t \in OrderTimes : t \in Nat /\ t <= a
    BY <1>1, Longest
  <1>4. b \in Nat /\ \A t \in ShipDelays : t \in Nat /\ t <= b
    BY <1>1, Longest
  <1>5. c \in Nat /\ \A t \in DeliveryDelays : t \in Nat /\ t <= c
    BY <1>1, Longest
  <1>6. d \in Nat /\ \A t \in ReturnDelays : t \in Nat /\ t <= d
    BY <1>1, Longest
  <1>7. \A t \in ShipDelays \cup DeliveryDelays \cup ReturnDelays : t > 0
    BY CommerceAssumption
  <1> QED BY <1>2, <1>3, <1>4, <1>5, <1>6, <1>7

\* One record more in a file.
LEMMA Appended ==
    ASSUME NEW S, NEW s \in Seq(S), NEW x \in S, NEW t, t = Append(s, x)
    PROVE  /\ t \in Seq(S) /\ Len(s) \in Nat /\ Len(t) = Len(s) + 1
           /\ t[Len(t)] = x
           /\ \A i \in 1..Len(s) : t[i] = s[i]
           /\ \A i \in 1..Len(t) : i \in 1..Len(s) \/ i = Len(t)
  OBVIOUS

------------------------------------------------------------------------------
(* The population.                                                         *)

\* The simulation starts with a population and nothing else.
LEMMA InitInv == Init => IInv
  <1> SUFFICES ASSUME Init PROVE IInv
    OBVIOUS
  <1>1. /\ own \in Populations /\ flags = [c \in Customers |-> None]
        /\ stage = "households" /\ current = 1 /\ left = 0 /\ targets = {}
        /\ orders = <<>> /\ delivery = <<>> /\ returns = <<>> /\ labels = <<>> /\ files = None
    BY DEF Init
  <1>2. own \in [Customers -> Ids]
    <2>1. own \in [Customers -> [devices : Seq(Devices), addresses : Seq(Addresses),
                                 payments : Seq(Payments)]]
      BY <1>1, CommerceAssumption
    <2>2. Seq(Devices) \subseteq Seq(AllDevices) /\ Seq(Addresses) \subseteq Seq(AllAddresses)
          /\ Seq(Payments) \subseteq Seq(AllPayments)
      BY DEF AllDevices, AllAddresses, AllPayments
    <2> QED BY <2>1, <2>2 DEF Ids
  <1>3. NonEmptyIds
    BY <1>1, CommerceAssumption DEF NonEmptyIds, NonEmpty
  <1>4. Types
    BY <1>1, <1>2, <1>3 DEF Types
  <1>5. Stages
    BY <1>1 DEF Stages, Attending, Over, Flagged
  <1>6. Delivered /\ Returned /\ Labelling
    BY <1>1, CommerceAssumption DEF Delivered, Returned, Labelling, Customers, Attending
  <1> QED BY <1>4, <1>5, <1>6 DEF IInv

\* A household adds ids of its first customer to the second.
LEMMA HouseholdKeepsIds ==
    ASSUME Types, NEW c1 \in Customers, NEW c2 \in Customers, NEW device \in BOOLEAN,
           InjectHousehold(c1, c2, device)
    PROVE  own' \in [Customers -> Ids] /\ NonEmptyIds'
  <1>1. own \in [Customers -> Ids] /\ NonEmptyIds
    BY DEF Types
  <1>2. PICK home, shared : home = own[c1].addresses[1] /\ shared = own[c1].devices[1]
    OBVIOUS
  <1>3. home \in AllAddresses /\ shared \in AllDevices
    <2>1. /\ own[c1].addresses \in Seq(AllAddresses) /\ own[c1].addresses # <<>>
          /\ own[c1].devices \in Seq(AllDevices) /\ own[c1].devices # <<>>
      BY <1>1 DEF NonEmptyIds, NonEmpty, Ids
    <2> QED BY <1>2, <2>1
  <1>4. PICK moved : moved = [own EXCEPT ![c2].addresses = With(@, home)]
    OBVIOUS
  <1>5. /\ own' = moved \/ own' = [moved EXCEPT ![c2].devices = With(@, shared)]
    BY <1>2, <1>4 DEF InjectHousehold
  <1>6. With(own[c2].addresses, home) \in Seq(AllAddresses) \ {<<>>}
    <2>1. own[c2].addresses \in Seq(AllAddresses) /\ own[c2].addresses # <<>>
      BY <1>1 DEF Ids, NonEmptyIds, NonEmpty
    <2> QED BY <1>3, <2>1 DEF With
  <1>7. With(own[c2].devices, shared) \in Seq(AllDevices) \ {<<>>}
    <2>1. own[c2].devices \in Seq(AllDevices) /\ own[c2].devices # <<>>
      BY <1>1 DEF Ids, NonEmptyIds, NonEmpty
    <2> QED BY <1>3, <2>1 DEF With
  <1>8. moved \in [Customers -> Ids]
        /\ moved[c2].devices = own[c2].devices /\ moved[c2].payments = own[c2].payments
        /\ moved[c2].addresses = With(own[c2].addresses, home)
        /\ \A c \in Customers \ {c2} : moved[c] = own[c]
    BY <1>1, <1>4, <1>6 DEF Ids
  <1>9. NonEmpty(moved)
    BY <1>1, <1>6, <1>8 DEF NonEmpty, NonEmptyIds
  <1>10. CASE own' = moved
    BY <1>8, <1>9, <1>10 DEF NonEmptyIds, NonEmpty
  <1>11. CASE own' = [moved EXCEPT ![c2].devices = With(@, shared)]
    <2>1. own' = [moved EXCEPT ![c2] = [moved[c2] EXCEPT !.devices = With(own[c2].devices, shared)]]
      BY <1>8, <1>11
    <2>2. own' \in [Customers -> Ids]
      BY <1>7, <1>8, <2>1 DEF Ids
    <2>3. NonEmptyIds'
      BY <1>7, <1>8, <1>9, <2>1 DEF NonEmptyIds, NonEmpty, Ids
    <2> QED BY <2>2, <2>3
  <1> QED BY <1>5, <1>10, <1>11

\* Nothing but ids changes while households are drawn.
LEMMA HouseholdKeepsInv ==
    ASSUME IInv, NEW c1 \in Customers, NEW c2 \in Customers, NEW device \in BOOLEAN,
           InjectHousehold(c1, c2, device)
    PROVE  IInv'
  <1>1. /\ stage = "households" /\ stage' = stage
        /\ orders' = orders /\ returns' = returns /\ labels' = labels /\ delivery' = delivery
        /\ current' = current /\ left' = left /\ targets' = targets /\ files' = files
        /\ flags' = flags
    BY DEF InjectHousehold, traffic, shop
  <1>2. orders = <<>> /\ returns = <<>> /\ current = 1
    BY <1>1 DEF IInv, Stages
  <1>3. own' \in [Customers -> Ids] /\ NonEmptyIds'
    BY HouseholdKeepsIds DEF IInv
  <1>4. Types'
    BY <1>1, <1>3 DEF IInv, Types
  <1>5. Stages'
    BY <1>1 DEF IInv, Stages, Attending, Over, Flagged
  <1>6. Delivered' /\ Returned' /\ Labelling'
    BY <1>1, <1>2 DEF Delivered, Returned, Labelling, Customers, Attending
  <1> QED BY <1>4, <1>5, <1>6 DEF IInv

\* A customer is sampled once.
LEMMA PlacedOnce ==
    ASSUME NEW draw \in Draws, NEW i \in DOMAIN draw.candidates
    PROVE  (CHOOSE j \in DOMAIN draw.candidates : draw.candidates[j] = draw.candidates[i]) = i
  <1>1. \A j \in DOMAIN draw.candidates : draw.candidates[j] = draw.candidates[i] => j = i
    BY CommerceAssumption
  <1> QED BY <1>1

\* Division keeps the order.
LEMMA DivGrows ==
    ASSUME NEW a \in Nat, NEW b \in Nat, NEW c \in Nat \ {0}, a <= b
    PROVE  a \div c \in Nat /\ b \div c \in Nat /\ a \div c <= b \div c
  OBVIOUS

\* The ids of a ring are ids of the simulation.
LEMMA RingNumbers ==
    ASSUME NEW draw \in Draws, NEW i \in DOMAIN draw.candidates
    PROVE  \A kind : Ring(kind, (i - 1) \div ClusterSize + 1) \in Rings(kind)
  <1>1. PICK seq, n : seq = draw.candidates /\ n = Len(seq)
    OBVIOUS
  <1>2. seq \in Seq(Customers) /\ \A j, k \in DOMAIN seq : j # k => seq[j] # seq[k]
    BY <1>1, CommerceAssumption
  <1>3. n \in Nat /\ DOMAIN seq = 1..n /\ seq \in [1..n -> Customers]
    BY <1>1, <1>2
  <1>4. seq \in Injection(1..n, Customers)
    BY <1>2, <1>3 DEF Injection, IsInjective
  <1>5. IsFiniteSet(Customers) /\ Cardinality(Customers) = NumCustomers
    BY CommerceAssumption, FS_Interval DEF Customers
  <1>6. Cardinality(1..n) = n
    BY <1>3, FS_Interval
  <1>7. n <= NumCustomers
    BY <1>4, <1>5, <1>6, FS_Injection
  <1>8. i - 1 \in Nat /\ NumCustomers - 1 \in Nat /\ i - 1 <= NumCustomers - 1
    BY <1>1, <1>3, <1>7, CommerceAssumption
  <1>9. PICK x, y : x = (i - 1) \div ClusterSize /\ y = (NumCustomers - 1) \div ClusterSize
    OBVIOUS
  <1>10. x \in Nat /\ y \in Nat /\ x <= y
    BY <1>8, <1>9, CommerceAssumption, DivGrows
  <1>11. x + 1 \in 1..(y + 1)
    BY <1>10
  <1> QED BY <1>9, <1>11 DEF Rings

(* What is sampled, for whom.                                              *)
Sampled(draw) == {draw.candidates[i] : i \in DOMAIN draw.candidates}
PlaceOf(draw, c) == CHOOSE i \in DOMAIN draw.candidates : draw.candidates[i] = c
InRing(draw) == {c \in Sampled(draw) : Ringed(PlaceOf(draw, c), draw.multi)}
NumberOf(draw, c) == (PlaceOf(draw, c) - 1) \div ClusterSize + 1
ScenarioOf(draw, c) == ScenarioAt(PlaceOf(draw, c), draw)

\* The ids of a customer with those of his ring.
RingIds(draw, c) ==
    [devices   |-> Append(own[c].devices, Ring("device", NumberOf(draw, c))),
     payments  |-> Append(own[c].payments, Ring("payment", NumberOf(draw, c))),
     addresses |-> IF c \in draw.addressed
                   THEN Append(own[c].addresses, Ring("address", NumberOf(draw, c)))
                   ELSE own[c].addresses]

\* What _inject_fraud_rings writes.
LEMMA RingsChange ==
    ASSUME NEW draw \in Draws, InjectRings(draw)
    PROVE  /\ own' = [c \in Customers |->
                        IF c \notin InRing(draw) THEN own[c] ELSE RingIds(draw, c)]
           /\ flags' = [c \in Customers |->
                          IF c \notin Sampled(draw) \/ ScenarioOf(draw, c) = None THEN None
                          ELSE [scenario |-> ScenarioOf(draw, c),
                                difficulty |-> draw.difficulty[c]]]
           /\ stage = "households" /\ stage' = "customer"
           /\ orders' = orders /\ returns' = returns /\ labels' = labels /\ delivery' = delivery
           /\ current' = current /\ left' = left /\ targets' = targets /\ files' = files
  BY DEF InjectRings, InRing, RingIds, Sampled, PlaceOf, NumberOf, ScenarioOf, traffic, shop

\* A sampled customer has a place, and his ring a number.
LEMMA SampledOnce ==
    ASSUME NEW draw \in Draws, NEW c \in Sampled(draw)
    PROVE  /\ c \in Customers
           /\ PlaceOf(draw, c) \in DOMAIN draw.candidates
           /\ PlaceOf(draw, c) \in 1..Len(draw.candidates)
           /\ draw.candidates[PlaceOf(draw, c)] = c
           /\ \A kind : Ring(kind, NumberOf(draw, c)) \in Rings(kind)
  <1>1. PICK i \in DOMAIN draw.candidates : c = draw.candidates[i]
    BY DEF Sampled
  <1>2. PlaceOf(draw, c) = i
    BY <1>1, PlacedOnce DEF PlaceOf
  <1>3. draw.candidates \in Seq(Customers)
    BY CommerceAssumption
  <1>4. i \in 1..Len(draw.candidates) /\ c \in Customers
    BY <1>1, <1>3
  <1> QED BY <1>1, <1>2, <1>4, RingNumbers DEF NumberOf

\* A ring adds its ids to those of its members.
LEMMA RingsKeepIds ==
    ASSUME Types, NEW draw \in Draws, InjectRings(draw)
    PROVE  own' \in [Customers -> Ids] /\ NonEmptyIds'
  <1>1. own \in [Customers -> Ids] /\ NonEmptyIds
    BY DEF Types
  <1>2. ASSUME NEW c \in Customers
        PROVE  /\ own'[c] \in Ids
               /\ own'[c].devices # <<>> /\ own'[c].addresses # <<>> /\ own'[c].payments # <<>>
    <2>1. /\ own[c] \in Ids
          /\ own[c].devices # <<>> /\ own[c].addresses # <<>> /\ own[c].payments # <<>>
      BY <1>1 DEF NonEmptyIds, NonEmpty
    <2>2. CASE c \notin InRing(draw)
      BY <2>1, <2>2, RingsChange
    <2>3. CASE c \in InRing(draw)
      <3>1. PICK d, a, y : /\ d = Ring("device", NumberOf(draw, c))
                           /\ a = Ring("address", NumberOf(draw, c))
                           /\ y = Ring("payment", NumberOf(draw, c))
        OBVIOUS
      <3>2. d \in AllDevices /\ a \in AllAddresses /\ y \in AllPayments
        BY <2>3, <3>1, SampledOnce DEF InRing, AllDevices, AllAddresses, AllPayments
      <3>3. /\ own[c].devices \in Seq(AllDevices) /\ own[c].addresses \in Seq(AllAddresses)
            /\ own[c].payments \in Seq(AllPayments)
        BY <2>1 DEF Ids
      <3>4. /\ Append(own[c].devices, d) \in Seq(AllDevices) \ {<<>>}
            /\ Append(own[c].addresses, a) \in Seq(AllAddresses) \ {<<>>}
            /\ Append(own[c].payments, y) \in Seq(AllPayments) \ {<<>>}
        BY <3>2, <3>3
      <3>5. own'[c] = [devices   |-> Append(own[c].devices, d),
                       payments  |-> Append(own[c].payments, y),
                       addresses |-> IF c \in draw.addressed THEN Append(own[c].addresses, a)
                                     ELSE own[c].addresses]
        <4>1. own'[c] = RingIds(draw, c)
          BY <2>3, RingsChange
        <4> QED BY <3>1, <4>1 DEF RingIds
      <3> QED BY <2>1, <3>3, <3>4, <3>5 DEF Ids
    <2> QED BY <2>2, <2>3
  <1>3. DOMAIN own' = Customers /\ own' = [c \in Customers |-> own'[c]]
    BY RingsChange
  <1> QED BY <1>2, <1>3 DEF NonEmptyIds, NonEmpty

\* Flags are scenarios with difficulties.
LEMMA RingsFlag ==
    ASSUME NEW draw \in Draws, InjectRings(draw)
    PROVE  flags' \in [Customers -> Flags \cup {None}]
  <1>1. \A c : ScenarioOf(draw, c) \in Scenarios \cup {None}
    BY DEF ScenarioOf, ScenarioAt, Scenarios
  <1>2. draw.difficulty \in [Customers -> Difficulties]
    BY CommerceAssumption
  <1> QED BY <1>1, <1>2, RingsChange DEF Flags

\* The traffic starts after the rings, with no order yet.
LEMMA RingsKeepInv ==
    ASSUME IInv, NEW draw \in Draws, InjectRings(draw)
    PROVE  IInv'
  <1>1. /\ stage = "households" /\ stage' = "customer"
        /\ orders' = orders /\ returns' = returns /\ labels' = labels /\ delivery' = delivery
        /\ current' = current /\ left' = left /\ targets' = targets /\ files' = files
    BY RingsChange
  <1>2. orders = <<>> /\ returns = <<>> /\ current = 1
    BY <1>1 DEF IInv, Stages
  <1>3. Types'
    BY <1>1, RingsKeepIds, RingsFlag DEF IInv, Types
  <1>4. Stages'
    BY <1>1 DEF IInv, Stages, Attending, Over
  <1>5. Delivered' /\ Returned' /\ Labelling'
    BY <1>1, <1>2 DEF Delivered, Returned, Labelling, Customers, Attending
  <1> QED BY <1>3, <1>4, <1>5 DEF IInv

\* In a ring is somebody else with the same number.
LEMMA RingsAreShared ==
    ASSUME NEW draw \in Draws, NEW c \in InRing(draw)
    PROVE  \E d \in InRing(draw) : d # c /\ NumberOf(draw, d) = NumberOf(draw, c)
  <1>1. PICK i, n, multi, seq : /\ i = PlaceOf(draw, c) /\ n = (i - 1) \div ClusterSize
                                /\ multi = draw.multi /\ seq = draw.candidates
    OBVIOUS
  <1>2. /\ multi \in Nat /\ seq \in Seq(Customers) /\ multi <= Len(seq)
        /\ \A j, k \in DOMAIN seq : j # k => seq[j] # seq[k]
    <2>1. draw.serial \in Nat /\ draw.multi + draw.serial <= Len(draw.candidates)
          /\ draw.multi \in Nat /\ draw.candidates \in Seq(Customers)
      BY CommerceAssumption
    <2>2. \A j, k \in DOMAIN seq : j # k => seq[j] # seq[k]
      BY <1>1, CommerceAssumption
    <2> QED BY <1>1, <2>1, <2>2
  <1>3. i \in DOMAIN seq /\ i \in 1..Len(seq) /\ seq[i] = c
    BY <1>1, SampledOnce DEF InRing
  <1>4. i <= multi /\ Cardinality(Cluster(i, multi)) > 1
    BY <1>1 DEF InRing, Ringed
  <1>5. \E j \in Cluster(i, multi) : j # i
    <2> SUFFICES ASSUME \A j \in Cluster(i, multi) : j = i PROVE FALSE
      OBVIOUS
    <2>1. Cluster(i, multi) \in SUBSET {i}
      OBVIOUS
    <2>2. IsFiniteSet({i}) /\ Cardinality({i}) = 1
      BY FS_Singleton
    <2>3. IsFiniteSet(Cluster(i, multi)) /\ Cardinality(Cluster(i, multi)) <= 1
      BY <2>1, <2>2, FS_Subset
    <2>4. Cardinality(Cluster(i, multi)) \in Nat
      BY <2>3, FS_CardinalityType
    <2> QED BY <1>4, <2>3, <2>4
  <1>6. PICK j \in 1..multi : j # i /\ (j - 1) \div ClusterSize = (i - 1) \div ClusterSize
    BY <1>5 DEF Cluster
  <1>7. Cluster(j, multi) = Cluster(i, multi)
    BY <1>6 DEF Cluster
  <1>8. j \in DOMAIN seq /\ j <= multi
    BY <1>2
  <1>9. PICK d : d = seq[j]
    OBVIOUS
  <1>10. d # c
    BY <1>2, <1>3, <1>6, <1>8, <1>9
  <1>11. d \in Sampled(draw) /\ PlaceOf(draw, d) = j
    BY <1>1, <1>8, <1>9, PlacedOnce DEF Sampled, PlaceOf
  <1>12. Ringed(j, multi)
    BY <1>4, <1>7, <1>8 DEF Ringed
  <1>13. d \in InRing(draw)
    BY <1>1, <1>11, <1>12 DEF InRing
  <1>14. NumberOf(draw, d) = NumberOf(draw, c)
    BY <1>1, <1>6, <1>11 DEF NumberOf
  <1> QED BY <1>10, <1>13, <1>14

\* Who is in a ring is flagged for it, and only he.
LEMMA RingsAreFlagged ==
    ASSUME NEW draw \in Draws, InjectRings(draw), NEW c \in Customers
    PROVE  c \in InRing(draw) <=> flags'[c] # None /\ flags'[c].scenario = "multi_account_abuse"
  <1>1. c \in InRing(draw) <=> c \in Sampled(draw) /\ Ringed(PlaceOf(draw, c), draw.multi)
    BY DEF InRing
  <1>2. flags'[c] = IF c \notin Sampled(draw) \/ ScenarioOf(draw, c) = None THEN None
                    ELSE [scenario |-> ScenarioOf(draw, c), difficulty |-> draw.difficulty[c]]
    BY RingsChange
  <1>3. draw.difficulty[c] \in Difficulties
    BY CommerceAssumption
  <1>4. CASE c \in InRing(draw)
    <2>1. c \in Sampled(draw) /\ ScenarioOf(draw, c) = "multi_account_abuse"
      BY <1>1, <1>4 DEF ScenarioOf, ScenarioAt
    <2>2. [scenario |-> ScenarioOf(draw, c), difficulty |-> draw.difficulty[c]] \in Flags
      BY <1>3, <2>1 DEF Flags, Scenarios
    <2>3. ScenarioOf(draw, c) # None
      BY <2>1, CommerceAssumption DEF Scenarios
    <2>4. flags'[c] = [scenario |-> ScenarioOf(draw, c), difficulty |-> draw.difficulty[c]]
      BY <1>2, <2>1, <2>3
    <2> QED BY <1>4, <2>1, <2>2, <2>4, CommerceAssumption
  <1>5. CASE c \notin InRing(draw)
    <2>1. CASE c \notin Sampled(draw) \/ ScenarioOf(draw, c) = None
      BY <1>2, <1>5, <2>1
    <2>2. CASE c \in Sampled(draw) /\ ScenarioOf(draw, c) # None
      <3>1. ScenarioOf(draw, c) # "multi_account_abuse"
        BY <1>1, <1>5, <2>2 DEF ScenarioOf, ScenarioAt
      <3>2. flags'[c].scenario = ScenarioOf(draw, c)
        BY <1>2, <2>2
      <3> QED BY <1>5, <3>1, <3>2
    <2> QED BY <2>1, <2>2
  <1> QED BY <1>4, <1>5

\* The last id of a list is held.
LEMMA AppendedIsHeld ==
    ASSUME NEW S, NEW seq \in Seq(S), NEW x
    PROVE  Holds(Append(seq, x), x)
  <1>1. Len(seq) + 1 \in DOMAIN Append(seq, x) /\ Append(seq, x)[Len(seq) + 1] = x
    OBVIOUS
  <1> QED BY <1>1 DEF Holds

\* Two members of one ring share its device and its card.
LEMMA RingsDrawnShare ==
    ASSUME Types, NEW draw \in Draws, InjectRings(draw)
    PROVE  RingsShare'
  <1> SUFFICES ASSUME NEW c \in Customers, flags'[c] # None,
                      flags'[c].scenario = "multi_account_abuse"
               PROVE  \E d \in Customers \ {c} :
                        /\ flags'[d] # None /\ flags'[d].scenario = "multi_account_abuse"
                        /\ \E x \in AllDevices : Holds(own'[c].devices, x) /\ Holds(own'[d].devices, x)
                        /\ \E x \in AllPayments : Holds(own'[c].payments, x) /\ Holds(own'[d].payments, x)
    BY DEF RingsShare, Flagged
  <1>1. c \in InRing(draw)
    BY RingsAreFlagged
  <1>2. PICK d \in InRing(draw) : d # c /\ NumberOf(draw, d) = NumberOf(draw, c)
    BY <1>1, RingsAreShared
  <1>3. d \in Customers
    BY <1>2, SampledOnce DEF InRing
  <1>4. flags'[d] # None /\ flags'[d].scenario = "multi_account_abuse"
    BY <1>2, <1>3, RingsAreFlagged
  <1>5. PICK dev, pay : /\ dev = Ring("device", NumberOf(draw, c))
                        /\ pay = Ring("payment", NumberOf(draw, c))
    OBVIOUS
  <1>6. dev \in AllDevices /\ pay \in AllPayments
    BY <1>1, <1>5, SampledOnce DEF InRing, AllDevices, AllPayments
  <1>7. ASSUME NEW m \in InRing(draw), NumberOf(draw, m) = NumberOf(draw, c), m \in Customers
        PROVE  Holds(own'[m].devices, dev) /\ Holds(own'[m].payments, pay)
    <2>1. own[m].devices \in Seq(AllDevices) /\ own[m].payments \in Seq(AllPayments)
      BY <1>7 DEF Types, Ids
    <2>2. own'[m] = [devices   |-> Append(own[m].devices, dev),
                     payments  |-> Append(own[m].payments, pay),
                     addresses |-> IF m \in draw.addressed
                                   THEN Append(own[m].addresses, Ring("address", NumberOf(draw, m)))
                                   ELSE own[m].addresses]
      <3>1. dev = Ring("device", NumberOf(draw, m)) /\ pay = Ring("payment", NumberOf(draw, m))
        BY <1>5, <1>7
      <3>2. own'[m] = RingIds(draw, m)
        BY <1>7, RingsChange
      <3> QED BY <3>1, <3>2 DEF RingIds
    <2>3. own'[m].devices = Append(own[m].devices, dev)
          /\ own'[m].payments = Append(own[m].payments, pay)
      BY <2>2
    <2> QED BY <2>1, <2>3, AppendedIsHeld
  <1>8. /\ Holds(own'[c].devices, dev) /\ Holds(own'[c].payments, pay)
        /\ Holds(own'[d].devices, dev) /\ Holds(own'[d].payments, pay)
    BY <1>1, <1>2, <1>3, <1>7
  <1> QED BY <1>2, <1>3, <1>4, <1>6, <1>8

------------------------------------------------------------------------------
(* The traffic.                                                            *)

\* What the proofs below take from the invariant about numbers and files.
LEMMA Known ==
    ASSUME IInv
    PROVE  /\ NumCustomers \in Nat /\ MaxOrders \in Nat /\ current \in Nat /\ current > 0 /\ left \in Nat
           /\ Len(orders) \in Nat /\ DOMAIN orders = 1..Len(orders)
           /\ Len(returns) \in Nat /\ Len(labels) = Len(returns) /\ Len(delivery) = Len(orders)
           /\ \A i \in 1..Len(orders) : /\ orders[i] \in Placed /\ orders[i].time \in Nat
                                        /\ orders[i].user \in Nat /\ orders[i].user > 0
                                        /\ orders[i].time \in OrderTimes
                                        /\ delivery[i] \in Nat
           /\ \A i \in 1..Len(returns) : /\ returns[i] \in Requested
                                         /\ returns[i].txn \in 1..Len(orders)
                                         /\ returns[i].time \in Nat
  <1>1. NumCustomers \in Nat /\ MaxOrders \in Nat /\ OrderTimes \subseteq Nat
    BY CommerceAssumption
  <1>2. /\ current \in Nat /\ current > 0 /\ left \in Nat
        /\ orders \in Seq(Placed) /\ returns \in Seq(Requested) /\ delivery \in Seq(Nat)
        /\ Len(labels) = Len(returns) /\ Len(delivery) = Len(orders)
    BY DEF IInv, Types
  <1>3. /\ Len(orders) \in Nat /\ DOMAIN orders = 1..Len(orders) /\ Len(returns) \in Nat
        /\ \A i \in 1..Len(orders) : orders[i] \in Placed
        /\ \A i \in 1..Len(returns) : returns[i] \in Requested
        /\ \A i \in 1..Len(orders) : delivery[i] \in Nat
    BY <1>2
  <1>4. \A o \in Placed : o.time \in OrderTimes /\ o.user \in Nat /\ o.user > 0
    BY <1>1 DEF Placed, Customers
  <1>5. MaxTime \in Nat
    BY TimesFit
  <1>6. \A r \in Requested : r.time \in Nat
    BY <1>5 DEF Requested
  <1>7. \A i \in 1..Len(returns) : returns[i].txn \in 1..Len(orders)
    BY DEF IInv, Returned
  <1> QED BY <1>1, <1>2, <1>3, <1>4, <1>6, <1>7

\* Customers are numbers.
LEMMA UsersTyped ==
    ASSUME IInv
    PROVE  \A i \in 1..Len(orders) : orders[i].user \in Nat
  BY Known

\* The next customer has not ordered yet.
LEMMA BeginCustomerKeepsInv ==
    ASSUME IInv, NEW n \in 1..MaxPerCustomer, BeginCustomer(n)
    PROVE  IInv'
  <1>1. /\ stage = "customer" /\ stage' = "order" /\ current <= NumCustomers
        /\ Len(orders) + n + (NumCustomers - current) <= MaxOrders /\ left' = n
        /\ orders' = orders /\ returns' = returns /\ labels' = labels /\ delivery' = delivery
        /\ current' = current /\ targets' = targets /\ files' = files /\ own' = own
        /\ flags' = flags
    BY DEF BeginCustomer, world, shop
  <1>2. n \in Nat /\ n > 0
    BY CommerceAssumption
  <1>3. Types'
    BY <1>1, <1>2 DEF IInv, Types, NonEmptyIds
  <1>4. Stages'
    BY <1>1, <1>2, Known DEF IInv, Stages, Attending, Over, Flagged
  <1>5. Delivered'
    BY <1>1, Known DEF IInv, Delivered, Attending
  <1>6. Returned'
    <2>1. \A i \in 1..Len(returns) : orders[returns[i].txn].user # current
      BY <1>1, Known DEF IInv, Delivered
    <2> QED BY <1>1, <2>1 DEF IInv, Returned
  <1>7. Labelling'
    BY <1>1 DEF IInv, Labelling, Flagged
  <1> QED BY <1>3, <1>4, <1>5, <1>6, <1>7 DEF IInv

\* From an order the traffic goes to the next one, to the scenario of a flagged
\* customer or to the next customer.
LEMMA OnwardsGoes ==
    ASSUME IInv, stage = "delivered", Onwards(current), NextCustomer, flags' = flags,
           orders' = orders, left' = left, files' = files
    PROVE  /\ Stages'
           /\ current' \in Nat \ {0}
           /\ \/ stage' \in {"order", "scenario"} /\ current' = current
              \/ stage' = "customer" /\ current' = current + 1 /\ ~Flagged(current)
  <1>1. \/ stage' = "order" /\ left > 0
        \/ stage' = "scenario" /\ Flagged(current)
        \/ stage' = "customer" /\ ~Flagged(current)
    BY DEF Onwards
  <1>2. current' = IF stage' = "customer" THEN current + 1 ELSE current
    BY DEF NextCustomer
  <1>3. /\ current <= NumCustomers /\ Len(orders) > 0 /\ orders[Len(orders)].user = current
        /\ Len(orders) + left + (NumCustomers - current) <= MaxOrders
        /\ files = None
    BY DEF IInv, Stages, Attending, Over
  <1>4. \/ stage' \in {"order", "scenario"} /\ current' = current
        \/ stage' = "customer" /\ current' = current + 1 /\ ~Flagged(current)
    BY <1>1, <1>2
  <1>5. current' \in Nat \ {0}
    BY <1>4, Known
  <1>6. Flagged(current)' <=> flags[current'] # None
    BY DEF Flagged
  <1>7. Stages'
    BY <1>1, <1>2, <1>3, <1>6 DEF Stages, Attending, Over, Flagged
  <1> QED BY <1>4, <1>5, <1>7

\* A kept order stays out of the returns.
LEMMA KeepKeepsInv ==
    ASSUME IInv, Keep
    PROVE  IInv'
  <1>1. /\ stage = "delivered" /\ Onwards(current) /\ NextCustomer
        /\ orders' = orders /\ returns' = returns /\ labels' = labels /\ delivery' = delivery
        /\ left' = left /\ targets' = targets /\ files' = files /\ own' = own /\ flags' = flags
    BY DEF Keep, world, shop
  <1>2. /\ Stages'
        /\ current' \in Nat \ {0}
        /\ \/ stage' \in {"order", "scenario"} /\ current' = current
           \/ stage' = "customer" /\ current' = current + 1 /\ ~Flagged(current)
    BY <1>1, OnwardsGoes
  <1>3. Types'
    BY <1>1, <1>2 DEF IInv, Types, NonEmptyIds
  <1>4. Delivered'
    BY <1>1, <1>2, Known DEF IInv, Delivered, Attending
  <1>5. Returned'
    <2>1. stage' # "delivered" /\ stage' # "abuse"
      BY <1>2
    <2>2. stage' = "customer" \/ current' = current
      BY <1>2
    <2>3. Flagged(current) => \A i \in 1..Len(returns) : orders[returns[i].txn].user # current
      BY <1>1 DEF IInv, Returned
    <2>4. \A i \in 1..Len(returns) :
             returns[i].txn \in 1..Len(orders) /\ returns[i].time > orders[returns[i].txn].time
      BY DEF IInv, Returned
    <2> QED BY <1>1, <2>1, <2>2, <2>3, <2>4 DEF Returned, Flagged
  <1>6. Labelling'
    <2>1. \A c \in Customers : flags[c] # None /\ c < current' => c < current
      <3> SUFFICES ASSUME NEW c \in Customers, flags[c] # None, c < current' PROVE c < current
        OBVIOUS
      <3>1. c \in Nat /\ current \in Nat
        BY Known DEF Customers
      <3> QED BY <1>2, <3>1 DEF Flagged
    <2> QED BY <1>1, <2>1 DEF IInv, Labelling, Flagged
  <1> QED BY <1>2, <1>3, <1>4, <1>5, <1>6 DEF IInv

\* What PlaceOrder writes: the order, and when it arrives.
Writes(order, arrival) ==
    /\ stage = "order" /\ stage' = "delivered" /\ current <= NumCustomers
    /\ left > 0 /\ left' = left - 1
    /\ orders' = Append(orders, order)
    /\ orders' \in Seq(Placed) /\ Len(orders') = Len(orders) + 1
    /\ orders'[Len(orders')] = order
    /\ \A i \in 1..Len(orders) : orders'[i] = orders[i]
    /\ \A i \in 1..Len(orders') : i \in 1..Len(orders) \/ i = Len(orders')
    /\ delivery' \in Seq(Nat) /\ Len(delivery') = Len(orders')
    /\ delivery'[Len(orders')] = arrival
    /\ \A i \in 1..Len(orders) : delivery'[i] = delivery[i]
    /\ returns' = returns /\ labels' = labels /\ current' = current
    /\ targets' = targets /\ files' = files /\ own' = own /\ flags' = flags

\* PlaceOrder writes one order and its arrival.
LEMMA OrderPlaced ==
    ASSUME IInv, NEW t \in OrderTimes, NEW p \in Products, NEW d \in AllDevices,
           NEW a \in AllAddresses, NEW y \in AllPayments, NEW ship \in ShipDelays,
           NEW deliver \in DeliveryDelays, PlaceOrder(t, p, d, a, y, ship, deliver)
    PROVE  Writes([user |-> current, product |-> p, time |-> t,
                   device |-> d, address |-> a, payment |-> y], t + ship + deliver)
  <1>1. PICK order : order = [user |-> current, product |-> p, time |-> t,
                              device |-> d, address |-> a, payment |-> y]
    OBVIOUS
  <1>2. /\ stage = "order" /\ stage' = "delivered" /\ left' = left - 1
        /\ orders' = Append(orders, order) /\ delivery' = Append(delivery, t + ship + deliver)
        /\ returns' = returns /\ labels' = labels /\ current' = current
        /\ targets' = targets /\ files' = files /\ own' = own /\ flags' = flags
    BY <1>1 DEF PlaceOrder, world
  <1>3. current <= NumCustomers /\ left > 0
    BY <1>2 DEF IInv, Stages, Attending
  <1>4. order \in Placed
    BY <1>1, <1>3, Known DEF Placed, Customers
  <1>5. orders \in Seq(Placed) /\ delivery \in Seq(Nat) /\ Len(delivery) = Len(orders)
    BY DEF IInv, Types
  <1>6. t + ship + deliver \in Nat
    <2>1. PICK delay \in ReturnDelays : TRUE
      BY CommerceAssumption
    <2> QED BY <2>1, TimesFit
  <1>7. /\ orders' \in Seq(Placed) /\ Len(orders) \in Nat /\ Len(orders') = Len(orders) + 1
        /\ orders'[Len(orders')] = order
        /\ \A i \in 1..Len(orders) : orders'[i] = orders[i]
        /\ \A i \in 1..Len(orders') : i \in 1..Len(orders) \/ i = Len(orders')
    BY <1>2, <1>4, <1>5, Appended
  <1>8. /\ delivery' \in Seq(Nat) /\ Len(delivery') = Len(delivery) + 1
        /\ delivery'[Len(delivery')] = t + ship + deliver
        /\ \A i \in 1..Len(delivery) : delivery'[i] = delivery[i]
    BY <1>2, <1>5, <1>6, Appended
  <1>9. /\ Len(delivery') = Len(orders') /\ delivery'[Len(orders')] = t + ship + deliver
        /\ \A i \in 1..Len(orders) : delivery'[i] = delivery[i]
    BY <1>5, <1>7, <1>8
  <1> QED BY <1>1, <1>2, <1>3, <1>7, <1>8, <1>9 DEF Writes

\* The new order is the last one, and nobody has returned it.
LEMMA PlaceKeepsInv ==
    ASSUME IInv, NEW t \in OrderTimes, NEW p \in Products, NEW d \in AllDevices,
           NEW a \in AllAddresses, NEW y \in AllPayments, NEW ship \in ShipDelays,
           NEW deliver \in DeliveryDelays, PlaceOrder(t, p, d, a, y, ship, deliver)
    PROVE  IInv'
  <1>a. PICK order : order = [user |-> current, product |-> p, time |-> t,
                              device |-> d, address |-> a, payment |-> y]
    OBVIOUS
  <1>b. Writes(order, t + ship + deliver)
    BY <1>a, OrderPlaced
  <1>1. /\ stage = "order" /\ stage' = "delivered" /\ current <= NumCustomers
        /\ left > 0 /\ left' = left - 1
        /\ orders' \in Seq(Placed) /\ Len(orders') = Len(orders) + 1
        /\ orders'[Len(orders')].user = current /\ orders'[Len(orders')].time = t
        /\ \A i \in 1..Len(orders) : orders'[i] = orders[i]
        /\ \A i \in 1..Len(orders') : i \in 1..Len(orders) \/ i = Len(orders')
    BY <1>a, <1>b DEF Writes
  <1>2. /\ delivery' \in Seq(Nat) /\ Len(delivery') = Len(orders')
        /\ delivery'[Len(orders')] = t + ship + deliver
        /\ \A i \in 1..Len(orders) : delivery'[i] = delivery[i]
        /\ returns' = returns /\ labels' = labels /\ current' = current
        /\ targets' = targets /\ files' = files /\ own' = own /\ flags' = flags
    BY <1>a, <1>b DEF Writes
  <1>3. Types'
    BY <1>1, <1>2, Known DEF IInv, Types, NonEmptyIds
  <1>4. Stages'
    <2>1. files = None /\ Len(orders) + left + (NumCustomers - current) <= MaxOrders
      BY <1>1 DEF IInv, Stages, Over
    <2>2. Len(orders') + left' + (NumCustomers - current) <= MaxOrders /\ Len(orders') > 0
      BY <1>1, <2>1, Known
    <2> QED BY <1>1, <1>2, <2>1, <2>2 DEF Stages, Attending, Over
  <1>5. Delivered'
    <2>1. \A i \in 1..Len(orders') : \E s \in ShipDelays, e \in DeliveryDelays :
             delivery'[i] = orders'[i].time + s + e
      BY <1>1, <1>2 DEF IInv, Delivered
    <2>2. \A i \in 1..Len(orders') : orders'[i].user <= current
      BY <1>1, Known DEF IInv, Delivered, Attending
    <2> QED BY <1>1, <1>2, <2>1, <2>2 DEF Delivered, Attending
  <1>6. \A i \in 1..Len(returns) : /\ returns[i].txn \in 1..Len(orders')
                                   /\ returns[i].txn # Len(orders')
                                   /\ orders'[returns[i].txn] = orders[returns[i].txn]
    BY <1>1, Known
  <1>7. Returned'
    <2>1. \A i \in 1..Len(returns) : returns[i].time > orders[returns[i].txn].time
      BY DEF IInv, Returned
    <2>2. flags[current] # None =>
             \A i \in 1..Len(returns) : orders[returns[i].txn].user # current
      BY <1>1 DEF IInv, Returned, Flagged
    <2>3. ASSUME NEW i \in 1..Len(returns)
          PROVE  /\ returns[i].time > orders'[returns[i].txn].time
                 /\ flags[current] # None => orders'[returns[i].txn].user # current
      <3>1. PICK before, after : before = orders[returns[i].txn] /\ after = orders'[returns[i].txn]
        OBVIOUS
      <3>2. before = after
        BY <1>6, <3>1
      <3>3. returns[i].time > before.time /\ (flags[current] # None => before.user # current)
        BY <2>1, <2>2, <3>1
      <3> QED BY <3>1, <3>2, <3>3
    <2>4. /\ Len(returns') = Len(returns) /\ stage' = "delivered"
          /\ flags'[current'] = flags[current]
      BY <1>1, <1>2
    <2>5. \A i \in 1..Len(returns') :
             /\ returns'[i].txn \in 1..Len(orders') /\ returns'[i].txn # Len(orders')
             /\ returns'[i].time > orders'[returns'[i].txn].time
             /\ flags'[current'] # None => orders'[returns'[i].txn].user # current'
      BY <1>2, <1>6, <2>3
    <2> QED BY <2>4, <2>5 DEF Returned, Flagged
  <1>8. Labelling'
    <2>1. \A i \in 1..Len(returns) : orders'[returns[i].txn].user = orders[returns[i].txn].user
      BY <1>6
    <2>2. \A i \in 1..Len(returns) :
             Tells(labels[i], returns[i], flags[orders'[returns[i].txn].user])
      BY <2>1 DEF IInv, Labelling
    <2>3. \A c \in Customers : flags[c] # None /\ c < current =>
             \E i \in 1..Len(returns) : orders'[returns[i].txn].user = c
      BY <2>1 DEF IInv, Labelling
    <2> QED BY <1>2, <2>2, <2>3 DEF Labelling
  <1> QED BY <1>3, <1>4, <1>5, <1>7, <1>8 DEF IInv

------------------------------------------------------------------------------
(* The returns.                                                            *)

\* A return is requested after its order, within the simulated time.
LEMMA RequestInTime ==
    ASSUME IInv, NEW i \in 1..Len(orders), NEW delay \in ReturnDelays
    PROVE  delivery[i] + delay \in 0..MaxTime /\ delivery[i] + delay > orders[i].time
  <1>1. PICK ship \in ShipDelays, deliver \in DeliveryDelays :
           delivery[i] = orders[i].time + ship + deliver
    BY DEF IInv, Delivered
  <1>2. PICK t, x : t = orders[i].time /\ x = delivery[i]
    OBVIOUS
  <1>3. t \in OrderTimes
    BY <1>2, Known
  <1>4. t + ship + deliver + delay \in 0..MaxTime /\ t + ship + deliver + delay > t
    BY <1>3, TimesFit
  <1> QED BY <1>1, <1>2, <1>4

\* One return and its label more.
Files(r, l) ==
    /\ returns' \in Seq(Requested) /\ labels' \in Seq(Labelled)
    /\ Len(returns') = Len(returns) + 1 /\ Len(labels') = Len(returns')
    /\ returns'[Len(returns')] = r /\ labels'[Len(returns')] = l
    /\ \A i \in 1..Len(returns) : returns'[i] = returns[i] /\ labels'[i] = labels[i]
    /\ \A i \in 1..Len(returns') : i \in 1..Len(returns) \/ i = Len(returns')

\* A return and its label have the same place.
LEMMA ReturnFiled ==
    ASSUME IInv, NEW r \in Requested, NEW l \in Labelled,
           returns' = Append(returns, r), labels' = Append(labels, l)
    PROVE  Files(r, l)
  <1>1. returns \in Seq(Requested) /\ labels \in Seq(Labelled) /\ Len(labels) = Len(returns)
    BY DEF IInv, Types
  <1>2. /\ returns' \in Seq(Requested) /\ Len(returns') = Len(returns) + 1
        /\ returns'[Len(returns')] = r
        /\ \A i \in 1..Len(returns) : returns'[i] = returns[i]
        /\ \A i \in 1..Len(returns') : i \in 1..Len(returns) \/ i = Len(returns')
    BY <1>1, Appended
  <1>3. /\ labels' \in Seq(Labelled) /\ Len(labels') = Len(labels) + 1
        /\ labels'[Len(labels')] = l
        /\ \A i \in 1..Len(labels) : labels'[i] = labels[i]
    BY <1>1, Appended
  <1>4. Len(labels') = Len(returns')
    BY <1>1, <1>2, <1>3
  <1> QED BY <1>1, <1>2, <1>3, <1>4 DEF Files

\* What the files say of every return, if it holds of the new one.
Told ==
    \A i \in 1..Len(returns) :
       /\ returns[i].txn \in 1..Len(orders) /\ returns[i].time > orders[returns[i].txn].time
       /\ Tells(labels[i], returns[i], flags[orders[returns[i].txn].user])

\* The files stay true if the new return is.
LEMMA ReturnTold ==
    ASSUME IInv, NEW r, NEW l, Files(r, l), orders' = orders, flags' = flags,
           r.txn \in 1..Len(orders), r.time > orders[r.txn].time,
           Tells(l, r, flags[orders[r.txn].user])
    PROVE  Told'
  <1>1. Told
    BY DEF IInv, Returned, Labelling, Told
  <1>2. /\ returns'[Len(returns')] = r /\ labels'[Len(returns')] = l
        /\ \A i \in 1..Len(returns) : returns'[i] = returns[i] /\ labels'[i] = labels[i]
        /\ \A i \in 1..Len(returns') : i \in 1..Len(returns) \/ i = Len(returns')
    BY DEF Files
  <1>3. ASSUME NEW i \in 1..Len(returns')
        PROVE  /\ returns'[i].txn \in 1..Len(orders)
               /\ returns'[i].time > orders[returns'[i].txn].time
               /\ Tells(labels'[i], returns'[i], flags[orders[returns'[i].txn].user])
    <2>1. CASE i \in 1..Len(returns)
      <3>1. returns'[i] = returns[i] /\ labels'[i] = labels[i]
        BY <1>2, <2>1
      <3>2. /\ returns[i].txn \in 1..Len(orders) /\ returns[i].time > orders[returns[i].txn].time
            /\ Tells(labels[i], returns[i], flags[orders[returns[i].txn].user])
        BY <1>1, <2>1 DEF Told
      <3> QED BY <3>1, <3>2
    <2>2. CASE i = Len(returns')
      <3>1. returns'[i] = r /\ labels'[i] = l
        BY <1>2, <2>2
      <3> QED BY <3>1
    <2> QED BY <1>2, <2>1, <2>2
  <1> QED BY <1>3 DEF Told

\* The return and the label of a customer who is not flagged.
LEMMA LegitimateFiled ==
    ASSUME IInv, NEW delay \in ReturnDelays, ReturnLegitimately(delay)
    PROVE  \E r, l : /\ Files(r, l) /\ Told'
                     /\ r.txn = Len(orders) /\ r.time = delivery[Len(orders)] + delay
  <1>1. PICK r, l : /\ r = Return("legitimate", Len(orders), delivery[Len(orders)] + delay)
                    /\ l = [id |-> <<"legitimate", Len(orders)>>, fraud |-> FALSE,
                            scenario |-> "legitimate", difficulty |-> None]
    OBVIOUS
  <1>2. /\ stage = "delivered" /\ ~Flagged(current) /\ Onwards(current) /\ NextCustomer
        /\ returns' = Append(returns, r) /\ labels' = Append(labels, l)
        /\ orders' = orders /\ delivery' = delivery
        /\ left' = left /\ targets' = targets /\ files' = files /\ own' = own /\ flags' = flags
    BY <1>1 DEF ReturnLegitimately, MayReturn, world
  <1>3. Len(orders) > 0 /\ orders[Len(orders)].user = current
    BY <1>2 DEF IInv, Stages
  <1>4. Len(orders) \in 1..Len(orders)
    BY <1>3, Known
  <1>5. r.id = <<"legitimate", Len(orders)>> /\ r.txn = Len(orders)
        /\ r.time = delivery[Len(orders)] + delay
    BY <1>1 DEF Return
  <1>6. r.time \in 0..MaxTime /\ r.time > orders[Len(orders)].time
    BY <1>4, <1>5, RequestInTime
  <1>7. r \in Requested
    BY <1>1, <1>5, <1>6, Known DEF Requested, Kinds, Return
  <1>8. l \in Labelled
    BY <1>1, Known DEF Labelled, Kinds
  <1>9. Files(r, l)
    BY <1>2, <1>7, <1>8, ReturnFiled
  <1>10. Tells(l, r, flags[orders[r.txn].user])
    BY <1>1, <1>2, <1>3, <1>5 DEF Tells, Flagged
  <1>11. Told'
    BY <1>2, <1>4, <1>5, <1>6, <1>9, <1>10, ReturnTold
  <1> QED BY <1>5, <1>9, <1>11

\* The customer is not flagged, and the order is not in question again.
LEMMA LegitimateKeepsInv ==
    ASSUME IInv, NEW delay \in ReturnDelays, ReturnLegitimately(delay)
    PROVE  IInv'
  <1>1. /\ stage = "delivered" /\ ~Flagged(current) /\ Onwards(current) /\ NextCustomer
        /\ orders' = orders /\ delivery' = delivery
        /\ left' = left /\ targets' = targets /\ files' = files /\ own' = own /\ flags' = flags
    BY DEF ReturnLegitimately, MayReturn, world
  <1>2. PICK r, l : Files(r, l) /\ Told'
    BY LegitimateFiled
  <1>3. /\ Stages'
         /\ current' \in Nat \ {0}
         /\ \/ stage' \in {"order", "scenario"} /\ current' = current
            \/ stage' = "customer" /\ current' = current + 1 /\ ~Flagged(current)
    BY <1>1, OnwardsGoes
  <1>4. Types'
    BY <1>1, <1>2, <1>3 DEF IInv, Types, NonEmptyIds, Files
  <1>5. Delivered'
    <2>1. \A i \in 1..Len(orders) : orders[i].user \in Nat /\ orders[i].user <= current
      <3>1. Attending(stage)
        BY <1>1 DEF Attending
      <3>2. \A i \in 1..Len(orders) : orders[i].user <= current
        BY <3>1 DEF IInv, Delivered
      <3> QED BY <3>2, UsersTyped
    <2>2. \/ stage' # "customer" /\ current' = current
          \/ current' = current + 1
      BY <1>3
    <2>3. \A i \in 1..Len(orders) :
             orders[i].user <= current' /\ (stage' = "customer" => orders[i].user < current')
      BY <2>1, <2>2, Known
    <2>4. \A i \in 1..Len(orders) : \E ship \in ShipDelays, deliver \in DeliveryDelays :
             delivery[i] = orders[i].time + ship + deliver
      BY DEF IInv, Delivered
    <2>5. orders' = orders /\ delivery' = delivery
      BY <1>1
    <2>6. \A i \in 1..Len(orders') :
             orders'[i].user <= current' /\ (stage' = "customer" => orders'[i].user < current')
      BY <2>3, <2>5
    <2>7. \A i \in 1..Len(orders') : \E ship \in ShipDelays, deliver \in DeliveryDelays :
             delivery'[i] = orders'[i].time + ship + deliver
      BY <2>4, <2>5
    <2> QED BY <2>6, <2>7 DEF Delivered
  <1>6. Returned'
    <2>1. stage' # "delivered" /\ stage' # "abuse"
      BY <1>3
    <2>2. stage' = "customer" \/ flags'[current'] = None
      BY <1>1, <1>3 DEF Flagged
    <2> QED BY <1>2, <2>1, <2>2 DEF Returned, Told, Flagged
  <1>7. Labelling'
    <2>1. ASSUME NEW c \in Customers, flags[c] # None, c < current'
          PROVE  \E i \in 1..Len(returns') : orders[returns'[i].txn].user = c
      <3>1. c < current
        <4>1. c \in Nat /\ current \in Nat
          BY Known DEF Customers
        <4> QED BY <1>1, <1>3, <2>1, <4>1 DEF Flagged
      <3>2. PICK i \in 1..Len(returns) : orders[returns[i].txn].user = c
        BY <2>1, <3>1 DEF IInv, Labelling
      <3>3. i \in 1..Len(returns') /\ returns'[i] = returns[i]
        BY <1>2, Known DEF Files
      <3> QED BY <3>2, <3>3
    <2> QED BY <1>1, <1>2, <2>1 DEF Labelling, Told
  <1> QED BY <1>3, <1>4, <1>5, <1>6, <1>7 DEF IInv

------------------------------------------------------------------------------
(* The scenarios.                                                          *)

\* A set of transactions has a last one.
LEMMA LatestOrder ==
    ASSUME NEW n \in Nat, NEW S \in SUBSET (1..n), S # {}
    PROVE  \E m \in S : \A x \in S : x <= m
  <1>1. PICK less : less = OpToRel(<, Nat)
    OBVIOUS
  <1>2. IsWellFoundedOn(less, Nat)
    BY <1>1, NatLessThanWellFounded
  <1>3. \A x, y \in Nat : <<x, y>> \in less <=> x < y
    BY <1>1 DEF OpToRel
  <1>4. PICK T : T = {n - x : x \in S}
    OBVIOUS
  <1>5. T \subseteq Nat /\ T # {}
    <2>1. \A x \in S : n - x \in Nat
      OBVIOUS
    <2>2. PICK x \in S : TRUE
      OBVIOUS
    <2> QED BY <1>4, <2>1, <2>2
  <1>6. PICK m \in T : \A y \in T : <<y, m>> \notin less
    BY <1>2, <1>5, WFMin
  <1>7. PICK s \in S : m = n - s
    BY <1>4
  <1>8. ASSUME NEW x \in S PROVE x <= s
    <2>1. n - x \in T /\ ~(n - x < m)
      BY <1>3, <1>4, <1>5, <1>6
    <2> QED BY <1>7, <2>1
  <1> QED BY <1>8

\* The last k of some transactions are some of them, and at least one.
LEMMA LastAreSome ==
    ASSUME NEW n \in Nat, NEW S \in SUBSET (1..n), S # {}, NEW k \in Nat, k > 0
    PROVE  Last(S, k) # {} /\ Last(S, k) \subseteq S
  <1>1. PICK m \in S : \A x \in S : x <= m
    BY LatestOrder
  <1>2. {later \in S : later > m} = {}
    <2>1. \A x \in S : x \in Nat /\ m \in Nat /\ x <= m
      BY <1>1
    <2>2. \A x \in S : ~(x > m)
      BY <2>1
    <2> QED BY <2>2
  <1>3. m \in Last(S, k)
    BY <1>1, <1>2, FS_EmptySet DEF Last
  <1> QED BY <1>3 DEF Last

\* A scenario returns orders of its customer, and at least one.
LEMMA TargetsAreMine ==
    ASSUME IInv, stage = "scenario", NEW txns \in Targets(flags[current])
    PROVE  txns # {} /\ txns \subseteq Mine
  <1>1. Len(orders) > 0 /\ orders[Len(orders)].user = current
    BY DEF IInv, Stages
  <1>2. Len(orders) \in Nat /\ Mine \in SUBSET (1..Len(orders)) /\ Mine # {}
    <2>1. Len(orders) \in DOMAIN orders /\ DOMAIN orders = 1..Len(orders)
      BY <1>1, Known
    <2> QED BY <1>1, <2>1, Known DEF Mine
  <1>3. ASSUME NEW S \in SUBSET Mine, S # {}, NEW k \in 1..7
        PROVE  Last(S, k) # {} /\ Last(S, k) \subseteq Mine
    <2>1. S \in SUBSET (1..Len(orders)) /\ k \in Nat /\ k > 0
      BY <1>2
    <2> QED BY <1>2, <1>3, <2>1, LastAreSome
  <1>4. \A price : Dearer(price) \in SUBSET Mine
    BY DEF Dearer
  <1>5. flags[current].difficulty \in Difficulties /\ flags[current].scenario \in Scenarios
    <2>1. current \in Customers /\ flags[current] # None
      BY Known DEF IInv, Stages, Attending, Flagged, Customers
    <2>2. flags[current] \in Flags
      BY <2>1 DEF IInv, Types
    <2> QED BY <2>2 DEF Flags
  <1>6. CASE flags[current].scenario = "serial_return_abuse"
    <2>1. PICK k \in Burst(flags[current].difficulty) :
             txns = SerialTargets(flags[current].difficulty, k)
      BY <1>6 DEF Targets
    <2>2. k \in 1..7
      BY <1>5, <2>1 DEF Burst, Difficulties
    <2>3. Last(Mine, k) # {} /\ Last(Mine, k) \subseteq Mine
          /\ Last(Mine, 1) # {} /\ Last(Mine, 1) \subseteq Mine
      BY <1>2, <1>3, <2>2
    <2>4. Dearer(4001) # {} => Last(Dearer(4001), k) # {} /\ Last(Dearer(4001), k) \subseteq Mine
      BY <1>3, <1>4, <2>2
    <2> QED BY <2>1, <2>3, <2>4 DEF SerialTargets
  <1>7. CASE flags[current].scenario = "multi_account_abuse"
    <2>1. txns = MultiTargets
      BY <1>7 DEF Targets
    <2> QED BY <1>2, <1>3, <2>1 DEF MultiTargets
  <1>8. CASE flags[current].scenario = "wardrobing"
    <2>1. txns = WardrobeTargets
      BY <1>8 DEF Targets
    <2> QED BY <1>2, <1>3, <1>4, <2>1 DEF WardrobeTargets
  <1> QED BY <1>5, <1>6, <1>7, <1>8 DEF Scenarios

\* The targets of a scenario are orders that were not returned.
LEMMA BeginAbuseKeepsInv ==
    ASSUME IInv, stage = "scenario", NEW txns \in Targets(flags[current]),
           NEW delay \in ReturnDelays, BeginAbuse(txns, delay)
    PROVE  IInv'
  <1>1. txns # {} /\ txns \subseteq Mine
    BY TargetsAreMine
  <1>2. /\ stage' = "abuse" /\ current' = current
        /\ targets' = {[txn |-> txn, time |-> delivery[txn] + delay] : txn \in txns}
        /\ orders' = orders /\ returns' = returns /\ labels' = labels /\ delivery' = delivery
        /\ left' = left /\ files' = files /\ own' = own /\ flags' = flags
    BY <1>1 DEF BeginAbuse, NextCustomer, RequestTime, world, shop
  <1>3. Types'
    BY <1>2 DEF IInv, Types, NonEmptyIds
  <1>4. Stages'
    BY <1>2 DEF IInv, Stages, Attending, Over, Flagged
  <1>5. Delivered'
    BY <1>2 DEF IInv, Delivered, Attending
  <1>6. Returned'
    <2>1. \A i \in 1..Len(returns) :
             /\ returns[i].txn \in 1..Len(orders) /\ returns[i].time > orders[returns[i].txn].time
             /\ orders[returns[i].txn].user # current
      BY DEF IInv, Returned, Stages
    <2>2. targets' # {}
      BY <1>1, <1>2
    <2>3. ASSUME NEW g \in targets'
          PROVE  /\ g.txn \in 1..Len(orders) /\ orders[g.txn].user = current
                 /\ \E d \in ReturnDelays : g.time = delivery[g.txn] + d
                 /\ \A i \in 1..Len(returns) : returns[i].txn # g.txn
      <3>1. PICK txn \in txns : g = [txn |-> txn, time |-> delivery[txn] + delay]
        BY <1>2, <2>3
      <3>2. txn \in 1..Len(orders) /\ orders[txn].user = current
        BY <1>1, Known DEF Mine
      <3> QED BY <2>1, <3>1, <3>2
    <2>4. \A g, h \in targets' : g.txn = h.txn => g = h
      BY <1>2
    <2>5. stage' = "abuse" /\ orders' = orders /\ returns' = returns /\ delivery' = delivery
      BY <1>2
    <2>6. \A i \in 1..Len(returns') :
             returns'[i].txn \in 1..Len(orders')
             /\ returns'[i].time > orders'[returns'[i].txn].time
      BY <2>1, <2>5
    <2>7. \A g \in targets' :
             /\ g.txn \in 1..Len(orders') /\ orders'[g.txn].user = current'
             /\ \E d \in ReturnDelays : g.time = delivery'[g.txn] + d
             /\ \A i \in 1..Len(returns') : returns'[i].txn # g.txn
      BY <1>2, <2>3, <2>5
    <2> QED BY <2>2, <2>4, <2>5, <2>6, <2>7 DEF Returned
  <1>7. Labelling'
    BY <1>2 DEF IInv, Labelling
  <1> QED BY <1>3, <1>4, <1>5, <1>6, <1>7 DEF IInv

\* What a scenario writes about an order.
LEMMA FraudWritten ==
    ASSUME NEW flag \in Flags, NEW txn, NEW t
    PROVE  /\ Apply(flag, txn, t).return = Return(flag.scenario, txn, t)
           /\ Apply(flag, txn, t).label = [id |-> <<flag.scenario, txn>>, fraud |-> TRUE,
                                           scenario |-> flag.scenario,
                                           difficulty |-> flag.difficulty]
  <1>1. flag.scenario \in {"multi_account_abuse", "serial_return_abuse", "wardrobing"}
    BY DEF Flags, Scenarios
  <1>2. CASE flag.scenario = "serial_return_abuse"
    BY <1>2 DEF Apply, SerialReturnAbuse, Written
  <1>3. CASE flag.scenario = "multi_account_abuse"
    BY <1>3 DEF Apply, MultiAccountAbuse, Written
  <1>4. CASE flag.scenario = "wardrobing"
    BY <1>4 DEF Apply, Wardrobing, Written
  <1> QED BY <1>1, <1>2, <1>3, <1>4

\* The return and the label of a target, and what is said of them.
LEMMA AbuseFiled ==
    ASSUME IInv, NEW target \in targets, Abuse(target)
    PROVE  \E r, l : /\ Files(r, l) /\ Told'
                     /\ r.txn = target.txn /\ r.time = target.time
                     /\ returns' = Append(returns, r)
                     /\ r.time \in 0..MaxTime
                     /\ r.txn \in 1..Len(orders) /\ orders[r.txn].user = current
                     /\ r.time > orders[r.txn].time
  <1>1. PICK flag : flag = flags[current]
    OBVIOUS
  <1>2. PICK r, l : /\ r = Return(flag.scenario, target.txn, target.time)
                    /\ l = [id |-> <<flag.scenario, target.txn>>, fraud |-> TRUE,
                            scenario |-> flag.scenario, difficulty |-> flag.difficulty]
    OBVIOUS
  <1>3. stage = "abuse"
    BY DEF Abuse
  <1>4. flag \in Flags /\ flag # None /\ flag.scenario \in Scenarios
        /\ flag.difficulty \in Difficulties
    <2>1. current \in Customers /\ flags[current] # None
      BY <1>3, Known DEF IInv, Stages, Attending, Flagged, Customers
    <2>2. flag \in Flags /\ flag # None
      BY <1>1, <2>1 DEF IInv, Types
    <2> QED BY <2>2 DEF Flags
  <1>5. /\ returns' = Append(returns, r) /\ labels' = Append(labels, l)
        /\ orders' = orders /\ flags' = flags
    BY <1>1, <1>2, <1>4, FraudWritten DEF Abuse, world
  <1>6. /\ target.txn \in 1..Len(orders) /\ orders[target.txn].user = current
        /\ \E delay \in ReturnDelays : target.time = delivery[target.txn] + delay
    BY <1>3 DEF IInv, Returned
  <1>7. target.time \in 0..MaxTime /\ target.time > orders[target.txn].time
    BY <1>6, RequestInTime
  <1>8. r.id = <<flag.scenario, target.txn>> /\ r.txn = target.txn /\ r.time = target.time
    BY <1>2 DEF Return
  <1>9. r \in Requested
    BY <1>2, <1>4, <1>6, <1>7, Known DEF Requested, Kinds, Return
  <1>10. l \in Labelled
    BY <1>2, <1>4, <1>6, Known DEF Labelled, Kinds
  <1>11. Files(r, l)
    BY <1>5, <1>9, <1>10, ReturnFiled
  <1>12. Tells(l, r, flags[orders[r.txn].user])
    BY <1>1, <1>2, <1>4, <1>6, <1>8 DEF Tells
  <1>13. Told'
    BY <1>5, <1>6, <1>7, <1>8, <1>11, <1>12, ReturnTold
  <1> QED BY <1>5, <1>6, <1>7, <1>8, <1>11, <1>13

\* A target that was returned is one no longer.
LEMMA AbuseKeepsInv ==
    ASSUME IInv, NEW target \in targets, Abuse(target)
    PROVE  IInv'
  <1>1. PICK r, l : /\ Files(r, l) /\ Told'
                    /\ r.txn = target.txn /\ r.time = target.time
                    /\ r.txn \in 1..Len(orders) /\ orders[r.txn].user = current
    BY AbuseFiled
  <1>2. /\ stage = "abuse" /\ targets' = targets \ {target}
        /\ stage' = IF targets' # {} THEN "abuse" ELSE "customer"
        /\ current' = IF stage' = "customer" THEN current + 1 ELSE current
        /\ orders' = orders /\ delivery' = delivery
        /\ left' = left /\ files' = files /\ own' = own /\ flags' = flags
    BY DEF Abuse, NextCustomer, world
  <1>3. /\ current <= NumCustomers /\ files = None /\ flags[current] # None
        /\ current \in Nat /\ current > 0
    BY <1>2, Known DEF IInv, Stages, Attending, Over, Flagged
  <1>4. \/ stage' = "abuse" /\ targets' # {} /\ current' = current
        \/ stage' = "customer" /\ current' = current + 1
    BY <1>2
  <1>5. Types'
    BY <1>1, <1>2, <1>3, <1>4 DEF IInv, Types, NonEmptyIds, Files
  <1>6. Stages'
    BY <1>2, <1>3, <1>4 DEF Stages, Attending, Over, Flagged
  <1>7. Delivered'
    <2>1. Attending(stage)
      BY <1>2 DEF Attending
    <2>2. \A i \in 1..Len(orders) : orders[i].user \in Nat /\ orders[i].user <= current
      <3>1. \A i \in 1..Len(orders) : orders[i].user <= current
        BY <2>1 DEF IInv, Delivered
      <3> QED BY <3>1, UsersTyped
    <2>3. \A i \in 1..Len(orders) :
             orders[i].user <= current' /\ (stage' = "customer" => orders[i].user < current')
      BY <1>3, <1>4, <2>2
    <2>4. \A i \in 1..Len(orders) : \E ship \in ShipDelays, deliver \in DeliveryDelays :
             delivery[i] = orders[i].time + ship + deliver
      BY DEF IInv, Delivered
    <2>5. orders' = orders /\ delivery' = delivery
      BY <1>2
    <2>6. \A i \in 1..Len(orders') :
             orders'[i].user <= current' /\ (stage' = "customer" => orders'[i].user < current')
      BY <2>3, <2>5
    <2>7. \A i \in 1..Len(orders') : \E ship \in ShipDelays, deliver \in DeliveryDelays :
             delivery'[i] = orders'[i].time + ship + deliver
      BY <2>4, <2>5
    <2> QED BY <2>6, <2>7 DEF Delivered
  <1>8. Returned'
    <2>1. /\ \A g \in targets :
                /\ g.txn \in 1..Len(orders) /\ orders[g.txn].user = current
                /\ \E delay \in ReturnDelays : g.time = delivery[g.txn] + delay
                /\ \A i \in 1..Len(returns) : returns[i].txn # g.txn
          /\ \A g, h \in targets : g.txn = h.txn => g = h
      BY <1>2 DEF IInv, Returned
    <2>2. ASSUME NEW g \in targets', NEW i \in 1..Len(returns')
          PROVE  returns'[i].txn # g.txn
      <3>1. g \in targets /\ g.txn # target.txn
        BY <1>2, <2>1
      <3>2. CASE i \in 1..Len(returns)
        BY <1>1, <2>1, <3>1, <3>2 DEF Files
      <3>3. CASE i = Len(returns')
        BY <1>1, <3>1, <3>3 DEF Files
      <3> QED BY <1>1, <3>2, <3>3 DEF Files
    <2>3. \A g \in targets' :
             /\ g.txn \in 1..Len(orders') /\ orders'[g.txn].user = current
             /\ \E delay \in ReturnDelays : g.time = delivery'[g.txn] + delay
      BY <1>2, <2>1
    <2>4. \A i \in 1..Len(returns') : /\ returns'[i].txn \in 1..Len(orders')
                                      /\ returns'[i].time > orders'[returns'[i].txn].time
      BY <1>1 DEF Told
    <2>5. \A g, h \in targets' : g.txn = h.txn => g = h
      BY <1>2, <2>1
    <2> QED BY <1>4, <2>2, <2>3, <2>4, <2>5 DEF Returned
  <1>9. Labelling'
    <2>1. Len(returns') \in 1..Len(returns') /\ returns'[Len(returns')] = r
      BY <1>1, Known DEF Files
    <2>2. ASSUME NEW c \in Customers, flags[c] # None, c < current'
          PROVE  \E i \in 1..Len(returns') : orders[returns'[i].txn].user = c
      <3>1. c < current \/ c = current
        <4>1. c \in Nat
          BY DEF Customers
        <4> QED BY <1>3, <1>4, <2>2, <4>1
      <3>2. CASE c = current
        BY <1>1, <2>1, <3>2
      <3>3. CASE c < current
        <4>1. PICK i \in 1..Len(returns) : orders[returns[i].txn].user = c
          BY <2>2, <3>3 DEF IInv, Labelling
        <4>2. i \in 1..Len(returns') /\ returns'[i] = returns[i]
          BY <1>1, Known DEF Files
        <4> QED BY <4>1, <4>2
      <3> QED BY <3>1, <3>2, <3>3
    <2> QED BY <1>1, <1>2, <2>2 DEF Labelling, Told
  <1> QED BY <1>5, <1>6, <1>7, <1>8, <1>9 DEF IInv

\* Export and validation leave the lists alone.
LEMMA ExportKeepsInv ==
    ASSUME IInv, Export \/ Validate
    PROVE  IInv'
  <1>1. /\ own' = own /\ flags' = flags /\ current' = current /\ left' = left
        /\ targets' = targets /\ orders' = orders /\ delivery' = delivery
        /\ returns' = returns /\ labels' = labels
        /\ Over(stage') /\ (stage = "customer" \/ Over(stage)) /\ current > NumCustomers
    BY DEF Export, Validate, world, traffic, shop, Over, IInv, Stages
  <1>2. ~Attending(stage') /\ stage' # "customer" /\ stage' # "households"
    BY <1>1 DEF Over, Attending
  <1>3. Types'
    BY <1>1 DEF IInv, Types, NonEmptyIds
  <1>4. Stages'
    BY <1>1, <1>2 DEF Stages, Attending, Flagged
  <1>5. Delivered'
    BY <1>1, <1>2 DEF IInv, Delivered
  <1>6. Returned'
    BY <1>1, <1>2 DEF IInv, Returned, Attending
  <1>7. Labelling'
    BY <1>1 DEF IInv, Labelling
  <1> QED BY <1>3, <1>4, <1>5, <1>6, <1>7 DEF IInv

\* Nothing changes.
LEMMA StutterKeepsInv ==
    ASSUME IInv, UNCHANGED vars
    PROVE  IInv'
  <1>1. /\ own' = own /\ flags' = flags /\ stage' = stage /\ current' = current /\ left' = left
        /\ targets' = targets /\ orders' = orders /\ delivery' = delivery
        /\ returns' = returns /\ labels' = labels /\ files' = files
    BY DEF vars, world, traffic, shop
  <1>2. Types'
    BY <1>1 DEF IInv, Types, NonEmptyIds
  <1>3. Stages'
    BY <1>1 DEF IInv, Stages, Flagged
  <1>4. Delivered' /\ Returned' /\ Labelling'
    BY <1>1 DEF IInv, Delivered, Returned, Labelling, Flagged
  <1> QED BY <1>2, <1>3, <1>4 DEF IInv

\* Every step keeps the invariant.
LEMMA StepKeepsInv == IInv /\ [Next]_vars => IInv'
  <1> SUFFICES ASSUME IInv, [Next]_vars PROVE IInv'
    OBVIOUS
  <1>1. ASSUME NEW c1 \in Customers, NEW c2 \in Customers, NEW device \in BOOLEAN,
               InjectHousehold(c1, c2, device)
        PROVE  IInv'
    BY <1>1, HouseholdKeepsInv
  <1>2. ASSUME NEW draw \in Draws, InjectRings(draw) PROVE IInv'
    BY <1>2, RingsKeepInv
  <1>3. ASSUME NEW n \in 1..MaxPerCustomer, BeginCustomer(n) PROVE IInv'
    BY <1>3, BeginCustomerKeepsInv
  <1>4. ASSUME NEW t \in OrderTimes, NEW p \in Products, NEW d \in AllDevices,
               NEW a \in AllAddresses, NEW y \in AllPayments, NEW ship \in ShipDelays,
               NEW deliver \in DeliveryDelays, PlaceOrder(t, p, d, a, y, ship, deliver)
        PROVE  IInv'
    BY <1>4, PlaceKeepsInv
  <1>5. CASE Keep
    BY <1>5, KeepKeepsInv
  <1>6. ASSUME NEW delay \in ReturnDelays, ReturnLegitimately(delay) PROVE IInv'
    BY <1>6, LegitimateKeepsInv
  <1>7. ASSUME stage = "scenario", NEW txns \in Targets(flags[current]),
               NEW delay \in ReturnDelays, BeginAbuse(txns, delay)
        PROVE  IInv'
    BY <1>7, BeginAbuseKeepsInv
  <1>8. ASSUME NEW target \in targets, Abuse(target) PROVE IInv'
    BY <1>8, AbuseKeepsInv
  <1>9. CASE Export \/ Validate
    BY <1>9, ExportKeepsInv
  <1>10. CASE UNCHANGED vars
    BY <1>10, StutterKeepsInv
  <1> QED BY <1>1, <1>2, <1>3, <1>4, <1>5, <1>6, <1>7, <1>8, <1>9, <1>10 DEF Next

\* The invariant holds of every simulation.
LEMMA Inductive == Spec => []IInv
  <1> QED BY InitInv, StepKeepsInv, PTL DEF Spec

------------------------------------------------------------------------------
(* The ground truth and the rings.                                         *)

\* The labels that a model is trained on are true: for any number of customers,
\* whatever is drawn, returns and labels pair up in the order of _process_return and
\* the scenarios, a return is fraud exactly when fraud_map holds its customer, with
\* what it holds, and when the traffic is over everyone in fraud_map has returned.
THEOREM LabelsTellTheFlagsHolds == Spec => []LabelsTellTheFlags
  <1>1. IInv => LabelsTellTheFlags
    <2> SUFFICES ASSUME IInv PROVE LabelsTellTheFlags
      OBVIOUS
    <2>1. labels \in Seq(Labelled) /\ Len(labels) = Len(returns)
      BY DEF IInv, Types
    <2>2. DOMAIN labels = 1..Len(returns) /\ DOMAIN returns = 1..Len(returns)
      BY <2>1 DEF IInv, Types
    <2>3. \A i \in 1..Len(returns) :
             Tells(labels[i], returns[i], flags[orders[returns[i].txn].user])
      BY DEF IInv, Labelling
    <2>4. ASSUME files # None, NEW c \in Customers, flags[c] # None
          PROVE  \E i \in 1..Len(returns) : orders[returns[i].txn].user = c
      <3>1. current > NumCustomers
        BY <2>4 DEF IInv, Stages
      <3>2. c < current
        BY <3>1, Known DEF Customers
      <3> QED BY <2>4, <3>2 DEF IInv, Labelling
    <2> QED BY <2>1, <2>2, <2>3, <2>4 DEF LabelsTellTheFlags, Flagged, Tells
  <1> QED BY <1>1, Inductive, PTL

\* Nobody is flagged while the households are drawn; afterwards ids and flags stay.
LEMMA RingsStay == IInv /\ RingsShare /\ [Next]_vars => RingsShare'
  <1> SUFFICES ASSUME IInv, RingsShare, [Next]_vars PROVE RingsShare'
    OBVIOUS
  <1>1. ASSUME NEW c1 \in Customers, NEW c2 \in Customers, NEW device \in BOOLEAN,
               InjectHousehold(c1, c2, device)
        PROVE  RingsShare'
    <2>1. stage = "households" /\ flags' = flags
      BY <1>1 DEF InjectHousehold
    <2>2. \A c \in Customers : flags'[c] = None
      BY <2>1 DEF IInv, Stages, Flagged
    <2> QED BY <2>2 DEF RingsShare, Flagged
  <1>2. ASSUME NEW draw \in Draws, InjectRings(draw) PROVE RingsShare'
    BY <1>2, RingsDrawnShare DEF IInv
  <1>3. own' = own /\ flags' = flags => RingsShare'
    BY DEF RingsShare, Flagged
  <1>4. ASSUME NEW n \in 1..MaxPerCustomer, BeginCustomer(n) PROVE own' = own /\ flags' = flags
    BY <1>4 DEF BeginCustomer, world
  <1>5. ASSUME NEW t, NEW p, NEW d, NEW a, NEW y, NEW ship, NEW deliver,
               PlaceOrder(t, p, d, a, y, ship, deliver)
        PROVE  own' = own /\ flags' = flags
    BY <1>5 DEF PlaceOrder, world
  <1>6. ASSUME NEW delay \in ReturnDelays, ReturnLegitimately(delay)
        PROVE  own' = own /\ flags' = flags
    BY <1>6 DEF ReturnLegitimately, world
  <1>7. ASSUME NEW txns, NEW delay \in ReturnDelays, BeginAbuse(txns, delay)
        PROVE  own' = own /\ flags' = flags
    BY <1>7 DEF BeginAbuse, world
  <1>8. ASSUME NEW target \in targets, Abuse(target) PROVE own' = own /\ flags' = flags
    BY <1>8 DEF Abuse, world
  <1>9. CASE Keep \/ Export \/ Validate \/ UNCHANGED vars
    BY <1>3, <1>9 DEF Keep, Export, Validate, vars, world
  <1> QED BY <1>1, <1>2, <1>3, <1>4, <1>5, <1>6, <1>7, <1>8, <1>9 DEF Next

\* Whoever is flagged for multi-account abuse by _inject_fraud_rings shares a device
\* and a card with another one who is, for any sizes of the rings and of the
\* population: nobody is left alone in the last ring.
THEOREM RingsShareHolds == Spec => []RingsShare
  <1>1. Init => RingsShare
    BY DEF Init, RingsShare, Flagged
  <1> QED BY <1>1, Inductive, RingsStay, PTL DEF Spec

------------------------------------------------------------------------------
(* The history that the features are computed from.                        *)

\* The files of FeatureHistory, from the transactions os and the returns rs.
RowOf(os, txn) ==
    [txn |-> txn, user |-> os[txn].user, category |-> os[txn].product.category,
     time |-> os[txn].time, device |-> os[txn].device,
     address |-> os[txn].address, payment |-> os[txn].payment]
RowsOf(os) == {RowOf(os, txn) : txn \in DOMAIN os}
RequestsOf(os, rs) == {[order |-> RowOf(os, rs[i].txn), time |-> rs[i].time] : i \in DOMAIN rs}

\* Transactions are numbered by how many came before.
LEMMA RowsCounted ==
    ASSUME IInv
    PROVE  Cardinality(RowsOf(orders)) = Len(orders)
  <1>1. PICK n, T : n = Len(orders) /\ T = RowsOf(orders)
    OBVIOUS
  <1>2. n \in Nat /\ DOMAIN orders = 1..n
    BY <1>1, Known
  <1>3. PICK f : f = [txn \in 1..n |-> RowOf(orders, txn)]
    OBVIOUS
  <1>4. \A txn : RowOf(orders, txn).txn = txn
    BY DEF RowOf
  <1>5. T = {RowOf(orders, txn) : txn \in 1..n}
    BY <1>1, <1>2 DEF RowsOf
  <1>6. f \in [1..n -> T]
    BY <1>3, <1>5
  <1>7. \A i, j \in 1..n : f[i] = f[j] => i = j
    BY <1>3, <1>4
  <1>8. \A o \in T : \E i \in 1..n : f[i] = o
    BY <1>3, <1>5
  <1>9. f \in Injection(1..n, T)
    BY <1>6, <1>7 DEF Injection, IsInjective
  <1>10. f \in Surjection(1..n, T)
    BY <1>6, <1>8 DEF Surjection
  <1>11. ExistsBijection(1..n, T)
    BY <1>9, <1>10 DEF ExistsBijection, Bijection
  <1>12. IsFiniteSet(1..n) /\ Cardinality(1..n) = n
    BY <1>2, FS_Interval
  <1>13. Cardinality(T) = Cardinality(1..n)
    BY <1>11, <1>12, FS_Bijection
  <1> QED BY <1>1, <1>12, <1>13

\* An order of the file is an order of the history.
LEMMA RowTyped ==
    ASSUME NEW o \in Placed, NEW txn \in 1..MaxOrders
    PROVE  [txn |-> txn, user |-> o.user, category |-> o.product.category, time |-> o.time,
            device |-> o.device, address |-> o.address, payment |-> o.payment] \in History!Orders
  <1>1. /\ o.user \in Customers /\ o.product \in Products /\ o.device \in AllDevices
        /\ o.address \in AllAddresses /\ o.payment \in AllPayments
        /\ o.product.category \in {p.category : p \in Products}
    BY DEF Placed
  <1>2. o.time \in 0..MaxTime
    BY TimesFit DEF Placed
  <1> QED BY <1>1, <1>2 DEF History!Orders, History!Times

\* Rows of the file stay what they are when the next order is placed.
LEMMA RowsGrow ==
    ASSUME IInv, NEW order, NEW arrival, Writes(order, arrival)
    PROVE  /\ RowsOf(orders') = RowsOf(orders) \cup {RowOf(orders', Len(orders) + 1)}
           /\ RequestsOf(orders', returns') = RequestsOf(orders, returns)
  <1>1. PICK n, os : n = Len(orders) /\ os = orders'
    OBVIOUS
  <1>2. os \in Seq(Placed) /\ Len(os) = n + 1 /\ returns' = returns
        /\ \A i \in 1..n : os[i] = orders[i]
    BY <1>1 DEF Writes
  <1>3. n \in Nat /\ DOMAIN orders = 1..n /\ DOMAIN os = 1..n \cup {n + 1}
    BY <1>1, <1>2, Known
  <1>4. \A txn \in 1..n : RowOf(os, txn) = RowOf(orders, txn)
    BY <1>2 DEF RowOf
  <1>5. RowsOf(os) = RowsOf(orders) \cup {RowOf(os, n + 1)}
    <2>1. RowsOf(os) = {RowOf(os, txn) : txn \in 1..n} \cup {RowOf(os, n + 1)}
      BY <1>3 DEF RowsOf
    <2>2. {RowOf(os, txn) : txn \in 1..n} = RowsOf(orders)
      BY <1>3, <1>4 DEF RowsOf
    <2> QED BY <2>1, <2>2
  <1>6. \A i \in DOMAIN returns : returns[i].txn \in 1..n
    <2>1. DOMAIN returns = 1..Len(returns)
      BY DEF IInv, Types
    <2> QED BY <1>1, <2>1 DEF IInv, Returned
  <1>7. RequestsOf(os, returns) = RequestsOf(orders, returns)
    BY <1>4, <1>6 DEF RequestsOf
  <1> QED BY <1>1, <1>2, <1>5, <1>7

\* One return is one request more.
LEMMA RequestsGrow ==
    ASSUME IInv, NEW r, NEW l, Files(r, l)
    PROVE  RequestsOf(orders, returns') =
              RequestsOf(orders, returns) \cup {[order |-> RowOf(orders, r.txn), time |-> r.time]}
  <1>1. PICK n, rs : n = Len(returns) /\ rs = returns'
    OBVIOUS
  <1>2. /\ rs \in Seq(Requested) /\ Len(rs) = n + 1 /\ rs[n + 1] = r
        /\ \A i \in 1..n : rs[i] = returns[i]
    BY <1>1 DEF Files
  <1>3. n \in Nat /\ DOMAIN returns = 1..n /\ DOMAIN rs = 1..n \cup {n + 1}
    BY <1>1, <1>2, Known DEF IInv, Types
  <1>4. PICK new : new = [order |-> RowOf(orders, r.txn), time |-> r.time]
    OBVIOUS
  <1>5. RequestsOf(orders, rs) =
           {[order |-> RowOf(orders, rs[i].txn), time |-> rs[i].time] : i \in 1..n} \cup {new}
    BY <1>2, <1>3, <1>4 DEF RequestsOf
  <1>6. {[order |-> RowOf(orders, rs[i].txn), time |-> rs[i].time] : i \in 1..n}
           = RequestsOf(orders, returns)
    BY <1>2, <1>3 DEF RequestsOf
  <1> QED BY <1>1, <1>4, <1>5, <1>6

\* PlaceOrder is the history's.
LEMMA PlaceMaps ==
    ASSUME IInv, NEW t \in OrderTimes, NEW p \in Products, NEW d \in AllDevices,
           NEW a \in AllAddresses, NEW y \in AllPayments, NEW ship \in ShipDelays,
           NEW deliver \in DeliveryDelays, PlaceOrder(t, p, d, a, y, ship, deliver)
    PROVE  History!Next
  <1>1. PICK order : order = [user |-> current, product |-> p, time |-> t,
                              device |-> d, address |-> a, payment |-> y]
    OBVIOUS
  <1>2. Writes(order, t + ship + deliver)
    BY <1>1, OrderPlaced
  <1>3. PICK n, o : n = Len(orders) /\ o = RowOf(orders', n + 1)
    OBVIOUS
  <1>4. /\ n \in Nat /\ Len(orders') = n + 1 /\ orders'[n + 1] = order /\ orders' \in Seq(Placed)
        /\ n + left + (NumCustomers - current) <= MaxOrders /\ left > 0
        /\ current <= NumCustomers /\ current \in Customers
    BY <1>2, <1>3, Known DEF Writes, IInv, Stages, Customers
  <1>5. n + 1 \in 1..MaxOrders
    BY <1>4, Known
  <1>6. order \in Placed
    BY <1>1, <1>4 DEF Placed
  <1>7. o = [txn |-> n + 1, user |-> order.user, category |-> order.product.category,
             time |-> order.time, device |-> order.device, address |-> order.address,
             payment |-> order.payment]
    BY <1>3, <1>4 DEF RowOf
  <1>8. o \in History!Orders
    BY <1>5, <1>6, <1>7, RowTyped
  <1>9. o.txn = Cardinality(RowsOf(orders)) + 1
    BY <1>3, <1>7, RowsCounted
  <1>10. /\ RowsOf(orders') = RowsOf(orders) \cup {o}
         /\ RequestsOf(orders', returns') = RequestsOf(orders, returns)
    BY <1>2, <1>3, RowsGrow
  <1>11. o.user = current /\ o.time = t /\ History!Uses(o) = {d, a, y}
    BY <1>1, <1>7 DEF History!Uses
  <1>12. History!Uses(o) \subseteq [c \in Customers |-> Entities][o.user]
    BY <1>4, <1>11 DEF Entities
  <1>13. edges' = [k \in Customers \X Entities |->
                     IF k[1] = o.user /\ k[2] \in History!Uses(o)
                     THEN History!Seen(edges[k], o.time) ELSE edges[k]]
    <2>1. \A edge : Seen(edge, t) = History!Seen(edge, t)
      BY DEF Seen, History!Seen, Span
    <2> QED BY <1>11, <2>1 DEF PlaceOrder
  <1>14. History!PlaceOrder(o)
    <2>1. o.txn = History!Cardinality({HistoryOrder(txn) : txn \in DOMAIN orders}) + 1
      <3>1. \A S : History!Cardinality(S) = Cardinality(S)
        BY DEF History!Cardinality, Cardinality
      <3>2. o.txn = Cardinality({HistoryOrder(txn) : txn \in DOMAIN orders}) + 1
        BY <1>9 DEF RowsOf, RowOf, HistoryOrder
      <3> QED BY <3>1, <3>2
    <2>2. {HistoryOrder(txn) : txn \in DOMAIN orders}'
             = {HistoryOrder(txn) : txn \in DOMAIN orders} \cup {o}
      BY <1>10 DEF RowsOf, RowOf, HistoryOrder
    <2>3. UNCHANGED {[order |-> HistoryOrder(returns[i].txn), time |-> returns[i].time] :
                     i \in DOMAIN returns}
      BY <1>10 DEF RequestsOf, RowOf, HistoryOrder
    <2> QED BY <1>12, <1>13, <2>1, <2>2, <2>3 DEF History!PlaceOrder, History!Entities, Entities
  <1> QED BY <1>8, <1>14 DEF History!Next

\* A return of an order that was not returned yet is the history's.
LEMMA ReturnMaps ==
    ASSUME IInv, NEW r, NEW l, Files(r, l), r.txn \in 1..Len(orders), r.time \in 0..MaxTime,
           r.time > orders[r.txn].time, \A i \in 1..Len(returns) : returns[i].txn # r.txn,
           orders' = orders, edges' = edges
    PROVE  History!Next
  <1>1. PICK o : o = RowOf(orders, r.txn)
    OBVIOUS
  <1>2. o \in RowsOf(orders) /\ o.time = orders[r.txn].time /\ o.txn = r.txn
    BY <1>1, Known DEF RowsOf, RowOf
  <1>3. \A q \in RequestsOf(orders, returns) : q.order # o
    <2>1. ASSUME NEW i \in DOMAIN returns PROVE RowOf(orders, returns[i].txn) # o
      <3>1. RowOf(orders, returns[i].txn).txn = returns[i].txn
        BY DEF RowOf
      <3>2. i \in 1..Len(returns)
        BY DEF IInv, Types
      <3> QED BY <1>2, <3>1, <3>2
    <2> QED BY <2>1 DEF RequestsOf
  <1>4. RequestsOf(orders, returns') =
           RequestsOf(orders, returns) \cup {[order |-> o, time |-> r.time]}
    BY <1>1, RequestsGrow
  <1>5. History!RequestReturn(o, r.time)
    <2>1. \A q \in {[order |-> HistoryOrder(returns[i].txn), time |-> returns[i].time] :
                    i \in DOMAIN returns} : q.order # o
      BY <1>3 DEF RequestsOf, RowOf, HistoryOrder
    <2>2. {[order |-> HistoryOrder(returns[i].txn), time |-> returns[i].time] :
           i \in DOMAIN returns}'
             = {[order |-> HistoryOrder(returns[i].txn), time |-> returns[i].time] :
                i \in DOMAIN returns} \cup {[order |-> o, time |-> r.time]}
      BY <1>4 DEF RequestsOf, RowOf, HistoryOrder
    <2>3. UNCHANGED {HistoryOrder(txn) : txn \in DOMAIN orders}
      BY DEF HistoryOrder
    <2> QED BY <1>2, <2>1, <2>2, <2>3 DEF History!RequestReturn
  <1>6. o \in {HistoryOrder(txn) : txn \in DOMAIN orders} /\ r.time \in History!Times
    BY <1>2 DEF RowsOf, RowOf, HistoryOrder, History!Times
  <1> QED BY <1>5, <1>6 DEF History!Next

\* A return of the customer's own accord is the history's.
LEMMA LegitimateMaps ==
    ASSUME IInv, NEW delay \in ReturnDelays, ReturnLegitimately(delay)
    PROVE  History!Next
  <1>1. PICK r, l : Files(r, l) /\ r.txn = Len(orders) /\ r.time = delivery[Len(orders)] + delay
    BY LegitimateFiled
  <1>2. stage = "delivered" /\ orders' = orders /\ edges' = edges
    BY DEF ReturnLegitimately
  <1>3. Len(orders) \in 1..Len(orders)
    BY <1>2, Known DEF IInv, Stages
  <1>4. \A i \in 1..Len(returns) : returns[i].txn # Len(orders)
    BY <1>2 DEF IInv, Returned
  <1>5. delivery[Len(orders)] + delay \in 0..MaxTime
        /\ delivery[Len(orders)] + delay > orders[Len(orders)].time
    BY <1>3, RequestInTime
  <1> QED BY <1>1, <1>2, <1>3, <1>4, <1>5, ReturnMaps

\* A return of a scenario is the history's.
LEMMA AbuseMaps ==
    ASSUME IInv, NEW target \in targets, Abuse(target)
    PROVE  History!Next
  <1>1. PICK r, l : /\ Files(r, l) /\ r.txn = target.txn /\ r.time \in 0..MaxTime
                    /\ r.txn \in 1..Len(orders) /\ r.time > orders[r.txn].time
    BY AbuseFiled
  <1>2. stage = "abuse" /\ orders' = orders /\ edges' = edges
    BY DEF Abuse
  <1>3. \A i \in 1..Len(returns) : returns[i].txn # target.txn
    BY <1>2 DEF IInv, Returned
  <1> QED BY <1>1, <1>2, <1>3, ReturnMaps

\* Everything else leaves the files of the history alone.
LEMMA OthersStutter ==
    ASSUME orders' = orders, returns' = returns, edges' = edges
    PROVE  UNCHANGED History!vars
  <1>1. UNCHANGED {HistoryOrder(txn) : txn \in DOMAIN orders}
    BY DEF HistoryOrder
  <1>2. UNCHANGED {[order |-> HistoryOrder(returns[i].txn), time |-> returns[i].time] :
                   i \in DOMAIN returns}
    BY DEF HistoryOrder
  <1> QED BY <1>1, <1>2 DEF History!vars

\* The features' history is all that SimulationGenerator can do to the three files:
\* for any number of customers and orders, every transaction is a new one, it is
\* returned at most once, by its customer's own coin or by one of the scenarios,
\* after it was placed and within the simulated time, and GraphBuilder's edges are
\* those of the orders.
THEOREM ImplementsHistoryHolds == Spec => ImplementsHistory
  <1>1. Init => History!Init
    <2> SUFFICES ASSUME Init PROVE History!Init
      OBVIOUS
    <2>1. orders = <<>> /\ returns = <<>> /\ edges = [k \in Customers \X Entities |-> None]
      BY DEF Init
    <2>2. DOMAIN orders = {} /\ DOMAIN returns = {}
      BY <2>1
    <2> QED BY <2>1, <2>2 DEF History!Init, History!Entities, Entities
  <1>2. IInv /\ [Next]_vars => [History!Next]_History!vars
    <2> SUFFICES ASSUME IInv, [Next]_vars PROVE History!Next \/ UNCHANGED History!vars
      OBVIOUS
    <2>1. ASSUME NEW c1 \in Customers, NEW c2 \in Customers, NEW device \in BOOLEAN,
                 InjectHousehold(c1, c2, device)
          PROVE  UNCHANGED History!vars
      BY <2>1, OthersStutter DEF InjectHousehold, shop
    <2>2. ASSUME NEW draw \in Draws, InjectRings(draw) PROVE UNCHANGED History!vars
      BY <2>2, OthersStutter DEF InjectRings, shop
    <2>3. ASSUME NEW n \in 1..MaxPerCustomer, BeginCustomer(n) PROVE UNCHANGED History!vars
      BY <2>3, OthersStutter DEF BeginCustomer, shop
    <2>4. ASSUME NEW t \in OrderTimes, NEW p \in Products, NEW d \in AllDevices,
                 NEW a \in AllAddresses, NEW y \in AllPayments, NEW ship \in ShipDelays,
                 NEW deliver \in DeliveryDelays, PlaceOrder(t, p, d, a, y, ship, deliver)
          PROVE  History!Next
      BY <2>4, PlaceMaps
    <2>5. CASE Keep
      BY <2>5, OthersStutter DEF Keep, shop
    <2>6. ASSUME NEW delay \in ReturnDelays, ReturnLegitimately(delay) PROVE History!Next
      BY <2>6, LegitimateMaps
    <2>7. ASSUME NEW txns, NEW delay \in ReturnDelays, BeginAbuse(txns, delay)
          PROVE  UNCHANGED History!vars
      BY <2>7, OthersStutter DEF BeginAbuse, shop
    <2>8. ASSUME NEW target \in targets, Abuse(target) PROVE History!Next
      BY <2>8, AbuseMaps
    <2>9. CASE Export \/ Validate
      BY <2>9, OthersStutter DEF Export, Validate, shop
    <2>10. CASE UNCHANGED vars
      BY <2>10, OthersStutter DEF vars, shop
    <2> QED BY <2>1, <2>2, <2>3, <2>4, <2>5, <2>6, <2>7, <2>8, <2>9, <2>10 DEF Next
  <1> QED BY <1>1, <1>2, Inductive, PTL DEF Spec, ImplementsHistory, History!Spec

------------------------------------------------------------------------------
(* The event log.                                                          *)

\* The events of an export are sorted: as many of them are before one as its place
\* says, because no two have the same number of events before them.
LEMMA ExportIsSorted ==
    ASSUME NEW E, NEW seq \in Seq(E), \A i \in 1..Len(seq) : seq[i].time \in Nat
    PROVE  /\ DOMAIN Chronological(seq) = 1..Len(seq)
           /\ \A k, l \in 1..Len(seq) :
                k < l => Chronological(seq)[k].time <= Chronological(seq)[l].time
  <1>1. PICK n : n = Len(seq)
    OBVIOUS
  <1>2. n \in Nat /\ DOMAIN seq = 1..n
    BY <1>1
  <1>3. PICK rank : rank = [i \in 1..n |-> Cardinality(Earlier(seq, i))]
    OBVIOUS
  <1>4. PICK time : time = [i \in 1..n |-> seq[i].time]
    OBVIOUS
  <1>5. \A i \in 1..n : time[i] \in Nat /\ time[i] = seq[i].time
    BY <1>1, <1>4
  <1>6. \A i \in 1..n : Earlier(seq, i) = {j \in 1..n : \/ time[j] < time[i]
                                                        \/ time[j] = time[i] /\ j < i}
    BY <1>2, <1>5 DEF Earlier
  <1>7. ASSUME NEW i \in 1..n
        PROVE  /\ IsFiniteSet(Earlier(seq, i)) /\ Cardinality(Earlier(seq, i)) \in Nat
               /\ rank[i] = Cardinality(Earlier(seq, i)) /\ rank[i] \in 0..(n - 1)
    <2>1. IsFiniteSet(1..n) /\ Cardinality(1..n) = n
      BY <1>2, FS_Interval
    <2>2. Earlier(seq, i) \subseteq 1..n /\ i \notin Earlier(seq, i)
      BY <1>5, <1>6
    <2>3. IsFiniteSet(Earlier(seq, i)) /\ Cardinality(Earlier(seq, i)) <= n
          /\ Cardinality(Earlier(seq, i)) # n
      BY <2>1, <2>2, FS_Subset
    <2>4. Cardinality(Earlier(seq, i)) \in Nat
      BY <2>3, FS_CardinalityType
    <2> QED BY <1>2, <1>3, <2>3, <2>4
  <1>8. ASSUME NEW i \in 1..n, NEW j \in 1..n, i \in Earlier(seq, j)
        PROVE  rank[i] < rank[j]
    <2>1. i \notin Earlier(seq, i)
      BY <1>5, <1>6
    <2>2. time[i] < time[j] \/ (time[i] = time[j] /\ i < j)
      BY <1>6, <1>8
    <2>3. \A x \in Earlier(seq, i) : x \in Earlier(seq, j)
      <3>1. ASSUME NEW x \in Earlier(seq, i) PROVE x \in Earlier(seq, j)
        <4>1. x \in 1..n /\ (time[x] < time[i] \/ (time[x] = time[i] /\ x < i))
          BY <1>6, <3>1
        <4>2. time[x] < time[j] \/ (time[x] = time[j] /\ x < j)
          BY <1>2, <1>5, <2>2, <4>1
        <4> QED BY <1>6, <4>1, <4>2
      <3> QED BY <3>1
    <2>4. Cardinality(Earlier(seq, i)) <= Cardinality(Earlier(seq, j))
          /\ Cardinality(Earlier(seq, i)) # Cardinality(Earlier(seq, j))
      BY <1>7, <1>8, <2>1, <2>3, FS_Subset
    <2> QED BY <1>7, <2>4
  <1>9. ASSUME NEW i \in 1..n, NEW j \in 1..n, i # j
        PROVE  i \in Earlier(seq, j) \/ j \in Earlier(seq, i)
    <2>1. \/ time[i] < time[j] \/ (time[i] = time[j] /\ i < j)
          \/ time[j] < time[i] \/ (time[j] = time[i] /\ j < i)
      BY <1>2, <1>5, <1>9
    <2> QED BY <1>6, <2>1
  <1>10. \A k \in 1..n : \E i \in 1..n : rank[i] = k - 1
    <2>1. rank \in Injection(1..n, 0..(n - 1))
      <3>1. rank \in [1..n -> 0..(n - 1)]
        BY <1>3, <1>7
      <3>2. ASSUME NEW i \in 1..n, NEW j \in 1..n, i # j PROVE rank[i] # rank[j]
        BY <1>7, <1>8, <1>9, <3>2
      <3> QED BY <3>1, <3>2 DEF Injection, IsInjective
    <2>2. /\ IsFiniteSet(0..(n - 1)) /\ Cardinality(0..(n - 1)) = n
          /\ IsFiniteSet(1..n) /\ Cardinality(1..n) = n
      BY <1>2, FS_Interval
    <2>3. rank \in Surjection(1..n, 0..(n - 1))
      BY <2>1, <2>2, FS_Injection
    <2>4. \A k \in 1..n : k - 1 \in 0..(n - 1)
      BY <1>2
    <2> QED BY <2>3, <2>4 DEF Surjection
  <1>11. PICK at : at = [k \in 1..n |-> CHOOSE i \in 1..n : rank[i] = k - 1]
    OBVIOUS
  <1>12. \A k \in 1..n : at[k] \in 1..n /\ rank[at[k]] = k - 1
    BY <1>10, <1>11
  <1>13. Chronological(seq) = [k \in 1..n |-> seq[at[k]]]
    BY <1>2, <1>3, <1>11 DEF Chronological
  <1>14. ASSUME NEW k \in 1..n, NEW l \in 1..n, k < l
         PROVE  Chronological(seq)[k].time <= Chronological(seq)[l].time
    <2>1. ~(rank[at[l]] < rank[at[k]])
      BY <1>2, <1>12, <1>14
    <2>2. at[l] \notin Earlier(seq, at[k])
      BY <1>8, <1>12, <2>1
    <2>3. ~(time[at[l]] < time[at[k]])
      BY <1>6, <1>12, <2>2
    <2>4. time[at[k]] <= time[at[l]]
      BY <1>5, <1>12, <2>3
    <2> QED BY <1>5, <1>12, <1>13, <2>4
  <1> QED BY <1>1, <1>13, <1>14

\* Where an event is in the life of its order, and when.
BeforeReturn == {"PURCHASE", "ORDER_SHIPPED", "ORDER_DELIVERED"}
AfterRequest == {"RETURN_REQUESTED", "RETURN_PICKED_UP", "RETURN_RECEIVED", "REFUND_ISSUED"}
Records == [kind : BeforeReturn \cup AfterRequest, txn : Nat, time : Nat]

Lives(log) ==
    \A i, j \in DOMAIN log : i # j /\ log[i].txn = log[j].txn =>
        /\ log[i].kind # log[j].kind
        /\ Place(log[i].kind) < Place(log[j].kind) => log[i].time < log[j].time

\* The events of one order that are scheduled together: the rest of its life.
Rising(block, txn) ==
    /\ \A k \in 1..Len(block) : block[k].txn = txn
    /\ \A k, l \in 1..Len(block) : k < l =>
         /\ Place(block[k].kind) < Place(block[l].kind)
         /\ block[k].time < block[l].time

\* What belongs to a return comes after everything up to the delivery.
LEMMA PlacesDiffer ==
    /\ \A kind \in BeforeReturn \cup AfterRequest : Place(kind) \in Nat
    /\ \A kind \in BeforeReturn, later \in AfterRequest : Place(kind) < Place(later)
  BY DEF Place, BeforeReturn, AfterRequest

\* Lives stay in order when one of them goes on.
LEMMA LivesGoOn ==
    ASSUME NEW log \in Seq(Records), NEW block \in Seq(Records), NEW txn, Lives(log),
           Rising(block, txn),
           \A i \in 1..Len(log) : log[i].txn = txn =>
              \A k \in 1..Len(block) : /\ Place(log[i].kind) < Place(block[k].kind)
                                       /\ log[i].time < block[k].time
    PROVE  Lives(log \o block)
  <1>1. PICK n, m, all : n = Len(log) /\ m = Len(block) /\ all = log \o block
    OBVIOUS
  <1>2. /\ n \in Nat /\ m \in Nat /\ all \in Seq(Records) /\ DOMAIN all = 1..(n + m)
        /\ DOMAIN log = 1..n
        /\ \A i \in 1..n : all[i] = log[i] /\ log[i] \in Records
        /\ \A i \in (n + 1)..(n + m) :
              all[i] = block[i - n] /\ i - n \in 1..m /\ block[i - n] \in Records
    BY <1>1
  <1>3. \A e \in Records : e.time \in Nat /\ Place(e.kind) \in Nat
    BY PlacesDiffer DEF Records
  <1>4. ASSUME NEW i \in 1..(n + m), NEW j \in (n + 1)..(n + m), i < j, all[i].txn = all[j].txn
        PROVE  Place(all[i].kind) < Place(all[j].kind) /\ all[i].time < all[j].time
    <2>1. all[j] = block[j - n] /\ j - n \in 1..m /\ all[j].txn = txn
      BY <1>1, <1>2 DEF Rising
    <2>2. CASE i <= n
      <3>1. i \in 1..Len(log) /\ all[i] = log[i]
        BY <1>1, <1>2, <2>2
      <3> QED BY <1>1, <1>4, <2>1, <3>1
    <2>3. CASE i > n
      <3>1. i \in (n + 1)..(n + m) /\ i - n < j - n
        BY <1>2, <1>4, <2>3
      <3>2. all[i] = block[i - n] /\ i - n \in 1..m
        BY <1>2, <3>1
      <3> QED BY <1>1, <2>1, <3>1, <3>2 DEF Rising
    <2> QED BY <1>2, <2>2, <2>3
  <1>5. ASSUME NEW i \in 1..(n + m), NEW j \in 1..(n + m), i # j, all[i].txn = all[j].txn
        PROVE  /\ all[i].kind # all[j].kind
               /\ Place(all[i].kind) < Place(all[j].kind) => all[i].time < all[j].time
    <2>1. Place(all[i].kind) \in Nat /\ Place(all[j].kind) \in Nat
      <3>1. all[i] \in Records /\ all[j] \in Records
        BY <1>2
      <3> QED BY <1>3, <3>1
    <2>2. CASE i <= n /\ j <= n
      <3>1. i \in 1..n /\ j \in 1..n
        BY <1>2, <2>2
      <3> QED BY <1>2, <1>5, <3>1 DEF Lives
    <2>3. CASE i < j /\ j > n
      <3>1. j \in (n + 1)..(n + m)
        BY <1>2, <2>3
      <3>2. Place(all[i].kind) < Place(all[j].kind) /\ all[i].time < all[j].time
        BY <1>4, <1>5, <2>3, <3>1
      <3> QED BY <2>1, <3>2
    <2>4. CASE j < i /\ i > n
      <3>1. i \in (n + 1)..(n + m)
        BY <1>2, <2>4
      <3>2. Place(all[j].kind) < Place(all[i].kind)
        BY <1>4, <1>5, <2>4, <3>1
      <3> QED BY <2>1, <3>2
    <2> QED BY <1>2, <1>5, <2>2, <2>3, <2>4
  <1> QED BY <1>1, <1>2, <1>5 DEF Lives

\* The event log: the lives of the orders so far.  Of an order that was not returned
\* it holds what happens up to the delivery, so that a return can only follow.
Log ==
    /\ events \in Seq(Records) /\ Lives(events)
    /\ \A i \in 1..Len(events) :
         /\ events[i].txn \in 1..Len(orders)
         /\ events[i].kind \in BeforeReturn => events[i].time <= delivery[events[i].txn]
         /\ events[i].kind \in AfterRequest =>
              \E j \in 1..Len(returns) : returns[j].txn = events[i].txn
    /\ stage = "exported" => Sound(files)
    /\ stage # "invalid"

\* One block of events of an order more.
LEMMA LogGrows ==
    ASSUME Log, NEW block \in Seq(Records), NEW txn \in 1..Len(orders'),
           events' = events \o block, Rising(block, txn),
           \A i \in 1..Len(events) : events[i].txn = txn =>
              \A k \in 1..Len(block) : /\ Place(events[i].kind) < Place(block[k].kind)
                                       /\ events[i].time < block[k].time,
           \A k \in 1..Len(block) :
              /\ block[k].kind \in BeforeReturn => block[k].time <= delivery'[txn]
              /\ block[k].kind \in AfterRequest =>
                   \E j \in 1..Len(returns') : returns'[j].txn = txn,
           \A i \in 1..Len(orders) : i \in 1..Len(orders') /\ delivery'[i] = delivery[i],
           \A i \in 1..Len(returns) : i \in 1..Len(returns') /\ returns'[i] = returns[i],
           stage' \notin {"exported", "invalid"}
    PROVE  Log'
  <1>1. events \in Seq(Records) /\ Lives(events)
    BY DEF Log
  <1>2. Lives(events')
    BY <1>1, LivesGoOn
  <1>3. PICK n, m, all : n = Len(events) /\ m = Len(block) /\ all = events'
    OBVIOUS
  <1>4. /\ n \in Nat /\ m \in Nat /\ all \in Seq(Records) /\ Len(all) = n + m
        /\ \A i \in 1..n : all[i] = events[i]
        /\ \A i \in (n + 1)..(n + m) : all[i] = block[i - n] /\ i - n \in 1..m
    BY <1>1, <1>3
  <1>5. ASSUME NEW i \in 1..(n + m)
        PROVE  /\ all[i].txn \in 1..Len(orders')
               /\ all[i].kind \in BeforeReturn => all[i].time <= delivery'[all[i].txn]
               /\ all[i].kind \in AfterRequest =>
                    \E j \in 1..Len(returns') : returns'[j].txn = all[i].txn
    <2>1. CASE i \in 1..n
      <3>1. PICK e : e = events[i] /\ e = all[i]
        BY <1>4, <2>1
      <3>2. /\ e.txn \in 1..Len(orders)
            /\ e.kind \in BeforeReturn => e.time <= delivery[e.txn]
            /\ e.kind \in AfterRequest => \E j \in 1..Len(returns) : returns[j].txn = e.txn
        BY <1>3, <2>1, <3>1 DEF Log
      <3>3. e.txn \in 1..Len(orders') /\ delivery'[e.txn] = delivery[e.txn]
        BY <3>2
      <3> QED BY <3>1, <3>2, <3>3
    <2>2. CASE i \in (n + 1)..(n + m)
      <3>1. PICK k \in 1..Len(block) : all[i] = block[k]
        BY <1>3, <1>4, <2>2
      <3>2. block[k].txn = txn
        BY DEF Rising
      <3> QED BY <3>1, <3>2
    <2> QED BY <1>4, <2>1, <2>2
  <1> QED BY <1>2, <1>3, <1>4, <1>5 DEF Log

\* The log stays as it is.
LEMMA LogStays ==
    ASSUME Log, events' = events, orders' = orders, delivery' = delivery, returns' = returns,
           stage' \notin {"exported", "invalid"}
    PROVE  Log'
  BY DEF Log

\* A new order begins its life.
LEMMA PlaceKeepsLog ==
    ASSUME IInv, Log, NEW t \in OrderTimes, NEW p \in Products, NEW d \in AllDevices,
           NEW a \in AllAddresses, NEW y \in AllPayments, NEW ship \in ShipDelays,
           NEW deliver \in DeliveryDelays, PlaceOrder(t, p, d, a, y, ship, deliver)
    PROVE  Log'
  <1>1. PICK order : order = [user |-> current, product |-> p, time |-> t,
                              device |-> d, address |-> a, payment |-> y]
    OBVIOUS
  <1>2. Writes(order, t + ship + deliver)
    BY <1>1, OrderPlaced
  <1>3. PICK txn, arrival : txn = Len(orders) + 1 /\ arrival = t + ship + deliver
    OBVIOUS
  <1>4. /\ Len(orders) \in Nat /\ Len(orders') = txn /\ delivery'[txn] = arrival
        /\ \A i \in 1..Len(orders) : delivery'[i] = delivery[i]
        /\ returns' = returns /\ stage' = "delivered"
    BY <1>2, <1>3, Known DEF Writes
  <1>5. PICK block : block = <<Event("PURCHASE", txn, t), Event("ORDER_SHIPPED", txn, t + ship),
                               Event("ORDER_DELIVERED", txn, arrival)>>
    OBVIOUS
  <1>6. events' = events \o block
    BY <1>3, <1>5 DEF PlaceOrder
  <1>7. t \in Nat /\ ship \in Nat /\ deliver \in Nat /\ ship > 0 /\ deliver > 0
    BY CommerceAssumption
  <1>8. t + ship \in Nat /\ arrival \in Nat /\ t < t + ship /\ t + ship < arrival /\ t < arrival
    BY <1>3, <1>7
  <1>9. /\ block[1] = [kind |-> "PURCHASE", txn |-> txn, time |-> t]
        /\ block[2] = [kind |-> "ORDER_SHIPPED", txn |-> txn, time |-> t + ship]
        /\ block[3] = [kind |-> "ORDER_DELIVERED", txn |-> txn, time |-> arrival]
        /\ Len(block) = 3 /\ \A k \in 1..3 : k = 1 \/ k = 2 \/ k = 3
    BY <1>5 DEF Event
  <1>10. block \in Seq(Records)
    <2>1. txn \in Nat
      BY <1>3, <1>4
    <2>2. /\ [kind |-> "PURCHASE", txn |-> txn, time |-> t] \in Records
          /\ [kind |-> "ORDER_SHIPPED", txn |-> txn, time |-> t + ship] \in Records
          /\ [kind |-> "ORDER_DELIVERED", txn |-> txn, time |-> arrival] \in Records
      BY <1>7, <1>8, <2>1 DEF Records, BeforeReturn
    <2> QED BY <1>5, <2>2 DEF Event
  <1>11. Rising(block, txn)
    <2>1. Place("PURCHASE") = 1 /\ Place("ORDER_SHIPPED") = 2 /\ Place("ORDER_DELIVERED") = 3
      BY DEF Place
    <2>2. \A k \in 1..3 : block[k].txn = txn
      BY <1>9
    <2>3. ASSUME NEW k \in 1..3, NEW l \in 1..3, k < l
          PROVE  Place(block[k].kind) < Place(block[l].kind) /\ block[k].time < block[l].time
      <3>1. (k = 1 /\ l = 2) \/ (k = 1 /\ l = 3) \/ (k = 2 /\ l = 3)
        BY <2>3
      <3> QED BY <1>8, <1>9, <2>1, <3>1
    <2> QED BY <1>9, <2>2, <2>3 DEF Rising
  <1>12. \A i \in 1..Len(events) : events[i].txn # txn
    BY <1>3, <1>4 DEF Log
  <1>13. \A k \in 1..Len(block) : block[k].kind \notin AfterRequest /\ block[k].time <= delivery'[txn]
    BY <1>4, <1>7, <1>8, <1>9 DEF AfterRequest
  <1>14. txn \in 1..Len(orders') /\ \A i \in 1..Len(orders) : i \in 1..Len(orders')
    BY <1>3, <1>4
  <1> QED BY <1>4, <1>6, <1>10, <1>11, <1>12, <1>13, <1>14, LogGrows

\* A return of an order that was not returned yet: all of it comes after the delivery.
LEMMA ReturnKeepsLog ==
    ASSUME IInv, Log, NEW r, NEW l, Files(r, l), NEW txn \in 1..Len(orders), r.txn = txn,
           \A i \in 1..Len(returns) : returns[i].txn # txn,
           orders' = orders, delivery' = delivery, stage' \notin {"exported", "invalid"},
           NEW block \in Seq(Records), events' = events \o block, Rising(block, txn),
           \A k \in 1..Len(block) :
              block[k].kind \in AfterRequest /\ block[k].time > delivery[txn]
    PROVE  Log'
  <1>1. delivery[txn] \in Nat
    BY Known
  <1>2. \A e \in Records : e.time \in Nat /\ e.kind \in BeforeReturn \cup AfterRequest
    BY DEF Records
  <1>3. ASSUME NEW i \in 1..Len(events), events[i].txn = txn, NEW k \in 1..Len(block)
        PROVE  /\ Place(events[i].kind) < Place(block[k].kind)
               /\ events[i].time < block[k].time
    <2>1. events[i] \in Records /\ block[k] \in Records
      BY DEF Log
    <2>2. events[i].kind \notin AfterRequest
      BY <1>3 DEF Log
    <2>3. events[i].kind \in BeforeReturn /\ events[i].time <= delivery[txn]
      BY <1>2, <1>3, <2>1, <2>2 DEF Log
    <2>4. block[k].kind \in AfterRequest /\ block[k].time > delivery[txn]
      OBVIOUS
    <2>5. events[i].time \in Nat /\ block[k].time \in Nat
      BY <1>2, <2>1
    <2>6. events[i].time < block[k].time
      BY <1>1, <2>3, <2>4, <2>5
    <2> QED BY <2>3, <2>4, <2>6, PlacesDiffer
  <1>4. \E j \in 1..Len(returns') : returns'[j].txn = txn
    <2>1. Len(returns') \in 1..Len(returns') /\ returns'[Len(returns')] = r
      BY Known DEF Files
    <2> QED BY <2>1
  <1>5. \A i \in 1..Len(returns) : i \in 1..Len(returns') /\ returns'[i] = returns[i]
    BY Known DEF Files
  <1>6. \A k \in 1..Len(block) : block[k].kind \notin BeforeReturn
    BY DEF BeforeReturn, AfterRequest
  <1> QED BY <1>3, <1>4, <1>5, <1>6, LogGrows

\* A return from request to refund.
LEMMA LegitimateKeepsLog ==
    ASSUME IInv, Log, NEW delay \in ReturnDelays, ReturnLegitimately(delay)
    PROVE  Log'
  <1>1. PICK r, l : Files(r, l) /\ r.txn = Len(orders) /\ r.time = delivery[Len(orders)] + delay
    BY LegitimateFiled
  <1>2. PICK txn, t : txn = Len(orders) /\ t = delivery[txn] + delay
    OBVIOUS
  <1>3. PICK block : block = <<Event("RETURN_REQUESTED", txn, t),
                               Event("RETURN_PICKED_UP", txn, t + PickUp),
                               Event("RETURN_RECEIVED", txn, t + Receipt),
                               Event("REFUND_ISSUED", txn, t + Refund)>>
    OBVIOUS
  <1>4. /\ stage = "delivered" /\ events' = events \o block
        /\ orders' = orders /\ delivery' = delivery /\ stage' \notin {"exported", "invalid"}
    BY <1>2, <1>3 DEF ReturnLegitimately, Onwards
  <1>5. txn \in 1..Len(orders) /\ \A i \in 1..Len(returns) : returns[i].txn # txn
    BY <1>2, <1>4, Known DEF IInv, Stages, Returned
  <1>6. /\ PickUp \in Nat /\ Receipt \in Nat /\ Refund \in Nat
        /\ 0 < PickUp /\ PickUp < Receipt /\ Receipt < Refund
    BY CommerceAssumption
  <1>7. delivery[txn] \in Nat /\ t \in Nat /\ t > delivery[txn]
    <2>1. delivery[txn] \in Nat /\ delay \in Nat /\ delay > 0
      BY <1>5, Known, CommerceAssumption
    <2> QED BY <1>2, <2>1
  <1>8. PICK p, q, u : p = t + PickUp /\ q = t + Receipt /\ u = t + Refund
    OBVIOUS
  <1>9. /\ p \in Nat /\ q \in Nat /\ u \in Nat /\ t < p /\ p < q /\ q < u
        /\ p > delivery[txn] /\ q > delivery[txn] /\ u > delivery[txn]
    BY <1>6, <1>7, <1>8
  <1>10. /\ block[1] = [kind |-> "RETURN_REQUESTED", txn |-> txn, time |-> t]
         /\ block[2] = [kind |-> "RETURN_PICKED_UP", txn |-> txn, time |-> p]
         /\ block[3] = [kind |-> "RETURN_RECEIVED", txn |-> txn, time |-> q]
         /\ block[4] = [kind |-> "REFUND_ISSUED", txn |-> txn, time |-> u]
         /\ Len(block) = 4 /\ \A k \in 1..4 : k = 1 \/ k = 2 \/ k = 3 \/ k = 4
    BY <1>3, <1>8 DEF Event
  <1>11. block \in Seq(Records)
    <2>1. txn \in Nat
      BY <1>5
    <2>2. /\ [kind |-> "RETURN_REQUESTED", txn |-> txn, time |-> t] \in Records
          /\ [kind |-> "RETURN_PICKED_UP", txn |-> txn, time |-> p] \in Records
          /\ [kind |-> "RETURN_RECEIVED", txn |-> txn, time |-> q] \in Records
          /\ [kind |-> "REFUND_ISSUED", txn |-> txn, time |-> u] \in Records
      BY <1>7, <1>9, <2>1 DEF Records, AfterRequest
    <2> QED BY <1>3, <1>8, <2>2 DEF Event
  <1>12. Rising(block, txn)
    <2>1. /\ Place("RETURN_REQUESTED") = 4 /\ Place("RETURN_PICKED_UP") = 5
          /\ Place("RETURN_RECEIVED") = 6 /\ Place("REFUND_ISSUED") = 7
      BY DEF Place
    <2>2. \A k \in 1..4 : block[k].txn = txn
      BY <1>10
    <2>3. t < q /\ t < u /\ p < u
      BY <1>7, <1>9
    <2>4. ASSUME NEW k \in 1..4, NEW m \in 1..4, k < m
          PROVE  Place(block[k].kind) < Place(block[m].kind) /\ block[k].time < block[m].time
      <3>1. \/ k = 1 /\ m \in {2, 3, 4}
            \/ k = 2 /\ m \in {3, 4}
            \/ k = 3 /\ m = 4
        BY <2>4
      <3> QED BY <1>9, <1>10, <2>1, <2>3, <3>1
    <2> QED BY <1>10, <2>2, <2>4 DEF Rising
  <1>13. \A k \in 1..Len(block) :
            block[k].kind \in AfterRequest /\ block[k].time > delivery[txn]
    BY <1>7, <1>9, <1>10 DEF AfterRequest
  <1> QED BY <1>1, <1>2, <1>4, <1>5, <1>11, <1>12, <1>13, ReturnKeepsLog

\* One event before some others.
LEMMA Prepended ==
    ASSUME NEW S, NEW x \in S, NEW later \in Seq(S), NEW seq, seq = <<x>> \o later
    PROVE  /\ seq \in Seq(S) /\ Len(seq) = Len(later) + 1 /\ seq[1] = x
           /\ \A k \in 1..Len(later) : seq[k + 1] = later[k]
  OBVIOUS

\* What a scenario schedules for an order: everything from its request on.
LEMMA FraudScheduled ==
    ASSUME NEW flag \in Flags, NEW txn \in Nat, NEW t \in Nat
    PROVE  /\ Apply(flag, txn, t).events \in Seq(Records)
           /\ Rising(Apply(flag, txn, t).events, txn)
           /\ \A k \in 1..Len(Apply(flag, txn, t).events) :
                /\ Apply(flag, txn, t).events[k].kind \in AfterRequest
                /\ Apply(flag, txn, t).events[k].time >= t
  <1>1. flag.scenario \in {"multi_account_abuse", "serial_return_abuse", "wardrobing"}
    BY DEF Flags, Scenarios
  <1>2. /\ PickUp \in Nat /\ Receipt \in Nat /\ ReceiptByPost \in Nat
        /\ 0 < PickUp /\ PickUp < Receipt /\ 0 < ReceiptByPost
    BY CommerceAssumption
  <1>3. /\ Place("RETURN_REQUESTED") = 4 /\ Place("RETURN_PICKED_UP") = 5
        /\ Place("RETURN_RECEIVED") = 6
    BY DEF Place
  <1>4. PICK p, q, y, block : /\ p = t + PickUp /\ q = t + Receipt /\ y = t + ReceiptByPost
                              /\ block = Apply(flag, txn, t).events
    OBVIOUS
  <1>5. p \in Nat /\ q \in Nat /\ y \in Nat /\ t < p /\ p < q /\ t < q /\ t < y
    BY <1>2, <1>4
  <1>6. PICK requested, collected, received, posted :
           /\ requested = [kind |-> "RETURN_REQUESTED", txn |-> txn, time |-> t]
           /\ collected = [kind |-> "RETURN_PICKED_UP", txn |-> txn, time |-> p]
           /\ received = [kind |-> "RETURN_RECEIVED", txn |-> txn, time |-> q]
           /\ posted = [kind |-> "RETURN_RECEIVED", txn |-> txn, time |-> y]
    OBVIOUS
  <1>7. {requested, collected, received, posted} \subseteq Records
    BY <1>5, <1>6 DEF Records, AfterRequest
  <1>8. ASSUME flag.scenario = "serial_return_abuse"
        PROVE  /\ block \in Seq(Records) /\ Rising(block, txn)
               /\ \A k \in 1..Len(block) : block[k].kind \in AfterRequest /\ block[k].time >= t
    <2>1. block = <<Event("RETURN_REQUESTED", txn, t)>> \o
                  <<Event("RETURN_PICKED_UP", txn, p), Event("RETURN_RECEIVED", txn, q)>>
      BY <1>4, <1>8 DEF Apply, SerialReturnAbuse, Written
    <2>2. block = <<requested>> \o <<collected, received>>
      BY <1>6, <2>1 DEF Event
    <2>3. PICK later : later = <<collected, received>>
      OBVIOUS
    <2>4. later \in Seq(Records) /\ Len(later) = 2 /\ later[1] = collected /\ later[2] = received
      BY <1>7, <2>3
    <2>5. block \in Seq(Records) /\ Len(block) = Len(later) + 1 /\ block[1] = requested
          /\ \A k \in 1..Len(later) : block[k + 1] = later[k]
      <3>1. block = <<requested>> \o later /\ requested \in Records /\ later \in Seq(Records)
        BY <1>7, <2>2, <2>3, <2>4
      <3> QED BY <3>1, Prepended
    <2>6. block[1 + 1] = later[1] /\ block[2 + 1] = later[2]
      BY <2>4, <2>5
    <2>7. /\ block \in Seq(Records) /\ Len(block) = 3
          /\ block[1] = requested /\ block[2] = collected /\ block[3] = received
          /\ \A k \in 1..3 : k = 1 \/ k = 2 \/ k = 3
      BY <2>4, <2>5, <2>6
    <2>8. ASSUME NEW k \in 1..3, NEW m \in 1..3, k < m
          PROVE  Place(block[k].kind) < Place(block[m].kind) /\ block[k].time < block[m].time
      <3>1. (k = 1 /\ m = 2) \/ (k = 1 /\ m = 3) \/ (k = 2 /\ m = 3)
        BY <2>8
      <3> QED BY <1>3, <1>5, <1>6, <2>7, <3>1
    <2>9. \A k \in 1..3 : block[k].txn = txn
      BY <1>6, <2>7
    <2>10. \A k \in 1..3 : block[k].kind \in AfterRequest /\ block[k].time >= t
      BY <1>5, <1>6, <2>7 DEF AfterRequest
    <2> QED BY <2>7, <2>8, <2>9, <2>10 DEF Rising
  <1>9. ASSUME flag.scenario \in {"multi_account_abuse", "wardrobing"}
        PROVE  /\ block \in Seq(Records) /\ Rising(block, txn)
               /\ \A k \in 1..Len(block) : block[k].kind \in AfterRequest /\ block[k].time >= t
    <2>1. block = <<Event("RETURN_REQUESTED", txn, t)>> \o <<Event("RETURN_RECEIVED", txn, y)>>
      BY <1>4, <1>9 DEF Apply, MultiAccountAbuse, Wardrobing, Written
    <2>2. block = <<requested>> \o <<posted>>
      BY <1>6, <2>1 DEF Event
    <2>3. PICK later : later = <<posted>>
      OBVIOUS
    <2>4. later \in Seq(Records) /\ Len(later) = 1 /\ later[1] = posted
      BY <1>7, <2>3
    <2>5. block \in Seq(Records) /\ Len(block) = Len(later) + 1 /\ block[1] = requested
          /\ \A k \in 1..Len(later) : block[k + 1] = later[k]
      <3>1. block = <<requested>> \o later /\ requested \in Records /\ later \in Seq(Records)
        BY <1>7, <2>2, <2>3, <2>4
      <3> QED BY <3>1, Prepended
    <2>6. block[1 + 1] = later[1]
      BY <2>4, <2>5
    <2>7. /\ block \in Seq(Records) /\ Len(block) = 2
          /\ block[1] = requested /\ block[2] = posted
          /\ \A k \in 1..2 : k = 1 \/ k = 2
      BY <2>4, <2>5, <2>6
    <2>8. ASSUME NEW k \in 1..2, NEW m \in 1..2, k < m
          PROVE  Place(block[k].kind) < Place(block[m].kind) /\ block[k].time < block[m].time
      <3>1. k = 1 /\ m = 2
        BY <2>8
      <3> QED BY <1>3, <1>5, <1>6, <2>7, <3>1
    <2>9. \A k \in 1..2 : block[k].txn = txn
      BY <1>6, <2>7
    <2>10. \A k \in 1..2 : block[k].kind \in AfterRequest /\ block[k].time >= t
      BY <1>5, <1>6, <2>7 DEF AfterRequest
    <2> QED BY <2>7, <2>8, <2>9, <2>10 DEF Rising
  <1> QED BY <1>1, <1>4, <1>8, <1>9

\* A return of a scenario, from its request on.
LEMMA AbuseKeepsLog ==
    ASSUME IInv, Log, NEW target \in targets, Abuse(target)
    PROVE  Log'
  <1>1. PICK r, l : Files(r, l) /\ r.txn = target.txn /\ r.time \in 0..MaxTime /\ r.time = target.time
    BY AbuseFiled
  <1>2. PICK flag, txn, t : flag = flags[current] /\ txn = target.txn /\ t = target.time
    OBVIOUS
  <1> DEFINE block == Apply(flag, txn, t).events
  <1>3. /\ stage = "abuse" /\ events' = events \o block
        /\ orders' = orders /\ delivery' = delivery /\ stage' \notin {"exported", "invalid"}
    BY <1>2 DEF Abuse
  <1>4. flag \in Flags
    <2>1. current \in Customers /\ flags[current] # None
      BY <1>3, Known DEF IInv, Stages, Attending, Flagged, Customers
    <2> QED BY <1>2, <2>1 DEF IInv, Types
  <1>5. /\ txn \in 1..Len(orders) /\ \A i \in 1..Len(returns) : returns[i].txn # txn
        /\ \E delay \in ReturnDelays : t = delivery[txn] + delay
    BY <1>2, <1>3 DEF IInv, Returned
  <1>6. txn \in Nat /\ delivery[txn] \in Nat /\ t \in Nat /\ t > delivery[txn]
    <2>1. PICK delay \in ReturnDelays : t = delivery[txn] + delay
      BY <1>5
    <2>2. delivery[txn] \in Nat /\ delay \in Nat /\ delay > 0 /\ txn \in Nat
      BY <1>5, Known, CommerceAssumption
    <2> QED BY <2>1, <2>2
  <1>7. /\ block \in Seq(Records) /\ Rising(block, txn)
        /\ \A k \in 1..Len(block) : block[k].kind \in AfterRequest /\ block[k].time >= t
    BY <1>4, <1>6, FraudScheduled
  <1> HIDE DEF block
  <1>8. \A k \in 1..Len(block) : block[k].time > delivery[txn]
    <2>1. \A k \in 1..Len(block) : block[k] \in Records
      BY <1>7
    <2>2. \A e \in Records : e.time \in Nat
      BY DEF Records
    <2> QED BY <1>6, <1>7, <2>1, <2>2
  <1> QED BY <1>1, <1>2, <1>3, <1>5, <1>7, <1>8, ReturnKeepsLog

\* The exported data passes the three assertions of validate_generated_data.
LEMMA ExportIsSound ==
    ASSUME IInv, Log, Export
    PROVE  Sound(files')
  <1>1. PICK data : data = files'
    OBVIOUS
  <1>2. /\ data.orders = orders /\ data.returns = returns /\ data.labels = labels
        /\ data.events = Chronological(events)
    BY <1>1 DEF Export
  <1>3. DOMAIN orders = 1..Len(orders) /\ DOMAIN returns = 1..Len(returns)
        /\ Len(returns) = Len(labels)
    BY DEF IInv, Types
  <1>4. \A i \in DOMAIN returns : returns[i].txn \in DOMAIN orders
    BY <1>3, Known
  <1>5. events \in Seq(Records) /\ \A i \in 1..Len(events) : events[i].time \in Nat
    <2>1. events \in Seq(Records)
      BY DEF Log
    <2>2. \A i \in 1..Len(events) : events[i] \in Records
      BY <2>1
    <2> QED BY <2>1, <2>2 DEF Records
  <1>6. /\ DOMAIN Chronological(events) = 1..Len(events)
        /\ \A k, m \in 1..Len(events) :
              k < m => Chronological(events)[k].time <= Chronological(events)[m].time
    BY <1>5, ExportIsSorted
  <1> QED BY <1>1, <1>2, <1>3, <1>4, <1>6 DEF Sound

\* Every step keeps the log.
LEMMA StepKeepsLog == IInv /\ Log /\ [Next]_vars => Log'
  <1> SUFFICES ASSUME IInv, Log, [Next]_vars PROVE Log'
    OBVIOUS
  <1>1. ASSUME NEW c1 \in Customers, NEW c2 \in Customers, NEW device \in BOOLEAN,
               InjectHousehold(c1, c2, device)
        PROVE  Log'
    BY <1>1, LogStays DEF InjectHousehold, shop
  <1>2. ASSUME NEW draw \in Draws, InjectRings(draw) PROVE Log'
    BY <1>2, LogStays DEF InjectRings, shop
  <1>3. ASSUME NEW n \in 1..MaxPerCustomer, BeginCustomer(n) PROVE Log'
    BY <1>3, LogStays DEF BeginCustomer, shop
  <1>4. ASSUME NEW t \in OrderTimes, NEW p \in Products, NEW d \in AllDevices,
               NEW a \in AllAddresses, NEW y \in AllPayments, NEW ship \in ShipDelays,
               NEW deliver \in DeliveryDelays, PlaceOrder(t, p, d, a, y, ship, deliver)
        PROVE  Log'
    BY <1>4, PlaceKeepsLog
  <1>5. CASE Keep
    BY <1>5, LogStays DEF Keep, Onwards, shop
  <1>6. ASSUME NEW delay \in ReturnDelays, ReturnLegitimately(delay) PROVE Log'
    BY <1>6, LegitimateKeepsLog
  <1>7. ASSUME NEW txns, NEW delay \in ReturnDelays, BeginAbuse(txns, delay) PROVE Log'
    BY <1>7, LogStays DEF BeginAbuse, shop
  <1>8. ASSUME NEW target \in targets, Abuse(target) PROVE Log'
    BY <1>8, AbuseKeepsLog
  <1>9. CASE Export
    <2>1. Sound(files') /\ stage' = "exported"
      BY <1>9, ExportIsSound DEF Export
    <2>2. events' = events /\ orders' = orders /\ delivery' = delivery /\ returns' = returns
      BY <1>9 DEF Export, shop
    <2> QED BY <2>1, <2>2 DEF Log
  <1>10. CASE Validate
    <2>1. stage' = "valid"
      BY <1>10 DEF Validate, Log
    <2> QED BY <1>10, <2>1, LogStays DEF Validate, shop
  <1>11. CASE UNCHANGED vars
    BY <1>11 DEF Log, vars, shop
  <1> QED BY <1>1, <1>2, <1>3, <1>4, <1>5, <1>6, <1>7, <1>8, <1>9, <1>10, <1>11 DEF Next

\* The events that the simulation schedules, out of the order of time and from four
\* pieces of code, tell of every order a life that can be lived: each step at most
\* once, the return after the delivery, its steps after one another.  What is
\* exported is sorted, and validate_generated_data never fails on it.
THEOREM LivesAreOrderedHolds == Spec => []LivesAreOrdered
  <1>1. Init => Log
    BY DEF Init, Log, Lives
  <1>2. Log => LivesAreOrdered
    BY DEF Log, Lives, LivesAreOrdered
  <1> QED BY <1>1, <1>2, Inductive, StepKeepsLog, PTL DEF Spec
=============================================================================
