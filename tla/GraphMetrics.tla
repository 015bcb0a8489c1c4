---------------------------- MODULE GraphMetrics ----------------------------
(***************************************************************************)
(* GraphProcessor.compute_user_graph_metrics: the neighbourhood of a       *)
(* customer in the bipartite graph of customers and entities.  rels is the *)
(* set of user-entity pairs in memory (entity_users and user_entities hold *)
(* the same pairs, indexed either way) and counts the number of returns of *)
(* each customer.  A metric is the size of a set; a key holds the set.     *)
(***************************************************************************)
EXTENDS Naturals

CONSTANTS Users, Devices, Addresses, Payments

Entities == Devices \cup Addresses \cup Payments

EntitiesOf(rels, u, kinds) == {e \in kinds : <<u, e>> \in rels}
UsersOn(rels, e) == {v \in Users : <<v, e>> \in rels}

Sharing(rels, u, kinds) ==
    (UNION {UsersOn(rels, e) : e \in EntitiesOf(rels, u, kinds)}) \ {u}

Hop1(rels, u) == Sharing(rels, u, Entities)

\* Mutant: a neighbour of a neighbour may be a neighbour.
Hop2AndHop1(rels, u) ==
    (UNION {UNION {UsersOn(rels, e) : e \in EntitiesOf(rels, n, Entities)} : n \in Hop1(rels, u)})
      \ {u}

Hop2(rels, u) ==
    (UNION {UNION {UsersOn(rels, e) : e \in EntitiesOf(rels, n, Entities)} : n \in Hop1(rels, u)})
      \ ({u} \cup Hop1(rels, u))

Metrics(rels, counts, u) ==
    [linked_1hop    |-> Hop1(rels, u),
     linked_2hop    |-> Hop2(rels, u),
     shared_device  |-> Sharing(rels, u, Devices),
     shared_address |-> Sharing(rels, u, Addresses),
     shared_payment |-> Sharing(rels, u, Payments),
     high_return    |-> {n \in Hop1(rels, u) : counts[n] >= 2}]
=============================================================================
