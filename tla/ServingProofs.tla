---------------------------- MODULE ServingProofs ----------------------------
(***************************************************************************)
(* What is proved of Serving, for any sequence of exports, any dates of     *)
(* edges and any number of replays, faults and ticks of the clock: a round *)
(* of writing skips no key, the age that is reported for the graph covers  *)
(* the time since its relationships were read, and a scoring gets what the *)
(* last round wrote of all that was not lost.                              *)
(*                                                                         *)
(* All three need an invariant.  Rounds follows the keys of a round from   *)
(* the list through the pipeline to the server (or to where keys get       *)
(* lost).  Dated follows the timestamp of the graph: it is taken when the  *)
(* processor starts, before the first file is read, and after that only    *)
(* edges move it.  OnServer says what the server holds under the keys that *)
(* a round has landed: no other program writes them.                       *)
(***************************************************************************)
EXTENDS Serving, FiniteSetTheorems, TLAPS

USE ServingAssumption

------------------------------------------------------------------------------
(* Types.                                                                  *)

Places == {"down", "load relationships", "load returns", "load orders",
           "replay orders", "replay returns", "join returns", "write", "done"}
Read == 0..Len(DataSets)

Memories == [rels : SUBSET (Users \X Entities), counts : [Users -> Nat], stamp : Nat, read : Nat,
             export : Read, loaded : SUBSET Read, returns : Read]
Sources == [orders : Read, returns : Read, joined : Read]

DiskTypes == /\ files \in [Files -> Read]
             /\ torn \in Files \cup {None}
             /\ torn # None => files[torn] < Len(DataSets)
RoundTypes == /\ todo \in [Processes -> SUBSET Keys] /\ pipe \in [Processes -> SUBSET Keys]
              /\ landed \in [Processes -> SUBSET Keys] /\ lost \in [Processes -> SUBSET Keys]
              /\ total \in [Processes -> Nat]
              /\ pc \in [Processes -> Places]
DataTypes == mem \in Memories /\ IsFiniteSet(mem.rels) /\ acc \in Sources

Types == DiskTypes /\ RoundTypes /\ DataTypes /\ DOMAIN backend = Processes /\ now \in Nat

\* The image of a finite set is finite.
LEMMA ImageIsFinite ==
    ASSUME NEW S, IsFiniteSet(S), NEW T, NEW f \in [S -> T]
    PROVE  IsFiniteSet({f[x] : x \in S})
<1> DEFINE R == {f[x] : x \in S}
<1>1. f \in [S -> R] /\ \A t \in R : \E x \in S : f[x] = t
  OBVIOUS
<1>2. f \in Surjection(S, R)
  BY <1>1 DEF Surjection
<1>3. QED
  BY <1>2, FS_Surjection

\* What is exported is well formed.
LEMMA DataOf ==
    ASSUME NEW g \in Read, g # 0
    PROVE  /\ g \in Exports
           /\ DataSets[g].rels \subseteq Users \X Entities
           /\ IsFiniteSet(DataSets[g].rels)
           /\ IsFiniteSet(DOMAIN DataSets[g].orders)
           /\ \A txn \in DOMAIN DataSets[g].orders : DataSets[g].orders[txn] \in Users
           /\ DataSets[g].latest \in Nat
<1>1. Len(DataSets) \in Nat /\ DOMAIN DataSets = 1..Len(DataSets)
  OBVIOUS
<1>2. g \in Exports
  BY <1>1 DEF Read, Exports
<1>3. QED
  BY <1>2

\* A file holds one of the exports, or none.
LEMMA ReadIsNat == Read \subseteq Nat /\ 0 \in Read /\ Len(DataSets) \in Nat
  BY DEF Read

\* The keys of a round are finitely many keys.
LEMMA ListedGraph ==
    ASSUME DataTypes
    PROVE  Listed("graph") \in SUBSET Keys /\ IsFiniteSet(Listed("graph"))
<1>1. \A k \in mem.rels : k[1] \in Users
  BY DEF DataTypes, Memories
<1>2. {GraphKey(k[1]) : k \in mem.rels} \in SUBSET Keys
  BY <1>1 DEF Keys
<1>3. IsFiniteSet({GraphKey(k[1]) : k \in mem.rels})
  <2> DEFINE f == [k \in mem.rels |-> GraphKey(k[1])]
  <2>1. f \in [mem.rels -> Keys]
    BY <1>1 DEF Keys
  <2>2. {f[k] : k \in mem.rels} = {GraphKey(k[1]) : k \in mem.rels}
    OBVIOUS
  <2> HIDE DEF f
  <2>3. PICK S : S = mem.rels
    OBVIOUS
  <2>4. IsFiniteSet(S) /\ f \in [S -> Keys]
    BY <2>1, <2>3 DEF DataTypes
  <2>5. IsFiniteSet({f[k] : k \in S})
    BY <2>4, ImageIsFinite
  <2>6. QED
    BY <2>2, <2>3, <2>5
<1>4. QED
  BY <1>2, <1>3 DEF Listed

\* So are those of a replay.
LEMMA ListedFeatures ==
    ASSUME NEW g \in Read
    PROVE  Features(g) \in SUBSET Keys /\ IsFiniteSet(Features(g))
<1>1. CASE g = 0
  BY <1>1, FS_EmptySet DEF Features
<1>2. CASE g # 0
  <2> DEFINE o == DataSets[g].orders
             r == DataSets[g].rels
             buyers == {o[txn] : txn \in DOMAIN o}
             links == {k \in r : k[1] \in buyers}
             ours == {FeatureKey(u) : u \in buyers}
             theirs == {FeatureKey(k[2]) : k \in links}
  <2>1. /\ r \subseteq Users \X Entities /\ IsFiniteSet(r) /\ IsFiniteSet(DOMAIN o)
        /\ buyers \subseteq Users
    BY <1>2, DataOf
  <2>2. IsFiniteSet(buyers)
    <3> DEFINE f == [txn \in DOMAIN o |-> o[txn]]
    <3>1. f \in [DOMAIN o -> Users]
      BY <2>1
    <3>2. {f[txn] : txn \in DOMAIN o} = buyers
      OBVIOUS
    <3> HIDE DEF f, o
    <3>3. IsFiniteSet({f[txn] : txn \in DOMAIN o})
      BY <2>1, <3>1, ImageIsFinite
    <3>4. QED
      BY <3>2, <3>3
  <2>3. IsFiniteSet(ours) /\ ours \in SUBSET Keys
    <3> HIDE DEF buyers
    <3> DEFINE f == [u \in buyers |-> FeatureKey(u)]
    <3>1. f \in [buyers -> Keys]
      BY <2>1 DEF Keys
    <3>2. IsFiniteSet({f[u] : u \in buyers})
      BY <2>2, <3>1, ImageIsFinite
    <3>3. {f[u] : u \in buyers} = ours
      OBVIOUS
    <3>4. QED
      BY <3>1, <3>2, <3>3
  <2>4. IsFiniteSet(links) /\ \A k \in links : k[2] \in Entities
    <3>1. links \in SUBSET r
      OBVIOUS
    <3>2. IsFiniteSet(links)
      BY <2>1, <3>1, FS_Subset
    <3>3. QED
      BY <2>1, <3>1, <3>2
  <2>5. IsFiniteSet(theirs) /\ theirs \in SUBSET Keys
    <3> HIDE DEF links
    <3> DEFINE f == [k \in links |-> FeatureKey(k[2])]
    <3>1. f \in [links -> Keys]
      BY <2>4 DEF Keys
    <3>2. IsFiniteSet({f[k] : k \in links})
      BY <2>4, <3>1, ImageIsFinite
    <3>3. {f[k] : k \in links} = theirs
      OBVIOUS
    <3>4. QED
      BY <3>1, <3>2, <3>3
  <2>6. Features(g) = ours \cup theirs
    BY <1>2 DEF Features
  <2> HIDE DEF ours, theirs
  <2>7. QED
    BY <2>3, <2>5, <2>6, FS_Union
<1>3. QED
  BY <1>1, <1>2

\* And so what either process lists.
LEMMA ListedTyping ==
    ASSUME DataTypes, NEW p \in Processes
    PROVE  Listed(p) \in SUBSET Keys /\ IsFiniteSet(Listed(p))
<1>1. acc.orders \in Read
  BY DEF DataTypes, Sources
<1>2. CASE p = "graph"
  BY <1>2, ListedGraph
<1>3. CASE p # "graph"
  BY <1>1, <1>3, ListedFeatures DEF Listed
<1>4. QED
  BY <1>2, <1>3

\* A round that begins, or a process that ends.
LEMMA EmptyRound ==
    ASSUME RoundTypes, NEW p \in Processes, NEW keys \in SUBSET Keys,
           todo' = [todo EXCEPT ![p] = keys], total' = [total EXCEPT ![p] = 0],
           pipe' = [pipe EXCEPT ![p] = {}],
           landed' = [landed EXCEPT ![p] = {}], lost' = [lost EXCEPT ![p] = {}],
           pc' \in [Processes -> Places]
    PROVE  RoundTypes'
<1>1. todo' \in [Processes -> SUBSET Keys] /\ pipe' \in [Processes -> SUBSET Keys]
  BY DEF RoundTypes
<1>2. landed' \in [Processes -> SUBSET Keys] /\ lost' \in [Processes -> SUBSET Keys]
  BY DEF RoundTypes
<1>3. total' \in [Processes -> Nat]
  BY DEF RoundTypes
<1>4. QED
  BY <1>1, <1>2, <1>3 DEF RoundTypes

\* A round begins.
LEMMA BeginTyping ==
    ASSUME RoundTypes, NEW p \in Processes, NEW keys \in SUBSET Keys, BeginWriting(p, keys)
    PROVE  RoundTypes'
<1>1. pc' \in [Processes -> Places]
  BY DEF BeginWriting, RoundTypes, Places
<1>2. QED
  BY <1>1, EmptyRound DEF BeginWriting

\* What is left of a round is forgotten.
LEMMA ForgetTyping ==
    ASSUME RoundTypes, NEW p \in Processes, Forget(p), pc' \in [Processes -> Places]
    PROVE  RoundTypes'
<1>1. PICK keys \in SUBSET Keys : keys = {}
  OBVIOUS
<1>2. todo' = [todo EXCEPT ![p] = keys]
  BY <1>1 DEF Forget
<1>3. QED
  BY <1>2, EmptyRound DEF Forget

\* A process ends and forgets.
LEMMA DiesTyping ==
    ASSUME Types, NEW p \in Processes, Dies(p)
    PROVE  RoundTypes' /\ DataTypes'
<1>1. pc' \in [Processes -> Places]
  BY DEF Dies, Types, RoundTypes, Places
<1>2. RoundTypes'
  <2>1. RoundTypes /\ Forget(p)
    BY DEF Types, Dies
  <2>2. QED
    BY <1>1, <2>1, ForgetTyping
<1>3. Nothing \in Memories /\ IsFiniteSet(Nothing.rels)
  BY FS_EmptySet, ReadIsNat DEF Nothing, Memories
<1>4. [orders |-> 0, returns |-> 0, joined |-> 0] \in Sources
  BY ReadIsNat DEF Sources
<1>5. QED
  BY <1>2, <1>3, <1>4 DEF Dies, Types, DataTypes

\* An executed pipeline lands or is lost as a whole.
LEMMA ExecuteTyping ==
    ASSUME RoundTypes, NEW p \in Processes, NEW keys \in SUBSET Keys, Execute(p, keys)
    PROVE  /\ pipe' \in [Processes -> SUBSET Keys]
           /\ landed' \in [Processes -> SUBSET Keys] /\ lost' \in [Processes -> SUBSET Keys]
<1>1. landed[p] \cup keys \in SUBSET Keys /\ lost[p] \cup keys \in SUBSET Keys
  BY DEF RoundTypes
<1>2. QED
  BY <1>1 DEF Execute, RoundTypes

\* What a load adds to the graph.
LEMMA LoadTyping ==
    ASSUME DataTypes, DiskTypes, now \in Nat,
           LoadRelationships \/ LoadReturns \/ LoadOrders
    PROVE  mem' \in Memories /\ IsFiniteSet(mem'.rels)
<1>1. /\ mem.rels \in SUBSET (Users \X Entities) /\ IsFiniteSet(mem.rels)
      /\ mem.counts \in [Users -> Nat] /\ mem.stamp \in Nat /\ mem.read \in Nat /\ mem.export \in Read
      /\ mem.loaded \in SUBSET Read /\ mem.returns \in Read /\ mem \in Memories
  BY DEF DataTypes, Memories
<1>2. files["relationships"] \in Read /\ files["returns"] \in Read /\ files["orders"] \in Read
  BY DEF DiskTypes, Files
<1>3. CASE LoadRelationships
  <2>1. PICK g \in Read : g = files["relationships"]
    BY <1>2
  <2>2. CASE g = 0
    BY <1>1, <1>3, <2>1, <2>2 DEF LoadRelationships
  <2>3. CASE g # 0
    <3>1. /\ DataSets[g].rels \subseteq Users \X Entities /\ IsFiniteSet(DataSets[g].rels)
          /\ DataSets[g].latest \in Nat
      BY <2>3, DataOf, ReadIsNat
    <3>2. IsFiniteSet(mem.rels \cup DataSets[g].rels)
      BY <1>1, <3>1, FS_Union
    <3>3. mem' = [mem EXCEPT !.rels = mem.rels \cup DataSets[g].rels, !.export = g, !.read = now,
                             !.stamp = IF DataSets[g].latest > mem.stamp THEN DataSets[g].latest
                                       ELSE mem.stamp,
                             !.loaded = mem.loaded \cup {g}]
      BY <1>3, <2>1, <2>3 DEF LoadRelationships
    <3>4. mem'.rels = mem.rels \cup DataSets[g].rels
      BY <1>1, <3>3 DEF Memories
    <3>5. QED
      BY <1>1, <3>1, <3>2, <3>3, <3>4 DEF Memories
  <2>4. QED
    BY <2>2, <2>3
<1>4. CASE LoadReturns
  <2>1. PICK g \in Read : g = files["returns"]
    BY <1>2
  <2>2. mem' = mem \/ mem' = [mem EXCEPT !.returns = g, !.loaded = mem.loaded \cup {g}]
    BY <1>4, <2>1 DEF LoadReturns
  <2>3. mem.loaded \cup {g} \in SUBSET Read
    BY <1>1
  <2>4. mem' \in Memories
    BY <1>1, <2>2, <2>3 DEF Memories
  <2>5. mem'.rels = mem.rels
    BY <1>1, <2>2 DEF Memories
  <2>6. QED
    BY <1>1, <2>4, <2>5
<1>5. CASE LoadOrders
  <2>1. PICK g \in Read : g = files["orders"]
    BY <1>2
  <2>2. CASE g = 0
    BY <1>1, <1>5, <2>1, <2>2 DEF LoadOrders
  <2>3. CASE g # 0
    <3>1. \A u \in Users : Cardinality(ReturnsOf(mem.returns, g, u)) \in Nat
      <4> TAKE u \in Users
      <4>1. ReturnsOf(mem.returns, g, u) \in SUBSET (DOMAIN DataSets[g].orders)
        BY DEF ReturnsOf
      <4>2. IsFiniteSet(ReturnsOf(mem.returns, g, u))
        BY <2>3, <4>1, DataOf, FS_Subset
      <4>3. QED
        BY <4>2, FS_CardinalityType
    <3>2. Counted(mem.counts, mem.returns, g) \in [Users -> Nat]
      BY <1>1, <3>1 DEF Counted
    <3>3. mem' = [mem EXCEPT !.counts = Counted(mem.counts, mem.returns, g),
                             !.loaded = mem.loaded \cup {g}]
      BY <1>5, <2>1, <2>3 DEF LoadOrders
    <3>4. QED
      BY <1>1, <3>2, <3>3 DEF Memories
  <2>4. QED
    BY <2>2, <2>3
<1>6. QED
  BY <1>3, <1>4, <1>5

\* A read of the replayer.
LEMMA ReplayTyping ==
    ASSUME DataTypes, DiskTypes, ReplayOrders \/ ReplayReturns \/ JoinReturns
    PROVE  acc' \in Sources
<1>1. files["returns"] \in Read /\ files["orders"] \in Read
  BY DEF DiskTypes, Files
<1>2. QED
  BY <1>1 DEF ReplayOrders, ReplayReturns, JoinReturns, DataTypes, Sources

\* Every variable keeps its type.
LEMMA TypesStep == ASSUME Types, [Next]_vars PROVE Types'
<1> USE DEF Types
<1>0. /\ UNCHANGED disk => DiskTypes'
      /\ UNCHANGED <<writer, pc>> => RoundTypes'
      /\ UNCHANGED <<mem, acc>> => DataTypes'
  BY DEF disk, DiskTypes, writer, RoundTypes, DataTypes
<1>1. ASSUME NEW f \in Files, BeginWrite(f)
      PROVE  Types'
  <2>1. files[f] < Len(DataSets)
    <3>1. files \in [Files -> Read] /\ Follows(f) \in Files
      BY DEF DiskTypes, Follows, Files
    <3>2. files[f] \in Nat /\ files[Follows(f)] \in Nat /\ files[Follows(f)] <= Len(DataSets)
          /\ Len(DataSets) \in Nat
      BY <3>1, ReadIsNat DEF Read
    <3>3. QED
      BY <1>1, <3>2 DEF BeginWrite
  <2>2. DiskTypes'
    BY <1>1, <2>1 DEF BeginWrite, DiskTypes
  <2>3. QED
    BY <1>0, <1>1, <2>2 DEF BeginWrite
<1>2. CASE EndWrite
  <2>1. files' \in [Files -> Read]
    BY <1>2, ReadIsNat DEF EndWrite, DiskTypes, Read
  <2>2. QED
    BY <1>0, <1>2, <2>1 DEF EndWrite, DiskTypes
<1>3. ASSUME Fail \/ Tick \/ UNCHANGED vars
      PROVE  Types'
  BY <1>0, <1>3 DEF Fail, Tick, vars
<1>13. ASSUME NEW kept \in BOOLEAN, Recover(kept)
       PROVE  Types'
  <2>1. landed' \in [Processes -> SUBSET Keys] /\ lost' \in [Processes -> SUBSET Keys]
    BY <1>13 DEF Recover, RoundTypes
  <2>2. RoundTypes'
    BY <1>13, <2>1 DEF Recover, RoundTypes
  <2>3. QED
    BY <1>0, <1>13, <2>2 DEF Recover
<1>4. ASSUME NEW p \in Processes, Kill(p) \/ ReadTorn(p)
      PROVE  Types'
  BY <1>0, <1>4, DiesTyping DEF Kill, ReadTorn, Dies
<1>5. ASSUME NEW b, StartReplay(b)
      PROVE  Types'
  <2>1. RoundTypes'
    <3>1. pc' \in [Processes -> Places] /\ "replay" \in Processes /\ Forget("replay")
      BY <1>5 DEF StartReplay, RoundTypes, Places, Processes
    <3>2. QED
      BY <3>1, ForgetTyping
  <2>2. DataTypes'
    BY <1>5, ReadIsNat DEF StartReplay, DataTypes, Sources
  <2>3. QED
    BY <1>0, <1>5, <2>1, <2>2 DEF StartReplay
<1>6. ASSUME NEW b, StartGraph(b)
      PROVE  Types'
  <2>1. RoundTypes'
    BY <1>6 DEF StartGraph, writer, RoundTypes, Places
  <2>3. mem' \in Memories /\ mem'.rels = {}
    BY <1>6, ReadIsNat DEF StartGraph, Nothing, Memories
  <2>4. DataTypes'
    BY <1>6, <2>3, FS_EmptySet DEF StartGraph, DataTypes
  <2>5. QED
    BY <1>0, <1>6, <2>1, <2>4 DEF StartGraph
<1>7. CASE LoadRelationships \/ LoadReturns \/ LoadOrders
  <2>1. UNCHANGED <<disk, acc, backend, now>>
    BY <1>7 DEF LoadRelationships, LoadReturns, LoadOrders
  <2>2. DataTypes'
    BY <1>7, <2>1, LoadTyping DEF DataTypes
  <2>3. \/ Materialize(mem.rels)
        \/ /\ UNCHANGED writer
           /\ \E at \in Places : pc' = [pc EXCEPT !["graph"] = at]
    BY <1>7 DEF LoadRelationships, LoadReturns, LoadOrders, Places
  <2>4. CASE Materialize(mem.rels)
    <3>1. PICK keys : keys = {GraphKey(u) : u \in {k[1] : k \in mem.rels}}
      OBVIOUS
    <3>2. \A k \in mem.rels : k[1] \in Users
      BY DEF DataTypes, Memories
    <3>3. keys \in SUBSET Keys
      BY <3>1, <3>2 DEF Keys
    <3>4. BeginWriting("graph", keys)
      BY <2>4, <3>1 DEF Materialize
    <3>5. RoundTypes'
      BY <3>3, <3>4, BeginTyping DEF Processes
    <3>6. QED
      BY <1>0, <2>1, <2>2, <3>5
  <2>5. CASE UNCHANGED writer /\ \E at \in Places : pc' = [pc EXCEPT !["graph"] = at]
    <3>1. RoundTypes'
      BY <2>5 DEF writer, RoundTypes
    <3>2. QED
      BY <1>0, <2>1, <2>2, <3>1
  <2>6. QED
    BY <2>3, <2>4, <2>5
<1>8. CASE Wake
  <2>1. RoundTypes'
    <3>1. pc' \in [Processes -> Places] /\ "graph" \in Processes /\ Forget("graph")
      BY <1>8 DEF Wake, RoundTypes, Places, Processes
    <3>2. QED
      BY <3>1, ForgetTyping
  <2>2. QED
    BY <1>0, <1>8, <2>1 DEF Wake
<1>9. CASE ReplayOrders \/ ReplayReturns \/ JoinReturns
  <2>1. UNCHANGED <<disk, mem, backend, now>>
    BY <1>9 DEF ReplayOrders, ReplayReturns, JoinReturns
  <2>2. DataTypes'
    BY <1>9, <2>1, ReplayTyping DEF DataTypes
  <2>3. \/ BeginWriting("replay", Features(acc.orders))
        \/ /\ UNCHANGED writer
           /\ \E at \in Places : pc' = [pc EXCEPT !["replay"] = at]
    BY <1>9 DEF ReplayOrders, ReplayReturns, JoinReturns, Places
  <2>4. Features(acc.orders) \in SUBSET Keys
    BY ListedFeatures DEF DataTypes, Sources
  <2>5. CASE BeginWriting("replay", Features(acc.orders))
    <3>1. RoundTypes'
      BY <2>4, <2>5, BeginTyping DEF Processes
    <3>2. QED
      BY <1>0, <2>1, <2>2, <3>1
  <2>6. CASE UNCHANGED writer /\ \E at \in Places : pc' = [pc EXCEPT !["replay"] = at]
    <3>1. RoundTypes'
      BY <2>6 DEF writer, RoundTypes
    <3>2. QED
      BY <1>0, <2>1, <2>2, <3>1
  <2>7. QED
    BY <2>3, <2>5, <2>6
<1>10. ASSUME NEW p \in Processes, Put(p)
       PROVE  Types'
  <2>1. PICK k : /\ k \in todo[p] /\ todo' = [todo EXCEPT ![p] = @ \ {k}]
                 /\ \/ Execute(p, pipe[p] \cup {k})
                    \/ Fill(p, pipe[p] \cup {k})
    BY <1>10 DEF Put
  <2>2. pipe[p] \cup {k} \in SUBSET Keys
    BY <2>1 DEF RoundTypes
  <2>3. /\ pipe' \in [Processes -> SUBSET Keys]
        /\ landed' \in [Processes -> SUBSET Keys] /\ lost' \in [Processes -> SUBSET Keys]
    BY <2>1, <2>2, ExecuteTyping DEF Fill, RoundTypes
  <2>4. todo' \in [Processes -> SUBSET Keys]
    BY <2>1 DEF RoundTypes
  <2>5. total' \in [Processes -> Nat] /\ UNCHANGED pc
    BY <1>10 DEF Put, RoundTypes
  <2>6. RoundTypes'
    BY <2>3, <2>4, <2>5 DEF RoundTypes
  <2>7. QED
    BY <1>0, <1>10, <2>6 DEF Put
<1>11. ASSUME NEW p \in Processes, Finish(p)
       PROVE  Types'
  <2>1. /\ pipe' \in [Processes -> SUBSET Keys]
        /\ landed' \in [Processes -> SUBSET Keys] /\ lost' \in [Processes -> SUBSET Keys]
    BY <1>11, ExecuteTyping DEF Finish, RoundTypes
  <2>2. pc' \in [Processes -> Places] /\ UNCHANGED <<todo, total>>
    BY <1>11 DEF Finish, RoundTypes, Places
  <2>3. RoundTypes'
    BY <2>1, <2>2 DEF RoundTypes
  <2>4. QED
    BY <1>0, <1>11, <2>3 DEF Finish
<1>12. QED
  BY <1>1, <1>2, <1>3, <1>13, <1>4, <1>5, <1>6, <1>7, <1>8, <1>9, <1>10, <1>11
     DEF Next, GraphStep, ReplayStep, Processes

------------------------------------------------------------------------------
(* The keys of a round.                                                    *)

\* The keys that are listed have landed, are lost, in the open pipeline or still to
\* do, each in one of them, and total counts what is not to do.
Accounted(keys, todoKeys, pipeKeys, landedKeys, lostKeys, n) ==
    LET sent == landedKeys \cup lostKeys IN
    /\ sent \cup pipeKeys \cup todoKeys = keys
    /\ landedKeys \cap lostKeys = {}
    /\ sent \cap pipeKeys = {}
    /\ (sent \cup pipeKeys) \cap todoKeys = {}
    /\ n = Cardinality(sent \cup pipeKeys)

InRound(p) ==
    /\ Accounted(Listed(p), todo[p], pipe[p], landed[p], lost[p], total[p])
    /\ pc[p] = "done" => todo[p] = {} /\ pipe[p] = {}

Rounds == \A p \in Processes : pc[p] \in {"write", "done"} => InRound(p)

\* A process that stays where it is stays in its round.
LEMMA RoundKept ==
    ASSUME NEW p, InRound(p), UNCHANGED <<pc[p], todo[p], pipe[p], landed[p], lost[p], total[p]>>,
           Listed(p)' = Listed(p)
    PROVE  InRound(p)'
  BY DEF InRound

\* Nor does a step of another process disturb it.
LEMMA RoundOfOther ==
    ASSUME Rounds, NEW q \in Processes, Listed(q)' = Listed(q),
           pc'[q] = pc[q], todo'[q] = todo[q], pipe'[q] = pipe[q],
           landed'[q] = landed[q], lost'[q] = lost[q], total'[q] = total[q],
           pc'[q] \in {"write", "done"}
    PROVE  InRound(q)'
  BY RoundKept DEF Rounds

\* A round begins with all its keys to do.
LEMMA RoundBegins ==
    ASSUME RoundTypes, NEW p \in Processes, NEW keys \in SUBSET Keys, BeginWriting(p, keys),
           Listed(p)' = keys
    PROVE  InRound(p)'
<1>1. /\ todo'[p] = keys /\ pipe'[p] = {} /\ landed'[p] = {} /\ lost'[p] = {}
      /\ total'[p] = 0 /\ pc'[p] = "write"
  BY DEF BeginWriting, RoundTypes
<1>2. Accounted(keys, keys, {}, {}, {}, 0)
  BY FS_EmptySet DEF Accounted
<1>3. QED
  BY <1>1, <1>2 DEF InRound

\* One more key goes to the pipeline.
LEMMA OneMore ==
    ASSUME NEW keys, IsFiniteSet(keys), NEW t, NEW pk, NEW a, NEW b, NEW n,
           Accounted(keys, t, pk, a, b, n), NEW k \in t
    PROVE  Accounted(keys, t \ {k}, pk \cup {k}, a, b, n + 1)
<1> DEFINE s == a \cup b \cup pk
<1>1. s \in SUBSET keys /\ k \notin s /\ n = Cardinality(s)
  BY DEF Accounted
<1>2. IsFiniteSet(s)
  BY <1>1, FS_Subset
<1>3. Cardinality(s \cup {k}) = n + 1
  BY <1>1, <1>2, FS_AddElement
<1>4. a \cup b \cup (pk \cup {k}) = s \cup {k}
  OBVIOUS
<1>5. QED
  BY <1>3, <1>4 DEF Accounted

\* The keys of an executed pipeline move to one of two places.
LEMMA Executed ==
    ASSUME NEW keys, NEW t, NEW pk, NEW a, NEW b, NEW n, Accounted(keys, t, pk, a, b, n)
    PROVE  Accounted(keys, t, {}, a \cup pk, b, n) /\ Accounted(keys, t, {}, a, b \cup pk, n)
<1>1. (a \cup pk) \cup b = a \cup b \cup pk /\ a \cup (b \cup pk) = a \cup b \cup pk
  OBVIOUS
<1>2. QED
  BY <1>1 DEF Accounted

\* A step of the round: the next key goes to the pipeline, which may be executed.
LEMMA PutAccounts ==
    ASSUME Types, NEW p \in Processes, InRound(p), Put(p)
    PROVE  InRound(p)'
<1>1. PICK k : /\ k \in todo[p] /\ pc[p] = "write"
               /\ todo' = [todo EXCEPT ![p] = @ \ {k}]
               /\ total' = [total EXCEPT ![p] = @ + 1]
               /\ \/ Execute(p, pipe[p] \cup {k})
                  \/ Fill(p, pipe[p] \cup {k})
               /\ UNCHANGED <<pc, mem, acc>>
  BY DEF Put
<1>2. PICK pk : pk = pipe[p] \cup {k}
  OBVIOUS
<1>3. Accounted(Listed(p), todo[p] \ {k}, pk, landed[p], lost[p], total[p] + 1)
  <2>1. IsFiniteSet(Listed(p))
    BY ListedTyping DEF Types
  <2>2. QED
    BY <1>1, <1>2, <2>1, OneMore DEF InRound
<1>4. /\ Listed(p)' = Listed(p) /\ pc'[p] = "write"
      /\ todo'[p] = todo[p] \ {k} /\ total'[p] = total[p] + 1
  BY <1>1 DEF Listed, Types, RoundTypes
<1>5. \/ pipe'[p] = pk /\ landed'[p] = landed[p] /\ lost'[p] = lost[p]
      \/ pipe'[p] = {} /\ landed'[p] = landed[p] \cup pk /\ lost'[p] = lost[p]
      \/ pipe'[p] = {} /\ landed'[p] = landed[p] /\ lost'[p] = lost[p] \cup pk
  BY <1>1, <1>2 DEF Execute, Fill, Types, RoundTypes
<1>6. Accounted(Listed(p), todo[p] \ {k}, pipe'[p], landed'[p], lost'[p], total[p] + 1)
  <2>1. PICK keys, t, n : keys = Listed(p) /\ t = todo[p] \ {k} /\ n = total[p] + 1
    OBVIOUS
  <2>2. Accounted(keys, t, pk, landed[p], lost[p], n)
    BY <1>3, <2>1
  <2>3. /\ Accounted(keys, t, {}, landed[p] \cup pk, lost[p], n)
        /\ Accounted(keys, t, {}, landed[p], lost[p] \cup pk, n)
    BY <2>2, Executed
  <2>4. Accounted(keys, t, pipe'[p], landed'[p], lost'[p], n)
    BY <1>5, <2>2, <2>3
  <2>5. QED
    BY <2>1, <2>4
<1>7. QED
  BY <1>4, <1>6 DEF InRound

\* At the end the last pipeline is executed.
LEMMA FinishAccounts ==
    ASSUME Types, NEW p \in Processes, InRound(p), Finish(p)
    PROVE  InRound(p)'
<1>1. /\ todo[p] = {} /\ pc'[p] = "done" /\ UNCHANGED <<todo, total, mem, acc>>
      /\ Execute(p, pipe[p])
  BY DEF Finish, Types, RoundTypes
<1>2. /\ pipe'[p] = {}
      /\ \/ landed'[p] = landed[p] \cup pipe[p] /\ lost'[p] = lost[p]
         \/ landed'[p] = landed[p] /\ lost'[p] = lost[p] \cup pipe[p]
  BY <1>1 DEF Execute, Types, RoundTypes
<1>3. Accounted(Listed(p), todo[p], pipe'[p], landed'[p], lost'[p], total[p])
  <2>1. Accounted(Listed(p), todo[p], pipe[p], landed[p], lost[p], total[p])
    BY DEF InRound
  <2>2. /\ Accounted(Listed(p), todo[p], {}, landed[p] \cup pipe[p], lost[p], total[p])
        /\ Accounted(Listed(p), todo[p], {}, landed[p], lost[p] \cup pipe[p], total[p])
    BY <2>1, Executed
  <2>3. QED
    BY <1>2, <2>2
<1>4. Listed(p)' = Listed(p)
  BY <1>1 DEF Listed
<1>5. QED
  BY <1>1, <1>2, <1>3, <1>4 DEF InRound

\* No step loses a key of a round.
LEMMA RoundsStep == ASSUME Types, Types', Rounds, [Next]_vars PROVE Rounds'
<1> SUFFICES ASSUME NEW q \in Processes, pc'[q] \in {"write", "done"}
             PROVE  InRound(q)'
  BY DEF Rounds
<1> USE DEF Types
<1>0. ASSUME UNCHANGED <<pc, writer>>, Listed(q)' = Listed(q)
      PROVE  InRound(q)'
  BY <1>0, RoundOfOther DEF writer
<1>1. UNCHANGED <<mem, acc>> => Listed(q)' = Listed(q)
  BY DEF Listed
<1>2. ASSUME (\E f \in Files : BeginWrite(f)) \/ EndWrite \/ Tick \/ Fail \/ UNCHANGED vars
      PROVE  InRound(q)'
  BY <1>0, <1>1, <1>2 DEF BeginWrite, EndWrite, Tick, Fail, vars
<1>10. ASSUME NEW kept \in BOOLEAN, Recover(kept)
       PROVE  InRound(q)'
  <2>1. /\ UNCHANGED <<pc, todo, pipe, total, mem, acc>>
        /\ \/ landed'[q] = landed[q] /\ lost'[q] = lost[q]
           \/ landed'[q] = {} /\ lost'[q] = lost[q] \cup landed[q]
    BY <1>10 DEF Recover, RoundTypes
  <2>2. InRound(q) /\ Listed(q)' = Listed(q)
    BY <1>1, <2>1 DEF Rounds
  <2>3. landed'[q] \cup lost'[q] = landed[q] \cup lost[q] /\ landed'[q] \cap lost'[q] = {}
    BY <2>1, <2>2 DEF InRound, Accounted
  <2>4. QED
    BY <2>1, <2>2, <2>3 DEF InRound, Accounted
<1>3. ASSUME NEW p \in Processes, Kill(p) \/ ReadTorn(p)
      PROVE  InRound(q)'
  <2>1. Dies(p)
    BY <1>3 DEF Kill, ReadTorn
  <2>2. q # p
    BY <2>1 DEF Dies, RoundTypes
  <2>3. Listed(q)' = Listed(q)
    <3>1. (q = "graph" => UNCHANGED mem) /\ (q = "replay" => UNCHANGED acc)
      BY <2>1, <2>2 DEF Dies
    <3>2. QED
      BY <3>1 DEF Listed, Processes
  <2>4. /\ pc'[q] = pc[q] /\ todo'[q] = todo[q] /\ pipe'[q] = pipe[q]
        /\ landed'[q] = landed[q] /\ lost'[q] = lost[q] /\ total'[q] = total[q]
    BY <2>1, <2>2 DEF Dies, Forget, RoundTypes
  <2>5. QED
    BY <2>3, <2>4, RoundOfOther
<1>4. ASSUME NEW b, StartGraph(b) \/ StartReplay(b)
      PROVE  InRound(q)'
  <2>1. PICK p \in Processes :
          /\ pc'[p] \in {"load relationships", "replay orders"}
          /\ \A x \in Processes \ {p} : pc'[x] = pc[x]
          /\ p # "graph" => UNCHANGED mem
          /\ p # "replay" => UNCHANGED acc
          /\ UNCHANGED writer \/ Forget(p)
    BY <1>4 DEF StartGraph, StartReplay, RoundTypes, Processes
  <2>2. q # p
    BY <2>1
  <2>3. Listed(q)' = Listed(q)
    BY <2>1, <2>2 DEF Listed, Processes
  <2>4. /\ pc'[q] = pc[q] /\ todo'[q] = todo[q] /\ pipe'[q] = pipe[q]
        /\ landed'[q] = landed[q] /\ lost'[q] = lost[q] /\ total'[q] = total[q]
    BY <2>1, <2>2 DEF writer, Forget, RoundTypes
  <2>5. QED
    BY <2>3, <2>4, RoundOfOther
<1>5. CASE LoadRelationships \/ LoadReturns \/ LoadOrders
  <2>1. CASE q = "replay"
    <3>1. UNCHANGED acc /\ pc'[q] = pc[q] /\ todo'[q] = todo[q] /\ pipe'[q] = pipe[q]
          /\ landed'[q] = landed[q] /\ lost'[q] = lost[q] /\ total'[q] = total[q]
      BY <1>5, <2>1 DEF LoadRelationships, LoadReturns, LoadOrders, Materialize, BeginWriting,
         writer, RoundTypes, Processes
    <3>2. Listed(q)' = Listed(q)
      BY <2>1, <3>1 DEF Listed
    <3>3. QED
      BY <3>1, <3>2, RoundOfOther
  <2>2. CASE q = "graph"
    <3>1. CASE Materialize(mem.rels)
      <4>1. mem'.rels = mem.rels
        BY <1>5, <3>1 DEF LoadRelationships, LoadReturns, LoadOrders, Materialize, BeginWriting,
           DataTypes, Memories, RoundTypes, Processes
      <4>2. Listed(q)' = {GraphKey(k[1]) : k \in mem.rels}
        BY <2>2, <4>1 DEF Listed
      <4>3. {GraphKey(u) : u \in {k[1] : k \in mem.rels}} = {GraphKey(k[1]) : k \in mem.rels}
        OBVIOUS
      <4>4. BeginWriting(q, {GraphKey(k[1]) : k \in mem.rels})
        BY <2>2, <3>1, <4>3 DEF Materialize
      <4>5. Listed(q)' \in SUBSET Keys
        BY ListedTyping, <2>2, <4>2, ListedGraph DEF Listed
      <4>6. QED
        BY <4>2, <4>4, <4>5, RoundBegins
    <3>2. CASE ~Materialize(mem.rels)
      <4>1. pc'[q] \in {"load returns", "load orders"}
        BY <1>5, <2>2, <3>2 DEF LoadRelationships, LoadReturns, LoadOrders, RoundTypes, Processes
      <4>2. QED
        BY <4>1
    <3>3. QED
      BY <3>1, <3>2
  <2>3. QED
    BY <2>1, <2>2 DEF Processes
<1>6. CASE Wake
  <2>1. q # "graph" /\ Forget("graph") /\ UNCHANGED <<mem, acc>> /\ pc'[q] = pc[q]
    BY <1>6 DEF Wake, RoundTypes, Processes
  <2>2. /\ todo'[q] = todo[q] /\ pipe'[q] = pipe[q]
        /\ landed'[q] = landed[q] /\ lost'[q] = lost[q] /\ total'[q] = total[q]
    BY <2>1 DEF Forget, RoundTypes
  <2>3. QED
    BY <1>1, <2>1, <2>2, RoundOfOther
<1>7. CASE ReplayOrders \/ ReplayReturns \/ JoinReturns
  <2>1. CASE q = "graph"
    <3>1. UNCHANGED mem /\ pc'[q] = pc[q] /\ todo'[q] = todo[q] /\ pipe'[q] = pipe[q]
          /\ landed'[q] = landed[q] /\ lost'[q] = lost[q] /\ total'[q] = total[q]
      BY <1>7, <2>1 DEF ReplayOrders, ReplayReturns, JoinReturns, BeginWriting,
         writer, RoundTypes, Processes
    <3>2. Listed(q)' = Listed(q)
      BY <2>1, <3>1 DEF Listed
    <3>3. QED
      BY <3>1, <3>2, RoundOfOther
  <2>2. CASE q = "replay"
    <3>1. CASE (ReplayReturns \/ JoinReturns) /\ BeginWriting("replay", Features(acc.orders))
      <4>1. acc'.orders = acc.orders
        BY <3>1 DEF ReplayReturns, JoinReturns, DataTypes, Sources
      <4>2. Listed(q)' = Features(acc.orders)
        BY <2>2, <4>1 DEF Listed
      <4>3. Features(acc.orders) \in SUBSET Keys
        BY ListedFeatures DEF DataTypes, Sources
      <4>4. QED
        BY <2>2, <3>1, <4>2, <4>3, RoundBegins
    <3>2. CASE ~((ReplayReturns \/ JoinReturns) /\ BeginWriting("replay", Features(acc.orders)))
      <4>1. pc'[q] \in {"replay returns", "join returns"}
        BY <1>7, <2>2, <3>2 DEF ReplayOrders, ReplayReturns, JoinReturns, RoundTypes, Processes
      <4>2. QED
        BY <4>1
    <3>3. QED
      BY <3>1, <3>2
  <2>3. QED
    BY <2>1, <2>2 DEF Processes
<1>8. ASSUME NEW p \in Processes, Put(p) \/ Finish(p)
      PROVE  InRound(q)'
  <2>1. CASE q = p
    <3>1. InRound(p)
      BY <1>8 DEF Rounds, Put, Finish
    <3>2. QED
      BY <1>8, <2>1, <3>1, PutAccounts, FinishAccounts
  <2>2. CASE q # p
    <3>1. /\ pc'[q] = pc[q] /\ todo'[q] = todo[q] /\ pipe'[q] = pipe[q]
          /\ landed'[q] = landed[q] /\ lost'[q] = lost[q] /\ total'[q] = total[q]
          /\ UNCHANGED <<mem, acc>>
      BY <1>8, <2>2 DEF Put, Finish, Execute, Fill, RoundTypes
    <3>2. QED
      BY <1>1, <3>1, RoundOfOther
  <2>3. QED
    BY <2>1, <2>2
<1>9. QED
  BY <1>2, <1>3, <1>4, <1>5, <1>6, <1>7, <1>8, <1>10 DEF Next, GraphStep, ReplayStep, Processes

------------------------------------------------------------------------------
(* The age of the graph.                                                   *)

\* A timestamp is no later than time or than the date of an edge that was exported.
Bounded(stamp, time, export) ==
    stamp <= time \/ \E g \in 1..export : stamp <= DataSets[g].latest

Aged(v) == v # None => /\ v.stamp \in Nat /\ v.read \in Nat /\ v.export \in Read
                       /\ v.read <= now
                       /\ Bounded(v.stamp, v.read, v.export)

\* The processor takes its time before it reads what it stamps with it.
MemoryDated ==
    /\ mem.read <= now /\ mem.export <= Newest
    /\ Bounded(mem.stamp, now, mem.export)
    /\ mem.rels # {} => mem.export # 0
    /\ mem.export # 0 => Bounded(mem.stamp, mem.read, mem.export)
StoreDated == \A u \in Users : Aged(store[GraphKey(u)])

Dated == MemoryDated /\ StoreDated

\* A bound that holds for some time and exports holds for more of them.
LEMMA BoundGrows ==
    ASSUME NEW stamp \in Nat, NEW t \in Nat, NEW t2 \in Nat, NEW g \in Nat, NEW g2 \in Nat,
           t <= t2, g <= g2, Bounded(stamp, t, g)
    PROVE  Bounded(stamp, t2, g2)
<1>1. CASE stamp <= t
  BY <1>1 DEF Bounded
<1>2. CASE \E h \in 1..g : stamp <= DataSets[h].latest
  <2>1. PICK h \in 1..g : stamp <= DataSets[h].latest
    BY <1>2
  <2>2. h \in 1..g2
    OBVIOUS
  <2>3. QED
    BY <2>1, <2>2 DEF Bounded
<1>3. QED
  BY <1>1, <1>2 DEF Bounded

\* Neither the clock nor the files go back.
LEMMA TimePasses ==
    ASSUME Types, Types', [Next]_vars
    PROVE  Newest \in Nat /\ Newest' \in Nat /\ Newest <= Newest' /\ now <= now'
<1>1. Newest \in Nat /\ Newest' \in Nat
  BY ReadIsNat DEF Types, DiskTypes, Newest, Files
<1>2. UNCHANGED files \/ EndWrite
  BY DEF Next, GraphStep, ReplayStep, BeginWrite, Tick, Fail, Recover, Kill, StartReplay,
     StartGraph, LoadRelationships, LoadReturns, LoadOrders, Wake, Put, Finish, ReadTorn,
     ReplayOrders, ReplayReturns, JoinReturns, vars, disk
<1>3. UNCHANGED now \/ Tick
  BY DEF Next, GraphStep, ReplayStep, BeginWrite, EndWrite, Fail, Recover, Kill, StartReplay,
     StartGraph, LoadRelationships, LoadReturns, LoadOrders, Wake, Put, Finish, ReadTorn,
     ReplayOrders, ReplayReturns, JoinReturns, vars
<1>4. EndWrite => Newest' = Newest \/ Newest' = Newest + 1
  BY <1>1 DEF EndWrite, Newest, Types, DiskTypes, Files
<1>5. now <= now'
  BY <1>3 DEF Tick, Types
<1>6. QED
  BY <1>1, <1>2, <1>4, <1>5 DEF Newest

\* What is on the server stays dated.
LEMMA StoreKept ==
    ASSUME Types, Types', StoreDated, now <= now', UNCHANGED store
    PROVE  StoreDated'
<1>1. \A u \in Users : Aged(store[GraphKey(u)])'
  BY DEF StoreDated, Aged, Types
<1>2. QED
  BY <1>1 DEF StoreDated

\* So is what is in memory.
LEMMA MemoryKept ==
    ASSUME Types, Types', MemoryDated, now <= now', Newest \in Nat, Newest' \in Nat,
           Newest <= Newest', UNCHANGED mem
    PROVE  MemoryDated'
<1>1. mem.stamp \in Nat /\ mem.read \in Nat /\ mem.export \in Nat
  BY ReadIsNat DEF Types, DataTypes, Memories
<1>2. Bounded(mem.stamp, now', mem.export)
  <2>1. PICK t, t2 : t = now /\ t2 = now'
    OBVIOUS
  <2>2. t \in Nat /\ t2 \in Nat /\ t <= t2 /\ Bounded(mem.stamp, t, mem.export)
    BY <2>1 DEF Types, MemoryDated
  <2>3. Bounded(mem.stamp, t2, mem.export)
    BY <1>1, <2>2, BoundGrows
  <2>4. QED
    BY <2>1, <2>3
<1>3. mem.read <= now' /\ mem.export <= Newest'
  BY <1>1 DEF MemoryDated, Types
<1>4. Bounded(mem.stamp, now, mem.export)' /\ (mem.export # 0 => Bounded(mem.stamp, mem.read, mem.export)')
  BY <1>2 DEF MemoryDated, Bounded
<1>5. QED
  BY <1>3, <1>4 DEF MemoryDated

\* The keys of customers in the graph are the processor's.
LEMMA GraphKeysOnly ==
    ASSUME Types, NEW p \in Processes, NEW u \in Users, GraphKey(u) \in Listed(p)
    PROVE  p = "graph"
<1>1. \A k \in Features(acc.orders) : k[1] = "features"
  BY DEF Features, FeatureKey
<1>2. GraphKey(u)[1] = "graph"
  BY DEF GraphKey
<1>3. QED
  BY <1>1, <1>2 DEF Listed

\* What an executed pipeline puts on the server is dated.
LEMMA ExecuteDated ==
    ASSUME Types, Dated, UNCHANGED now, NEW p \in Processes,
           NEW keys \in SUBSET Listed(p), Execute(p, keys)
    PROVE  StoreDated'
<1>1. ASSUME NEW u \in Users
      PROVE  Aged(store[GraphKey(u)])'
  <2>1. GraphKey(u) \in Keys
    BY DEF Keys
  <2>2. CASE store'[GraphKey(u)] = store[GraphKey(u)]
    BY <2>2 DEF Dated, StoreDated, Aged
  <2>3. CASE store'[GraphKey(u)] # store[GraphKey(u)]
    <3>1. GraphKey(u) \in keys /\ store'[GraphKey(u)] = Value(GraphKey(u))
      BY <2>1, <2>3 DEF Execute
    <3>2. p = "graph"
      BY <3>1, GraphKeysOnly
    <3>3. Value(GraphKey(u)) = GraphValue(u)
      BY DEF Value, GraphKey
    <3>4. PICK v : v = store'[GraphKey(u)]
      OBVIOUS
    <3>5. v.stamp = mem.stamp /\ v.read = mem.read /\ v.export = mem.export
      BY <3>1, <3>3, <3>4 DEF GraphValue
    <3>6. mem.stamp \in Nat /\ mem.read \in Nat /\ mem.export \in Read
      BY DEF Types, DataTypes, Memories
    <3>7. mem.rels # {}
      BY <3>1, <3>2 DEF Listed
    <3>8. mem.read <= now /\ Bounded(mem.stamp, mem.read, mem.export)
      BY <3>7 DEF Dated, MemoryDated
    <3>9. v.read <= now' /\ Bounded(v.stamp, v.read, v.export)
      BY <3>5, <3>8
    <3>10. QED
      BY <3>4, <3>5, <3>6, <3>9 DEF Aged
  <2>4. QED
    BY <2>2, <2>3
<1>2. QED
  BY <1>1 DEF StoreDated

\* What the processor reads of the relationships is no older than its timestamp,
\* unless an edge is dated later.
LEMMA LoadDated ==
    ASSUME Types, Types', MemoryDated, LoadRelationships
    PROVE  MemoryDated'
<1>1. UNCHANGED <<files, now>> /\ Newest' = Newest /\ now \in Nat
  BY DEF LoadRelationships, disk, Newest, Types
<1>2. PICK g \in Read : g = files["relationships"] /\ g = Newest
  BY DEF Types, DiskTypes, Files, Newest
<1>3. /\ mem.stamp \in Nat /\ mem.read \in Nat /\ mem.export \in Nat /\ mem.export <= g
      /\ g \in Nat
  BY <1>2, ReadIsNat DEF Types, DataTypes, Memories, MemoryDated
<1>4. CASE g = 0
  <2>1. UNCHANGED mem
    BY <1>2, <1>4 DEF LoadRelationships
  <2>2. QED
    BY <1>1, <2>1, <1>3, <1>2, MemoryKept
<1>5. CASE g # 0
  <2>1. DataSets[g].latest \in Nat
    BY <1>5, DataOf
  <2>2. PICK s : s = IF DataSets[g].latest > mem.stamp THEN DataSets[g].latest ELSE mem.stamp
    OBVIOUS
  <2>3. mem'.export = g /\ mem'.read = now /\ mem'.stamp = s
    BY <1>2, <1>5, <2>2 DEF LoadRelationships, Types, DataTypes, Memories
  <2>4. Bounded(s, now, g)
    <3>1. CASE s = mem.stamp
      <4>1. PICK e, t : e = mem.export /\ t = mem.stamp
        OBVIOUS
      <4>2. e \in Nat /\ t \in Nat /\ e <= g /\ now <= now /\ Bounded(t, now, e)
        BY <1>1, <1>3, <4>1 DEF MemoryDated
      <4>3. Bounded(t, now, g)
        BY <1>1, <1>3, <4>2, BoundGrows
      <4>4. QED
        BY <3>1, <4>1, <4>3
    <3>2. CASE s = DataSets[g].latest
      <4>1. g \in 1..g /\ s <= DataSets[g].latest
        BY <1>3, <1>5, <2>1, <3>2
      <4>2. QED
        BY <4>1 DEF Bounded
    <3>3. QED
      BY <2>2, <3>1, <3>2
  <2>5. Bounded(mem'.stamp, now', mem'.export) /\ Bounded(mem'.stamp, mem'.read, mem'.export)
    BY <1>1, <2>3, <2>4
  <2>6. mem'.read <= now' /\ mem'.export <= Newest'
    BY <1>1, <1>2, <1>3, <2>3
  <2>7. QED
    BY <1>5, <2>3, <2>5, <2>6 DEF MemoryDated, Bounded
<1>6. QED
  BY <1>4, <1>5

\* The stamp never overtakes the reading.
LEMMA DatedStep == ASSUME Types, Types', Rounds, Dated, [Next]_vars PROVE Dated'
<1>1. Newest \in Nat /\ Newest' \in Nat /\ Newest <= Newest' /\ now <= now'
  BY TimePasses
<1>2. UNCHANGED store => StoreDated'
  BY <1>1, StoreKept DEF Dated
<1>3. UNCHANGED mem => MemoryDated'
  BY <1>1, MemoryKept DEF Dated
<1>4. now \in Nat /\ now' \in Nat
  BY DEF Types
<1>5. ASSUME (\E f \in Files : BeginWrite(f)) \/ EndWrite \/ Tick \/ Fail \/ UNCHANGED vars
               \/ ReplayOrders \/ ReplayReturns \/ JoinReturns \/ Wake \/ (\E b : StartReplay(b))
      PROVE  Dated'
  <2>1. UNCHANGED <<store, mem>>
    BY <1>5 DEF BeginWrite, EndWrite, Tick, Fail, vars, server, ReplayOrders, ReplayReturns,
       JoinReturns, StartReplay, Wake
  <2>2. QED
    BY <1>2, <1>3, <2>1 DEF Dated
<1>6. ASSUME NEW kept \in BOOLEAN, Recover(kept)
      PROVE  Dated'
  <2>1. MemoryDated'
    BY <1>3, <1>6 DEF Recover
  <2>2. CASE kept
    BY <1>2, <1>6, <2>1, <2>2 DEF Recover, Dated
  <2>3. CASE ~kept
    <3>1. \A u \in Users : store'[GraphKey(u)] = None
      BY <1>6, <2>3 DEF Recover, Keys
    <3>2. QED
      BY <2>1, <3>1 DEF Dated, StoreDated, Aged
  <2>4. QED
    BY <2>2, <2>3
<1>7. ASSUME NEW p \in Processes, Kill(p) \/ ReadTorn(p)
      PROVE  Dated'
  <2>1. Dies(p) /\ UNCHANGED store
    BY <1>7 DEF Kill, ReadTorn, server
  <2>2. CASE p = "graph"
    <3>1. mem' = Nothing
      BY <2>1, <2>2 DEF Dies
    <3>2. mem'.stamp = 0 /\ mem'.read = 0 /\ mem'.export = 0 /\ mem'.rels = {}
      BY <3>1 DEF Nothing
    <3>3. Bounded(mem'.stamp, now', mem'.export)
      BY <1>4, <3>2 DEF Bounded
    <3>4. QED
      BY <1>1, <1>2, <1>4, <2>1, <3>2, <3>3 DEF Dated, MemoryDated, Bounded
  <2>3. CASE p # "graph"
    BY <1>2, <1>3, <2>1, <2>3 DEF Dated, Dies
  <2>4. QED
    BY <2>2, <2>3
<1>8. ASSUME NEW b, StartGraph(b)
      PROVE  Dated'
  <2>1. /\ mem'.stamp = now /\ mem'.read = 0 /\ mem'.export = 0 /\ mem'.rels = {}
        /\ now' = now /\ UNCHANGED store
    BY <1>8 DEF StartGraph, Nothing, server
  <2>2. Bounded(mem'.stamp, now', mem'.export)
    BY <1>4, <2>1 DEF Bounded
  <2>3. QED
    BY <1>1, <1>2, <1>4, <2>1, <2>2 DEF Dated, MemoryDated, Bounded
<1>9. CASE LoadRelationships
  <2>1. UNCHANGED store
    BY <1>9 DEF LoadRelationships, server
  <2>2. QED
    BY <1>2, <1>9, <2>1, LoadDated DEF Dated
<1>10. CASE LoadReturns \/ LoadOrders
  <2>1. UNCHANGED <<store, files, now>>
    BY <1>10 DEF LoadReturns, LoadOrders, server, disk
  <2>2. /\ mem'.stamp = mem.stamp /\ mem'.read = mem.read /\ mem'.export = mem.export
        /\ mem'.rels = mem.rels
    BY <1>10 DEF LoadReturns, LoadOrders, Types, DataTypes, Memories
  <2>3. QED
    BY <1>1, <1>2, <2>1, <2>2 DEF Dated, MemoryDated, Bounded, Newest
<1>11. ASSUME NEW p \in Processes, Put(p) \/ Finish(p)
       PROVE  Dated'
  <2>1. UNCHANGED <<now, mem>> /\ pc[p] = "write"
    BY <1>11 DEF Put, Finish
  <2>2. pipe[p] \subseteq Listed(p) /\ todo[p] \subseteq Listed(p)
    BY <2>1 DEF Rounds, InRound, Accounted
  <2>3. UNCHANGED store \/ \E keys \in SUBSET Listed(p) : Execute(p, keys)
    BY <1>11, <2>2 DEF Put, Finish, Fill
  <2>4. StoreDated'
    BY <1>2, <2>1, <2>3, ExecuteDated
  <2>5. QED
    BY <1>3, <2>1, <2>4 DEF Dated
<1>12. QED
  BY <1>5, <1>6, <1>7, <1>8, <1>9, <1>10, <1>11 DEF Next, GraphStep, ReplayStep, Processes

------------------------------------------------------------------------------
(* What the server holds.                                                  *)

OnServer ==
    \A p \in Processes : pc[p] \in {"write", "done"} /\ backend[p] = "redis" =>
        \A k \in landed[p] : store[k] = Value(k)

\* Whose key it is.
LEMMA KeysOf ==
    ASSUME NEW p \in Processes, NEW k \in Listed(p)
    PROVE  k[1] = IF p = "graph" THEN "graph" ELSE "features"
BY DEF Listed, Features, GraphKey, FeatureKey

\* The values of the keys of a program change with its memory only.
LEMMA ValueKept ==
    ASSUME NEW p \in Processes, NEW k \in Listed(p),
           IF p = "graph" THEN UNCHANGED mem ELSE UNCHANGED acc
    PROVE  Value(k)' = Value(k)
<1>1. CASE p = "graph"
  <2>1. k[1] = "graph"
    BY <1>1, KeysOf
  <2>2. QED
    BY <1>1, <2>1 DEF Value, GraphValue
<1>2. CASE p # "graph"
  <2>1. k[1] = "features"
    BY <1>2, KeysOf
  <2>2. QED
    BY <1>2, <2>1 DEF Value
<1>3. QED
  BY <1>1, <1>2

\* What has landed stays as long as nobody executes a pipeline.
LEMMA LandedStays ==
    ASSUME Rounds, OnServer, NEW q \in Processes, UNCHANGED store,
           IF q = "graph" THEN UNCHANGED mem ELSE UNCHANGED acc,
           pc'[q] \in {"write", "done"}, backend'[q] = "redis",
           pc'[q] = pc[q], backend'[q] = backend[q], landed'[q] = landed[q]
    PROVE  \A k \in landed'[q] : store'[k] = Value(k)'
<1>1. landed[q] \subseteq Listed(q)
  BY DEF Rounds, InRound, Accounted
<1>2. \A k \in landed[q] : Value(k)' = Value(k)
  BY <1>1, ValueKept
<1>3. \A k \in landed[q] : store[k] = Value(k)
  BY DEF OnServer
<1>4. QED
  BY <1>2, <1>3

\* An executed pipeline puts what it says, and nothing under the keys of the other
\* program.
LEMMA ExecuteLands ==
    ASSUME Types, Rounds, OnServer, NEW p \in Processes, NEW q \in Processes,
           NEW keys \in SUBSET Listed(p), Execute(p, keys),
           UNCHANGED <<mem, acc, backend>>, pc[q] \in {"write", "done"}, backend[q] = "redis"
    PROVE  \A k \in landed'[q] : store'[k] = Value(k)'
<1>1. landed[q] \subseteq Listed(q) /\ Listed(q) \subseteq Keys
  BY ListedTyping DEF Rounds, InRound, Accounted, Types
<1>2. \A k \in landed[q] : store[k] = Value(k)
  BY DEF OnServer
<1>3. keys \subseteq Keys
  BY ListedTyping DEF Types
<1>4. \A k \in Keys : Value(k)' = Value(k)
  BY DEF Value, GraphValue
<1>5. CASE q = p
  <2>1. CASE Reachable(p)
    <3>1. landed'[q] = landed[q] \cup keys
      BY <1>5, <2>1 DEF Execute, Types, RoundTypes
    <3>2. \A k \in Keys : store'[k] = IF k \in keys THEN Value(k) ELSE store[k]
      BY <1>5, <2>1 DEF Execute
    <3>3. QED
      BY <1>1, <1>2, <1>3, <1>4, <3>1, <3>2
  <2>2. CASE ~Reachable(p)
    BY <1>1, <1>2, <1>4, <2>2 DEF Execute
  <2>3. QED
    BY <2>1, <2>2
<1>6. CASE q # p
  <2>1. landed'[q] = landed[q]
    BY <1>6 DEF Execute, Types, RoundTypes
  <2>2. \A k \in landed[q] : k \notin keys
    <3>1. \A k \in Listed(q) : k[1] = IF q = "graph" THEN "graph" ELSE "features"
      BY KeysOf
    <3>2. \A k \in Listed(p) : k[1] = IF p = "graph" THEN "graph" ELSE "features"
      BY KeysOf
    <3>3. QED
      BY <1>1, <1>6, <3>1, <3>2 DEF Processes
  <2>3. \A k \in Keys : k \notin keys => store'[k] = store[k]
    BY DEF Execute
  <2>4. QED
    BY <1>1, <1>2, <1>4, <2>1, <2>2, <2>3
<1>7. QED
  BY <1>5, <1>6

\* No step puts anything else under a key that has landed.
LEMMA OnServerStep == ASSUME Types, Types', Rounds, OnServer, [Next]_vars PROVE OnServer'
<1> SUFFICES ASSUME NEW q \in Processes, pc'[q] \in {"write", "done"}, backend'[q] = "redis"
             PROVE  \A k \in landed'[q] : store'[k] = Value(k)'
  BY DEF OnServer
<1> USE DEF Types
<1>1. ASSUME (\E f \in Files : BeginWrite(f)) \/ EndWrite \/ Tick \/ Fail \/ UNCHANGED vars
      PROVE  \A k \in landed'[q] : store'[k] = Value(k)'
  <2>1. UNCHANGED <<store, mem, acc, pc, backend, landed>>
    BY <1>1 DEF BeginWrite, EndWrite, Tick, Fail, vars, server, writer
  <2>2. QED
    BY <2>1, LandedStays
<1>2. ASSUME NEW kept \in BOOLEAN, Recover(kept)
      PROVE  \A k \in landed'[q] : store'[k] = Value(k)'
  <2>1. UNCHANGED <<mem, acc, pc, backend>>
    BY <1>2 DEF Recover
  <2>2. CASE kept
    <3>1. UNCHANGED store /\ landed'[q] = landed[q]
      BY <1>2, <2>2 DEF Recover
    <3>2. QED
      BY <2>1, <3>1, LandedStays
  <2>3. CASE ~kept
    BY <1>2, <2>1, <2>3 DEF Recover
  <2>4. QED
    BY <2>2, <2>3
<1>3. ASSUME NEW p \in Processes, Kill(p) \/ ReadTorn(p)
      PROVE  \A k \in landed'[q] : store'[k] = Value(k)'
  <2>1. Dies(p) /\ UNCHANGED store
    BY <1>3 DEF Kill, ReadTorn, server
  <2>2. q # p
    BY <2>1 DEF Dies, RoundTypes
  <2>3. pc'[q] = pc[q] /\ landed'[q] = landed[q]
    BY <2>1, <2>2 DEF Dies, Forget, RoundTypes
  <2>4. backend'[q] = backend[q]
    BY <2>1, <2>2 DEF Dies
  <2>5. IF q = "graph" THEN UNCHANGED mem ELSE UNCHANGED acc
    BY <2>1, <2>2 DEF Dies, Processes
  <2>6. QED
    BY <2>1, <2>3, <2>4, <2>5, LandedStays
<1>4. ASSUME NEW b, StartGraph(b) \/ StartReplay(b) \/ Wake
      PROVE  \A k \in landed'[q] : store'[k] = Value(k)'
  <2>1. PICK p \in Processes :
          /\ \E at \in {"load relationships", "replay orders"} : pc' = [pc EXCEPT ![p] = at]
          /\ backend' = backend \/ backend' = [backend EXCEPT ![p] = b]
          /\ IF p = "graph" THEN UNCHANGED acc ELSE UNCHANGED mem
          /\ UNCHANGED landed \/ Forget(p)
          /\ UNCHANGED store
    BY <1>4 DEF StartGraph, StartReplay, Wake, writer, server, Processes
  <2>2. q # p
    BY <2>1 DEF RoundTypes
  <2>3. pc'[q] = pc[q] /\ landed'[q] = landed[q] /\ backend'[q] = backend[q]
    BY <2>1, <2>2 DEF Forget, RoundTypes
  <2>4. IF q = "graph" THEN UNCHANGED mem ELSE UNCHANGED acc
    BY <2>1, <2>2 DEF Processes
  <2>5. QED
    BY <2>1, <2>3, <2>4, LandedStays
<1>5. CASE LoadRelationships \/ LoadReturns \/ LoadOrders
  <2>1. UNCHANGED <<store, acc, backend>>
    BY <1>5 DEF LoadRelationships, LoadReturns, LoadOrders, server
  <2>2. CASE q = "graph"
    <3>1. Materialize(mem.rels)
      BY <1>5, <2>2 DEF LoadRelationships, LoadReturns, LoadOrders, RoundTypes
    <3>2. landed'[q] = {}
      BY <2>2, <3>1 DEF Materialize, BeginWriting, RoundTypes
    <3>3. QED
      BY <3>2
  <2>3. CASE q # "graph"
    <3>1. /\ \E at : pc' = [pc EXCEPT !["graph"] = at]
          /\ \/ UNCHANGED landed
             \/ landed' = [landed EXCEPT !["graph"] = {}]
      <4>1. CASE LoadRelationships
        BY <4>1 DEF LoadRelationships, Materialize, BeginWriting, writer
      <4>2. CASE LoadReturns
        BY <4>2 DEF LoadReturns, Materialize, BeginWriting, writer
      <4>3. CASE LoadOrders
        BY <4>3 DEF LoadOrders, Materialize, BeginWriting
      <4>4. QED
        BY <1>5, <4>1, <4>2, <4>3
    <3>2. pc'[q] = pc[q] /\ landed'[q] = landed[q]
      BY <2>3, <3>1 DEF RoundTypes
    <3>3. QED
      BY <2>1, <2>3, <3>2, LandedStays
  <2>4. QED
    BY <2>2, <2>3
<1>6. CASE ReplayOrders \/ ReplayReturns \/ JoinReturns
  <2>1. UNCHANGED <<store, mem, backend>>
    BY <1>6 DEF ReplayOrders, ReplayReturns, JoinReturns, server
  <2>2. CASE q = "replay"
    <3>1. BeginWriting("replay", Features(acc.orders))
      BY <1>6, <2>2 DEF ReplayOrders, ReplayReturns, JoinReturns, RoundTypes
    <3>2. landed'[q] = {}
      BY <2>2, <3>1 DEF BeginWriting, RoundTypes
    <3>3. QED
      BY <3>2
  <2>3. CASE q # "replay"
    <3>1. pc'[q] = pc[q] /\ landed'[q] = landed[q] /\ q = "graph"
      BY <1>6, <2>3 DEF ReplayOrders, ReplayReturns, JoinReturns, BeginWriting, writer,
         RoundTypes, Processes
    <3>2. QED
      BY <2>1, <3>1, LandedStays
  <2>4. QED
    BY <2>2, <2>3
<1>7. ASSUME NEW p \in Processes, Put(p) \/ Finish(p)
      PROVE  \A k \in landed'[q] : store'[k] = Value(k)'
  <2>1. UNCHANGED <<mem, acc, backend>> /\ pc[p] = "write"
    BY <1>7 DEF Put, Finish
  <2>2. pc[q] \in {"write", "done"} /\ backend[q] = "redis"
    BY <1>7, <2>1 DEF Put, Finish, RoundTypes
  <2>3. pipe[p] \subseteq Listed(p) /\ todo[p] \subseteq Listed(p)
    BY <2>1 DEF Rounds, InRound, Accounted
  <2>4. \/ UNCHANGED <<store, landed, pc>>
        \/ \E keys \in SUBSET Listed(p) : Execute(p, keys)
    BY <1>7, <2>3 DEF Put, Finish, Fill
  <2>5. CASE UNCHANGED <<store, landed, pc>>
    BY <2>1, <2>2, <2>5, LandedStays
  <2>6. CASE \E keys \in SUBSET Listed(p) : Execute(p, keys)
    BY <2>1, <2>2, <2>6, ExecuteLands
  <2>7. QED
    BY <2>4, <2>5, <2>6
<1>8. QED
  BY <1>1, <1>2, <1>3, <1>4, <1>5, <1>6, <1>7 DEF Next, GraphStep, ReplayStep, Processes

------------------------------------------------------------------------------
(* The theorems.                                                           *)

\* The invariant of the module.
LEMMA ServingInvariant == Spec => [](Types /\ Rounds /\ Dated /\ OnServer)
<1>1. Init => Types /\ Rounds /\ Dated /\ OnServer
  <2> SUFFICES ASSUME Init PROVE Types /\ Rounds /\ Dated /\ OnServer
    OBVIOUS
  <2>1. /\ mem.rels = {} /\ mem.stamp = 0 /\ mem.read = 0 /\ mem.export = 0
        /\ mem \in Memories /\ now = 0
    BY ReadIsNat DEF Init, Nothing, Memories
  <2>2. DataTypes
    BY <2>1, ReadIsNat, FS_EmptySet DEF Init, DataTypes, Sources
  <2>3. RoundTypes
    BY DEF Init, NoKeys, RoundTypes, Places
  <2>4. DiskTypes
    BY ReadIsNat DEF Init, DiskTypes
  <2>5. Rounds /\ OnServer
    BY DEF Init, Rounds, OnServer
  <2>6. Newest = 0
    BY DEF Init, Newest, Files
  <2>7. MemoryDated
    BY <2>1, <2>6 DEF MemoryDated, Bounded
  <2>8. StoreDated
    BY DEF Init, StoreDated, Aged, Keys
  <2>9. QED
    BY <2>1, <2>2, <2>3, <2>4, <2>5, <2>7, <2>8 DEF Init, Types, Dated
<1>2. Types /\ [Next]_vars => Types'
  BY TypesStep
<1>3. Types /\ Types' /\ Rounds /\ [Next]_vars => Rounds'
  BY RoundsStep
<1>4. Types /\ Types' /\ Rounds /\ Dated /\ [Next]_vars => Dated'
  BY DatedStep
<1>5. Types /\ Types' /\ Rounds /\ OnServer /\ [Next]_vars => OnServer'
  BY OnServerStep
<1>6. QED
  BY <1>1, <1>2, <1>3, <1>4, <1>5, PTL DEF Spec

\* A round that is through has sent each of its keys once, whatever was killed, torn
\* or lost before.
THEOREM NothingSkippedHolds == Spec => []NothingSkipped
<1>1. Rounds => NothingSkipped
  <2> SUFFICES ASSUME Rounds, NEW p \in Processes, pc[p] = "done"
               PROVE  /\ landed[p] \cup lost[p] = Listed(p)
                      /\ landed[p] \cap lost[p] = {}
                      /\ total[p] = Cardinality(Listed(p))
    BY DEF NothingSkipped
  <2>1. /\ Accounted(Listed(p), todo[p], pipe[p], landed[p], lost[p], total[p])
        /\ todo[p] = {} /\ pipe[p] = {}
    BY DEF Rounds, InRound
  <2>2. landed[p] \cup lost[p] \cup pipe[p] = Listed(p)
    BY <2>1 DEF Accounted
  <2>3. QED
    BY <2>1, <2>2 DEF Accounted
<1>2. QED
  BY <1>1, ServingInvariant, PTL

\* The age that a scoring reports covers the time since the processor read the
\* relationships, for any dates of edges that are no later than that, and whenever the
\* clock ticks.
THEOREM AgeCoversTheReadingHolds == Spec => []AgeCoversTheReading
<1>1. Types /\ Dated => AgeCoversTheReading
  <2> SUFFICES ASSUME Types, Dated, NEW r \in Requests, NEW b \in {"redis", "embedded"},
                      NEW v, v = Seen(b, GraphKey(r.user)), v # None,
                      \A g \in 1..v.export : DataSets[g].latest <= v.read
               PROVE  ReportedAge(b, r) >= now - v.read
    BY DEF AgeCoversTheReading
  <2>1. r.user \in Users /\ v = store[GraphKey(r.user)]
    BY DEF Requests, Seen
  <2>2. /\ v.stamp \in Nat /\ v.read \in Nat /\ v.export \in Read /\ v.read <= now
        /\ Bounded(v.stamp, v.read, v.export)
    BY <2>1 DEF Dated, StoreDated, Aged
  <2>3. v.stamp <= v.read
    <3>1. CASE \E g \in 1..v.export : v.stamp <= DataSets[g].latest
      <4>1. PICK g \in 1..v.export : v.stamp <= DataSets[g].latest
        BY <3>1
      <4>2. PICK d : d = DataSets[g].latest
        OBVIOUS
      <4>3. g \in Read /\ g # 0
        BY <2>2, ReadIsNat DEF Read
      <4>4. d \in Nat /\ v.stamp <= d /\ d <= v.read
        BY <4>1, <4>2, <4>3, DataOf
      <4>5. QED
        BY <2>2, <4>4
    <3>2. QED
      BY <2>2, <3>1 DEF Bounded
  <2>4. now \in Nat
    BY DEF Types
  <2>5. ReportedAge(b, r) = now - v.stamp
    BY <2>2, <2>3, <2>4 DEF ReportedAge
  <2>6. QED
    BY <2>2, <2>3, <2>4, <2>5
<1>2. QED
  BY <1>1, ServingInvariant, PTL

\* What a round has put on the server is what a scoring gets: of any number of replays
\* and rounds it sees the last one, apart from the keys that were lost.
THEOREM ScoresMissNothingHolds == Spec => []ScoresMissNothing
<1>1. Rounds /\ OnServer => ScoresMissNothing
  <2> SUFFICES ASSUME Rounds, OnServer, NEW r \in Requests,
                      NEW group \in Kinds \cup {"user", "graph"}, NEW p \in Processes, NEW k,
                      p = IF group = "graph" THEN "graph" ELSE "replay",
                      k = KeyOf(group, r), up, pc[p] = "done", backend[p] = "redis",
                      k \in Listed(p) \ lost[p],
                      group = "user" \/ Seen("redis", FeatureKey(r.user)) # None
               PROVE  Served("redis", r)[group] = Value(k)
    BY DEF ScoresMissNothing, Processes
  <2>1. /\ landed[p] \cup lost[p] \cup pipe[p] \cup todo[p] = Listed(p)
        /\ todo[p] = {} /\ pipe[p] = {}
    BY DEF Rounds, InRound, Accounted
  <2>2. store[k] = Value(k)
    BY <2>1 DEF OnServer
  <2>3. Seen("redis", k) = Value(k)
    BY <2>2 DEF Seen
  <2>4. group = "user" => k = FeatureKey(r.user)
    BY DEF KeyOf
  <2>5. QED
    BY <2>3, <2>4 DEF Served
<1>2. QED
  BY <1>1, ServingInvariant, PTL
==============================================================================
