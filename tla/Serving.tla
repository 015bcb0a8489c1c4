------------------------------ MODULE Serving -------------------------------
(***************************************************************************)
(* How a data set gets to the scorings: the exporter writes its files, the *)
(* graph processor and the event replayer read them and write keys to      *)
(* Redis in batches, and ContextResolver reads the keys of a request.      *)
(*                                                                         *)
(* The programs share the files and the Redis server and nothing else.     *)
(* Files are rewritten in place while the daemon runs, the server goes     *)
(* away and comes back, and a process falls back to a private store for as *)
(* long as it lives.  A graph key holds the sets its metrics count; what a *)
(* feature key holds is represented by the exports it was computed from.   *)
(* The wall clock advances on its own, between any two steps.  Left out    *)
(* are the event file, of which only the creations of accounts are         *)
(* replayed, and the economic profiles, whose keys hold what the           *)
(* configuration files hold.                                               *)
(***************************************************************************)
EXTENDS Naturals, Sequences, FiniteSets

CONSTANTS Users, Devices, Addresses, Payments,
          DataSets,         \* what is exported, in order: [rels, orders, returns, latest]
          BatchSize,
          MaxReplays, MaxFaults, MaxTime,
          None

Graph == INSTANCE GraphMetrics
Entities == Graph!Entities

Exports == DOMAIN DataSets

\* rels are user-entity pairs, orders maps transactions to customers, returns are
\* transactions, latest is the newest first_seen of the edges, which the simulation
\* dates and which may be in the future.  Files are finite.
ASSUME ServingAssumption ==
    /\ BatchSize \in Nat \ {0} /\ MaxReplays \in Nat /\ MaxFaults \in Nat
    /\ MaxTime \in Nat
    /\ DataSets \in Seq({DataSets[g] : g \in Exports})
    /\ \A g \in Exports :
         /\ DataSets[g].rels \subseteq Users \X Entities
         /\ \A txn \in DOMAIN DataSets[g].orders : DataSets[g].orders[txn] \in Users
         /\ DataSets[g].latest \in Nat
         /\ IsFiniteSet(DataSets[g].rels) /\ IsFiniteSet(DOMAIN DataSets[g].orders)

Files == {"orders", "returns", "relationships"}
Processes == {"graph", "replay"}

GraphKey(u) == <<"graph", u>>
FeatureKey(x) == <<"features", x>>
Keys == {GraphKey(u) : u \in Users} \cup {FeatureKey(x) : x \in Users \cup Entities}

VARIABLES files,    \* file -> the export it holds, 0 when it does not exist
          torn,     \* the file that is being written, or None
          up,       \* the Redis server
          store,    \* its keys
          pc, backend,
          todo,     \* keys a process has not yet put into a pipeline
          pipe,     \* keys in its open pipeline
          total,    \* keys it has counted
          landed,   \* keys of executed pipelines, in this round
          lost,     \* keys of failed pipelines, or gone with a wiped server
          mem,      \* of the graph processor
          acc,      \* of the replayer: the exports it read orders, returns and orders from
          now,      \* the wall clock
          replays, faults

disk == <<files, torn>>
server == <<up, store>>
writer == <<todo, pipe, total, landed, lost>>
vars == <<disk, server, pc, backend, writer, mem, acc, now, replays, faults>>

NoKeys == [p \in Processes |-> {}]
Nothing == [rels |-> {}, counts |-> [u \in Users |-> 0], stamp |-> 0, read |-> 0,
            export |-> 0, loaded |-> {}, returns |-> 0]

Init ==
    /\ files = [f \in Files |-> 0]
    /\ torn = None
    /\ up = TRUE
    /\ store = [k \in Keys |-> None]
    /\ pc = [p \in Processes |-> "down"]
    /\ backend = [p \in Processes |-> None]
    /\ todo = NoKeys /\ pipe = NoKeys /\ landed = NoKeys /\ lost = NoKeys
    /\ total = [p \in Processes |-> 0]
    /\ mem = Nothing
    /\ acc = [orders |-> 0, returns |-> 0, joined |-> 0]
    /\ now = 0 /\ replays = 0 /\ faults = 0

\* Time passes.
Tick ==
    /\ now < MaxTime
    /\ now' = now + 1
    /\ UNCHANGED <<disk, server, pc, backend, writer, mem, acc, replays, faults>>

------------------------------------------------------------------------------
(* The exporter: export_data writes the files one after the other, over    *)
(* the ones of the last export.                                            *)

Follows(f) ==
    CASE f = "orders" -> "relationships"
      [] f = "returns" -> "orders"
      [] f = "relationships" -> "returns"

BeginWrite(f) ==
    /\ torn = None
    /\ IF f = "orders" THEN files[f] = files[Follows(f)] /\ files[f] < Len(DataSets)
                       ELSE files[f] < files[Follows(f)]
    /\ torn' = f
    /\ UNCHANGED <<files, server, pc, backend, writer, mem, acc, replays, faults, now>>

EndWrite ==
    /\ torn # None
    /\ files' = [files EXCEPT ![torn] = @ + 1]
    /\ torn' = None
    /\ UNCHANGED <<server, pc, backend, writer, mem, acc, replays, faults, now>>

\* The newest export that is complete.
Newest == files["relationships"]

------------------------------------------------------------------------------
(* The Redis server and RedisClient.                                       *)

Fail ==
    /\ up /\ faults < MaxFaults
    /\ up' = FALSE
    /\ faults' = faults + 1
    /\ UNCHANGED <<disk, store, pc, backend, writer, mem, acc, replays, now>>

\* It comes back with what it had, after an outage or a clean stop, or with nothing.
Recover(kept) ==
    LET wiped == {p \in Processes : ~kept /\ backend[p] = "redis"}
    IN /\ ~up
       /\ up' = TRUE
       /\ store' = IF kept THEN store ELSE [k \in Keys |-> None]
       /\ landed' = [p \in Processes |-> IF p \in wiped THEN {} ELSE landed[p]]
       /\ lost' = [p \in Processes |-> IF p \in wiped THEN lost[p] \cup landed[p] ELSE lost[p]]
       /\ UNCHANGED <<disk, pc, backend, todo, pipe, total, mem, acc, replays, faults, now>>

\* One probe and one ping when a client is made; otherwise an embedded server that
\* no other process sees, until this one ends.
Connected(b) == b = IF up THEN "redis" ELSE "embedded"

Reachable(p) == backend[p] = "embedded" \/ up

------------------------------------------------------------------------------
(* Both programs write through a pipeline that is executed every BatchSize *)
(* keys and once at the end.  A pipeline that fails is dropped.            *)

\* Mutant: stamped when it is written.
GraphValueNow(u) ==
    [metrics |-> Graph!Metrics(mem.rels, mem.counts, u),
     stamp |-> now, read |-> mem.read, export |-> mem.export]

\* What a process writes under a key.
GraphValue(u) ==
    [metrics |-> Graph!Metrics(mem.rels, mem.counts, u),
     stamp |-> mem.stamp, read |-> mem.read, export |-> mem.export]

Value(k) == IF k[1] = "graph" THEN GraphValue(k[2]) ELSE acc

\* Mutant: only new keys are set.
ExecuteOnce(p, keys) ==
    /\ pipe' = [pipe EXCEPT ![p] = {}]
    /\ IF Reachable(p)
       THEN /\ landed' = [landed EXCEPT ![p] = @ \cup keys]
            /\ lost' = lost
            /\ store' = IF backend[p] = "redis"
                        THEN [k \in Keys |-> IF k \in keys /\ store[k] = None THEN Value(k)
                                             ELSE store[k]]
                        ELSE store
       ELSE /\ lost' = [lost EXCEPT ![p] = @ \cup keys]
            /\ UNCHANGED <<landed, store>>

\* keys become the contents of the open pipeline, and it is executed.
Execute(p, keys) ==
    /\ pipe' = [pipe EXCEPT ![p] = {}]
    /\ IF Reachable(p)
       THEN /\ landed' = [landed EXCEPT ![p] = @ \cup keys]
            /\ lost' = lost
            /\ store' = IF backend[p] = "redis"
                        THEN [k \in Keys |-> IF k \in keys THEN Value(k) ELSE store[k]]
                        ELSE store
       ELSE /\ lost' = [lost EXCEPT ![p] = @ \cup keys]
            /\ UNCHANGED <<landed, store>>

Fill(p, keys) ==
    /\ pipe' = [pipe EXCEPT ![p] = keys]
    /\ UNCHANGED <<landed, lost, store>>

\* The next key, in the order of the dictionaries.
Put(p) ==
    LET k == CHOOSE x \in todo[p] : TRUE IN
    /\ pc[p] = "write" /\ todo[p] # {}
    /\ todo' = [todo EXCEPT ![p] = @ \ {k}]
    /\ total' = [total EXCEPT ![p] = @ + 1]
    /\ IF (total[p] + 1) % BatchSize = 0 THEN Execute(p, pipe[p] \cup {k})
                                         ELSE Fill(p, pipe[p] \cup {k})
    /\ UNCHANGED <<disk, up, pc, backend, mem, acc, replays, faults, now>>

\* Mutant: the last pipeline is not executed.
FinishWithoutLast(p) ==
    /\ pc[p] = "write" /\ todo[p] = {}
    /\ pc' = [pc EXCEPT ![p] = "done"]
    /\ UNCHANGED <<disk, server, backend, writer, mem, acc, replays, faults, now>>

Finish(p) ==
    /\ pc[p] = "write" /\ todo[p] = {}
    /\ Execute(p, pipe[p])
    /\ pc' = [pc EXCEPT ![p] = "done"]
    /\ UNCHANGED <<disk, up, backend, todo, total, mem, acc, replays, faults, now>>

BeginWriting(p, keys) ==
    /\ pc' = [pc EXCEPT ![p] = "write"]
    /\ todo' = [todo EXCEPT ![p] = keys]
    /\ total' = [total EXCEPT ![p] = 0]
    /\ pipe' = [pipe EXCEPT ![p] = {}]
    /\ landed' = [landed EXCEPT ![p] = {}] /\ lost' = [lost EXCEPT ![p] = {}]

\* What is left of a round when the next one begins.
Forget(p) ==
    /\ todo' = [todo EXCEPT ![p] = {}] /\ pipe' = [pipe EXCEPT ![p] = {}]
    /\ landed' = [landed EXCEPT ![p] = {}] /\ lost' = [lost EXCEPT ![p] = {}]
    /\ total' = [total EXCEPT ![p] = 0]

\* A program ends and its memory with it.
Dies(p) ==
    /\ pc' = [pc EXCEPT ![p] = "down"]
    /\ backend' = [backend EXCEPT ![p] = None]
    /\ mem' = IF p = "graph" THEN Nothing ELSE mem
    /\ acc' = IF p = "replay" THEN [orders |-> 0, returns |-> 0, joined |-> 0] ELSE acc
    /\ Forget(p)

Kill(p) ==
    /\ pc[p] # "down" /\ ~(p = "replay" /\ pc[p] = "done") /\ faults < MaxFaults
    /\ Dies(p)
    /\ faults' = faults + 1
    /\ UNCHANGED <<disk, server, replays, now>>

------------------------------------------------------------------------------
(* The graph processor: run_graph_processor.py --daemon.                   *)

StartGraph(b) ==
    /\ pc["graph"] = "down" /\ Connected(b)
    /\ backend' = [backend EXCEPT !["graph"] = b]
    /\ mem' = [Nothing EXCEPT !.stamp = now]
    /\ pc' = [pc EXCEPT !["graph"] = "load relationships"]
    /\ UNCHANGED <<disk, server, writer, acc, replays, faults, now>>

Materialize(rels) == BeginWriting("graph", {GraphKey(u) : u \in {k[1] : k \in rels}})

LoadRelationships ==
    LET g == files["relationships"]
    IN /\ pc["graph"] = "load relationships" /\ torn # "relationships"
       /\ IF g = 0
          THEN Materialize(mem.rels) /\ UNCHANGED mem
          ELSE /\ mem' = [mem EXCEPT !.rels = @ \cup DataSets[g].rels, !.export = g, !.read = now,
                                     !.stamp = IF DataSets[g].latest > @ THEN DataSets[g].latest
                                               ELSE @,
                                     !.loaded = @ \cup {g}]
               /\ pc' = [pc EXCEPT !["graph"] = "load returns"]
               /\ UNCHANGED writer
       /\ UNCHANGED <<disk, server, backend, acc, replays, faults, now>>

LoadReturns ==
    LET g == files["returns"]
    IN /\ pc["graph"] = "load returns" /\ torn # "returns"
       /\ IF g = 0
          THEN Materialize(mem.rels) /\ UNCHANGED mem
          ELSE /\ mem' = [mem EXCEPT !.returns = g, !.loaded = @ \cup {g}]
               /\ pc' = [pc EXCEPT !["graph"] = "load orders"]
               /\ UNCHANGED writer
       /\ UNCHANGED <<disk, server, backend, acc, replays, faults, now>>

\* The returns of each customer of one export, through the orders of perhaps another.
ReturnsOf(returned, g, u) ==
    {txn \in DataSets[returned].returns \cap DOMAIN DataSets[g].orders :
        DataSets[g].orders[txn] = u}

\* A customer without returns keeps the number of an earlier load.
Counted(counts, returned, g) ==
    [u \in Users |-> IF ReturnsOf(returned, g, u) = {} THEN counts[u]
                     ELSE Cardinality(ReturnsOf(returned, g, u))]

LoadOrders ==
    LET g == files["orders"]
    IN /\ pc["graph"] = "load orders" /\ torn # "orders"
       /\ Materialize(mem.rels)
       /\ mem' = IF g = 0 THEN mem
                 ELSE [mem EXCEPT !.counts = Counted(@, mem.returns, g), !.loaded = @ \cup {g}]
       /\ UNCHANGED <<disk, server, backend, acc, replays, faults, now>>

\* Mutant: relationships are loaded when the daemon starts.
WakeToReturns ==
    /\ pc["graph"] = "done"
    /\ pc' = [pc EXCEPT !["graph"] = "load returns"]
    /\ Forget("graph")
    /\ UNCHANGED <<disk, server, backend, mem, acc, replays, faults, now>>

\* The next round loads everything again, on top of what it has.
Wake ==
    /\ pc["graph"] = "done"
    /\ pc' = [pc EXCEPT !["graph"] = "load relationships"]
    /\ Forget("graph")
    /\ UNCHANGED <<disk, server, backend, mem, acc, replays, faults, now>>

------------------------------------------------------------------------------
(* replay_events.py, which is run by hand and ends.                        *)

StartReplay(b) ==
    /\ pc["replay"] \in {"down", "done"} /\ Connected(b) /\ replays < MaxReplays
    /\ backend' = [backend EXCEPT !["replay"] = b]
    /\ acc' = [orders |-> 0, returns |-> 0, joined |-> 0]
    /\ replays' = replays + 1
    /\ pc' = [pc EXCEPT !["replay"] = "replay orders"]
    /\ Forget("replay")
    /\ UNCHANGED <<disk, server, mem, faults, now>>

ReplayOrders ==
    /\ pc["replay"] = "replay orders" /\ torn # "orders"
    /\ acc' = [acc EXCEPT !.orders = files["orders"]]
    /\ pc' = [pc EXCEPT !["replay"] = "replay returns"]
    /\ UNCHANGED <<disk, server, backend, writer, mem, replays, faults, now>>

Features(g) ==
    IF g = 0 THEN {}
    ELSE LET buyers == {DataSets[g].orders[txn] : txn \in DOMAIN DataSets[g].orders}
         IN {FeatureKey(u) : u \in buyers}
            \cup {FeatureKey(k[2]) : k \in {r \in DataSets[g].rels : r[1] \in buyers}}

\* Without returns there is no join, and orders are read only once.
ReplayReturns ==
    /\ pc["replay"] = "replay returns" /\ torn # "returns"
    /\ acc' = [acc EXCEPT !.returns = files["returns"]]
    /\ IF files["returns"] = 0 THEN BeginWriting("replay", Features(acc.orders))
       ELSE pc' = [pc EXCEPT !["replay"] = "join returns"] /\ UNCHANGED writer
    /\ UNCHANGED <<disk, server, backend, mem, replays, faults, now>>

JoinReturns ==
    /\ pc["replay"] = "join returns" /\ torn # "orders"
    /\ acc' = [acc EXCEPT !.joined = files["orders"]]
    /\ BeginWriting("replay", Features(acc.orders))
    /\ UNCHANGED <<disk, server, backend, mem, replays, faults, now>>

------------------------------------------------------------------------------

Reads(p) ==
    CASE pc[p] = "load relationships" -> "relationships"
      [] pc[p] \in {"load returns", "replay returns"} -> "returns"
      [] pc[p] \in {"load orders", "replay orders", "join returns"} -> "orders"
      [] OTHER -> "nothing"

\* A file that is only half there ends the program that reads it.
ReadTorn(p) ==
    /\ torn = Reads(p)
    /\ Dies(p)
    /\ UNCHANGED <<disk, server, replays, faults, now>>

GraphStep ==
    \/ \E b \in {"redis", "embedded"} : StartGraph(b)
    \/ LoadRelationships \/ LoadReturns \/ LoadOrders \/ Wake
    \/ Put("graph")
    \/ Finish("graph")
    \/ ReadTorn("graph")

ReplayStep ==
    \/ ReplayOrders \/ ReplayReturns \/ JoinReturns
    \/ Put("replay")
    \/ Finish("replay")
    \/ ReadTorn("replay")

Next ==
    \/ \E f \in Files : BeginWrite(f)
    \/ EndWrite
    \/ Tick
    \/ Fail
    \/ \E kept \in BOOLEAN : Recover(kept)
    \/ \E p \in Processes : Kill(p)
    \/ \E b \in {"redis", "embedded"} : StartReplay(b)
    \/ GraphStep
    \/ ReplayStep

Spec == Init /\ [][Next]_vars

\* The containers restart what ended ("restart: unless-stopped"), the daemon loops,
\* and an export that was begun is completed.  Nobody has to export or replay,
\* and the clock may stop.
FairSpec ==
    /\ Spec
    /\ WF_vars(GraphStep)
    /\ WF_vars(\E kept \in BOOLEAN : Recover(kept))
    /\ WF_vars(EndWrite)
    /\ WF_vars(\E f \in Files \ {"orders"} : BeginWrite(f))

------------------------------------------------------------------------------
(* ContextResolver.resolve: one MGET, any error of which reads as no keys  *)
(* at all, and what the model and the metadata get from it.                *)

Kinds == {"device", "address", "payment"}

\* b is the backend of the scoring process; an embedded one holds no features.
Seen(b, k) == IF b = "redis" /\ up THEN store[k] ELSE None

KeyOf(group, r) ==
    CASE group = "user" -> FeatureKey(r.user)
      [] group = "graph" -> GraphKey(r.user)
      [] group \in Kinds -> FeatureKey(r[group])

\* What each group of features comes from: its key, or None for what is not in Redis,
\* the defaults or the offline row.  Without the key of the customer nothing is.
Served(b, r) ==
    [group \in Kinds \cup {"user", "graph"} |->
       IF Seen(b, FeatureKey(r.user)) = None THEN None ELSE Seen(b, KeyOf(group, r))]

\* graph_age_ms comes from the graph key, whatever the features come from.
ReportedAge(b, r) ==
    LET key == Seen(b, GraphKey(r.user))
    IN IF key = None \/ key.stamp > now THEN 0 ELSE now - key.stamp

Requests == [user : Users, device : Devices, address : Addresses, payment : Payments]

------------------------------------------------------------------------------
(* Properties.                                                             *)

Listed(p) == IF p = "graph" THEN {GraphKey(k[1]) : k \in mem.rels} ELSE Features(acc.orders)

\* A round that is through has sent each key it knows exactly once: it was executed
\* or lost with its pipeline or the server, none is left in a pipeline nobody executes,
\* and the number that is printed counts both.
NothingSkipped ==
    \A p \in Processes : pc[p] = "done" =>
        /\ landed[p] \cup lost[p] = Listed(p)
        /\ landed[p] \cap lost[p] = {}
        /\ total[p] = Cardinality(Listed(p))

\* What a scoring reports as the age of the graph is no less than the time since the
\* relationships behind its graph key were read: the timestamp is that of the start of
\* the processor and not of the write, and readings, writes, restarts and scorings may
\* come in any order.  Not so when the key stems from edges that are dated later than
\* that reading.  Nothing is said of how old the files were when they were read.
AgeCoversTheReading ==
    \A r \in Requests, b \in {"redis", "embedded"} :
        LET key == Seen(b, GraphKey(r.user))
        IN key # None /\ (\A g \in 1..key.export : DataSets[g].latest <= key.read) =>
             ReportedAge(b, r) >= now - key.read

\* When a program is through with its keys, a scoring gets the value of this round
\* for each of them, unless the key was in a pipeline that failed or on a server that
\* was wiped: nothing of an earlier round is served beside it, and no default.  For
\* all groups but the first the key of the customer has to be there.  (A server that
\* crashes and falls back to an older snapshot is not modelled, and would break this.)
ScoresMissNothing ==
    \A r \in Requests, group \in Kinds \cup {"user", "graph"} :
        LET p == IF group = "graph" THEN "graph" ELSE "replay"
            k == KeyOf(group, r)
        IN /\ up /\ pc[p] = "done" /\ backend[p] = "redis" /\ k \in Listed(p) \ lost[p]
           /\ group = "user" \/ Seen("redis", FeatureKey(r.user)) # None
           => Served("redis", r)[group] = Value(k)

\* The metrics that a fresh processor computes from the newest export.
Truth(u) ==
    LET data == DataSets[Newest]
    IN Graph!Metrics(data.rels, [v \in Users |-> Cardinality(ReturnsOf(Newest, Newest, v))], u)

Current(u) ==
    LET key == store[GraphKey(u)]
    IN /\ key # None /\ key.export = Newest
       /\ Truth(u).linked_1hop \subseteq key.metrics.linked_1hop
       /\ mem.loaded = {Newest} => key.metrics = Truth(u)

\* Once the exports and the faults are over, the server holds the graph of the newest
\* export for each of its customers, for good: through torn files, lost pipelines,
\* a wiped server and restarts.  The graph is exact if the processor was started
\* after the last export, and never misses a link otherwise.  All this as long as
\* the processor found the server when it started.
Converges ==
    <>[](backend["graph"] = "redis" /\ Newest > 0 =>
           \A u \in {k[1] : k \in DataSets[Newest].rels} : Current(u))
=============================================================================
