---------------------- MODULE ExplanationPipelineProofs ----------------------
(***************************************************************************)
(* Proofs about ExplanationPipeline for all values of its constants:       *)
(* types, provenance and single flight; then, for a Redis client that      *)
(* repeats no push, the budget of retries, the durability of what the      *)
(* cache shows, and that every step is one of ExplanationJobs.             *)
(***************************************************************************)
EXTENDS ExplanationPipeline, SequenceTheorems, TLAPS

USE PipelineAssumption, DistinctAssumption

------------------------------------------------------------------------------
(* Types.                                                                  *)

\* The idle states are states, and no record or job is a marker.
LEMMA Values ==
    /\ None \notin Finals /\ Finals \subseteq Records /\ Stubs \subseteq Records
    /\ ApiIdle \in ApiStates /\ Polling \in WorkStates /\ NoGet \in GetStates
    /\ Workers \subseteq Clients /\ Servers \subseteq Clients /\ Api \in Clients
<1>1. None \notin Finals /\ Finals \subseteq Records /\ Stubs \subseteq Records
  BY DEF Records
<1>2. ApiIdle \in ApiStates
  BY DEF ApiIdle, Handing, ApiStates
<1>3. Polling \in WorkStates
  BY DEF Polling, Doing, WorkStates
<1>4. NoGet \in GetStates
  BY DEF NoGet, Reading, GetStates
<1>5. QED
  BY <1>1, <1>2, <1>3, <1>4 DEF Clients, Servers

\* The states a worker goes through with a job in hand.
LEMMA DoingTyping ==
    ASSUME NEW job \in Jobs
    PROVE  /\ \A at \in {"open", "write", "publish"}, rec \in Finals :
                Doing(at, job, rec) \in WorkStates
           /\ \A at \in {"check", "compute", "requeue"} : Doing(at, job, None) \in WorkStates
  BY Values DEF Doing, WorkStates

\* What a busy worker holds.
LEMMA HeldTyping ==
    ASSUME TypeOK, NEW w \in Workers, work[w].at # "poll"
    PROVE  /\ work[w].job \in Jobs
           /\ work[w].job.req \in Requests
           /\ work[w].job.snap \in Scorings
           /\ work[w].at \in {"open", "write", "publish"} =>
                /\ work[w].rec \in Finals
                /\ work[w].rec.req \in Requests
                /\ FilePath(work[w].rec.req) \in FileIds
<1>1. work[w].job \in Jobs
  BY DEF TypeOK, WorkStates
<1>2. work[w].at \in {"open", "write", "publish"} => work[w].rec \in Finals
  BY DEF TypeOK, WorkStates
<1>3. QED
  BY <1>1, <1>2 DEF Jobs, Finals, FilePath

\* What a lookup past Redis holds.
LEMMA LookupTyping ==
    ASSUME TypeOK, NEW c \in Clients, get[c].at # "none"
    PROVE  /\ get[c].req \in Requests
           /\ FilePath(get[c].req) \in FileIds
           /\ get[c].at = "fill" => get[c].rec \in Finals
<1>1. get[c].req \in Requests /\ (get[c].at = "fill" => get[c].rec \in Finals)
  BY DEF TypeOK, GetStates
<1>2. QED
  BY <1>1 DEF FilePath

\* The job in the API's hands.
LEMMA HandedTyping ==
    ASSUME TypeOK, api.at # "idle"
    PROVE  api.job \in Jobs
  BY DEF TypeOK, ApiStates

\* A push keeps the queue a sequence of jobs.
LEMMA PushTyping ==
    ASSUME TypeOK, NEW job \in Jobs, Push(job)
    PROVE  queue' \in Seq(Jobs) /\ faults' \in 0..MaxFaults
<1>1. Append(queue, job) \in Seq(Jobs)
  BY AppendProperties DEF TypeOK
<1>2. Append(Append(queue, job), job) \in Seq(Jobs)
  BY <1>1, AppendProperties
<1>3. queue' \in Seq(Jobs)
  BY <1>1, <1>2 DEF Push, TypeOK
<1>4. faults' \in 0..MaxFaults
  BY DEF Push, Fault, NoFault, TypeOK
<1>5. QED
  BY <1>3, <1>4

\* Every element of the queue after a push is the job or was there before.
LEMMA PushElements ==
    ASSUME TypeOK, NEW job \in Jobs, Push(job)
    PROVE  \A i \in 1..Len(queue') :
             queue'[i] = job \/ \E k \in 1..Len(queue) : queue'[i] = queue[k]
<1> DEFINE q == Append(queue, job)
<1>1. q \in Seq(Jobs) /\ \A i \in 1..Len(q) :
        q[i] = job \/ \E k \in 1..Len(queue) : q[i] = queue[k]
  BY AppendProperties DEF TypeOK
<1>2. \A i \in 1..Len(Append(q, job)) :
        Append(q, job)[i] = job \/ \E k \in 1..Len(queue) : Append(q, job)[i] = queue[k]
  <2> HIDE DEF q
  <2>1. /\ Len(Append(q, job)) = Len(q) + 1 /\ Append(q, job)[Len(q) + 1] = job
        /\ \A i \in 1..Len(q) : Append(q, job)[i] = q[i]
    BY <1>1, AppendProperties
  <2>2. QED
    BY <1>1, <2>1, LenProperties
<1>3. QED
  BY <1>1, <1>2 DEF Push

\* A cache write keeps the cache a map to records.
LEMMA SetTyping ==
    ASSUME TypeOK, NEW r \in Requests, NEW rec \in Records, SetCache(r, rec)
    PROVE  cache' \in [Requests -> Records \cup {Absent}] /\ faults' \in 0..MaxFaults
<1>1. cache' \in [Requests -> Records \cup {Absent}]
  BY DEF SetCache, TypeOK
<1>2. faults' \in 0..MaxFaults
  BY DEF SetCache, Fault, NoFault, TypeOK
<1>3. QED
  BY <1>1, <1>2

\* A returning lookup leaves a worker in a legal state.
LEMMA ReturnsTyping ==
    ASSUME TypeOK, NEW c \in Clients, NEW rec, Returns(c, rec),
           c \in Workers => work[c].at = "check"
    PROVE  work' \in [Workers -> WorkStates]
<1>1. CASE c \in Workers
  <2>1. Doing("compute", work[c].job, None) \in WorkStates
    BY <1>1, HeldTyping, DoingTyping
  <2>2. QED
    BY <1>1, <2>1, Values DEF Returns, TypeOK
<1>2. CASE c \notin Workers
  BY <1>2 DEF Returns, TypeOK
<1>3. QED
  BY <1>1, <1>2

\* Every variable keeps its type, a process only uses the fields of its step,
\* and a worker is in a lookup only while it checks for an existing explanation.
THEOREM Typing == SafeSpec => []TypeOK
<1>1. Init => TypeOK
  BY Values DEF Init, TypeOK, Polling, Doing, NoGet, Reading
<1>2. TypeOK /\ [Next]_vars => TypeOK'
  <2> SUFFICES ASSUME TypeOK, [Next]_vars
               PROVE  TypeOK'
    OBVIOUS
  <2>1. ASSUME NEW r \in Requests, NEW p \in Payloads, NEW s \in Scorings, Score(r, p, s)
        PROVE  TypeOK'
    <3>1. [req |-> r, snap |-> s, retries |-> 0] \in Jobs
      BY DEF Jobs
    <3>2. api' \in ApiStates
      BY <2>1, <3>1, Values DEF ApiStates, Handing, Score
    <3>3. QED
      BY <2>1, <3>2 DEF TypeOK, Score, NoFault
  <2>2. CASE Enqueue
    <3>1. api.job \in Jobs
      BY <2>2, HandedTyping DEF Enqueue
    <3>2. api' \in ApiStates
      BY <2>2, <3>1 DEF Enqueue, ApiStates, Handing
    <3>3. queue' \in Seq(Jobs) /\ faults' \in 0..MaxFaults
      BY <2>2, <3>1, PushTyping DEF Enqueue
    <3>4. QED
      BY <2>2, <3>2, <3>3 DEF TypeOK, Enqueue
  <2>3. CASE RecordPending
    <3>1. api.job.req \in Requests
      BY <2>3, HandedTyping DEF RecordPending, Jobs
    <3>2. [req |-> api.job.req, snap |-> None, status |-> "PENDING"] \in Records
      BY <3>1 DEF Records, Stubs
    <3>3. cache' \in [Requests -> Records \cup {Absent}] /\ faults' \in 0..MaxFaults
      BY <2>3, <3>1, <3>2, SetTyping DEF RecordPending
    <3>4. QED
      BY <2>3, <3>3, Values DEF TypeOK, RecordPending
  <2>4. ASSUME NEW c \in Clients, NEW r \in Requests, ReadCache(c, r)
        PROVE  TypeOK'
    <3>1. /\ get[c].at = "none"
          /\ c \in Workers => work[c].at = "check"
      BY <2>4 DEF ReadCache, Asks, Servers
    <3>2. Reading("disk", r, None) \in GetStates
      BY Values DEF Reading, GetStates
    <3>3. faults' \in 0..MaxFaults
      BY <2>4 DEF ReadCache, Fault, NoFault, TypeOK
    <3>4. CASE Returns(c, cache[r]) /\ UNCHANGED get
      BY <2>4, <3>1, <3>3, <3>4, ReturnsTyping DEF TypeOK, ReadCache, Returns
    <3>5. CASE get' = [get EXCEPT ![c] = Reading("disk", r, None)] /\ UNCHANGED work
      BY <2>4, <3>1, <3>2, <3>3, <3>5 DEF TypeOK, ReadCache
    <3>6. QED
      BY <2>4, <3>4, <3>5 DEF ReadCache
  <2>5. ASSUME NEW c \in Clients, ReadDisk(c)
        PROVE  TypeOK'
    <3> DEFINE file == disk[FilePath(get[c].req)]
    <3>1. /\ get[c].at = "disk"
          /\ get[c].req \in Requests /\ FilePath(get[c].req) \in FileIds
          /\ c \in Workers => work[c].at = "check"
      BY <2>5, LookupTyping DEF ReadDisk, TypeOK
    <3>2. faults' \in 0..MaxFaults
      BY <2>5 DEF ReadDisk, Fault, NoFault, TypeOK
    <3>3. CASE /\ Whole(file)
               /\ get' = [get EXCEPT ![c] = Reading("fill", get[c].req, file)]
               /\ UNCHANGED work
      <4>1. file \in Finals
        BY <3>1, <3>3 DEF TypeOK, Whole
      <4>2. Reading("fill", get[c].req, file) \in GetStates
        BY <3>1, <4>1, Values DEF Reading, GetStates
      <4>3. QED
        BY <2>5, <3>1, <3>2, <3>3, <4>2 DEF TypeOK, ReadDisk
    <3>4. CASE get' = [get EXCEPT ![c] = NoGet] /\ Returns(c, Absent)
      <4>1. work' \in [Workers -> WorkStates]
        BY <3>1, <3>4, ReturnsTyping
      <4>2. \A w \in Workers : get'[w].at # "none" => work'[w].at = "check"
        BY <3>4 DEF TypeOK, NoGet, Reading, Returns
      <4>3. QED
        BY <2>5, <3>2, <3>4, <4>1, <4>2, Values DEF TypeOK, ReadDisk
    <3>5. QED
      BY <2>5, <3>3, <3>4 DEF ReadDisk
  <2>6. ASSUME NEW c \in Clients, FillCache(c)
        PROVE  TypeOK'
    <3>1. /\ get[c].at = "fill"
          /\ get[c].req \in Requests /\ get[c].rec \in Records
          /\ c \in Workers => work[c].at = "check"
      BY <2>6, LookupTyping, Values DEF FillCache, TypeOK
    <3>2. cache' \in [Requests -> Records \cup {Absent}] /\ faults' \in 0..MaxFaults
      BY <2>6, <3>1, SetTyping DEF FillCache
    <3>3. work' \in [Workers -> WorkStates]
      BY <2>6, <3>1, ReturnsTyping DEF FillCache
    <3>4. \A w \in Workers : get'[w].at # "none" => work'[w].at = "check"
      BY <2>6 DEF FillCache, TypeOK, NoGet, Reading, Returns
    <3>5. QED
      BY <2>6, <3>2, <3>3, <3>4, Values DEF TypeOK, FillCache
  <2>7. ASSUME NEW w \in Workers, Dequeue(w)
        PROVE  TypeOK'
    <3>1. Head(queue) \in Jobs /\ Tail(queue) \in Seq(Jobs)
      BY <2>7, HeadTailProperties DEF Dequeue, TypeOK
    <3>2. Doing("check", Head(queue), None) \in WorkStates
      BY <3>1, DoingTyping
    <3>3. faults' \in 0..MaxFaults
      BY <2>7 DEF Dequeue, Fault, NoFault, TypeOK
    <3>4. work' \in [Workers -> WorkStates]
      BY <2>7, <3>2 DEF Dequeue, TypeOK
    <3>5. \A v \in Workers : get'[v].at # "none" => work'[v].at = "check"
      BY <2>7 DEF Dequeue, TypeOK
    <3>6. QED
      BY <2>7, <3>1, <3>3, <3>4, <3>5 DEF TypeOK, Dequeue
  <2>8. ASSUME NEW w \in Workers, Compute(w)
        PROVE  TypeOK'
    <3> DEFINE job == work[w].job
    <3>1. /\ job \in Jobs /\ job.snap \in Scorings
          /\ RecordOf(job, "READY") \in Finals /\ RecordOf(job, "FAILED") \in Finals
      BY <2>8, HeldTyping DEF Compute, RecordOf, Finals
    <3>2. AfterFailure(job) \in WorkStates
      BY <3>1, DoingTyping DEF AfterFailure, Jobs
    <3>3. Doing("open", job, RecordOf(job, "READY")) \in WorkStates
      BY <3>1, DoingTyping
    <3>4. work' \in [Workers -> WorkStates]
      BY <2>8, <3>2, <3>3 DEF TypeOK, Compute
    <3>5. failures' \in [Scorings -> Nat]
      BY <2>8, <3>1 DEF TypeOK, Compute
    <3>6. faults' \in 0..MaxFaults
      BY <2>8 DEF TypeOK, Compute, Fault, NoFault
    <3>7. \A v \in Workers : get'[v].at # "none" => work'[v].at = "check"
      BY <2>8 DEF TypeOK, Compute
    <3>8. QED
      BY <2>8, <3>4, <3>5, <3>6, <3>7 DEF TypeOK, Compute
  <2>9. ASSUME NEW w \in Workers, Requeue(w)
        PROVE  TypeOK'
    <3>1. work[w].job \in Jobs
      BY <2>9, HeldTyping DEF Requeue
    <3>2. queue' \in Seq(Jobs) /\ faults' \in 0..MaxFaults
      BY <2>9, <3>1, PushTyping DEF Requeue
    <3>3. QED
      BY <2>9, <3>2, Values DEF TypeOK, Requeue
  <2>10. ASSUME NEW w \in Workers, OpenFile(w)
         PROVE  TypeOK'
    <3>1. Doing("write", work[w].job, work[w].rec) \in WorkStates
      BY <2>10, HeldTyping, DoingTyping DEF OpenFile
    <3>2. work' \in [Workers -> WorkStates]
      BY <2>10, <3>1, Values DEF TypeOK, OpenFile
    <3>3. disk' \in [FileIds -> Finals \cup {Absent, Empty, Torn}]
      BY <2>10 DEF TypeOK, OpenFile
    <3>4. faults' \in 0..MaxFaults
      BY <2>10 DEF TypeOK, OpenFile, Fault, NoFault
    <3>5. \A v \in Workers : get'[v].at # "none" => work'[v].at = "check"
      BY <2>10 DEF TypeOK, OpenFile
    <3>6. QED
      BY <2>10, <3>2, <3>3, <3>4, <3>5 DEF TypeOK, OpenFile
  <2>11. ASSUME NEW w \in Workers, WriteFile(w)
         PROVE  TypeOK'
    <3>1. work[w].rec \in Finals /\ Doing("publish", work[w].job, work[w].rec) \in WorkStates
      BY <2>11, HeldTyping, DoingTyping DEF WriteFile
    <3>2. work' \in [Workers -> WorkStates]
      BY <2>11, <3>1, Values DEF TypeOK, WriteFile
    <3>3. disk' \in [FileIds -> Finals \cup {Absent, Empty, Torn}]
      BY <2>11, <3>1 DEF TypeOK, WriteFile, Written
    <3>4. faults' \in 0..MaxFaults
      BY <2>11 DEF TypeOK, WriteFile, Fault, NoFault
    <3>5. \A v \in Workers : get'[v].at # "none" => work'[v].at = "check"
      BY <2>11 DEF TypeOK, WriteFile
    <3>6. QED
      BY <2>11, <3>2, <3>3, <3>4, <3>5 DEF TypeOK, WriteFile
  <2>12. ASSUME NEW w \in Workers, Publish(w)
         PROVE  TypeOK'
    <3>1. work[w].rec.req \in Requests /\ work[w].rec \in Records
      BY <2>12, HeldTyping, Values DEF Publish
    <3>2. cache' \in [Requests -> Records \cup {Absent}] /\ faults' \in 0..MaxFaults
      BY <2>12, <3>1, SetTyping DEF Publish
    <3>3. QED
      BY <2>12, <3>2, Values DEF TypeOK, Publish
  <2>13. ASSUME NEW w \in Workers, Crash(w)
         PROVE  TypeOK'
    <3>1. \A v \in Workers : get'[v].at # "none" => work'[v].at = "check"
      BY <2>13, Values DEF TypeOK, Crash, NoGet, Reading
    <3>2. QED
      BY <2>13, <3>1, Values DEF TypeOK, Crash, Fault
  <2>14. ASSUME NEW r \in Requests, Expire(r)
         PROVE  TypeOK'
    BY <2>14 DEF TypeOK, Expire, NoFault
  <2>15. CASE Flush
    BY <2>15 DEF TypeOK, Flush, Fault
  <2>16. CASE RestartApi
    <3>1. \A v \in Workers : get'[v].at # "none" => work'[v].at = "check"
      BY <2>16, Values DEF TypeOK, RestartApi, NoGet, Reading
    <3>2. QED
      BY <2>16, <3>1, Values DEF TypeOK, RestartApi, Fault
  <2>17. CASE UNCHANGED vars
    BY <2>17 DEF TypeOK, vars
  <2>18. QED
    BY <2>1, <2>2, <2>3, <2>4, <2>5, <2>6, <2>7, <2>8, <2>9, <2>10, <2>11, <2>12,
       <2>13, <2>14, <2>15, <2>16, <2>17, Values
       DEF Next, ApiStep, LookupStep, WorkerStep
<1>3. QED
  BY <1>1, <1>2, PTL DEF SafeSpec

------------------------------------------------------------------------------
(* Whose explanation it is.  The inductive invariant follows the data from *)
(* the job the API builds to every copy of the record made from it.        *)

OwnJob(job) == origin[job.snap] = job.req

HandedIsOwn == api.at # "idle" => OwnJob(api.job)
QueueIsOwn  == \A i \in 1..Len(queue) : OwnJob(queue[i])
HeldIsOwn   == \A w \in Workers : work[w].at # "poll" => OwnJob(work[w].job)
DraftIsOwn  == \A w \in Workers : work[w].at \in {"open", "write", "publish"} =>
                 IsHonest(work[w].rec)
CacheIsOwn  == \A r \in Requests : cache[r] # Absent =>
                 BelongsTo(cache[r], r) /\ (cache[r].status = "PENDING" => cache[r].req = r)
FileIsOwn   == \A f \in FileIds : Whole(disk[f]) =>
                 FilePath(disk[f].req) = f /\ IsHonest(disk[f])

JobsBelong == HandedIsOwn /\ QueueIsOwn /\ HeldIsOwn

RecordsBelong == DraftIsOwn /\ CacheIsOwn /\ FileIsOwn /\ ServesSameFile

\* A step that gives no worker a job but drops or keeps what it held.
Holding(w) == /\ work'[w].at # "poll" =>
                   work[w].at # "poll" /\ work'[w].job = work[w].job
              /\ work'[w].at \in {"open", "write", "publish"} =>
                   work[w].at \in {"open", "write", "publish"} /\ work'[w].rec = work[w].rec

\* One worker goes on.
LEMMA OneHolding ==
    ASSUME TypeOK, NEW w \in Workers, NEW v, work' = [work EXCEPT ![w] = v],
           v.at # "poll" => work[w].at # "poll" /\ v.job = work[w].job,
           v.at \in {"open", "write", "publish"} =>
             work[w].at \in {"open", "write", "publish"} /\ v.rec = work[w].rec
    PROVE  \A u \in Workers : Holding(u)
<1>1. work'[w] = v /\ \A u \in Workers \ {w} : work'[u] = work[u]
  BY DEF TypeOK
<1>2. QED
  BY <1>1 DEF Holding

\* One worker stops.
LEMMA DropsHolding ==
    ASSUME TypeOK, NEW w \in Workers, work' = [work EXCEPT ![w] = Polling]
    PROVE  \A u \in Workers : Holding(u)
  BY OneHolding DEF Polling, Doing

\* A returning lookup drops or keeps the job of a worker.
LEMMA ReturnsHolding ==
    ASSUME TypeOK, NEW c \in Clients, NEW rec, Returns(c, rec),
           c \in Workers => work[c].at = "check"
    PROVE  \A w \in Workers : Holding(w)
<1>1. CASE c \in Workers /\ work' = [work EXCEPT ![c] = Polling]
  BY <1>1, DropsHolding
<1>2. CASE c \in Workers /\ work' = [work EXCEPT ![c] = Doing("compute", work[c].job, None)]
  BY <1>2, OneHolding DEF Doing
<1>3. CASE UNCHANGED work
  BY <1>3 DEF Holding
<1>4. QED
  BY <1>1, <1>2, <1>3 DEF Returns

\* A lookup that moves on serves its own record if the step it enters does.
LEMMA OneServed ==
    ASSUME TypeOK, ServesSameFile, UNCHANGED origin, NEW c \in Clients, NEW g,
           get' = [get EXCEPT ![c] = g],
           g.at = "fill" => BelongsTo(g.rec, g.req)
    PROVE  ServesSameFile'
<1>1. get'[c] = g /\ \A d \in Clients \ {c} : get'[d] = get[d]
  BY DEF TypeOK
<1>2. QED
  BY <1>1 DEF ServesSameFile, BelongsTo, IsHonest

\* Jobs a step leaves alone stay their own.
LEMMA JobsUntouched ==
    ASSUME JobsBelong, UNCHANGED origin
    PROVE  /\ UNCHANGED api => HandedIsOwn'
           /\ UNCHANGED queue => QueueIsOwn'
           /\ (\A w \in Workers : Holding(w)) => HeldIsOwn'
  BY DEF JobsBelong, HandedIsOwn, QueueIsOwn, HeldIsOwn, OwnJob, Holding

\* Records a step leaves alone stay their own.
LEMMA RecordsUntouched ==
    ASSUME RecordsBelong, UNCHANGED origin
    PROVE  /\ (\A w \in Workers : Holding(w)) => DraftIsOwn'
           /\ UNCHANGED cache => CacheIsOwn'
           /\ UNCHANGED disk => FileIsOwn'
           /\ UNCHANGED get => ServesSameFile'
  BY DEF RecordsBelong, DraftIsOwn, CacheIsOwn, FileIsOwn, ServesSameFile, BelongsTo, IsHonest, Holding

\* Every job names a scoring of its own request, wherever it is.
LEMMA JobsInvariant == SafeSpec => []JobsBelong
<1>1. Init => JobsBelong
  BY Values DEF Init, JobsBelong, HandedIsOwn, QueueIsOwn, HeldIsOwn, ApiIdle, Handing,
     Polling, Doing
<1>2. TypeOK /\ JobsBelong /\ [Next]_vars => JobsBelong'
  <2> SUFFICES ASSUME TypeOK, JobsBelong, [Next]_vars
               PROVE  JobsBelong'
    OBVIOUS
  <2> USE DEF JobsBelong
  <2>0. UNCHANGED work => \A v \in Workers : Holding(v)
    BY DEF Holding
  <2>1. ASSUME NEW r \in Requests, NEW p \in Payloads, NEW s \in Scorings, Score(r, p, s)
        PROVE  JobsBelong'
    <3>1. \A x \in Scorings : origin[x] \in Requests => origin'[x] = origin[x]
      BY <2>1 DEF Score, TypeOK
    <3>2. \A job \in Jobs : origin[job.snap] = job.req => origin'[job.snap] = job.req
      BY <3>1 DEF Jobs
    <3>3. HandedIsOwn'
      BY <2>1 DEF HandedIsOwn, Score, ApiIdle, Handing, OwnJob, TypeOK
    <3>4. QueueIsOwn'
      BY <2>1, <3>2 DEF QueueIsOwn, TypeOK, OwnJob, Score
    <3>5. HeldIsOwn'
      BY <2>1, <3>2, HeldTyping DEF HeldIsOwn, OwnJob, Score
    <3>6. QED
      BY <3>3, <3>4, <3>5
  <2>2. CASE Enqueue
    <3>1. api.job \in Jobs /\ OwnJob(api.job)
      BY <2>2, HandedTyping DEF Enqueue, HandedIsOwn
    <3>2. \A i \in 1..Len(queue') :
            queue'[i] = api.job \/ \E k \in 1..Len(queue) : queue'[i] = queue[k]
      BY <2>2, <3>1, PushElements DEF Enqueue
    <3>3. QueueIsOwn'
      BY <2>2, <3>1, <3>2 DEF QueueIsOwn, OwnJob, Enqueue
    <3>4. HandedIsOwn'
      BY <2>2, <3>1 DEF HandedIsOwn, OwnJob, Enqueue, Handing
    <3>5. QED
      BY <2>2, <2>0, <3>3, <3>4, JobsUntouched DEF Enqueue
  <2>3. CASE RecordPending
    <3>1. HandedIsOwn'
      BY <2>3 DEF HandedIsOwn, RecordPending, ApiIdle, Handing
    <3>2. QED
      BY <2>3, <2>0, <3>1, JobsUntouched DEF RecordPending
  <2>4. ASSUME NEW c \in Clients,
               (\E r \in Requests : ReadCache(c, r)) \/ ReadDisk(c) \/ FillCache(c)
        PROVE  JobsBelong'
    <3>1. c \in Workers => work[c].at = "check"
      BY <2>4 DEF ReadCache, ReadDisk, FillCache, Asks, Servers, TypeOK
    <3>2. \A v \in Workers : Holding(v)
      BY <2>4, <2>0, <3>1, ReturnsHolding DEF ReadCache, ReadDisk, FillCache
    <3>3. QED
      BY <2>4, <3>2, JobsUntouched DEF ReadCache, ReadDisk, FillCache
  <2>5. ASSUME NEW w \in Workers, Dequeue(w)
        PROVE  JobsBelong'
    <3>1. /\ Len(Tail(queue)) = Len(queue) - 1
          /\ \A i \in 1..Len(Tail(queue)) : Tail(queue)[i] = queue[i + 1]
          /\ Head(queue) = queue[1] /\ 1 \in 1..Len(queue) /\ Len(queue) \in Nat
      BY <2>5, HeadTailProperties, EmptySeq, LenProperties DEF Dequeue, TypeOK
    <3>2. OwnJob(Head(queue)) /\ QueueIsOwn'
      BY <2>5, <3>1 DEF QueueIsOwn, Dequeue, OwnJob
    <3>3. HeldIsOwn'
      <4>1. CASE work' = [work EXCEPT ![w] = Doing("check", Head(queue), None)]
        <5>1. /\ work'[w].at = "check" /\ work'[w].job = Head(queue)
              /\ \A v \in Workers \ {w} : work'[v] = work[v]
          BY <4>1 DEF Doing, TypeOK
        <5>2. QED
          BY <2>5, <3>2, <5>1 DEF HeldIsOwn, Dequeue, OwnJob
      <4>2. CASE UNCHANGED work
        BY <2>5, <4>2, <2>0, JobsUntouched DEF Dequeue
      <4>3. QED
        BY <2>5, <4>1, <4>2 DEF Dequeue
    <3>4. QED
      BY <2>5, <3>2, <3>3, JobsUntouched DEF Dequeue
  <2>6. ASSUME NEW w \in Workers, Compute(w)
        PROVE  JobsBelong'
    <3>1. OwnJob(work[w].job)
      BY <2>6 DEF Compute, HeldIsOwn
    <3>2. /\ work'[w].job.req = work[w].job.req /\ work'[w].job.snap = work[w].job.snap
          /\ \A v \in Workers \ {w} : work'[v] = work[v]
      BY <2>6 DEF Compute, AfterFailure, RecordOf, Doing, TypeOK
    <3>3. HeldIsOwn'
      BY <2>6, <3>1, <3>2 DEF HeldIsOwn, Compute, OwnJob
    <3>4. QED
      BY <2>6, <3>3, JobsUntouched DEF Compute
  <2>7. ASSUME NEW w \in Workers, Requeue(w)
        PROVE  JobsBelong'
    <3>1. work[w].job \in Jobs /\ OwnJob(work[w].job)
      BY <2>7, HeldTyping DEF Requeue, HeldIsOwn
    <3>2. \A i \in 1..Len(queue') :
            queue'[i] = work[w].job \/ \E k \in 1..Len(queue) : queue'[i] = queue[k]
      BY <2>7, <3>1, PushElements DEF Requeue
    <3>3. QueueIsOwn'
      BY <2>7, <3>1, <3>2 DEF QueueIsOwn, OwnJob, Requeue
    <3>4. \A v \in Workers : Holding(v)
      BY <2>7, DropsHolding DEF Requeue
    <3>5. QED
      BY <2>7, <3>3, <3>4, JobsUntouched DEF Requeue
  <2>8. ASSUME NEW w \in Workers, OpenFile(w) \/ WriteFile(w) \/ Publish(w) \/ Crash(w)
        PROVE  JobsBelong'
    <3>1. \A v \in Workers : Holding(v)
      BY <2>8, OneHolding, DropsHolding DEF OpenFile, WriteFile, Publish, Crash, Doing
    <3>2. QED
      BY <2>8, <3>1, JobsUntouched DEF OpenFile, WriteFile, Publish, Crash
  <2>9. CASE Flush
    <3>1. QueueIsOwn'
      BY <2>9, EmptySeq DEF QueueIsOwn, Flush
    <3>2. QED
      BY <2>9, <2>0, <3>1, JobsUntouched DEF Flush
  <2>10. CASE RestartApi
    <3>1. HandedIsOwn'
      BY <2>10 DEF HandedIsOwn, RestartApi, ApiIdle, Handing
    <3>2. QED
      BY <2>10, <2>0, <3>1, JobsUntouched DEF RestartApi
  <2>11. CASE UNCHANGED vars \/ \E r \in Requests : Expire(r)
    BY <2>11, <2>0, JobsUntouched DEF vars, Expire
  <2>12. QED
    BY <2>1, <2>2, <2>3, <2>4, <2>5, <2>6, <2>7, <2>8, <2>9, <2>10, <2>11, Values
       DEF Next, ApiStep, LookupStep, WorkerStep
<1>3. QED
  BY <1>1, <1>2, Typing, PTL DEF SafeSpec

\* A record that belongs there enters the cache.
LEMMA CacheSet ==
    ASSUME TypeOK, CacheIsOwn, UNCHANGED origin, NEW r \in Requests, NEW rec,
           SetCache(r, rec), BelongsTo(rec, r), rec.status = "PENDING" => rec.req = r
    PROVE  CacheIsOwn'
<1>1. \A q \in Requests : cache'[q] = cache[q] \/ (q = r /\ cache'[q] = rec)
  BY DEF SetCache, TypeOK
<1>2. \A x, q : BelongsTo(x, q)' <=> BelongsTo(x, q)
  BY DEF BelongsTo, IsHonest
<1>3. QED
  BY <1>1, <1>2 DEF CacheIsOwn

\* A fresh scoring of its request leaves what records say of theirs true.
LEMMA RecordsKept ==
    ASSUME TypeOK, RecordsBelong, NEW r \in Requests, NEW p \in Payloads, NEW s \in Scorings,
           Score(r, p, s)
    PROVE  RecordsBelong'
<1>1. \A x \in Scorings : origin[x] \in Requests => origin'[x] = origin[x]
  BY DEF Score, TypeOK
<1>2. \A rec \in Records : rec.snap # None => rec.req \in Requests /\ rec.snap \in Scorings
  BY DEF Records, Finals, Stubs
<1>3. DraftIsOwn'
  BY <1>1, <1>2, HeldTyping, Values DEF RecordsBelong, DraftIsOwn, BelongsTo, IsHonest, Score
<1>4. CacheIsOwn'
  BY <1>1, <1>2 DEF RecordsBelong, CacheIsOwn, TypeOK, BelongsTo, IsHonest, Score
<1>5. FileIsOwn'
  <2>1. \A f \in FileIds : Whole(disk[f]) => disk[f] \in Records
    BY Values DEF TypeOK, Whole
  <2>2. QED
    BY <1>1, <1>2, <2>1 DEF RecordsBelong, FileIsOwn, BelongsTo, IsHonest, Whole, FilePath, Score
<1>6. ServesSameFile'
  BY <1>1, <1>2, LookupTyping, Values DEF RecordsBelong, ServesSameFile, BelongsTo, IsHonest, Score
<1>7. QED
  BY <1>3, <1>4, <1>5, <1>6 DEF RecordsBelong

\* Every record names its own request and a scoring of it, wherever it is.
LEMMA RecordsInvariant == SafeSpec => []RecordsBelong
<1>1. Init => RecordsBelong
  BY Values DEF Init, RecordsBelong, DraftIsOwn, CacheIsOwn, FileIsOwn, ServesSameFile,
     Polling, Doing, NoGet, Reading, Whole
<1>2. TypeOK /\ JobsBelong /\ RecordsBelong /\ [Next]_vars => RecordsBelong'
  <2> SUFFICES ASSUME TypeOK, JobsBelong, RecordsBelong, [Next]_vars
               PROVE  RecordsBelong'
    OBVIOUS
  <2> USE DEF RecordsBelong
  <2>0. UNCHANGED work => \A v \in Workers : Holding(v)
    BY DEF Holding
  <2>1. ASSUME NEW r \in Requests, NEW p \in Payloads, NEW s \in Scorings, Score(r, p, s)
        PROVE  RecordsBelong'
    BY <2>1, RecordsKept
  <2>2. CASE Enqueue
    BY <2>2, <2>0, RecordsUntouched DEF Enqueue
  <2>3. CASE RecordPending
    <3>1. CacheIsOwn'
      <4>1. api.job.req \in Requests
        BY <2>3, HandedTyping DEF RecordPending, Jobs
      <4>2. QED
        BY <2>3, <4>1, CacheSet DEF RecordPending, BelongsTo, IsHonest
    <3>2. QED
      BY <2>3, <2>0, <3>1, RecordsUntouched DEF RecordPending
  <2>4. ASSUME NEW c \in Clients, NEW r \in Requests, ReadCache(c, r)
        PROVE  RecordsBelong'
    <3>1. c \in Workers => work[c].at = "check"
      BY <2>4 DEF ReadCache, Asks, Servers
    <3>2. \A v \in Workers : Holding(v)
      BY <2>4, <2>0, <3>1, ReturnsHolding DEF ReadCache
    <3>3. ServesSameFile'
      BY <2>4, OneServed, RecordsUntouched DEF ReadCache, Reading
    <3>4. QED
      BY <2>4, <3>2, <3>3, RecordsUntouched DEF ReadCache
  <2>5. ASSUME NEW c \in Clients, ReadDisk(c)
        PROVE  RecordsBelong'
    <3> DEFINE file == disk[FilePath(get[c].req)]
    <3>1. /\ get[c].req \in Requests /\ FilePath(get[c].req) \in FileIds
          /\ c \in Workers => work[c].at = "check"
      BY <2>5, LookupTyping DEF ReadDisk, TypeOK
    <3>2. \A v \in Workers : Holding(v)
      BY <2>5, <2>0, <3>1, ReturnsHolding DEF ReadDisk
    <3>3. Whole(file) => BelongsTo(file, get[c].req)
      BY <3>1 DEF FileIsOwn, BelongsTo, FilePath
    <3>4. ServesSameFile'
      BY <2>5, <3>3, OneServed DEF ReadDisk, Reading, NoGet
    <3>5. QED
      BY <2>5, <3>2, <3>4, RecordsUntouched DEF ReadDisk
  <2>6. ASSUME NEW c \in Clients, FillCache(c)
        PROVE  RecordsBelong'
    <3>1. c \in Workers => work[c].at = "check"
      BY <2>6 DEF FillCache, TypeOK
    <3>2. \A v \in Workers : Holding(v)
      BY <2>6, <3>1, ReturnsHolding DEF FillCache
    <3>3. CacheIsOwn'
      <4>1. /\ get[c].req \in Requests /\ get[c].rec \in Finals
            /\ BelongsTo(get[c].rec, get[c].req)
        BY <2>6, LookupTyping DEF FillCache, ServesSameFile
      <4>2. get[c].rec.status # "PENDING"
        BY <4>1 DEF Finals
      <4>3. QED
        BY <2>6, <4>1, <4>2, CacheSet DEF FillCache
    <3>4. ServesSameFile'
      BY <2>6 DEF ServesSameFile, FillCache, NoGet, Reading, BelongsTo, IsHonest, TypeOK
    <3>5. QED
      BY <2>6, <3>2, <3>3, <3>4, RecordsUntouched DEF FillCache
  <2>7. ASSUME NEW w \in Workers, Dequeue(w)
        PROVE  RecordsBelong'
    <3>1. DraftIsOwn'
      <4>1. CASE work' = [work EXCEPT ![w] = Doing("check", Head(queue), None)]
        <5>1. work'[w].at = "check" /\ \A v \in Workers \ {w} : work'[v] = work[v]
          BY <4>1 DEF Doing, TypeOK
        <5>2. QED
          BY <2>7, <5>1 DEF DraftIsOwn, Dequeue, BelongsTo, IsHonest
      <4>2. CASE UNCHANGED work
        BY <2>7, <4>2, <2>0, RecordsUntouched DEF Dequeue
      <4>3. QED
        BY <2>7, <4>1, <4>2 DEF Dequeue
    <3>2. QED
      BY <2>7, <3>1, RecordsUntouched DEF Dequeue
  <2>8. ASSUME NEW w \in Workers, Compute(w)
        PROVE  RecordsBelong'
    <3>1. OwnJob(work[w].job)
      BY <2>8 DEF Compute, JobsBelong, HeldIsOwn
    <3>2. /\ work'[w].at \in {"open", "write", "publish"} =>
               work'[w].rec.req = work[w].job.req /\ work'[w].rec.snap = work[w].job.snap
          /\ \A v \in Workers \ {w} : work'[v] = work[v]
      BY <2>8 DEF Compute, AfterFailure, RecordOf, Doing, TypeOK
    <3>3. DraftIsOwn'
      BY <2>8, <3>1, <3>2 DEF DraftIsOwn, Compute, OwnJob, BelongsTo, IsHonest
    <3>4. QED
      BY <2>8, <3>3, RecordsUntouched DEF Compute
  <2>9. ASSUME NEW w \in Workers, Requeue(w)
        PROVE  RecordsBelong'
    <3>1. \A v \in Workers : Holding(v)
      BY <2>9, DropsHolding DEF Requeue
    <3>2. QED
      BY <2>9, <3>1, RecordsUntouched DEF Requeue
  <2>10. ASSUME NEW w \in Workers, OpenFile(w)
         PROVE  RecordsBelong'
    <3>1. \A v \in Workers : Holding(v)
      BY <2>10, OneHolding, DropsHolding DEF OpenFile, Doing
    <3>2. FileIsOwn'
      BY <2>10 DEF FileIsOwn, OpenFile, Whole, FilePath, BelongsTo, IsHonest, TypeOK
    <3>3. QED
      BY <2>10, <3>1, <3>2, RecordsUntouched DEF OpenFile
  <2>11. ASSUME NEW w \in Workers, WriteFile(w)
         PROVE  RecordsBelong'
    <3>1. \A v \in Workers : Holding(v)
      BY <2>11, OneHolding, DropsHolding DEF WriteFile, Doing
    <3>2. FileIsOwn'
      <4>1. IsHonest(work[w].rec)
        BY <2>11 DEF DraftIsOwn, WriteFile
      <4>2. PICK content \in {work[w].rec, Torn} :
              disk' = [disk EXCEPT ![FilePath(work[w].rec.req)] = content]
        BY <2>11 DEF WriteFile, Written
      <4>3. UNCHANGED origin
        BY <2>11 DEF WriteFile
      <4>4. QED
        BY <4>1, <4>2, <4>3 DEF FileIsOwn, Whole, FilePath, BelongsTo, IsHonest, TypeOK
    <3>3. QED
      BY <2>11, <3>1, <3>2, RecordsUntouched DEF WriteFile
  <2>12. ASSUME NEW w \in Workers, Publish(w)
         PROVE  RecordsBelong'
    <3>1. \A v \in Workers : Holding(v)
      BY <2>12, DropsHolding DEF Publish
    <3>2. CacheIsOwn'
      <4>1. work[w].rec \in Finals /\ IsHonest(work[w].rec)
        BY <2>12, HeldTyping DEF Publish, DraftIsOwn
      <4>2. work[w].rec.req \in Requests /\ work[w].rec.status # "PENDING"
        BY <4>1 DEF Finals
      <4>3. QED
        BY <2>12, <4>1, <4>2, CacheSet DEF Publish, BelongsTo
    <3>3. QED
      BY <2>12, <3>1, <3>2, RecordsUntouched DEF Publish
  <2>13. ASSUME NEW w \in Workers, Crash(w)
         PROVE  RecordsBelong'
    <3>1. \A v \in Workers : Holding(v)
      BY <2>13, DropsHolding DEF Crash
    <3>2. ServesSameFile'
      BY <2>13 DEF ServesSameFile, Crash, NoGet, Reading, BelongsTo, IsHonest, TypeOK
    <3>3. QED
      BY <2>13, <3>1, <3>2, RecordsUntouched DEF Crash
  <2>14. ASSUME NEW r \in Requests, Expire(r)
         PROVE  RecordsBelong'
    <3>1. CacheIsOwn'
      BY <2>14 DEF CacheIsOwn, Expire, BelongsTo, IsHonest, TypeOK
    <3>2. QED
      BY <2>14, <2>0, <3>1, RecordsUntouched DEF Expire
  <2>15. CASE Flush
    <3>1. CacheIsOwn'
      BY <2>15 DEF CacheIsOwn, Flush
    <3>2. QED
      BY <2>15, <2>0, <3>1, RecordsUntouched DEF Flush
  <2>16. CASE RestartApi
    <3>1. ServesSameFile'
      BY <2>16 DEF ServesSameFile, RestartApi, NoGet, Reading, BelongsTo, IsHonest, TypeOK
    <3>2. QED
      BY <2>16, <2>0, <3>1, RecordsUntouched DEF RestartApi
  <2>17. CASE UNCHANGED vars
    BY <2>17, <2>0, RecordsUntouched DEF vars
  <2>18. QED
    BY <2>1, <2>2, <2>3, <2>4, <2>5, <2>6, <2>7, <2>8, <2>9, <2>10, <2>11, <2>12,
       <2>13, <2>14, <2>15, <2>16, <2>17, Values
       DEF Next, ApiStep, LookupStep, WorkerStep
<1>3. QED
  BY <1>1, <1>2, Typing, JobsInvariant, PTL DEF SafeSpec

\* Whatever fails, what is stored or read under a request id explains a scoring of the
\* request it names, and that one has the same file name, for every sanitiser.
THEOREM ProvenanceHolds == SafeSpec => []Provenance
<1>1. TypeOK /\ RecordsBelong => Provenance
  <2> SUFFICES ASSUME TypeOK, RecordsBelong, NEW r \in Requests, Whole(disk[FilePath(r)])
               PROVE  BelongsTo(disk[FilePath(r)], r)
    BY DEF RecordsBelong, CacheIsOwn, Provenance
  <2>1. FilePath(r) \in FileIds
    BY PipelineAssumption DEF FilePath
  <2>2. QED
    BY <2>1 DEF RecordsBelong, FileIsOwn, BelongsTo, FilePath
<1>2. QED
  BY <1>1, Typing, RecordsInvariant, PTL

------------------------------------------------------------------------------
(* Where the job of a scoring is.                                          *)

PushesOnce == "duplicate" \notin FaultKinds

\* A push puts the job of one scoring in the queue, or does nothing.
LEMMA PushPlaces ==
    ASSUME PushesOnce, TypeOK, QueuedOnce, NEW job \in Jobs, Push(job)
    PROVE  \/ UNCHANGED queue
           \/ /\ \A x \in Scorings : Queued(x)' <=> Queued(x) \/ x = job.snap
              /\ ~Queued(job.snap) => QueuedOnce'
<1> DEFINE n == Len(queue)
<1>1. CASE queue' = Append(queue, job)
  <2>1. /\ n \in Nat /\ Len(queue') = n + 1 /\ queue'[n + 1] = job
        /\ \A i \in 1..n : queue'[i] = queue[i]
    BY <1>1, AppendProperties, LenProperties DEF TypeOK
  <2>2. \A x \in Scorings : Queued(x)' <=> Queued(x) \/ x = job.snap
    <3> TAKE x \in Scorings
    <3>1. ASSUME NEW i \in 1..Len(queue'), queue'[i].snap = x
          PROVE  Queued(x) \/ x = job.snap
      <4>1. CASE i \in 1..n
        BY <2>1, <3>1, <4>1 DEF Queued
      <4>2. CASE i = n + 1
        BY <2>1, <3>1, <4>2
      <4>3. QED
        BY <2>1, <4>1, <4>2
    <3>2. ASSUME NEW i \in 1..n, queue[i].snap = x
          PROVE  Queued(x)'
      BY <2>1, <3>2 DEF Queued
    <3>3. x = job.snap => Queued(x)'
      BY <2>1 DEF Queued
    <3>4. QED
      BY <3>1, <3>2, <3>3 DEF Queued
  <2>3. ~Queued(job.snap) => QueuedOnce'
    <3> SUFFICES ASSUME ~Queued(job.snap),
                        NEW i \in 1..(n + 1), NEW j \in 1..(n + 1),
                        queue'[i].snap = queue'[j].snap
                 PROVE  i = j
      BY <2>1 DEF QueuedOnce
    <3>1. \A k \in 1..n : queue[k].snap # job.snap
      BY DEF Queued
    <3>2. CASE i \in 1..n /\ j \in 1..n
      BY <2>1, <3>2 DEF QueuedOnce
    <3>3. CASE i = n + 1 \/ j = n + 1
      BY <2>1, <3>1, <3>3
    <3>4. QED
      BY <2>1, <3>2, <3>3
  <2>4. QED
    BY <2>2, <2>3
<1>2. QED
  BY <1>1, PushesOnce DEF Push, Fault, PushesOnce

\* A pop takes the job of one scoring out of the queue.
LEMMA PopPlaces ==
    ASSUME TypeOK, QueuedOnce, queue # <<>>, queue' = Tail(queue)
    PROVE  /\ Head(queue) \in Jobs /\ Queued(Head(queue).snap) /\ QueuedOnce'
           /\ \A x \in Scorings : Queued(x)' <=> Queued(x) /\ x # Head(queue).snap
<1> DEFINE n == Len(queue)
<1>1. /\ Head(queue) \in Jobs /\ Head(queue) = queue[1]
      /\ n \in Nat /\ n >= 1 /\ Len(queue') = n - 1
      /\ \A i \in 1..(n - 1) : queue'[i] = queue[i + 1]
  BY HeadTailProperties, EmptySeq, LenProperties DEF TypeOK
<1>2. Queued(Head(queue).snap)
  BY <1>1 DEF Queued
<1>3. QueuedOnce'
  <2> SUFFICES ASSUME NEW i \in 1..(n - 1), NEW j \in 1..(n - 1),
                      queue'[i].snap = queue'[j].snap
               PROVE  i = j
    BY <1>1 DEF QueuedOnce
  <2>1. i + 1 \in 1..n /\ j + 1 \in 1..n /\ queue[i + 1].snap = queue[j + 1].snap
    BY <1>1
  <2>2. i + 1 = j + 1
    BY <2>1 DEF QueuedOnce
  <2>3. QED
    BY <2>2
<1>4. ASSUME NEW x \in Scorings
      PROVE  Queued(x)' <=> Queued(x) /\ x # Head(queue).snap
  <2>1. ASSUME NEW i \in 1..(n - 1), queue'[i].snap = x
        PROVE  Queued(x) /\ x # Head(queue).snap
    <3>1. i + 1 \in 1..n /\ 1 \in 1..n /\ i + 1 # 1 /\ queue[i + 1].snap = x
      BY <1>1, <2>1
    <3>2. QED
      BY <1>1, <3>1 DEF Queued, QueuedOnce
  <2>2. ASSUME NEW i \in 1..n, queue[i].snap = x, x # Head(queue).snap
        PROVE  Queued(x)'
    <3>1. i # 1
      BY <1>1, <2>2
    <3>2. i - 1 \in 1..(n - 1) /\ queue'[i - 1] = queue[i]
      BY <1>1, <3>1
    <3>3. QED
      BY <1>1, <2>2, <3>2 DEF Queued
  <2>3. QED
    BY <1>1, <2>1, <2>2 DEF Queued
<1>5. QED
  BY <1>1, <1>2, <1>3, <1>4

\* How a change of one worker moves jobs.
SameHeld == \A v \in Workers, x \in Scorings : HeldBy(v, x)' <=> HeldBy(v, x)

Dropped(w) == \A v \in Workers, x \in Scorings : HeldBy(v, x)' <=> HeldBy(v, x) /\ v # w

\* A worker goes on with its job.
LEMMA HeldKept ==
    ASSUME TypeOK, NEW w \in Workers, NEW v, work' = [work EXCEPT ![w] = v],
           v.at # "poll", work[w].at # "poll", v.job.snap = work[w].job.snap
    PROVE  SameHeld
<1>1. work'[w] = v /\ \A u \in Workers \ {w} : work'[u] = work[u]
  BY DEF TypeOK
<1>2. QED
  BY <1>1 DEF SameHeld, HeldBy

\* It is done with it.
LEMMA HeldDropped ==
    ASSUME TypeOK, NEW w \in Workers, work' = [work EXCEPT ![w] = Polling]
    PROVE  Dropped(w)
<1>1. work'[w].at = "poll" /\ \A u \in Workers \ {w} : work'[u] = work[u]
  BY DEF TypeOK, Polling, Doing
<1>2. QED
  BY <1>1 DEF Dropped, HeldBy

\* It takes a job.
LEMMA HeldTaken ==
    ASSUME TypeOK, NEW w \in Workers, NEW job \in Jobs, work[w].at = "poll",
           work' = [work EXCEPT ![w] = Doing("check", job, None)]
    PROVE  \A v \in Workers, x \in Scorings :
             HeldBy(v, x)' <=> HeldBy(v, x) \/ (v = w /\ x = job.snap)
<1>1. /\ work'[w].at = "check" /\ work'[w].job = job
      /\ \A u \in Workers \ {w} : work'[u] = work[u]
  BY DEF TypeOK, Doing
<1>2. QED
  BY <1>1 DEF HeldBy

\* A returning lookup keeps or drops the job.
LEMMA ReturnsPlaces ==
    ASSUME TypeOK, NEW c \in Clients, NEW rec, Returns(c, rec),
           c \in Workers => work[c].at = "check"
    PROVE  SameHeld \/ (c \in Workers /\ Dropped(c))
<1>1. CASE c \in Workers /\ work' = [work EXCEPT ![c] = Polling]
  BY <1>1, HeldDropped
<1>2. CASE c \in Workers /\ work' = [work EXCEPT ![c] = Doing("compute", work[c].job, None)]
  <2> DEFINE v == Doing("compute", work[c].job, None)
  <2>1. v.at # "poll" /\ v.job.snap = work[c].job.snap
    BY DEF Doing
  <2>2. work[c].at # "poll"
    BY <1>2
  <2> HIDE DEF v
  <2>3. QED
    BY <1>2, <2>1, <2>2, HeldKept DEF v
<1>3. CASE UNCHANGED work
  BY <1>3 DEF SameHeld, HeldBy
<1>4. QED
  BY <1>1, <1>2, <1>3 DEF Returns

\* How a step moves jobs: not at all; a worker drops its job; or one of the six
\* hand-overs.
SameHanded == \A x \in Scorings : HandedOver(x)' <=> HandedOver(x)
NoneHanded == \A x \in Scorings : ~HandedOver(x)'
SameQueued == (\A x \in Scorings : Queued(x)' <=> Queued(x)) /\ QueuedOnce'

Stays == SameHanded /\ SameQueued /\ SameHeld

Drops(w) == SameHanded /\ SameQueued /\ Dropped(w)

Accepts(s) == /\ origin[s] = None
              /\ \A x \in Scorings : ~HandedOver(x) /\ (HandedOver(x)' => x = s)
              /\ SameQueued /\ SameHeld

Posts(s) == /\ HandedOver(s) /\ NoneHanded
            /\ SameHeld
            /\ \A x \in Scorings : Queued(x)' <=> Queued(x) \/ x = s
            /\ ~Queued(s) => QueuedOnce'

Takes(w, s) == /\ SameHanded
               /\ Queued(s) /\ QueuedOnce'
               /\ \A x \in Scorings : Queued(x)' <=> Queued(x) /\ x # s
               /\ \/ SameHeld
                  \/ \A v \in Workers, x \in Scorings :
                       HeldBy(v, x)' <=> HeldBy(v, x) \/ (v = w /\ x = s)

Retries(w, s) == /\ SameHanded
                 /\ HeldBy(w, s) /\ Dropped(w)
                 /\ \A x \in Scorings : Queued(x)' <=> Queued(x) \/ x = s
                 /\ ~Queued(s) => QueuedOnce'

Loses == NoneHanded /\ SameQueued /\ SameHeld

Flushes == SameHanded /\ SameHeld /\ QueuedOnce' /\ \A x \in Scorings : ~Queued(x)'

Carries == \/ Stays \/ Loses \/ Flushes
           \/ \E w \in Workers : Drops(w)
           \/ \E s \in Scorings : Posts(s)
           \/ \E w \in Workers, s \in Scorings : Takes(w, s)

\* Only a scoring accepts a job, only a requeue retries one, and only a scoring or
\* a computation touches the histories of scorings.
Moves == \/ Carries /\ UNCHANGED <<origin, failures>>
         \/ \E r \in Requests, p \in Payloads, s \in Scorings : Score(r, p, s) /\ Accepts(s)
         \/ \E w \in Workers : Compute(w) /\ Stays
         \/ \E w \in Workers : Requeue(w) /\ Retries(w, work[w].job.snap)

\* Every step of the pipeline is one of these moves.
LEMMA StepMoves ==
    ASSUME PushesOnce, TypeOK, QueuedOnce, [Next]_vars
    PROVE  Moves
<1>1. UNCHANGED api => SameHanded
  BY DEF SameHanded, HandedOver
<1>2. UNCHANGED queue => SameQueued
  BY DEF SameQueued, Queued, QueuedOnce
<1>3. UNCHANGED work => SameHeld
  BY DEF SameHeld, HeldBy
<1>4. api'.at # "enqueue" => NoneHanded
  BY DEF NoneHanded, HandedOver
<1>5. ASSUME NEW r \in Requests, NEW p \in Payloads, NEW s \in Scorings, Score(r, p, s)
      PROVE  Moves
  <2>1. \A x \in Scorings : ~HandedOver(x) /\ (HandedOver(x)' => x = s)
    BY <1>5 DEF Score, HandedOver, ApiIdle, Handing
  <2>2. Accepts(s)
    BY <1>2, <1>3, <1>5, <2>1 DEF Accepts, Score
  <2>3. QED
    BY <1>5, <2>2 DEF Moves
<1>6. CASE Enqueue
  <2>1. api.job \in Jobs /\ api.job.snap \in Scorings /\ HandedOver(api.job.snap)
    BY <1>6, HandedTyping DEF Enqueue, Jobs, HandedOver
  <2>2. NoneHanded
    BY <1>4, <1>6 DEF Enqueue, Handing
  <2>3. Loses \/ Posts(api.job.snap)
    BY <1>2, <1>3, <1>6, <2>1, <2>2, PushPlaces DEF Loses, Posts, Enqueue
  <2>4. QED
    BY <1>6, <2>1, <2>3 DEF Moves, Carries, Enqueue
<1>7. CASE RecordPending
  <2>1. NoneHanded
    BY <1>4, <1>7 DEF RecordPending, ApiIdle, Handing
  <2>2. QED
    BY <1>2, <1>3, <1>7, <2>1 DEF Moves, Carries, Loses, RecordPending
<1>8. ASSUME NEW c \in Clients, NEW r \in Requests, ReadCache(c, r)
      PROVE  Moves
  <2>1. c \in Workers => work[c].at = "check"
    BY <1>8 DEF ReadCache, Asks, Servers
  <2>2. SameHeld \/ (c \in Workers /\ Dropped(c))
    BY <1>3, <1>8, <2>1, ReturnsPlaces DEF ReadCache
  <2>3. QED
    BY <1>1, <1>2, <1>8, <2>2 DEF Moves, Carries, Stays, Drops, ReadCache
<1>9. ASSUME NEW c \in Clients, ReadDisk(c)
      PROVE  Moves
  <2>1. c \in Workers => work[c].at = "check"
    BY <1>9 DEF ReadDisk, TypeOK
  <2>2. SameHeld \/ (c \in Workers /\ Dropped(c))
    BY <1>3, <1>9, <2>1, ReturnsPlaces DEF ReadDisk
  <2>3. QED
    BY <1>1, <1>2, <1>9, <2>2 DEF Moves, Carries, Stays, Drops, ReadDisk
<1>10. ASSUME NEW c \in Clients, FillCache(c)
       PROVE  Moves
  <2>1. c \in Workers => work[c].at = "check"
    BY <1>10 DEF FillCache, TypeOK
  <2>2. SameHeld \/ (c \in Workers /\ Dropped(c))
    BY <1>10, <2>1, ReturnsPlaces DEF FillCache
  <2>3. QED
    BY <1>1, <1>2, <1>10, <2>2 DEF Moves, Carries, Stays, Drops, FillCache
<1>11. ASSUME NEW w \in Workers, Dequeue(w)
       PROVE  Moves
  <2> DEFINE job == Head(queue)
  <2>1. /\ job \in Jobs /\ job.snap \in Scorings /\ Queued(job.snap) /\ QueuedOnce'
        /\ \A x \in Scorings : Queued(x)' <=> Queued(x) /\ x # job.snap
    BY <1>11, PopPlaces DEF Dequeue, Jobs
  <2>2. \/ SameHeld
        \/ \A v \in Workers, x \in Scorings :
             HeldBy(v, x)' <=> HeldBy(v, x) \/ (v = w /\ x = job.snap)
    BY <1>3, <1>11, <2>1, HeldTaken DEF Dequeue
  <2>3. Takes(w, job.snap)
    BY <1>1, <1>11, <2>1, <2>2 DEF Takes, Dequeue
  <2>4. QED
    BY <1>11, <2>1, <2>3 DEF Moves, Carries, Dequeue
<1>12. ASSUME NEW w \in Workers, Compute(w)
       PROVE  Moves
  <2>1. SameHeld
    <3>1. AfterFailure(work[w].job).at # "poll"
          /\ AfterFailure(work[w].job).job.snap = work[w].job.snap
      BY DEF AfterFailure, Doing
    <3>2. QED
      BY <1>12, <3>1, HeldKept DEF Compute, Doing
  <2>2. QED
    BY <1>1, <1>2, <1>12, <2>1 DEF Moves, Stays, Compute
<1>13. ASSUME NEW w \in Workers, Requeue(w)
       PROVE  Moves
  <2> DEFINE s == work[w].job.snap
  <2>1. work[w].job \in Jobs /\ s \in Scorings /\ HeldBy(w, s)
    BY <1>13, HeldTyping DEF Requeue, HeldBy
  <2>2. Dropped(w)
    BY <1>13, HeldDropped DEF Requeue
  <2>3. Drops(w) \/ Retries(w, s)
    BY <1>1, <1>2, <1>13, <2>1, <2>2, PushPlaces DEF Drops, Retries, Requeue
  <2>4. QED
    BY <1>13, <2>3 DEF Moves, Carries, Requeue
<1>14. ASSUME NEW w \in Workers, OpenFile(w) \/ WriteFile(w)
       PROVE  Moves
  <2>1. SameHeld \/ Dropped(w)
    BY <1>14, HeldKept, HeldDropped DEF OpenFile, WriteFile, Doing
  <2>2. QED
    BY <1>1, <1>2, <1>14, <2>1 DEF Moves, Carries, Stays, Drops, OpenFile, WriteFile
<1>15. ASSUME NEW w \in Workers, Publish(w) \/ Crash(w)
       PROVE  Moves
  BY <1>1, <1>2, <1>15, HeldDropped DEF Moves, Carries, Drops, Publish, Crash
<1>16. CASE Flush
  <2>1. QueuedOnce' /\ \A x \in Scorings : ~Queued(x)'
    BY <1>16, EmptySeq DEF Flush, QueuedOnce, Queued
  <2>2. QED
    BY <1>1, <1>3, <1>16, <2>1 DEF Moves, Carries, Flushes, Flush
<1>17. CASE RestartApi
  <2>1. NoneHanded
    BY <1>4, <1>17 DEF RestartApi, ApiIdle, Handing
  <2>2. QED
    BY <1>2, <1>3, <1>17, <2>1 DEF Moves, Carries, Loses, RestartApi
<1>18. CASE UNCHANGED vars \/ \E r \in Requests : Expire(r)
  BY <1>1, <1>2, <1>3, <1>18 DEF Moves, Carries, Stays, vars, Expire
<1>19. QED
  BY <1>5, <1>6, <1>7, <1>8, <1>9, <1>10, <1>11, <1>12, <1>13, <1>14, <1>15, <1>16,
     <1>17, <1>18, Values DEF Next, ApiStep, LookupStep, WorkerStep

\* Without repeated pushes the job of a scoring is in one place at a time.
THEOREM SingleFlightHolds == ASSUME PushesOnce PROVE SafeSpec => []SingleFlight
<1>1. Init => SingleFlight
  BY EmptySeq DEF Init, SingleFlight, HandedOver, Queued, HeldBy, QueuedOnce, ApiIdle,
     Handing, Polling, Doing
<1>2. TypeOK /\ JobsBelong /\ SingleFlight /\ [Next]_vars => SingleFlight'
  <2> SUFFICES ASSUME TypeOK, JobsBelong, SingleFlight, [Next]_vars
               PROVE  SingleFlight'
    OBVIOUS
  <2> USE DEF SingleFlight
  <2>1. \/ Carries
        \/ \E s \in Scorings : Accepts(s)
        \/ \E w \in Workers, s \in Scorings : Retries(w, s)
    <3>1. \A w \in Workers : Requeue(w) => work[w].job.snap \in Scorings
      BY HeldTyping DEF Requeue
    <3>2. QED
      BY <3>1, StepMoves DEF Moves, Carries
  <2>2. CASE Stays
    BY <2>2 DEF Stays, SameHanded, SameQueued, SameHeld
  <2>3. CASE Loses
    BY <2>3 DEF Loses, NoneHanded, SameQueued, SameHeld
  <2>4. CASE Flushes
    BY <2>4 DEF Flushes, SameHanded, SameHeld
  <2>5. ASSUME NEW w \in Workers, Drops(w)
        PROVE  SingleFlight'
    BY <2>5 DEF Drops, SameHanded, SameQueued, Dropped
  <2>6. ASSUME NEW s \in Scorings, Accepts(s)
        PROVE  SingleFlight'
    <3>1. ~Queued(s) /\ \A w \in Workers : ~HeldBy(w, s)
      <4>1. \A job \in Jobs : OwnJob(job) => job.snap # s
        BY <2>6 DEF Accepts, OwnJob, Jobs
      <4>2. ~Queued(s)
        BY <4>1, LenProperties DEF Queued, JobsBelong, QueueIsOwn, TypeOK
      <4>3. \A w \in Workers : ~HeldBy(w, s)
        BY <4>1, HeldTyping DEF HeldBy, JobsBelong, HeldIsOwn
      <4>4. QED
        BY <4>2, <4>3
    <3>2. QED
      BY <2>6, <3>1 DEF Accepts, SameQueued, SameHeld
  <2>7. ASSUME NEW s \in Scorings, Posts(s)
        PROVE  SingleFlight'
    BY <2>7 DEF Posts, NoneHanded, SameHeld
  <2>8. ASSUME NEW w \in Workers, NEW s \in Scorings, Takes(w, s)
        PROVE  SingleFlight'
    BY <2>8 DEF Takes, SameHanded, SameHeld
  <2>9. ASSUME NEW w \in Workers, NEW s \in Scorings, Retries(w, s)
        PROVE  SingleFlight'
    BY <2>9 DEF Retries, SameHanded, Dropped
  <2>10. QED
    BY <2>1, <2>2, <2>3, <2>4, <2>5, <2>6, <2>7, <2>8, <2>9 DEF Carries
<1>3. QED
  BY <1>1, <1>2, Typing, JobsInvariant, PTL DEF SafeSpec

------------------------------------------------------------------------------
(* From here on the Redis client repeats no push.                          *)
(* The retry counter of a job is the number of its failures.               *)

Counted(job) == failures[job.snap] = job.retries
Spent(rec) == rec.status = "FAILED" => failures[rec.snap] = MaxRetries + 1

NewIsUnfailed == \A s \in Scorings : origin[s] = None => failures[s] = 0
HandedIsCounted == api.at = "enqueue" => Counted(api.job)
QueueIsCounted == \A i \in 1..Len(queue) : Counted(queue[i])
WorkIsCounted(v) ==
    /\ v.at \in {"check", "compute", "requeue"} => Counted(v.job)
    /\ v.at = "requeue" => v.job.retries > 0
    /\ v.at \in {"open", "write", "publish"} =>
         Spent(v.rec) /\ v.rec = RecordOf(v.job, v.rec.status)
HeldIsCounted == \A w \in Workers : WorkIsCounted(work[w])
JobsCount == NewIsUnfailed /\ HandedIsCounted /\ QueueIsCounted /\ HeldIsCounted

ReadIsSpent == \A c \in Clients : get[c].at = "fill" => Spent(get[c].rec)

CacheIsSpent == \A r \in Requests : cache[r] # Absent => Spent(cache[r])
FileIsSpent == \A f \in FileIds : Whole(disk[f]) => Spent(disk[f])
FailuresBounded == \A s \in Scorings : failures[s] <= MaxRetries + 1
RecordsSpent == CacheIsSpent /\ FileIsSpent /\ ReadIsSpent

BudgetInv == JobsCount /\ RecordsSpent /\ FailuresBounded

\* What a step leaves alone stays counted.
LEMMA CountUntouched ==
    ASSUME JobsCount, UNCHANGED failures
    PROVE  /\ UNCHANGED origin => NewIsUnfailed'
           /\ UNCHANGED api => HandedIsCounted'
           /\ UNCHANGED queue => QueueIsCounted'
           /\ UNCHANGED work => HeldIsCounted'
  BY DEF JobsCount, NewIsUnfailed, HandedIsCounted, QueueIsCounted, HeldIsCounted, WorkIsCounted,
     Counted, Spent

\* And records stay spent.
LEMMA SpentUntouched ==
    ASSUME RecordsSpent, UNCHANGED failures
    PROVE  /\ UNCHANGED cache => CacheIsSpent'
           /\ UNCHANGED disk => FileIsSpent'
           /\ UNCHANGED get => ReadIsSpent'
  BY DEF RecordsSpent, CacheIsSpent, FileIsSpent, ReadIsSpent, Spent

\* A worker that moves on keeps its job counted if its new state does.
LEMMA OneCounted ==
    ASSUME TypeOK, JobsCount, UNCHANGED failures, NEW w \in Workers, NEW v,
           work' = [work EXCEPT ![w] = v], WorkIsCounted(v)
    PROVE  HeldIsCounted'
<1>1. work'[w] = v /\ \A u \in Workers \ {w} : work'[u] = work[u]
  BY DEF TypeOK
<1>2. \A u \in Workers : WorkIsCounted(work'[u])
  BY <1>1 DEF JobsCount, HeldIsCounted
<1>3. \A u \in Workers : WorkIsCounted(work[u])'
  BY <1>2 DEF WorkIsCounted, Counted, Spent
<1>4. QED
  BY <1>3 DEF HeldIsCounted

\* A worker that is done holds no job.
LEMMA PollingCounted ==
    ASSUME TypeOK, JobsCount, UNCHANGED failures, NEW w \in Workers,
           work' = [work EXCEPT ![w] = Polling]
    PROVE  HeldIsCounted'
  BY OneCounted DEF Polling, Doing, WorkIsCounted

\* A returning lookup keeps or drops the job.
LEMMA ReturnsCounted ==
    ASSUME TypeOK, JobsCount, UNCHANGED failures, NEW c \in Clients, NEW rec, Returns(c, rec),
           c \in Workers => work[c].at = "check"
    PROVE  HeldIsCounted'
<1>1. CASE c \in Workers /\ work' = [work EXCEPT ![c] = Polling]
  BY <1>1, PollingCounted
<1>2. CASE c \in Workers /\ work' = [work EXCEPT ![c] = Doing("compute", work[c].job, None)]
  <2> DEFINE v == Doing("compute", work[c].job, None)
  <2>1. WorkIsCounted(v)
    BY <1>2 DEF JobsCount, HeldIsCounted, WorkIsCounted, Doing
  <2> HIDE DEF v
  <2>2. QED
    BY <1>2, <2>1, OneCounted DEF v
<1>3. CASE UNCHANGED work
  BY <1>3, CountUntouched
<1>4. QED
  BY <1>1, <1>2, <1>3 DEF Returns

\* A push of a counted job keeps the queue counted.
LEMMA PushCounted ==
    ASSUME TypeOK, JobsCount, UNCHANGED failures, NEW job \in Jobs, Push(job), Counted(job)
    PROVE  QueueIsCounted'
<1>1. \A i \in 1..Len(queue') :
        queue'[i] = job \/ \E k \in 1..Len(queue) : queue'[i] = queue[k]
  BY PushElements
<1>2. QED
  BY <1>1 DEF JobsCount, QueueIsCounted, Counted

\* A lookup that moves on, or a cache write, keeps its record spent.
LEMMA OneRead ==
    ASSUME TypeOK, RecordsSpent, UNCHANGED failures, NEW c \in Clients, NEW g,
           get' = [get EXCEPT ![c] = g], g.at = "fill" => Spent(g.rec)
    PROVE  ReadIsSpent'
<1>1. get'[c] = g /\ \A d \in Clients \ {c} : get'[d] = get[d]
  BY DEF TypeOK
<1>2. QED
  BY <1>1 DEF RecordsSpent, ReadIsSpent, Spent

\* A cache write stores a spent record.
LEMMA OneStored ==
    ASSUME TypeOK, RecordsSpent, UNCHANGED failures, NEW r, NEW rec, SetCache(r, rec), Spent(rec)
    PROVE  CacheIsSpent'
<1>1. \A q \in Requests : cache'[q] = cache[q] \/ cache'[q] = rec
  BY DEF SetCache, TypeOK
<1>2. QED
  BY <1>1 DEF RecordsSpent, CacheIsSpent, Spent

\* A failed computation is the next failure of its job, which is nowhere else, and
\* of a scoring that has no FAILED record yet.
LEMMA FailureCounted ==
    ASSUME TypeOK, JobsBelong, SingleFlight, BudgetInv, NEW w \in Workers, Compute(w),
           failures' = [failures EXCEPT ![work[w].job.snap] = @ + 1],
           work' = [work EXCEPT ![w] = AfterFailure(work[w].job)]
    PROVE  BudgetInv'
<1> USE DEF BudgetInv
<1>0. PICK job, s : job = work[w].job /\ s = job.snap
  OBVIOUS
<1>1. /\ job \in Jobs /\ s \in Scorings /\ job.req \in Requests /\ origin[s] = job.req
      /\ job.retries \in 0..MaxRetries
  BY <1>0, HeldTyping DEF Compute, JobsBelong, HeldIsOwn, OwnJob, Jobs
<1>2. /\ failures[s] = job.retries /\ failures'[s] = job.retries + 1
      /\ \A x \in Scorings \ {s} : failures'[x] = failures[x]
  BY <1>0, <1>1 DEF JobsCount, HeldIsCounted, WorkIsCounted, Compute, Counted, TypeOK
<1>3. HeldBy(w, s) /\ UNCHANGED <<origin, api, queue, cache, disk, get>>
  BY <1>0 DEF Compute, HeldBy
<1>4. \A rec \in Records : Spent(rec) => Spent(rec)'
  BY <1>1, <1>2 DEF Spent, Records, Finals, Stubs
<1>5. FailuresBounded'
  BY <1>1, <1>2 DEF FailuresBounded
<1>6. RecordsSpent'
  <2>1. CacheIsSpent'
    BY <1>3, <1>4 DEF RecordsSpent, CacheIsSpent, TypeOK
  <2>2. FileIsSpent'
    BY <1>3, <1>4, Values DEF RecordsSpent, FileIsSpent, TypeOK, Whole
  <2>3. ReadIsSpent'
    BY <1>3, <1>4, LookupTyping, Values DEF RecordsSpent, ReadIsSpent
  <2>4. QED
    BY <2>1, <2>2, <2>3 DEF RecordsSpent
<1>7. NewIsUnfailed'
  BY <1>1, <1>2, <1>3 DEF JobsCount, NewIsUnfailed
<1>8. HandedIsCounted'
  <2>1. api.at = "enqueue" => api.job.snap \in Scorings \ {s}
    BY <1>1, <1>3, HandedTyping DEF SingleFlight, HandedOver, Jobs
  <2>2. QED
    BY <1>2, <1>3, <2>1 DEF JobsCount, HandedIsCounted, Counted
<1>9. QueueIsCounted'
  <2>1. ASSUME NEW i \in 1..Len(queue)
        PROVE  queue[i].snap \in Scorings /\ queue[i].snap # s
    <3>1. queue[i] \in Jobs
      BY LenProperties DEF TypeOK
    <3>2. ~Queued(s)
      BY <1>1, <1>3 DEF SingleFlight
    <3>3. QED
      BY <3>1, <3>2 DEF Queued, Jobs
  <2>2. \A i \in 1..Len(queue) : failures'[queue[i].snap] = queue[i].retries
    BY <1>2, <2>1 DEF JobsCount, QueueIsCounted, Counted
  <2>3. QED
    BY <1>3, <2>2 DEF QueueIsCounted, Counted
<1>10. HeldIsCounted'
  <2>1. work'[w] = AfterFailure(job) /\ \A v \in Workers \ {w} : work'[v] = work[v]
    BY <1>0 DEF TypeOK
  <2>2. ASSUME NEW v \in Workers \ {w}
        PROVE  WorkIsCounted(work[v])'
    <3>1. work[v].at # "poll" => work[v].job.snap \in Scorings \ {s}
      BY <1>1, <1>3, HeldTyping DEF SingleFlight, HeldBy
    <3>2. work[v].at \in {"open", "write", "publish"} => work[v].rec \in Records
      BY HeldTyping, Values
    <3>3. work[v].at \in {"check", "compute", "requeue"} => Counted(work[v].job)'
      BY <1>2, <2>1, <3>1 DEF JobsCount, HeldIsCounted, WorkIsCounted, Counted
    <3>4. work[v].at \in {"open", "write", "publish"} => Spent(work[v].rec)'
      BY <1>4, <2>1, <3>2 DEF JobsCount, HeldIsCounted, WorkIsCounted
    <3>5. WorkIsCounted(work[v])
      BY DEF JobsCount, HeldIsCounted
    <3>6. QED
      BY <2>1, <3>3, <3>4, <3>5 DEF WorkIsCounted, Counted, Spent
  <2>3. WorkIsCounted(work[w])'
    <3>1. CASE job.retries < MaxRetries
      <4>1. /\ work'[w].at = "requeue"
            /\ work'[w].job.snap = s /\ work'[w].job.retries = job.retries + 1
        BY <1>0, <2>1, <3>1 DEF AfterFailure, Doing
      <4>2. QED
        BY <1>1, <1>2, <4>1 DEF WorkIsCounted, Counted
    <3>2. CASE ~(job.retries < MaxRetries)
      <4>1. job.retries = MaxRetries
        BY <1>1, <3>2
      <4>2. /\ work'[w].at = "open" /\ work'[w].job = job
            /\ work'[w].rec = RecordOf(job, "FAILED")
        BY <2>1, <3>2 DEF AfterFailure, Doing
      <4>3. RecordOf(job, "FAILED").status = "FAILED" /\ RecordOf(job, "FAILED").snap = s
        BY <1>0 DEF RecordOf
      <4>4. Spent(work[w].rec)'
        BY <1>2, <4>1, <4>2, <4>3 DEF Spent
      <4>5. QED
        BY <4>2, <4>3, <4>4 DEF WorkIsCounted, Spent
    <3>3. QED
      BY <3>1, <3>2
  <2>4. QED
    BY <2>2, <2>3 DEF HeldIsCounted
<1>11. QED
  BY <1>5, <1>6, <1>7, <1>8, <1>9, <1>10 DEF JobsCount

\* Every job carries the number of its failures, and FAILED records are of jobs that
\* used up their retries.
LEMMA BudgetStep ==
    ASSUME PushesOnce, TypeOK, JobsBelong, SingleFlight, BudgetInv, [Next]_vars
    PROVE  BudgetInv'
<1> USE DEF BudgetInv
<1>0. ASSUME UNCHANGED failures PROVE FailuresBounded'
  BY <1>0 DEF FailuresBounded
<1>1. ASSUME NEW r \in Requests, NEW p \in Payloads, NEW s \in Scorings, Score(r, p, s)
      PROVE  BudgetInv'
  <2>1. UNCHANGED <<failures, queue, cache, disk, work, get>>
    BY <1>1 DEF Score
  <2>2. NewIsUnfailed'
    BY <1>1 DEF Score, TypeOK, JobsCount, NewIsUnfailed
  <2>3. failures[s] = 0
    BY <1>1 DEF Score, JobsCount, NewIsUnfailed
  <2>4. HandedIsCounted'
    BY <1>1, <2>3 DEF Score, ApiIdle, Handing, HandedIsCounted, Counted
  <2>5. QED
    BY <1>0, <2>1, <2>2, <2>4, CountUntouched, SpentUntouched DEF JobsCount, RecordsSpent
<1>2. CASE Enqueue
  <2>1. api.job \in Jobs /\ Counted(api.job)
    BY <1>2, HandedTyping DEF Enqueue, JobsCount, HandedIsCounted
  <2>2. UNCHANGED <<origin, failures, cache, disk, work, get>>
    BY <1>2 DEF Enqueue
  <2>3. QueueIsCounted'
    BY <1>2, <2>1, <2>2, PushCounted DEF Enqueue
  <2>4. HandedIsCounted'
    BY <1>2 DEF Enqueue, HandedIsCounted, Handing
  <2>5. QED
    BY <1>0, <2>2, <2>3, <2>4, CountUntouched, SpentUntouched DEF JobsCount, RecordsSpent
<1>3. CASE RecordPending
  <2>1. UNCHANGED <<origin, failures, queue, disk, work, get>>
    BY <1>3 DEF RecordPending
  <2>2. HandedIsCounted'
    BY <1>3 DEF RecordPending, HandedIsCounted, ApiIdle, Handing
  <2>3. CacheIsSpent'
    BY <1>3, <2>1, OneStored DEF RecordPending, Spent
  <2>4. QED
    BY <1>0, <2>1, <2>2, <2>3, CountUntouched, SpentUntouched DEF JobsCount, RecordsSpent
<1>4. ASSUME NEW c \in Clients, NEW r \in Requests, ReadCache(c, r)
      PROVE  BudgetInv'
  <2>1. UNCHANGED <<origin, failures, api, queue, cache, disk>>
    BY <1>4 DEF ReadCache
  <2>2. HeldIsCounted'
    BY <1>4, <2>1, CountUntouched, ReturnsCounted DEF ReadCache, Asks, Servers
  <2>3. ReadIsSpent'
    BY <1>4, <2>1, OneRead, SpentUntouched DEF ReadCache, Reading
  <2>4. QED
    BY <1>0, <2>1, <2>2, <2>3, CountUntouched, SpentUntouched DEF JobsCount, RecordsSpent
<1>5. ASSUME NEW c \in Clients, ReadDisk(c)
      PROVE  BudgetInv'
  <2>1. UNCHANGED <<origin, failures, api, queue, cache, disk>>
    BY <1>5 DEF ReadDisk
  <2>2. c \in Workers => work[c].at = "check"
    BY <1>5 DEF ReadDisk, TypeOK
  <2>3. HeldIsCounted'
    BY <1>5, <2>1, <2>2, CountUntouched, ReturnsCounted DEF ReadDisk
  <2>4. Whole(disk[FilePath(get[c].req)]) => Spent(disk[FilePath(get[c].req)])
    <3>1. FilePath(get[c].req) \in FileIds
      BY <1>5, LookupTyping DEF ReadDisk
    <3>2. QED
      BY <3>1 DEF RecordsSpent, FileIsSpent
  <2>5. ReadIsSpent'
    BY <1>5, <2>1, <2>4, OneRead DEF ReadDisk, Reading, NoGet
  <2>6. QED
    BY <1>0, <2>1, <2>3, <2>5, CountUntouched, SpentUntouched DEF JobsCount, RecordsSpent
<1>6. ASSUME NEW c \in Clients, FillCache(c)
      PROVE  BudgetInv'
  <2>1. UNCHANGED <<origin, failures, api, queue, disk>>
    BY <1>6 DEF FillCache
  <2>2. c \in Workers => work[c].at = "check"
    BY <1>6 DEF FillCache, TypeOK
  <2>3. HeldIsCounted'
    BY <1>6, <2>1, <2>2, ReturnsCounted DEF FillCache
  <2>4. CacheIsSpent'
    BY <1>6, <2>1, OneStored DEF FillCache, RecordsSpent, ReadIsSpent
  <2>5. ReadIsSpent'
    BY <1>6, <2>1, OneRead DEF FillCache, NoGet, Reading
  <2>6. QED
    BY <1>0, <2>1, <2>3, <2>4, <2>5, CountUntouched, SpentUntouched DEF JobsCount, RecordsSpent
<1>7. ASSUME NEW w \in Workers, Dequeue(w)
      PROVE  BudgetInv'
  <2>1. UNCHANGED <<origin, failures, api, cache, disk, get>>
    BY <1>7 DEF Dequeue
  <2>2. /\ Len(Tail(queue)) = Len(queue) - 1
        /\ \A i \in 1..Len(Tail(queue)) : Tail(queue)[i] = queue[i + 1]
        /\ Head(queue) = queue[1] /\ 1 \in 1..Len(queue) /\ Len(queue) \in Nat
    BY <1>7, HeadTailProperties, EmptySeq, LenProperties DEF Dequeue, TypeOK
  <2>3. Counted(Head(queue))
    BY <2>2 DEF JobsCount, QueueIsCounted
  <2>4. QueueIsCounted'
    <3>1. \A i \in 1..Len(queue') : \E k \in 1..Len(queue) : queue'[i] = queue[k]
      BY <1>7, <2>2 DEF Dequeue
    <3>2. QED
      BY <2>1, <3>1 DEF JobsCount, QueueIsCounted, Counted
  <2>5. HeldIsCounted'
    <3> DEFINE v == Doing("check", Head(queue), None)
    <3>1. WorkIsCounted(v)
      BY <2>3 DEF WorkIsCounted, Doing
    <3>2. work' = [work EXCEPT ![w] = v] \/ UNCHANGED work
      BY <1>7 DEF Dequeue
    <3> HIDE DEF v
    <3>3. QED
      BY <2>1, <3>1, <3>2, OneCounted, CountUntouched
  <2>6. QED
    BY <1>0, <2>1, <2>4, <2>5, CountUntouched, SpentUntouched DEF JobsCount, RecordsSpent
<1>8. ASSUME NEW w \in Workers, Compute(w)
      PROVE  BudgetInv'
  <2>1. CASE /\ work' = [work EXCEPT ![w] = Doing("open", work[w].job, RecordOf(work[w].job, "READY"))]
             /\ UNCHANGED failures
    <3>1. UNCHANGED <<origin, api, queue, cache, disk, get>>
      BY <1>8 DEF Compute
    <3> DEFINE v == Doing("open", work[w].job, RecordOf(work[w].job, "READY"))
    <3>2. WorkIsCounted(v)
      BY DEF WorkIsCounted, Doing, RecordOf, Spent
    <3> HIDE DEF v
    <3>3. HeldIsCounted'
      BY <2>1, <3>2, OneCounted DEF v
    <3>4. QED
      BY <1>0, <2>1, <3>1, <3>3, CountUntouched, SpentUntouched DEF JobsCount, RecordsSpent
  <2>2. CASE /\ failures' = [failures EXCEPT ![work[w].job.snap] = @ + 1]
             /\ work' = [work EXCEPT ![w] = AfterFailure(work[w].job)]
    BY <1>8, <2>2, FailureCounted
  <2>3. QED
    BY <1>8, <2>1, <2>2 DEF Compute
<1>9. ASSUME NEW w \in Workers, Requeue(w)
      PROVE  BudgetInv'
  <2>1. UNCHANGED <<origin, failures, api, cache, disk, get>>
    BY <1>9 DEF Requeue
  <2>2. work[w].job \in Jobs /\ Counted(work[w].job)
    BY <1>9, HeldTyping DEF Requeue, JobsCount, HeldIsCounted, WorkIsCounted
  <2>3. QueueIsCounted' /\ HeldIsCounted'
    BY <1>9, <2>1, <2>2, PushCounted, PollingCounted DEF Requeue
  <2>4. QED
    BY <1>0, <2>1, <2>3, CountUntouched, SpentUntouched DEF JobsCount, RecordsSpent
<1>10. ASSUME NEW w \in Workers, OpenFile(w) \/ WriteFile(w)
       PROVE  BudgetInv'
  <2>1. UNCHANGED <<origin, failures, api, queue, cache, get>>
    BY <1>10 DEF OpenFile, WriteFile
  <2>2. Spent(work[w].rec) /\ work[w].rec = RecordOf(work[w].job, work[w].rec.status)
    BY <1>10 DEF OpenFile, WriteFile, JobsCount, HeldIsCounted, WorkIsCounted
  <2>3. PICK at \in {"write", "publish"} :
          work' = [work EXCEPT ![w] = Doing(at, work[w].job, work[w].rec)]
            \/ work' = [work EXCEPT ![w] = Polling]
    BY <1>10 DEF OpenFile, WriteFile
  <2>4. HeldIsCounted'
    <3> DEFINE v == Doing(at, work[w].job, work[w].rec)
    <3>1. WorkIsCounted(v)
      BY <2>2 DEF WorkIsCounted, Doing
    <3>2. work' = [work EXCEPT ![w] = v] \/ work' = [work EXCEPT ![w] = Polling]
      BY <2>3
    <3> HIDE DEF v
    <3>3. QED
      BY <2>1, <3>1, <3>2, OneCounted, PollingCounted
  <2>5. FileIsSpent'
    <3>1. PICK content \in {work[w].rec, Empty, Torn} :
            disk' = [disk EXCEPT ![FilePath(work[w].rec.req)] = content] \/ UNCHANGED disk
      BY <1>10 DEF OpenFile, WriteFile, Written
    <3>2. QED
      BY <2>1, <2>2, <3>1 DEF RecordsSpent, FileIsSpent, Whole, Spent, TypeOK
  <2>6. QED
    BY <1>0, <2>1, <2>4, <2>5, CountUntouched, SpentUntouched DEF JobsCount, RecordsSpent
<1>11. ASSUME NEW w \in Workers, Publish(w)
       PROVE  BudgetInv'
  <2>1. UNCHANGED <<origin, failures, api, queue, disk, get>>
    BY <1>11 DEF Publish
  <2>2. Spent(work[w].rec)
    BY <1>11 DEF Publish, JobsCount, HeldIsCounted, WorkIsCounted
  <2>3. CacheIsSpent'
    BY <1>11, <2>1, <2>2, OneStored DEF Publish
  <2>4. HeldIsCounted'
    BY <1>11, <2>1, PollingCounted DEF Publish
  <2>5. QED
    BY <1>0, <2>1, <2>3, <2>4, CountUntouched, SpentUntouched DEF JobsCount, RecordsSpent
<1>12. ASSUME NEW w \in Workers, Crash(w)
       PROVE  BudgetInv'
  <2>1. UNCHANGED <<origin, failures, api, queue, cache, disk>>
    BY <1>12 DEF Crash
  <2>2. HeldIsCounted'
    BY <1>12, <2>1, PollingCounted DEF Crash
  <2>3. ReadIsSpent'
    BY <1>12, <2>1, OneRead, Values DEF Crash, NoGet, Reading
  <2>4. QED
    BY <1>0, <2>1, <2>2, <2>3, CountUntouched, SpentUntouched DEF JobsCount, RecordsSpent
<1>13. CASE (\E r \in Requests : Expire(r)) \/ UNCHANGED vars
  <2>1. UNCHANGED <<origin, failures, api, queue, disk, work, get>>
    BY <1>13 DEF Expire, vars
  <2>2. CacheIsSpent'
    BY <1>13 DEF Expire, vars, RecordsSpent, CacheIsSpent, Spent, TypeOK
  <2>3. QED
    BY <1>0, <2>1, <2>2, CountUntouched, SpentUntouched DEF JobsCount, RecordsSpent
<1>14. CASE Flush
  <2>1. UNCHANGED <<origin, failures, api, disk, work, get>>
    BY <1>14 DEF Flush
  <2>2. CacheIsSpent' /\ QueueIsCounted'
    BY <1>14, EmptySeq DEF Flush, CacheIsSpent, QueueIsCounted
  <2>3. QED
    BY <1>0, <2>1, <2>2, CountUntouched, SpentUntouched DEF JobsCount, RecordsSpent
<1>15. CASE RestartApi
  <2>1. UNCHANGED <<origin, failures, queue, cache, disk, work>>
    BY <1>15 DEF RestartApi
  <2>2. HandedIsCounted'
    BY <1>15 DEF RestartApi, HandedIsCounted, ApiIdle, Handing
  <2>3. ReadIsSpent'
    BY <1>15, <2>1, OneRead, Values DEF RestartApi, NoGet, Reading
  <2>4. QED
    BY <1>0, <2>1, <2>2, <2>3, CountUntouched, SpentUntouched DEF JobsCount, RecordsSpent
<1>16. QED
  BY <1>1, <1>2, <1>3, <1>4, <1>5, <1>6, <1>7, <1>8, <1>9, <1>10, <1>11, <1>12, <1>13,
     <1>14, <1>15, Values DEF Next, ApiStep, LookupStep, WorkerStep

\* The invariant of the budget.
LEMMA BudgetInvariant == ASSUME PushesOnce PROVE SafeSpec => []BudgetInv
<1>1. Init => BudgetInv
  BY EmptySeq, Values DEF Init, BudgetInv, JobsCount, NewIsUnfailed, HandedIsCounted, QueueIsCounted,
     HeldIsCounted, WorkIsCounted, RecordsSpent, CacheIsSpent, FileIsSpent, ReadIsSpent,
     FailuresBounded, Whole, ApiIdle, Handing, Polling, Doing, NoGet, Reading
<1>2. TypeOK /\ JobsBelong /\ SingleFlight /\ BudgetInv /\ [Next]_vars => BudgetInv'
  BY BudgetStep
<1>3. SafeSpec => []SingleFlight
  BY SingleFlightHolds
<1>4. QED
  BY <1>1, <1>2, <1>3, Typing, JobsInvariant, PTL DEF SafeSpec

\* When the Redis client repeats no push, no job fails more often than its budget
\* allows and a FAILED record is stored only when the budget is used up.
THEOREM RetryBudgetHolds == ASSUME PushesOnce PROVE SafeSpec => []RetryBudget
<1>1. BudgetInv => RetryBudget
  BY DEF BudgetInv, RecordsSpent, CacheIsSpent, FileIsSpent, FailuresBounded, RetryBudget, Spent
<1>2. SafeSpec => []BudgetInv
  BY BudgetInvariant
<1>3. QED
  BY <1>1, <1>2, PTL

------------------------------------------------------------------------------
(* The pipeline implements ExplanationJobs.                                *)

\* A job in the hands of a process is of a scoring that was answered, once.
LEMMA InOnePlace ==
    ASSUME TypeOK, JobsBelong, SingleFlight, NEW s \in Scorings
    PROVE  /\ HandedOver(s) => Phase(s) = "handed"
           /\ Queued(s) => Phase(s) = "queued"
           /\ (\E w \in Workers : HeldBy(w, s)) => Phase(s) = "running"
<1>1. \A job \in Jobs : OwnJob(job) /\ job.snap = s => origin[s] # None
  BY DEF OwnJob, Jobs
<1>2. HandedOver(s) => origin[s] # None
  BY <1>1, HandedTyping DEF HandedOver, JobsBelong, HandedIsOwn
<1>3. Queued(s) => origin[s] # None
  BY <1>1, LenProperties DEF Queued, JobsBelong, QueueIsOwn, TypeOK
<1>4. (\E w \in Workers : HeldBy(w, s)) => origin[s] # None
  BY <1>1, HeldTyping DEF HeldBy, JobsBelong, HeldIsOwn
<1>5. QED
  BY <1>2, <1>3, <1>4 DEF SingleFlight, Phase

\* The phase of one scoring changes.
LEMMA OnePhase ==
    ASSUME NEW s \in Scorings, NEW p, Phase(s)' = p,
           \A x \in Scorings \ {s} : Phase(x)' = Phase(x)
    PROVE  [x \in Scorings |-> Phase(x)]' = [[x \in Scorings |-> Phase(x)] EXCEPT ![s] = p]
  OBVIOUS

\* No phase changes.
LEMMA NoPhase ==
    ASSUME \A x \in Scorings : Phase(x)' = Phase(x)
    PROVE  [x \in Scorings |-> Phase(x)]' = [x \in Scorings |-> Phase(x)]
  OBVIOUS

\* A scoring that a move leaves alone keeps its phase.
LEMMA SamePhase ==
    ASSUME NEW x \in Scorings, origin'[x] = origin[x],
           HandedOver(x)' <=> HandedOver(x), Queued(x)' <=> Queued(x),
           (\E w \in Workers : HeldBy(w, x)') <=> (\E w \in Workers : HeldBy(w, x))
    PROVE  Phase(x)' = Phase(x)
  BY DEF Phase

\* How the moves of jobs map to the steps of ExplanationJobs.
LEMMA MovesPromise ==
    ASSUME TypeOK, JobsBelong, SingleFlight, Carries, UNCHANGED <<origin, failures>>
    PROVE  [Promise!Next]_Promise!vars
<1> USE DEF Promise!vars
<1>1. CASE Stays
  <2>1. \A x \in Scorings : Phase(x)' = Phase(x)
    BY <1>1, SamePhase DEF Stays, SameHanded, SameQueued, SameHeld
  <2>2. QED
    BY <2>1, NoPhase
<1>2. CASE Loses
  <2>1. CASE \E s \in Scorings : HandedOver(s)
    <3>1. PICK s \in Scorings : HandedOver(s)
      BY <2>1
    <3>2. Phase(s) = "handed" /\ Phase(s)' = "over"
      BY <1>2, <3>1, InOnePlace DEF Loses, NoneHanded, SameQueued, SameHeld, SingleFlight, Phase
    <3>3. \A x \in Scorings \ {s} : ~HandedOver(x)
      BY <3>1 DEF HandedOver
    <3>4. \A x \in Scorings \ {s} : Phase(x)' = Phase(x)
      BY <1>2, <3>3, SamePhase DEF Loses, NoneHanded, SameQueued, SameHeld
    <3>5. Promise!Post(s)
      BY <3>2, <3>4, OnePhase DEF Promise!Post, Promise!Move
    <3>6. QED
      BY <3>5 DEF Promise!Next, Promise!Advance
  <2>2. CASE ~\E s \in Scorings : HandedOver(s)
    <3>1. \A x \in Scorings : Phase(x)' = Phase(x)
      BY <1>2, <2>2, SamePhase DEF Loses, NoneHanded, SameQueued, SameHeld
    <3>2. QED
      BY <3>1, NoPhase
  <2>3. QED
    BY <2>1, <2>2
<1>3. CASE Flushes
  <2>1. \A x \in Scorings : Phase(x)' = IF Phase(x) = "queued" THEN "over" ELSE Phase(x)
    <3> TAKE x \in Scorings
    <3>1. CASE Queued(x)
      <4>1. Phase(x) = "queued" /\ origin[x] # None /\ ~HandedOver(x)
            /\ ~\E w \in Workers : HeldBy(w, x)
        BY <3>1, InOnePlace DEF SingleFlight, Phase
      <4>2. QED
        BY <1>3, <4>1 DEF Flushes, SameHanded, SameHeld, Phase
    <3>2. CASE ~Queued(x)
      <4>1. Phase(x)' = Phase(x)
        BY <1>3, <3>2, SamePhase DEF Flushes, SameHanded, SameHeld
      <4>2. Phase(x) # "queued"
        BY <3>2 DEF Phase
      <4>3. QED
        BY <4>1, <4>2
    <3>3. QED
      BY <3>1, <3>2
  <2>2. Promise!LoseQueue
    BY <2>1 DEF Promise!LoseQueue
  <2>3. QED
    BY <2>2 DEF Promise!Next
<1>4. ASSUME NEW w \in Workers, Drops(w)
      PROVE  [Promise!Next]_Promise!vars
  <2>1. CASE work[w].at = "poll"
    <3>1. \A x \in Scorings : Phase(x)' = Phase(x)
      BY <1>4, <2>1, SamePhase DEF Drops, SameHanded, SameQueued, Dropped, HeldBy
    <3>2. QED
      BY <3>1, NoPhase
  <2>2. CASE work[w].at # "poll"
    <3>1. PICK s \in Scorings : HeldBy(w, s)
      BY <2>2, HeldTyping DEF HeldBy
    <3>2. Phase(s) = "running" /\ origin[s] # None /\ ~HandedOver(s) /\ ~Queued(s)
          /\ \A v \in Workers \ {w} : ~HeldBy(v, s)
      BY <3>1, InOnePlace DEF SingleFlight, Phase
    <3>3. Phase(s)' = "over"
      BY <1>4, <3>2 DEF Drops, SameHanded, SameQueued, Dropped, Phase
    <3>4. \A x \in Scorings \ {s} : ~HeldBy(w, x)
      BY <3>1 DEF HeldBy
    <3>5. \A x \in Scorings \ {s} : Phase(x)' = Phase(x)
      BY <1>4, <3>4, SamePhase DEF Drops, SameHanded, SameQueued, Dropped
    <3>6. Promise!Finish(s)
      BY <3>2, <3>3, <3>5, OnePhase DEF Promise!Finish, Promise!Move
    <3>7. QED
      BY <3>6 DEF Promise!Next, Promise!Advance
  <2>3. QED
    BY <2>1, <2>2
<1>5. ASSUME NEW s \in Scorings, Posts(s)
      PROVE  [Promise!Next]_Promise!vars
  <2>1. Phase(s) = "handed" /\ origin[s] # None /\ \A x \in Scorings \ {s} : ~HandedOver(x)
    BY <1>5, InOnePlace DEF Posts, HandedOver, Phase
  <2>2. Phase(s)' = "queued"
    BY <1>5, <2>1 DEF Posts, NoneHanded, Phase
  <2>3. \A x \in Scorings \ {s} : Phase(x)' = Phase(x)
    BY <1>5, <2>1, SamePhase DEF Posts, NoneHanded, SameHeld
  <2>4. Promise!Post(s)
    BY <2>1, <2>2, <2>3, OnePhase DEF Promise!Post, Promise!Move
  <2>5. QED
    BY <2>4 DEF Promise!Next, Promise!Advance
<1>6. ASSUME NEW w \in Workers, NEW s \in Scorings, Takes(w, s)
      PROVE  [Promise!Next]_Promise!vars
  <2>1. /\ Phase(s) = "queued" /\ origin[s] # None /\ ~HandedOver(s)
        /\ \A v \in Workers : ~HeldBy(v, s)
    BY <1>6, InOnePlace DEF Takes, SingleFlight, Phase
  <2>2. Phase(s)' \in {"running", "over"}
    BY <1>6, <2>1 DEF Takes, SameHanded, Phase
  <2>3. \A x \in Scorings \ {s} : Phase(x)' = Phase(x)
    BY <1>6, SamePhase DEF Takes, SameHanded, SameHeld
  <2>4. Promise!Take(s)
    BY <2>1, <2>2, <2>3, OnePhase DEF Promise!Take, Promise!Move
  <2>5. QED
    BY <2>4 DEF Promise!Next, Promise!Advance
<1>7. QED
  BY <1>1, <1>2, <1>3, <1>4, <1>5, <1>6 DEF Carries

\* The job of a new scoring is nowhere yet.
LEMMA NewIsNowhere ==
    ASSUME TypeOK, JobsBelong, NEW s \in Scorings, origin[s] = None
    PROVE  ~Queued(s) /\ \A w \in Workers : ~HeldBy(w, s)
<1>1. \A job \in Jobs : OwnJob(job) => job.snap # s
  BY DEF OwnJob, Jobs
<1>2. ~Queued(s)
  BY <1>1, LenProperties DEF Queued, JobsBelong, QueueIsOwn, TypeOK
<1>3. \A w \in Workers : ~HeldBy(w, s)
  BY <1>1, HeldTyping DEF HeldBy, JobsBelong, HeldIsOwn
<1>4. QED
  BY <1>2, <1>3

\* A scoring accepts its job, or ends it where it starts.
LEMMA ScoreAccepts ==
    ASSUME TypeOK, JobsBelong, NEW r \in Requests, NEW p \in Payloads, NEW s \in Scorings,
           Score(r, p, s), Accepts(s)
    PROVE  Promise!Accept(s)
<1>1. /\ origin[s] = None /\ origin'[s] # None /\ UNCHANGED failures
      /\ \A x \in Scorings \ {s} : origin'[x] = origin[x]
  BY DEF Score, TypeOK
<1>2. Phase(s) = "new"
  BY <1>1 DEF Phase
<1>3. Phase(s)' \in {"handed", "over"}
  <2>1. ~Queued(s)' /\ \A w \in Workers : ~HeldBy(w, s)'
    BY <1>1, NewIsNowhere DEF Accepts, SameQueued, SameHeld
  <2>2. QED
    BY <1>1, <2>1 DEF Phase
<1>4. \A x \in Scorings \ {s} : Phase(x)' = Phase(x)
  BY <1>1, SamePhase DEF Accepts, SameQueued, SameHeld
<1>5. QED
  BY <1>1, <1>2, <1>3, <1>4, OnePhase DEF Promise!Accept, Promise!Move

\* A failed computation stays inside the budget, and its job stays where it is.
LEMMA ComputeFails ==
    ASSUME TypeOK, JobsBelong, SingleFlight, JobsCount, NEW w \in Workers, Compute(w), Stays
    PROVE  UNCHANGED Promise!vars \/ \E s \in Scorings : Promise!Fail(s)
<1>1. UNCHANGED origin
  BY DEF Compute
<1>2. \A x \in Scorings : Phase(x)' = Phase(x)
  BY <1>1, SamePhase DEF Stays, SameHanded, SameQueued, SameHeld
<1>3. [x \in Scorings |-> Phase(x)]' = [x \in Scorings |-> Phase(x)]
  BY <1>2, NoPhase
<1>4. CASE UNCHANGED failures
  BY <1>3, <1>4 DEF Promise!vars
<1>5. CASE failures' = [failures EXCEPT ![work[w].job.snap] = @ + 1]
  <2>1. PICK s \in Scorings : s = work[w].job.snap
    BY HeldTyping DEF Compute
  <2>2. Phase(s) = "running"
    BY <2>1, InOnePlace DEF Compute, HeldBy
  <2>3. failures[s] = work[w].job.retries /\ work[w].job.retries \in 0..MaxRetries
    BY <2>1, HeldTyping DEF Compute, JobsCount, HeldIsCounted, WorkIsCounted, Counted, Jobs
  <2>4. Promise!Fail(s)
    BY <1>3, <1>5, <2>1, <2>2, <2>3 DEF Promise!Fail
  <2>5. QED
    BY <2>4
<1>6. QED
  BY <1>4, <1>5 DEF Compute

\* A requeued job has failed, and may still be retried.
LEMMA RequeueRetries ==
    ASSUME TypeOK, JobsBelong, SingleFlight, JobsCount, NEW w \in Workers, NEW s \in Scorings,
           Requeue(w), s = work[w].job.snap, Retries(w, s)
    PROVE  Promise!Retry(s)
<1>1. UNCHANGED <<origin, failures>>
  BY DEF Requeue
<1>2. /\ Phase(s) = "running" /\ origin[s] # None /\ ~HandedOver(s)
      /\ \A v \in Workers \ {w} : ~HeldBy(v, s)
  BY InOnePlace DEF Retries, SingleFlight, Phase
<1>3. Phase(s)' = "queued"
  BY <1>1, <1>2 DEF Retries, SameHanded, Phase
<1>4. \A x \in Scorings \ {s} : ~HeldBy(w, x)
  BY DEF Retries, HeldBy
<1>5. \A x \in Scorings \ {s} : Phase(x)' = Phase(x)
  BY <1>1, <1>4, SamePhase DEF Retries, SameHanded, Dropped
<1>6. failures[s] \in 1..MaxRetries
  BY HeldTyping DEF Requeue, JobsCount, HeldIsCounted, WorkIsCounted, Counted, Jobs
<1>7. QED
  BY <1>1, <1>2, <1>3, <1>5, <1>6, OnePhase DEF Promise!Retry, Promise!Move

\* When the Redis client repeats no push, every step of the pipeline is a step of
\* ExplanationJobs or changes nothing of it: a scoring hands its job over at most
\* once, no job comes back once it is over, and retries are bounded.
THEOREM KeepsPromiseSafety == ASSUME PushesOnce PROVE SafeSpec => Promise!SafeSpec
<1>1. Init => Promise!Init
  BY DEF Init, Promise!Init, Phase
<1>2. TypeOK /\ JobsBelong /\ SingleFlight /\ BudgetInv /\ [Next]_vars => [Promise!Next]_Promise!vars
  <2> SUFFICES ASSUME TypeOK, JobsBelong, SingleFlight, BudgetInv, [Next]_vars
               PROVE  [Promise!Next]_Promise!vars
    OBVIOUS
  <2>1. Moves
    BY StepMoves DEF SingleFlight
  <2>2. CASE Carries /\ UNCHANGED <<origin, failures>>
    BY <2>2, MovesPromise
  <2>3. ASSUME NEW r \in Requests, NEW p \in Payloads, NEW s \in Scorings,
               Score(r, p, s), Accepts(s)
        PROVE  [Promise!Next]_Promise!vars
    BY <2>3, ScoreAccepts DEF Promise!Next
  <2>4. ASSUME NEW w \in Workers, Compute(w), Stays
        PROVE  [Promise!Next]_Promise!vars
    BY <2>4, ComputeFails DEF BudgetInv, Promise!Next, Promise!Advance
  <2>5. ASSUME NEW w \in Workers, Requeue(w), Retries(w, work[w].job.snap)
        PROVE  [Promise!Next]_Promise!vars
    <3>1. work[w].job.snap \in Scorings
      BY <2>5, HeldTyping DEF Requeue
    <3>2. Promise!Retry(work[w].job.snap)
      BY <2>5, <3>1, RequeueRetries DEF BudgetInv
    <3>3. QED
      BY <3>1, <3>2 DEF Promise!Next, Promise!Advance
  <2>6. QED
    BY <2>1, <2>2, <2>3, <2>4, <2>5 DEF Moves
<1>3. SafeSpec => []BudgetInv
  BY BudgetInvariant
<1>4. SafeSpec => []SingleFlight
  BY SingleFlightHolds
<1>5. QED
  BY <1>1, <1>2, <1>3, <1>4, Typing, JobsInvariant, PTL DEF SafeSpec, Promise!SafeSpec
------------------------------------------------------------------------------
(* What the cache shows is on disk.  While one scoring uses a file, it is  *)
(* written by the one worker that holds the job, and is not whole before   *)
(* that.                                                                   *)

FileOf(s) == disk[FilePath(origin[s])]

Shares(r, s) == FilePath(r) = FilePath(origin[s])

CacheShows(s) == \A r \in Requests :
                   Shares(r, s) /\ cache[r] # Absent /\ cache[r].status # "PENDING"
                     => FileOf(s) = cache[r]
ReadShows(s) == \A c \in Clients :
                  get[c].at = "fill" /\ Shares(get[c].req, s) => FileOf(s) = get[c].rec
HolderShows(v, s) ==
    v.at # "poll" /\ v.job.snap = s =>
      /\ v.at = "publish" => FileOf(s) = v.rec
      /\ v.at = "write" => FileOf(s) = Empty
      /\ v.at # "publish" => ~Whole(FileOf(s))
HeldShows(s) == \A w \in Workers : HolderShows(work[w], s)
WaitShows(s) == HandedOver(s) \/ Queued(s) => ~Whole(FileOf(s))

FileIsShown(s) == CacheShows(s) /\ ReadShows(s) /\ HeldShows(s) /\ WaitShows(s)

DurableInv == \A s \in Scorings : Sole(s) => FileIsShown(s)

\* The invariants the argument builds on.
Known == TypeOK /\ JobsBelong /\ RecordsBelong /\ SingleFlight /\ JobsCount

\* Records are whole, the markers of files are not.
LEMMA RecordsAreWhole ==
    /\ \A rec \in Records : Whole(rec) /\ rec # Absent
    /\ ~Whole(Absent) /\ ~Whole(Empty) /\ ~Whole(Torn)
  BY DEF Whole

\* Only the worker that holds the job of s writes its file.
LEMMA OneDraft ==
    ASSUME Known, NEW s \in Scorings, Sole(s), NEW w \in Workers,
           work[w].at \in {"open", "write", "publish"},
           FilePath(work[w].rec.req) = FilePath(origin[s])
    PROVE  HeldBy(w, s) /\ work[w].rec.req = origin[s]
<1>1. work[w].at # "poll" /\ work[w].rec \in Finals /\ work[w].rec.req \in Requests
      /\ work[w].rec.snap \in Scorings
  BY HeldTyping DEF Known, Finals
<1>2. work[w].rec.snap # None /\ origin[work[w].rec.snap] = work[w].rec.req
  BY <1>1, Values DEF Known, RecordsBelong, DraftIsOwn, IsHonest
<1>3. work[w].rec.req # None
  BY <1>1, Values
<1>4. work[w].rec.snap = s
  BY <1>1, <1>2, <1>3 DEF Sole
<1>5. work[w].rec = RecordOf(work[w].job, work[w].rec.status)
  BY DEF Known, JobsCount, HeldIsCounted, WorkIsCounted
<1>6. QED
  BY <1>1, <1>2, <1>4, <1>5 DEF HeldBy, RecordOf

\* What a step may do to the requests of a file that it leaves alone.
CacheKeeps(s) == \A r \in Requests : Shares(r, s) =>
                   \/ cache'[r] \in {cache[r], Absent, FileOf(s)}
                   \/ cache'[r].status = "PENDING"
ReadKeeps(s) == \A c \in Clients : get'[c] = get[c] \/ get'[c].at # "fill"
                                  \/ get'[c].rec = disk[FilePath(get'[c].req)]
HeldKeeps(s) == \A w \in Workers : HolderShows(work'[w], s)

\* Such a step keeps what is shown.
LEMMA ShownKept ==
    ASSUME Known, NEW s \in Scorings, FileIsShown(s), Moves,
           UNCHANGED origin, FileOf(s)' = FileOf(s), CacheKeeps(s), ReadKeeps(s), HeldKeeps(s)
    PROVE  FileIsShown(s)'
<1>0. \A r : Shares(r, s)' <=> Shares(r, s)
  BY DEF Shares, FilePath
<1>1. CacheShows(s)'
  BY <1>0 DEF CacheKeeps, FileIsShown, CacheShows
<1>2. ReadShows(s)'
  <2>1. \A c \in Clients : Shares(get'[c].req, s) =>
          disk[FilePath(get'[c].req)] = FileOf(s)
    BY DEF Shares, FileOf
  <2>2. QED
    BY <1>0, <2>1 DEF ReadKeeps, FileIsShown, ReadShows
<1>3. HeldShows(s)'
  BY DEF HeldKeeps, HeldShows, HolderShows
<1>4. WaitShows(s)'
  <2>1. CASE Carries
    BY <2>1 DEF FileIsShown, WaitShows, Carries, Stays, Loses, Flushes, Drops, Posts, Takes,
       SameHanded, NoneHanded, SameQueued
  <2>2. ASSUME NEW r \in Requests, NEW p \in Payloads, NEW t \in Scorings, Score(r, p, t)
        PROVE  FALSE
    BY <2>2 DEF Known, Score, TypeOK
  <2>3. CASE Stays
    BY <2>3 DEF FileIsShown, WaitShows, Stays, SameHanded, SameQueued
  <2>4. ASSUME NEW w \in Workers, Requeue(w), Retries(w, work[w].job.snap)
        PROVE  WaitShows(s)'
    <3>1. HeldBy(w, s) => ~Whole(FileOf(s))
      BY <2>4 DEF Requeue, FileIsShown, HeldShows, HolderShows, HeldBy
    <3>2. QED
      BY <2>4, <3>1 DEF FileIsShown, WaitShows, Retries, SameHanded, HeldBy
  <2>5. QED
    BY <2>1, <2>2, <2>3, <2>4 DEF Moves
<1>5. QED
  BY <1>1, <1>2, <1>3, <1>4 DEF FileIsShown

\* The worker that writes the file of s changes it under nobody's eyes.
LEMMA ShownWritten ==
    ASSUME Known, NEW s \in Scorings, FileIsShown(s), NEW w \in Workers, HeldBy(w, s),
           ~Whole(FileOf(s)), UNCHANGED <<origin, api, queue, cache, get>>, NEW v,
           work' = [work EXCEPT ![w] = v],
           \/ v.at = "write" /\ FileOf(s)' = Empty
           \/ v.at = "publish" /\ FileOf(s)' = v.rec
           \/ v.at = "poll",
           origin[s] \in Requests
    PROVE  FileIsShown(s)'
<1>0. \A r : Shares(r, s)' <=> Shares(r, s)
  BY DEF Shares, FilePath
<1>1. CacheShows(s)'
  <2>1. \A r \in Requests : cache[r] \in Records \cup {Absent}
    BY DEF Known, TypeOK
  <2>2. \A r \in Requests : Shares(r, s) => cache[r] = Absent \/ cache[r].status = "PENDING"
    BY <2>1, RecordsAreWhole DEF FileIsShown, CacheShows
  <2>3. QED
    BY <1>0, <2>2 DEF CacheShows
<1>2. ReadShows(s)'
  <2>1. ASSUME NEW c \in Clients, get[c].at = "fill", Shares(get[c].req, s)
        PROVE  FALSE
    <3>1. get[c].rec \in Records /\ FileOf(s) = get[c].rec
      BY <2>1, LookupTyping, Values DEF Known, FileIsShown, ReadShows
    <3>2. QED
      BY <3>1, RecordsAreWhole
  <2>2. QED
    BY <1>0, <2>1 DEF ReadShows
<1>3. HeldShows(s)'
  <2>1. \A u \in Workers \ {w} : work'[u] = work[u] /\ ~HeldBy(u, s)
    BY DEF Known, TypeOK, SingleFlight
  <2>2. work'[w] = v
    BY DEF Known, TypeOK
  <2>3. v.at = "write" => ~Whole(FileOf(s))'
    BY RecordsAreWhole DEF Whole
  <2>4. ASSUME NEW u \in Workers
        PROVE  HolderShows(work[u], s)'
    BY <2>1, <2>2, <2>3 DEF HolderShows, HeldBy
  <2>5. QED
    BY <2>4 DEF HeldShows
<1>4. WaitShows(s)'
  <2>1. ~HandedOver(s) /\ ~Queued(s)
    BY DEF Known, SingleFlight
  <2>2. QED
    BY <2>1 DEF WaitShows, HandedOver, Queued
<1>5. QED
  BY <1>1, <1>2, <1>3, <1>4 DEF FileIsShown

\* Nobody shows anything of a file before the first scoring that uses it.
LEMMA ShownFirst ==
    ASSUME Known, NEW s \in Scorings, NEW r \in Requests, origin[s] = None,
           \A t \in Scorings : origin[t] # None => FilePath(origin[t]) # FilePath(r),
           origin' = [origin EXCEPT ![s] = r], UNCHANGED <<queue, cache, disk, work, get>>
    PROVE  FileIsShown(s)'
<1>1. origin'[s] = r /\ FilePath(r) \in FileIds /\ \A q : Shares(q, s)' <=> SafeId[q] = SafeId[r]
  BY PipelineAssumption DEF Known, TypeOK, Shares, FilePath
<1>2. \A rec \in Finals : IsHonest(rec) => SafeId[rec.req] # SafeId[r]
  BY Values DEF IsHonest, Finals, FilePath
<1>3. CacheShows(s)'
  <2>1. \A q \in Requests : cache[q] \in Records \cup {Absent} /\ (cache[q] # Absent => BelongsTo(cache[q], q))
    BY DEF Known, TypeOK, RecordsBelong, CacheIsOwn
  <2>2. \A q \in Requests : SafeId[q] = SafeId[r] => cache[q] = Absent \/ cache[q].status = "PENDING"
    BY <1>2, <2>1 DEF Records, Stubs, BelongsTo
  <2>3. QED
    BY <1>1, <2>2 DEF CacheShows
<1>4. ReadShows(s)'
  <2>1. \A c \in Clients : get[c].at = "fill" =>
          get[c].rec \in Finals /\ BelongsTo(get[c].rec, get[c].req)
    BY LookupTyping DEF Known, RecordsBelong, ServesSameFile
  <2>2. \A c \in Clients : get[c].at = "fill" => SafeId[get[c].req] # SafeId[r]
    BY <1>2, <2>1 DEF BelongsTo
  <2>3. QED
    BY <1>1, <2>2 DEF ReadShows
<1>5. ~Whole(disk[FilePath(r)])
  <2>1. SUFFICES ASSUME Whole(disk[FilePath(r)]) PROVE FALSE
    OBVIOUS
  <2>2. disk[FilePath(r)] \in Finals
    BY <1>1, <2>1 DEF Known, TypeOK, Whole
  <2>3. FilePath(disk[FilePath(r)].req) = FilePath(r) /\ IsHonest(disk[FilePath(r)])
    BY <1>1, <2>1 DEF Known, RecordsBelong, FileIsOwn
  <2>4. QED
    BY <1>2, <2>2, <2>3 DEF FilePath
<1>6. ~Whole(FileOf(s))'
  BY <1>1, <1>5 DEF FileOf, FilePath, Whole
<1>7. \A w \in Workers : ~HeldBy(w, s)
  BY NewIsNowhere DEF Known
<1>8. HeldShows(s)'
  BY <1>7 DEF HeldShows, HolderShows, HeldBy
<1>9. WaitShows(s)'
  BY <1>6 DEF WaitShows
<1>10. QED
  BY <1>3, <1>4, <1>8, <1>9 DEF FileIsShown

\* A returning lookup leaves its worker with a file that is not there yet.
LEMMA ShownReturns ==
    ASSUME Known, NEW s \in Scorings, FileIsShown(s), NEW c \in Clients, NEW rec,
           Returns(c, rec), c \in Workers => work[c].at = "check"
    PROVE  HeldKeeps(s)
<1> USE DEF HeldKeeps
<1>1. \A w \in Workers : HolderShows(work[w], s)
  BY DEF FileIsShown, HeldShows
<1>2. CASE c \in Workers
  <2>1. PICK v : /\ work' = [work EXCEPT ![c] = v]
                 /\ v = Polling \/ v = Doing("compute", work[c].job, None)
    BY <1>2 DEF Returns
  <2>2. HolderShows(v, s)
    BY <1>1, <1>2, <2>1 DEF HolderShows, Polling, Doing
  <2>3. QED
    BY <1>1, <2>1, <2>2 DEF Known, TypeOK
<1>3. CASE c \notin Workers
  BY <1>1, <1>3 DEF Returns
<1>4. QED
  BY <1>2, <1>3

\* One worker moves on.
LEMMA ShownWork ==
    ASSUME Known, NEW s \in Scorings, FileIsShown(s), NEW w \in Workers, NEW v,
           work' = [work EXCEPT ![w] = v], HolderShows(v, s)
    PROVE  HeldKeeps(s)
  BY DEF HeldKeeps, FileIsShown, HeldShows, Known, TypeOK

\* Every step keeps what is shown of a file that one scoring uses.
LEMMA DurableStep ==
    ASSUME PushesOnce, Known, DurableInv, [Next]_vars
    PROVE  DurableInv'
<1> SUFFICES ASSUME NEW s \in Scorings, Sole(s)'
             PROVE  FileIsShown(s)'
  BY DEF DurableInv
<1>0. Moves
  BY StepMoves DEF Known, SingleFlight
<1>1. ASSUME NEW r \in Requests, NEW p \in Payloads, NEW t \in Scorings, Score(r, p, t)
      PROVE  FileIsShown(s)'
  <2>1. /\ origin' = [origin EXCEPT ![t] = r] /\ origin[t] = None
        /\ UNCHANGED <<queue, cache, disk, work, get>>
        /\ \A x \in Scorings : HandedOver(x)' => x = t
        /\ origin'[t] = r /\ \A x \in Scorings \ {t} : origin'[x] = origin[x]
    BY <1>1 DEF Score, HandedOver, ApiIdle, Handing, Known, TypeOK
  <2>2. CASE t = s
    <3>1. \A x \in Scorings : origin[x] # None => FilePath(origin[x]) # FilePath(r)
      BY <2>1, <2>2 DEF Sole, FilePath
    <3>2. QED
      BY <2>1, <2>2, <3>1, ShownFirst
  <2>3. CASE t # s
    <3>1. Sole(s) /\ origin'[s] = origin[s] /\ (\A q : Shares(q, s)' <=> Shares(q, s))
      BY <2>1, <2>3 DEF Sole, Shares, FilePath
    <3>2. FileIsShown(s)
      BY <3>1 DEF DurableInv
    <3>3. QED
      BY <2>1, <2>3, <3>1, <3>2 DEF FileIsShown, CacheShows, ReadShows, HeldShows, HolderShows,
         WaitShows, FileOf, FilePath, Queued
  <2>4. QED
    BY <2>2, <2>3
<1>2. ASSUME UNCHANGED origin
      PROVE  /\ Sole(s) /\ FileIsShown(s) /\ origin[s] \in Requests
             /\ FilePath(origin[s]) \in FileIds
             /\ UNCHANGED disk => FileOf(s)' = FileOf(s)
             /\ UNCHANGED cache => CacheKeeps(s)
             /\ UNCHANGED get => ReadKeeps(s)
             /\ UNCHANGED work => HeldKeeps(s)
  <2>1. Sole(s) /\ FileIsShown(s)
    BY <1>2 DEF Sole, FilePath, DurableInv
  <2>2. QED
    BY <1>2, <2>1 DEF Sole, Known, TypeOK, FilePath, FileOf, FileIsShown, HeldShows, CacheKeeps,
       ReadKeeps, HeldKeeps
<1>3. CASE Enqueue \/ UNCHANGED vars
  BY <1>0, <1>2, <1>3, ShownKept DEF Enqueue, vars
<1>4. CASE RecordPending
  BY <1>0, <1>2, <1>4, ShownKept DEF CacheKeeps, RecordPending, SetCache, Known, TypeOK
<1>5. ASSUME NEW c \in Clients, NEW r \in Requests, ReadCache(c, r)
      PROVE  FileIsShown(s)'
  <2>1. UNCHANGED <<origin, cache, disk>> /\ (c \in Workers => work[c].at = "check")
    BY <1>5 DEF ReadCache, Asks, Servers
  <2>2. HeldKeeps(s)
    BY <1>2, <1>5, <2>1, ShownReturns DEF ReadCache
  <2>3. ReadKeeps(s)
    BY <1>5 DEF ReadKeeps, ReadCache, Reading, Known, TypeOK
  <2>4. QED
    BY <1>0, <1>2, <2>1, <2>2, <2>3, ShownKept
<1>6. ASSUME NEW c \in Clients, ReadDisk(c)
      PROVE  FileIsShown(s)'
  <2>1. UNCHANGED <<origin, cache, disk>> /\ (c \in Workers => work[c].at = "check")
    BY <1>6 DEF ReadDisk, Known, TypeOK
  <2>2. HeldKeeps(s)
    BY <1>2, <1>6, <2>1, ShownReturns DEF ReadDisk
  <2>3. ReadKeeps(s)
    BY <1>6 DEF ReadKeeps, ReadDisk, Reading, NoGet, Known, TypeOK
  <2>4. QED
    BY <1>0, <1>2, <2>1, <2>2, <2>3, ShownKept
<1>7. ASSUME NEW c \in Clients, FillCache(c)
      PROVE  FileIsShown(s)'
  <2>1. UNCHANGED <<origin, disk>> /\ (c \in Workers => work[c].at = "check")
    BY <1>7 DEF FillCache, Known, TypeOK
  <2>2. HeldKeeps(s)
    BY <1>2, <1>7, <2>1, ShownReturns DEF FillCache
  <2>3. ReadKeeps(s)
    BY <1>7 DEF ReadKeeps, FillCache, Reading, NoGet, Known, TypeOK
  <2>4. CacheKeeps(s)
    <3>1. Shares(get[c].req, s) => FileOf(s) = get[c].rec
      BY <1>2, <1>7, <2>1 DEF FillCache, FileIsShown, ReadShows
    <3>2. QED
      BY <1>2, <1>7, <2>1, <3>1 DEF CacheKeeps, FillCache, SetCache, Known, TypeOK
  <2>5. QED
    BY <1>0, <1>2, <2>1, <2>2, <2>3, <2>4, ShownKept
<1>8. ASSUME NEW w \in Workers, Dequeue(w)
      PROVE  FileIsShown(s)'
  <2>1. UNCHANGED <<origin, cache, disk, get>>
    BY <1>8 DEF Dequeue
  <2>2. PICK job : job = Head(queue)
    OBVIOUS
  <2>3. job.snap = s => Queued(s)
    BY <1>8, <2>2, PopPlaces DEF Dequeue, Known, SingleFlight
  <2>4. HolderShows(Doing("check", job, None), s)
    BY <1>2, <2>1, <2>3 DEF HolderShows, Doing, FileIsShown, WaitShows
  <2>5. HeldKeeps(s)
    BY <1>2, <1>8, <2>1, <2>2, <2>4, ShownWork DEF Dequeue
  <2>6. QED
    BY <1>0, <1>2, <2>1, <2>5, ShownKept
<1>9. ASSUME NEW w \in Workers, Compute(w)
      PROVE  FileIsShown(s)'
  <2>1. UNCHANGED <<origin, cache, disk, get>>
    BY <1>9 DEF Compute
  <2>2. PICK v : /\ work' = [work EXCEPT ![w] = v] /\ v.at \in {"open", "requeue"}
                 /\ v.job.snap = work[w].job.snap
    BY <1>9 DEF Compute, AfterFailure, Doing
  <2>3. HolderShows(v, s)
    BY <1>2, <1>9, <2>1, <2>2 DEF Compute, HolderShows, FileIsShown, HeldShows
  <2>4. HeldKeeps(s)
    BY <1>2, <2>1, <2>2, <2>3, ShownWork
  <2>5. QED
    BY <1>0, <1>2, <2>1, <2>4, ShownKept
<1>10. HolderShows(Polling, s)
  BY DEF HolderShows, Polling, Doing
<1>11. ASSUME NEW w \in Workers, OpenFile(w) \/ WriteFile(w)
       PROVE  FileIsShown(s)'
  <2>1. UNCHANGED <<origin, api, queue, cache, get>>
    BY <1>11 DEF OpenFile, WriteFile
  <2>2. work[w].at \in {"open", "write"}
    BY <1>11 DEF OpenFile, WriteFile
  <2>3. CASE FilePath(work[w].rec.req) # FilePath(origin[s])
    <3>1. FileOf(s)' = FileOf(s)
      BY <1>2, <1>11, <2>1, <2>3 DEF OpenFile, WriteFile, FileOf, Known, TypeOK, FilePath
    <3>2. PICK v : /\ work' = [work EXCEPT ![w] = v] /\ v.at \in {"write", "publish", "poll"}
                   /\ v.at # "poll" => v.job = work[w].job
      BY <1>11 DEF OpenFile, WriteFile, Polling, Doing
    <3>3. ~HeldBy(w, s)
      <4>1. work[w].rec = RecordOf(work[w].job, work[w].rec.status) /\ OwnJob(work[w].job)
        BY <2>2 DEF Known, JobsCount, HeldIsCounted, WorkIsCounted, JobsBelong, HeldIsOwn
      <4>2. QED
        BY <2>3, <4>1 DEF HeldBy, RecordOf, OwnJob
    <3>4. HolderShows(v, s)
      BY <2>2, <3>2, <3>3 DEF HolderShows, HeldBy
    <3>5. HeldKeeps(s)
      BY <1>2, <2>1, <3>2, <3>4, ShownWork
    <3>6. QED
      BY <1>0, <1>2, <2>1, <3>1, <3>5, ShownKept
  <2>4. CASE FilePath(work[w].rec.req) = FilePath(origin[s])
    <3>1. HeldBy(w, s)
      BY <1>2, <2>1, <2>2, <2>4, OneDraft
    <3>2. /\ ~Whole(FileOf(s)) /\ (work[w].at = "write" => FileOf(s) = Empty)
      BY <1>2, <2>1, <2>2, <3>1 DEF FileIsShown, HeldShows, HolderShows, HeldBy
    <3>3. CASE UNCHANGED disk /\ work' = [work EXCEPT ![w] = Polling]
      BY <1>0, <1>2, <1>10, <2>1, <3>3, ShownKept, ShownWork
    <3>4. CASE WriteFile(w) /\ disk' = [disk EXCEPT ![FilePath(work[w].rec.req)] = Torn]
                            /\ work' = [work EXCEPT ![w] = Polling]
      <4>1. FileOf(s)' = Torn
        BY <1>2, <2>1, <2>4, <3>4 DEF FileOf, Known, TypeOK, FilePath
      <4>2. QED
        BY <1>2, <2>1, <3>1, <3>2, <3>4, ShownWritten DEF Polling, Doing
    <3>5. CASE OpenFile(w) /\ disk' = [disk EXCEPT ![FilePath(work[w].rec.req)] = Empty]
                           /\ work' = [work EXCEPT ![w] = Doing("write", work[w].job, work[w].rec)]
      <4>1. FileOf(s)' = Empty
        BY <1>2, <2>1, <2>4, <3>5 DEF FileOf, Known, TypeOK, FilePath
      <4>2. PICK v : v = Doing("write", work[w].job, work[w].rec)
        OBVIOUS
      <4>3. v.at = "write"
        BY <4>2 DEF Doing
      <4>4. QED
        BY <1>2, <2>1, <3>1, <3>2, <3>5, <4>1, <4>2, <4>3, ShownWritten
    <3>6. CASE /\ WriteFile(w)
               /\ \E content \in Written(w, FilePath(work[w].rec.req)) :
                    disk' = [disk EXCEPT ![FilePath(work[w].rec.req)] = content]
               /\ work' = [work EXCEPT ![w] = Doing("publish", work[w].job, work[w].rec)]
      <4>1. \A u \in Workers \ {w} : ~HasOpen(u, FilePath(work[w].rec.req))
        <5>1. \A u \in Workers \ {w} : ~HeldBy(u, s)
          BY <3>1 DEF Known, SingleFlight
        <5>2. QED
          BY <1>2, <2>1, <2>4, <5>1, OneDraft DEF HasOpen
      <4>2. disk' = [disk EXCEPT ![FilePath(work[w].rec.req)] = work[w].rec]
        BY <2>4, <3>2, <3>6, <4>1 DEF Written, WriteFile, FileOf
      <4>3. FileOf(s)' = work[w].rec
        BY <1>2, <2>1, <2>4, <4>2 DEF FileOf, Known, TypeOK, FilePath
      <4>4. PICK v : v = Doing("publish", work[w].job, work[w].rec)
        OBVIOUS
      <4>5. v.at = "publish" /\ v.rec = work[w].rec
        BY <4>4 DEF Doing
      <4>6. QED
        BY <1>2, <2>1, <3>1, <3>2, <3>6, <4>3, <4>4, <4>5, ShownWritten
    <3>7. QED
      BY <1>11, <3>3, <3>4, <3>5, <3>6 DEF OpenFile, WriteFile
  <2>5. QED
    BY <2>3, <2>4
<1>12. ASSUME NEW w \in Workers, Requeue(w) \/ Crash(w)
       PROVE  FileIsShown(s)'
  <2>1. UNCHANGED <<origin, cache, disk>> /\ work' = [work EXCEPT ![w] = Polling]
    BY <1>12 DEF Requeue, Crash
  <2>2. ReadKeeps(s)
    BY <1>12 DEF ReadKeeps, Requeue, Crash, NoGet, Reading, Known, TypeOK
  <2>3. QED
    BY <1>0, <1>2, <1>10, <2>1, <2>2, ShownKept, ShownWork
<1>13. ASSUME NEW w \in Workers, Publish(w)
       PROVE  FileIsShown(s)'
  <2>1. UNCHANGED <<origin, disk, get>> /\ work' = [work EXCEPT ![w] = Polling]
    BY <1>13 DEF Publish
  <2>2. Shares(work[w].rec.req, s) => FileOf(s) = work[w].rec
    BY <1>2, <1>13, <2>1, OneDraft DEF Publish, FileIsShown, HeldShows, HolderShows, HeldBy, Shares
  <2>3. CacheKeeps(s)
    BY <1>2, <1>13, <2>1, <2>2 DEF CacheKeeps, Publish, SetCache, Known, TypeOK
  <2>4. QED
    BY <1>0, <1>2, <1>10, <2>1, <2>3, ShownKept, ShownWork
<1>14. ASSUME NEW r \in Requests, Expire(r)
       PROVE  FileIsShown(s)'
  BY <1>0, <1>2, <1>14, ShownKept DEF CacheKeeps, Expire, Known, TypeOK
<1>15. CASE Flush
  BY <1>0, <1>2, <1>15, ShownKept DEF CacheKeeps, Flush
<1>16. CASE RestartApi
  <2>1. ReadKeeps(s)
    BY <1>16 DEF ReadKeeps, RestartApi, NoGet, Reading, Known, TypeOK
  <2>2. QED
    BY <1>0, <1>2, <1>16, <2>1, ShownKept DEF RestartApi
<1>17. QED
  BY <1>1, <1>3, <1>4, <1>5, <1>6, <1>7, <1>8, <1>9, <1>11, <1>12, <1>13, <1>14, <1>15, <1>16,
     Values DEF Next, ApiStep, LookupStep, WorkerStep

\* As long as one scoring uses a file, a finished record in the cache under any request
\* of that file is what it holds, whatever fails (for a Redis client that repeats no push).
THEOREM CachedIsDurableHolds ==
    ASSUME PushesOnce
    PROVE  SafeSpec => []CachedIsDurable
<1>1. Init => DurableInv
  BY DEF Init, DurableInv, Sole
<1>2. Known /\ DurableInv /\ [Next]_vars => DurableInv'
  BY DurableStep
<1>3. SafeSpec => []Known
  <2>1. SafeSpec => []RecordsBelong
    BY RecordsInvariant
  <2>2. SafeSpec => []SingleFlight
    BY SingleFlightHolds
  <2>3. SafeSpec => []BudgetInv
    BY BudgetInvariant
  <2>4. BudgetInv => JobsCount
    BY DEF BudgetInv
  <2>5. QED
    BY <2>1, <2>2, <2>3, <2>4, Typing, JobsInvariant, PTL DEF Known
<1>4. DurableInv => CachedIsDurable
  BY DEF DurableInv, FileIsShown, CacheShows, Shares, FileOf, CachedIsDurable
<1>5. QED
  BY <1>1, <1>2, <1>3, <1>4, PTL DEF SafeSpec
==============================================================================
