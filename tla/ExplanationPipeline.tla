------------------------- MODULE ExplanationPipeline -------------------------
(***************************************************************************)
(* The explanation pipeline: the scoring API, the Redis queue of           *)
(* explanation jobs, the SHAP workers, and the two-layer ExplanationStore  *)
(* (Redis cache over JSON files) with its readers.                         *)
(*                                                                         *)
(* A scoring is one cache-missing run of POST /score: it takes a snapshot  *)
(* of the features and hands one job to the queue.  Feature vectors,       *)
(* scores and attributions are abstracted to the identity of the scoring   *)
(* they come from, so an explanation record is the request it names, the   *)
(* scoring it explains and its status.  A grain of atomicity is one Redis  *)
(* command, one file operation, or one piece of process-local computation. *)
(***************************************************************************)
EXTENDS Naturals, Sequences

LOCAL INSTANCE FiniteSetsExt

CONSTANTS Requests,     \* return request ids
          Payloads,     \* payload fingerprints (hash_dict_or_str)
          Scorings,     \* scoring events; bounds the number of scorings
          Workers,      \* SHAP worker processes
          Api,          \* the scoring API process (one uvicorn worker)
          Readers,      \* other processes that read explanations (the BFF)
          FileIds,      \* names of files under data/explanations
          SafeId,       \* the file-name sanitiser, a function on Requests
          Unjobbable,   \* requests whose features do not fit ExplanationJob
          MaxRetries,   \* ShapWorker.max_retries
          FaultKinds,   \* the kinds of fault the environment may inject
          MaxFaults,    \* bound on the number of injected faults
          None, Absent, Empty, Torn

Kinds == {"redis", "duplicate", "flush", "disk", "compute", "crash", "restart"}

ASSUME PipelineAssumption ==
    /\ SafeId \in [Requests -> FileIds]
    /\ Unjobbable \subseteq Requests
    /\ MaxRetries \in Nat
    /\ MaxFaults \in Nat
    /\ FaultKinds \subseteq Kinds
    /\ None \notin Scorings /\ None \notin Requests

Servers == {Api} \cup Readers
Clients == Servers \cup Workers

Jobs == [req : Requests, snap : Scorings, retries : 0..MaxRetries]
Finals == [req : Requests, snap : Scorings, status : {"READY", "FAILED"}]
Stubs == [req : Requests, snap : {None}, status : {"PENDING"}]
Records == Finals \cup Stubs

ASSUME DistinctAssumption ==
    /\ Api \notin Readers /\ Servers \cap Workers = {}
    /\ None \notin Jobs /\ None \notin Records
    /\ {Absent, Empty, Torn} \cap Records = {}
    /\ Absent # Empty /\ Absent # Torn /\ Empty # Torn

VARIABLES
    origin,     \* scoring -> the request it scored (history of issued responses)
    failures,   \* scoring -> failed computations of its job (history)
    idem,       \* the API's in-memory idempotency cache
    api,        \* the score handler between its two explanation calls
    queue,      \* risk:queue:explanations
    cache,      \* risk:explanation:<request>, per request
    disk,       \* the explanation files
    work,       \* what each worker is doing
    get,        \* get_explanation calls past their Redis lookup
    faults      \* injected faults so far

vars == <<origin, failures, idem, api, queue, cache, disk, work, get, faults>>

Handing(at, job)    == [at |-> at, job |-> job]
Doing(at, job, rec) == [at |-> at, job |-> job, rec |-> rec]
Reading(at, r, rec) == [at |-> at, req |-> r, rec |-> rec]

ApiIdle == Handing("idle", None)
Polling == Doing("poll", None, None)
NoGet   == Reading("none", None, None)

\* The states of a process, with the fields that are in use in each step.
ApiStates ==
    {a \in [at : {"idle", "enqueue", "pending"}, job : Jobs \cup {None}] :
       a.at = "idle" <=> a.job = None}
WorkStates ==
    {v \in [at : {"poll", "check", "compute", "requeue", "open", "write", "publish"},
            job : Jobs \cup {None}, rec : Finals \cup {None}] :
       /\ v.at = "poll" <=> v.job = None
       /\ v.at \in {"open", "write", "publish"} <=> v.rec # None}
GetStates ==
    {g \in [at : {"none", "disk", "fill"}, req : Requests \cup {None}, rec : Finals \cup {None}] :
       /\ g.at = "none" <=> g.req = None
       /\ g.at = "fill" <=> g.rec # None}

TypeOK ==
    /\ origin \in [Scorings -> Requests \cup {None}]
    /\ failures \in [Scorings -> Nat]
    /\ idem \in [Requests \X Payloads -> Scorings \cup {None}]
    /\ api \in ApiStates
    /\ queue \in Seq(Jobs)
    /\ cache \in [Requests -> Records \cup {Absent}]
    /\ disk \in [FileIds -> Finals \cup {Absent, Empty, Torn}]
    /\ work \in [Workers -> WorkStates]
    /\ get \in [Clients -> GetStates]
    /\ \A w \in Workers : get[w].at # "none" => work[w].at = "check"
    /\ faults \in 0..MaxFaults

Init ==
    /\ origin = [s \in Scorings |-> None]
    /\ failures = [s \in Scorings |-> 0]
    /\ idem = [k \in Requests \X Payloads |-> None]
    /\ api = ApiIdle
    /\ queue = <<>>
    /\ cache = [r \in Requests |-> Absent]
    /\ disk = [f \in FileIds |-> Absent]
    /\ work = [w \in Workers |-> Polling]
    /\ get = [c \in Clients |-> NoGet]
    /\ faults = 0

Fault(kind) == /\ kind \in FaultKinds
               /\ faults < MaxFaults
               /\ faults' = faults + 1

NoFault == UNCHANGED faults

------------------------------------------------------------------------------
(* The scoring API: score_return and init-time state.                      *)

\* A cache-missing POST /score up to the point where the job is built.  The
\* handler has no await, so the idempotency lookup, the scoring and the store
\* into the idempotency cache are one step of the process.  A hit returns the
\* stored response and a failed scoring answers 500; neither changes anything.
\* When the features do not fit ExplanationJob the except clause ends the call.
Score(r, p, s) ==
    /\ api.at = "idle" /\ get[Api].at = "none"
    /\ idem[<<r, p>>] = None
    /\ origin[s] = None
    /\ origin' = [origin EXCEPT ![s] = r]
    /\ idem' = [idem EXCEPT ![<<r, p>>] = s]
    /\ api' = IF r \in Unjobbable
              THEN ApiIdle
              ELSE Handing("enqueue", [req |-> r, snap |-> s, retries |-> 0])
    /\ NoFault
    /\ UNCHANGED <<failures, queue, cache, disk, work, get>>

\* RPUSH: applied; not applied; or applied twice, when the client library
\* repeats a push whose reply was lost.  enqueue() turns errors into False.
Push(job) ==
    \/ queue' = Append(queue, job) /\ NoFault
    \/ queue' = queue /\ Fault("redis")
    \/ queue' = Append(Append(queue, job), job) /\ Fault("duplicate")

\* SET with a TTL; set_json() turns errors into False and no caller looks.
SetCache(r, rec) ==
    \/ cache' = [cache EXCEPT ![r] = rec] /\ NoFault
    \/ cache' = cache /\ Fault("redis")

\* The handler pushes the job and ignores the result ...
Enqueue ==
    /\ api.at = "enqueue"
    /\ Push(api.job)
    /\ api' = Handing("pending", api.job)
    /\ UNCHANGED <<origin, failures, idem, cache, disk, work, get>>

\* ... and then overwrites whatever the cache holds with the PENDING stub.
RecordPending ==
    /\ api.at = "pending"
    /\ SetCache(api.job.req, [req |-> api.job.req, snap |-> None, status |-> "PENDING"])
    /\ api' = ApiIdle
    /\ UNCHANGED <<origin, failures, idem, queue, disk, work, get>>

------------------------------------------------------------------------------
(* ExplanationStore.get_explanation, run by the two HTTP services and by   *)
(* the worker's idempotency check.                                         *)

\* Mutant: names that do not depend on the request.
FilePathShared(r) == CHOOSE f \in FileIds : TRUE

FilePath(r) == SafeId[r]

Whole(file) == file \notin {Absent, Empty, Torn}

IsReady(rec) == rec # Absent /\ rec.status = "READY"

\* Client c calls get_explanation(r).
Asks(c, r) ==
    /\ get[c].at = "none"
    /\ \/ c \in Readers
       \/ c = Api /\ api.at = "idle"
       \/ c \in Workers /\ work[c].at = "check" /\ work[c].job.req = r

\* get_explanation returns rec (Absent for None).  A server answers; a worker
\* drops its job when the record is READY and computes otherwise.
Returns(c, rec) ==
    IF c \in Workers
    THEN work' = [work EXCEPT ![c] = IF IsReady(rec) THEN Polling
                                     ELSE Doing("compute", work[c].job, None)]
    ELSE UNCHANGED work

\* The Redis lookup; get_json() turns an error into a miss.
ReadCache(c, r) ==
    /\ Asks(c, r)
    /\ \/ /\ cache[r] # Absent
          /\ Returns(c, cache[r])
          /\ NoFault
          /\ UNCHANGED get
       \/ /\ IF cache[r] = Absent THEN NoFault ELSE Fault("redis")
          /\ get' = [get EXCEPT ![c] = Reading("disk", r, None)]
          /\ UNCHANGED work
    /\ UNCHANGED <<origin, failures, idem, api, queue, cache, disk>>

\* The disk fallback: no file, a file that is not whole and an unreadable file
\* all end the call with None.
ReadDisk(c) ==
    LET file == disk[FilePath(get[c].req)] IN
    /\ get[c].at = "disk"
    /\ \/ /\ Whole(file)
          /\ get' = [get EXCEPT ![c] = Reading("fill", get[c].req, file)]
          /\ NoFault
          /\ UNCHANGED work
       \/ /\ IF Whole(file) THEN Fault("disk") ELSE NoFault
          /\ get' = [get EXCEPT ![c] = NoGet]
          /\ Returns(c, Absent)
    /\ UNCHANGED <<origin, failures, idem, api, queue, cache, disk>>

\* The record read from disk goes back to the cache under the requested id.
FillCache(c) ==
    /\ get[c].at = "fill"
    /\ SetCache(get[c].req, get[c].rec)
    /\ get' = [get EXCEPT ![c] = NoGet]
    /\ Returns(c, get[c].rec)
    /\ UNCHANGED <<origin, failures, idem, api, queue, disk>>

------------------------------------------------------------------------------
(* ShapWorker: one iteration of run() is process_next(), cut at each call  *)
(* that another process can observe.                                       *)

RecordOf(job, status) == [req |-> job.req, snap |-> job.snap, status |-> status]

\* Mutant: the worker reads the head of the queue and leaves it there.
DequeuePeeks(w) ==
    /\ work[w].at = "poll"
    /\ queue # <<>>
    /\ work' = [work EXCEPT ![w] = Doing("check", Head(queue), None)]
    /\ NoFault
    /\ UNCHANGED <<origin, failures, idem, api, queue, cache, disk, get>>

\* LPOP: the job is the worker's, or its reply is lost together with the job.
Dequeue(w) ==
    /\ work[w].at = "poll"
    /\ queue # <<>>
    /\ queue' = Tail(queue)
    /\ \/ /\ work' = [work EXCEPT ![w] = Doing("check", Head(queue), None)]
          /\ NoFault
       \/ UNCHANGED work /\ Fault("redis")
    /\ UNCHANGED <<origin, failures, idem, api, cache, disk, get>>

\* Mutants: one retry too many; one too few; none.
RetriesOnceMore(job) ==
    IF job.retries <= MaxRetries
    THEN Doing("requeue", [req |-> job.req, snap |-> job.snap, retries |-> job.retries + 1], None)
    ELSE Doing("open", job, RecordOf(job, "FAILED"))
RetriesOnceLess(job) ==
    IF job.retries + 1 < MaxRetries
    THEN Doing("requeue", [req |-> job.req, snap |-> job.snap, retries |-> job.retries + 1], None)
    ELSE Doing("open", job, RecordOf(job, "FAILED"))
GivesUp(job) == Doing("open", job, RecordOf(job, "FAILED"))

\* The handler of a failed computation: one more retry, or a FAILED record.
AfterFailure(job) ==
    IF job.retries < MaxRetries
    THEN Doing("requeue", [req |-> job.req, snap |-> job.snap, retries |-> job.retries + 1], None)
    ELSE Doing("open", job, RecordOf(job, "FAILED"))

\* TreeSHAP, grouping and reason codes succeed, or something in them raises.
Compute(w) ==
    LET job == work[w].job IN
    /\ work[w].at = "compute"
    /\ \/ /\ work' = [work EXCEPT ![w] = Doing("open", job, RecordOf(job, "READY"))]
          /\ NoFault
          /\ UNCHANGED failures
       \/ /\ Fault("compute")
          /\ failures' = [failures EXCEPT ![job.snap] = @ + 1]
          /\ work' = [work EXCEPT ![w] = AfterFailure(job)]
    /\ UNCHANGED <<origin, idem, api, queue, cache, disk, get>>

Requeue(w) ==
    /\ work[w].at = "requeue"
    /\ Push(work[w].job)
    /\ work' = [work EXCEPT ![w] = Polling]
    /\ UNCHANGED <<origin, failures, idem, api, cache, disk, get>>

\* Mutant: a file that cannot be opened does not keep the record from the cache.
OpenFileOrCache(w) ==
    /\ work[w].at = "open"
    /\ \/ /\ disk' = [disk EXCEPT ![FilePath(work[w].rec.req)] = Empty]
          /\ work' = [work EXCEPT ![w] = Doing("write", work[w].job, work[w].rec)]
          /\ NoFault
       \/ /\ work' = [work EXCEPT ![w] = Doing("publish", work[w].job, work[w].rec)]
          /\ Fault("disk")
          /\ UNCHANGED disk
    /\ UNCHANGED <<origin, failures, idem, api, queue, cache, get>>

\* save_explanation, step 1: open(..., "w") truncates the file.  An OSError
\* makes it return False, which process_job ignores.
OpenFile(w) ==
    /\ work[w].at = "open"
    /\ \/ /\ disk' = [disk EXCEPT ![FilePath(work[w].rec.req)] = Empty]
          /\ work' = [work EXCEPT ![w] = Doing("write", work[w].job, work[w].rec)]
          /\ NoFault
       \/ /\ work' = [work EXCEPT ![w] = Polling]
          /\ Fault("disk")
          /\ UNCHANGED disk
    /\ UNCHANGED <<origin, failures, idem, api, queue, cache, get>>

HasOpen(w, f) == work[w].at = "write" /\ FilePath(work[w].rec.req) = f

\* What the file holds after w has written and closed it.  Writers do not lock
\* it: when another one shares it, the bytes of the two may be mixed.
Written(w, f) ==
    IF disk[f] = Empty /\ \A v \in Workers \ {w} : ~HasOpen(v, f)
    THEN {work[w].rec}
    ELSE {work[w].rec, Torn}

\* save_explanation, step 2: json.dump and close, or an OSError part way.
WriteFile(w) ==
    LET f == FilePath(work[w].rec.req) IN
    /\ work[w].at = "write"
    /\ \/ /\ \E content \in Written(w, f) : disk' = [disk EXCEPT ![f] = content]
          /\ work' = [work EXCEPT ![w] = Doing("publish", work[w].job, work[w].rec)]
          /\ NoFault
       \/ /\ disk' = [disk EXCEPT ![f] = Torn]
          /\ work' = [work EXCEPT ![w] = Polling]
          /\ Fault("disk")
    /\ UNCHANGED <<origin, failures, idem, api, queue, cache, get>>

\* save_explanation, step 3: the record goes to the cache.
Publish(w) ==
    /\ work[w].at = "publish"
    /\ SetCache(work[w].rec.req, work[w].rec)
    /\ work' = [work EXCEPT ![w] = Polling]
    /\ UNCHANGED <<origin, failures, idem, api, queue, disk, get>>

------------------------------------------------------------------------------
(* The environment.                                                        *)

\* A Redis key outlives its TTL.
Expire(r) ==
    /\ cache[r] # Absent
    /\ cache' = [cache EXCEPT ![r] = Absent]
    /\ NoFault
    /\ UNCHANGED <<origin, failures, idem, api, queue, disk, work, get>>

\* Redis comes back without its data.
Flush ==
    /\ Fault("flush")
    /\ queue' = <<>>
    /\ cache' = [r \in Requests |-> Absent]
    /\ UNCHANGED <<origin, failures, idem, api, disk, work, get>>

\* Mutant: the job of a worker that dies is put back.
CrashRequeues(w) ==
    /\ work[w].at # "poll"
    /\ Fault("crash")
    /\ queue' = Append(queue, work[w].job)
    /\ work' = [work EXCEPT ![w] = Polling]
    /\ get' = [get EXCEPT ![w] = NoGet]
    /\ UNCHANGED <<origin, failures, idem, api, cache, disk>>

\* A worker process dies in the middle of a job and is restarted.
Crash(w) ==
    /\ work[w].at # "poll"
    /\ Fault("crash")
    /\ work' = [work EXCEPT ![w] = Polling]
    /\ get' = [get EXCEPT ![w] = NoGet]
    /\ UNCHANGED <<origin, failures, idem, api, queue, cache, disk>>

\* The scoring API process is restarted: its memory is gone.
RestartApi ==
    /\ Fault("restart")
    /\ idem' = [k \in Requests \X Payloads |-> None]
    /\ api' = ApiIdle
    /\ get' = [get EXCEPT ![Api] = NoGet]
    /\ UNCHANGED <<origin, failures, queue, cache, disk, work>>

------------------------------------------------------------------------------
ApiStep == Enqueue \/ RecordPending

LookupStep(c) == ReadDisk(c) \/ FillCache(c)

WorkerStep(w) ==
    \/ Dequeue(w) \/ Compute(w) \/ Requeue(w)
    \/ OpenFile(w) \/ WriteFile(w) \/ Publish(w)
    \/ LookupStep(w)
    \/ \E r \in Requests : ReadCache(w, r)

Next ==
    \/ \E r \in Requests, p \in Payloads, s \in Scorings : Score(r, p, s)
    \/ ApiStep
    \/ \E c \in Servers : LookupStep(c) \/ \E r \in Requests : ReadCache(c, r)
    \/ \E w \in Workers : WorkerStep(w) \/ Crash(w)
    \/ \E r \in Requests : Expire(r)
    \/ Flush
    \/ RestartApi

SafeSpec == Init /\ [][Next]_vars

\* Requests and lookups may stop coming, but a handler that has started runs
\* on, the worker loop runs for ever (run(), "restart: unless-stopped"), and
\* Redis expires what is not rewritten.
Fairness ==
    /\ WF_vars(ApiStep)
    /\ \A c \in Servers : WF_vars(LookupStep(c))
    /\ \A w \in Workers : WF_vars(WorkerStep(w))
    /\ \A r \in Requests : WF_vars(Expire(r))

Spec == SafeSpec /\ Fairness
------------------------------------------------------------------------------
(* Properties.                                                             *)

\* The scorings whose job is in the API's hands, in the queue, in a worker's.
HandedOver(s) == api.at = "enqueue" /\ api.job.snap = s
Queued(s) == \E i \in 1..Len(queue) : queue[i].snap = s
HeldBy(w, s) == work[w].at # "poll" /\ work[w].job.snap = s

QueuedOnce == \A i, j \in 1..Len(queue) : queue[i].snap = queue[j].snap => i = j

\* The job of a scoring is in one place at a time: in the API's hands before the
\* push, at one position of the queue, or with one worker.  Pops, requeues,
\* crashes and restarts never duplicate it (as long as the Redis client does
\* not repeat a push), so no explanation is computed twice for one scoring.
SingleFlight ==
    /\ \A s \in Scorings : HandedOver(s) =>
         ~Queued(s) /\ \A w \in Workers : ~HeldBy(w, s)
    /\ \A s \in Scorings, w \in Workers : HeldBy(w, s) =>
         ~Queued(s) /\ \A v \in Workers \ {w} : ~HeldBy(v, s)
    /\ QueuedOnce

\* A finished record names the request that its scoring answered.
IsHonest(rec) == rec.snap # None => origin[rec.snap] = rec.req

\* rec may be found under r: the sanitiser gives the two ids one file name.
BelongsTo(rec, r) == IsHonest(rec) /\ SafeId[rec.req] = SafeId[r]

ServesSameFile == \A c \in Clients : get[c].at = "fill" => BelongsTo(get[c].rec, get[c].req)

\* get_explanation hands out what it finds and does not look whom it names, and two
\* ids may have one file name (store.py).  What holds of it: whatever the cache, a file
\* or a lookup holds under a request id is the explanation of a scoring of the request
\* it names, and that request differs from the one asked for at most in characters
\* that the sanitiser drops; a stub is always one's own.  All this through crashes,
\* torn and mixed writes of a shared file, repeated pushes and stale refills.
Provenance ==
    /\ \A r \in Requests : cache[r] # Absent =>
         /\ BelongsTo(cache[r], r)
         /\ cache[r].status = "PENDING" => cache[r].req = r
    /\ \A r \in Requests : Whole(disk[FilePath(r)]) => BelongsTo(disk[FilePath(r)], r)
    /\ ServesSameFile

\* A FAILED record is only ever stored for a scoring whose job failed MaxRetries
\* + 1 times, and no job fails more often: the retry counter survives the trip
\* through the queue and other workers.
RetryBudget ==
    LET spent(rec) == rec.status = "FAILED" => failures[rec.snap] = MaxRetries + 1
    IN /\ \A s \in Scorings : failures[s] <= MaxRetries + 1
       /\ \A r \in Requests : cache[r] # Absent => spent(cache[r])
       /\ \A f \in FileIds : Whole(disk[f]) => spent(disk[f])

\* s is the only scoring so far that may write the file of its request.
Sole(s) ==
    /\ origin[s] # None
    /\ \A t \in Scorings \ {s} : origin[t] # None => FilePath(origin[t]) # FilePath(origin[s])

\* As long as one scoring uses a file, a finished record in the cache is backed by
\* an identical file: a cache eviction never loses or changes an explanation that was
\* once visible, whatever failed before.  For every request that shares the file.
CachedIsDurable ==
    \A s \in Scorings, r \in Requests :
        Sole(s) /\ FilePath(r) = FilePath(origin[s])
          /\ cache[r] # Absent /\ cache[r].status # "PENDING" => disk[FilePath(r)] = cache[r]

\* What GET /explanation answers for r: the status of the record it returns.
Visible(r) ==
    IF cache[r] # Absent THEN cache[r].status
    ELSE IF Whole(disk[FilePath(r)]) THEN disk[FilePath(r)].status
    ELSE "NOT_FOUND"

\* Some scoring of r has been answered.
Answered(r) == \E s \in Scorings : origin[s] = r /\ (api.at # "idle" => api.job.snap # s)

\* So far nothing failed but computations that were retried, and no two workers
\* had the same file open.
OnlyTransient ==
    /\ faults = MapThenSumSet(LAMBDA s : failures[s], Scorings)
    /\ \A s \in Scorings : failures[s] <= MaxRetries
    /\ \A f \in FileIds, v, w \in Workers : HasOpen(v, f) /\ HasOpen(w, f) => v = w

\* As long as failures are transient, every scored request that has a job ends up
\* with a READY explanation that stays visible, whatever the order of pushes,
\* stubs, expiries, refills and second scorings.
EventuallyReady ==
    []OnlyTransient =>
        \A r \in Requests \ Unjobbable : Answered(r) ~> [](Visible(r) = "READY")

(* The next one states what the repository says of the program; a run       *)
(* refutes it.                                                              *)

\* GET /explanation says 'PENDING' while the worker is computing "and 'READY'
\* with all attributions and reason codes once completed" (src/inference/api.py).
ReadyIsFinal ==
    [][\A r \in Requests : Visible(r) = "READY" => Visible(r)' = "READY"]_vars

------------------------------------------------------------------------------
(* Refinement of ExplanationJobs.                                          *)

\* Where the job of a scoring is.
Phase(s) ==
    IF origin[s] = None THEN "new"
    ELSE IF HandedOver(s) THEN "handed"
    ELSE IF Queued(s) THEN "queued"
    ELSE IF \E w \in Workers : HeldBy(w, s) THEN "running"
    ELSE "over"

Promise == INSTANCE ExplanationJobs
             WITH phase <- [s \in Scorings |-> Phase(s)], tries <- failures

\* The pipeline keeps the promise of ExplanationJobs: at most one hand-over per
\* scoring, no job comes back once it is over, retries are bounded, and every
\* job that was handed over is eventually over.
KeepsPromise == Promise!Spec
==============================================================================
