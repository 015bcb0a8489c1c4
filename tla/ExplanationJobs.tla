--------------------------- MODULE ExplanationJobs ---------------------------
(***************************************************************************)
(* What the asynchronous explanation pipeline promises about each scoring  *)
(* of a return request, with the queue, the cache, the disk and the        *)
(* processes hidden: the explanation job of a scoring is handed over at    *)
(* most once, is in one place at a time, is attempted a bounded number of  *)
(* times, is never picked up again once it is over, and is eventually      *)
(* over.  "over" does not mean that an explanation was stored: delivery is *)
(* at most once and every hand-over may lose the job.                      *)
(***************************************************************************)
EXTENDS Naturals

CONSTANTS Scorings,     \* the scoring events
          MaxRetries    \* ShapWorker.max_retries

VARIABLES phase,        \* where the job of each scoring is
          tries         \* how many computations of it have failed

vars == <<phase, tries>>

Phases == {"new", "handed", "queued", "running", "over"}

TypeOK == /\ phase \in [Scorings -> Phases]
          /\ tries \in [Scorings -> 0..(MaxRetries + 1)]

Init == /\ phase = [s \in Scorings |-> "new"]
        /\ tries = [s \in Scorings |-> 0]

Move(s, from, to) == /\ phase[s] \in from
                     /\ \E p \in to : phase' = [phase EXCEPT ![s] = p]

\* The API answers a scoring; the job is built and handed to the queue client,
\* or no job is ever built for it.
Accept(s) == Move(s, {"new"}, {"handed", "over"}) /\ UNCHANGED tries

\* The push reaches the queue, or is lost.
Post(s) == Move(s, {"handed"}, {"queued", "over"}) /\ UNCHANGED tries

\* A worker pops the job, or the popped job is lost on the way.
Take(s) == Move(s, {"queued"}, {"running", "over"}) /\ UNCHANGED tries

\* A computation fails; the budget of failures is MaxRetries + 1.
Fail(s) == /\ phase[s] = "running"
           /\ tries[s] <= MaxRetries
           /\ tries' = [tries EXCEPT ![s] = @ + 1]
           /\ UNCHANGED phase

\* A failed job goes back to the queue, but only while retries are left.
Retry(s) == /\ tries[s] \in 1..MaxRetries
            /\ Move(s, {"running"}, {"queued"})
            /\ UNCHANGED tries

\* The worker is done with the job: stored, skipped, given up or crashed.
Finish(s) == Move(s, {"running"}, {"over"}) /\ UNCHANGED tries

\* The queue itself is lost, with every job in it.
LoseQueue == /\ phase' = [s \in Scorings |->
                            IF phase[s] = "queued" THEN "over" ELSE phase[s]]
             /\ UNCHANGED tries

Advance(s) == Post(s) \/ Take(s) \/ Fail(s) \/ Retry(s) \/ Finish(s)

Next == \/ \E s \in Scorings : Accept(s) \/ Advance(s)
        \/ LoseQueue

SafeSpec == Init /\ [][Next]_vars

Spec == SafeSpec /\ \A s \in Scorings : WF_vars(Advance(s))
=============================================================================
