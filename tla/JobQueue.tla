------------------------------- MODULE JobQueue -------------------------------
(***************************************************************************)
(* The durable job queue of the memory tree as values.  A queue is the     *)
(* table of the jobs that are not completed, by id, and the number of ids  *)
(* handed out.  A job has its place in the order of scheduled_at (0 while  *)
(* its retry is still to come) and a lease, which runs out with time.      *)
(***************************************************************************)
EXTENDS Naturals, FiniteSets, Functions

NoJobs == [jobs |-> << >>, minted |-> 0]

\* The dedupe keys are "extract:<chunk>" and "seal:<source>".
SameKey(a, b) ==
    /\ a.kind = b.kind
    /\ IF a.kind = "extract" THEN a.chunk = b.chunk ELSE a.source = b.source

InFlight(q, job) == \E id \in DOMAIN q.jobs : SameKey(q.jobs[id].job, job)

\* The place behind every job of the queue.
Behind(q) ==
    LET places == {q.jobs[id].place : id \in DOMAIN q.jobs} \cup {0}
    IN  1 + CHOOSE n \in places : \A m \in places : m <= n

Row(job, place) == [job |-> job, place |-> place, leased |-> FALSE]

\* The table with a row for job under the next id.
Insert(q, job) ==
    LET n == q.minted + 1 IN
    [jobs   |-> [id \in DOMAIN q.jobs \cup {n} |->
                    IF id = n THEN Row(job, Behind(q)) ELSE q.jobs[id]],
     minted |-> n]

\* Mutant: no index on the keys.
EnqueueAlways(q, job) == Insert(q, job)

\* INSERT INTO jobs, which the unique index on the keys of incomplete jobs may
\* refuse.
Enqueue(q, job) == IF InFlight(q, job) THEN q ELSE Insert(q, job)

\* Due, and nobody has an unexpired lease on it.
Ready(q) == {id \in DOMAIN q.jobs : q.jobs[id].place > 0 /\ ~q.jobs[id].leased}

\* The job a reserve takes: the first by scheduled_at.
IsNext(q, id) ==
    /\ id \in Ready(q)
    /\ \A other \in Ready(q) : q.jobs[id].place <= q.jobs[other].place

Lease(q, id) == [q EXCEPT !.jobs[id].leased = TRUE]

LeaseExpires(q, id) == [q EXCEPT !.jobs[id].leased = FALSE]

\* complete and fail name the job by its id, whoever has its lease; neither
\* brings a completed job back.
CompleteJob(q, id) == [q EXCEPT !.jobs = Restrict(@, DOMAIN @ \ {id})]

\* Mutant: a job that failed is given up.
FailJobDrops(q, id) == CompleteJob(q, id)

FailJob(q, id) ==
    IF id \in DOMAIN q.jobs
      THEN [q EXCEPT !.jobs[id].place = 0, !.jobs[id].leased = FALSE]
      ELSE q

\* The 30 s after a failure are over.
RetryDue(q, id) == [q EXCEPT !.jobs[id].place = Behind(q)]
=============================================================================
