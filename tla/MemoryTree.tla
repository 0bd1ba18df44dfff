------------------------------ MODULE MemoryTree ------------------------------
(***************************************************************************)
(* The memory tree: documents are ingested as chunks, workers take jobs    *)
(* from the queue, an extract job puts a chunk into the buffer of its      *)
(* source, and a seal job summarises a buffer that is full.                *)
(*                                                                         *)
(* Every statement on the database is a step, and so is a transaction: a   *)
(* worker may fail or die between any two of them, other workers run, and  *)
(* the lease of a slow worker may run out.                                 *)
(***************************************************************************)
EXTENDS Naturals, FiniteSets, JobQueue

CONSTANTS
    Workers,     \* the callers of process_one
    Callers,     \* the callers of ingest
    Chunks,      \* ids of chunks
    Sources,
    Low,         \* the chunks whose score is below admit_threshold
    Documents,   \* what may be ingested: [source, chunks]
    Threshold,   \* seal_threshold
    None,
    MaxIngests,  \* bound: documents ingested
    MaxFaults    \* bound: jobs and ingests that fail, are left or outlast a lease

\* LeafStatus.
Statuses == {"pending_extraction", "buffered", "sealed", "dropped"}

ASSUME ConstantsAssumption ==
    /\ IsFiniteSet(Chunks)
    /\ Low \subseteq Chunks
    /\ Documents \subseteq [source : Sources, chunks : SUBSET Chunks]
    /\ Threshold \in Nat \ {0}
    /\ None \notin Chunks \cup Sources \cup Statuses
    /\ MaxIngests \in Nat /\ MaxFaults \in Nat

VARIABLES
    status,   \* status of every chunk, None until it is inserted
    home,     \* source of every chunk, None until it is inserted
    queue,    \* table jobs
    times,    \* per chunk, the number of summaries it is a child of
    doc,      \* per caller, the document it ingests: its chunks without a job yet
    work,     \* per worker, what process_one is at
    ingests,  \* number of documents ingested
    faults,   \* number of faults
    mishaps   \* history: what happened that the tree does not make up for

vars == <<status, home, queue, times, doc, work, ingests, faults, mishaps>>

ExtractJob(c, s) == [kind |-> "extract", chunk |-> c, source |-> s]
SealJob(s) == [kind |-> "seal", chunk |-> None, source |-> s]
NoJob == [kind |-> "none", chunk |-> None, source |-> None]
Resting == [at |-> "idle", id |-> 0, job |-> NoJob, left |-> {}]
NoDoc == [source |-> None, chunks |-> {}]

\* Mutant: chunks are read whatever became of them.
BufferedOrSealed(s) ==
    {c \in Chunks : home[c] = s /\ status[c] \in {"buffered", "sealed"}}

Buffered(s) == {c \in Chunks : home[c] = s /\ status[c] = "buffered"}

Full(s) == Cardinality(Buffered(s)) >= Threshold

At(w, where) == work[w].at = where
Goes(w, where) == work' = [work EXCEPT ![w].at = where]
Rests(w) == work' = [work EXCEPT ![w] = Resting]
Mishap(what, happened) == mishaps' = IF happened THEN mishaps \cup {what} ELSE mishaps

Init ==
    /\ status = [c \in Chunks |-> None] /\ home = [c \in Chunks |-> None]
    /\ queue = NoJobs
    /\ times = [c \in Chunks |-> 0]
    /\ doc = [i \in Callers |-> NoDoc]
    /\ work = [w \in Workers |-> Resting]
    /\ ingests = 0 /\ faults = 0 /\ mishaps = {}

-----------------------------------------------------------------------------
(* Ingest. *)

\* insert_chunks, one transaction: a chunk that is there is left as it is, and
\* its id does not depend on the source.
Ingest(i, d) ==
    /\ doc[i] = NoDoc /\ ingests < MaxIngests
    /\ ingests' = ingests + 1
    /\ doc' = [doc EXCEPT ![i] = d]
    /\ LET new == {c \in d.chunks : status[c] = None} IN
         /\ status' = [c \in Chunks |-> IF c \in new THEN "pending_extraction" ELSE status[c]]
         /\ home' = [c \in Chunks |-> IF c \in new THEN d.source ELSE home[c]]
    /\ Mishap("shared", \E c \in d.chunks : home[c] \notin {None, d.source})
    /\ UNCHANGED <<queue, times, work, faults>>

\* Then a job for each chunk, the old ones included.
EnqueueExtract(i, c) ==
    /\ c \in doc[i].chunks
    /\ queue' = Enqueue(queue, ExtractJob(c, doc[i].source))
    /\ LET left == doc[i].chunks \ {c} IN
         doc' = [doc EXCEPT ![i] = IF left = {} THEN NoDoc
                                   ELSE [source |-> @.source, chunks |-> left]]
    /\ UNCHANGED <<status, home, times, work, ingests, faults, mishaps>>

\* The ingest fails or dies half-way.
IngestStops(i) ==
    /\ doc[i] # NoDoc /\ faults < MaxFaults
    /\ faults' = faults + 1
    /\ doc' = [doc EXCEPT ![i] = NoDoc]
    /\ UNCHANGED <<status, home, queue, times, work, ingests, mishaps>>

-----------------------------------------------------------------------------
(* Jobs. *)

Reserve(w, id) ==
    /\ At(w, "idle") /\ IsNext(queue, id)
    /\ queue' = Lease(queue, id)
    /\ LET job == queue.jobs[id].job IN
         work' = [work EXCEPT ![w] = [at |-> job.kind, id |-> id, job |-> job, left |-> {}]]
    /\ Mishap("taken", \E v \in Workers : work[v].id = id)
    /\ UNCHANGED <<status, home, times, doc, ingests, faults>>

\* extract_and_buffer sets the status whatever it was.
Extract(w) ==
    /\ At(w, "extract")
    /\ LET c == work[w].job.chunk IN
         /\ status' = [status EXCEPT ![c] = IF c \in Low THEN "dropped" ELSE "buffered"]
         /\ Goes(w, IF c \in Low THEN "complete" ELSE "check")
         /\ Mishap("reextracted", status[c] = "sealed")
    /\ UNCHANGED <<home, queue, times, doc, ingests, faults>>

\* ready_to_seal, of the source the job names ...
Check(w) ==
    /\ At(w, "check")
    /\ Goes(w, IF Full(work[w].job.source) THEN "enqueue" ELSE "complete")
    /\ UNCHANGED <<status, home, queue, times, doc, ingests, faults, mishaps>>

\* A worker has read the buffer of s and is not done yet.
Sealing(s) ==
    \E v \in Workers : /\ work[v].job = SealJob(s)
                       /\ work[v].at \in {"summarize", "index", "mark", "complete"}

\* ... and the seal job, unless there is one.
EnqueueSeal(w) ==
    /\ At(w, "enqueue")
    /\ LET s == work[w].job.source IN
         /\ queue' = Enqueue(queue, SealJob(s))
         /\ Mishap("missed", InFlight(queue, SealJob(s)) /\ Sealing(s))
    /\ Goes(w, "complete")
    /\ UNCHANGED <<status, home, times, doc, ingests, faults>>

\* seal_buffer: read the buffer, ...
ReadBuffer(w) ==
    /\ At(w, "seal")
    /\ LET b == Buffered(work[w].job.source) IN
         work' = [work EXCEPT ![w].at = IF b = {} THEN "complete" ELSE "summarize",
                              ![w].left = b]
    /\ UNCHANGED <<status, home, queue, times, doc, ingests, faults, mishaps>>

\* Mutant: the chunks are marked first.
SummarizeMarksFirst(w) ==
    /\ At(w, "summarize")
    /\ status' = [c \in Chunks |-> IF c \in work[w].left THEN "sealed" ELSE status[c]]
    /\ Goes(w, "index")
    /\ UNCHANGED <<home, queue, times, doc, ingests, faults, mishaps>>

\* ... write the summary of what was read, ...
Summarize(w) ==
    /\ At(w, "summarize")
    /\ times' = [c \in Chunks |-> times[c] + (IF c \in work[w].left THEN 1 ELSE 0)]
    /\ Goes(w, "index")
    /\ UNCHANGED <<status, home, queue, doc, ingests, faults, mishaps>>

\* ... then, in a statement of its own, its row for the full-text search, ...
IndexSummary(w) ==
    /\ At(w, "index")
    /\ Goes(w, "mark")
    /\ UNCHANGED <<status, home, queue, times, doc, ingests, faults, mishaps>>

\* ... and mark its chunks, one statement each.
Mark(w, c) ==
    /\ At(w, "mark") /\ c \in work[w].left
    /\ status' = [status EXCEPT ![c] = "sealed"]
    /\ LET left == work[w].left \ {c} IN
         work' = [work EXCEPT ![w].left = left,
                              ![w].at = IF left = {} THEN "complete" ELSE "mark"]
    /\ UNCHANGED <<home, queue, times, doc, ingests, faults, mishaps>>

Complete(w) ==
    /\ At(w, "complete")
    /\ queue' = CompleteJob(queue, work[w].id)
    /\ Rests(w)
    /\ UNCHANGED <<status, home, times, doc, ingests, faults, mishaps>>

\* Its summary is in the database, and not all of its chunks are marked.
Summarized(w) == At(w, "index") \/ At(w, "mark")

\* An error of the store or of the summarizer: the job is to be tried again.
Fail(w) ==
    /\ work[w].at \notin {"idle", "complete"} /\ faults < MaxFaults
    /\ faults' = faults + 1
    /\ queue' = FailJob(queue, work[w].id)
    /\ Mishap("cut", Summarized(w))
    /\ Rests(w)
    /\ UNCHANGED <<status, home, times, doc, ingests>>

\* The worker dies, or cannot tell the queue: the job stays under its lease.
Leave(w) ==
    /\ ~At(w, "idle") /\ faults < MaxFaults
    /\ faults' = faults + 1
    /\ Mishap("cut", Summarized(w))
    /\ Rests(w)
    /\ UNCHANGED <<status, home, queue, times, doc, ingests>>

-----------------------------------------------------------------------------
(* Time. *)

\* Mutant: a lease only ends with its worker.
ExpireNever(id) ==
    /\ id \in DOMAIN queue.jobs /\ queue.jobs[id].leased
    /\ UNCHANGED vars

\* A lease runs out. That its worker is still at the job counts as a fault.
Expire(id) ==
    /\ id \in DOMAIN queue.jobs /\ queue.jobs[id].leased
    /\ IF \E w \in Workers : work[w].id = id
         THEN faults < MaxFaults /\ faults' = faults + 1
         ELSE UNCHANGED faults
    /\ queue' = LeaseExpires(queue, id)
    /\ UNCHANGED <<status, home, times, doc, work, ingests, mishaps>>

Retry(id) ==
    /\ id \in DOMAIN queue.jobs /\ queue.jobs[id].place = 0
    /\ queue' = RetryDue(queue, id)
    /\ UNCHANGED <<status, home, times, doc, work, ingests, faults, mishaps>>

-----------------------------------------------------------------------------

Process(w) ==
    \/ \E id \in DOMAIN queue.jobs : Reserve(w, id)
    \/ Extract(w) \/ Check(w) \/ EnqueueSeal(w)
    \/ ReadBuffer(w) \/ Summarize(w) \/ IndexSummary(w) \/ Complete(w)
    \/ \E c \in Chunks : Mark(w, c)

Time == \E id \in DOMAIN queue.jobs : Expire(id) \/ Retry(id)

Next ==
    \/ \E i \in Callers :
         \/ \E d \in Documents : Ingest(i, d)
         \/ \E c \in Chunks : EnqueueExtract(i, c)
         \/ IngestStops(i)
    \/ \E w \in Workers : Process(w) \/ Fail(w) \/ Leave(w)
    \/ Time

Spec == Init /\ [][Next]_vars

\* A worker goes on calling process_one and its calls return; time passes.
LiveSpec == Spec /\ WF_vars(Time) /\ \A w \in Workers : WF_vars(Process(w))

-----------------------------------------------------------------------------
(* Properties. *)

Jobs == [kind : {"extract"}, chunk : Chunks, source : Sources]
        \cup [kind : {"seal"}, chunk : {None}, source : Sources]

Places == {"idle", "extract", "check", "enqueue", "seal", "summarize", "index", "mark",
           "complete"}

QueueOK ==
    /\ queue = [jobs |-> queue.jobs, minted |-> queue.minted]
    /\ queue.minted \in Nat
    /\ DOMAIN queue.jobs \subseteq 1..queue.minted
    /\ queue.jobs \in [DOMAIN queue.jobs -> [job : Jobs, place : Nat, leased : BOOLEAN]]
    /\ \A i, j \in DOMAIN queue.jobs :
         SameKey(queue.jobs[i].job, queue.jobs[j].job) => i = j

\* Type invariant: every variable stays in its set, and no two incomplete jobs
\* have one key.
TypeOK ==
    /\ status \in [Chunks -> Statuses \cup {None}]
    /\ home \in [Chunks -> Sources \cup {None}]
    /\ QueueOK
    /\ times \in [Chunks -> Nat]
    /\ doc \in [Callers -> [source : Sources \cup {None}, chunks : SUBSET Chunks]]
    /\ work \in [Workers -> [at : Places, id : Nat, job : Jobs \cup {NoJob},
                             left : SUBSET Chunks]]
    /\ ingests \in Nat /\ faults \in Nat
    /\ mishaps \subseteq {"taken", "reextracted", "cut", "missed", "shared"}

\* A chunk that left the buffer as sealed is in a summary, whenever a worker
\* fails, dies or loses its lease: no content drops out of the tree.
SealedIsSummarized == \A c \in Chunks : status[c] = "sealed" => times[c] > 0

\* "Idempotent at the leaf level": no chunk is summarised twice.
SealedOnce == \A c \in Chunks : times[c] <= 1

\* ... which holds unless a job is taken from a worker that is still at it, a
\* sealed chunk is extracted again, or a seal stops after the row of its summary
\* and before its last mark (on the full-text row as well: the two are not in one
\* transaction).
SealedOnceUnlessRedone ==
    mishaps \subseteq {"missed", "shared"} => SealedOnce

\* "When it reaches seal_threshold, a seal job summarizes the buffer": a full
\* buffer has a job that will see to it.
FullBufferHasJob ==
    \A s \in Sources : Full(s) =>
        \E id \in DOMAIN queue.jobs :
            /\ queue.jobs[id].job.source = s
            /\ queue.jobs[id].job.chunk \notin Low

\* ... which holds unless one job was at two workers, the seal job was refused
\* on behalf of one whose worker had read the buffer already, or a chunk was
\* ingested under two sources.
FullBufferHasJobUnlessMissed ==
    mishaps \cap {"taken", "missed", "shared"} = {} => FullBufferHasJob

\* "A crashed worker doesn't strand work": every job comes to its end, by its
\* worker or a later one.
NoJobStranded ==
    \A id \in 1..(2 * MaxIngests + MaxFaults) :
        id \in DOMAIN queue.jobs ~> id \notin DOMAIN queue.jobs

(* What NoJobStranded needs of the safety part, apart from fairness. *)

\* The due jobs that a reserve takes before id.
Ahead(id) ==
    {other \in DOMAIN queue.jobs :
        0 < queue.jobs[other].place /\ queue.jobs[other].place < queue.jobs[id].place}

Due(id) == id \in DOMAIN queue.jobs /\ queue.jobs[id].place > 0

\* No job is overtaken: while a job is due, those ahead of it only get fewer,
\* because a new job and one that is retried go behind it.
NoJobOvertaken == [][\A id \in DOMAIN queue.jobs : Due(id) /\ Due(id)' => Ahead(id)' \subseteq Ahead(id)]_vars

\* The steps a worker can still take before it is idle, at most.
PassLeft(w) ==
    CASE At(w, "idle") -> 0
      [] At(w, "complete") -> 1
      [] At(w, "enqueue") -> 2
      [] At(w, "check") -> 3
      [] At(w, "extract") -> 4
      [] At(w, "mark") -> 1 + Cardinality(work[w].left)
      [] At(w, "index") -> 2 + Cardinality(work[w].left)
      [] At(w, "summarize") -> 3 + Cardinality(work[w].left)
      [] At(w, "seal") -> 4 + Cardinality(Chunks)

\* Every step of a worker brings it nearer to the end of its job.
PassRunsOut ==
    [][\A w \in Workers : ~At(w, "idle") /\ work'[w] # work[w]
                            => PassLeft(w)' < PassLeft(w)]_vars

\* No worker is held up: one at work has a step to take, and an idle one has a
\* job to take when any is ready.
WorkersGoOn ==
    \A w \in Workers :
        /\ At(w, "mark") => work[w].left # {}
        /\ At(w, "idle") /\ Ready(queue) # {} => \E id \in DOMAIN queue.jobs : IsNext(queue, id)
=============================================================================
