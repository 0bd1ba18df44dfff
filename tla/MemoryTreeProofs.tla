--------------------------- MODULE MemoryTreeProofs ---------------------------
(***************************************************************************)
(* The invariants of MemoryTree, for any number of workers, callers,       *)
(* chunks and sources, any threshold and any bounds.                       *)
(***************************************************************************)
EXTENDS MemoryTree, FiniteSetTheorems, WellFoundedInduction, TLAPS

-----------------------------------------------------------------------------
(* The inductive invariant. *)

\* A worker at work has a job of the kind it is at; what it has read of the
\* buffer it has while it summarises and marks.
WorkOK(x) ==
    /\ x.at = "idle" => x = Resting
    /\ x.at # "idle" => x.job \in Jobs /\ x.id # 0
    /\ x.at \in {"extract", "check", "enqueue"} => x.job.kind = "extract"
    /\ x.at \in {"seal", "summarize", "index", "mark"} => x.job.kind = "seal"
    /\ x.left # {} => x.at \in {"summarize", "index", "mark"}

WorkInv == \A w \in Workers : WorkOK(work[w])

\* The chunk of an extract job was inserted.
Inserted(job) == job.kind = "extract" => status[job.chunk] # None

\* A chunk that was inserted has its source, and what is buffered is worth it.
ChunkInv ==
    /\ \A c \in Chunks : status[c] # None => home[c] \in Sources
    /\ \A c \in Chunks : status[c] = "buffered" => c \notin Low
    /\ \A id \in DOMAIN queue.jobs : Inserted(queue.jobs[id].job)
    /\ \A w \in Workers : Inserted(work[w].job)
    /\ \A w \in Workers : \A c \in work[w].left :
         status[c] # None /\ home[c] = work[w].job.source
    /\ \A i \in Callers : \A c \in doc[i].chunks :
         status[c] # None /\ doc[i].source \in Sources

SummaryInv ==
    /\ SealedIsSummarized
    /\ \A w \in Workers : Summarized(w) => \A c \in work[w].left : times[c] > 0

\* While no job was taken from its worker, a worker has its job to itself.
HeldInv ==
    "taken" \notin mishaps =>
        /\ \A v, w \in Workers :
             ~At(v, "idle") /\ ~At(w, "idle") /\ work[v].id = work[w].id => v = w
        /\ \A w \in Workers : ~At(w, "idle") =>
             /\ work[w].id \in DOMAIN queue.jobs
             /\ queue.jobs[work[w].id].job = work[w].job

\* A worker has c in a summary and is to mark it as sealed.
Marking(c) == \E w \in Workers : Summarized(w) /\ c \in work[w].left

\* A chunk is in one summary from the time it is written, and what a worker is
\* to summarise or to mark is still in the buffer.
OnceInv ==
    mishaps \subseteq {"missed", "shared"} =>
        /\ \A c \in Chunks :
             times[c] = IF status[c] = "sealed" \/ Marking(c) THEN 1 ELSE 0
        /\ \A w \in Workers : \A c \in work[w].left : status[c] = "buffered"

\* The job names the source of its chunk.
Own(job) == job.kind = "extract" => job.source = home[job.chunk]

OwnInv ==
    "shared" \notin mishaps =>
        /\ \A id \in DOMAIN queue.jobs : Own(queue.jobs[id].job)
        /\ \A w \in Workers : Own(work[w].job)
        /\ \A i \in Callers : \A c \in doc[i].chunks : home[c] = doc[i].source

\* What is in the buffer of s and no worker has read.
Unread(s) == {c \in Buffered(s) : \A w \in Workers : c \notin work[w].left}

\* A job that will see to the buffer of s: no worker at it has read the buffer,
\* or is through.
Useful(id, s) ==
    /\ id \in DOMAIN queue.jobs
    /\ queue.jobs[id].job.source = s
    /\ queue.jobs[id].job.chunk \notin Low
    /\ \A w \in Workers :
         work[w].id = id => work[w].at \notin {"summarize", "index", "mark", "complete"}

BufferInv ==
    mishaps \cap {"taken", "missed", "shared"} = {} =>
        \A s \in Sources :
            Cardinality(Unread(s)) >= Threshold => \E id \in Nat : Useful(id, s)

IInv ==
    /\ TypeOK
    /\ WorkInv
    /\ ChunkInv
    /\ SummaryInv
    /\ HeldInv
    /\ OnceInv
    /\ OwnInv
    /\ BufferInv

-----------------------------------------------------------------------------
(* The queue. *)

\* A job is an extract job of a chunk or a seal job.
LEMMA JobCases ==
    ASSUME NEW job \in Jobs
    PROVE  /\ job.source \in Sources
           /\ job.kind \in {"extract", "seal"}
           /\ job.kind = "extract" => job.chunk \in Chunks
           /\ job.kind = "seal" => job = SealJob(job.source)
BY DEF Jobs, SealJob

LEMMA MakeJob ==
    ASSUME NEW c \in Chunks, NEW s \in Sources
    PROVE  ExtractJob(c, s) \in Jobs /\ SealJob(s) \in Jobs
BY DEF Jobs, ExtractJob, SealJob

\* A finite set of numbers that is not empty has a greatest one.
LEMMA Greatest ==
    ASSUME NEW S \in SUBSET Nat, IsFiniteSet(S), S # {}
    PROVE  \E n \in S : \A p \in S : p <= n
<1> DEFINE Above(n) == {p \in S : p > n}
           T == {Above(n) : n \in S}
           R == StrictSubsetOrdering(S)
<1>1. IsWellFoundedOn(R, FiniteSubsetsOf(S))
  BY FS_StrictSubsetOrderingWellFounded
<1>2. T \subseteq SUBSET S /\ T # {} OBVIOUS
<1>3. T \subseteq FiniteSubsetsOf(S)
  <2> HIDE DEF T
  <2> QED BY <1>2, FS_FiniteSubsetsOfFinite
<1>4. PICK x \in T : \A y \in T : ~ (<<y, x>> \in R)
  <2> HIDE DEF R, T
  <2> QED BY <1>1, <1>2, <1>3, WFMin
<1>5. PICK n \in S : x = Above(n) OBVIOUS
<1>6. ASSUME NEW p \in S, p > n PROVE FALSE
  <2>1. \A q \in S : q > p => q > n BY <1>6
  <2>2. Above(p) \subseteq x BY <1>5, <2>1, Zenon
  <2>3. p \in x BY <1>5, <1>6, Zenon
  <2>4. p \notin Above(p) OBVIOUS
  <2>5. x \subseteq S /\ Above(p) \subseteq S BY <1>5
  <2>6. <<Above(p), x>> \in R
    BY <2>2, <2>3, <2>4, <2>5 DEF StrictSubsetOrdering
  <2>7. Above(p) \in T OBVIOUS
  <2> QED BY <2>6, <2>7, <1>4, Zenon
<1> QED BY <1>6

\* The place behind every other is a number above every place.
LEMMA BehindIsPlace ==
    ASSUME QueueOK
    PROVE  /\ Behind(queue) \in Nat \ {0}
           /\ \A id \in DOMAIN queue.jobs : queue.jobs[id].place < Behind(queue)
<1> DEFINE D == DOMAIN queue.jobs
           P == {queue.jobs[id].place : id \in D} \cup {0}
<1>1. IsFiniteSet(D)
  <2>1. IsFiniteSet(1..queue.minted) BY FS_Interval DEF QueueOK
  <2>2. D \subseteq 1..queue.minted BY DEF QueueOK
  <2> QED BY <2>1, <2>2, FS_Subset
<1>2. IsFiniteSet({queue.jobs[id].place : id \in D})
  <2> DEFINE f == [id \in D |-> queue.jobs[id].place]
             T == {queue.jobs[id].place : id \in D}
  <2>1. f \in Surjection(D, T)
    <3> HIDE DEF D
    <3> QED BY DEF Surjection
  <2> HIDE DEF D, T, f
  <2>2. IsFiniteSet(T) BY <1>1, <2>1, FS_Surjection
  <2> QED BY <2>2 DEF T
<1>3. IsFiniteSet(P) BY <1>2, FS_AddElement
<1>4. P \in SUBSET Nat BY DEF QueueOK
<1>5. P # {} OBVIOUS
<1>6. \E n \in P : \A m \in P : m <= n
  <2> HIDE DEF P
  <2> QED BY <1>3, <1>4, <1>5, Greatest
<1> DEFINE top == CHOOSE n \in P : \A m \in P : m <= n
<1>7. top \in Nat /\ \A m \in P : m \in Nat /\ m <= top
  <2> HIDE DEF P
  <2> QED BY <1>4, <1>6
<1>8. Behind(queue) = 1 + top BY DEF Behind
<1>9. \A id \in D : queue.jobs[id].place \in P OBVIOUS
<1> HIDE DEF top, P
<1> QED BY <1>7, <1>8, <1>9

\* The table stays as it is, or gets a row for job under a new id; afterwards
\* there is a job with its key.
LEMMA EnqueueEffect ==
    ASSUME QueueOK, NEW job \in Jobs, queue' = Enqueue(queue, job)
    PROVE  /\ QueueOK'
           /\ \A id \in DOMAIN queue.jobs :
                id \in DOMAIN queue'.jobs /\ queue'.jobs[id] = queue.jobs[id]
           /\ \A id \in DOMAIN queue'.jobs :
                \/ id \in DOMAIN queue.jobs
                \/ id > queue.minted /\ queue'.jobs[id].job = job
           /\ \E id \in DOMAIN queue'.jobs :
                /\ SameKey(queue'.jobs[id].job, job)
                /\ InFlight(queue, job) => id \in DOMAIN queue.jobs
                /\ ~InFlight(queue, job) => queue'.jobs[id].job = job /\ id > queue.minted
<1> DEFINE n == queue.minted + 1
           D == DOMAIN queue.jobs
<1>1. CASE InFlight(queue, job)
  <2>1. queue' = queue BY <1>1 DEF Enqueue
  <2>2. QueueOK' BY <2>1 DEF QueueOK
  <2>3. PICK id \in DOMAIN queue.jobs : SameKey(queue.jobs[id].job, job)
    BY <1>1 DEF InFlight
  <2> QED BY <1>1, <2>1, <2>2, <2>3
<1>2. CASE ~InFlight(queue, job)
  <2>1. queue' = Insert(queue, job) BY <1>2 DEF Enqueue
  <2>2. /\ DOMAIN queue'.jobs = D \cup {n}
        /\ queue'.minted = n
        /\ queue' = [jobs |-> queue'.jobs, minted |-> queue'.minted]
        /\ queue'.jobs = [id \in D \cup {n} |-> queue'.jobs[id]]
        /\ \A id \in D \cup {n} :
             queue'.jobs[id] = IF id = n THEN Row(job, Behind(queue)) ELSE queue.jobs[id]
    BY <2>1 DEF Insert
  <2>3. D \subseteq 1..queue.minted /\ queue.minted \in Nat /\ n \notin D
    BY DEF QueueOK
  <2>4. /\ Row(job, Behind(queue)) \in [job : Jobs, place : Nat, leased : BOOLEAN]
        /\ Row(job, Behind(queue)).job = job
    BY BehindIsPlace DEF Row
  <2>5. \A id \in D : ~SameKey(queue.jobs[id].job, job) /\ ~SameKey(job, queue.jobs[id].job)
    BY <1>2 DEF InFlight, SameKey
  <2>6. SameKey(job, job) BY DEF SameKey
  <2>7. QueueOK'
    <3>1. DOMAIN queue'.jobs \subseteq 1..queue'.minted /\ queue'.minted \in Nat
      BY <2>2, <2>3
    <3>2. queue'.jobs \in [DOMAIN queue'.jobs -> [job : Jobs, place : Nat, leased : BOOLEAN]]
      BY <2>2, <2>3, <2>4 DEF QueueOK
    <3>3. \A i, j \in DOMAIN queue'.jobs :
            SameKey(queue'.jobs[i].job, queue'.jobs[j].job) => i = j
      BY <2>2, <2>3, <2>4, <2>5 DEF QueueOK
    <3> QED BY <2>2, <3>1, <3>2, <3>3 DEF QueueOK
  <2>8. /\ n \in DOMAIN queue'.jobs /\ n > queue.minted
        /\ queue'.jobs[n].job = job
    BY <2>2, <2>3, <2>4
  <2>9. \A id \in D : id \in DOMAIN queue'.jobs /\ queue'.jobs[id] = queue.jobs[id]
    BY <2>2, <2>3
  <2>10. \A id \in DOMAIN queue'.jobs : id \in D \/ id = n
    BY <2>2
  <2> HIDE DEF n
  <2> QED BY <1>2, <2>6, <2>7, <2>8, <2>9, <2>10
<1> QED BY <1>1, <1>2

\* The jobs of the table stay the same.
SameJobs ==
    /\ DOMAIN queue'.jobs = DOMAIN queue.jobs
    /\ \A id \in DOMAIN queue.jobs : queue'.jobs[id].job = queue.jobs[id].job

\* A lease, its end, a failure and the end of a wait change no job.
LEMMA RowEffect ==
    ASSUME QueueOK, NEW id,
           \/ id \in DOMAIN queue.jobs /\ queue' = Lease(queue, id)
           \/ id \in DOMAIN queue.jobs /\ queue' = LeaseExpires(queue, id)
           \/ id \in DOMAIN queue.jobs /\ queue' = RetryDue(queue, id)
           \/ queue' = FailJob(queue, id)
    PROVE  QueueOK' /\ SameJobs
<1>1. CASE queue' = queue BY <1>1 DEF QueueOK, SameJobs
<1>2. SUFFICES ASSUME id \in DOMAIN queue.jobs,
                      NEW row \in [job : Jobs, place : Nat, leased : BOOLEAN],
                      row.job = queue.jobs[id].job,
                      queue' = [jobs   |-> [queue.jobs EXCEPT ![id] = row],
                                minted |-> queue.minted]
               PROVE  QueueOK' /\ SameJobs
  <2> DEFINE old == queue.jobs[id]
             Set(row) == [jobs |-> [queue.jobs EXCEPT ![id] = row], minted |-> queue.minted]
             Rows == [job : Jobs, place : Nat, leased : BOOLEAN]
  <2>1. CASE id \notin DOMAIN queue.jobs BY <1>1, <2>1 DEF FailJob
  <2>2. CASE id \in DOMAIN queue.jobs
    <3>1. old \in Rows /\ Behind(queue) \in Nat BY <2>2, BehindIsPlace DEF QueueOK
    <3>2. queue = [jobs |-> queue.jobs, minted |-> queue.minted] BY DEF QueueOK
    <3>3. CASE queue' = Lease(queue, id)
      <4>1. queue' = Set([old EXCEPT !.leased = TRUE]) BY <2>2, <3>2, <3>3 DEF Lease
      <4>2. /\ [old EXCEPT !.leased = TRUE] \in Rows
            /\ [old EXCEPT !.leased = TRUE].job = old.job
        BY <3>1
      <4> QED BY <1>2, <2>2, <4>1, <4>2
    <3>4. CASE queue' = LeaseExpires(queue, id)
      <4>1. queue' = Set([old EXCEPT !.leased = FALSE]) BY <2>2, <3>2, <3>4 DEF LeaseExpires
      <4>2. /\ [old EXCEPT !.leased = FALSE] \in Rows
            /\ [old EXCEPT !.leased = FALSE].job = old.job
        BY <3>1
      <4> QED BY <1>2, <2>2, <4>1, <4>2
    <3>5. CASE queue' = RetryDue(queue, id)
      <4>1. queue' = Set([old EXCEPT !.place = Behind(queue)])
        BY <2>2, <3>2, <3>5 DEF RetryDue
      <4>2. /\ [old EXCEPT !.place = Behind(queue)] \in Rows
            /\ [old EXCEPT !.place = Behind(queue)].job = old.job
        BY <3>1
      <4> QED BY <1>2, <2>2, <4>1, <4>2
    <3>6. CASE queue' = FailJob(queue, id)
      <4>1. queue' = Set([old EXCEPT !.place = 0, !.leased = FALSE])
        BY <2>2, <3>2, <3>6 DEF FailJob
      <4>2. /\ [old EXCEPT !.place = 0, !.leased = FALSE] \in Rows
            /\ [old EXCEPT !.place = 0, !.leased = FALSE].job = old.job
        BY <3>1
      <4> QED BY <1>2, <2>2, <4>1, <4>2
    <3> QED BY <3>3, <3>4, <3>5, <3>6
  <2> QED BY <2>1, <2>2
<1>3. /\ DOMAIN queue'.jobs = DOMAIN queue.jobs /\ queue'.minted = queue.minted
      /\ \A i \in DOMAIN queue.jobs : queue'.jobs[i] = IF i = id THEN row ELSE queue.jobs[i]
  BY <1>2
<1>4. SameJobs BY <1>2, <1>3 DEF SameJobs
<1>5. queue'.jobs \in [DOMAIN queue'.jobs -> [job : Jobs, place : Nat, leased : BOOLEAN]]
  BY <1>2, <1>3 DEF QueueOK
<1> QED BY <1>2, <1>3, <1>4, <1>5 DEF QueueOK, SameJobs

\* A completed job is gone, the others stay.
LEMMA CompleteEffect ==
    ASSUME QueueOK, NEW id, queue' = CompleteJob(queue, id)
    PROVE  /\ QueueOK'
           /\ DOMAIN queue'.jobs = DOMAIN queue.jobs \ {id}
           /\ \A i \in DOMAIN queue'.jobs : queue'.jobs[i] = queue.jobs[i]
<1>1. /\ DOMAIN queue'.jobs = DOMAIN queue.jobs \ {id}
      /\ queue' = [jobs |-> queue'.jobs, minted |-> queue'.minted]
      /\ queue'.jobs = [i \in DOMAIN queue'.jobs |-> queue.jobs[i]]
      /\ queue'.minted = queue.minted
  BY DEF QueueOK, CompleteJob, Restrict
<1> QED BY <1>1 DEF QueueOK

-----------------------------------------------------------------------------
(* Types. *)

WorkType == [at : Places, id : Nat, job : Jobs \cup {NoJob}, left : SUBSET Chunks]

\* What a worker is at before and after one of its steps.
LEMMA WorkOf ==
    ASSUME TypeOK, WorkInv, NEW w \in Workers, ~At(w, "idle")
    PROVE  /\ work[w] \in WorkType
           /\ work[w].job \in Jobs
           /\ work[w].id \in Nat \ {0}
BY DEF TypeOK, WorkInv, WorkOK, WorkType, At

LEMMA MishapType ==
    ASSUME TypeOK, NEW happened,
           NEW what \in {"taken", "reextracted", "cut", "missed", "shared"},
           Mishap(what, happened)
    PROVE  mishaps' \subseteq {"taken", "reextracted", "cut", "missed", "shared"}
BY DEF TypeOK, Mishap

\* An ingest inserts chunks and notes the document.
LEMMA IngestType ==
    ASSUME TypeOK, NEW i \in Callers, NEW d \in Documents, Ingest(i, d)
    PROVE  TypeOK'
<1>1. d \in [source : Sources, chunks : SUBSET Chunks] BY ConstantsAssumption
<1>2. mishaps' \subseteq {"taken", "reextracted", "cut", "missed", "shared"}
  BY MishapType DEF Ingest
<1>3. doc' \in [Callers -> [source : Sources \cup {None}, chunks : SUBSET Chunks]]
  BY <1>1 DEF Ingest, TypeOK
<1>4. status' \in [Chunks -> Statuses \cup {None}]
  BY DEF Ingest, TypeOK, Statuses
<1>5. home' \in [Chunks -> Sources \cup {None}]
  BY <1>1 DEF Ingest, TypeOK
<1>6. QueueOK' BY DEF Ingest, TypeOK, QueueOK
<1> QED BY <1>2, <1>3, <1>4, <1>5, <1>6 DEF Ingest, TypeOK

LEMMA EnqueueExtractType ==
    ASSUME TypeOK, ChunkInv, NEW i \in Callers, NEW c \in Chunks, EnqueueExtract(i, c)
    PROVE  TypeOK'
<1>1. ExtractJob(c, doc[i].source) \in Jobs BY MakeJob DEF EnqueueExtract, ChunkInv
<1>2. QueueOK' BY <1>1, EnqueueEffect DEF EnqueueExtract, TypeOK
<1>3. doc' \in [Callers -> [source : Sources \cup {None}, chunks : SUBSET Chunks]]
  <2> DEFINE Docs == [source : Sources \cup {None}, chunks : SUBSET Chunks]
             left == doc[i].chunks \ {c}
             rest == IF left = {} THEN NoDoc ELSE [source |-> doc[i].source, chunks |-> left]
  <2>1. doc' = [doc EXCEPT ![i] = rest] BY DEF EnqueueExtract, TypeOK
  <2>2. doc[i] \in Docs BY DEF TypeOK
  <2>3. rest \in Docs BY <2>2 DEF NoDoc
  <2> HIDE DEF rest
  <2> QED BY <2>1, <2>3 DEF TypeOK
<1> QED BY <1>2, <1>3 DEF EnqueueExtract, TypeOK

LEMMA IngestStopsType ==
    ASSUME TypeOK, NEW i \in Callers, IngestStops(i)
    PROVE  TypeOK'
<1>1. doc' \in [Callers -> [source : Sources \cup {None}, chunks : SUBSET Chunks]]
  BY DEF IngestStops, TypeOK, NoDoc
<1>2. QueueOK' BY DEF IngestStops, TypeOK, QueueOK
<1> QED BY <1>1, <1>2 DEF IngestStops, TypeOK

\* Resting, and each of the places a worker goes to, has the type.
LEMMA RestType == Resting \in WorkType
BY DEF Resting, WorkType, Places, NoJob

LEMMA ReserveType ==
    ASSUME TypeOK, NEW w \in Workers, NEW id \in DOMAIN queue.jobs, Reserve(w, id)
    PROVE  TypeOK'
<1>1. queue.jobs[id].job \in Jobs /\ id \in Nat BY DEF TypeOK, QueueOK
<1>2. QueueOK' BY RowEffect DEF Reserve, TypeOK
<1>3. work' \in [Workers -> WorkType]
  BY <1>1, JobCases DEF Reserve, TypeOK, WorkType, Places
<1>4. mishaps' \subseteq {"taken", "reextracted", "cut", "missed", "shared"}
  BY MishapType DEF Reserve
<1> QED BY <1>2, <1>3, <1>4 DEF Reserve, TypeOK, WorkType

LEMMA MovesType ==
    ASSUME TypeOK, NEW w \in Workers, NEW p \in Places, NEW l \in SUBSET Chunks,
           work' = [work EXCEPT ![w].at = p, ![w].left = l]
    PROVE  work' \in [Workers -> WorkType]
<1>1. work[w] \in WorkType BY DEF TypeOK, WorkType
<1>2. [work[w] EXCEPT !.at = p, !.left = l] \in WorkType BY <1>1 DEF WorkType
<1>3. work' = [work EXCEPT ![w] = [work[w] EXCEPT !.at = p, !.left = l]]
  BY DEF TypeOK
<1> QED BY <1>2, <1>3 DEF TypeOK, WorkType

LEMMA GoesType ==
    ASSUME TypeOK, NEW w \in Workers, NEW p \in Places, Goes(w, p)
    PROVE  work' \in [Workers -> WorkType]
BY DEF TypeOK, WorkType, Goes

LEMMA RestsType ==
    ASSUME TypeOK, NEW w \in Workers, Rests(w)
    PROVE  work' \in [Workers -> WorkType]
BY RestType DEF TypeOK, WorkType, Rests

LEMMA ExtractType ==
    ASSUME TypeOK, NEW w \in Workers, Extract(w)
    PROVE  TypeOK'
<1>1. work' \in [Workers -> WorkType]
  <2>1. "complete" \in Places /\ "check" \in Places BY DEF Places
  <2> QED BY <2>1, GoesType DEF Extract
<1>2. mishaps' \subseteq {"taken", "reextracted", "cut", "missed", "shared"}
  BY MishapType DEF Extract
<1>3. status' \in [Chunks -> Statuses \cup {None}]
  BY DEF Extract, TypeOK, Statuses
<1>4. QueueOK' BY DEF Extract, TypeOK, QueueOK
<1> QED BY <1>1, <1>2, <1>3, <1>4 DEF Extract, TypeOK, WorkType

LEMMA CheckType ==
    ASSUME TypeOK, NEW w \in Workers, Check(w)
    PROVE  TypeOK'
<1>1. work' \in [Workers -> WorkType]
  <2>1. "complete" \in Places /\ "enqueue" \in Places BY DEF Places
  <2> QED BY <2>1, GoesType DEF Check
<1>2. QueueOK' BY DEF Check, TypeOK, QueueOK
<1> QED BY <1>1, <1>2 DEF Check, TypeOK, WorkType

LEMMA EnqueueSealType ==
    ASSUME TypeOK, WorkInv, NEW w \in Workers, EnqueueSeal(w)
    PROVE  TypeOK'
<1>1. ~At(w, "idle") BY DEF EnqueueSeal, At
<1>2. SealJob(work[w].job.source) \in Jobs
  BY <1>1, WorkOf, JobCases DEF Jobs, SealJob
<1>3. QueueOK' BY <1>2, EnqueueEffect DEF EnqueueSeal, TypeOK
<1>4. work' \in [Workers -> WorkType]
  <2>1. "complete" \in Places BY DEF Places
  <2> QED BY <2>1, GoesType DEF EnqueueSeal
<1>5. mishaps' \subseteq {"taken", "reextracted", "cut", "missed", "shared"}
  BY MishapType DEF EnqueueSeal
<1> QED BY <1>3, <1>4, <1>5 DEF EnqueueSeal, TypeOK, WorkType

LEMMA ReadBufferType ==
    ASSUME TypeOK, NEW w \in Workers, ReadBuffer(w)
    PROVE  TypeOK'
<1> DEFINE b == Buffered(work[w].job.source)
<1>1. b \in SUBSET Chunks BY DEF Buffered
<1>2. work' \in [Workers -> WorkType]
  <2>1. work' = [work EXCEPT ![w].at = IF b = {} THEN "complete" ELSE "summarize",
                             ![w].left = b]
    BY DEF ReadBuffer
  <2>2. "complete" \in Places /\ "summarize" \in Places BY DEF Places
  <2> HIDE DEF b
  <2> QED BY <1>1, <2>1, <2>2, MovesType
<1>3. QueueOK' BY DEF ReadBuffer, TypeOK, QueueOK
<1> QED BY <1>2, <1>3 DEF ReadBuffer, TypeOK, WorkType

LEMMA SummarizeType ==
    ASSUME TypeOK, NEW w \in Workers, Summarize(w)
    PROVE  TypeOK'
<1>1. work' \in [Workers -> WorkType]
  <2>1. "index" \in Places BY DEF Places
  <2> QED BY <2>1, GoesType DEF Summarize
<1>2. times' \in [Chunks -> Nat] BY DEF Summarize, TypeOK
<1>3. QueueOK' BY DEF Summarize, TypeOK, QueueOK
<1> QED BY <1>1, <1>2, <1>3 DEF Summarize, TypeOK, WorkType

LEMMA IndexType ==
    ASSUME TypeOK, NEW w \in Workers, IndexSummary(w)
    PROVE  TypeOK'
<1>1. work' \in [Workers -> WorkType]
  <2>1. "mark" \in Places BY DEF Places
  <2> QED BY <2>1, GoesType DEF IndexSummary
<1>2. QueueOK' BY DEF IndexSummary, TypeOK, QueueOK
<1> QED BY <1>1, <1>2 DEF IndexSummary, TypeOK, WorkType

LEMMA MarkType ==
    ASSUME TypeOK, NEW w \in Workers, NEW c \in Chunks, Mark(w, c)
    PROVE  TypeOK'
<1>1. work' \in [Workers -> WorkType]
  <2> DEFINE l == work[w].left \ {c}
  <2>1. work' = [work EXCEPT ![w].at = IF l = {} THEN "complete" ELSE "mark",
                             ![w].left = l]
    BY DEF Mark, TypeOK
  <2>2. l \in SUBSET Chunks BY DEF TypeOK
  <2>3. "complete" \in Places /\ "mark" \in Places BY DEF Places
  <2> HIDE DEF l
  <2> QED BY <2>1, <2>2, <2>3, MovesType
<1>2. status' \in [Chunks -> Statuses \cup {None}]
  BY DEF Mark, TypeOK, Statuses
<1>3. QueueOK' BY DEF Mark, TypeOK, QueueOK
<1> QED BY <1>1, <1>2, <1>3 DEF Mark, TypeOK, WorkType

\* The three ends of a job.
LEMMA EndType ==
    ASSUME TypeOK, NEW w \in Workers, Complete(w) \/ Fail(w) \/ Leave(w)
    PROVE  TypeOK'
<1>1. work' \in [Workers -> WorkType] BY RestsType DEF Complete, Fail, Leave
<1>2. CASE Complete(w)
  <2>1. QueueOK' BY <1>2, CompleteEffect DEF Complete, TypeOK
  <2> QED BY <1>1, <1>2, <2>1 DEF Complete, TypeOK, WorkType
<1>3. CASE Fail(w)
  <2>1. QueueOK' BY <1>3, RowEffect DEF Fail, TypeOK
  <2>2. mishaps' \subseteq {"taken", "reextracted", "cut", "missed", "shared"}
    BY <1>3, MishapType DEF Fail
  <2> QED BY <1>1, <1>3, <2>1, <2>2 DEF Fail, TypeOK, WorkType
<1>4. CASE Leave(w)
  <2>1. QueueOK' BY <1>4 DEF Leave, TypeOK, QueueOK
  <2>2. mishaps' \subseteq {"taken", "reextracted", "cut", "missed", "shared"}
    BY <1>4, MishapType DEF Leave
  <2> QED BY <1>1, <1>4, <2>1, <2>2 DEF Leave, TypeOK, WorkType
<1> QED BY <1>2, <1>3, <1>4

LEMMA TimeType ==
    ASSUME TypeOK, NEW id \in DOMAIN queue.jobs, Expire(id) \/ Retry(id)
    PROVE  TypeOK'
<1>1. QueueOK' BY RowEffect DEF Expire, Retry, TypeOK
<1>2. faults' \in Nat
  <2>1. CASE Expire(id)
    <3>1. faults' = faults \/ faults' = faults + 1 BY <2>1 DEF Expire
    <3> QED BY <3>1 DEF TypeOK
  <2>2. CASE Retry(id) BY <2>2 DEF Retry, TypeOK
  <2> QED BY <2>1, <2>2
<1> QED BY <1>1, <1>2 DEF Expire, Retry, TypeOK

LEMMA TypeStep ==
    ASSUME TypeOK, WorkInv, ChunkInv, [Next]_vars
    PROVE  TypeOK'
<1>1. CASE UNCHANGED vars BY <1>1 DEF vars, TypeOK, QueueOK
<1>2. CASE Next
  BY <1>2, IngestType, EnqueueExtractType, IngestStopsType, ReserveType, ExtractType,
     CheckType, EnqueueSealType, ReadBufferType, SummarizeType, IndexType, MarkType, EndType,
     TimeType
     DEF Next, Process, Time
<1> QED BY <1>1, <1>2

-----------------------------------------------------------------------------
(* Workers. *)

\* A worker that goes on keeps its job and what it has read, the others stay.
LEMMA GoesEffect ==
    ASSUME TypeOK, NEW w \in Workers, NEW p, Goes(w, p)
    PROVE  /\ work'[w].at = p /\ work'[w].id = work[w].id
           /\ work'[w].job = work[w].job /\ work'[w].left = work[w].left
           /\ \A v \in Workers : v # w => work'[v] = work[v]
BY DEF TypeOK, Goes

LEMMA MovesEffect ==
    ASSUME TypeOK, NEW w \in Workers, NEW p, NEW l,
           work' = [work EXCEPT ![w].at = p, ![w].left = l]
    PROVE  /\ work'[w].at = p /\ work'[w].id = work[w].id
           /\ work'[w].job = work[w].job /\ work'[w].left = l
           /\ \A v \in Workers : v # w => work'[v] = work[v]
BY DEF TypeOK

LEMMA RestsEffect ==
    ASSUME TypeOK, NEW w \in Workers, Rests(w)
    PROVE  /\ work'[w] = Resting
           /\ \A v \in Workers : v # w => work'[v] = work[v]
BY DEF TypeOK, Rests

LEMMA ReserveEffect ==
    ASSUME TypeOK, NEW w \in Workers, NEW id \in DOMAIN queue.jobs, Reserve(w, id)
    PROVE  /\ LET job == queue.jobs[id].job IN
                /\ job \in Jobs
                /\ work'[w].at = job.kind /\ work'[w].id = id
                /\ work'[w].job = job /\ work'[w].left = {}
           /\ id \in Nat \ {0}
           /\ \A v \in Workers : v # w => work'[v] = work[v]
<1>1. queue.jobs[id].job \in Jobs /\ id \in Nat \ {0} BY DEF TypeOK, QueueOK
<1>2. work' = [work EXCEPT ![w] = [at |-> queue.jobs[id].job.kind, id |-> id,
                                   job |-> queue.jobs[id].job, left |-> {}]]
  BY DEF Reserve
<1> QED BY <1>1, <1>2 DEF TypeOK

\* What ReadBuffer reads is the buffer; a worker that reads nothing is through.
LEMMA ReadBufferEffect ==
    ASSUME TypeOK, NEW w \in Workers, ReadBuffer(w)
    PROVE  LET b == Buffered(work[w].job.source) IN
           /\ work'[w].at = IF b = {} THEN "complete" ELSE "summarize"
           /\ work'[w].id = work[w].id
           /\ work'[w].job = work[w].job /\ work'[w].left = b
           /\ \A v \in Workers : v # w => work'[v] = work[v]
<1> DEFINE b == Buffered(work[w].job.source)
<1>1. work' = [work EXCEPT ![w].at = IF b = {} THEN "complete" ELSE "summarize",
                           ![w].left = b]
  BY DEF ReadBuffer
<1> DEFINE p == IF b = {} THEN "complete" ELSE "summarize"
<1> HIDE DEF b, p
<1>2. /\ work'[w].at = p /\ work'[w].id = work[w].id
      /\ work'[w].job = work[w].job /\ work'[w].left = b
      /\ \A v \in Workers : v # w => work'[v] = work[v]
  <2>1. work' = [work EXCEPT ![w].at = p, ![w].left = b] BY <1>1 DEF p
  <2> QED BY <2>1, MovesEffect
<1> QED BY <1>2 DEF b, p

LEMMA MarkEffect ==
    ASSUME TypeOK, NEW w \in Workers, NEW c \in Chunks, Mark(w, c)
    PROVE  LET l == work[w].left \ {c} IN
           /\ work'[w].at = IF l = {} THEN "complete" ELSE "mark"
           /\ work'[w].id = work[w].id
           /\ work'[w].job = work[w].job /\ work'[w].left = l
           /\ \A v \in Workers : v # w => work'[v] = work[v]
<1> DEFINE l == work[w].left \ {c}
<1>1. work' = [work EXCEPT ![w].at = IF l = {} THEN "complete" ELSE "mark",
                           ![w].left = l]
  BY DEF Mark, TypeOK
<1> DEFINE p == IF l = {} THEN "complete" ELSE "mark"
<1> HIDE DEF l, p
<1>2. /\ work'[w].at = p /\ work'[w].id = work[w].id
      /\ work'[w].job = work[w].job /\ work'[w].left = l
      /\ \A v \in Workers : v # w => work'[v] = work[v]
  <2>1. work' = [work EXCEPT ![w].at = p, ![w].left = l] BY <1>1 DEF p
  <2> QED BY <2>1, MovesEffect
<1> QED BY <1>2 DEF l, p

\* One worker moves, to a place that suits it.
LEMMA OneWorker ==
    ASSUME WorkInv, NEW w \in Workers, \A v \in Workers : v # w => work'[v] = work[v],
           WorkOK(work'[w])
    PROVE  WorkInv'
BY DEF WorkInv, WorkOK

LEMMA WorkStep ==
    ASSUME TypeOK, WorkInv, [Next]_vars
    PROVE  WorkInv'
<1>1. CASE UNCHANGED work BY <1>1 DEF WorkInv, WorkOK
<1>2. ASSUME NEW w \in Workers, NEW id \in DOMAIN queue.jobs, Reserve(w, id)
      PROVE  WorkInv'
  <2>1. WorkOK(work'[w]) BY <1>2, ReserveEffect, JobCases DEF WorkOK
  <2> QED BY <1>2, <2>1, ReserveEffect, OneWorker
<1>3. ASSUME NEW w \in Workers,
             Extract(w) \/ Check(w) \/ EnqueueSeal(w) \/ Summarize(w) \/ IndexSummary(w)
      PROVE  WorkInv'
  <2>1. work[w].at \in {"extract", "check", "enqueue", "summarize", "index"}
    BY <1>3 DEF Extract, Check, EnqueueSeal, Summarize, IndexSummary, At
  <2>2. WorkOK(work[w]) BY DEF WorkInv
  <2>3. PICK p : /\ Goes(w, p)
                 /\ p \in {"check", "enqueue", "complete", "index", "mark"}
                 /\ work[w].at \in {"summarize", "index"} <=> p \in {"index", "mark"}
    BY <1>3 DEF Extract, Check, EnqueueSeal, Summarize, IndexSummary, At
  <2>4. WorkOK(work'[w]) BY <2>1, <2>2, <2>3, GoesEffect DEF WorkOK
  <2> QED BY <2>3, <2>4, GoesEffect, OneWorker
<1>4. ASSUME NEW w \in Workers, ReadBuffer(w) PROVE WorkInv'
  <2>1. WorkOK(work[w]) /\ work[w].at = "seal" BY <1>4 DEF WorkInv, ReadBuffer, At
  <2>2. WorkOK(work'[w]) BY <1>4, <2>1, ReadBufferEffect DEF WorkOK
  <2> QED BY <1>4, <2>2, ReadBufferEffect, OneWorker
<1>5. ASSUME NEW w \in Workers, NEW c \in Chunks, Mark(w, c) PROVE WorkInv'
  <2>1. WorkOK(work[w]) /\ work[w].at = "mark" BY <1>5 DEF WorkInv, Mark, At
  <2>2. WorkOK(work'[w]) BY <1>5, <2>1, MarkEffect DEF WorkOK
  <2> QED BY <1>5, <2>2, MarkEffect, OneWorker
<1>6. ASSUME NEW w \in Workers, Complete(w) \/ Fail(w) \/ Leave(w) PROVE WorkInv'
  <2>1. Rests(w) BY <1>6 DEF Complete, Fail, Leave
  <2>2. WorkOK(work'[w]) BY <2>1, RestsEffect DEF WorkOK, Resting
  <2> QED BY <2>1, <2>2, RestsEffect, OneWorker
<1>7. ASSUME NEW i \in Callers, NEW d \in Documents, Ingest(i, d) PROVE UNCHANGED work
  BY <1>7 DEF Ingest
<1>8. ASSUME NEW i \in Callers, NEW c \in Chunks, EnqueueExtract(i, c)
      PROVE  UNCHANGED work
  BY <1>8 DEF EnqueueExtract
<1>9. ASSUME NEW i \in Callers, IngestStops(i) PROVE UNCHANGED work
  BY <1>9 DEF IngestStops
<1>10. ASSUME NEW id, Expire(id) \/ Retry(id) PROVE UNCHANGED work
  BY <1>10 DEF Expire, Retry
<1> QED BY <1>1, <1>2, <1>3, <1>4, <1>5, <1>6, <1>7, <1>8, <1>9, <1>10
        DEF Next, Process, Time, vars

-----------------------------------------------------------------------------
(* Chunks. *)

\* A chunk that was inserted stays so.
LEMMA StatusStays ==
    ASSUME TypeOK, [Next]_vars
    PROVE  \A c \in Chunks : status[c] # None => status'[c] # None
<1> USE ConstantsAssumption DEF TypeOK, Statuses
<1>1. CASE UNCHANGED status BY <1>1
<1>2. ASSUME NEW i \in Callers, NEW d \in Documents, Ingest(i, d)
      PROVE  \A c \in Chunks : status[c] # None => status'[c] # None
  BY <1>2 DEF Ingest
<1>3. ASSUME NEW w \in Workers, Extract(w)
      PROVE  \A c \in Chunks : status[c] # None => status'[c] # None
  BY <1>3 DEF Extract
<1>4. ASSUME NEW w \in Workers, NEW c \in Chunks, Mark(w, c)
      PROVE  \A e \in Chunks : status[e] # None => status'[e] # None
  BY <1>4 DEF Mark
<1> QED
  BY <1>1, <1>2, <1>3, <1>4
     DEF Next, Process, Time, EnqueueExtract, IngestStops, Reserve, Check, EnqueueSeal,
         ReadBuffer, Summarize, IndexSummary, Complete, Fail, Leave, Expire, Retry, vars

\* The jobs of the queue are those there were and those enqueued.
LEMMA QueueStep ==
    ASSUME TypeOK, WorkInv, ChunkInv, [Next]_vars, NEW id \in DOMAIN queue'.jobs
    PROVE  \/ /\ id \in DOMAIN queue.jobs
              /\ queue'.jobs[id].job = queue.jobs[id].job
           \/ /\ id > queue.minted
              /\ \E i \in Callers, c \in Chunks :
                   /\ EnqueueExtract(i, c)
                   /\ queue'.jobs[id].job = ExtractJob(c, doc[i].source)
           \/ /\ id > queue.minted
              /\ \E w \in Workers :
                   /\ EnqueueSeal(w)
                   /\ queue'.jobs[id].job = SealJob(work[w].job.source)
<1>q. QueueOK BY DEF TypeOK
<1>1. CASE UNCHANGED queue BY <1>1
<1>2. ASSUME NEW i \in Callers, NEW c \in Chunks, EnqueueExtract(i, c)
      PROVE  \/ /\ id \in DOMAIN queue.jobs
                /\ queue'.jobs[id].job = queue.jobs[id].job
             \/ /\ id > queue.minted
                /\ queue'.jobs[id].job = ExtractJob(c, doc[i].source)
  <2>1. ExtractJob(c, doc[i].source) \in Jobs BY <1>2, MakeJob DEF EnqueueExtract, ChunkInv
  <2>2. queue' = Enqueue(queue, ExtractJob(c, doc[i].source)) BY <1>2 DEF EnqueueExtract
  <2> QED BY <1>q, <2>1, <2>2, EnqueueEffect
<1>3. ASSUME NEW w \in Workers, EnqueueSeal(w)
      PROVE  \/ /\ id \in DOMAIN queue.jobs
                /\ queue'.jobs[id].job = queue.jobs[id].job
             \/ /\ id > queue.minted
                /\ queue'.jobs[id].job = SealJob(work[w].job.source)
  <2>1. ~At(w, "idle") BY <1>3 DEF EnqueueSeal, At
  <2>2. SealJob(work[w].job.source) \in Jobs
    BY <2>1, WorkOf, JobCases DEF Jobs, SealJob
  <2>3. queue' = Enqueue(queue, SealJob(work[w].job.source)) BY <1>3 DEF EnqueueSeal
  <2> QED BY <1>q, <2>2, <2>3, EnqueueEffect
<1>4. ASSUME NEW w \in Workers, NEW n \in DOMAIN queue.jobs, Reserve(w, n)
      PROVE  SameJobs
  BY <1>4, <1>q, RowEffect DEF Reserve
<1>5. ASSUME NEW w \in Workers, Fail(w) PROVE SameJobs
  BY <1>5, <1>q, RowEffect DEF Fail
<1>6. ASSUME NEW n \in DOMAIN queue.jobs, Expire(n) \/ Retry(n) PROVE SameJobs
  BY <1>6, <1>q, RowEffect DEF Expire, Retry
<1>7. ASSUME NEW w \in Workers, Complete(w)
      PROVE  id \in DOMAIN queue.jobs /\ queue'.jobs[id] = queue.jobs[id]
  BY <1>7, <1>q, CompleteEffect DEF Complete
<1> QED
  BY <1>1, <1>2, <1>3, <1>4, <1>5, <1>6, <1>7
     DEF SameJobs, Next, Process, Time, Ingest, IngestStops, Extract, Check,
         ReadBuffer, Summarize, IndexSummary, Mark, Leave, vars

\* Jobs of workers are the ones they had, or come from the queue.
LEMMA WorkerJob ==
    ASSUME TypeOK, [Next]_vars, NEW w \in Workers
    PROVE  \/ work'[w].job = work[w].job
           \/ work'[w] = Resting
           \/ \E id \in DOMAIN queue.jobs : work'[w].job = queue.jobs[id].job
<1>1. CASE UNCHANGED work BY <1>1
<1>2. ASSUME NEW v \in Workers, NEW id \in DOMAIN queue.jobs, Reserve(v, id)
      PROVE  work'[w] = work[w] \/ work'[w].job = queue.jobs[id].job
  BY <1>2, ReserveEffect
<1>3. ASSUME NEW v \in Workers, Extract(v) \/ Check(v) \/ EnqueueSeal(v) \/ Summarize(v)
                                \/ IndexSummary(v)
      PROVE  work'[w].job = work[w].job
  BY <1>3, GoesEffect DEF Extract, Check, EnqueueSeal, Summarize, IndexSummary
<1>4. ASSUME NEW v \in Workers, ReadBuffer(v) PROVE work'[w].job = work[w].job
  BY <1>4, ReadBufferEffect
<1>5. ASSUME NEW v \in Workers, NEW c \in Chunks, Mark(v, c)
      PROVE  work'[w].job = work[w].job
  BY <1>5, MarkEffect
<1>6. ASSUME NEW v \in Workers, Complete(v) \/ Fail(v) \/ Leave(v)
      PROVE  work'[w] = work[w] \/ work'[w] = Resting
  BY <1>6, RestsEffect DEF Complete, Fail, Leave
<1> QED
  BY <1>1, <1>2, <1>3, <1>4, <1>5, <1>6
     DEF Next, Process, Time, Ingest, EnqueueExtract, IngestStops, Expire, Retry, vars

\* Documents being ingested get shorter, but for a new one.
LEMMA DocStep ==
    ASSUME TypeOK, [Next]_vars, NEW i \in Callers
    PROVE  \/ doc'[i].chunks \subseteq doc[i].chunks /\ doc'[i].source = doc[i].source
           \/ doc'[i].chunks = {}
           \/ \E d \in Documents : Ingest(i, d) /\ doc'[i] = d
<1>1. CASE UNCHANGED doc BY <1>1
<1>2. ASSUME NEW j \in Callers, NEW d \in Documents, Ingest(j, d)
      PROVE  IF j = i THEN doc'[i] = d ELSE doc'[i] = doc[i]
  BY <1>2 DEF Ingest, TypeOK
<1>3. ASSUME NEW j \in Callers, NEW c \in Chunks, EnqueueExtract(j, c)
      PROVE  \/ doc'[i].chunks \subseteq doc[i].chunks /\ doc'[i].source = doc[i].source
             \/ doc'[i].chunks = {}
  BY <1>3 DEF EnqueueExtract, TypeOK, NoDoc
<1>4. ASSUME NEW j \in Callers, IngestStops(j)
      PROVE  doc'[i] = doc[i] \/ doc'[i].chunks = {}
  BY <1>4 DEF IngestStops, TypeOK, NoDoc
<1> QED
  BY <1>1, <1>2, <1>3, <1>4
     DEF Next, Process, Time, Reserve, Extract, Check, EnqueueSeal, ReadBuffer, Summarize,
         IndexSummary, Mark, Complete, Fail, Leave, Expire, Retry, vars

\* Sources of chunks and what may be in the buffer.
LEMMA HomeStep ==
    ASSUME TypeOK, WorkInv, ChunkInv, [Next]_vars, NEW c \in Chunks
    PROVE  /\ status'[c] # None => home'[c] \in Sources
           /\ status'[c] = "buffered" => c \notin Low
           /\ status[c] # None => home'[c] = home[c]
<1> USE ConstantsAssumption DEF TypeOK, Statuses
<1>1. CASE UNCHANGED <<status, home>> BY <1>1 DEF ChunkInv
<1>2. ASSUME NEW i \in Callers, NEW d \in Documents, Ingest(i, d)
      PROVE  /\ status'[c] # None => home'[c] \in Sources
             /\ status'[c] = "buffered" => c \notin Low
             /\ status[c] # None => home'[c] = home[c]
  <2>1. d.source \in Sources BY Zenon
  <2>2. CASE status[c] = None BY <1>2, <2>1, <2>2 DEF Ingest
  <2>3. CASE status[c] # None
    <3>1. status'[c] = status[c] /\ home'[c] = home[c] BY <1>2, <2>3 DEF Ingest
    <3> QED BY <3>1, <2>3 DEF ChunkInv
  <2> QED BY <2>2, <2>3
<1>3. ASSUME NEW w \in Workers, Extract(w)
      PROVE  /\ status'[c] # None => home'[c] \in Sources
             /\ status'[c] = "buffered" => c \notin Low
             /\ home' = home
  <2>1. Inserted(work[w].job) /\ work[w].job.kind = "extract"
    BY <1>3 DEF ChunkInv, WorkInv, WorkOK, Extract, At
  <2>2. c = work[w].job.chunk => status[c] # None BY <2>1 DEF Inserted
  <2> QED BY <1>3, <2>2 DEF ChunkInv, Extract
<1>4. ASSUME NEW w \in Workers, NEW e \in Chunks, Mark(w, e)
      PROVE  /\ status'[c] # None => home'[c] \in Sources
             /\ status'[c] = "buffered" => c \notin Low
             /\ home' = home
  <2>1. status[e] # None BY <1>4 DEF ChunkInv, Mark
  <2> QED BY <1>4, <2>1 DEF ChunkInv, Mark
<1> QED
  BY <1>1, <1>2, <1>3, <1>4
     DEF Next, Process, Time, EnqueueExtract, IngestStops, Reserve, Check, EnqueueSeal,
         ReadBuffer, Summarize, IndexSummary, Complete, Fail, Leave, Expire, Retry, vars

\* What a worker has read is in the buffer when it reads it.
LEMMA LeftStep ==
    ASSUME TypeOK, [Next]_vars, NEW w \in Workers
    PROVE  \/ work'[w].left \subseteq work[w].left /\ work'[w].job = work[w].job
           \/ work'[w].left = {}
           \/ /\ ReadBuffer(w)
              /\ work'[w].left = Buffered(work[w].job.source)
              /\ work'[w].job = work[w].job
<1>1. CASE UNCHANGED work BY <1>1
<1>2. ASSUME NEW v \in Workers, NEW id \in DOMAIN queue.jobs, Reserve(v, id)
      PROVE  work'[w] = work[w] \/ work'[w].left = {}
  BY <1>2, ReserveEffect
<1>3. ASSUME NEW v \in Workers, Extract(v) \/ Check(v) \/ EnqueueSeal(v) \/ Summarize(v)
                                \/ IndexSummary(v)
      PROVE  work'[w].left = work[w].left /\ work'[w].job = work[w].job
  BY <1>3, GoesEffect DEF Extract, Check, EnqueueSeal, Summarize, IndexSummary
<1>4. ASSUME NEW v \in Workers, ReadBuffer(v)
      PROVE  IF v = w THEN /\ work'[w].left = Buffered(work[w].job.source)
                           /\ work'[w].job = work[w].job
                      ELSE work'[w] = work[w]
  BY <1>4, ReadBufferEffect
<1>5. ASSUME NEW v \in Workers, NEW c \in Chunks, Mark(v, c)
      PROVE  work'[w].left \subseteq work[w].left /\ work'[w].job = work[w].job
  BY <1>5, MarkEffect
<1>6. ASSUME NEW v \in Workers, Complete(v) \/ Fail(v) \/ Leave(v)
      PROVE  work'[w] = work[w] \/ work'[w].left = {}
  BY <1>6, RestsEffect DEF Complete, Fail, Leave, Resting
<1> QED
  BY <1>1, <1>2, <1>3, <1>4, <1>5, <1>6
     DEF Next, Process, Time, Ingest, EnqueueExtract, IngestStops, Expire, Retry, vars

LEMMA ChunkStep ==
    ASSUME TypeOK, WorkInv, ChunkInv, [Next]_vars
    PROVE  ChunkInv'
<1>1. \A c \in Chunks : status'[c] # None => home'[c] \in Sources BY HomeStep
<1>2. \A c \in Chunks : status'[c] = "buffered" => c \notin Low BY HomeStep
<1>3. ASSUME NEW job \in Jobs, Inserted(job), job.kind = "extract"
      PROVE  status'[job.chunk] # None
  BY <1>3, JobCases, StatusStays DEF Inserted
<1>4. ASSUME NEW id \in DOMAIN queue'.jobs, queue'.jobs[id].job.kind = "extract"
      PROVE  status'[queue'.jobs[id].job.chunk] # None
  <2>1. CASE id \in DOMAIN queue.jobs /\ queue'.jobs[id].job = queue.jobs[id].job
    BY <2>1, <1>3, <1>4 DEF TypeOK, QueueOK, ChunkInv
  <2>2. ASSUME NEW i \in Callers, NEW c \in Chunks, EnqueueExtract(i, c),
               queue'.jobs[id].job = ExtractJob(c, doc[i].source)
        PROVE  status'[queue'.jobs[id].job.chunk] # None
    <3>1. status[c] # None BY <2>2 DEF EnqueueExtract, ChunkInv
    <3> QED BY <2>2, <3>1, StatusStays DEF ExtractJob
  <2>3. \A s : SealJob(s).kind # "extract" BY DEF SealJob
  <2>4. \/ id \in DOMAIN queue.jobs /\ queue'.jobs[id].job = queue.jobs[id].job
        \/ \E i \in Callers, c \in Chunks :
             EnqueueExtract(i, c) /\ queue'.jobs[id].job = ExtractJob(c, doc[i].source)
        \/ \E s : queue'.jobs[id].job = SealJob(s)
    BY QueueStep
  <2> QED BY <2>1, <2>2, <2>3, <2>4, <1>4
<1>5. ASSUME NEW w \in Workers, work'[w].job.kind = "extract"
      PROVE  status'[work'[w].job.chunk] # None
  <2>1. CASE work'[w].job = work[w].job
    <3>1. ~At(w, "idle")
      BY <2>1, <1>5 DEF WorkInv, WorkOK, Resting, NoJob, At
    <3> QED BY <2>1, <3>1, <1>3, <1>5, WorkOf DEF ChunkInv
  <2>2. ASSUME NEW id \in DOMAIN queue.jobs, work'[w].job = queue.jobs[id].job
        PROVE  status'[work'[w].job.chunk] # None
    BY <2>2, <1>3, <1>5 DEF TypeOK, QueueOK, ChunkInv
  <2> QED BY <2>1, <2>2, <1>5, WorkerJob DEF Resting, NoJob
<1>6. ASSUME NEW w \in Workers, NEW c \in work'[w].left
      PROVE  status'[c] # None /\ home'[c] = work'[w].job.source
  <2>1. CASE c \in work[w].left /\ work'[w].job = work[w].job
    BY <2>1, StatusStays, HomeStep DEF ChunkInv, TypeOK
  <2>2. CASE /\ c \in Buffered(work[w].job.source)
             /\ work'[w].job = work[w].job
    BY <2>2, StatusStays, HomeStep, ConstantsAssumption DEF Buffered, Statuses
  <2> QED BY <2>1, <2>2, <1>6, LeftStep
<1>7. ASSUME NEW i \in Callers, NEW c \in doc'[i].chunks
      PROVE  status'[c] # None /\ doc'[i].source \in Sources
  <2>1. CASE c \in doc[i].chunks /\ doc'[i].source = doc[i].source
    BY <2>1, StatusStays DEF ChunkInv, TypeOK
  <2>2. ASSUME NEW d \in Documents, Ingest(i, d), doc'[i] = d
        PROVE  status'[c] # None /\ doc'[i].source \in Sources
    <3>1. d.source \in Sources /\ d.chunks \subseteq Chunks
      BY ConstantsAssumption, Zenon
    <3>2. status'[c] = IF status[c] = None THEN "pending_extraction" ELSE status[c]
      BY <1>7, <2>2, <3>1 DEF Ingest
    <3> QED BY <2>2, <3>1, <3>2, ConstantsAssumption DEF Statuses
  <2> QED BY <2>1, <2>2, <1>7, DocStep
<1> QED BY <1>1, <1>2, <1>4, <1>5, <1>6, <1>7 DEF ChunkInv, Inserted

\* What is marked was summarised by the worker that marks it.
LEMMA SummaryStep ==
    ASSUME TypeOK, WorkInv, SummaryInv, [Next]_vars
    PROVE  SummaryInv'
<1>1. ASSUME NEW c \in Chunks, times[c] > 0 PROVE times'[c] > 0
  <2>1. ASSUME NEW w \in Workers, Summarize(w) PROVE times'[c] > 0
    <3>1. times'[c] = times[c] + (IF c \in work[w].left THEN 1 ELSE 0)
      BY <2>1 DEF Summarize
    <3>2. times[c] \in Nat BY DEF TypeOK
    <3> QED BY <3>1, <3>2, <1>1
  <2>2. CASE UNCHANGED times BY <2>2, <1>1
  <2> QED
    BY <2>1, <2>2
       DEF Next, Process, Time, Ingest, EnqueueExtract, IngestStops, Reserve, Extract, Check,
           EnqueueSeal, ReadBuffer, IndexSummary, Mark, Complete, Fail, Leave, Expire,
           Retry, vars
<1>2. ASSUME NEW c \in Chunks, status'[c] = "sealed" PROVE times'[c] > 0
  <2>1. CASE status[c] = "sealed" BY <2>1, <1>1 DEF SummaryInv, SealedIsSummarized
  <2>2. ASSUME NEW w \in Workers, NEW e \in Chunks, Mark(w, e), status[c] # "sealed"
        PROVE  times'[c] > 0
    <3>1. e = c BY <2>2, <1>2 DEF Mark, TypeOK
    <3>2. times[c] > 0 BY <2>2, <3>1 DEF Mark, SummaryInv, Summarized
    <3> QED BY <1>1, <3>2
  <2>3. ASSUME NEW i \in Callers, NEW d \in Documents, Ingest(i, d) PROVE status[c] = "sealed"
    BY <2>3, <1>2 DEF Ingest
  <2>4. ASSUME NEW w \in Workers, Extract(w) PROVE status[c] = "sealed"
    BY <2>4, <1>2 DEF Extract, TypeOK
  <2>5. CASE UNCHANGED status BY <2>1, <2>5, <1>2
  <2> QED
    BY <2>1, <2>2, <2>3, <2>4, <2>5
       DEF Next, Process, Time, EnqueueExtract, IngestStops, Reserve, Check, EnqueueSeal,
           ReadBuffer, Summarize, IndexSummary, Complete, Fail, Leave, Expire, Retry, vars
<1>3. ASSUME NEW w \in Workers, work'[w].at \in {"index", "mark"}, NEW c \in work'[w].left
      PROVE  times'[c] > 0
  <2>1. CASE work[w].at \in {"index", "mark"} /\ c \in work[w].left
    BY <2>1, <1>1 DEF SummaryInv, Summarized, At, TypeOK
  <2>2. ASSUME Summarize(w), c \in work[w].left PROVE times'[c] > 0
    <3>1. times'[c] = times[c] + 1 /\ times[c] \in Nat BY <2>2 DEF Summarize, TypeOK
    <3> QED BY <3>1
  <2>3. \/ work[w].at \in {"index", "mark"} /\ c \in work[w].left
        \/ Summarize(w) /\ c \in work[w].left
    <3>1. CASE UNCHANGED work BY <3>1, <1>3
    <3>2. ASSUME NEW v \in Workers, NEW id \in DOMAIN queue.jobs, Reserve(v, id)
          PROVE  work'[w] = work[w]
      BY <3>2, <1>3, ReserveEffect
    <3>3. ASSUME NEW v \in Workers, Extract(v) \/ Check(v) \/ EnqueueSeal(v)
          PROVE  work'[w] = work[w]
      BY <3>3, <1>3, GoesEffect DEF Extract, Check, EnqueueSeal
    <3>4. ASSUME NEW v \in Workers, Summarize(v)
          PROVE  work'[w] = work[w] \/ (Summarize(w) /\ c \in work[w].left)
      BY <3>4, <1>3, GoesEffect DEF Summarize
    <3>8. ASSUME NEW v \in Workers, IndexSummary(v)
          PROVE  work[w].at \in {"index", "mark"} /\ c \in work[w].left
      BY <3>8, <1>3, GoesEffect DEF IndexSummary, At
    <3>5. ASSUME NEW v \in Workers, ReadBuffer(v) PROVE work'[w] = work[w]
      BY <3>5, <1>3, ReadBufferEffect
    <3>6. ASSUME NEW v \in Workers, NEW e \in Chunks, Mark(v, e)
          PROVE  work[w].at \in {"index", "mark"} /\ c \in work[w].left
      BY <3>6, <1>3, MarkEffect DEF Mark, At
    <3>7. ASSUME NEW v \in Workers, Complete(v) \/ Fail(v) \/ Leave(v)
          PROVE  work'[w] = work[w]
      BY <3>7, <1>3, RestsEffect DEF Complete, Fail, Leave, Resting
    <3> QED
      BY <1>3, <3>1, <3>2, <3>3, <3>4, <3>5, <3>6, <3>7, <3>8
         DEF Next, Process, Time, Ingest, EnqueueExtract, IngestStops, Expire, Retry, vars
  <2> QED BY <2>1, <2>2, <2>3
<1> QED BY <1>2, <1>3 DEF SummaryInv, SealedIsSummarized, Summarized, At

-----------------------------------------------------------------------------
(* Whose job it is. *)

\* What happened stays known.
LEMMA MishapsGrow ==
    ASSUME [Next]_vars
    PROVE  mishaps \subseteq mishaps'
BY DEF Next, Process, Time, Ingest, EnqueueExtract, IngestStops, Reserve, Extract, Check,
       EnqueueSeal, ReadBuffer, Summarize, IndexSummary, Mark, Complete, Fail, Leave,
       Expire, Retry,
       Mishap, vars

\* A job leaves the table when a worker that has its id completes it.
LEMMA QueueStays ==
    ASSUME TypeOK, WorkInv, ChunkInv, [Next]_vars, NEW id \in DOMAIN queue.jobs
    PROVE  \/ id \in DOMAIN queue'.jobs /\ queue'.jobs[id].job = queue.jobs[id].job
           \/ \E w \in Workers : Complete(w) /\ work[w].id = id
<1>q. QueueOK BY DEF TypeOK
<1>1. CASE UNCHANGED queue BY <1>1
<1>2. ASSUME NEW i \in Callers, NEW c \in Chunks, EnqueueExtract(i, c)
      PROVE  id \in DOMAIN queue'.jobs /\ queue'.jobs[id] = queue.jobs[id]
  <2>1. ExtractJob(c, doc[i].source) \in Jobs BY <1>2, MakeJob DEF EnqueueExtract, ChunkInv
  <2> QED BY <1>2, <1>q, <2>1, EnqueueEffect DEF EnqueueExtract
<1>3. ASSUME NEW w \in Workers, EnqueueSeal(w)
      PROVE  id \in DOMAIN queue'.jobs /\ queue'.jobs[id] = queue.jobs[id]
  <2>1. ~At(w, "idle") BY <1>3 DEF EnqueueSeal, At
  <2>2. SealJob(work[w].job.source) \in Jobs
    BY <2>1, WorkOf, JobCases DEF Jobs, SealJob
  <2> QED BY <1>3, <1>q, <2>2, EnqueueEffect DEF EnqueueSeal
<1>4. ASSUME NEW w \in Workers, NEW n \in DOMAIN queue.jobs, Reserve(w, n)
      PROVE  SameJobs
  BY <1>4, <1>q, RowEffect DEF Reserve
<1>5. ASSUME NEW w \in Workers, Fail(w) PROVE SameJobs
  BY <1>5, <1>q, RowEffect DEF Fail
<1>6. ASSUME NEW n \in DOMAIN queue.jobs, Expire(n) \/ Retry(n) PROVE SameJobs
  BY <1>6, <1>q, RowEffect DEF Expire, Retry
<1>7. ASSUME NEW w \in Workers, Complete(w), work[w].id # id
      PROVE  id \in DOMAIN queue'.jobs /\ queue'.jobs[id] = queue.jobs[id]
  BY <1>7, <1>q, CompleteEffect DEF Complete
<1> QED
  BY <1>1, <1>2, <1>3, <1>4, <1>5, <1>6, <1>7
     DEF SameJobs, Next, Process, Time, Ingest, IngestStops, Extract, Check,
         ReadBuffer, Summarize, IndexSummary, Mark, Leave, vars

\* A busy worker goes on with its job, or has taken one from the queue.
LEMMA BusyStep ==
    ASSUME TypeOK, [Next]_vars, NEW w \in Workers, work'[w].at # "idle"
    PROVE  \/ /\ work[w].at # "idle"
              /\ work'[w].id = work[w].id /\ work'[w].job = work[w].job
           \/ \E id \in DOMAIN queue.jobs : Reserve(w, id)
<1>1. CASE UNCHANGED work BY <1>1
<1>2. ASSUME NEW v \in Workers, NEW id \in DOMAIN queue.jobs, Reserve(v, id)
      PROVE  work'[w] = work[w] \/ v = w
  BY <1>2, ReserveEffect
<1>3. ASSUME NEW v \in Workers, Extract(v) \/ Check(v) \/ EnqueueSeal(v) \/ Summarize(v)
                                \/ IndexSummary(v)
      PROVE  /\ work[w].at # "idle"
             /\ work'[w].id = work[w].id /\ work'[w].job = work[w].job
  <2>1. work[v].at # "idle" BY <1>3 DEF Extract, Check, EnqueueSeal, Summarize, IndexSummary, At
  <2> QED BY <1>3, <2>1, GoesEffect DEF Extract, Check, EnqueueSeal, Summarize, IndexSummary
<1>4. ASSUME NEW v \in Workers, ReadBuffer(v)
      PROVE  /\ work[w].at # "idle"
             /\ work'[w].id = work[w].id /\ work'[w].job = work[w].job
  <2>1. work[v].at # "idle" BY <1>4 DEF ReadBuffer, At
  <2> QED BY <1>4, <2>1, ReadBufferEffect
<1>5. ASSUME NEW v \in Workers, NEW c \in Chunks, Mark(v, c)
      PROVE  /\ work[w].at # "idle"
             /\ work'[w].id = work[w].id /\ work'[w].job = work[w].job
  <2>1. work[v].at # "idle" BY <1>5 DEF Mark, At
  <2> QED BY <1>5, <2>1, MarkEffect
<1>6. ASSUME NEW v \in Workers, Complete(v) \/ Fail(v) \/ Leave(v)
      PROVE  work'[w] = work[w]
  BY <1>6, RestsEffect DEF Complete, Fail, Leave, Resting
<1> QED
  BY <1>1, <1>2, <1>3, <1>4, <1>5, <1>6
     DEF Next, Process, Time, Ingest, EnqueueExtract, IngestStops, Expire, Retry, vars

LEMMA HeldStep ==
    ASSUME TypeOK, WorkInv, ChunkInv, HeldInv, [Next]_vars
    PROVE  HeldInv'
<1> SUFFICES ASSUME "taken" \notin mishaps'
             PROVE  /\ \A v, w \in Workers :
                         /\ work'[v].at # "idle" /\ work'[w].at # "idle"
                         /\ work'[v].id = work'[w].id
                         => v = w
                    /\ \A w \in Workers : work'[w].at # "idle" =>
                         /\ work'[w].id \in DOMAIN queue'.jobs
                         /\ queue'.jobs[work'[w].id].job = work'[w].job
  BY DEF HeldInv, At
<1>1. "taken" \notin mishaps BY MishapsGrow
<1>2. \A w \in Workers : work[w].at # "idle" =>
        work[w].id \in DOMAIN queue.jobs /\ queue.jobs[work[w].id].job = work[w].job
  BY <1>1 DEF HeldInv, At
<1>3. \A v, w \in Workers :
        work[v].at # "idle" /\ work[w].at # "idle" /\ work[v].id = work[w].id => v = w
  BY <1>1 DEF HeldInv, At
<1>4. ASSUME NEW v \in Workers, NEW id \in DOMAIN queue.jobs, Reserve(v, id)
      PROVE  /\ work[v].at = "idle"
             /\ \A w \in Workers : work[w].id # id
             /\ \A w \in Workers : w # v => work'[w] = work[w]
             /\ work'[v].id = id /\ work'[v].job = queue.jobs[id].job
             /\ id \in DOMAIN queue'.jobs /\ queue'.jobs[id].job = queue.jobs[id].job
  <2>1. \A w \in Workers : work[w].id # id BY <1>4 DEF Reserve, Mishap
  <2>2. SameJobs BY <1>4, RowEffect DEF Reserve, TypeOK
  <2> QED BY <1>4, <2>1, <2>2, ReserveEffect DEF SameJobs, Reserve, At
<1>5. ASSUME NEW v \in Workers, NEW w \in Workers, v # w,
             work'[v].at # "idle", work'[w].at # "idle", work'[v].id = work'[w].id
      PROVE  FALSE
  <2>1. CASE /\ work[v].at # "idle" /\ work'[v].id = work[v].id
             /\ work[w].at # "idle" /\ work'[w].id = work[w].id
    BY <1>3, <1>5, <2>1
  <2>2. ASSUME NEW id \in DOMAIN queue.jobs, Reserve(v, id) PROVE FALSE
    BY <1>4, <1>5, <2>2
  <2>3. ASSUME NEW id \in DOMAIN queue.jobs, Reserve(w, id) PROVE FALSE
    BY <1>4, <1>5, <2>3
  <2> QED BY <1>5, <2>1, <2>2, <2>3, BusyStep
<1>6. ASSUME NEW w \in Workers, work'[w].at # "idle"
      PROVE  /\ work'[w].id \in DOMAIN queue'.jobs
             /\ queue'.jobs[work'[w].id].job = work'[w].job
  <2>1. CASE /\ work[w].at # "idle"
             /\ work'[w].id = work[w].id /\ work'[w].job = work[w].job
    <3>1. ASSUME NEW u \in Workers, Complete(u), work[u].id = work[w].id PROVE FALSE
      <4>1. work[u].at # "idle" BY <3>1 DEF Complete, At
      <4>2. u = w BY <1>3, <2>1, <3>1, <4>1
      <4> QED BY <1>6, <3>1, <4>2, RestsEffect DEF Complete, Resting
    <3> QED BY <1>2, <2>1, <3>1, QueueStays
  <2>2. ASSUME NEW id \in DOMAIN queue.jobs, Reserve(w, id)
        PROVE  /\ work'[w].id \in DOMAIN queue'.jobs
               /\ queue'.jobs[work'[w].id].job = work'[w].job
    BY <1>4, <2>2
  <2> QED BY <1>6, <2>1, <2>2, BusyStep
<1> QED BY <1>5, <1>6

\* While no job was taken, two workers at seal jobs are at those of two sources.
LEMMA OneSealer ==
    ASSUME TypeOK, WorkInv, HeldInv, "taken" \notin mishaps,
           NEW v \in Workers, NEW w \in Workers,
           work[v].job.kind = "seal", work[w].job.kind = "seal",
           work[v].job.source = work[w].job.source
    PROVE  v = w
<1>1. ~At(v, "idle") /\ ~At(w, "idle")
  BY DEF WorkInv, WorkOK, Resting, NoJob, At
<1>2. SameKey(work[v].job, work[w].job) BY DEF SameKey
<1> QED BY <1>1, <1>2 DEF HeldInv, TypeOK, QueueOK

-----------------------------------------------------------------------------
(* Summarised once. *)

\* A chunk that a worker has read stays in the buffer until this worker marks it.
LEMMA ReadStays ==
    ASSUME TypeOK, WorkInv, ChunkInv, HeldInv, OnceInv, [Next]_vars,
           mishaps' \subseteq {"missed", "shared"},
           NEW w \in Workers, NEW c \in work'[w].left
    PROVE  status'[c] = "buffered"
<1>1. mishaps \subseteq {"missed", "shared"} /\ "taken" \notin mishaps BY MishapsGrow
<1>2. \A v \in Workers : \A e \in work[v].left :
        /\ status[e] = "buffered" /\ home[e] = work[v].job.source
        /\ work[v].job.kind = "seal" /\ e \in Chunks
  BY <1>1 DEF OnceInv, ChunkInv, WorkInv, WorkOK, TypeOK
<1>3. CASE c \in work[w].left /\ work'[w].job = work[w].job
  <2>1. status[c] = "buffered" /\ c \in Chunks /\ home[c] = work[w].job.source
    BY <1>2, <1>3
  <2>2. status'[c] = "buffered"
    <3>1. CASE UNCHANGED status BY <2>1, <3>1
    <3>2. ASSUME NEW i \in Callers, NEW d \in Documents, Ingest(i, d)
          PROVE  status'[c] = "buffered"
      BY <2>1, <3>2, ConstantsAssumption DEF Ingest, Statuses
    <3>3. ASSUME NEW v \in Workers, Extract(v) PROVE status'[c] = "buffered"
      BY <2>1, <3>3 DEF Extract, TypeOK, ChunkInv
    <3>4. ASSUME NEW v \in Workers, NEW e \in Chunks, Mark(v, e)
          PROVE  status'[c] = "buffered"
      <4>1. CASE e # c BY <2>1, <3>4, <4>1 DEF Mark, TypeOK
      <4>2. CASE e = c
        <5>1. c \in work[v].left BY <3>4, <4>2 DEF Mark
        <5>2. v = w BY <1>1, <1>2, <1>3, <5>1, OneSealer
        <5>3. c \notin work'[w].left BY <3>4, <4>2, <5>2, MarkEffect
        <5> QED BY <5>3
      <4> QED BY <4>1, <4>2
    <3> QED
      BY <3>1, <3>2, <3>3, <3>4
         DEF Next, Process, Time, EnqueueExtract, IngestStops, Reserve, Check, EnqueueSeal,
             ReadBuffer, Summarize, IndexSummary, Complete, Fail, Leave, Expire, Retry, vars
  <2> QED BY <2>2
<1>4. CASE /\ ReadBuffer(w)
           /\ c \in Buffered(work[w].job.source)
  BY <1>4 DEF ReadBuffer, Buffered
<1> QED BY <1>3, <1>4, LeftStep

\* A step that leaves statuses, summaries and the workers at their marks alone.
LEMMA TimesStay ==
    ASSUME OnceInv, mishaps \subseteq {"missed", "shared"}, NEW c \in Chunks,
           times' = times, status'[c] = "sealed" <=> status[c] = "sealed",
           \A w \in Workers :
             /\ work[w].at \in {"index", "mark"} <=> work'[w].at \in {"index", "mark"}
             /\ work[w].at \in {"index", "mark"} => work'[w].left = work[w].left
    PROVE  times'[c] = IF status'[c] = "sealed" \/ Marking(c)' THEN 1 ELSE 0
BY DEF OnceInv, Marking, Summarized, At

LEMMA OnceStep ==
    ASSUME TypeOK, WorkInv, ChunkInv, HeldInv, OnceInv, [Next]_vars
    PROVE  OnceInv'
<1> SUFFICES ASSUME mishaps' \subseteq {"missed", "shared"}, NEW c \in Chunks
             PROVE  times'[c] = IF status'[c] = "sealed" \/ Marking(c)' THEN 1 ELSE 0
  BY ReadStays DEF OnceInv
<1>1. mishaps \subseteq {"missed", "shared"} /\ "taken" \notin mishaps BY MishapsGrow
<1>2. CASE UNCHANGED <<status, times, work>> BY <1>1, <1>2, TimesStay
<1>3. ASSUME NEW i \in Callers, NEW d \in Documents, Ingest(i, d)
      PROVE  times'[c] = IF status'[c] = "sealed" \/ Marking(c)' THEN 1 ELSE 0
  <2>1. status'[c] = "sealed" <=> status[c] = "sealed"
    BY <1>3, ConstantsAssumption DEF Ingest, Statuses
  <2> QED BY <1>1, <1>3, <2>1, TimesStay DEF Ingest
<1>4. ASSUME NEW w \in Workers, NEW id \in DOMAIN queue.jobs, Reserve(w, id)
      PROVE  times'[c] = IF status'[c] = "sealed" \/ Marking(c)' THEN 1 ELSE 0
  <2>1. work[w].at \notin {"index", "mark"} BY <1>4 DEF Reserve, At
  <2>2. work'[w].at \notin {"index", "mark"} BY <1>4, ReserveEffect, JobCases
  <2>3. \A v \in Workers : v # w => work'[v] = work[v] BY <1>4, ReserveEffect
  <2> QED BY <1>1, <1>4, <2>1, <2>2, <2>3, TimesStay DEF Reserve
<1>5. ASSUME NEW w \in Workers, Extract(w)
      PROVE  times'[c] = IF status'[c] = "sealed" \/ Marking(c)' THEN 1 ELSE 0
  <2>1. status'[c] = "sealed" <=> status[c] = "sealed"
    <3>1. status[work[w].job.chunk] # "sealed" BY <1>5 DEF Extract, Mishap
    <3> QED BY <1>5, <3>1 DEF Extract, TypeOK
  <2>2. /\ work[w].at \notin {"index", "mark"} /\ work'[w].at \notin {"index", "mark"}
        /\ \A v \in Workers : v # w => work'[v] = work[v]
    BY <1>5, GoesEffect DEF Extract, At
  <2> QED BY <1>1, <1>5, <2>1, <2>2, TimesStay DEF Extract
<1>6. ASSUME NEW w \in Workers, Check(w) \/ EnqueueSeal(w) \/ ReadBuffer(w)
      PROVE  times'[c] = IF status'[c] = "sealed" \/ Marking(c)' THEN 1 ELSE 0
  <2>1. /\ work[w].at \notin {"index", "mark"} /\ work'[w].at \notin {"index", "mark"}
        /\ \A v \in Workers : v # w => work'[v] = work[v]
    <3>1. CASE Check(w) \/ EnqueueSeal(w)
      BY <3>1, GoesEffect DEF Check, EnqueueSeal, At
    <3>2. CASE ReadBuffer(w)
      <4>1. work[w].at \notin {"index", "mark"} BY <3>2 DEF ReadBuffer, At
      <4>2. /\ work'[w].at \notin {"index", "mark"}
            /\ \A v \in Workers : v # w => work'[v] = work[v]
        BY <3>2, ReadBufferEffect
      <4> QED BY <4>1, <4>2
    <3> QED BY <1>6, <3>1, <3>2
  <2> QED BY <1>1, <1>6, <2>1, TimesStay DEF Check, EnqueueSeal, ReadBuffer
<1>7. ASSUME NEW w \in Workers, Complete(w) \/ Fail(w) \/ Leave(w)
      PROVE  times'[c] = IF status'[c] = "sealed" \/ Marking(c)' THEN 1 ELSE 0
  <2>1. work[w].at \notin {"index", "mark"}
    BY <1>7 DEF Complete, Fail, Leave, Mishap, Summarized, At
  <2>2. work'[w].at \notin {"index", "mark"} /\ \A v \in Workers : v # w => work'[v] = work[v]
    BY <1>7, RestsEffect DEF Complete, Fail, Leave, Resting
  <2> QED BY <1>1, <1>7, <2>1, <2>2, TimesStay DEF Complete, Fail, Leave
<1>8. ASSUME NEW w \in Workers, Summarize(w)
      PROVE  times'[c] = IF status'[c] = "sealed" \/ Marking(c)' THEN 1 ELSE 0
  <2>1. /\ work[w].at = "summarize" /\ status' = status
        /\ times'[c] = times[c] + (IF c \in work[w].left THEN 1 ELSE 0)
    BY <1>8 DEF Summarize, At
  <2>2. /\ work'[w].at = "index" /\ work'[w].left = work[w].left
        /\ \A v \in Workers : v # w => work'[v] = work[v]
    BY <1>8, GoesEffect DEF Summarize
  <2>3. times[c] = IF status[c] = "sealed" \/ Marking(c) THEN 1 ELSE 0
    BY <1>1 DEF OnceInv
  <2>4. CASE c \in work[w].left
    <3>1. status[c] = "buffered" /\ home[c] = work[w].job.source
      BY <1>1, <2>4 DEF OnceInv, ChunkInv
    <3>2. ASSUME NEW v \in Workers, work[v].at \in {"index", "mark"},
                 c \in work[v].left
          PROVE  FALSE
      <4>1. home[c] = work[v].job.source BY <3>2 DEF ChunkInv
      <4>2. work[v].job.kind = "seal" /\ work[w].job.kind = "seal"
        BY <2>1, <3>2 DEF WorkInv, WorkOK
      <4> QED BY <1>1, <2>1, <3>1, <3>2, <4>1, <4>2, OneSealer
    <3>3. times[c] = 0 BY <2>3, <3>1, <3>2 DEF Marking, Summarized, At
    <3>4. Marking(c)' BY <2>2, <2>4 DEF Marking, Summarized, At
    <3> QED BY <2>1, <2>4, <3>3, <3>4
  <2>5. CASE c \notin work[w].left
    <3>1. Marking(c)' <=> Marking(c) BY <2>1, <2>2, <2>5 DEF Marking, Summarized, At
    <3>2. times'[c] = times[c] BY <2>1, <2>5 DEF TypeOK
    <3> QED BY <2>1, <2>3, <3>1, <3>2
  <2> QED BY <2>4, <2>5
<1>9. ASSUME NEW w \in Workers, NEW e \in Chunks, Mark(w, e)
      PROVE  times'[c] = IF status'[c] = "sealed" \/ Marking(c)' THEN 1 ELSE 0
  <2>1. /\ work[w].at = "mark" /\ e \in work[w].left /\ times' = times
        /\ status'[c] = IF c = e THEN "sealed" ELSE status[c]
    BY <1>9 DEF Mark, At, TypeOK
  <2>2. times[c] = IF status[c] = "sealed" \/ Marking(c) THEN 1 ELSE 0
    BY <1>1 DEF OnceInv
  <2>3. CASE c = e
    <3>1. Marking(c) BY <2>1, <2>3 DEF Marking, Summarized, At
    <3> QED BY <2>1, <2>2, <2>3, <3>1
  <2>4. CASE c # e
    <3>1. /\ work'[w].at = "mark" /\ c \in work'[w].left <=> c \in work[w].left
          /\ work'[w].at \in {"mark", "complete"}
          /\ \A v \in Workers : v # w => work'[v] = work[v]
      BY <1>9, <2>4, MarkEffect
    <3>2. Marking(c)' <=> Marking(c) BY <2>1, <3>1 DEF Marking, Summarized, At
    <3> QED BY <2>1, <2>2, <2>4, <3>2
  <2> QED BY <2>3, <2>4
<1>10. ASSUME NEW w \in Workers, IndexSummary(w)
       PROVE  times'[c] = IF status'[c] = "sealed" \/ Marking(c)' THEN 1 ELSE 0
  <2>1. /\ work[w].at = "index" /\ work'[w].at = "mark" /\ work'[w].left = work[w].left
        /\ \A v \in Workers : v # w => work'[v] = work[v]
    BY <1>10, GoesEffect DEF IndexSummary, At
  <2> QED BY <1>1, <1>10, <2>1, TimesStay DEF IndexSummary
<1> QED
  BY <1>2, <1>3, <1>4, <1>5, <1>6, <1>7, <1>8, <1>9, <1>10
     DEF Next, Process, Time, EnqueueExtract, IngestStops, Expire, Retry, vars

-----------------------------------------------------------------------------
(* The job names the source of its chunk. *)

LEMMA OwnStep ==
    ASSUME TypeOK, WorkInv, ChunkInv, OwnInv, [Next]_vars
    PROVE  OwnInv'
<1> SUFFICES ASSUME "shared" \notin mishaps' PROVE OwnInv'
  BY DEF OwnInv
<1>1. "shared" \notin mishaps BY MishapsGrow
<1>2. ASSUME NEW job \in Jobs, Inserted(job), Own(job), job.kind = "extract"
      PROVE  job.source = home'[job.chunk]
  BY <1>2, JobCases, HomeStep DEF Inserted, Own
<1>3. ASSUME NEW id \in DOMAIN queue'.jobs, queue'.jobs[id].job.kind = "extract"
      PROVE  queue'.jobs[id].job.source = home'[queue'.jobs[id].job.chunk]
  <2>1. CASE id \in DOMAIN queue.jobs /\ queue'.jobs[id].job = queue.jobs[id].job
    BY <1>1, <1>2, <1>3, <2>1 DEF TypeOK, QueueOK, ChunkInv, OwnInv
  <2>2. ASSUME NEW i \in Callers, NEW c \in Chunks, EnqueueExtract(i, c),
               queue'.jobs[id].job = ExtractJob(c, doc[i].source)
        PROVE  queue'.jobs[id].job.source = home'[queue'.jobs[id].job.chunk]
    <3>1. status[c] # None /\ home[c] = doc[i].source
      BY <1>1, <2>2 DEF EnqueueExtract, ChunkInv, OwnInv
    <3> QED BY <2>2, <3>1, HomeStep DEF ExtractJob
  <2>3. \A s : SealJob(s).kind # "extract" BY DEF SealJob
  <2>4. \/ id \in DOMAIN queue.jobs /\ queue'.jobs[id].job = queue.jobs[id].job
        \/ \E i \in Callers, c \in Chunks :
             EnqueueExtract(i, c) /\ queue'.jobs[id].job = ExtractJob(c, doc[i].source)
        \/ \E s : queue'.jobs[id].job = SealJob(s)
    BY QueueStep
  <2> QED BY <2>1, <2>2, <2>3, <2>4, <1>3
<1>4. ASSUME NEW w \in Workers, work'[w].job.kind = "extract"
      PROVE  work'[w].job.source = home'[work'[w].job.chunk]
  <2>1. CASE work'[w].job = work[w].job
    <3>1. ~At(w, "idle")
      BY <2>1, <1>4 DEF WorkInv, WorkOK, Resting, NoJob, At
    <3> QED BY <1>1, <1>2, <1>4, <2>1, <3>1, WorkOf DEF ChunkInv, OwnInv
  <2>2. ASSUME NEW id \in DOMAIN queue.jobs, work'[w].job = queue.jobs[id].job
        PROVE  work'[w].job.source = home'[work'[w].job.chunk]
    BY <1>1, <1>2, <1>4, <2>2 DEF TypeOK, QueueOK, ChunkInv, OwnInv
  <2> QED BY <2>1, <2>2, <1>4, WorkerJob DEF Resting, NoJob
<1>5. ASSUME NEW i \in Callers, NEW c \in doc'[i].chunks
      PROVE  home'[c] = doc'[i].source
  <2>1. CASE c \in doc[i].chunks /\ doc'[i].source = doc[i].source
    BY <1>1, <2>1, HomeStep DEF ChunkInv, OwnInv, TypeOK
  <2>2. ASSUME NEW d \in Documents, Ingest(i, d), doc'[i] = d
        PROVE  home'[c] = doc'[i].source
    <3>1. d.source \in Sources /\ d.chunks \subseteq Chunks
      BY ConstantsAssumption, Zenon
    <3>2. /\ home[c] \in {None, d.source}
          /\ home'[c] = IF status[c] = None THEN d.source ELSE home[c]
      BY <1>5, <2>2, <3>1 DEF Ingest, Mishap
    <3>3. status[c] # None => home[c] # None
      BY <1>5, <2>2, <3>1, ConstantsAssumption DEF ChunkInv
    <3> QED BY <2>2, <3>2, <3>3
  <2> QED BY <2>1, <2>2, <1>5, DocStep
<1> QED BY <1>3, <1>4, <1>5 DEF OwnInv, Own

-----------------------------------------------------------------------------
(* Full buffers. *)

\* What is in the buffer, and was not or had been read, comes from an extract
\* job or from a worker that gave up.
LEMMA UnreadStep ==
    ASSUME TypeOK, WorkInv, ChunkInv, [Next]_vars, NEW s \in Sources,
           NEW c \in Unread(s)', c \notin Unread(s)
    PROVE  \/ \E w \in Workers : /\ Extract(w) /\ c = work[w].job.chunk
                                 /\ c \notin Low /\ home[c] = s
           \/ \E w \in Workers : (Fail(w) \/ Leave(w)) /\ c \in work[w].left
<1>1. /\ c \in Chunks /\ home'[c] = s /\ status'[c] = "buffered"
      /\ \A w \in Workers : c \notin work'[w].left
  BY DEF Unread, Buffered
<1>2. \/ home[c] # s \/ status[c] # "buffered"
      \/ \E w \in Workers : c \in work[w].left
  BY <1>1 DEF Unread, Buffered
<1>3. CASE UNCHANGED <<status, home, work>> BY <1>1, <1>2, <1>3
<1>4. ASSUME NEW i \in Callers, NEW d \in Documents, Ingest(i, d) PROVE FALSE
  <2>1. status'[c] = IF c \in d.chunks /\ status[c] = None
                     THEN "pending_extraction" ELSE status[c]
    BY <1>1, <1>4 DEF Ingest
  <2>2. status[c] = "buffered" /\ status[c] # None
    BY <1>1, <2>1, ConstantsAssumption DEF Statuses
  <2> QED BY <1>1, <1>2, <1>4, <2>2, HomeStep DEF Ingest
<1>5. ASSUME NEW w \in Workers, NEW id \in DOMAIN queue.jobs, Reserve(w, id) PROVE FALSE
  <2>1. work[w].left = {} BY <1>5 DEF Reserve, At, WorkInv, WorkOK, Resting
  <2> QED BY <1>1, <1>2, <1>5, <2>1, ReserveEffect DEF Reserve
<1>6. ASSUME NEW w \in Workers, Extract(w)
      PROVE  c = work[w].job.chunk /\ c \notin Low /\ home[c] = s
  <2>1. \A v \in Workers : work'[v].left = work[v].left
    BY <1>6, GoesEffect DEF Extract
  <2>2. home' = home BY <1>6 DEF Extract
  <2>3. status[c] # "buffered" BY <1>1, <1>2, <2>1, <2>2
  <2> QED BY <1>1, <1>6, <2>2, <2>3 DEF Extract, TypeOK
<1>7. ASSUME NEW w \in Workers,
             Check(w) \/ EnqueueSeal(w) \/ Summarize(w) \/ IndexSummary(w)
      PROVE  FALSE
  <2>1. \A v \in Workers : work'[v].left = work[v].left
    BY <1>7, GoesEffect DEF Check, EnqueueSeal, Summarize, IndexSummary
  <2> QED BY <1>1, <1>2, <1>7, <2>1 DEF Check, EnqueueSeal, Summarize, IndexSummary
<1>8. ASSUME NEW w \in Workers, ReadBuffer(w) PROVE FALSE
  <2>1. work[w].left = {} BY <1>8 DEF ReadBuffer, At, WorkInv, WorkOK
  <2> QED BY <1>1, <1>2, <1>8, <2>1, ReadBufferEffect DEF ReadBuffer
<1>9. ASSUME NEW w \in Workers, NEW e \in Chunks, Mark(w, e) PROVE FALSE
  <2>1. e # c /\ status[c] = "buffered" /\ home[c] = s BY <1>1, <1>9 DEF Mark, TypeOK
  <2> QED BY <1>1, <1>2, <1>9, <2>1, MarkEffect
<1>10. ASSUME NEW w \in Workers, Complete(w) PROVE FALSE
  <2>1. work[w].left = {} BY <1>10 DEF Complete, At, WorkInv, WorkOK
  <2> QED BY <1>1, <1>2, <1>10, <2>1, RestsEffect DEF Complete
<1>11. ASSUME NEW w \in Workers, Fail(w) \/ Leave(w) PROVE c \in work[w].left
  BY <1>1, <1>2, <1>11, RestsEffect DEF Fail, Leave
<1> QED
  BY <1>3, <1>4, <1>5, <1>6, <1>7, <1>8, <1>9, <1>10, <1>11
     DEF Next, Process, Time, EnqueueExtract, IngestStops, Expire, Retry, vars

\* A useful job stays useful, unless its worker finds the buffer short, hands
\* over to a seal job or reads the buffer.
LEMMA UsefulStays ==
    ASSUME TypeOK, WorkInv, ChunkInv, HeldInv, [Next]_vars, "taken" \notin mishaps',
           NEW s \in Sources, NEW id \in Nat, Useful(id, s)
    PROVE  \/ Useful(id, s)'
           \/ \E w \in Workers : /\ work[w].id = id /\ work[w].job.source = s
                                 /\ \/ Check(w) /\ ~Full(s)
                                    \/ EnqueueSeal(w)
                                    \/ ReadBuffer(w)
<1>1. /\ id \in DOMAIN queue.jobs /\ queue.jobs[id].job.source = s
      /\ queue.jobs[id].job.chunk \notin Low /\ id # 0
      /\ \A w \in Workers : work[w].id = id =>
           /\ work[w].at \notin {"idle", "summarize", "index", "mark", "complete"}
           /\ work[w].job = queue.jobs[id].job
  <2>1. id # 0 BY DEF Useful, TypeOK, QueueOK
  <2>2. \A w \in Workers : work[w].id = id => work[w].at # "idle"
    BY <2>1 DEF WorkInv, WorkOK, Resting
  <2>3. "taken" \notin mishaps BY MishapsGrow
  <2> QED BY <2>1, <2>2, <2>3 DEF Useful, HeldInv, At
<1>2. id \in DOMAIN queue'.jobs /\ queue'.jobs[id].job = queue.jobs[id].job
  BY <1>1, QueueStays DEF Complete, At
<1>3. SUFFICES ASSUME NEW w \in Workers, work'[w].id = id,
                      work'[w].at \in {"summarize", "index", "mark", "complete"}
               PROVE  \E v \in Workers : /\ work[v].id = id /\ work[v].job.source = s
                                         /\ \/ Check(v) /\ ~Full(s)
                                            \/ EnqueueSeal(v)
                                            \/ ReadBuffer(v)
  BY <1>1, <1>2 DEF Useful
<1>4. CASE work'[w] = work[w] BY <1>1, <1>3, <1>4
<1>5. ASSUME NEW v \in Workers, NEW n \in DOMAIN queue.jobs, Reserve(v, n)
      PROVE  work'[w] = work[w]
  <2>1. work'[v].at \in {"extract", "seal"} BY <1>5, ReserveEffect, JobCases
  <2> QED BY <1>3, <1>5, <2>1, ReserveEffect
<1>6. ASSUME NEW v \in Workers, Extract(v) PROVE work'[w] = work[w]
  <2>1. CASE v = w
    <3>1. work[w].id = id /\ work[w].job.chunk \notin Low
      BY <1>1, <1>3, <1>6, <2>1, GoesEffect DEF Extract
    <3>2. work'[w].at = "check" BY <1>6, <2>1, <3>1, GoesEffect DEF Extract
    <3> QED BY <1>3, <3>2
  <2> QED BY <1>6, <2>1, GoesEffect DEF Extract
<1>7. ASSUME NEW v \in Workers, Check(v)
      PROVE  \/ work'[w] = work[w]
             \/ v = w /\ work[w].id = id /\ work[w].job.source = s /\ ~Full(s)
  <2>1. CASE v = w
    <3>1. work[w].id = id /\ work[w].job.source = s
      BY <1>1, <1>3, <1>7, <2>1, GoesEffect DEF Check
    <3>2. ~Full(s)
      BY <1>3, <1>7, <2>1, <3>1, GoesEffect DEF Check
    <3> QED BY <2>1, <3>1, <3>2
  <2> QED BY <1>7, <2>1, GoesEffect DEF Check
<1>8. ASSUME NEW v \in Workers, EnqueueSeal(v)
      PROVE  \/ work'[w] = work[w]
             \/ v = w /\ work[w].id = id /\ work[w].job.source = s
  BY <1>1, <1>3, <1>8, GoesEffect DEF EnqueueSeal
<1>9. ASSUME NEW v \in Workers, ReadBuffer(v)
      PROVE  \/ work'[w] = work[w]
             \/ v = w /\ work[w].id = id /\ work[w].job.source = s
  BY <1>1, <1>3, <1>9, ReadBufferEffect
<1>10. ASSUME NEW v \in Workers, Summarize(v) \/ IndexSummary(v) PROVE work'[w] = work[w]
  BY <1>1, <1>3, <1>10, GoesEffect DEF Summarize, IndexSummary, At
<1>11. ASSUME NEW v \in Workers, NEW c \in Chunks, Mark(v, c) PROVE work'[w] = work[w]
  <2>1. work[v].at = "mark" BY <1>11 DEF Mark, At
  <2>2. v # w
    <3>1. work'[v].id = work[v].id BY <1>11, MarkEffect
    <3> QED BY <1>1, <1>3, <2>1, <3>1
  <2>3. \A u \in Workers : u # v => work'[u] = work[u] BY <1>11, MarkEffect
  <2> QED BY <2>2, <2>3
<1>12. ASSUME NEW v \in Workers, Complete(v) \/ Fail(v) \/ Leave(v)
       PROVE  work'[w] = work[w]
  BY <1>3, <1>12, RestsEffect DEF Complete, Fail, Leave, Resting
<1> QED
  BY <1>4, <1>5, <1>6, <1>7, <1>8, <1>9, <1>10, <1>11, <1>12
     DEF Next, Process, Time, Ingest, EnqueueExtract, IngestStops, Expire, Retry, vars

\* The worker that hands over leaves a seal job behind, and nobody at that job
\* has read the buffer.
LEMMA SealIsUseful ==
    ASSUME TypeOK, WorkInv, HeldInv, NEW w \in Workers, EnqueueSeal(w),
           mishaps' \cap {"taken", "missed", "shared"} = {},
           NEW s, s = work[w].job.source
    PROVE  \E id \in Nat : Useful(id, s)'
<1>1. /\ work[w].at = "enqueue" /\ work[w].job.kind = "extract"
      /\ s \in Sources /\ SealJob(s) \in Jobs
  <2>1. work[w].at = "enqueue" BY DEF EnqueueSeal, At
  <2> QED BY <2>1, WorkOf, JobCases DEF WorkInv, WorkOK, At, Jobs, SealJob
<1>2. "taken" \notin mishaps BY DEF EnqueueSeal, Mishap
<1>3. PICK id \in DOMAIN queue'.jobs :
        /\ SameKey(queue'.jobs[id].job, SealJob(s))
        /\ InFlight(queue, SealJob(s)) =>
             id \in DOMAIN queue.jobs /\ queue'.jobs[id] = queue.jobs[id]
        /\ ~InFlight(queue, SealJob(s)) => id > queue.minted
  BY <1>1, EnqueueEffect DEF EnqueueSeal, TypeOK
<1>4. QueueOK' BY <1>1, EnqueueEffect DEF EnqueueSeal, TypeOK
<1>5. queue'.jobs[id].job = SealJob(s)
  <2>1. queue'.jobs[id].job \in Jobs BY <1>4 DEF QueueOK
  <2>2. queue'.jobs[id].job.kind = "seal" /\ queue'.jobs[id].job.source = s
    BY <1>3 DEF SameKey, SealJob
  <2> QED BY <2>1, <2>2, JobCases
<1>6. \A v \in Workers : v # w => work'[v] = work[v]
  BY GoesEffect DEF EnqueueSeal
<1>7. work'[w].id = work[w].id BY GoesEffect DEF EnqueueSeal
<1>8. ASSUME NEW v \in Workers, work[v].id = id
      PROVE  v # w /\ work[v].at \notin {"summarize", "index", "mark", "complete"}
  <2>1. id # 0 BY <1>4 DEF QueueOK
  <2>2. work[v].at # "idle" BY <1>8, <2>1 DEF WorkInv, WorkOK, Resting
  <2>3. id \in DOMAIN queue.jobs /\ queue.jobs[id].job = work[v].job
    BY <1>2, <1>8, <2>2 DEF HeldInv, At
  <2>4. InFlight(queue, SealJob(s))
    <3>1. ~(id > queue.minted) BY <2>3 DEF TypeOK, QueueOK
    <3> QED BY <1>3, <3>1
  <2>5. work[v].job = SealJob(s) BY <1>3, <1>5, <2>3, <2>4
  <2>6. ~Sealing(s) BY <2>4 DEF EnqueueSeal, Mishap
  <2> QED BY <1>1, <2>5, <2>6 DEF Sealing, SealJob
<1>9. id \in Nat /\ SealJob(s).source = s /\ SealJob(s).chunk \notin Low
  BY <1>4, ConstantsAssumption DEF QueueOK, SealJob
<1>10. \A v \in Workers :
         work'[v].id = id => work'[v].at \notin {"summarize", "index", "mark", "complete"}
  BY <1>6, <1>7, <1>8
<1>11. Useful(id, s)' BY <1>3, <1>5, <1>9, <1>10 DEF Useful
<1> QED BY <1>9, <1>11

LEMMA BufferStep ==
    ASSUME TypeOK, WorkInv, ChunkInv, HeldInv, OwnInv, BufferInv, [Next]_vars
    PROVE  BufferInv'
<1> SUFFICES ASSUME mishaps' \cap {"taken", "missed", "shared"} = {}, NEW s \in Sources,
                    Cardinality(Unread(s)') >= Threshold
             PROVE  \E id \in Nat : Useful(id, s)'
  BY DEF BufferInv
<1>1. mishaps \cap {"taken", "missed", "shared"} = {} /\ "taken" \notin mishaps'
  BY MishapsGrow
<1>2. /\ IsFiniteSet(Unread(s)) /\ IsFiniteSet(Buffered(s))
      /\ Unread(s) \subseteq Buffered(s)
  <2>1. Unread(s) \subseteq Chunks /\ Buffered(s) \subseteq Chunks
    BY DEF Unread, Buffered
  <2>2. Unread(s) \subseteq Buffered(s) BY DEF Unread
  <2> QED BY <2>1, <2>2, ConstantsAssumption, FS_Subset
<1>3. CASE Unread(s)' \subseteq Unread(s)
  <2>1. /\ Cardinality(Unread(s)') <= Cardinality(Unread(s))
        /\ Cardinality(Unread(s)) <= Cardinality(Buffered(s))
        /\ Cardinality(Unread(s)) \in Nat /\ Cardinality(Unread(s)') \in Nat
        /\ Cardinality(Buffered(s)) \in Nat
    BY <1>2, <1>3, FS_Subset, FS_CardinalityType
  <2>2. /\ Cardinality(Unread(s)) >= Threshold
        /\ Cardinality(Buffered(s)) >= Threshold
    BY <2>1, ConstantsAssumption
  <2>3. PICK id \in Nat : Useful(id, s) BY <1>1, <2>2 DEF BufferInv
  <2>4. ASSUME NEW w \in Workers, EnqueueSeal(w), work[w].job.source = s
        PROVE  \E n \in Nat : Useful(n, s)'
    BY <2>4, SealIsUseful
  <2>5. ASSUME NEW w \in Workers, ReadBuffer(w), work[w].job.source = s
        PROVE  FALSE
    <3>1. work'[w].left = Buffered(s) BY <2>5, ReadBufferEffect
    <3>2. Unread(s)' \subseteq Buffered(s) /\ Unread(s)' \cap work'[w].left = {}
      BY <1>2, <1>3 DEF Unread
    <3>3. Unread(s)' = {} BY <3>1, <3>2
    <3>4. Cardinality(Unread(s)') = 0 BY <3>3, FS_EmptySet
    <3> QED BY <3>4, ConstantsAssumption
  <2>6. ~(\E w \in Workers : ~Full(s)) BY <2>2 DEF Full
  <2> QED BY <1>1, <2>3, <2>4, <2>5, <2>6, UsefulStays
<1>4. ASSUME NEW c \in Unread(s)', c \notin Unread(s)
      PROVE  \E id \in Nat : Useful(id, s)'
  <2>1. ASSUME NEW w \in Workers, Extract(w), c = work[w].job.chunk, c \notin Low,
               home[c] = s
        PROVE  \E id \in Nat : Useful(id, s)'
    <3>1. work[w].at = "extract" /\ work[w].job.kind = "extract" /\ queue' = queue
      BY <2>1 DEF Extract, At, WorkInv, WorkOK
    <3>2. work[w].job.source = s BY <1>1, <2>1, <3>1 DEF OwnInv, Own
    <3>3. /\ work[w].id \in DOMAIN queue.jobs
          /\ queue.jobs[work[w].id].job = work[w].job
      BY <1>1, <3>1 DEF HeldInv, At
    <3>4. work'[w].at = "check" /\ \A v \in Workers : v # w => work'[v] = work[v]
      BY <2>1, GoesEffect DEF Extract
    <3>5. ASSUME NEW v \in Workers, work'[v].id = work[w].id
          PROVE  work'[v].at \notin {"summarize", "index", "mark", "complete"}
      <4>1. CASE v # w
        <5>1. work[v].id = work[w].id BY <3>4, <3>5, <4>1
        <5>2. work[v].at = "idle" BY <1>1, <3>1, <4>1, <5>1 DEF HeldInv, At
        <5> QED BY <3>4, <4>1, <5>2
      <4> QED BY <3>4, <4>1
    <3>6. PICK id \in Nat : id = work[w].id BY DEF TypeOK
    <3>7. Useful(id, s)' BY <2>1, <3>1, <3>2, <3>3, <3>5, <3>6 DEF Useful
    <3> QED BY <3>7
  <2>2. ASSUME NEW w \in Workers, Fail(w) \/ Leave(w), c \in work[w].left
        PROVE  \E id \in Nat : Useful(id, s)'
    <3>1. work[w].at # "idle" /\ work[w].job.kind = "seal"
      BY <2>2 DEF WorkInv, WorkOK
    <3>2. work[w].job.source = s
      <4>1. home'[c] = s /\ home' = home BY <2>2, <1>4 DEF Unread, Buffered, Fail, Leave
      <4> QED BY <2>2, <4>1 DEF ChunkInv
    <3>3. work[w].job = SealJob(s) BY <3>1, <3>2, WorkOf, JobCases DEF At
    <3>4. /\ work[w].id \in DOMAIN queue.jobs /\ work[w].id # 0
          /\ queue.jobs[work[w].id].job = work[w].job
      BY <1>1, <3>1 DEF HeldInv, At, WorkInv, WorkOK
    <3>5. SameJobs
      <4>1. CASE Fail(w) BY <4>1, RowEffect DEF Fail, TypeOK
      <4>2. CASE Leave(w) BY <4>2 DEF Leave, SameJobs
      <4> QED BY <2>2, <4>1, <4>2
    <3>6. \A v \in Workers : work'[v].id # work[w].id
      <4>1. Rests(w) BY <2>2 DEF Fail, Leave
      <4>2. \A v \in Workers : v # w => work'[v] = work[v] /\ work[v].id # work[w].id
        BY <1>1, <3>1, <3>4, <4>1, RestsEffect DEF HeldInv, At, WorkInv, WorkOK, Resting
      <4> QED BY <3>4, <4>1, <4>2, RestsEffect DEF Resting
    <3>7. SealJob(s).source = s /\ SealJob(s).chunk \notin Low
      BY ConstantsAssumption DEF SealJob
    <3>8. PICK id \in Nat : id = work[w].id BY DEF TypeOK
    <3>9. Useful(id, s)'
      BY <3>3, <3>4, <3>5, <3>6, <3>7, <3>8 DEF Useful, SameJobs
    <3> QED BY <3>9
  <2> QED BY <1>4, <2>1, <2>2, UnreadStep
<1> QED BY <1>3, <1>4

-----------------------------------------------------------------------------
(* The theorems. *)

LEMMA InitInv == Init => IInv
<1> SUFFICES ASSUME Init PROVE IInv OBVIOUS
<1> USE DEF Init
<1>1. DOMAIN queue.jobs = {} BY DEF NoJobs
<1>2. TypeOK
  <2>1. QueueOK BY <1>1 DEF QueueOK, NoJobs
  <2>2. work \in [Workers -> WorkType] BY RestType
  <2> QED BY <2>1, <2>2 DEF TypeOK, WorkType, NoDoc
<1>3. WorkInv /\ \A w \in Workers : work[w].left = {} /\ At(w, "idle")
  BY DEF WorkInv, WorkOK, Resting, At
<1>4. ChunkInv
  BY <1>1, ConstantsAssumption DEF ChunkInv, Inserted, Resting, NoJob, NoDoc, Statuses
<1>5. SummaryInv
  BY <1>3, ConstantsAssumption DEF SummaryInv, SealedIsSummarized, Statuses
<1>6. HeldInv BY <1>3 DEF HeldInv
<1>7. OnceInv BY <1>3, ConstantsAssumption DEF OnceInv, Marking, Statuses
<1>8. OwnInv BY <1>1 DEF OwnInv, Own, Resting, NoJob, NoDoc
<1>9. BufferInv
  <2>1. \A s \in Sources : Unread(s) = {}
    BY ConstantsAssumption DEF Unread, Buffered, Statuses
  <2>2. \A s \in Sources : Cardinality(Unread(s)) = 0 BY <2>1, FS_EmptySet
  <2>3. ~(0 >= Threshold) BY ConstantsAssumption
  <2> QED BY <2>2, <2>3 DEF BufferInv
<1> QED BY <1>2, <1>3, <1>4, <1>5, <1>6, <1>7, <1>8, <1>9 DEF IInv

\* The invariant holds in every reachable state.
THEOREM TreeInvariant == Spec => []IInv
<1>1. Init => IInv BY InitInv
<1>2. IInv /\ [Next]_vars => IInv'
  BY TypeStep, WorkStep, ChunkStep, SummaryStep, HeldStep, OnceStep, OwnStep, BufferStep
     DEF IInv
<1> QED BY <1>1, <1>2, PTL DEF Spec

\* Every variable stays in its set, and no two incomplete jobs have one key.
THEOREM TreeTypes == Spec => []TypeOK
<1>1. IInv => TypeOK BY DEF IInv
<1> QED BY <1>1, TreeInvariant, PTL

\* No content drops out of the tree: what is marked as sealed is in a summary,
\* whoever fails, dies or loses a lease.
THEOREM SealedContentIsKept == Spec => []SealedIsSummarized
<1>1. IInv => SealedIsSummarized BY DEF IInv, SummaryInv
<1> QED BY <1>1, TreeInvariant, PTL

\* No chunk is summarised twice, but for a job taken from its worker, a repeated
\* extraction and a seal cut short once its summary is written: before the
\* full-text row of the summary or before the last mark.
THEOREM SealsOnce == Spec => []SealedOnceUnlessRedone
<1>1. IInv => SealedOnceUnlessRedone
  <2> SUFFICES ASSUME IInv, mishaps \subseteq {"missed", "shared"}, NEW c \in Chunks
               PROVE  times[c] <= 1
    BY DEF SealedOnceUnlessRedone, SealedOnce
  <2>1. times[c] = 0 \/ times[c] = 1 BY DEF IInv, OnceInv
  <2> QED BY <2>1
<1> QED BY <1>1, TreeInvariant, PTL

\* A full buffer has a job that will see to it, but for a job at two workers, a
\* seal job refused too early and a chunk of two sources.
THEOREM FullBuffersAreSeenTo == Spec => []FullBufferHasJobUnlessMissed
<1>1. IInv => FullBufferHasJobUnlessMissed
  <2> SUFFICES ASSUME IInv, mishaps \cap {"taken", "missed", "shared"} = {},
                      NEW s \in Sources, Full(s)
               PROVE  \E id \in DOMAIN queue.jobs :
                        /\ queue.jobs[id].job.source = s
                        /\ queue.jobs[id].job.chunk \notin Low
    BY DEF FullBufferHasJobUnlessMissed, FullBufferHasJob
  <2>1. ASSUME NEW w \in Workers, NEW c \in Buffered(s), c \in work[w].left
        PROVE  \E id \in DOMAIN queue.jobs :
                 /\ queue.jobs[id].job.source = s
                 /\ queue.jobs[id].job.chunk \notin Low
    <3>1. ~At(w, "idle") /\ work[w].job.kind = "seal"
      BY <2>1 DEF IInv, WorkInv, WorkOK, At
    <3>2. work[w].job.source = s BY <2>1 DEF IInv, ChunkInv, Buffered
    <3>3. work[w].job = SealJob(s) BY <3>1, <3>2, WorkOf, JobCases DEF IInv
    <3>4. SealJob(s).source = s /\ SealJob(s).chunk \notin Low
      BY ConstantsAssumption DEF SealJob
    <3> QED BY <3>1, <3>3, <3>4 DEF IInv, HeldInv
  <2>2. CASE \A w \in Workers : \A c \in Buffered(s) : c \notin work[w].left
    <3>1. Unread(s) = Buffered(s) BY <2>2 DEF Unread
    <3>2. Cardinality(Unread(s)) >= Threshold BY <3>1 DEF Full
    <3> QED BY <3>2 DEF IInv, BufferInv, Useful
  <2> QED BY <2>1, <2>2
<1> QED BY <1>1, TreeInvariant, PTL

-----------------------------------------------------------------------------
(* The order of the queue, and the steps of a worker. *)

\* A row is left in its place, waits for its retry, or gets a place behind all
\* others when it had none.
KeepsOrder ==
    \A id \in DOMAIN queue'.jobs :
        \/ id \in DOMAIN queue.jobs /\ queue'.jobs[id].place = queue.jobs[id].place
        \/ queue'.jobs[id].place = 0
        \/ /\ queue'.jobs[id].place = Behind(queue)
           /\ id \in DOMAIN queue.jobs => queue.jobs[id].place = 0

\* Then nothing comes to be ahead of a job that is due and stays so.
LEMMA OrderKept ==
    ASSUME QueueOK, KeepsOrder, NEW id \in DOMAIN queue.jobs, Due(id), Due(id)'
    PROVE  Ahead(id)' \subseteq Ahead(id)
<1>1. /\ queue.jobs[id].place \in Nat \ {0}
      /\ queue.jobs[id].place < Behind(queue) /\ Behind(queue) \in Nat
  BY BehindIsPlace DEF QueueOK, Due
<1>2. queue'.jobs[id].place = queue.jobs[id].place
  BY <1>1 DEF KeepsOrder, Due
<1> SUFFICES ASSUME NEW other \in Ahead(id)'
             PROVE  other \in Ahead(id)
  OBVIOUS
<1>3. /\ other \in DOMAIN queue'.jobs
      /\ 0 < queue'.jobs[other].place
      /\ queue'.jobs[other].place < queue.jobs[id].place
  BY <1>2 DEF Ahead
<1>4. other \in DOMAIN queue.jobs /\ queue'.jobs[other].place = queue.jobs[other].place
  BY <1>1, <1>3 DEF KeepsOrder
<1> QED BY <1>3, <1>4 DEF Ahead

\* What each operation of the queue does to the places.
LEMMA PlacesStep ==
    ASSUME QueueOK, NEW id, NEW job,
           \/ queue' = queue
           \/ queue' = Enqueue(queue, job)
           \/ id \in DOMAIN queue.jobs /\ queue' = Lease(queue, id)
           \/ id \in DOMAIN queue.jobs /\ queue' = LeaseExpires(queue, id)
           \/ /\ id \in DOMAIN queue.jobs /\ queue.jobs[id].place = 0
              /\ queue' = RetryDue(queue, id)
           \/ queue' = FailJob(queue, id)
           \/ queue' = CompleteJob(queue, id)
    PROVE  KeepsOrder
<1>q. /\ queue = [jobs |-> queue.jobs, minted |-> queue.minted]
      /\ \A i \in DOMAIN queue.jobs : queue.jobs[i] \in [job : Jobs, place : Nat, leased : BOOLEAN]
  BY DEF QueueOK
<1>1. CASE queue' = queue BY <1>1 DEF KeepsOrder
<1>2. CASE queue' = Insert(queue, job)
  <2> DEFINE n == queue.minted + 1
  <2>1. /\ DOMAIN queue'.jobs = DOMAIN queue.jobs \cup {n}
        /\ \A i \in DOMAIN queue'.jobs :
             queue'.jobs[i] = IF i = n THEN Row(job, Behind(queue)) ELSE queue.jobs[i]
    BY <1>2 DEF Insert
  <2>2. n \notin DOMAIN queue.jobs BY DEF QueueOK
  <2>3. Row(job, Behind(queue)).place = Behind(queue) BY DEF Row
  <2> HIDE DEF n
  <2> QED BY <2>1, <2>2, <2>3 DEF KeepsOrder
<1>3. CASE queue' = CompleteJob(queue, id)
  BY <1>3, CompleteEffect DEF KeepsOrder
<1>4. ASSUME id \in DOMAIN queue.jobs, NEW row,
             queue' = [jobs |-> [queue.jobs EXCEPT ![id] = row], minted |-> queue.minted],
             \/ row.place = queue.jobs[id].place \/ row.place = 0
             \/ row.place = Behind(queue) /\ queue.jobs[id].place = 0
      PROVE  KeepsOrder
  BY <1>4 DEF KeepsOrder
<1>5. ASSUME id \in DOMAIN queue.jobs,
             \/ queue' = Lease(queue, id)
             \/ queue' = LeaseExpires(queue, id)
             \/ queue.jobs[id].place = 0 /\ queue' = RetryDue(queue, id)
             \/ queue' = FailJob(queue, id)
      PROVE  KeepsOrder
  <2> DEFINE old == queue.jobs[id]
             Set(row) == [jobs |-> [queue.jobs EXCEPT ![id] = row], minted |-> queue.minted]
  <2>1. CASE queue' = Lease(queue, id)
    <3>1. queue' = Set([old EXCEPT !.leased = TRUE]) BY <1>5, <1>q, <2>1 DEF Lease
    <3>2. [old EXCEPT !.leased = TRUE].place = old.place BY <1>5, <1>q
    <3> QED BY <1>4, <1>5, <3>1, <3>2
  <2>2. CASE queue' = LeaseExpires(queue, id)
    <3>1. queue' = Set([old EXCEPT !.leased = FALSE]) BY <1>5, <1>q, <2>2 DEF LeaseExpires
    <3>2. [old EXCEPT !.leased = FALSE].place = old.place BY <1>5, <1>q
    <3> QED BY <1>4, <1>5, <3>1, <3>2
  <2>3. CASE old.place = 0 /\ queue' = RetryDue(queue, id)
    <3>1. queue' = Set([old EXCEPT !.place = Behind(queue)]) BY <1>5, <1>q, <2>3 DEF RetryDue
    <3>2. [old EXCEPT !.place = Behind(queue)].place = Behind(queue) BY <1>5, <1>q
    <3> QED BY <1>4, <1>5, <2>3, <3>1, <3>2
  <2>4. CASE queue' = FailJob(queue, id)
    <3>1. queue' = Set([old EXCEPT !.place = 0, !.leased = FALSE])
      BY <1>5, <1>q, <2>4 DEF FailJob
    <3>2. [old EXCEPT !.place = 0, !.leased = FALSE].place = 0 BY <1>5, <1>q
    <3> QED BY <1>4, <1>5, <3>1, <3>2
  <2> QED BY <1>5, <2>1, <2>2, <2>3, <2>4
<1>6. CASE queue' = Enqueue(queue, job) BY <1>1, <1>2, <1>6 DEF Enqueue
<1>7. CASE id \notin DOMAIN queue.jobs /\ queue' = FailJob(queue, id)
  BY <1>1, <1>7 DEF FailJob
<1> QED BY <1>1, <1>3, <1>5, <1>6, <1>7

LEMMA OrderStep ==
    ASSUME QueueOK, [Next]_vars
    PROVE  KeepsOrder
<1>1. CASE UNCHANGED queue BY <1>1, PlacesStep
<1>2. ASSUME NEW i \in Callers, NEW c \in Chunks, EnqueueExtract(i, c) PROVE KeepsOrder
  BY <1>2, PlacesStep DEF EnqueueExtract
<1>3. ASSUME NEW w \in Workers, EnqueueSeal(w) PROVE KeepsOrder
  BY <1>3, PlacesStep DEF EnqueueSeal
<1>4. ASSUME NEW w \in Workers, NEW id \in DOMAIN queue.jobs, Reserve(w, id)
      PROVE  KeepsOrder
  BY <1>4, PlacesStep DEF Reserve
<1>5. ASSUME NEW w \in Workers, Fail(w) \/ Complete(w) PROVE KeepsOrder
  BY <1>5, PlacesStep DEF Fail, Complete
<1>6. ASSUME NEW id \in DOMAIN queue.jobs, Expire(id) \/ Retry(id) PROVE KeepsOrder
  BY <1>6, PlacesStep DEF Expire, Retry
<1> QED
  BY <1>1, <1>2, <1>3, <1>4, <1>5, <1>6
     DEF Next, Process, Time, Ingest, IngestStops, Extract, Check,
         ReadBuffer, Summarize, IndexSummary, Mark, Leave, vars

\* No job of the queue is overtaken: while a job is due, those ahead of it only
\* get fewer.
THEOREM QueueKeepsOrder == Spec => NoJobOvertaken
<1>1. IInv /\ [Next]_vars
        => \A id \in DOMAIN queue.jobs : Due(id) /\ Due(id)' => Ahead(id)' \subseteq Ahead(id)
  BY OrderStep, OrderKept DEF IInv, TypeOK
<1> QED BY <1>1, TreeInvariant, PTL DEF Spec, NoJobOvertaken

\* A worker that summarises or marks has something to mark.
LeftInv ==
    \A w \in Workers : work[w].at \in {"summarize", "index", "mark"} => work[w].left # {}

LEMMA LeftInvStep ==
    ASSUME TypeOK, LeftInv, [Next]_vars
    PROVE  LeftInv'
<1>1. CASE UNCHANGED work BY <1>1 DEF LeftInv
<1>2. ASSUME NEW v \in Workers, NEW id \in DOMAIN queue.jobs, Reserve(v, id)
      PROVE  LeftInv'
  <2>1. work'[v].at \in {"extract", "seal"} BY <1>2, ReserveEffect, JobCases
  <2> QED BY <1>2, <2>1, ReserveEffect DEF LeftInv
<1>3. ASSUME NEW v \in Workers, Extract(v) \/ Check(v) \/ EnqueueSeal(v) PROVE LeftInv'
  <2>1. PICK p : Goes(v, p) /\ p \in {"check", "enqueue", "complete"}
    BY <1>3 DEF Extract, Check, EnqueueSeal
  <2> QED BY <2>1, GoesEffect DEF LeftInv
<1>4. ASSUME NEW v \in Workers, Summarize(v) \/ IndexSummary(v) PROVE LeftInv'
  BY <1>4, GoesEffect DEF LeftInv, Summarize, IndexSummary, At
<1>5. ASSUME NEW v \in Workers, ReadBuffer(v) PROVE LeftInv'
  BY <1>5, ReadBufferEffect DEF LeftInv
<1>6. ASSUME NEW v \in Workers, NEW c \in Chunks, Mark(v, c) PROVE LeftInv'
  BY <1>6, MarkEffect DEF LeftInv
<1>7. ASSUME NEW v \in Workers, Complete(v) \/ Fail(v) \/ Leave(v) PROVE LeftInv'
  BY <1>7, RestsEffect DEF LeftInv, Complete, Fail, Leave, Resting
<1> QED
  BY <1>1, <1>2, <1>3, <1>4, <1>5, <1>6, <1>7
     DEF Next, Process, Time, Ingest, EnqueueExtract, IngestStops, Expire, Retry, vars

\* Every set of numbers that is not empty has a least one.
LEMMA Least ==
    ASSUME NEW S \in SUBSET Nat, S # {}
    PROVE  \E n \in S : \A p \in S : n <= p
<1>1. PICK n \in S : \A p \in S : ~ (<<p, n>> \in OpToRel(<, Nat))
  BY NatLessThanWellFounded, WFMin
<1>2. \A p \in S : ~ (p < n) BY <1>1 DEF OpToRel
<1> QED BY <1>2

\* One of the jobs that are ready is the next.
LEMMA SomeNext ==
    ASSUME QueueOK, Ready(queue) # {}
    PROVE  \E id \in DOMAIN queue.jobs : IsNext(queue, id)
<1> DEFINE R == Ready(queue)
           P == {queue.jobs[id].place : id \in R}
<1>1. R \subseteq DOMAIN queue.jobs BY DEF Ready
<1>2. P \in SUBSET Nat /\ P # {} BY <1>1 DEF QueueOK
<1>3. PICK n \in P : \A p \in P : n <= p
  <2> HIDE DEF P
  <2> QED BY <1>2, Least
<1>4. PICK id \in R : queue.jobs[id].place = n BY <1>3
<1>5. \A other \in R : queue.jobs[id].place <= queue.jobs[other].place BY <1>3, <1>4
<1> QED BY <1>1, <1>4, <1>5 DEF IsNext

\* No worker is held up: one at work has a step to take, an idle one has a job to
\* take when any is ready.
THEOREM NoWorkerIsHeldUp == Spec => []WorkersGoOn
<1>1. Init => LeftInv BY DEF Init, LeftInv, Resting
<1>2. TypeOK /\ LeftInv /\ [Next]_vars => LeftInv' BY LeftInvStep
<1>3. TypeOK /\ LeftInv => WorkersGoOn
  BY SomeNext DEF TypeOK, LeftInv, WorkersGoOn, At
<1> QED BY <1>1, <1>2, <1>3, TreeTypes, PTL DEF Spec

\* What is left of the pass of a worker, at each of its places.
LEMMA PassAt ==
    ASSUME NEW w
    PROVE  /\ work[w].at = "idle" => PassLeft(w) = 0
           /\ work[w].at = "complete" => PassLeft(w) = 1
           /\ work[w].at = "enqueue" => PassLeft(w) = 2
           /\ work[w].at = "check" => PassLeft(w) = 3
           /\ work[w].at = "extract" => PassLeft(w) = 4
           /\ work[w].at = "mark" => PassLeft(w) = 1 + Cardinality(work[w].left)
           /\ work[w].at = "index" => PassLeft(w) = 2 + Cardinality(work[w].left)
           /\ work[w].at = "summarize" => PassLeft(w) = 3 + Cardinality(work[w].left)
           /\ work[w].at = "seal" => PassLeft(w) = 4 + Cardinality(Chunks)
BY DEF PassLeft, At

LEMMA PassAtNext ==
    ASSUME NEW w
    PROVE  /\ work'[w].at = "idle" => PassLeft(w)' = 0
           /\ work'[w].at = "complete" => PassLeft(w)' = 1
           /\ work'[w].at = "enqueue" => PassLeft(w)' = 2
           /\ work'[w].at = "check" => PassLeft(w)' = 3
           /\ work'[w].at = "extract" => PassLeft(w)' = 4
           /\ work'[w].at = "mark" => PassLeft(w)' = 1 + Cardinality(work'[w].left)
           /\ work'[w].at = "index" => PassLeft(w)' = 2 + Cardinality(work'[w].left)
           /\ work'[w].at = "summarize" => PassLeft(w)' = 3 + Cardinality(work'[w].left)
           /\ work'[w].at = "seal" => PassLeft(w)' = 4 + Cardinality(Chunks)
BY DEF PassLeft, At

\* What a worker is to mark is a finite number of chunks.
LEMMA LeftIsFinite ==
    ASSUME TypeOK, NEW w \in Workers
    PROVE  /\ Cardinality(work[w].left) \in Nat /\ Cardinality(Chunks) \in Nat
           /\ IsFiniteSet(work[w].left)
           /\ \A s : Cardinality(Buffered(s)) \in Nat
                     /\ Cardinality(Buffered(s)) <= Cardinality(Chunks)
<1>1. work[w].left \subseteq Chunks /\ \A s : Buffered(s) \subseteq Chunks
  BY DEF TypeOK, Buffered
<1>2. IsFiniteSet(Chunks) BY ConstantsAssumption
<1> QED BY <1>1, <1>2, FS_Subset, FS_CardinalityType

\* Every step of a worker at work is one of its pass, or ends it.
LEMMA PassStep ==
    ASSUME TypeOK, WorkInv, [Next]_vars, NEW w \in Workers, ~At(w, "idle"),
           work'[w] # work[w]
    PROVE  PassLeft(w)' < PassLeft(w)
<1> DEFINE Ends == PassLeft(w)' < PassLeft(w)
<1>1. work[w].at \in Places \ {"idle"} BY DEF At, TypeOK
<1>f. /\ Cardinality(work[w].left) \in Nat /\ Cardinality(Chunks) \in Nat
      /\ IsFiniteSet(work[w].left)
      /\ \A s : Cardinality(Buffered(s)) \in Nat
                /\ Cardinality(Buffered(s)) <= Cardinality(Chunks)
  BY LeftIsFinite
<1>2. PassLeft(w) \in Nat /\ PassLeft(w) > 0 BY <1>1, <1>f, PassAt DEF Places
<1>3. ASSUME NEW v \in Workers, NEW id \in DOMAIN queue.jobs, Reserve(v, id) PROVE Ends
  BY <1>3, ReserveEffect DEF Reserve
<1>4. ASSUME NEW v \in Workers, Extract(v) \/ Check(v) \/ EnqueueSeal(v) PROVE Ends
  <2>1. PICK p : /\ Goes(v, p)
                 /\ \/ At(v, "extract") /\ p \in {"complete", "check"}
                    \/ At(v, "check") /\ p \in {"enqueue", "complete"}
                    \/ At(v, "enqueue") /\ p = "complete"
    BY <1>4 DEF Extract, Check, EnqueueSeal
  <2>2. v = w /\ work'[w].at = p BY <2>1, GoesEffect
  <2> QED BY <2>1, <2>2, PassAt, PassAtNext DEF At
<1>5. ASSUME NEW v \in Workers, Summarize(v) PROVE Ends
  <2>1. Goes(v, "index") /\ At(v, "summarize") BY <1>5 DEF Summarize
  <2>2. v = w /\ work'[w].at = "index" /\ work'[w].left = work[w].left BY <2>1, GoesEffect
  <2> QED BY <2>1, <2>2, <1>f, PassAt, PassAtNext DEF At
<1>10. ASSUME NEW v \in Workers, IndexSummary(v) PROVE Ends
  <2>1. Goes(v, "mark") /\ At(v, "index") BY <1>10 DEF IndexSummary
  <2>2. v = w /\ work'[w].at = "mark" /\ work'[w].left = work[w].left BY <2>1, GoesEffect
  <2> QED BY <2>1, <2>2, <1>f, PassAt, PassAtNext DEF At
<1>6. ASSUME NEW v \in Workers, ReadBuffer(v) PROVE Ends
  <2>1. v = w /\ At(w, "seal") BY <1>6, ReadBufferEffect DEF ReadBuffer
  <2>2. \/ work'[w].at = "complete"
        \/ /\ work'[w].at = "summarize"
           /\ work'[w].left = Buffered(work[w].job.source)
    BY <1>6, <2>1, ReadBufferEffect
  <2> QED BY <2>1, <2>2, <1>f, PassAt, PassAtNext DEF At
<1>7. ASSUME NEW v \in Workers, NEW c \in Chunks, Mark(v, c) PROVE Ends
  <2>1. v = w /\ At(w, "mark") /\ c \in work[w].left BY <1>7, MarkEffect DEF Mark
  <2>2. /\ Cardinality(work[w].left \ {c}) = Cardinality(work[w].left) - 1
        /\ Cardinality(work[w].left \ {c}) \in Nat
    BY <2>1, <1>f, FS_RemoveElement, FS_CardinalityType
  <2>3. \/ work'[w].at = "complete"
        \/ work'[w].at = "mark" /\ work'[w].left = work[w].left \ {c}
    BY <1>7, <2>1, MarkEffect
  <2>4. PassLeft(w) = 1 + Cardinality(work[w].left) BY <2>1, PassAt DEF At
  <2>5. PassLeft(w)' = 1 \/ PassLeft(w)' = 1 + Cardinality(work[w].left \ {c})
    BY <2>3, PassAtNext, Zenon
  <2> QED BY <2>2, <2>4, <2>5, <1>f
<1>8. ASSUME NEW v \in Workers, Complete(v) \/ Fail(v) \/ Leave(v) PROVE Ends
  <2>1. v = w /\ work'[w].at = "idle"
    BY <1>8, RestsEffect DEF Complete, Fail, Leave, Resting
  <2> QED BY <2>1, <1>2, PassAtNext
<1>9. ~UNCHANGED work OBVIOUS
<1> QED
  BY <1>3, <1>4, <1>5, <1>6, <1>7, <1>8, <1>9, <1>10
     DEF Next, Process, Time, Ingest, EnqueueExtract, IngestStops, Expire, Retry, vars

\* A worker's job is finite: every step it takes brings it nearer to the end, and
\* nobody else sets it back.
THEOREM PassIsFinite == Spec => PassRunsOut
<1>1. IInv /\ [Next]_vars
        => \A w \in Workers : ~At(w, "idle") /\ work'[w] # work[w]
                                => PassLeft(w)' < PassLeft(w)
  BY PassStep DEF IInv
<1> QED BY <1>1, TreeInvariant, PTL DEF Spec, PassRunsOut
=============================================================================
