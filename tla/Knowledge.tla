------------------------------ MODULE Knowledge ------------------------------
(***************************************************************************)
(* A document of the knowledge base: submitted by a request, indexed by a  *)
(* worker that is told of it through Redis, reindexed and deleted by       *)
(* requests while a worker may be at it.                                   *)
(*                                                                         *)
(* Source: app/services/knowledge_service.py,                              *)
(* app/repositories/knowledge_repository.py,                               *)
(* app/workers/ingestion_worker.py, app/workers/ingestion_queue.py,        *)
(* app/integrations/openai/embeddings.py.                                  *)
(*                                                                         *)
(* All rows here are of one content: the hash allows one of them at a      *)
(* time.  A statement that changes a row locks it until its transaction    *)
(* ends; the job is in Redis before the request that pushed it commits.    *)
(* The statuses processing and failed are written by transactions that     *)
(* end in ready or are rolled back: nobody ever reads them.                *)
(***************************************************************************)
EXTENDS Naturals, Sequences, FiniteSets

CONSTANTS
    Documents,      \* rows a submission may create
    Indexers,       \* replicas of the ingestion worker
    Clerks,         \* requests of a workspace's administrators
    NoDocument,
    MaxJobs,        \* bound: jobs pushed
    MaxTrouble      \* bound: crashes and refusals by Redis

ASSUME KnowledgeAssumption ==
    /\ NoDocument \notin Documents
    /\ MaxJobs \in Nat /\ MaxTrouble \in Nat

VARIABLES
    document,    \* the committed status of each row
    passages,    \* how often each passage of the row is in the index
    jobs,        \* the pending list in Redis
    dead,        \* rows with a job in the failed list
    indexer,     \* where each worker is
    clerk,       \* where each request is
    pushed,      \* bound: jobs pushed so far
    answered,    \* history: rows that have been ready
    excused,     \* history: rows a job for which was lost, or came too early
    trouble      \* bound: trouble so far

knowledgeVars == <<document, passages, jobs, dead, indexer, clerk, pushed,
                   answered, excused, trouble>>

NoIndexing == [stage |-> "idle", on |-> NoDocument]
NoRequest == [stage |-> "idle", on |-> NoDocument, cleared |-> FALSE]

KnowledgeInit ==
    /\ document = [d \in Documents |-> "absent"]
    /\ passages = [d \in Documents |-> 0]
    /\ jobs = <<>>
    /\ dead = {}
    /\ indexer = [w \in Indexers |-> NoIndexing]
    /\ clerk = [c \in Clerks |-> NoRequest]
    /\ pushed = 0
    /\ answered = {}
    /\ excused = {}
    /\ trouble = 0

Exists(d) == document[d] \in {"pending", "ready"}

\* The row is locked by a worker that marked it, or a request that reset it.
RowFree(d) ==
    /\ \A w \in Indexers : ~(indexer[w].stage \in {"embed", "store"}
                             /\ indexer[w].on = d)
    /\ \A c \in Clerks : ~(clerk[c].stage = "reset" /\ clerk[c].on = d)

\* The rows of its passages are locked by a request that is deleting them.
PassagesFree(d) ==
    \A c \in Clerks : ~(clerk[c].stage = "delete" /\ clerk[c].on = d
                        /\ clerk[c].cleared)

AtWork(w, stage, d) ==
    indexer' = [indexer EXCEPT ![w] = [stage |-> stage, on |-> d]]
AtDesk(c, stage, d) ==
    clerk' = [clerk EXCEPT ![c] = [NoRequest EXCEPT !.stage = stage, !.on = d]]
Leave(c) == clerk' = [clerk EXCEPT ![c] = NoRequest]

Trouble == trouble < MaxTrouble /\ trouble' = trouble + 1

\* A push Redis refuses is logged and swallowed.
Enqueue(d) ==
    \/ /\ pushed < MaxJobs
       /\ pushed' = pushed + 1
       /\ jobs' = Append(jobs, d)
       /\ UNCHANGED <<excused, trouble>>
    \/ /\ Trouble
       /\ excused' = excused \cup {d}
       /\ UNCHANGED <<jobs, pushed>>

-----------------------------------------------------------------------------
(* Requests: KnowledgeService.submit, reingest and delete_document         *)

\* The same content again: a pending row is queued once more, a ready one left.
SubmitAgain ==
    \E d \in Documents :
        /\ document[d] = "pending"
        /\ Enqueue(d)
        /\ UNCHANGED <<document, passages, dead, indexer, clerk, answered>>

\* No row has the hash yet.
Submit(c) ==
    /\ clerk[c] = NoRequest
    /\ \A d \in Documents : ~Exists(d)
    /\ AtDesk(c, "new", NoDocument)
    /\ UNCHANGED <<document, passages, jobs, dead, indexer, pushed, answered,
                   excused, trouble>>

\* A row nobody has heard of: identifiers are drawn anew.
Fresh(d) ==
    /\ document[d] = "absent"
    /\ d \notin dead \cup excused
    /\ \A i \in 1..Len(jobs) : jobs[i] # d
    /\ \A w \in Indexers : indexer[w].on # d

\* The insert waits for another insert of the hash, and fails on a row of it.
Insert(c) ==
    /\ clerk[c].stage = "new"
    /\ \A o \in Clerks : clerk[o].stage # "inserted"
    /\ IF \E d \in Documents : Exists(d)
       THEN /\ Leave(c)
            /\ UNCHANGED <<jobs, pushed, excused, trouble>>
       ELSE \E d \in Documents :
                /\ Fresh(d)
                /\ AtDesk(c, "inserted", d)
                /\ Enqueue(d)
    /\ UNCHANGED <<document, passages, dead, indexer, answered>>

CommitInsert(c) ==
    /\ clerk[c].stage = "inserted"
    /\ document' = [document EXCEPT ![clerk[c].on] = "pending"]
    /\ Leave(c)
    /\ UNCHANGED <<passages, jobs, dead, indexer, pushed, answered, excused,
                   trouble>>

\* A pending row is already what it is to become.
ReingestPending ==
    \E d \in Documents :
        /\ document[d] = "pending"
        /\ Enqueue(d)
        /\ UNCHANGED <<document, passages, dead, indexer, clerk, answered>>

Reingest(c) ==
    \E d \in Documents :
        /\ clerk[c] = NoRequest
        /\ document[d] = "ready"
        /\ AtDesk(c, "reingest", d)
        /\ UNCHANGED <<document, passages, jobs, dead, indexer, pushed,
                       answered, excused, trouble>>

\* The update waits for the row, and fails if it is gone.
Reset(c) ==
    LET d == clerk[c].on IN
    /\ clerk[c].stage = "reingest"
    /\ RowFree(d)
    /\ IF Exists(d) THEN AtDesk(c, "reset", d) /\ Enqueue(d)
       ELSE Leave(c) /\ UNCHANGED <<jobs, pushed, excused, trouble>>
    /\ UNCHANGED <<document, passages, dead, indexer, answered>>

CommitReset(c) ==
    /\ clerk[c].stage = "reset"
    /\ document' = [document EXCEPT ![clerk[c].on] = "pending"]
    /\ Leave(c)
    /\ UNCHANGED <<passages, jobs, dead, indexer, pushed, answered, excused,
                   trouble>>

\* clear_for_document, whose deletions lock the rows they find.
Delete(c) ==
    \E d \in Documents :
        /\ clerk[c] = NoRequest
        /\ Exists(d)
        /\ PassagesFree(d)
        /\ clerk' = [clerk EXCEPT ![c] = [stage |-> "delete", on |-> d,
                                          cleared |-> passages[d] > 0]]
        /\ UNCHANGED <<document, passages, jobs, dead, indexer, pushed,
                       answered, excused, trouble>>

\* Mutant: only the passages the first statement found are gone.
WithoutCascade(d, cleared) == IF cleared THEN 0 ELSE passages[d]

\* The row's own deletion takes with it what was stored since (ON DELETE CASCADE).
Cascade(d, cleared) == 0

DeleteRow(c) ==
    LET d == clerk[c].on IN
    /\ clerk[c].stage = "delete"
    /\ RowFree(d)
    /\ document' = [document EXCEPT ![d] = "deleted"]
    /\ passages' = [passages EXCEPT ![d] = Cascade(d, clerk[c].cleared)]
    /\ Leave(c)
    /\ UNCHANGED <<jobs, dead, indexer, pushed, answered, excused, trouble>>

\* A request that dies is rolled back; the job it pushed stays in Redis.
Abandon(c) ==
    /\ clerk[c] # NoRequest
    /\ Trouble
    /\ Leave(c)
    /\ UNCHANGED <<document, passages, jobs, dead, indexer, pushed, answered,
                   excused>>

-----------------------------------------------------------------------------
(* The worker: IngestionWorker.run_once and KnowledgeService.ingest        *)

Reserve(w) ==
    /\ indexer[w] = NoIndexing
    /\ jobs # <<>>
    /\ AtWork(w, "read", Head(jobs))
    /\ jobs' = Tail(jobs)
    /\ UNCHANGED <<document, passages, dead, clerk, pushed, answered, excused,
                   trouble>>

\* Mutant: the job of an attempt that failed is released like any other.
Forgotten(w) == UNCHANGED dead

\* Rolled back, the status written by mark_failed included, and dead-lettered.
Failed(w) == dead' = dead \cup {indexer[w].on}

\* A row that is not there fails the job, a ready one is left alone: either may
\* be what a request that has not committed is about to change.
ReadDocument(w) ==
    LET d == indexer[w].on IN
    /\ indexer[w].stage = "read"
    /\ IF Exists(d) THEN UNCHANGED dead ELSE Failed(w)
    /\ IF document[d] = "pending" THEN AtWork(w, "mark", d)
       ELSE AtWork(w, "idle", NoDocument)
    /\ excused' = IF document[d] # "pending"
                     /\ \E c \in Clerks : clerk[c].stage \in {"inserted", "reset"}
                                          /\ clerk[c].on = d
                  THEN excused \cup {d} ELSE excused
    /\ UNCHANGED <<document, passages, jobs, clerk, pushed, answered, trouble>>

\* mark_processing: waits for the row, and fails if it has been deleted.
MarkProcessing(w) ==
    LET d == indexer[w].on IN
    /\ indexer[w].stage = "mark"
    /\ RowFree(d)
    /\ IF Exists(d) THEN AtWork(w, "embed", d) /\ UNCHANGED dead
       ELSE AtWork(w, "idle", NoDocument) /\ Failed(w)
    /\ UNCHANGED <<document, passages, jobs, clerk, pushed, answered, excused,
                   trouble>>

Embed(w) ==
    /\ indexer[w].stage = "embed"
    /\ AtWork(w, "store", indexer[w].on)
    /\ UNCHANGED <<document, passages, jobs, dead, clerk, pushed, answered,
                   excused, trouble>>

\* No text, no passages, or a provider that fails for as often as it is asked.
EmbedFails(w) ==
    /\ indexer[w].stage = "embed"
    /\ AtWork(w, "idle", NoDocument)
    /\ Failed(w)
    /\ UNCHANGED <<document, passages, jobs, clerk, pushed, answered, excused,
                   trouble>>

\* _rebuild's replacement of the passages, mark_ready and the commit.
Store(w) ==
    LET d == indexer[w].on IN
    /\ indexer[w].stage = "store"
    /\ PassagesFree(d)
    /\ passages' = [passages EXCEPT ![d] = 1]
    /\ document' = [document EXCEPT ![d] = "ready"]
    /\ answered' = answered \cup {d}
    /\ AtWork(w, "idle", NoDocument)
    /\ UNCHANGED <<jobs, dead, clerk, pushed, excused, trouble>>

\* The worker waits for the passages, the request for the row: PostgreSQL fails
\* one of the two.
BreakDeadlock(w) ==
    \E c \in Clerks :
        LET d == indexer[w].on IN
        /\ indexer[w].stage = "store"
        /\ clerk[c].stage = "delete" /\ clerk[c].on = d /\ clerk[c].cleared
        /\ \/ AtWork(w, "idle", NoDocument) /\ Failed(w) /\ UNCHANGED clerk
           \/ Leave(c) /\ UNCHANGED <<indexer, dead>>
        /\ UNCHANGED <<document, passages, jobs, pushed, answered, excused,
                       trouble>>

\* A crash: the job stays in the in-flight list, which nobody reads.
Crash(w) ==
    /\ indexer[w] # NoIndexing
    /\ Trouble
    /\ excused' = excused \cup {indexer[w].on}
    /\ AtWork(w, "idle", NoDocument)
    /\ UNCHANGED <<document, passages, jobs, dead, clerk, pushed, answered>>

-----------------------------------------------------------------------------

ClerkStep(c) ==
    \/ Submit(c) \/ Insert(c) \/ CommitInsert(c) \/ Reingest(c) \/ Reset(c)
    \/ CommitReset(c) \/ Delete(c) \/ DeleteRow(c) \/ Abandon(c)

IndexerStep(w) ==
    \/ Reserve(w) \/ ReadDocument(w) \/ MarkProcessing(w) \/ Embed(w)
    \/ EmbedFails(w) \/ Store(w) \/ BreakDeadlock(w) \/ Crash(w)

KnowledgeNext ==
    \/ SubmitAgain \/ ReingestPending
    \/ \E c \in Clerks : ClerkStep(c)
    \/ \E w \in Indexers : IndexerStep(w)

KnowledgeSpec == KnowledgeInit /\ [][KnowledgeNext]_knowledgeVars

-----------------------------------------------------------------------------
(* Properties                                                              *)

\* Every variable has its type.
KnowledgeTypeOK ==
    /\ document \in [Documents -> {"absent", "pending", "ready", "deleted"}]
    /\ passages \in [Documents -> 0..1]
    /\ jobs \in Seq(Documents)
    /\ dead \cup answered \cup excused \subseteq Documents
    /\ indexer \in [Indexers -> [stage : {"idle", "read", "mark", "embed", "store"},
                                 on : Documents \cup {NoDocument}]]
    /\ clerk \in [Clerks ->
            [stage : {"idle", "new", "inserted", "reingest", "reset", "delete"},
             on : Documents \cup {NoDocument}, cleared : BOOLEAN]]
    /\ pushed \in 0..MaxJobs
    /\ trouble \in 0..MaxTrouble

\* A search, which joins the passages to ready documents, finds every passage of
\* such a document; nothing of one that was deleted is left to be found, even
\* when a worker was storing it at the time.
AnswersAreWhole ==
    \A d \in Documents :
        /\ document[d] = "ready" => passages[d] = 1
        /\ document[d] \in {"absent", "deleted"} => passages[d] = 0

HasJob(d) ==
    \/ \E i \in 1..Len(jobs) : jobs[i] = d
    \/ \E w \in Indexers : indexer[w].on = d

\* A document that waits to be indexed has a job, or one in the failed list to
\* show for it, unless the job was lost or a worker came before the commit.
PendingHasJob ==
    \A d \in Documents :
        document[d] = "pending" => HasJob(d) \/ d \in dead \cup excused

\* A document that is ready is found whole, and one that waits has its job
\* (KnowledgeService.submit, reingest, ingest and delete_document).
DocumentsAreServed == AnswersAreWhole /\ PendingHasJob

Unfinished(d) == HasJob(d) \/ \E c \in Clerks : clerk[c].on = d

\* Violated: "Safe to call on a document that is already ready: re-ingestion
\* replaces its chunks rather than appending, so the worst case is some wasted
\* embedding calls" (api/v1/knowledge.py).
ReingestIsSafe ==
    \A d \in answered :
        Exists(d) /\ ~Unfinished(d) => document[d] = "ready"

=============================================================================
