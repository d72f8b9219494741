------------------------------- MODULE Turns --------------------------------
(***************************************************************************)
(* One conversation, from the webhook that stores what the customer sent   *)
(* to the turn in which an agent answers it.                               *)
(*                                                                         *)
(* Source: app/services/whatsapp_service.py, app/workers/queue.py,         *)
(* app/workers/ai_worker.py, app/agents/orchestrator.py,                   *)
(* app/services/sentiment_service.py, app/services/messaging_service.py,   *)
(* app/workers/media_worker.py, app/services/media_service.py.             *)
(*                                                                         *)
(* Three kinds of process meet on the rows of the conversation, each in    *)
(* one database transaction: a webhook delivery, an agent worker's turn    *)
(* and a media worker's reading of one file.  Jobs travel through Redis,   *)
(* which knows nothing of those transactions: a job may run before the     *)
(* rows it is about are committed.                                         *)
(***************************************************************************)
EXTENDS Integers, FiniteSets

CONSTANTS
    Texts,          \* messages of the customer that carry no file
    Files,          \* messages of the customer that carry one
    Agents,         \* agent workers
    Readers,        \* media workers
    None,           \* no message, no worker
    MaxRank,        \* the highest conversation priority (normal is 0)
    MaxDeliveries,  \* bound: webhook deliveries, redeliveries included
    MaxMishaps,     \* bound: faults
    Faults          \* which faults may occur, see FaultKinds

\* "crash": a worker process dies.  "rollback": the webhook's transaction does
\* not commit.  "failure": a call raises inside a job.  "redis": an enqueue
\* fails.  "requeue": an operator puts a stranded job back.  "allowance": the
\* workspace may run out of AI requests, or pause its agent.
FaultKinds == {"crash", "rollback", "failure", "redis", "requeue", "allowance"}

ASSUME TurnsAssumption ==
    /\ IsFiniteSet(Agents)
    /\ Texts \cap Files = {}
    /\ Agents \cap Readers = {}
    /\ None \notin Texts \cup Files \cup Agents \cup Readers
    /\ MaxRank \in Nat
    /\ MaxDeliveries \in Nat
    /\ MaxMishaps \in Nat
    /\ Faults \subseteq FaultKinds

VARIABLES
    stored,      \* committed messages
    latest,      \* the newest of them
    file,        \* committed state of each file's row
    conv,        \* committed conversation row: who answers, and how urgent
    reading,     \* committed sentiment readings
    answerer,    \* whether the workspace can answer: see Answerer
    hook,        \* the webhook transaction in progress
    lock,        \* the worker whose transaction has locked the conversation row
    agentJobs,   \* the agent queue: jobs are all equal, so lists are counts
    mediaJobs,   \* the media queue: the list each job is in
    turn,        \* where each agent worker is
    reader,      \* where each media worker is
    delivered,   \* bound: deliveries so far
    mishaps,     \* bound: faults so far
    heard,       \* history: messages a completed turn has taken into account
    missed,      \* history: messages whose job ran before they were committed,
                 \* or was lost
    owed,        \* history: committed deliveries of files, less the turns asked
                 \* for because the files had been read
    overruled    \* history: replies sent since a person took the conversation

rows == <<stored, latest, file, conv, reading>>
queues == <<agentJobs, mediaJobs>>
workers == <<turn, reader>>
bounds == <<delivered, mishaps>>
history == <<heard, missed, owed, overruled>>
vars == <<stored, latest, file, conv, reading, answerer, hook, lock, agentJobs,
          mediaJobs, turn, reader, delivered, mishaps, heard, missed, owed,
          overruled>>

Messages == Texts \cup Files

\* A file's row is new with every delivery that is not a duplicate, so a job
\* names the file and the delivery that enqueued it.
MediaJob == Files \X (1..MaxDeliveries)
MediaList == {"none", "pending", "inflight", "failed"}

Resolved == {"ready", "skipped", "failed"}
FileRow == [status : {"absent", "pending"} \cup Resolved,
            delivery : 0..MaxDeliveries]

Mood == {"none", "calm", "angry"}

\* No AI requests left; no active default agent.
Answerer == {"ready", "unpaid", "agentless"}

\* rank is the priority as read, then the one to write; Keep writes none.
Keep == -1
RaisedPriority(current, implied) == IF implied > current THEN implied ELSE Keep

Idle == [stage |-> "idle", about |-> None, mood |-> "none", inserts |-> FALSE,
         rank |-> Keep, handoff |-> FALSE, sent |-> FALSE, saw |-> {}]
NotReading == [stage |-> "idle", job |-> None, result |-> "absent"]
NoDelivery == [stage |-> "idle", fresh |-> {}]

Unread == {f \in Files : file[f].status = "pending"}

\* Nobody else has an uncommitted UPDATE of the conversation row.
RowFree == lock = None /\ hook.stage = "idle"

\* Between its flush and its commit a turn holds a key-share lock on the row,
\* which its message refers to: it excludes SELECT ... FOR UPDATE only.
Referenced == \E a \in Agents :
    turn[a].stage = "send" \/ (turn[a].stage = "leave" /\ turn[a].sent)

Mishap(kind) ==
    /\ kind \in Faults
    /\ mishaps < MaxMishaps
    /\ mishaps' = mishaps + 1
    /\ UNCHANGED delivered

Init ==
    /\ stored = {}
    /\ latest = None
    /\ file = [f \in Files |-> [status |-> "absent", delivery |-> 0]]
    /\ conv = [mode |-> "ai", rank |-> 0]
    /\ reading = [m \in Messages |-> "none"]
    /\ answerer = "ready"
    /\ hook = NoDelivery
    /\ lock = None
    /\ agentJobs = [pending |-> 0, inflight |-> 0, failed |-> 0]
    /\ mediaJobs = [j \in MediaJob |-> "none"]
    /\ turn = [a \in Agents |-> Idle]
    /\ reader = [r \in Readers |-> NotReading]
    /\ delivered = 0
    /\ mishaps = 0
    /\ heard = {}
    /\ missed = {}
    /\ owed = 0
    /\ overruled = 0

-----------------------------------------------------------------------------
(* The webhook: WhatsAppIngestionService.ingest in a request's transaction *)

\* The events are recorded and projected, and flushed: from here the rows
\* exist, uncommitted, and the conversation row is locked.  Events already
\* stored are duplicates and change nothing.
Ingest(payload) ==
    /\ RowFree
    /\ delivered < MaxDeliveries
    /\ payload \ stored # {}
    /\ hook' = [stage |-> "flushed", fresh |-> payload \ stored]
    /\ delivered' = delivered + 1
    /\ UNCHANGED <<rows, answerer, lock, queues, workers, mishaps, history>>

\* One agent job if a message came without a file, one media job per file.
Queue(messages) ==
    /\ hook.stage = "flushed"
    /\ hook' = [hook EXCEPT !.stage = "queued"]
    /\ agentJobs' = IF messages \cap Texts = {} THEN agentJobs
                    ELSE [agentJobs EXCEPT !.pending = agentJobs.pending + 1]
    /\ mediaJobs' = [j \in MediaJob |->
                       IF j[1] \in messages /\ j[2] = delivered
                       THEN "pending" ELSE mediaJobs[j]]
    /\ UNCHANGED <<rows, answerer, lock, workers, delivered, heard, owed, overruled>>

Enqueue == Queue(hook.fresh) /\ UNCHANGED <<mishaps, missed>>

\* Redis does not answer some of the calls; each is logged and passed over.
EnqueueLost ==
    \E kept \in SUBSET hook.fresh :
        /\ kept # hook.fresh
        /\ kept \cap Texts \in {{}, hook.fresh \cap Texts}
        /\ Queue(kept)
        /\ Mishap("redis")
        /\ missed' = missed \cup (hook.fresh \ kept)

CommitDelivery ==
    /\ hook.stage = "queued"
    /\ stored' = stored \cup hook.fresh
    /\ latest' \in hook.fresh
    /\ file' = [f \in Files |->
                  IF f \in hook.fresh
                  THEN [status |-> "pending", delivery |-> delivered]
                  ELSE file[f]]
    /\ owed' = IF hook.fresh \cap Files = {} THEN owed ELSE owed + 1
    /\ hook' = NoDelivery
    /\ UNCHANGED <<conv, reading, answerer, lock, queues, workers, bounds, heard,
                   missed, overruled>>

\* The commit fails, or the process dies before it; the jobs stay enqueued, and
\* WhatsApp delivers again.
RollBack ==
    /\ hook.stage # "idle"
    /\ Mishap("rollback")
    /\ hook' = NoDelivery
    /\ missed' = missed \ hook.fresh
    /\ UNCHANGED <<rows, answerer, lock, queues, workers, heard, owed, overruled>>

Webhook ==
    \/ \E payload \in SUBSET Messages : Ingest(payload)
    \/ Enqueue
    \/ EnqueueLost
    \/ CommitDelivery
    \/ RollBack

-----------------------------------------------------------------------------
(* The agent worker: AgentWorker.run_once and AgentOrchestrator.answer     *)

Goes(a, stage) == turn' = [turn EXCEPT ![a].stage = stage]

\* What the turn knew is of no use once it is over.
Done == [Idle EXCEPT !.stage = "done"]
Ends(a) == turn' = [turn EXCEPT ![a] = Done]

\* reserve: the job moves to the in-flight list.
Take(a) ==
    /\ turn[a].stage = "idle"
    /\ agentJobs.pending > 0
    /\ agentJobs' = [agentJobs EXCEPT !.pending = agentJobs.pending - 1,
                                      !.inflight = agentJobs.inflight + 1]
    /\ Goes(a, "begin")
    /\ missed' = IF hook.stage = "queued" THEN missed \cup (hook.fresh \cap Texts)
                 ELSE missed
    /\ UNCHANGED <<rows, answerer, hook, lock, mediaJobs, reader, bounds, heard,
                   owed, overruled>>

\* Silence is the decision: no allowance, no active agent, or a person owns the
\* conversation.
StaySilent(a) ==
    /\ turn[a].stage = "begin"
    /\ \/ answerer = "unpaid"
       \/ stored # {} /\ (conv.mode = "human" \/ answerer = "agentless")
    /\ Ends(a)
    /\ heard' = heard \cup stored
    /\ UNCHANGED <<rows, answerer, hook, lock, queues, reader, bounds, missed, owed,
                   overruled>>

\* Mutant: a conversation a person owns is answered all the same.
BeginTurnAnyMode(a) ==
    /\ turn[a].stage = "begin"
    /\ answerer = "ready"
    /\ stored # {}
    /\ turn' = [turn EXCEPT ![a] =
                  CASE reading[latest] = "none" ->
                         [Idle EXCEPT !.stage = "mood", !.about = latest,
                                      !.rank = conv.rank]
                    [] reading[latest] = "calm" -> [Idle EXCEPT !.stage = "read"]
                    [] reading[latest] = "angry" -> Done]
    /\ heard' = IF reading[latest] = "angry" THEN heard \cup stored ELSE heard
    /\ UNCHANGED <<rows, answerer, hook, lock, queues, reader, bounds, missed, owed,
                   overruled>>

\* The conversation is read once; its mode and priority are not read again.
\* assess: the newest message was judged before or is to be judged now.  A stored
\* reading that escalated silences this turn too.
BeginTurn(a) ==
    /\ turn[a].stage = "begin"
    /\ answerer = "ready"
    /\ stored # {}
    /\ conv.mode = "ai"
    /\ turn' = [turn EXCEPT ![a] =
                  CASE reading[latest] = "none" ->
                         [Idle EXCEPT !.stage = "mood", !.about = latest,
                                      !.rank = conv.rank]
                    [] reading[latest] = "calm" -> [Idle EXCEPT !.stage = "read"]
                    [] reading[latest] = "angry" -> Done]
    /\ heard' = IF reading[latest] = "angry" THEN heard \cup stored ELSE heard
    /\ UNCHANGED <<rows, answerer, hook, lock, queues, reader, bounds, missed, owed,
                   overruled>>

\* The classifier cannot be asked, or there are no words to judge.
NoReading(a) ==
    /\ turn[a].stage = "mood"
    /\ turn' = [turn EXCEPT ![a] = [Idle EXCEPT !.stage = "read"]]
    /\ UNCHANGED <<rows, answerer, hook, lock, queues, reader, bounds, history>>

\* A reading raises the priority that was read and never lowers it; one past
\* the agent's threshold hands the conversation to a person.  The reading is
\* kept unless another turn has committed one of this message.
Read(a) ==
    /\ turn[a].stage = "mood"
    /\ \E mood \in {"calm", "angry"}, implied \in 0..MaxRank :
         turn' = [turn EXCEPT
                    ![a].stage = IF mood = "angry" THEN "leave" ELSE "read",
                    ![a].mood = mood,
                    ![a].inserts = reading[turn[a].about] = "none",
                    ![a].rank = RaisedPriority(turn[a].rank, implied),
                    ![a].handoff = mood = "angry",
                    ![a].saw = IF mood = "angry" THEN stored ELSE {}]
    /\ UNCHANGED <<rows, answerer, hook, lock, queues, reader, bounds, history>>

ReadHistory(a) ==
    /\ turn[a].stage = "read"
    /\ turn' = [turn EXCEPT ![a].stage = "compose", ![a].saw = stored]
    /\ UNCHANGED <<rows, answerer, hook, lock, queues, reader, bounds, history>>

\* The model has nothing to say, or asks for a person.
SayNothing(a) ==
    /\ turn[a].stage = "compose"
    /\ \E asked \in BOOLEAN :
         turn' = [turn EXCEPT ![a].stage = "leave", ![a].handoff = asked]
    /\ UNCHANGED <<rows, answerer, hook, lock, queues, reader, bounds, history>>

\* Mutant: the readings have no unique constraint.
RejudgedNever(a) == FALSE

\* Another turn has committed a reading of the message since this one looked:
\* the unique constraint rejects the second.
Rejudged(a) == turn[a].inserts /\ reading[turn[a].about] # "none"

\* The model replies.  _dispatch stages the message and flushes it, with
\* whatever the reading changed.
Stage(a) ==
    /\ turn[a].stage = "compose"
    /\ lock \notin Readers
    /\ turn[a].mood # "none" => RowFree
    /\ ~Rejudged(a)
    /\ Goes(a, "send")
    /\ lock' = IF turn[a].mood # "none" THEN a ELSE lock
    /\ UNCHANGED <<rows, answerer, hook, queues, reader, bounds, history>>

\* WhatsApp accepts the reply, or the message is marked failed.
Send(a) ==
    /\ turn[a].stage = "send"
    /\ \E accepted \in BOOLEAN :
         /\ turn' = [turn EXCEPT ![a].stage = "leave", ![a].sent = TRUE]
         /\ overruled' = IF accepted /\ conv.mode = "human"
                            /\ overruled <= Cardinality(Agents)
                         THEN overruled + 1 ELSE overruled
    /\ UNCHANGED <<rows, answerer, hook, lock, queues, reader, bounds, heard, missed,
                   owed>>

\* The transaction commits: mode and priority are written if this turn changed
\* them, the reading if it took one.
Leave(a) ==
    LET t == turn[a]
        changed == t.mood # "none" \/ t.handoff \/ t.sent
    IN  /\ t.stage = "leave"
        /\ changed => lock = a \/ RowFree
        /\ lock = a \/ ~Rejudged(a)
        /\ conv' = [mode |-> IF t.handoff THEN "human" ELSE conv.mode,
                    rank |-> IF t.rank # Keep THEN t.rank ELSE conv.rank]
        /\ reading' = IF t.inserts THEN [reading EXCEPT ![t.about] = t.mood]
                      ELSE reading
        /\ heard' = heard \cup t.saw
        /\ Ends(a)
        /\ lock' = IF lock = a THEN None ELSE lock
        /\ UNCHANGED <<stored, latest, file, answerer, hook, queues, reader, bounds,
                       missed, owed, overruled>>

\* release: the job leaves the in-flight list.
Release(a) ==
    /\ turn[a].stage = "done"
    /\ turn' = [turn EXCEPT ![a] = Idle]
    /\ agentJobs' = [agentJobs EXCEPT !.inflight = agentJobs.inflight - 1]
    /\ UNCHANGED <<rows, answerer, hook, lock, mediaJobs, reader, bounds, history>>

\* An exception rolls the turn back and fails the job: first it leaves the
\* in-flight list, then it joins the failed one.
Raise(a) ==
    /\ turn' = [turn EXCEPT ![a] = [Idle EXCEPT !.stage = "failing"]]
    /\ agentJobs' = [agentJobs EXCEPT !.inflight = agentJobs.inflight - 1]
    /\ lock' = IF lock = a THEN None ELSE lock
    /\ UNCHANGED <<rows, answerer, hook, mediaJobs, reader, history>>

\* The job names a conversation that is not committed, or its reading is refused.
CannotAnswer(a) ==
    /\ \/ turn[a].stage = "begin" /\ answerer # "unpaid" /\ stored = {}
       \/ turn[a].stage = "compose" /\ Rejudged(a)
       \/ turn[a].stage = "leave" /\ lock # a /\ Rejudged(a)
    /\ Raise(a)
    /\ UNCHANGED bounds

\* The provider, the credential or the 24-hour window refuses.
TurnFails(a) ==
    /\ turn[a].stage \in {"mood", "compose"}
    /\ Mishap("failure")
    /\ Raise(a)

\* Mutant: the job is removed from the in-flight list once more.
DeadLetterTwice(a) ==
    /\ turn[a].stage = "failing"
    /\ turn' = [turn EXCEPT ![a] = Idle]
    /\ agentJobs' = [agentJobs EXCEPT !.failed = agentJobs.failed + 1,
                                      !.inflight = agentJobs.inflight - 1]
    /\ UNCHANGED <<rows, answerer, hook, lock, mediaJobs, reader, bounds, history>>

DeadLetter(a) ==
    /\ turn[a].stage = "failing"
    /\ turn' = [turn EXCEPT ![a] = Idle]
    /\ agentJobs' = [agentJobs EXCEPT !.failed = agentJobs.failed + 1]
    /\ UNCHANGED <<rows, answerer, hook, lock, mediaJobs, reader, bounds, history>>

\* The process dies: the job stays in flight, unless it was between two lists.
AgentDies(a) ==
    /\ turn[a].stage # "idle"
    /\ Mishap("crash")
    /\ turn' = [turn EXCEPT ![a] = Idle]
    /\ lock' = IF lock = a THEN None ELSE lock
    /\ missed' = IF turn[a].stage = "failing" THEN missed \cup stored ELSE missed
    /\ UNCHANGED <<rows, answerer, hook, queues, reader, heard, owed, overruled>>

AgentStep(a) ==
    \/ Take(a)
    \/ StaySilent(a)
    \/ BeginTurn(a)
    \/ NoReading(a)
    \/ Read(a)
    \/ ReadHistory(a)
    \/ SayNothing(a)
    \/ Stage(a)
    \/ Send(a)
    \/ Leave(a)
    \/ Release(a)
    \/ CannotAnswer(a)
    \/ DeadLetter(a)

-----------------------------------------------------------------------------
(* The media worker: MediaWorker.run_once                                  *)

Holds(r) == reader[r].job
Reads(r, stage) == reader' = [reader EXCEPT ![r].stage = stage]
Lists(r, list) == mediaJobs' = [mediaJobs EXCEPT ![Holds(r)] = list]

TakeFile(r, j) ==
    /\ reader[r].stage = "idle"
    /\ mediaJobs[j] = "pending"
    /\ reader' = [reader EXCEPT ![r] = [NotReading EXCEPT !.stage = "open", !.job = j]]
    /\ mediaJobs' = [mediaJobs EXCEPT ![j] = "inflight"]
    /\ UNCHANGED <<rows, answerer, hook, lock, agentJobs, turn, bounds, history>>

\* The row a job names is committed, by the delivery that enqueued the job.
RowThere(r) == file[Holds(r)[1]].delivery = Holds(r)[2]

\* _handle: no such row, nothing to read.
RowMissing(r) ==
    /\ reader[r].stage = "open"
    /\ ~RowThere(r)
    /\ Reads(r, "done")
    /\ missed' = IF hook.stage = "queued" /\ Holds(r)[2] = delivered
                 THEN missed \cup {Holds(r)[1]} ELSE missed
    /\ UNCHANGED <<rows, answerer, hook, lock, queues, turn, bounds, heard, owed,
                   overruled>>

\* ConversationMediaGate.lock: SELECT ... FOR UPDATE.
OpenFile(r) ==
    /\ reader[r].stage = "open"
    /\ RowThere(r)
    /\ RowFree
    /\ ~Referenced
    /\ lock' = r
    /\ Reads(r, "process")
    /\ UNCHANGED <<rows, answerer, hook, queues, turn, bounds, history>>

\* download and understand: the file is read, given up, or an attempt broke.  A
\* file that is ready or given up stays so.
Outcomes(r) ==
    LET before == file[Holds(r)[1]].status
    IN  IF before \in {"ready", "skipped"} THEN {before} ELSE Resolved

Process(r) ==
    /\ reader[r].stage = "process"
    /\ \E result \in Outcomes(r) :
         reader' = [reader EXCEPT ![r].stage = "commit", ![r].result = result]
    /\ UNCHANGED <<rows, answerer, hook, lock, mediaJobs, turn, delivered, heard>>

\* Mutants: the file's own outcome is not flushed before the count; the count
\* is not taken at all.
OthersUnreadUnflushed(r) == Unread
OthersUnreadIgnored(r) == {}

\* count_unresolved, with this file's own outcome flushed.
OthersUnread(r) == Unread \ {Holds(r)[1]}

\* _release_conversation: another file of the conversation is still unread.
KeepWaiting(r) ==
    /\ Process(r)
    /\ OthersUnread(r) # {}
    /\ UNCHANGED <<agentJobs, mishaps, missed, owed, overruled>>

\* _release_conversation: nothing is unread, so a turn is asked for.
AskTurn(r) ==
    /\ Process(r)
    /\ OthersUnread(r) = {}
    /\ agentJobs' = [agentJobs EXCEPT !.pending = agentJobs.pending + 1]
    /\ owed' = IF owed >= 0 THEN owed - 1 ELSE owed
    /\ UNCHANGED <<mishaps, missed, overruled>>

AskLost(r) ==
    /\ Process(r)
    /\ OthersUnread(r) = {}
    /\ Mishap("redis")
    /\ missed' = missed \cup stored
    /\ UNCHANGED <<agentJobs, owed, overruled>>

CommitFile(r) ==
    /\ reader[r].stage = "commit"
    /\ file' = [file EXCEPT ![Holds(r)[1]].status = reader[r].result]
    /\ lock' = None
    /\ reader' = [reader EXCEPT ![r].stage = "done", ![r].result = "absent"]
    /\ UNCHANGED <<stored, latest, conv, reading, answerer, hook, queues, turn, bounds,
                   history>>

ReleaseFile(r) ==
    /\ reader[r].stage = "done"
    /\ reader' = [reader EXCEPT ![r] = NotReading]
    /\ Lists(r, "none")
    /\ UNCHANGED <<rows, answerer, hook, lock, agentJobs, turn, bounds, history>>

\* Asking WhatsApp about the file raises, or there is no token: rolled back.
ReadFails(r) ==
    /\ reader[r].stage = "process"
    /\ file[Holds(r)[1]].status \in {"pending", "failed"}
    /\ Mishap("failure")
    /\ Reads(r, "failing")
    /\ Lists(r, "none")
    /\ lock' = None
    /\ UNCHANGED <<rows, answerer, hook, agentJobs, turn, history>>

DeadLetterFile(r) ==
    /\ reader[r].stage = "failing"
    /\ reader' = [reader EXCEPT ![r] = NotReading]
    /\ Lists(r, "failed")
    /\ UNCHANGED <<rows, answerer, hook, lock, agentJobs, turn, bounds, history>>

ReaderDies(r) ==
    /\ reader[r].stage # "idle"
    /\ Mishap("crash")
    /\ reader' = [reader EXCEPT ![r] = NotReading]
    /\ lock' = IF lock = r THEN None ELSE lock
    /\ UNCHANGED <<rows, answerer, hook, queues, turn, history>>

ReaderStep(r) ==
    \/ \E j \in MediaJob : TakeFile(r, j)
    \/ RowMissing(r)
    \/ OpenFile(r)
    \/ KeepWaiting(r)
    \/ AskTurn(r)
    \/ CommitFile(r)
    \/ ReleaseFile(r)
    \/ DeadLetterFile(r)

-----------------------------------------------------------------------------
(* People *)

\* InboxService.set_mode
SetMode(mode) ==
    /\ stored # {}
    /\ RowFree
    /\ conv.mode # mode
    /\ conv' = [conv EXCEPT !.mode = mode]
    /\ overruled' = 0
    /\ UNCHANGED <<stored, latest, file, reading, answerer, hook, lock, queues, workers,
                   bounds, heard, missed, owed>>

\* SentimentService.set_priority
SetPriority(rank) ==
    /\ stored # {}
    /\ RowFree
    /\ conv.rank # rank
    /\ conv' = [conv EXCEPT !.rank = rank]
    /\ UNCHANGED <<stored, latest, file, reading, answerer, hook, lock, queues, workers,
                   bounds, history>>

\* The allowance runs out or a plan restores it; the agent is paused or resumed.
ChangeAnswerer ==
    /\ "allowance" \in Faults
    /\ answerer' \in Answerer \ {answerer}
    /\ UNCHANGED <<rows, hook, lock, queues, workers, bounds, history>>

AtWork == {a \in Agents : turn[a].stage \notin {"idle", "failing"}}
Stranded == agentJobs.inflight > Cardinality(AtWork)
StrandedFile(j) == mediaJobs[j] = "inflight" /\ \A r \in Readers : Holds(r) # j

\* RUNBOOK: an operator moves a stranded or failed job back to pending.
Requeue ==
    /\ "requeue" \in Faults
    /\ \/ /\ Stranded
          /\ agentJobs' = [agentJobs EXCEPT !.inflight = agentJobs.inflight - 1,
                                            !.pending = agentJobs.pending + 1]
          /\ UNCHANGED mediaJobs
       \/ /\ agentJobs.failed > 0
          /\ agentJobs' = [agentJobs EXCEPT !.failed = agentJobs.failed - 1,
                                            !.pending = agentJobs.pending + 1]
          /\ UNCHANGED mediaJobs
       \/ /\ \E j \in MediaJob :
               /\ mediaJobs[j] = "failed" \/ StrandedFile(j)
               /\ mediaJobs' = [mediaJobs EXCEPT ![j] = "pending"]
          /\ UNCHANGED agentJobs
    /\ UNCHANGED <<rows, answerer, hook, lock, workers, bounds, history>>

People ==
    \/ \E mode \in {"ai", "human"} : SetMode(mode)
    \/ \E rank \in 0..MaxRank : SetPriority(rank)
    \/ ChangeAnswerer
    \/ Requeue

Next ==
    \/ Webhook
    \/ \E a \in Agents : AgentStep(a) \/ TurnFails(a) \/ AgentDies(a)
    \/ \E r \in Readers : ReaderStep(r) \/ AskLost(r) \/ ReadFails(r) \/ ReaderDies(r)
    \/ People

Spec == Init /\ [][Next]_vars

\* The worker loops poll for ever; a request that began ends.
FairSpec ==
    /\ Spec
    /\ WF_vars(Enqueue \/ CommitDelivery)
    /\ \A a \in Agents : WF_vars(AgentStep(a))
    /\ \A r \in Readers : WF_vars(ReaderStep(r))

-----------------------------------------------------------------------------
(* Properties *)

TurnStage == {"idle", "begin", "mood", "read", "compose", "send", "leave", "done",
              "failing"}
ReaderStage == {"idle", "open", "process", "commit", "done", "failing"}

TurnState ==
    [stage : TurnStage, about : Messages \cup {None}, mood : Mood,
     inserts : BOOLEAN, rank : {Keep} \cup 0..MaxRank, handoff : BOOLEAN,
     sent : BOOLEAN, saw : SUBSET Messages]

ReaderState ==
    [stage : ReaderStage, job : MediaJob \cup {None},
     result : Resolved \cup {"absent"}]

\* Every variable has the type its comment says.
TypeOK ==
    /\ stored \subseteq Messages
    /\ latest \in Messages \cup {None}
    /\ file \in [Files -> FileRow]
    /\ conv \in [mode : {"ai", "human"}, rank : 0..MaxRank]
    /\ reading \in [Messages -> Mood]
    /\ answerer \in Answerer
    /\ hook \in [stage : {"idle", "flushed", "queued"}, fresh : SUBSET Messages]
    /\ lock \in Agents \cup Readers \cup {None}
    /\ agentJobs \in [pending : Nat, inflight : Nat, failed : Nat]
    /\ mediaJobs \in [MediaJob -> MediaList]
    /\ turn \in [Agents -> TurnState]
    /\ reader \in [Readers -> ReaderState]
    /\ delivered \in 0..MaxDeliveries
    /\ mishaps \in 0..MaxMishaps
    /\ heard \subseteq Messages
    /\ missed \subseteq Messages
    /\ owed \in -1..MaxDeliveries
    /\ overruled \in 0..(Cardinality(Agents) + 1)

\* A turn that will still take the message into account.
Attends(a, m) ==
    \/ turn[a].stage \in {"begin", "mood", "read", "failing"}
    \/ turn[a].stage \in {"compose", "send", "leave"} /\ m \in turn[a].saw

\* Nobody who writes is forgotten without a trace: while no turn has taken a
\* stored message into account, a job for it waits, runs, or lies where an
\* operator finds it, or a file of the conversation is still to be read.  The
\* one exception is a message whose job ran before the message was committed.
NobodyForgotten ==
    \A m \in stored \ (heard \cup missed) :
        \/ agentJobs.pending > 0
        \/ agentJobs.failed > 0
        \/ Stranded
        \/ \E a \in Agents : Attends(a, m)
        \/ Unread # {}

\* Several files of one delivery get one answer: reading them asks for at most
\* one turn per delivery (ConversationMediaGate).
OneAnswerPerDelivery == owed >= 0

\* Once a person has the conversation, the agent speaks over them at most once
\* per worker: the turns already underway.
SpeaksOverAtMostOnce == overruled <= Cardinality(Agents)

\* A message is judged once; a repeated job never changes what was decided.
JudgedOnce ==
    [][\A m \in Messages : reading[m] # "none" => reading'[m] = reading[m]]_vars

\* Violated: "an agent job is not enqueued while anything on the conversation is
\* unresolved" (memory.py).  The job of a text lets an agent answer while a file
\* of the same delivery waits to be read.
NoAnswerUnread ==
    [][\A a \in Agents :
          turn[a].stage = "read" /\ turn'[a].stage = "compose" => Unread = {}]_vars

\* Violated: "Sentiment raises priority and never lowers it." (sentiment.py).  The
\* turn writes what it computed from the priority it read at its beginning.
NeverLowered ==
    [][\A a \in Agents : Leave(a) => conv'.rank >= conv.rank]_vars

\* Every stored message is heard, or waits for an operator.
EveryoneIsHeard ==
    \A m \in Messages :
        m \in stored ~> \/ m \in heard
                        \/ missed # {}
                        \/ agentJobs.failed > 0
                        \/ Stranded
                        \/ \E j \in MediaJob : mediaJobs[j] = "failed" \/ StrandedFile(j)
=============================================================================
