---------------------------- MODULE OfficeProofs ----------------------------
(***************************************************************************)
(* What holds of the documents, the leads, the turns and the worker processes*)
(* of a workspace, for any number of each; and, with what DeliveryProofs and*)
(* WorkspaceProofs show, of every part of the office.                      *)
(***************************************************************************)
EXTENDS Office, DeliveryProofs, WorkspaceProofs

-----------------------------------------------------------------------------
(* Documents                                                               *)

\* A job, or a trace of one: what is left to be done for a row, or what became of it.
Accounted(d) == HasJob(d) \/ d \in dead \cup excused

\* A worker that has marked a row, and a request that has reset one, have it locked.
Locked ==
    /\ \A w \in Indexers : indexer[w].stage \in {"embed", "store"} =>
        /\ Exists(indexer[w].on)
        /\ \A c \in Clerks : ~(clerk[c].stage = "reset" /\ clerk[c].on = indexer[w].on)
    /\ \A c \in Clerks : clerk[c].stage = "reset" => Exists(clerk[c].on)

\* One insert at a time, of a row nobody can see, while nothing has the content.
Inserting ==
    /\ \A c \in Clerks : clerk[c].stage = "inserted" =>
        /\ document[clerk[c].on] = "absent"
        /\ \A d \in Documents : ~Exists(d)
        /\ \A o \in Clerks : clerk[o].stage = "inserted" => o = c
    /\ \A d, e \in Documents : Exists(d) /\ Exists(e) => d = e

\* Who holds something, holds it of a row.
Holding ==
    /\ \A w \in Indexers : IF indexer[w].stage = "idle" THEN indexer[w] = NoIndexing
                            ELSE indexer[w].on \in Documents
    /\ \A c \in Clerks : /\ clerk[c].stage \notin {"idle", "new"} => clerk[c].on \in Documents
                         /\ clerk[c].stage = "delete" => document[clerk[c].on] # "absent"

Waiting ==
    /\ \A d \in Documents : document[d] = "pending" => Accounted(d)
    /\ \A c \in Clerks, d \in Documents :
        clerk[c].stage \in {"inserted", "reset"} /\ clerk[c].on = d => Accounted(d)

KnowledgeInv ==
    /\ KnowledgeTypeOK /\ Holding /\ Locked /\ Inserting /\ Waiting /\ AnswersAreWhole

\* Once a document is deleted, no worker or request that had read it brings it back.
DeletedForGood ==
    [][\A d \in Documents : document[d] = "deleted" => document'[d] = "deleted"]_knowledgeVars

LEMMA EnqueueAdds ==
    ASSUME KnowledgeTypeOK, NEW d \in Documents, Enqueue(d)
    PROVE  /\ jobs' \in Seq(Documents) /\ excused' \subseteq Documents
           /\ pushed' \in 0..MaxJobs /\ trouble' \in 0..MaxTrouble
           /\ \A i \in 1..Len(jobs) : i \in 1..Len(jobs') /\ jobs'[i] = jobs[i]
           /\ excused \subseteq excused'
           /\ d \in excused' \/ \E i \in 1..Len(jobs') : jobs'[i] = d
<1>1. /\ jobs \in Seq(Documents) /\ excused \subseteq Documents
      /\ pushed \in 0..MaxJobs /\ trouble \in 0..MaxTrouble
  BY DEF KnowledgeTypeOK
<1>2. CASE /\ pushed < MaxJobs /\ pushed' = pushed + 1
           /\ jobs' = Append(jobs, d) /\ UNCHANGED <<excused, trouble>>
  <2>1. Len(jobs') = Len(jobs) + 1 /\ jobs'[Len(jobs) + 1] = d
    BY <1>1, <1>2
  <2>. QED
    BY <1>1, <1>2, <2>1, KnowledgeAssumption
<1>3. CASE Trouble /\ excused' = excused \cup {d} /\ UNCHANGED <<jobs, pushed>>
  BY <1>1, <1>3, KnowledgeAssumption DEF Trouble
<1>. QED
  BY <1>2, <1>3 DEF Enqueue

\* Requests
LEMMA ClerksKeepTypes ==
    ASSUME KnowledgeTypeOK, Holding, NEW c \in Clerks, ClerkStep(c)
    PROVE  KnowledgeTypeOK' /\ Holding'
<1>1. \A d \in Documents : Exists(d) => document[d] # "absent"
  BY DEF Exists
<1>2. CASE Submit(c)
  <2>1. KnowledgeTypeOK'
    BY <1>2 DEF Submit, AtDesk, NoRequest, KnowledgeTypeOK
  <2>2. Holding'
    BY <1>2 DEF Submit, AtDesk, NoRequest, KnowledgeTypeOK, Holding
  <2>. QED
    BY <2>1, <2>2
<1>3. CASE Leave(c) /\ UNCHANGED <<document, passages, jobs, dead, indexer, pushed,
                                   answered, excused>> /\ trouble' \in 0..MaxTrouble
  <2>1. KnowledgeTypeOK'
    BY <1>3 DEF Leave, NoRequest, KnowledgeTypeOK
  <2>2. Holding'
    BY <1>3 DEF Leave, NoRequest, KnowledgeTypeOK, Holding
  <2>. QED
    BY <2>1, <2>2
<1>4. ASSUME NEW d \in Documents, NEW stage \in {"inserted", "reset"},
             AtDesk(c, stage, d), Enqueue(d),
             UNCHANGED <<document, passages, dead, indexer, answered>>
      PROVE  KnowledgeTypeOK' /\ Holding'
  <2>1. KnowledgeTypeOK'
    <3>1. /\ jobs' \in Seq(Documents) /\ excused' \subseteq Documents
          /\ pushed' \in 0..MaxJobs /\ trouble' \in 0..MaxTrouble
      BY <1>4, EnqueueAdds
    <3>. QED
      BY <1>4, <3>1 DEF AtDesk, NoRequest, KnowledgeTypeOK
  <2>2. Holding'
    BY <1>4 DEF AtDesk, NoRequest, KnowledgeTypeOK, Holding
  <2>. QED
    BY <2>1, <2>2
<1>5. CASE CommitInsert(c) \/ CommitReset(c)
  <2>1. KnowledgeTypeOK'
    <3>1. /\ document' = [document EXCEPT ![clerk[c].on] = "pending"]
          /\ clerk' = [clerk EXCEPT ![c] = NoRequest]
          /\ UNCHANGED <<passages, jobs, dead, indexer, pushed, answered, excused, trouble>>
      BY <1>5 DEF CommitInsert, CommitReset, Leave
    <3>2. document' \in [Documents -> {"absent", "pending", "ready", "deleted"}]
      BY <3>1 DEF KnowledgeTypeOK
    <3>3. clerk' \in [Clerks ->
            [stage : {"idle", "new", "inserted", "reingest", "reset", "delete"},
             on : Documents \cup {NoDocument}, cleared : BOOLEAN]]
      BY <3>1 DEF NoRequest, KnowledgeTypeOK
    <3>. QED
      BY <3>1, <3>2, <3>3 DEF KnowledgeTypeOK
  <2>2. Holding'
    <3>1. /\ \A o \in Clerks : clerk'[o] = IF o = c THEN NoRequest ELSE clerk[o]
          /\ \A d \in Documents : document'[d] \in {document[d], "pending"}
          /\ indexer' = indexer
      BY <1>5 DEF CommitInsert, CommitReset, Leave, KnowledgeTypeOK
    <3>. QED
      BY <3>1 DEF NoRequest, Holding
  <2>. QED
    BY <2>1, <2>2
<1>6. CASE Reingest(c)
  <2>1. KnowledgeTypeOK'
    <3>1. PICK d \in Documents : /\ clerk' = [clerk EXCEPT ![c] = [NoRequest EXCEPT
                                                !.stage = "reingest", !.on = d]]
                                 /\ UNCHANGED <<document, passages, jobs, dead, indexer,
                                                pushed, answered, excused, trouble>>
      BY <1>6 DEF Reingest, AtDesk
    <3>. QED
      BY <3>1 DEF NoRequest, KnowledgeTypeOK
  <2>2. Holding'
    BY <1>6 DEF Reingest, AtDesk, NoRequest, KnowledgeTypeOK, Holding
  <2>. QED
    BY <2>1, <2>2
<1>7. CASE Delete(c)
  <2>1. KnowledgeTypeOK'
    BY <1>7 DEF Delete, KnowledgeTypeOK
  <2>2. Holding'
    BY <1>1, <1>7 DEF Delete, KnowledgeTypeOK, Holding
  <2>. QED
    BY <2>1, <2>2
<1>8. CASE DeleteRow(c)
  <2>1. KnowledgeTypeOK'
    BY <1>8 DEF DeleteRow, Cascade, Leave, NoRequest, KnowledgeTypeOK, Holding
  <2>2. Holding'
    BY <1>8 DEF DeleteRow, Leave, NoRequest, KnowledgeTypeOK, Holding
  <2>. QED
    BY <2>1, <2>2
<1>9. trouble \in 0..MaxTrouble /\ (Trouble => trouble' \in 0..MaxTrouble)
  BY KnowledgeAssumption DEF Trouble, KnowledgeTypeOK
<1>10. CASE Abandon(c)
  BY <1>3, <1>9, <1>10 DEF Abandon
<1>11. CASE Insert(c)
  BY <1>3, <1>4, <1>9, <1>11 DEF Insert
<1>12. CASE Reset(c)
  <2>1. clerk[c].on \in Documents
    BY <1>12 DEF Reset, Holding
  <2>. QED
    BY <1>3, <1>4, <1>9, <1>12, <2>1 DEF Reset
<1>. QED
  BY <1>2, <1>5, <1>6, <1>7, <1>8, <1>10, <1>11, <1>12 DEF ClerkStep

LEMMA WorkersKeepTypes ==
    ASSUME KnowledgeTypeOK, Holding, NEW w \in Indexers, IndexerStep(w)
    PROVE  KnowledgeTypeOK' /\ Holding'
<1>1. ASSUME NEW stage \in {"idle", "read", "mark", "embed", "store"},
             NEW d \in Documents \cup {NoDocument}, AtWork(w, stage, d),
             IF stage = "idle" THEN d = NoDocument ELSE d \in Documents,
             UNCHANGED <<clerk, pushed>>,
             /\ document' \in [Documents -> {"absent", "pending", "ready", "deleted"}]
             /\ passages' \in [Documents -> 0..1] /\ jobs' \in Seq(Documents)
             /\ dead' \cup answered' \cup excused' \subseteq Documents
             /\ trouble' \in 0..MaxTrouble,
             \A e \in Documents : document[e] # "absent" => document'[e] # "absent"
      PROVE  KnowledgeTypeOK' /\ Holding'
  <2>1. KnowledgeTypeOK'
    BY <1>1 DEF AtWork, KnowledgeTypeOK
  <2>2. Holding'
    BY <1>1 DEF AtWork, NoIndexing, KnowledgeTypeOK, Holding
  <2>. QED
    BY <2>1, <2>2
<1>2. CASE Reserve(w)
  <2>1. Head(jobs) \in Documents /\ Tail(jobs) \in Seq(Documents)
    BY <1>2 DEF Reserve, KnowledgeTypeOK
  <2>. QED
    BY <1>1, <1>2, <2>1 DEF Reserve, KnowledgeTypeOK
<1>3. indexer[w].stage # "idle" => indexer[w].on \in Documents
  BY DEF Holding
<1>4. CASE ReadDocument(w)
  <2>1. indexer[w].on \in Documents
    BY <1>3, <1>4 DEF ReadDocument
  <2>. QED
    BY <1>1, <1>4, <2>1 DEF ReadDocument, Failed, KnowledgeTypeOK
<1>5. CASE MarkProcessing(w)
  <2>1. indexer[w].on \in Documents
    BY <1>3, <1>5 DEF MarkProcessing
  <2>. QED
    BY <1>1, <1>5, <2>1 DEF MarkProcessing, Failed, KnowledgeTypeOK
<1>6. CASE Embed(w) \/ EmbedFails(w)
  BY <1>1, <1>3, <1>6 DEF Embed, EmbedFails, Failed, KnowledgeTypeOK
<1>7. CASE Store(w)
  BY <1>1, <1>3, <1>7 DEF Store, KnowledgeTypeOK
<1>8. CASE BreakDeadlock(w)
  <2>1. indexer[w].on \in Documents
    BY <1>3, <1>8 DEF BreakDeadlock
  <2>2. CASE AtWork(w, "idle", NoDocument) /\ Failed(w) /\ UNCHANGED clerk
    BY <1>1, <1>8, <2>1, <2>2 DEF BreakDeadlock, Failed, KnowledgeTypeOK
  <2>3. ASSUME NEW c \in Clerks, Leave(c), UNCHANGED <<indexer, dead>>
        PROVE  KnowledgeTypeOK' /\ Holding'
    <3>1. KnowledgeTypeOK'
      BY <1>8, <2>3 DEF BreakDeadlock, Leave, NoRequest, KnowledgeTypeOK
    <3>2. Holding'
      BY <1>8, <2>3 DEF BreakDeadlock, Leave, NoRequest, KnowledgeTypeOK, Holding
    <3>. QED
      BY <3>1, <3>2
  <2>. QED
    BY <1>8, <2>2, <2>3 DEF BreakDeadlock
<1>9. CASE Crash(w)
  <2>1. indexer[w].on \in Documents /\ trouble' \in 0..MaxTrouble
    BY <1>3, <1>9, KnowledgeAssumption DEF Crash, Holding, Trouble, KnowledgeTypeOK
  <2>. QED
    BY <1>1, <1>9, <2>1 DEF Crash, KnowledgeTypeOK
<1>. QED
  BY <1>2, <1>4, <1>5, <1>6, <1>7, <1>8, <1>9 DEF IndexerStep

-----------------------------------------------------------------------------
(* Locks *)

\* What Locked and Inserting say of a clerk and a worker, with the rest as it was.
LEMMA ClerksKeepLocks ==
    ASSUME KnowledgeTypeOK, Holding, Locked, Inserting,
           NEW c \in Clerks, ClerkStep(c)
    PROVE  Locked' /\ Inserting'
<1>2. CASE Submit(c)
  BY <1>2 DEF Submit, AtDesk, NoRequest, KnowledgeTypeOK, Holding, Locked, Inserting, Exists
<1>3. CASE Leave(c) /\ UNCHANGED <<document, indexer>>
  BY <1>3 DEF Leave, NoRequest, KnowledgeTypeOK, Holding, Locked, Inserting, Exists
<1>4. CASE Insert(c)
  <2>1. ASSUME NEW d \in Documents, Fresh(d), AtDesk(c, "inserted", d),
               \A e \in Documents : ~Exists(e), UNCHANGED <<document, indexer>>
        PROVE  Locked' /\ Inserting'
    <3>1. Locked'
      BY <2>1 DEF AtDesk, NoRequest, KnowledgeTypeOK, Locked, Exists
    <3>2. /\ clerk'[c].on = d /\ document[d] = "absent"
          /\ \A o \in Clerks : clerk[o].stage # "inserted"
          /\ \A o \in Clerks : o # c => clerk'[o] = clerk[o]
      BY <1>4, <2>1 DEF Insert, AtDesk, NoRequest, KnowledgeTypeOK, Fresh
    <3>3. Inserting'
      BY <2>1, <3>2 DEF Inserting, Exists
    <3>. QED
      BY <3>1, <3>3
  <2>. QED
    BY <1>3, <1>4, <2>1 DEF Insert
<1>5. CASE CommitInsert(c)
  <2>1. Locked'
    BY <1>5 DEF CommitInsert, Leave, NoRequest, KnowledgeTypeOK, Holding, Locked, Inserting, Exists
  <2>2. Inserting'
    BY <1>5 DEF CommitInsert, Leave, NoRequest, KnowledgeTypeOK, Holding, Inserting, Exists
  <2>. QED
    BY <2>1, <2>2
<1>6. CASE Reingest(c)
  BY <1>6 DEF Reingest, AtDesk, NoRequest, KnowledgeTypeOK, Holding, Locked, Inserting, Exists
<1>7. CASE Reset(c)
  <2>1. CASE Exists(clerk[c].on) /\ AtDesk(c, "reset", clerk[c].on)
    <3>1. Locked'
      BY <1>7, <2>1 DEF Reset, RowFree, AtDesk, NoRequest, KnowledgeTypeOK, Locked, Exists
    <3>2. Inserting'
      BY <1>7, <2>1 DEF Reset, AtDesk, NoRequest, KnowledgeTypeOK, Inserting, Exists
    <3>. QED
      BY <3>1, <3>2
  <2>. QED
    BY <1>3, <1>7, <2>1 DEF Reset
<1>8. CASE CommitReset(c)
  <2>1. Locked'
    BY <1>8 DEF CommitReset, Leave, NoRequest, KnowledgeTypeOK, Holding, Locked, Exists
  <2>2. Inserting'
    BY <1>8 DEF CommitReset, Leave, NoRequest, KnowledgeTypeOK, Holding, Locked, Inserting, Exists
  <2>. QED
    BY <2>1, <2>2
<1>9. CASE Delete(c)
  <2>1. Locked'
    BY <1>9 DEF Delete, KnowledgeTypeOK, Locked, Exists
  <2>2. Inserting'
    BY <1>9 DEF Delete, KnowledgeTypeOK, Inserting, Exists
  <2>. QED
    BY <2>1, <2>2
<1>10. CASE DeleteRow(c)
  <2>1. Locked'
    BY <1>10 DEF DeleteRow, RowFree, Leave, NoRequest, KnowledgeTypeOK, Holding, Locked, Exists
  <2>2. Inserting'
    BY <1>10 DEF DeleteRow, Leave, NoRequest, KnowledgeTypeOK, Holding, Inserting, Exists
  <2>. QED
    BY <2>1, <2>2
<1>11. CASE Abandon(c)
  BY <1>3, <1>11 DEF Abandon
<1>. QED
  BY <1>2, <1>4, <1>5, <1>6, <1>7, <1>8, <1>9, <1>10, <1>11 DEF ClerkStep

LEMMA WorkersKeepLocks ==
    ASSUME KnowledgeTypeOK, Holding, Locked, Inserting,
           NEW w \in Indexers, IndexerStep(w)
    PROVE  Locked' /\ Inserting'
<1>1. ASSUME NEW stage, NEW d, AtWork(w, stage, d), UNCHANGED <<document, clerk>>,
             stage \in {"embed", "store"} =>
                Exists(d) /\ \A c \in Clerks : ~(clerk[c].stage = "reset" /\ clerk[c].on = d)
      PROVE  Locked' /\ Inserting'
  <2>1. Locked'
    BY <1>1 DEF AtWork, KnowledgeTypeOK, Locked, Exists
  <2>2. Inserting'
    BY <1>1 DEF Inserting, Exists
  <2>. QED
    BY <2>1, <2>2
<1>2. CASE Reserve(w)
  BY <1>1, <1>2 DEF Reserve
<1>3. CASE ReadDocument(w)
  BY <1>1, <1>3 DEF ReadDocument
<1>4. CASE MarkProcessing(w)
  BY <1>1, <1>4 DEF MarkProcessing, RowFree
<1>5. CASE Embed(w) \/ EmbedFails(w)
  BY <1>1, <1>5 DEF Embed, EmbedFails, Locked
<1>6. CASE Store(w)
  <2>1. Locked'
    BY <1>6 DEF Store, AtWork, KnowledgeTypeOK, Holding, Locked, Exists
  <2>2. Inserting'
    BY <1>6 DEF Store, AtWork, KnowledgeTypeOK, Holding, Locked, Inserting, Exists
  <2>. QED
    BY <2>1, <2>2
<1>7. CASE BreakDeadlock(w)
  <2>1. ASSUME NEW c \in Clerks, Leave(c), UNCHANGED <<document, indexer>>
        PROVE  Locked' /\ Inserting'
    BY <2>1 DEF Leave, NoRequest, KnowledgeTypeOK, Holding, Locked, Inserting, Exists
  <2>. QED
    BY <1>1, <1>7, <2>1 DEF BreakDeadlock
<1>8. CASE Crash(w)
  BY <1>1, <1>8 DEF Crash
<1>. QED
  BY <1>2, <1>3, <1>4, <1>5, <1>6, <1>7, <1>8 DEF IndexerStep

-----------------------------------------------------------------------------
(* Jobs *)

\* A job that has been pushed stays accounted for: it goes from the queue to a
\* worker, and from there to the failed list unless the row was indexed or not yet
\* to be.
LEMMA Awaited ==
    ASSUME Waiting, dead \subseteq dead', excused \subseteq excused',
           \A d \in Documents : HasJob(d) /\ ~Accounted(d)' =>
                document'[d] # "pending"
                /\ \A c \in Clerks : ~(clerk'[c].stage \in {"inserted", "reset"}
                                       /\ clerk'[c].on = d),
           \A d \in Documents : document'[d] = "pending" =>
                \/ document[d] = "pending" \/ Accounted(d)'
                \/ \E c \in Clerks : clerk[c].stage \in {"inserted", "reset"} /\ clerk[c].on = d,
           \A c \in Clerks, d \in Documents :
                clerk'[c].stage \in {"inserted", "reset"} /\ clerk'[c].on = d =>
                    clerk'[c] = clerk[c] \/ Accounted(d)'
    PROVE  Waiting'
<1>1. ASSUME NEW d \in Documents, document'[d] = "pending" PROVE Accounted(d)'
  BY <1>1 DEF Waiting, Accounted
<1>2. ASSUME NEW c \in Clerks, NEW d \in Documents,
             clerk'[c].stage \in {"inserted", "reset"}, clerk'[c].on = d
      PROVE  Accounted(d)'
  <2>1. CASE clerk'[c] = clerk[c]
    <3>2. Accounted(d)
      BY <1>2, <2>1 DEF Waiting
    <3>. QED
      BY <1>2, <3>2 DEF Accounted
  <2>. QED
    BY <1>2, <2>1
<1>. QED
  BY <1>1, <1>2 DEF Waiting

LEMMA ClerksKeepWaiting ==
    ASSUME KnowledgeTypeOK, Holding, Waiting, NEW c \in Clerks, ClerkStep(c)
    PROVE  Waiting'
<1>1. dead \subseteq dead' /\ excused \subseteq excused' /\ UNCHANGED indexer
  BY DEF ClerkStep, Submit, Insert, CommitInsert, Reingest, Reset, CommitReset, Delete,
         DeleteRow, Abandon, Enqueue
<1>2. \A i \in 1..Len(jobs) : i \in 1..Len(jobs') /\ jobs'[i] = jobs[i]
  <2>1. ASSUME NEW d \in Documents, Enqueue(d) 
        PROVE  \A i \in 1..Len(jobs) : i \in 1..Len(jobs') /\ jobs'[i] = jobs[i]
    BY <2>1, EnqueueAdds
  <2>2. clerk[c].stage = "reingest" => clerk[c].on \in Documents
    BY DEF Holding
  <2>. QED
    BY <2>1, <2>2 DEF ClerkStep, Submit, Insert, CommitInsert, Reingest, Reset, CommitReset,
         Delete, DeleteRow, Abandon
<1>3. \A d \in Documents : HasJob(d) => HasJob(d)'
  BY <1>1, <1>2 DEF HasJob
<1>4. ASSUME NEW d \in Documents, document'[d] = "pending"
      PROVE  \/ document[d] = "pending"
             \/ clerk[c].stage \in {"inserted", "reset"} /\ clerk[c].on = d
  BY <1>4 DEF ClerkStep, Submit, Insert, CommitInsert, Reingest, Reset, CommitReset, Delete,
         DeleteRow, Abandon, KnowledgeTypeOK
<1>5. ASSUME NEW b \in Clerks, NEW e \in Documents,
             clerk'[b].stage \in {"inserted", "reset"}, clerk'[b].on = e, clerk'[b] # clerk[b]
      PROVE  Accounted(e)'
  <2>1. ASSUME NEW stage \in {"inserted", "reset"}, NEW d \in Documents,
               AtDesk(c, stage, d), Enqueue(d)
        PROVE  Accounted(e)'
    <3>1. d \in excused' \/ \E i \in 1..Len(jobs') : jobs'[i] = d
      BY <2>1, EnqueueAdds
    <3>3. d = e
      BY <1>5, <2>1 DEF AtDesk, NoRequest, KnowledgeTypeOK
    <3>. QED
      BY <3>1, <3>3 DEF Accounted, HasJob
  <2>2. ~Leave(c)
    BY <1>5 DEF Leave, NoRequest, KnowledgeTypeOK
  <2>3. ASSUME NEW d \in Documents \cup {NoDocument}, NEW stage \in {"new", "reingest"}
        PROVE ~AtDesk(c, stage, d)
    <3>1. SUFFICES ASSUME AtDesk(c, stage, d) PROVE FALSE
      OBVIOUS
    <3>2. clerk' = [clerk EXCEPT ![c] = [NoRequest EXCEPT !.stage = stage, !.on = d]]
      BY <3>1 DEF AtDesk
    <3>3. b = c /\ clerk'[b] = [NoRequest EXCEPT !.stage = stage, !.on = d]
      BY <1>5, <3>2 DEF KnowledgeTypeOK
    <3>. QED
      BY <1>5, <2>3, <3>3 DEF NoRequest
  <2>4. ~Delete(c)
    BY <1>5 DEF Delete, KnowledgeTypeOK
  <2>5. Insert(c) \/ Reset(c)
    BY <2>2, <2>3, <2>4 DEF ClerkStep, Submit, CommitInsert, Reingest, CommitReset,
         DeleteRow, Abandon
  <2>6. clerk[c].stage = "reingest" => clerk[c].on \in Documents
    BY DEF Holding
  <2>. QED
    BY <2>1, <2>2, <2>5, <2>6 DEF Insert, Reset
<1>6. ASSUME NEW d \in Documents, HasJob(d) PROVE Accounted(d)'
  BY <1>3, <1>6 DEF Accounted
<1>. QED
  BY <1>1, <1>4, <1>5, <1>6, Awaited

LEMMA WorkersKeepWaiting ==
    ASSUME KnowledgeTypeOK, Holding, Locked, Inserting, Waiting,
           NEW w \in Indexers, IndexerStep(w)
    PROVE  Waiting'
<1>1. dead \subseteq dead' /\ excused \subseteq excused'
  BY DEF IndexerStep, Reserve, ReadDocument, MarkProcessing, Embed, EmbedFails, Store,
         BreakDeadlock, Crash, Failed
<1>2. \A c \in Clerks : clerk'[c].stage \in {"inserted", "reset"} => clerk'[c] = clerk[c]
  BY DEF IndexerStep, Reserve, ReadDocument, MarkProcessing, Embed, EmbedFails, Store,
         BreakDeadlock, Crash, Leave, NoRequest, KnowledgeTypeOK, Holding
<1>3. \A d \in Documents : document'[d] = "pending" => document[d] = "pending"
  BY DEF IndexerStep, Reserve, ReadDocument, MarkProcessing, Embed, EmbedFails, Store,
         BreakDeadlock, Crash, KnowledgeTypeOK
<1>4. ASSUME NEW d \in Documents, HasJob(d), ~Accounted(d)'
      PROVE  /\ document'[d] # "pending"
             /\ \A c \in Clerks : clerk[c].stage \in {"inserted", "reset"} => clerk[c].on # d
  <2>1. ~HasJob(d)' /\ d \notin dead' /\ d \notin excused'
    BY <1>4 DEF Accounted
  <2>2. ~Reserve(w)
    <3>1. SUFFICES ASSUME Reserve(w) PROVE FALSE
      OBVIOUS
    <3>2. indexer'[w].on = Head(jobs) /\ \A v \in Indexers : v # w => indexer'[v] = indexer[v]
      BY <3>1 DEF Reserve, AtWork, KnowledgeTypeOK
    <3>3. indexer[w].on = NoDocument
      BY <3>1 DEF Reserve, NoIndexing
    <3>4. PICK i \in 1..Len(jobs) : jobs[i] = d
      BY <1>4, <2>1, <3>2, <3>3, KnowledgeAssumption DEF HasJob
    <3>5. i # 1
      BY <2>1, <3>2, <3>4 DEF HasJob, KnowledgeTypeOK
    <3>6. i - 1 \in 1..Len(jobs') /\ jobs'[i - 1] = d
      BY <3>1, <3>4, <3>5 DEF Reserve, KnowledgeTypeOK
    <3>. QED
      BY <2>1, <3>6 DEF HasJob
  <2>3. UNCHANGED jobs
    BY <2>2 DEF IndexerStep, ReadDocument, MarkProcessing, Embed, EmbedFails, Store,
         BreakDeadlock, Crash
  <2>4. PICK v \in Indexers : indexer[v].on = d /\ indexer'[v].on # d
    BY <1>4, <2>1, <2>3 DEF HasJob
  <2>5. v = w
    BY <2>4 DEF IndexerStep, Reserve, ReadDocument, MarkProcessing, Embed, EmbedFails, Store,
         BreakDeadlock, Crash, AtWork, KnowledgeTypeOK
  <2>6. ReadDocument(w) \/ Store(w)
    BY <2>1, <2>2, <2>4, <2>5 DEF IndexerStep, MarkProcessing, Embed, EmbedFails,
         BreakDeadlock, Crash, Failed, AtWork, KnowledgeTypeOK
  <2>7. CASE ReadDocument(w)
    <3>1. document[d] # "pending"
      BY <2>4, <2>5, <2>7 DEF ReadDocument, AtWork, KnowledgeTypeOK
    <3>. QED
      BY <1>3, <2>1, <2>4, <2>5, <2>7, <3>1 DEF ReadDocument
  <2>8. CASE Store(w)
    BY <2>4, <2>5, <2>8 DEF Store, KnowledgeTypeOK, Locked, Inserting, Exists
  <2>. QED
    BY <2>6, <2>7, <2>8
<1>. QED
  BY <1>1, <1>2, <1>3, <1>4, Awaited

-----------------------------------------------------------------------------
(* Passages *)

LEMMA WorkersKeepAnswers ==
    ASSUME KnowledgeTypeOK, Holding, AnswersAreWhole, NEW w \in Indexers, IndexerStep(w)
    PROVE  AnswersAreWhole'
<1>1. CASE Store(w)
  BY <1>1 DEF Store, KnowledgeTypeOK, AnswersAreWhole
<1>2. CASE UNCHANGED <<document, passages>>
  BY <1>2 DEF AnswersAreWhole
<1>. QED
  BY <1>1, <1>2 DEF IndexerStep, Reserve, ReadDocument, MarkProcessing, Embed, EmbedFails,
       BreakDeadlock, Crash

LEMMA ClerksKeepAnswers ==
    ASSUME KnowledgeTypeOK, Holding, AnswersAreWhole, NEW c \in Clerks, ClerkStep(c)
    PROVE  AnswersAreWhole'
<1>1. CASE CommitInsert(c) \/ CommitReset(c)
  BY <1>1 DEF CommitInsert, CommitReset, KnowledgeTypeOK, AnswersAreWhole
<1>2. CASE DeleteRow(c)
  BY <1>2 DEF DeleteRow, Cascade, KnowledgeTypeOK, AnswersAreWhole
<1>3. CASE UNCHANGED <<document, passages>>
  BY <1>3 DEF AnswersAreWhole
<1>. QED
  BY <1>1, <1>2, <1>3 DEF ClerkStep, Submit, Insert, Reingest, Reset, Delete, Abandon

-----------------------------------------------------------------------------

LEMMA KnowledgeStep ==
    KnowledgeInv /\ [KnowledgeNext]_knowledgeVars => KnowledgeInv'
<1>. SUFFICES ASSUME KnowledgeInv, [KnowledgeNext]_knowledgeVars PROVE KnowledgeInv'
  OBVIOUS
<1>. USE DEF KnowledgeInv
<1>1. CASE UNCHANGED knowledgeVars
  BY <1>1 DEF knowledgeVars, KnowledgeTypeOK, Holding, Locked, Inserting, Waiting, Accounted,
       HasJob, Exists, AnswersAreWhole
<1>2. ASSUME NEW d \in Documents, Enqueue(d),
             UNCHANGED <<document, passages, dead, indexer, clerk, answered>>
      PROVE  KnowledgeInv'
  <2>1. /\ jobs' \in Seq(Documents) /\ excused' \subseteq Documents
        /\ pushed' \in 0..MaxJobs /\ trouble' \in 0..MaxTrouble
        /\ \A i \in 1..Len(jobs) : i \in 1..Len(jobs') /\ jobs'[i] = jobs[i]
        /\ excused \subseteq excused'
    BY <1>2, EnqueueAdds
  <2>2. KnowledgeTypeOK'
    BY <1>2, <2>1 DEF KnowledgeTypeOK
  <2>3. \A e \in Documents : Accounted(e) => Accounted(e)'
    BY <1>2, <2>1 DEF Accounted, HasJob
  <2>4. Waiting'
    BY <1>2, <2>3 DEF Waiting
  <2>. QED
    BY <1>2, <2>2, <2>4 DEF Holding, Locked, Inserting, Exists, AnswersAreWhole
<1>3. CASE SubmitAgain \/ ReingestPending
  BY <1>2, <1>3 DEF SubmitAgain, ReingestPending
<1>4. ASSUME NEW c \in Clerks, ClerkStep(c) PROVE KnowledgeInv'
  BY <1>4, ClerksKeepTypes, ClerksKeepLocks, ClerksKeepWaiting, ClerksKeepAnswers
<1>5. ASSUME NEW w \in Indexers, IndexerStep(w) PROVE KnowledgeInv'
  BY <1>5, WorkersKeepTypes, WorkersKeepLocks, WorkersKeepWaiting, WorkersKeepAnswers
<1>. QED
  BY <1>1, <1>3, <1>4, <1>5 DEF KnowledgeNext

LEMMA KnowledgeInvariant == KnowledgeSpec => []KnowledgeInv
<1>1. KnowledgeInit => KnowledgeInv
  BY KnowledgeAssumption DEF KnowledgeInit, KnowledgeInv, KnowledgeTypeOK, Holding, Locked,
     Inserting, Waiting, AnswersAreWhole, NoIndexing, NoRequest, Exists
<1>. QED
  BY <1>1, KnowledgeStep, PTL DEF KnowledgeSpec

\* A document that is ready is found whole, and one that waits has its job, whatever
\* workers die and requests cross (KnowledgeService, IngestionService).
THEOREM DocumentsServed == KnowledgeSpec => []DocumentsAreServed
<1>1. KnowledgeInv => DocumentsAreServed
  BY DEF KnowledgeInv, Waiting, Accounted, DocumentsAreServed, PendingHasJob
<1>. QED
  BY <1>1, KnowledgeInvariant, PTL

LEMMA DeletedStays ==
    KnowledgeInv /\ [KnowledgeNext]_knowledgeVars
        => [\A d \in Documents : document[d] = "deleted" => document'[d] = "deleted"]_knowledgeVars
<1> SUFFICES ASSUME KnowledgeInv, KnowledgeNext, NEW d \in Documents, document[d] = "deleted"
             PROVE  document'[d] = "deleted"
  OBVIOUS
<1>1. document \in [Documents -> {"absent", "pending", "ready", "deleted"}]
  BY DEF KnowledgeInv, KnowledgeTypeOK
<1>2. CASE document' = document
  BY <1>2
<1>3. ASSUME NEW c \in Clerks, CommitInsert(c) PROVE document'[d] = "deleted"
  <2>1. clerk[c].on # d
    BY <1>3 DEF CommitInsert, KnowledgeInv, Inserting
  <2>. QED
    BY <1>1, <1>3, <2>1 DEF CommitInsert
<1>4. ASSUME NEW c \in Clerks, CommitReset(c) PROVE document'[d] = "deleted"
  <2>1. clerk[c].on # d
    BY <1>4 DEF CommitReset, KnowledgeInv, Locked, Exists
  <2>. QED
    BY <1>1, <1>4, <2>1 DEF CommitReset
<1>5. ASSUME NEW c \in Clerks, DeleteRow(c) PROVE document'[d] = "deleted"
  BY <1>1, <1>5 DEF DeleteRow
<1>6. ASSUME NEW w \in Indexers, Store(w) PROVE document'[d] = "deleted"
  <2>1. indexer[w].on # d
    BY <1>6 DEF Store, KnowledgeInv, Locked, Exists
  <2>. QED
    BY <1>1, <1>6, <2>1 DEF Store
<1>7. ASSUME NEW c \in Clerks, ClerkStep(c) PROVE document'[d] = "deleted"
  <2>1. \/ document' = document \/ CommitInsert(c) \/ CommitReset(c) \/ DeleteRow(c)
    BY <1>7 DEF ClerkStep, Submit, Insert, Reingest, Reset, Delete, Abandon
  <2>. QED
    BY <1>2, <1>3, <1>4, <1>5, <2>1
<1>8. ASSUME NEW w \in Indexers, IndexerStep(w) PROVE document'[d] = "deleted"
  <2>1. document' = document \/ Store(w)
    BY <1>8 DEF IndexerStep, Reserve, ReadDocument, MarkProcessing, Embed, EmbedFails,
                BreakDeadlock, Crash
  <2>. QED
    BY <1>2, <1>6, <2>1
<1>. QED
  BY <1>2, <1>7, <1>8 DEF KnowledgeNext, SubmitAgain, ReingestPending

\* A deleted document stays deleted: a worker that was indexing it and a request that
\* was resetting it hold the row's lock, which the deletion waits for, or find it gone
\* (KnowledgeService.delete_document, reingest, ingest).
THEOREM DeletionsHold == KnowledgeSpec => DeletedForGood
<1>. QED
  BY KnowledgeInvariant, DeletedStays, PTL DEF KnowledgeSpec, DeletedForGood

-----------------------------------------------------------------------------
(* Leads                                                                   *)

\* What an operation is to commit, beside what it read: nothing loses its mark, an
\* agent marks nothing, and of a marked field it leaves the value.
Sound(a, e) ==
    IF e.kind = "none" THEN e = Nothing
    ELSE /\ e.on \in Leads
         /\ e.read.verified \subseteq e.new.verified
         /\ a \notin Staff => e.new.verified = e.read.verified
         /\ \A f \in e.read.verified : e.new.by[f] \in {e.read.by[f], "person"}
         /\ e.new.status # "absent"
         /\ e.kind \in {"create", "move"} <=> e.new.status # e.read.status
         /\ e.kind # "create" => lead[e.on].status # "absent"
         /\ (e.read.closed <=> e.read.status \in Terminal)
                => (e.new.closed <=> e.new.status \in Terminal)

\* Until another operation begins on its row, one has in hand what is committed.
Alone ==
    \A l \in Leads \ contested, a \in Staff \cup Turns :
        editing[a].on = l =>
            /\ editing[a].read = lead[l]
            /\ \A o \in Staff \cup Turns : editing[o].on = l => o = a

LeadsInv ==
    /\ LeadsTypeOK
    /\ \A a \in Staff \cup Turns : Sound(a, editing[a])
    /\ Alone
    /\ \A l \in Leads : lead[l].status = "absent" => lead[l] = NoRow
    /\ TimelineExplains
    /\ OrderlyRows

\* What is written of a row, column by column.
LEMMA StoredRow ==
    ASSUME NEW read \in Lead, NEW new \in Lead, NEW now \in Lead
    PROVE  /\ Stored(read, new, now) \in Lead
           /\ Stored(read, new, now).status =
                IF new.status = read.status THEN now.status ELSE new.status
           /\ Stored(read, new, now).closed =
                IF new.closed = read.closed THEN now.closed ELSE new.closed
           /\ Stored(read, new, now).verified =
                IF new.verified = read.verified THEN now.verified ELSE new.verified
           /\ \A f \in Fields : Stored(read, new, now).by[f] =
                IF new.by[f] = read.by[f] THEN now.by[f] ELSE new.by[f]
<1>1. DOMAIN now = {"status", "closed", "qualified", "assigned", "score", "by", "verified"}
  BY DEF Lead
<1>. QED
  BY <1>1 DEF Stored, Lead

LEMMA Beginnings ==
    ASSUME LeadsInv, NEW a \in Staff \cup Turns, NEW l \in Leads,
           NEW kind \in {"create", "edit", "move", "other"}, NEW new \in Lead,
           Begin(a, kind, l, lead[l], new),
           new.status # "absent", lead[l].verified \subseteq new.verified,
           a \notin Staff => new.verified = lead[l].verified,
           \A f \in lead[l].verified : new.by[f] \in {lead[l].by[f], "person"},
           kind \in {"create", "move"} <=> new.status # lead[l].status,
           kind # "create" => lead[l].status # "absent",
           (lead[l].closed <=> lead[l].status \in Terminal)
                => (new.closed <=> new.status \in Terminal)
    PROVE  LeadsInv'
<1>. DEFINE r == [kind |-> kind, on |-> l, read |-> lead[l], new |-> new]
<1>1. /\ editing' = [editing EXCEPT ![a] = r]
      /\ operations < MaxOperations /\ operations' = operations + 1
      /\ contested' = IF \E o \in Staff \cup Turns : editing[o].on = l
                      THEN contested \cup {l} ELSE contested
      /\ UNCHANGED <<lead, colleague, logged, vouched>>
  BY DEF Begin
<1>2. /\ r \in [kind : {"none", "create", "edit", "move", "other"},
                on : Leads \cup {NoLead}, read : Lead, new : Lead]
      /\ r.kind = kind /\ r.on = l /\ r.read = lead[l] /\ r.new = new
  BY DEF LeadsInv, LeadsTypeOK
<1>. HIDE DEF r
<1>3. LeadsTypeOK'
  BY <1>1, <1>2, LeadsAssumption DEF LeadsInv, LeadsTypeOK
<1>4. Sound(a, r)
  BY <1>2, LeadsAssumption DEF Sound
<1>5. ASSUME NEW b \in Staff \cup Turns PROVE Sound(b, editing[b])'
  <2>1. Sound(b, editing'[b])
    BY <1>1, <1>4 DEF LeadsInv, LeadsTypeOK
  <2>. QED
    BY <1>1, <2>1 DEF Sound
<1>6. Alone'
  BY <1>1, <1>2 DEF LeadsInv, LeadsTypeOK, Alone
<1>7. TimelineExplains' /\ OrderlyRows'
  BY <1>1 DEF LeadsInv, TimelineExplains, OrderlyRows
<1>. QED
  BY <1>1, <1>3, <1>5, <1>6, <1>7 DEF LeadsInv

LEMMA WrittenRow ==
    ASSUME NEW row \in Lead, NEW fields \in SUBSET Fields, NEW writer \in Writers
    PROVE  /\ Written(row, fields, writer) \in Lead
           /\ Written(row, fields, writer).status = row.status
           /\ Written(row, fields, writer).closed = row.closed
           /\ Written(row, fields, writer).verified = row.verified
           /\ \A f \in Fields : Written(row, fields, writer).by[f] =
                IF f \in fields THEN writer ELSE row.by[f]
<1>1. PICK by : by = [f \in Fields |-> IF f \in fields THEN writer ELSE row.by[f]]
  OBVIOUS
<1>2. by \in [Fields -> Writers]
  BY <1>1 DEF Lead
<1>3. Written(row, fields, writer) = [row EXCEPT !.by = by]
  BY <1>1 DEF Written
<1>. QED
  BY <1>1, <1>2, <1>3 DEF Lead

LEMMA PeopleBegin ==
    ASSUME LeadsInv, NEW s \in Staff,
           CreateLead(s) \/ UpdateLead(s) \/ ChangeStatus(s) \/ Assign(s) \/ SetScore(s)
    PROVE  LeadsInv'
<1>1. NoRow \in Lead
  BY LeadsAssumption DEF NoRow, Lead, Writers
<1>2. \A l \in Leads : lead[l] \in Lead
  BY DEF LeadsInv, LeadsTypeOK
<1>3. CASE CreateLead(s)
  <2>1. PICK l \in Leads, fields \in SUBSET Fields :
            /\ lead[l].status = "absent"
            /\ Begin(s, "create", l, NoRow, [Written(NoRow, fields, "person") EXCEPT
                                               !.status = "new", !.verified = fields])
    BY <1>3 DEF CreateLead
  <2>2. PICK new : new = [Written(NoRow, fields, "person") EXCEPT
                            !.status = "new", !.verified = fields]
    OBVIOUS
  <2>3. new \in Lead /\ new.status = "new" /\ ~new.closed
    BY <1>1, <2>2 DEF Written, NoRow, Lead, Open, Writers
  <2>4. lead[l] = NoRow /\ NoRow.status = "absent" /\ NoRow.verified = {} /\ ~NoRow.closed
    BY <2>1 DEF LeadsInv, NoRow
  <2>5. Begin(s, "create", l, lead[l], new)
    BY <2>1, <2>2, <2>4
  <2>. QED
    BY <2>3, <2>4, <2>5, Beginnings DEF Terminal
<1>4. CASE UpdateLead(s)
  <2>a. PICK l \in Leads, fields \in SUBSET Fields, confirms \in BOOLEAN :
            Change(s, "edit", l, LET row == [lead[l] EXCEPT !.verified = @ \cup fields] IN
                                 IF confirms THEN row ELSE Written(row, fields, "person"))
    BY <1>4 DEF UpdateLead
  <2>b. PICK row : row = [lead[l] EXCEPT !.verified = @ \cup fields]
    OBVIOUS
  <2>c. PICK new : new = IF confirms THEN row ELSE Written(row, fields, "person")
    OBVIOUS
  <2>1. /\ row = [lead[l] EXCEPT !.verified = @ \cup fields]
        /\ new = row \/ new = Written(row, fields, "person")
        /\ Change(s, "edit", l, new)
    BY <2>a, <2>b, <2>c
  <2>2. row \in Lead /\ row.status = lead[l].status /\ row.by = lead[l].by
        /\ row.closed = lead[l].closed /\ row.verified = lead[l].verified \cup fields
    BY <1>2, <2>1 DEF Lead
  <2>3. /\ new \in Lead /\ new.status = row.status /\ new.closed = row.closed
        /\ new.verified = row.verified
        /\ \A f \in Fields : new.by[f] \in {row.by[f], "person"}
    <3>1. "person" \in Writers
      BY DEF Writers
    <3>2. new = row \/ new = Written(row, fields, "person")
      BY <2>1
    <3>3. CASE new = row
      BY <2>2, <3>3
    <3>4. CASE new = Written(row, fields, "person")
      <4>1. \A f \in Fields : new.by[f] = IF f \in fields THEN "person" ELSE row.by[f]
        BY <2>2, <3>1, <3>4, WrittenRow
      <4>. QED
        BY <2>2, <3>1, <3>4, <4>1, WrittenRow
    <3>. QED
      BY <3>2, <3>3, <3>4
  <2>4. lead[l].verified \subseteq Fields
    BY <1>2 DEF Lead
  <2>. QED
    BY <2>1, <2>2, <2>3, <2>4, Beginnings DEF Change
<1>5. CASE ChangeStatus(s)
  <2>a. PICK l \in Leads : \E to \in AllowedTransitions(lead[l].status) :
            Change(s, "move", l, [lead[l] EXCEPT
                        !.status = to,
                        !.qualified = @ \/ to = "qualified",
                        !.closed = IF to \in Terminal THEN TRUE
                                   ELSE IF lead[l].status \in Terminal THEN FALSE ELSE @])
    BY <1>5 DEF ChangeStatus
  <2>b. PICK to \in AllowedTransitions(lead[l].status) :
            Change(s, "move", l, [lead[l] EXCEPT
                        !.status = to,
                        !.qualified = @ \/ to = "qualified",
                        !.closed = IF to \in Terminal THEN TRUE
                                   ELSE IF lead[l].status \in Terminal THEN FALSE ELSE @])
    BY <2>a
  <2>c. PICK new : new = [lead[l] EXCEPT
                        !.status = to,
                        !.qualified = @ \/ to = "qualified",
                        !.closed = IF to \in Terminal THEN TRUE
                                   ELSE IF lead[l].status \in Terminal THEN FALSE ELSE @]
    OBVIOUS
  <2>1. /\ new = [lead[l] EXCEPT
                        !.status = to,
                        !.qualified = @ \/ to = "qualified",
                        !.closed = IF to \in Terminal THEN TRUE
                                   ELSE IF lead[l].status \in Terminal THEN FALSE ELSE @]
        /\ Change(s, "move", l, new)
    BY <2>b, <2>c
  <2>2. to \in Open \cup Terminal /\ to # lead[l].status
    BY <2>b DEF AllowedTransitions, Open, Terminal
  <2>3. /\ new \in Lead /\ new.status = to /\ new.by = lead[l].by
        /\ new.verified = lead[l].verified
        /\ new.closed = IF to \in Terminal THEN TRUE
                        ELSE IF lead[l].status \in Terminal THEN FALSE ELSE lead[l].closed
    BY <1>2, <2>1, <2>2 DEF Lead
  <2>4. to # "absent"
    BY <2>2 DEF Open, Terminal
  <2>5. \A f \in lead[l].verified : new.by[f] \in {lead[l].by[f], "person"}
    BY <2>3
  <2>6. (lead[l].closed <=> lead[l].status \in Terminal)
            => (new.closed <=> new.status \in Terminal)
    BY <2>3
  <2>7. lead[l].status # "absent" /\ Begin(s, "move", l, lead[l], new)
    BY <2>1 DEF Change
  <2>8. /\ "move" \in {"create", "edit", "move", "other"} /\ new \in Lead
        /\ new.status # "absent" /\ lead[l].verified \subseteq new.verified
        /\ s \notin Staff => new.verified = lead[l].verified
        /\ "move" \in {"create", "move"} <=> new.status # lead[l].status
    BY <2>2, <2>3, <2>4
  <2>9. s \in Staff \cup Turns
    OBVIOUS
  <2>. QED
    BY <2>5, <2>6, <2>7, <2>8, <2>9, Beginnings, SMTT(30)
<1>6. CASE Assign(s)
  <2>a. PICK l \in Leads : Change(s, "other", l, [lead[l] EXCEPT !.assigned = ~@])
    BY <1>6 DEF Assign
  <2>b. PICK new : new = [lead[l] EXCEPT !.assigned = ~@]
    OBVIOUS
  <2>1. new = [lead[l] EXCEPT !.assigned = ~@] /\ Change(s, "other", l, new)
    BY <2>a, <2>b
  <2>2. /\ new \in Lead /\ new.status = lead[l].status /\ new.by = lead[l].by
        /\ new.verified = lead[l].verified /\ new.closed = lead[l].closed
    BY <1>2, <2>1 DEF Lead
  <2>5. \A f \in lead[l].verified : new.by[f] \in {lead[l].by[f], "person"}
    BY <2>2
  <2>6. (lead[l].closed <=> lead[l].status \in Terminal)
            => (new.closed <=> new.status \in Terminal)
    BY <2>2
  <2>7. lead[l].status # "absent" /\ Begin(s, "other", l, lead[l], new)
    BY <2>1 DEF Change
  <2>. QED
    BY <2>2, <2>5, <2>6, <2>7, Beginnings
<1>7. CASE SetScore(s)
  <2>a. PICK l \in Leads, score \in -1..(MaxScore + 1) :
            Change(s, "other", l, [lead[l] EXCEPT !.score = ClampScore(score)])
    BY <1>7 DEF SetScore
  <2>b. PICK new : new = [lead[l] EXCEPT !.score = ClampScore(score)]
    OBVIOUS
  <2>1. new = [lead[l] EXCEPT !.score = ClampScore(score)] /\ Change(s, "other", l, new)
    BY <2>a, <2>b
  <2>2. ClampScore(score) \in 0..MaxScore
    BY LeadsAssumption DEF ClampScore
  <2>3. /\ new \in Lead /\ new.status = lead[l].status /\ new.by = lead[l].by
        /\ new.verified = lead[l].verified /\ new.closed = lead[l].closed
    BY <1>2, <2>1, <2>2 DEF Lead
  <2>5. \A f \in lead[l].verified : new.by[f] \in {lead[l].by[f], "person"}
    BY <2>3
  <2>6. (lead[l].closed <=> lead[l].status \in Terminal)
            => (new.closed <=> new.status \in Terminal)
    BY <2>3
  <2>7. lead[l].status # "absent" /\ Begin(s, "other", l, lead[l], new)
    BY <2>1 DEF Change
  <2>. QED
    BY <2>3, <2>5, <2>6, <2>7, Beginnings
<1>. QED
  BY <1>3, <1>4, <1>5, <1>6, <1>7

LEMMA AgentBegins ==
    ASSUME LeadsInv, NEW t \in Turns, CaptureFromConversation(t)
    PROVE  LeadsInv'
<1>1. \A l \in Leads : lead[l] \in Lead
  BY DEF LeadsInv, LeadsTypeOK
<1>2. PICK l \in Leads, fields \in SUBSET Fields :
        \/ /\ lead[l].status \in Open
           /\ Change(t, "edit", l, Written(lead[l], Unprotected(lead[l], fields), "agent"))
        \/ /\ lead[l].status = "absent"
           /\ Begin(t, "create", l, NoRow,
                    [Written(NoRow, fields, "agent") EXCEPT !.status = "new"])
  BY DEF CaptureFromConversation
<1>3. CASE Change(t, "edit", l, Written(lead[l], Unprotected(lead[l], fields), "agent"))
  <2>1. PICK new : new = Written(lead[l], Unprotected(lead[l], fields), "agent")
    OBVIOUS
  <2>2. /\ new \in Lead /\ new.status = lead[l].status /\ new.closed = lead[l].closed
        /\ new.verified = lead[l].verified
        /\ \A f \in lead[l].verified : new.by[f] = lead[l].by[f]
    BY <1>1, <2>1 DEF Lead, Written, Unprotected, Writers
  <2>. QED
    BY <1>3, <2>1, <2>2, Beginnings DEF Change
<1>4. CASE /\ lead[l].status = "absent"
           /\ Begin(t, "create", l, NoRow,
                    [Written(NoRow, fields, "agent") EXCEPT !.status = "new"])
  <2>1. PICK new : new = [Written(NoRow, fields, "agent") EXCEPT !.status = "new"]
    OBVIOUS
  <2>2. new \in Lead /\ new.status = "new" /\ ~new.closed /\ new.verified = {}
    <3>1. NoRow \in Lead /\ "agent" \in Writers /\ ~NoRow.closed /\ NoRow.verified = {}
      BY LeadsAssumption DEF NoRow, Lead, Writers
    <3>2. PICK row : row = Written(NoRow, fields, "agent")
      OBVIOUS
    <3>3. row \in Lead /\ row.closed = NoRow.closed /\ row.verified = NoRow.verified
      BY <3>1, <3>2, WrittenRow
    <3>. QED
      BY <2>1, <3>1, <3>2, <3>3 DEF Lead, Open
  <2>3. lead[l] = NoRow /\ NoRow.status = "absent" /\ NoRow.verified = {} /\ ~NoRow.closed
    BY <1>4 DEF LeadsInv, NoRow
  <2>4. Begin(t, "create", l, lead[l], new)
    BY <1>4, <2>1, <2>3
  <2>. QED
    BY <2>2, <2>3, <2>4, Beginnings DEF Terminal
<1>. QED
  BY <1>2, <1>3, <1>4

\* What is over leaves the others as they were.
LEMMA Endings ==
    ASSUME LeadsInv, NEW a \in Staff \cup Turns,
           editing' = [editing EXCEPT ![a] = Nothing],
           UNCHANGED <<lead, colleague, logged, vouched, contested, operations>>
    PROVE  LeadsInv'
<1>1. NoRow \in Lead
  BY LeadsAssumption DEF NoRow, Lead, Writers
<1>2. LeadsTypeOK'
  BY <1>1 DEF LeadsInv, LeadsTypeOK, Nothing
<1>3. ASSUME NEW b \in Staff \cup Turns PROVE Sound(b, editing[b])'
  BY <1>3 DEF LeadsInv, LeadsTypeOK, Sound, Nothing
<1>4. Alone'
  BY LeadsAssumption DEF LeadsInv, LeadsTypeOK, Alone, Nothing
<1>. QED
  BY <1>2, <1>3, <1>4 DEF LeadsInv, TimelineExplains, OrderlyRows

\* What a commit writes.
LEMMA RowCommitted ==
    ASSUME LeadsInv, NEW a \in Staff \cup Turns, NEW l \in Leads, NEW e, NEW row,
           e = editing[a], e.on = l, e.kind # "none", row = Stored(e.read, e.new, lead[l])
    PROVE  /\ row \in Lead /\ row.status # "absent"
           /\ row.status = IF e.kind \in {"create", "move"} THEN e.new.status ELSE lead[l].status
           /\ l \notin contested =>
                /\ row.verified = e.new.verified /\ e.read = lead[l]
                /\ row.closed <=> row.status \in Terminal
                /\ \A f \in lead[l].verified : row.by[f] \in {lead[l].by[f], "person"}
<1>1. e.read \in Lead /\ e.new \in Lead /\ lead[l] \in Lead /\ Sound(a, e)
  BY DEF LeadsInv, LeadsTypeOK
<1>2. /\ row \in Lead
      /\ row.status = IF e.new.status = e.read.status THEN lead[l].status ELSE e.new.status
      /\ row.closed = IF e.new.closed = e.read.closed THEN lead[l].closed ELSE e.new.closed
      /\ row.verified = IF e.new.verified = e.read.verified THEN lead[l].verified
                        ELSE e.new.verified
      /\ \A f \in Fields : row.by[f] = IF e.new.by[f] = e.read.by[f] THEN lead[l].by[f]
                                       ELSE e.new.by[f]
  <2>. DEFINE read == e.read  new == e.new  now == lead[l]
  <2>1. read \in Lead /\ new \in Lead /\ now \in Lead /\ row = Stored(read, new, now)
    BY <1>1
  <2>. HIDE DEF read, new, now
  <2>2. /\ row \in Lead
        /\ row.status = IF new.status = read.status THEN now.status ELSE new.status
        /\ row.closed = IF new.closed = read.closed THEN now.closed ELSE new.closed
        /\ row.verified = IF new.verified = read.verified THEN now.verified ELSE new.verified
        /\ \A f \in Fields : row.by[f] = IF new.by[f] = read.by[f] THEN now.by[f]
                                         ELSE new.by[f]
    BY <2>1, StoredRow
  <2>. QED
    BY <2>2 DEF read, new, now
<1>3. row.status # "absent"
  BY <1>1, <1>2 DEF Sound
<1>4. row.status = IF e.kind \in {"create", "move"} THEN e.new.status ELSE lead[l].status
  BY <1>1, <1>2 DEF Sound
<1>5. ASSUME l \notin contested
      PROVE  /\ row.verified = e.new.verified /\ e.read = lead[l]
             /\ row.closed <=> row.status \in Terminal
             /\ \A f \in lead[l].verified : row.by[f] \in {lead[l].by[f], "person"}
  <2>1. e.read = lead[l]
    BY <1>5 DEF LeadsInv, Alone
  <2>2. lead[l].closed <=> lead[l].status \in Terminal
    BY <1>5 DEF LeadsInv, OrderlyRows
  <2>3. e.new.closed <=> e.new.status \in Terminal
    BY <1>1, <2>1, <2>2 DEF Sound
  <2>4. row.closed <=> row.status \in Terminal
    BY <1>2, <2>1, <2>2, <2>3
  <2>5. lead[l].verified \subseteq Fields
    BY <1>1 DEF Lead
  <2>6. ASSUME NEW f \in lead[l].verified PROVE row.by[f] \in {lead[l].by[f], "person"}
    BY <1>1, <1>2, <2>1, <2>5 DEF Sound
  <2>. QED
    BY <1>2, <2>1, <2>4, <2>6
<1>. QED
  BY <1>2, <1>3, <1>4, <1>5

LEMMA Commits ==
    ASSUME LeadsInv, NEW a \in Staff \cup Turns, Commit(a)
    PROVE  LeadsInv'
<1>0. PICK e : e = editing[a]
  OBVIOUS
<1>1. PICK l : e = editing[a] /\ l = e.on
  BY <1>0
<1>2. l \in Leads /\ e.kind # "none" /\ Sound(a, e)
  BY <1>1 DEF LeadsInv, Commit, Sound
<1>3. PICK row : row = Stored(e.read, e.new, lead[l])
  OBVIOUS
<1>4. CASE UNCHANGED <<lead, logged, vouched>>
  BY <1>4, Endings DEF Commit
<1>5. CASE /\ lead' = [lead EXCEPT ![l] = row]
           /\ logged' = IF e.kind \in {"create", "move"}
                        THEN [logged EXCEPT ![l] = e.new.status] ELSE logged
           /\ vouched' = IF a \in Staff
                         THEN [vouched EXCEPT ![l] =
                                    @ \cup (e.new.verified \ e.read.verified)]
                         ELSE vouched
  <2>1. /\ row \in Lead /\ row.status # "absent"
        /\ row.status = IF e.kind \in {"create", "move"} THEN e.new.status ELSE lead[l].status
        /\ l \notin contested =>
             /\ row.verified = e.new.verified /\ e.read = lead[l]
             /\ row.closed <=> row.status \in Terminal
    BY <1>1, <1>2, <1>3, RowCommitted
  <2>2. /\ editing' = [editing EXCEPT ![a] = Nothing]
        /\ UNCHANGED <<colleague, contested, operations>>
    BY DEF Commit
  <2>3. LeadsTypeOK'
    <3>1. NoRow \in Lead
      BY LeadsAssumption DEF NoRow, Lead, Writers
    <3>2. editing' \in [Staff \cup Turns ->
            [kind : {"none", "create", "edit", "move", "other"},
             on : Leads \cup {NoLead}, read : Lead, new : Lead]]
      BY <2>2, <3>1 DEF LeadsInv, LeadsTypeOK, Nothing
    <3>3. e.new \in Lead
      BY <1>1 DEF LeadsInv, LeadsTypeOK
    <3>4. lead' \in [Leads -> Lead]
      BY <1>5, <2>1 DEF LeadsInv, LeadsTypeOK
    <3>5. e.new.status \in {"absent"} \cup Open \cup Terminal /\ e.new.verified \subseteq Fields
      BY <3>3 DEF Lead
    <3>6. logged' \in [Leads -> {"absent"} \cup Open \cup Terminal]
      BY <1>5, <3>5 DEF LeadsInv, LeadsTypeOK
    <3>7. vouched' \in [Leads -> SUBSET Fields]
      BY <1>5, <3>5 DEF LeadsInv, LeadsTypeOK
    <3>. QED
      BY <2>2, <3>2, <3>4, <3>6, <3>7 DEF LeadsInv, LeadsTypeOK
  <2>4. ASSUME NEW b \in Staff \cup Turns PROVE Sound(b, editing[b])'
    <3>1. PICK g : g = editing'[b]
      OBVIOUS
    <3>2. g = Nothing \/ g = editing[b]
      BY <2>2, <3>1 DEF LeadsInv, LeadsTypeOK
    <3>3. Sound(b, g)
      BY <3>2 DEF LeadsInv, Sound, Nothing
    <3>4. \A k \in Leads : lead[k].status # "absent" => lead'[k].status # "absent"
      BY <1>5, <2>1 DEF LeadsInv, LeadsTypeOK
    <3>. QED
      BY <3>1, <3>3, <3>4 DEF Sound
  <2>5. Alone'
    <3>1. \A b \in Staff \cup Turns : IF b = a THEN editing'[b] = Nothing
                                      ELSE editing'[b] = editing[b]
      BY <2>2 DEF LeadsInv, LeadsTypeOK
    <3>2. \A k \in Leads : k # l => lead'[k] = lead[k]
      BY <1>5 DEF LeadsInv, LeadsTypeOK
    <3>3. Nothing.on = NoLead
      BY DEF Nothing
    <3>. QED
      BY <1>1, <2>2, <3>1, <3>2, <3>3, LeadsAssumption DEF LeadsInv, Alone
  <2>6. \A k \in Leads : lead'[k].status = "absent" => lead'[k] = NoRow
    BY <1>5, <2>1 DEF LeadsInv, LeadsTypeOK
  <2>7. TimelineExplains'
    BY <1>2, <1>5, <2>1 DEF LeadsInv, LeadsTypeOK, TimelineExplains
  <2>8. ASSUME NEW k \in Leads, k \notin contested'
        PROVE  lead'[k].verified = vouched'[k] /\ (lead'[k].closed <=> lead'[k].status \in Terminal)
    <3>1. CASE k # l
      BY <1>5, <2>2, <2>8, <3>1 DEF LeadsInv, LeadsTypeOK, OrderlyRows
    <3>2. CASE k = l
      <4>1. lead'[l] = row
        BY <1>2, <1>5 DEF LeadsInv, LeadsTypeOK
      <4>2. vouched'[l] = IF a \in Staff THEN vouched[l] \cup (e.new.verified \ e.read.verified)
                          ELSE vouched[l]
        BY <1>2, <1>5 DEF LeadsInv, LeadsTypeOK
      <4>3. e.read.verified = vouched[l]
        BY <1>2, <2>1, <2>2, <2>8, <3>2 DEF LeadsInv, OrderlyRows
      <4>4. e.read.verified \subseteq e.new.verified
            /\ (a \notin Staff => e.new.verified = e.read.verified)
        BY <1>2 DEF Sound
      <4>. QED
        BY <2>1, <2>2, <2>8, <3>2, <4>1, <4>2, <4>3, <4>4
    <3>. QED
      BY <3>1, <3>2
  <2>9. OrderlyRows'
    BY <2>8 DEF OrderlyRows
  <2>. QED
    BY <2>3, <2>4, <2>5, <2>6, <2>7, <2>9 DEF LeadsInv
<1>. QED
  BY <1>1, <1>3, <1>4, <1>5 DEF Commit

LEMMA LeadsStep == LeadsInv /\ [LeadsNext]_leadsVars => LeadsInv'
<1>. SUFFICES ASSUME LeadsInv, [LeadsNext]_leadsVars PROVE LeadsInv'
  OBVIOUS
<1>1. ASSUME UNCHANGED <<lead, editing, logged, vouched, contested>>,
             colleague' \in BOOLEAN, operations' \in 0..MaxOperations
      PROVE  LeadsInv'
  <2>1. LeadsTypeOK'
    BY <1>1 DEF LeadsInv, LeadsTypeOK
  <2>2. Alone' /\ \A a \in Staff \cup Turns : Sound(a, editing[a])'
    BY <1>1 DEF LeadsInv, Alone, Sound
  <2>3. TimelineExplains' /\ OrderlyRows'
    BY <1>1 DEF LeadsInv, TimelineExplains, OrderlyRows
  <2>. QED
    BY <1>1, <2>1, <2>2, <2>3 DEF LeadsInv
<1>2. CASE HandOver \/ UNCHANGED leadsVars
  <2>1. colleague' \in BOOLEAN /\ operations' \in 0..MaxOperations
    <3>1. colleague \in BOOLEAN /\ operations \in 0..MaxOperations
      BY DEF LeadsInv, LeadsTypeOK
    <3>2. CASE HandOver
      BY <3>1, <3>2, LeadsAssumption DEF HandOver
    <3>3. CASE UNCHANGED leadsVars
      BY <3>1, <3>3 DEF leadsVars
    <3>. QED
      BY <1>2, <3>2, <3>3
  <2>. QED
    BY <1>1, <1>2, <2>1 DEF HandOver, leadsVars
<1>3. ASSUME NEW a \in Staff \cup Turns, Rollback(a) PROVE LeadsInv'
  BY <1>3, Endings DEF Rollback
<1>. QED
  BY <1>2, <1>3, PeopleBegin, AgentBegins, Commits DEF LeadsNext

LEMMA LeadsInvariant == LeadsSpec => []LeadsInv
<1>1. LeadsInit => LeadsInv
  <2>. SUFFICES ASSUME LeadsInit PROVE LeadsInv
    OBVIOUS
  <2>1. NoRow \in Lead /\ NoRow.status = "absent" /\ NoRow.verified = {} /\ ~NoRow.closed
    BY LeadsAssumption DEF NoRow, Lead, Writers
  <2>2. LeadsTypeOK
    <3>1. Nothing \in [kind : {"none", "create", "edit", "move", "other"},
                       on : Leads \cup {NoLead}, read : Lead, new : Lead]
      BY <2>1 DEF Nothing
    <3>2. 0 \in 0..MaxOperations
      BY LeadsAssumption
    <3>. QED
      BY <2>1, <3>1, <3>2 DEF LeadsInit, LeadsTypeOK
  <2>3. (\A a \in Staff \cup Turns : Sound(a, editing[a])) /\ Alone
    BY LeadsAssumption DEF LeadsInit, Sound, Alone, Nothing
  <2>. QED
    BY <2>1, <2>2, <2>3 DEF LeadsInit, LeadsInv, TimelineExplains, OrderlyRows, Terminal
<1>. QED
  BY <1>1, LeadsStep, PTL DEF LeadsSpec

\* The timeline of a lead explains its status, and its dates and marks agree with
\* it, but for rows two operations had in hand (LeadService).
THEOREM LeadsAreExplained == LeadsSpec => []LeadsHold
<1>1. LeadsInv => LeadsHold
  BY DEF LeadsInv, LeadsHold
<1>. QED
  BY <1>1, LeadsInvariant, PTL

\* What a person has verified, no agent writes over (LeadService.capture_from_conversation).
THEOREM VerifiedStays == LeadsSpec => VerifiedIsKept
<1>1. ASSUME LeadsInv, [LeadsNext]_leadsVars,
             NEW l \in Leads, l \notin contested', NEW f \in Fields,
             f \in lead[l].verified, lead'[l].by[f] # lead[l].by[f]
      PROVE  lead'[l].by[f] = "person"
  <2>1. lead'[l] # lead[l]
    BY <1>1
  <2>2. \E a \in Staff \cup Turns : Commit(a)
    <3>1. /\ \A a : Rollback(a) => lead' = lead
          /\ \A a, kind, l1, read, new : Begin(a, kind, l1, read, new) => lead' = lead
      BY DEF Rollback, Begin
    <3>2. \A a, kind, l1, new : Change(a, kind, l1, new) => lead' = lead
      BY <3>1 DEF Change
    <3>3. \A t : CaptureFromConversation(t) => lead' = lead
      BY <3>1, <3>2 DEF CaptureFromConversation
    <3>4. \A s : CreateLead(s) => lead' = lead
      BY <3>1 DEF CreateLead
    <3>6. \A s : UpdateLead(s) \/ ChangeStatus(s) => lead' = lead
      BY <3>2 DEF UpdateLead, ChangeStatus
    <3>7. \A s : Assign(s) \/ SetScore(s) => lead' = lead
      BY <3>2 DEF Assign, SetScore
    <3>5. LeadsNext
      BY <1>1, <2>1 DEF leadsVars
    <3>. QED
      BY <2>1, <3>1, <3>3, <3>4, <3>5, <3>6, <3>7 DEF LeadsNext, HandOver
  <2>d. PICK a \in Staff \cup Turns : Commit(a)
    BY <2>2
  <2>a. PICK e : e = editing[a]
    OBVIOUS
  <2>b. PICK k : k = e.on
    OBVIOUS
  <2>c. PICK row : row = Stored(e.read, e.new, lead[k])
    OBVIOUS
  <2>3. e = editing[a] /\ k = e.on /\ row = Stored(e.read, e.new, lead[k])
    BY <2>a, <2>b, <2>c
  <2>4. k \in Leads /\ e.kind # "none" /\ Sound(a, e)
    BY <1>1, <2>d, <2>3 DEF LeadsInv, Commit, Sound
  <2>5. lead' = [lead EXCEPT ![k] = row] /\ contested' = contested
    BY <2>1, <2>d, <2>3 DEF Commit
  <2>6. k = l /\ lead'[l] = row
    BY <1>1, <2>1, <2>4, <2>5 DEF LeadsInv, LeadsTypeOK
  <2>7. l \notin contested => \A g \in lead[l].verified : row.by[g] \in {lead[l].by[g], "person"}
    <3>1. l \notin contested =>
            \A g \in lead[k].verified : row.by[g] \in {lead[k].by[g], "person"}
      <4>1. e.on = k /\ e.kind # "none" /\ k = l
        BY <2>3, <2>4, <2>6
      <4>2. LeadsInv /\ row = Stored(e.read, e.new, lead[k])
        BY <1>1, <2>c
      <4>3. k \notin contested =>
                /\ row.verified = e.new.verified /\ e.read = lead[k]
                /\ row.closed <=> row.status \in Terminal
                /\ \A g \in lead[k].verified : row.by[g] \in {lead[k].by[g], "person"}
        BY <2>a, <2>4, <4>1, <4>2, RowCommitted
      <4>. QED
        BY <4>1, <4>3
    <3>. QED
      BY <2>6, <3>1
  <2>8. l \notin contested
    BY <1>1, <2>5
  <2>. QED
    BY <1>1, <2>6, <2>7, <2>8
<1>2. LeadsInv /\ [LeadsNext]_leadsVars =>
        [\A l \in Leads \ contested', f \in Fields :
            f \in lead[l].verified /\ lead'[l].by[f] # lead[l].by[f]
                => lead'[l].by[f] = "person"]_leadsVars
  BY <1>1
<1>. QED
  BY <1>2, LeadsInvariant, PTL DEF LeadsSpec, VerifiedIsKept

-----------------------------------------------------------------------------
(* Turns                                                                   *)

\* A turn keeps what was said in any of its rounds, has sent it when it is done
\* unless it asked for a person, and reports a handoff just when it made one.
Coherent(turn) ==
    /\ turn \in Turn
    /\ Len(turn.calls) <= MaxCalls
    /\ turn.stage = "tools" => turn.calls # <<>>
    /\ turn.text <=> turn.words
    /\ turn.sent <=> turn.stage = "done" /\ turn.words /\ ~turn.handed
    /\ turn.seen = "ai"
    /\ "event" \in turn.left <=> turn.shown = "human"

\* Who has not been overtaken has read the mode that stands.
UpToDate ==
    /\ \A w \in Answerers : answering[w].stage # "idle" /\ w \notin overtaken => mode = "ai"
    /\ \A c \in Colleagues : changing[c].open /\ c \notin overtaken => mode = changing[c].read

RoundsInv ==
    /\ RoundsTypeOK
    /\ \A w \in Answerers : Coherent(answering[w])
    /\ UpToDate
    /\ HandoffsAreCounted

LEMMA SilentIsCoherent == Silent \in Turn /\ Coherent(Silent) /\ Silent.stage = "idle"
<1>1. <<>> \in Seq(ToolNames) /\ Len(<<>>) = 0
  OBVIOUS
<1>2. 0 \in 0..MaxRounds /\ 0 <= MaxCalls
  BY RoundsAssumption
<1>3. Silent \in Turn
  BY <1>1, <1>2 DEF Silent, Turn, Modes
<1>. QED
  BY <1>1, <1>2, <1>3 DEF Silent, Coherent

\* A handoff is reported just when it is one.
LEMMA HandoffIsCoherent ==
    ASSUME NEW turn, Coherent(turn)
    PROVE  LET h == RequestHumanHandoff(turn) IN
           Coherent(h) /\ h.calls = turn.calls /\ h.stage = turn.stage
<1>1. /\ turn \in Turn /\ turn.seen = "ai"
      /\ "event" \in turn.left <=> turn.shown = "human"
  BY DEF Coherent
<1>2. PICK h : h = RequestHumanHandoff(turn)
  OBVIOUS
<1>3. PICK left : left = IF IsEvent(turn.shown, "human") THEN turn.left \cup {"event"}
                         ELSE turn.left
  OBVIOUS
<1>4. left \in SUBSET {"lead", "nudge", "event"} /\ "event" \in left
  BY <1>1, <1>3 DEF IsEvent, Turn, Modes
<1>5. h = [turn EXCEPT !.shown = "human", !.left = left]
  BY <1>2, <1>3 DEF RequestHumanHandoff
<1>6. h \in Turn /\ h.shown = "human" /\ h.left = left
  BY <1>1, <1>4, <1>5 DEF Turn, Modes
<1>7. /\ h.stage = turn.stage /\ h.calls = turn.calls
      /\ h.text = turn.text /\ h.words = turn.words /\ h.sent = turn.sent
      /\ h.handed = turn.handed /\ h.seen = turn.seen
  BY <1>1, <1>5 DEF Turn
<1>8. Coherent(h)
  BY <1>4, <1>6, <1>7 DEF Coherent
<1>. QED
  BY <1>2, <1>7, <1>8

\* What a tool leaves, it leaves with the calls, the words and the stage as they were.
LEMMA ToolsAreCoherent ==
    ASSUME NEW turn, Coherent(turn), NEW tool \in ToolNames, NEW arguments \in Arguments,
           tool # "unknown"
    PROVE  LET new == Handled(turn, tool, arguments) IN
           Coherent(new) /\ new.calls = turn.calls /\ new.stage = turn.stage
<1>1. /\ turn \in Turn /\ turn.seen = "ai"
      /\ "event" \in turn.left <=> turn.shown = "human"
  BY DEF Coherent
<1>2. ASSUME NEW new \in Turn, new.stage = turn.stage, new.calls = turn.calls,
             new.text = turn.text, new.words = turn.words, new.sent = turn.sent,
             new.handed = turn.handed, new.seen = turn.seen,
             "event" \in new.left <=> new.shown = "human"
      PROVE  Coherent(new) /\ new.calls = turn.calls /\ new.stage = turn.stage
  BY <1>2 DEF Coherent
<1>5. ASSUME NEW what \in {"lead", "nudge"}, NEW new,
             new = [turn EXCEPT !.left = @ \cup {what}]
      PROVE  Coherent(new) /\ new.calls = turn.calls /\ new.stage = turn.stage
  <2>1. PICK left : left = turn.left \cup {what}
    OBVIOUS
  <2>2. left \in SUBSET {"lead", "nudge", "event"} /\ ("event" \in left <=> "event" \in turn.left)
    BY <1>1, <2>1 DEF Turn
  <2>3. new = [turn EXCEPT !.left = left]
    BY <1>5, <2>1
  <2>4. new \in Turn /\ new.shown = turn.shown /\ new.left = left
    BY <1>1, <2>2, <2>3 DEF Turn
  <2>5. /\ new.stage = turn.stage /\ new.calls = turn.calls
        /\ new.text = turn.text /\ new.words = turn.words /\ new.sent = turn.sent
        /\ new.handed = turn.handed /\ new.seen = turn.seen
    BY <1>1, <2>3 DEF Turn
  <2>. QED
    BY <1>1, <1>2, <2>2, <2>4, <2>5
<1>6. PICK new : new = Handled(turn, tool, arguments)
  OBVIOUS
<1>7. CASE tool = "handoff"
  BY <1>6, <1>7, HandoffIsCoherent DEF Handled
<1>8. CASE tool = "search"
  BY <1>6, <1>8 DEF Handled, SearchKnowledge
<1>9. CASE tool = "lead"
  <2>1. new = turn \/ new = [turn EXCEPT !.left = @ \cup {"lead"}]
    BY <1>6, <1>9 DEF Handled, RecordLeadDetails
  <2>. QED
    BY <1>5, <1>6, <2>1
<1>10. CASE tool = "nudge"
  <2>1. new = [turn EXCEPT !.left = @ \cup {"nudge"}]
    BY <1>6, <1>10 DEF Handled, ScheduleFollowUp
  <2>. QED
    BY <1>5, <1>6, <2>1
<1>. QED
  BY <1>7, <1>8, <1>9, <1>10, RoundsAssumption

\* The reports of one commit: a change of hands is among them, and what is reported
\* did change hands unless another had changed the mode since it was read.
LEMMA CommitIsCounted ==
    ASSUME RoundsTypeOK, HandoffsAreCounted,
           NEW a, NEW read \in Modes, NEW to \in Modes, NEW reported,
           reported <=> read # to,
           a \notin overtaken => mode = read,
           ModeCommitted(a, read, to, reported)
    PROVE  /\ mode' \in Modes /\ overlapped' \in BOOLEAN
           /\ events' \in [Modes -> Nat] /\ came' \in [Modes -> Nat]
           /\ HandoffsAreCounted'
           /\ overtaken' = (IF mode' # mode THEN HaveRead ELSE overtaken) \ {a}
<1>1. /\ mode \in Modes /\ overlapped \in BOOLEAN
      /\ events \in [Modes -> Nat] /\ came \in [Modes -> Nat]
  BY DEF RoundsTypeOK
<1>2. PICK new \in Modes : new = IF to = read THEN mode ELSE to
  BY <1>1
<1>3. /\ mode' = new
      /\ events' = IF reported THEN [events EXCEPT ![to] = @ + 1] ELSE events
      /\ came' = IF new # mode THEN [came EXCEPT ![new] = @ + 1] ELSE came
      /\ overtaken' = (IF new # mode THEN HaveRead ELSE overtaken) \ {a}
      /\ overlapped' = (overlapped \/ (to # read /\ a \in overtaken))
  BY <1>2 DEF ModeCommitted
<1>4. overlapped' \in BOOLEAN /\ events' \in [Modes -> Nat] /\ came' \in [Modes -> Nat]
  BY <1>1, <1>2, <1>3
<1>5. CASE to = read
  BY <1>1, <1>2, <1>3, <1>5 DEF HandoffsAreCounted
<1>6. CASE to # read
  <2>1. new = to /\ events' = [events EXCEPT ![to] = @ + 1]
    BY <1>2, <1>3, <1>6
  <2>2. \A k \in Modes : events'[k] = IF k = to THEN events[k] + 1 ELSE events[k]
    BY <1>1, <2>1
  <2>3. \A k \in Modes : came'[k] \in {came[k], IF k = to THEN came[k] + 1 ELSE came[k]}
    BY <1>1, <1>3, <2>1
  <2>4. \A k \in Modes : came'[k] <= events'[k]
    BY <1>1, <2>2, <2>3 DEF HandoffsAreCounted
  <2>5. ASSUME ~overlapped' PROVE events' = came'
    <3>1. ~overlapped /\ mode = read
      BY <1>3, <1>6, <2>5
    <3>2. came' = [came EXCEPT ![to] = @ + 1] /\ events = came
      BY <1>3, <1>6, <2>1, <3>1 DEF HandoffsAreCounted
    <3>. QED
      BY <2>1, <3>2
  <2>. QED
    BY <1>2, <1>3, <1>4, <2>4, <2>5 DEF HandoffsAreCounted
<1>. QED
  BY <1>5, <1>6, <1>2, <1>3, <1>4

LEMMA RoundsStep == RoundsInv /\ [RoundsNext]_roundsVars => RoundsInv'
<1>. SUFFICES ASSUME RoundsInv, [RoundsNext]_roundsVars PROVE RoundsInv'
  OBVIOUS
<1>. USE DEF RoundsInv
<1>1. CASE UNCHANGED roundsVars
  BY <1>1 DEF roundsVars, modeVars, RoundsTypeOK, HaveRead, UpToDate, HandoffsAreCounted
<1>2. ASSUME NEW w \in Answerers, NEW turn, Coherent(turn), Going(w, turn),
             answering[w].stage # "idle", turn.stage # "idle"
      PROVE  RoundsInv'
  <2>1. turn \in Turn /\ Len(turn.calls) <= MaxCalls
    BY <1>2 DEF Coherent
  <2>2. answering' = [answering EXCEPT ![w] = turn]
        /\ UNCHANGED <<mode, events, came, overtaken, overlapped>>
        /\ UNCHANGED <<kept, changing, turnsBegun, takeovers>>
    BY <1>2 DEF Going, modeVars
  <2>3. \A v \in Answerers : answering'[v] = IF v = w THEN turn ELSE answering[v]
    BY <2>2 DEF RoundsTypeOK
  <2>4. HaveRead' = HaveRead
    BY <1>2, <2>2, <2>3 DEF HaveRead
  <2>5. RoundsTypeOK'
    BY <2>1, <2>2, <2>3, <2>4 DEF RoundsTypeOK
  <2>6. UpToDate'
    BY <1>2, <2>2, <2>3 DEF UpToDate
  <2>. QED
    BY <1>2, <2>2, <2>3, <2>5, <2>6 DEF HandoffsAreCounted
<1>3. ASSUME NEW w \in Answerers, BeginTurn(w) PROVE RoundsInv'
  <2>1. PICK turn : turn = [Silent EXCEPT !.stage = "respond", !.round = 1]
    OBVIOUS
  <2>2. Coherent(turn)
    <3>1. 1 \in 0..MaxRounds
      BY RoundsAssumption
    <3>2. turn \in Turn
      BY <2>1, <3>1, SilentIsCoherent DEF Turn
    <3>3. /\ turn.stage = "respond" /\ turn.calls = Silent.calls /\ turn.text = Silent.text
          /\ turn.words = Silent.words /\ turn.sent = Silent.sent /\ turn.seen = Silent.seen
          /\ turn.left = Silent.left /\ turn.shown = Silent.shown
      BY <2>1, SilentIsCoherent DEF Turn
    <3>. QED
      BY <3>2, <3>3, SilentIsCoherent DEF Coherent
  <2>3. answering' = [answering EXCEPT ![w] = turn] /\ turnsBegun' = turnsBegun + 1
        /\ turnsBegun < MaxTurns /\ UNCHANGED <<kept, changing, takeovers>>
        /\ UNCHANGED <<mode, events, came, overtaken, overlapped>>
        /\ mode = "ai" /\ answering[w].stage = "idle"
    BY <1>3, <2>1 DEF BeginTurn, modeVars
  <2>4. \A v \in Answerers : answering'[v] = IF v = w THEN turn ELSE answering[v]
    BY <2>3 DEF RoundsTypeOK
  <2>5. HaveRead \subseteq HaveRead'
    BY <2>3, <2>4 DEF HaveRead
  <2>6. RoundsTypeOK'
    BY <2>2, <2>3, <2>4, <2>5, RoundsAssumption DEF RoundsTypeOK, Coherent
  <2>7. UpToDate'
    BY <2>3, <2>4 DEF UpToDate
  <2>. QED
    BY <2>2, <2>3, <2>4, <2>6, <2>7 DEF HandoffsAreCounted
<1>4. ASSUME NEW w \in Answerers, Respond(w) PROVE RoundsInv'
  <2>1. PICK said \in BOOLEAN, n \in 0..MaxCalls : \E calls \in [1..n -> ToolNames] :
            /\ answering[w].stage = "respond"
            /\ Going(w, [answering[w] EXCEPT
                    !.stage = IF n = 0 THEN "close" ELSE "tools",
                    !.calls = calls,
                    !.text = KeptText(@, said),
                    !.words = @ \/ said])
    BY <1>4, Zenon DEF Respond
  <2>2. PICK calls \in [1..n -> ToolNames] :
            /\ answering[w].stage = "respond"
            /\ Going(w, [answering[w] EXCEPT
                    !.stage = IF n = 0 THEN "close" ELSE "tools",
                    !.calls = calls,
                    !.text = KeptText(@, said),
                    !.words = @ \/ said])
    BY <2>1, Zenon
  <2>3. calls \in Seq(ToolNames) /\ Len(calls) = n /\ (n # 0 => calls # <<>>)
    BY RoundsAssumption
  <2>4. PICK stage : stage = IF n = 0 THEN "close" ELSE "tools"
    OBVIOUS
  <2>5. PICK text \in BOOLEAN : text <=> answering[w].text \/ said
    OBVIOUS
  <2>6. PICK words \in BOOLEAN : words <=> answering[w].words \/ said
    OBVIOUS
  <2>7. PICK turn : turn = [answering[w] EXCEPT !.stage = stage, !.calls = calls,
                                                !.text = text, !.words = words]
    OBVIOUS
  <2>8. Going(w, turn)
    <3>1. text = (answering[w].text \/ said) /\ words = (answering[w].words \/ said)
      BY <2>5, <2>6
    <3>. QED
      BY <2>2, <2>4, <2>7, <3>1 DEF KeptText
  <2>9. Coherent(turn)
    <3>1. answering[w] \in Turn /\ Coherent(answering[w])
      BY DEF RoundsTypeOK
    <3>2. turn \in Turn
      BY <2>3, <2>4, <2>7, <3>1 DEF Turn
    <3>3. /\ turn.stage = stage /\ turn.calls = calls /\ turn.text = text /\ turn.words = words
          /\ turn.sent = answering[w].sent /\ turn.seen = answering[w].seen
          /\ turn.left = answering[w].left /\ turn.shown = answering[w].shown
      BY <2>7, <3>1 DEF Turn
    <3>4. text <=> words
      BY <2>5, <2>6, <3>1 DEF Coherent
    <3>5. ~answering[w].sent
      BY <2>2, <3>1 DEF Coherent
    <3>. QED
      BY <2>3, <2>4, <3>1, <3>2, <3>3, <3>4, <3>5 DEF Coherent
  <2>10. answering[w].stage # "idle" /\ turn.stage # "idle"
    <3>1. answering[w] \in Turn
      BY DEF RoundsTypeOK
    <3>. QED
      BY <2>2, <2>4, <2>7, <3>1 DEF Turn
  <2>. QED
    BY <1>2, <2>8, <2>9, <2>10
<1>5. ASSUME NEW w \in Answerers, Escalate(w) PROVE RoundsInv'
  <2>1. PICK turn : turn = answering[w]
    OBVIOUS
  <2>2. Coherent(turn) /\ turn.stage = "respond" /\ turn \in Turn
    BY <1>5, <2>1 DEF Escalate, RoundsTypeOK
  <2>3. PICK new \in {RequestHumanHandoff(turn), turn} :
            Going(w, [new EXCEPT !.stage = "close", !.handed = TRUE])
    BY <1>5, <2>1 DEF Escalate
  <2>4. Coherent(new) /\ new.stage = "respond"
    BY <2>2, <2>3, HandoffIsCoherent
  <2>5. PICK closed : closed = [new EXCEPT !.stage = "close", !.handed = TRUE]
    OBVIOUS
  <2>6. /\ closed \in Turn /\ closed.stage = "close" /\ closed.calls = new.calls
        /\ closed.text = new.text /\ closed.words = new.words /\ closed.sent = new.sent
        /\ closed.seen = new.seen /\ closed.left = new.left /\ closed.shown = new.shown
    BY <2>4, <2>5 DEF Coherent, Turn
  <2>7. Coherent(closed)
    BY <2>4, <2>6 DEF Coherent
  <2>. QED
    BY <1>2, <2>1, <2>2, <2>3, <2>5, <2>6, <2>7
<1>6. ASSUME NEW w \in Answerers, RunCall(w) PROVE RoundsInv'
  <2>1. PICK turn : turn = answering[w]
    OBVIOUS
  <2>2. PICK tool : tool = Head(turn.calls)
    OBVIOUS
  <2>3. Coherent(turn) /\ turn.stage = "tools" /\ turn.calls # <<>> /\ turn.calls \in Seq(ToolNames)
    BY <1>6, <2>1 DEF RunCall, Coherent, Turn
  <2>4. tool \in ToolNames /\ Tail(turn.calls) \in Seq(ToolNames)
        /\ Len(Tail(turn.calls)) <= MaxCalls
    BY <2>2, <2>3, RoundsAssumption DEF Coherent
  <2>5. PICK new : /\ Coherent(new) /\ new.calls = turn.calls /\ new.stage = turn.stage
                   /\ Going(w, NextStage(AfterCall(new, tool)))
    <3>1. PICK new \in CallOutcomes(turn, tool) : Going(w, NextStage(AfterCall(new, tool)))
      BY <1>6, <2>1, <2>2 DEF RunCall
    <3>2. Coherent(new) /\ new.calls = turn.calls /\ new.stage = turn.stage
      <4>1. ASSUME NEW arguments \in Arguments, CallAccepted(tool, arguments),
                   new = Handled(turn, tool, arguments)
            PROVE  Coherent(new) /\ new.calls = turn.calls /\ new.stage = turn.stage
        BY <2>3, <2>4, <4>1, ToolsAreCoherent DEF CallAccepted
      <4>2. CASE new = turn
        BY <2>3, <4>2
      <4>. QED
        BY <3>1, <4>1, <4>2 DEF CallOutcomes
    <3>. QED
      BY <3>1, <3>2
  <2>6. PICK handed \in BOOLEAN : handed <=> new.handed \/ tool = "handoff"
    OBVIOUS
  <2>7. PICK after : after = [new EXCEPT !.calls = Tail(new.calls), !.handed = handed]
    OBVIOUS
  <2>8. after = AfterCall(new, tool)
    <3>1. handed = (new.handed \/ tool = "handoff")
      BY <2>6
    <3>. QED
      BY <2>7, <3>1 DEF AfterCall
  <2>9. new \in Turn
    BY <2>5 DEF Coherent
  <2>10. /\ after \in Turn /\ after.calls = Tail(turn.calls) /\ after.stage = "tools"
         /\ after.text = new.text /\ after.words = new.words /\ after.sent = new.sent
         /\ after.seen = new.seen /\ after.left = new.left /\ after.shown = new.shown
    BY <2>3, <2>4, <2>5, <2>7, <2>9 DEF Turn
  <2>11. /\ Len(after.calls) <= MaxCalls /\ (after.text <=> after.words) /\ ~after.sent
         /\ after.seen = "ai" /\ ("event" \in after.left <=> after.shown = "human")
    BY <2>3, <2>4, <2>5, <2>10 DEF Coherent
  <2>12. ASSUME NEW next \in Turn, next.stage \in {"close", "respond"},
                next.calls = after.calls,
                next.text = after.text, next.words = after.words, next.sent = after.sent,
                next.seen = after.seen, next.left = after.left, next.shown = after.shown
         PROVE  Coherent(next)
    BY <2>11, <2>12 DEF Coherent
  <2>13. CASE after.calls # <<>>
    <3>1. Coherent(after)
      BY <2>10, <2>11, <2>13 DEF Coherent
    <3>. QED
      BY <1>2, <2>1, <2>3, <2>5, <2>8, <2>10, <2>13, <3>1 DEF NextStage
  <2>14. CASE after.calls = <<>> /\ (after.handed \/ after.round = MaxRounds)
    <3>1. PICK next : next = [after EXCEPT !.stage = "close"]
      OBVIOUS
    <3>2. /\ next \in Turn /\ next.stage = "close" /\ next.calls = after.calls
          /\ next.text = after.text /\ next.words = after.words /\ next.sent = after.sent
          /\ next.seen = after.seen /\ next.left = after.left /\ next.shown = after.shown
      BY <2>10, <3>1 DEF Turn
    <3>3. Coherent(next)
      BY <2>12, <3>2
    <3>. QED
      BY <1>2, <2>1, <2>3, <2>5, <2>8, <2>14, <3>1, <3>2, <3>3 DEF NextStage
  <2>15. CASE after.calls = <<>> /\ ~(after.handed \/ after.round = MaxRounds)
    <3>1. PICK next : next = [after EXCEPT !.stage = "respond", !.round = after.round + 1]
      OBVIOUS
    <3>2. after.round + 1 \in 0..MaxRounds
      BY <2>10, <2>15, RoundsAssumption DEF Turn
    <3>3. /\ next \in Turn /\ next.stage = "respond" /\ next.calls = after.calls
          /\ next.text = after.text /\ next.words = after.words /\ next.sent = after.sent
          /\ next.seen = after.seen /\ next.left = after.left /\ next.shown = after.shown
      BY <2>10, <3>1, <3>2 DEF Turn
    <3>4. Coherent(next)
      BY <2>12, <3>3
    <3>. QED
      BY <1>2, <2>1, <2>3, <2>5, <2>8, <2>15, <3>1, <3>3, <3>4 DEF NextStage
  <2>. QED
    BY <2>13, <2>14, <2>15
<1>7. ASSUME NEW w \in Answerers,
              answering' = [answering EXCEPT ![w] = Silent],
              overtaken' = overtaken \ {w}
                \/ overtaken' = HaveRead \ {w},
              mode' # mode => overtaken' = HaveRead \ {w},
              mode' \in Modes, kept' \subseteq {"lead", "nudge"},
              events' \in [Modes -> Nat], came' \in [Modes -> Nat], overlapped' \in BOOLEAN,
              UNCHANGED <<changing, turnsBegun, takeovers>>
       PROVE  RoundsTypeOK' /\ UpToDate' /\ \A v \in Answerers : Coherent(answering'[v])
  <2>1. \A v \in Answerers : answering'[v] = IF v = w THEN Silent ELSE answering[v]
    BY <1>7 DEF RoundsTypeOK
  <2>2. /\ Silent \in Turn /\ Coherent(Silent) /\ Len(Silent.calls) <= MaxCalls
        /\ Silent.stage = "idle"
    BY SilentIsCoherent DEF Coherent
  <2>3. HaveRead' = HaveRead \ {w}
    <3>1. w \notin Colleagues
      BY RoundsAssumption
    <3>. QED
      BY <1>7, <2>1, <2>2, <3>1 DEF HaveRead
  <2>4. overtaken' \subseteq HaveRead'
    BY <1>7, <2>3 DEF RoundsTypeOK
  <2>5. RoundsTypeOK'
    BY <1>7, <2>1, <2>2, <2>4 DEF RoundsTypeOK
  <2>6. UpToDate'
    <3>1. CASE mode' = mode
      <4>1. overtaken \ {w} \subseteq overtaken'
        BY <1>7 DEF RoundsTypeOK
      <4>2. w \notin Colleagues
        BY RoundsAssumption
      <4>. QED
        BY <1>7, <2>1, <2>2, <3>1, <4>1, <4>2 DEF UpToDate
    <3>2. CASE mode' # mode
      BY <1>7, <2>3, <3>2 DEF UpToDate, HaveRead
    <3>. QED
      BY <3>1, <3>2
  <2>. QED
    BY <2>1, <2>2, <2>5, <2>6
<1>8. ASSUME NEW c \in Colleagues,
              changing' = [changing EXCEPT ![c] = NoChange],
              overtaken' = overtaken \ {c}
                \/ overtaken' = HaveRead \ {c},
              mode' # mode => overtaken' = HaveRead \ {c},
              mode' \in Modes,
              events' \in [Modes -> Nat], came' \in [Modes -> Nat], overlapped' \in BOOLEAN,
              UNCHANGED <<answering, kept, turnsBegun, takeovers>>
       PROVE  RoundsTypeOK' /\ UpToDate' /\ \A v \in Answerers : Coherent(answering'[v])
  <2>1. \A d \in Colleagues : changing'[d] = IF d = c THEN NoChange ELSE changing[d]
    BY <1>8 DEF RoundsTypeOK
  <2>2. NoChange \in [open : BOOLEAN, read : Modes, to : Modes] /\ ~NoChange.open
    BY DEF NoChange, Modes
  <2>3. c \notin Answerers
    BY RoundsAssumption
  <2>4. HaveRead' = HaveRead \ {c}
    BY <1>8, <2>1, <2>2, <2>3 DEF HaveRead
  <2>5. overtaken' \subseteq HaveRead'
    BY <1>8, <2>4 DEF RoundsTypeOK
  <2>6. RoundsTypeOK'
    BY <1>8, <2>2, <2>5 DEF RoundsTypeOK
  <2>7. UpToDate'
    <3>1. CASE mode' = mode
      <4>1. overtaken \ {c} \subseteq overtaken'
        BY <1>8 DEF RoundsTypeOK
      <4>. QED
        BY <1>8, <2>1, <2>2, <2>3, <3>1, <4>1 DEF UpToDate
    <3>2. CASE mode' # mode
      BY <1>8, <2>4, <3>2 DEF UpToDate, HaveRead
    <3>. QED
      BY <3>1, <3>2
  <2>. QED
    BY <1>8, <2>6, <2>7
<1>9. ASSUME NEW w \in Answerers, TurnBreaks(w) PROVE RoundsInv'
  <2>1. /\ answering' = [answering EXCEPT ![w] = Silent] /\ overtaken' = overtaken \ {w}
        /\ UNCHANGED <<mode, events, came, overlapped, kept, changing, turnsBegun, takeovers>>
    BY <1>9 DEF TurnBreaks, EndTurn, Forget
  <2>2. RoundsTypeOK' /\ UpToDate' /\ \A v \in Answerers : Coherent(answering'[v])
    <3>1. /\ mode' \in Modes /\ overlapped' \in BOOLEAN /\ kept' \subseteq {"lead", "nudge"}
          /\ events' \in [Modes -> Nat] /\ came' \in [Modes -> Nat]
      BY <2>1 DEF RoundsTypeOK
    <3>. QED
      BY <1>7, <2>1, <3>1
  <2>. QED
    BY <2>1, <2>2 DEF HandoffsAreCounted
<1>10. ASSUME NEW w \in Answerers, SendReply(w) PROVE RoundsInv'
  <2>1. PICK turn : turn = answering[w]
    OBVIOUS
  <2>2. Coherent(turn) /\ turn.stage = "close" /\ turn \in Turn
    BY <1>10, <2>1 DEF SendReply, RoundsTypeOK
  <2>3. PICK sent \in BOOLEAN : sent <=> turn.sent \/ (turn.text /\ ~turn.handed)
    OBVIOUS
  <2>4. PICK new : new = [turn EXCEPT !.stage = "done", !.sent = sent]
    OBVIOUS
  <2>5. Going(w, new)
    <3>1. sent = (turn.sent \/ (turn.text /\ ~turn.handed))
      BY <2>3
    <3>. QED
      BY <1>10, <2>1, <2>4, <3>1 DEF SendReply
  <2>6. /\ new \in Turn /\ new.stage = "done" /\ new.sent = sent /\ new.calls = turn.calls
        /\ new.text = turn.text /\ new.words = turn.words /\ new.handed = turn.handed
        /\ new.seen = turn.seen /\ new.left = turn.left /\ new.shown = turn.shown
    BY <2>2, <2>4 DEF Turn
  <2>7. sent <=> new.words /\ ~new.handed
    BY <2>2, <2>3, <2>6 DEF Coherent
  <2>8. Coherent(new)
    BY <2>2, <2>6, <2>7 DEF Coherent
  <2>. QED
    BY <1>2, <2>1, <2>2, <2>5, <2>6, <2>8
<1>11. ASSUME NEW w \in Answerers, CommitTurn(w) PROVE RoundsInv'
  <2>1. PICK turn : turn = answering[w]
    OBVIOUS
  <2>2. Coherent(turn) /\ turn \in Turn /\ turn.stage = "done"
    BY <1>11, <2>1 DEF CommitTurn, RoundsTypeOK
  <2>3. /\ ModeCommitted(w, turn.seen, turn.shown, "event" \in turn.left)
        /\ kept' = kept \cup (turn.left \ {"event"})
        /\ answering' = [answering EXCEPT ![w] = Silent]
        /\ UNCHANGED <<changing, turnsBegun, takeovers>>
    BY <1>11, <2>1 DEF CommitTurn, EndTurn
  <2>4. /\ turn.seen \in Modes /\ turn.shown \in Modes /\ turn.seen = "ai"
        /\ "event" \in turn.left <=> turn.seen # turn.shown
    BY <2>2 DEF Coherent, Turn, Modes
  <2>5. w \notin overtaken => mode = turn.seen
    BY <2>1, <2>2, <2>4 DEF UpToDate
  <2>6. /\ mode' \in Modes /\ overlapped' \in BOOLEAN
        /\ events' \in [Modes -> Nat] /\ came' \in [Modes -> Nat]
        /\ HandoffsAreCounted'
        /\ overtaken' = (IF mode' # mode THEN HaveRead ELSE overtaken) \ {w}
    BY <2>3, <2>4, <2>5, CommitIsCounted
  <2>7. kept' \subseteq {"lead", "nudge"}
    BY <2>2, <2>3 DEF RoundsTypeOK, Turn
  <2>. QED
    BY <1>7, <2>3, <2>6, <2>7
<1>12. ASSUME NEW c \in Colleagues, ReadMode(c) PROVE RoundsInv'
  <2>1. PICK to \in Modes :
            changing' = [changing EXCEPT ![c] = [open |-> TRUE, read |-> mode, to |-> to]]
    BY <1>12 DEF ReadMode
  <2>2. /\ ~changing[c].open /\ takeovers' \in 0..MaxTakeovers
        /\ UNCHANGED <<mode, events, came, overtaken, overlapped, kept, answering, turnsBegun>>
    BY <1>12, RoundsAssumption DEF ReadMode, modeVars, RoundsTypeOK
  <2>3. \A d \in Colleagues :
            changing'[d] = IF d = c THEN [open |-> TRUE, read |-> mode, to |-> to] ELSE changing[d]
    BY <2>1 DEF RoundsTypeOK
  <2>4. HaveRead \subseteq HaveRead'
    BY <2>2, <2>3 DEF HaveRead
  <2>5. RoundsTypeOK'
    BY <2>1, <2>2, <2>4 DEF RoundsTypeOK
  <2>6. UpToDate'
    BY <2>2, <2>3 DEF UpToDate
  <2>. QED
    BY <2>2, <2>5, <2>6 DEF HandoffsAreCounted
<1>13. ASSUME NEW c \in Colleagues, CommitMode(c) PROVE RoundsInv'
  <2>1. PICK change : change = changing[c]
    OBVIOUS
  <2>2. change.open /\ change.read \in Modes /\ change.to \in Modes
    BY <1>13, <2>1 DEF CommitMode, RoundsTypeOK
  <2>3. /\ ModeCommitted(c, change.read, change.to, change.read # change.to)
        /\ changing' = [changing EXCEPT ![c] = NoChange]
        /\ UNCHANGED <<answering, kept, turnsBegun, takeovers>>
    BY <1>13, <2>1 DEF CommitMode, EndChange, IsEvent
  <2>4. c \notin overtaken => mode = change.read
    BY <2>1, <2>2 DEF UpToDate
  <2>5. /\ mode' \in Modes /\ overlapped' \in BOOLEAN
        /\ events' \in [Modes -> Nat] /\ came' \in [Modes -> Nat]
        /\ HandoffsAreCounted'
        /\ overtaken' = (IF mode' # mode THEN HaveRead ELSE overtaken) \ {c}
    BY <2>2, <2>3, <2>4, CommitIsCounted
  <2>. QED
    BY <1>8, <2>3, <2>5
<1>14. ASSUME NEW c \in Colleagues, ChangeFails(c) PROVE RoundsInv'
  <2>1. /\ changing' = [changing EXCEPT ![c] = NoChange] /\ overtaken' = overtaken \ {c}
        /\ UNCHANGED <<mode, events, came, overlapped, answering, kept, turnsBegun, takeovers>>
    BY <1>14 DEF ChangeFails, EndChange, Forget
  <2>2. /\ mode' \in Modes /\ overlapped' \in BOOLEAN
        /\ events' \in [Modes -> Nat] /\ came' \in [Modes -> Nat]
    BY <2>1 DEF RoundsTypeOK
  <2>. QED
    BY <1>8, <2>1, <2>2 DEF HandoffsAreCounted
<1>. QED
  BY <1>1, <1>3, <1>4, <1>6, <1>9, <1>10, <1>11, <1>12, <1>5, <1>13, <1>14 DEF RoundsNext

LEMMA RoundsInvariant == RoundsSpec => []RoundsInv
<1>1. RoundsInit => RoundsInv
  <2>. SUFFICES ASSUME RoundsInit PROVE RoundsInv
    OBVIOUS
  <2>1. \A w \in Answerers : answering[w] = Silent
    BY DEF RoundsInit
  <2>2. RoundsTypeOK
    <3>1. answering \in [Answerers -> Turn]
      BY SilentIsCoherent DEF RoundsInit
    <3>2. \A w \in Answerers : Len(answering[w].calls) <= MaxCalls
      BY <2>1, SilentIsCoherent DEF Coherent
    <3>3. /\ mode \in Modes /\ kept \subseteq {"lead", "nudge"}
          /\ events \in [Modes -> Nat] /\ came \in [Modes -> Nat] /\ overlapped \in BOOLEAN
      BY DEF RoundsInit, Modes
    <3>4. changing \in [Colleagues -> [open : BOOLEAN, read : Modes, to : Modes]]
      BY DEF RoundsInit, NoChange, Modes
    <3>5. turnsBegun \in 0..MaxTurns /\ takeovers \in 0..MaxTakeovers /\ overtaken \subseteq HaveRead
      BY RoundsAssumption DEF RoundsInit
    <3>. QED
      BY <3>1, <3>2, <3>3, <3>4, <3>5 DEF RoundsTypeOK
  <2>3. UpToDate
    BY <2>1 DEF RoundsInit, UpToDate, NoChange
  <2>4. HandoffsAreCounted
    BY DEF RoundsInit, HandoffsAreCounted, Modes
  <2>. QED
    BY <2>1, <2>2, <2>3, <2>4, SilentIsCoherent DEF RoundsInv
<1>. QED
  BY <1>1, RoundsStep, PTL DEF RoundsSpec

\* What a turn said is sent unless it asked for a person (AgentOrchestrator.answer).
\* However turns and colleagues cross, no change of hands goes unreported, and none
\* is reported twice unless somebody changed the mode who had read it before another
\* did (InboxService.set_mode, SentimentService.assess).
THEOREM TurnsAreHonest == RoundsSpec => []TurnsHold
<1>1. RoundsInv => TurnsHold
  <2>1. ASSUME RoundsInv, NEW w \in Answerers, answering[w].stage = "done"
        PROVE  answering[w].sent <=> answering[w].words /\ ~answering[w].handed
    BY <2>1 DEF RoundsInv, Coherent
  <2>. QED
    BY <2>1 DEF RoundsInv, TurnsHold, SaidIsSent
<1>. QED
  BY <1>1, RoundsInvariant, PTL

-----------------------------------------------------------------------------
(* Worker processes                                                        *)

\* How long ago, at most, a process beat for a kind it has missed at most once: in
\* a round that is over or under way.
SinceBeat(p, k) ==
    (IF missed[p][k] = 1 THEN Interval + Late ELSE 0)
    + (IF process[p].todo = {} THEN Late + (Interval - process[p].due)
       ELSE IF k \in process[p].todo THEN Interval + Late + process[p].late
       ELSE process[p].late)

\* The key is as old as the beat, at most.
Beating(p, k) ==
    /\ Up(p) /\ process[p].todo = {} => process[p].due # 0
    /\ Up(p) /\ missed[p][k] <= 1 => key[k] + SinceBeat(p, k) >= Ttl

\* A job begun since the stop was the one the loop was waiting for.
Stopping(p, k) ==
    /\ extra[p][k] <= IF k \in Queued THEN 1 ELSE 0
    /\ k \in Swept => loop[p][k] # "reserve"
    /\ loop[p][k] = "reserve" => extra[p][k] = 0
    /\ Up(p) /\ ~process[p].stop => extra[p][k] = 0

RunnerInv ==
    /\ RunnerTypeOK
    /\ \A p \in Processes, k \in WorkerKinds : Beating(p, k) /\ Stopping(p, k)

Proc == [state : {"down", "up", "hung"}, todo : SUBSET WorkerKinds,
         due : 0..Interval, late : 0..Late, stop : BOOLEAN]

LEMMA RunnerNumbers ==
    /\ Interval \in Nat /\ Interval >= 1 /\ Late \in Nat /\ Ttl \in Nat
    /\ Ttl = 3 * Interval /\ 3 * Late < Interval /\ MaxMisses \in Nat /\ MaxLives \in Nat
BY RunnerAssumption

LEMMA DownIsProc ==
    Down \in Proc /\ Down.state = "down" /\ Down.todo = {} /\ Down.due = 0
    /\ Down.late = 0 /\ Down.stop = FALSE
BY RunnerNumbers DEF Down, Proc

\* What a process that is up knows of its beats.
LEMMA BeatTypes ==
    ASSUME RunnerTypeOK, NEW p \in Processes, NEW k \in WorkerKinds
    PROVE  /\ process[p] \in Proc
           /\ process[p].due \in Nat /\ process[p].due <= Interval
           /\ process[p].late \in Nat /\ process[p].late <= Late
           /\ key[k] \in Nat /\ key[k] <= Ttl
           /\ missed[p][k] \in Nat /\ extra[p][k] \in Nat
           /\ loop[p][k] \in {"reserve", "busy", "pause", "ended"}
BY RunnerNumbers DEF RunnerTypeOK, Proc

\* A process whose beats have not begun, or are over.
LEMMA NewProcess ==
    ASSUME RunnerInv, NEW p \in Processes, NEW new \in Proc,
           process' = [process EXCEPT ![p] = new],
           \/ new.state # "up"
           \/ new.todo = WorkerKinds /\ \A k \in WorkerKinds : ~(missed'[p][k] <= 1),
           \A o \in Processes, k \in WorkerKinds : o # p => missed'[o][k] = missed[o][k],
           key' = key
    PROVE  /\ process' \in [Processes -> Proc]
           /\ process'[p] = new /\ \A o \in Processes : o # p => process'[o] = process[o]
           /\ \A o \in Processes, k \in WorkerKinds : Beating(o, k)'
<1>. USE DEF RunnerInv
<1>1. /\ process' \in [Processes -> Proc]
      /\ \A o \in Processes : process'[o] = IF o = p THEN new ELSE process[o]
  BY DEF RunnerTypeOK, Proc
<1>2. ASSUME NEW o \in Processes, NEW k \in WorkerKinds
      PROVE  Beating(o, k)'
  <2>1. CASE o # p
    BY <1>1, <2>1 DEF Beating, Up, SinceBeat
  <2>2. CASE o = p
    <3>1. CASE new.state # "up"
      BY <1>1, <2>2, <3>1 DEF Beating, Up
    <3>2. CASE new.todo = WorkerKinds /\ \A j \in WorkerKinds : ~(missed'[p][j] <= 1)
      BY <1>1, <2>2, <3>2 DEF Beating, Up
    <3>. QED
      BY <3>1, <3>2
  <2>. QED
    BY <2>1, <2>2
<1>. QED
  BY <1>1, <1>2

LEMMA StartStep ==
    ASSUME RunnerInv, NEW p \in Processes, StartProcess(p)
    PROVE  RunnerInv'
<1>. USE DEF RunnerInv
<1>1. PICK new : new = [Down EXCEPT !.state = "up", !.todo = WorkerKinds]
  OBVIOUS
<1>2. new \in Proc /\ new.state = "up" /\ new.todo = WorkerKinds /\ new.stop = FALSE
  <2>. HIDE DEF RunnerInv
  <2>1. WorkerKinds \in SUBSET WorkerKinds
    OBVIOUS
  <2>. QED
    BY <1>1, <2>1, DownIsProc DEF Proc
<1>3. process' = [process EXCEPT ![p] = new] /\ UNCHANGED <<key, misses>>
  BY <1>1 DEF StartProcess
<1>4. lives' \in 0..MaxLives
  BY RunnerNumbers DEF StartProcess, RunnerTypeOK
<1>5. PICK begun : begun = [k \in WorkerKinds |-> IF k \in Queued THEN "reserve" ELSE "busy"]
  OBVIOUS
<1>6. PICK none : none = [k \in WorkerKinds |-> 0]
  OBVIOUS
<1>7. PICK never : never = [k \in WorkerKinds |-> NotYet]
  OBVIOUS
<1>8. /\ loop' = [loop EXCEPT ![p] = begun] /\ extra' = [extra EXCEPT ![p] = none]
      /\ missed' = [missed EXCEPT ![p] = never]
  BY <1>5, <1>6, <1>7 DEF StartProcess
<1>9. /\ begun \in [WorkerKinds -> {"reserve", "busy", "pause", "ended"}]
      /\ none \in [WorkerKinds -> Nat] /\ never \in [WorkerKinds -> Nat]
      /\ \A k \in WorkerKinds : /\ none[k] = 0 /\ ~(never[k] <= 1)
                                /\ k \in Swept => begun[k] # "reserve"
  BY <1>5, <1>6, <1>7, RunnerNumbers, RunnerAssumption DEF NotYet
<1>10. /\ \A o \in Processes : loop'[o] = IF o = p THEN begun ELSE loop[o]
       /\ \A o \in Processes : extra'[o] = IF o = p THEN none ELSE extra[o]
       /\ \A o \in Processes : missed'[o] = IF o = p THEN never ELSE missed[o]
  BY <1>8 DEF RunnerTypeOK
<1>11. /\ process' \in [Processes -> Proc] /\ process'[p] = new
       /\ \A o \in Processes : o # p => process'[o] = process[o]
       /\ \A o \in Processes, k \in WorkerKinds : Beating(o, k)'
  BY <1>2, <1>3, <1>9, <1>10, NewProcess
<1>12. RunnerTypeOK'
  <2>1. /\ loop' \in [Processes -> [WorkerKinds -> {"reserve", "busy", "pause", "ended"}]]
        /\ extra' \in [Processes -> [WorkerKinds -> Nat]]
        /\ missed' \in [Processes -> [WorkerKinds -> Nat]]
    BY <1>8, <1>9 DEF RunnerTypeOK
  <2>. QED
    BY <1>3, <1>4, <1>11, <2>1 DEF RunnerTypeOK, Proc
<1>13. ASSUME NEW o \in Processes, NEW k \in WorkerKinds
       PROVE  Stopping(o, k)'
  <2>1. CASE o = p
    BY <1>9, <1>10, <2>1 DEF Stopping
  <2>2. CASE o # p
    BY <1>10, <1>11, <2>2 DEF Stopping, Up
  <2>. QED
    BY <2>1, <2>2
<1>. QED
  BY <1>11, <1>12, <1>13

\* It is gone, or can do nothing more, and so are its loops.
LEMMA EndStep ==
    ASSUME RunnerInv, NEW p \in Processes, DieOrHang(p) \/ Exit(p)
    PROVE  RunnerInv'
<1>. USE DEF RunnerInv
<1>1. PICK new \in Proc : new.state # "up" /\ process' = [process EXCEPT ![p] = new]
  <2>1. CASE Exit(p)
    BY <2>1, DownIsProc DEF Exit
  <2>2. CASE DieOrHang(p)
    <3>1. PICK state \in {"down", "hung"} :
            process' = [process EXCEPT ![p] = [Down EXCEPT !.state = state]]
      BY <2>2 DEF DieOrHang
    <3>2. PICK new : new = [Down EXCEPT !.state = state]
      OBVIOUS
    <3>3. new \in Proc /\ new.state # "up"
      <4>. HIDE DEF RunnerInv
      <4>. QED
        BY <3>2, DownIsProc DEF Proc
    <3>4. process' = [process EXCEPT ![p] = new]
      BY <3>1, <3>2
    <3>. QED
      BY <3>3, <3>4
  <2>. QED
    BY <2>1, <2>2
<1>2. UNCHANGED <<key, extra, missed, misses, lives>>
  BY DEF DieOrHang, Exit
<1>3. /\ loop' \in [Processes -> [WorkerKinds -> {"reserve", "busy", "pause", "ended"}]]
      /\ \A o \in Processes, k \in WorkerKinds :
            loop'[o][k] = loop[o][k] \/ loop'[o][k] = "ended"
  <2>1. loop \in [Processes -> [WorkerKinds -> {"reserve", "busy", "pause", "ended"}]]
    BY DEF RunnerTypeOK
  <2>2. CASE Exit(p)
    BY <2>1, <2>2 DEF Exit
  <2>3. CASE DieOrHang(p)
    <3>1. PICK ended : ended = [k \in WorkerKinds |-> "ended"]
      OBVIOUS
    <3>2. loop' = [loop EXCEPT ![p] = ended]
      BY <2>3, <3>1 DEF DieOrHang
    <3>3. /\ ended \in [WorkerKinds -> {"reserve", "busy", "pause", "ended"}]
          /\ \A k \in WorkerKinds : ended[k] = "ended"
      BY <3>1
    <3>. HIDE DEF RunnerInv
    <3>. QED
      BY <2>1, <3>2, <3>3
  <2>. QED
    BY <2>2, <2>3
<1>4. /\ process' \in [Processes -> Proc] /\ process'[p] = new
      /\ \A o \in Processes : o # p => process'[o] = process[o]
      /\ \A o \in Processes, k \in WorkerKinds : Beating(o, k)'
  BY <1>1, <1>2, NewProcess
<1>5. RunnerTypeOK'
  BY <1>2, <1>3, <1>4 DEF RunnerTypeOK, Proc
<1>6. ASSUME NEW o \in Processes, NEW k \in WorkerKinds
      PROVE  Stopping(o, k)'
  BY <1>1, <1>2, <1>3, <1>4 DEF Stopping, Up
<1>. QED
  BY <1>4, <1>5, <1>6

LEMMA StopStep ==
    ASSUME RunnerInv, NEW p \in Processes, RequestStop(p)
    PROVE  RunnerInv'
<1>. USE DEF RunnerInv
<1>1. PICK new : new = [process[p] EXCEPT !.stop = TRUE]
  OBVIOUS
<1>2. process[p] \in Proc
  BY DEF RunnerTypeOK, Proc
<1>3. new \in Proc /\ new.state = process[p].state /\ new.todo = process[p].todo
      /\ new.due = process[p].due /\ new.late = process[p].late /\ new.stop = TRUE
  <2>. HIDE DEF RunnerInv
  <2>. QED
    BY <1>1, <1>2 DEF Proc
<1>4. process' = [process EXCEPT ![p] = new]
  BY <1>1 DEF RequestStop
<1>5. UNCHANGED <<loop, key, extra, missed, misses, lives>>
  BY DEF RequestStop
<1>6. /\ process' \in [Processes -> Proc]
      /\ \A o \in Processes : process'[o] = IF o = p THEN new ELSE process[o]
  BY <1>3, <1>4 DEF RunnerTypeOK, Proc
<1>7. \A o \in Processes : /\ process'[o].state = process[o].state
                           /\ process'[o].todo = process[o].todo
                           /\ process'[o].due = process[o].due
                           /\ process'[o].late = process[o].late
                           /\ process'[o].stop \/ ~process[o].stop
  BY <1>3, <1>6
<1>8. RunnerTypeOK'
  BY <1>5, <1>6 DEF RunnerTypeOK, Proc
<1>9. \A o \in Processes, k \in WorkerKinds : Beating(o, k)'
  BY <1>5, <1>7 DEF Beating, Up, SinceBeat
<1>10. \A o \in Processes, k \in WorkerKinds : Stopping(o, k)'
  BY <1>5, <1>7 DEF Stopping, Up
<1>. QED
  BY <1>8, <1>9, <1>10

\* A loop that waits for a job has not been asked to stop; one that was asked
\* begins the job it was waiting for.
LEMMA LoopStep ==
    ASSUME RunnerInv, NEW p \in Processes, NEW k \in WorkerKinds,
           NEW to \in {"reserve", "busy", "pause", "ended"},
           Up(p), Looping(p, k, to),
           to = "reserve" => k \in Queued /\ ~process[p].stop,
           to = "busy" /\ process[p].stop => loop[p][k] = "reserve"
    PROVE  RunnerInv'
<1>. USE DEF RunnerInv
<1>1. /\ loop' = [loop EXCEPT ![p][k] = to]
      /\ extra' = IF to = "busy" /\ process[p].stop
                  THEN [extra EXCEPT ![p][k] = @ + 1] ELSE extra
      /\ UNCHANGED <<process, key, missed, misses, lives>>
  BY DEF Looping
<1>2. /\ loop' \in [Processes -> [WorkerKinds -> {"reserve", "busy", "pause", "ended"}]]
      /\ \A o \in Processes, j \in WorkerKinds :
            loop'[o][j] = IF o = p /\ j = k THEN to ELSE loop[o][j]
  BY <1>1 DEF RunnerTypeOK
<1>3. /\ extra' \in [Processes -> [WorkerKinds -> Nat]]
      /\ \A o \in Processes, j \in WorkerKinds :
            extra'[o][j] = IF o = p /\ j = k /\ to = "busy" /\ process[p].stop
                           THEN extra[o][j] + 1 ELSE extra[o][j]
  <2>1. extra \in [Processes -> [WorkerKinds -> Nat]]
    BY DEF RunnerTypeOK
  <2>. HIDE DEF RunnerInv
  <2>2. CASE to = "busy" /\ process[p].stop
    BY <1>1, <2>1, <2>2
  <2>3. CASE ~(to = "busy" /\ process[p].stop)
    BY <1>1, <2>1, <2>3
  <2>. QED
    BY <2>2, <2>3
<1>4. RunnerTypeOK'
  BY <1>1, <1>2, <1>3 DEF RunnerTypeOK
<1>5. \A o \in Processes, j \in WorkerKinds : Beating(o, j)'
  BY <1>1 DEF Beating, Up, SinceBeat
<1>6. ASSUME NEW o \in Processes, NEW j \in WorkerKinds
      PROVE  Stopping(o, j)'
  <2>1. CASE ~(o = p /\ j = k)
    BY <1>1, <1>2, <1>3, <2>1 DEF Stopping, Up
  <2>2. CASE o = p /\ j = k /\ to = "busy" /\ process[p].stop
    <3>1. extra[p][k] = 0 /\ k \in Queued
      BY <2>2 DEF Stopping, WorkerKinds
    <3>2. extra'[p][k] = 1 /\ loop'[p][k] = "busy"
      BY <1>2, <1>3, <2>2, <3>1
    <3>. QED
      BY <1>1, <2>2, <3>1, <3>2, RunnerAssumption DEF Stopping, Up
  <2>3. CASE o = p /\ j = k /\ ~(to = "busy" /\ process[p].stop)
    <3>1. extra'[p][k] = extra[p][k] /\ loop'[p][k] = to
      BY <1>2, <1>3, <2>3
    <3>. QED
      BY <1>1, <2>3, <3>1, RunnerAssumption DEF Stopping, Up
  <2>. QED
    BY <2>1, <2>2, <2>3
<1>. QED
  BY <1>4, <1>5, <1>6

LEMMA LoopSteps ==
    ASSUME RunnerInv, NEW p \in Processes, NEW k \in WorkerKinds,
           ReserveJob(p, k) \/ NoJob(p, k) \/ FinishJob(p, k) \/ NextSweep(p, k)
    PROVE  RunnerInv'
<1>1. CASE ReserveJob(p, k)
  BY <1>1, LoopStep DEF ReserveJob
<1>2. /\ Again(p, k) \in {"reserve", "busy", "pause", "ended"}
      /\ Again(p, k) = "reserve" => k \in Queued /\ ~process[p].stop
      /\ Again(p, k) = "busy" => ~process[p].stop
  BY DEF Again
<1>3. CASE NoJob(p, k)
  BY <1>2, <1>3, LoopStep DEF NoJob
<1>4. CASE FinishJob(p, k) /\ k \in Swept
  BY <1>4, LoopStep DEF FinishJob
<1>5. CASE FinishJob(p, k) /\ k \notin Swept
  BY <1>2, <1>5, LoopStep DEF FinishJob
<1>6. CASE NextSweep(p, k)
  BY <1>2, <1>6, LoopStep DEF NextSweep
<1>. QED
  BY <1>1, <1>3, <1>4, <1>5, <1>6

\* A kind is taken off the round, beaten for or missed.
LEMMA BeatenStep ==
    ASSUME RunnerInv, NEW p \in Processes, NEW k \in WorkerKinds,
           Up(p), k \in process[p].todo, Beaten(p, k),
           UNCHANGED <<loop, extra, lives>>, misses' \in 0..MaxMisses,
           key' \in [WorkerKinds -> 0..Ttl],
           missed' \in [Processes -> [WorkerKinds -> Nat]],
           \A j \in WorkerKinds : j # k => key'[j] = key[j],
           \A o \in Processes, j \in WorkerKinds :
                ~(o = p /\ j = k) => missed'[o][j] = missed[o][j],
           \/ key'[k] = Ttl /\ missed'[p][k] = 0
           \/ key'[k] = key[k] /\ (missed'[p][k] <= 1 => missed'[p][k] = 1 /\ missed[p][k] = 0)
    PROVE  RunnerInv'
<1>. USE DEF RunnerInv
<1>1. PICK left \in SUBSET WorkerKinds : left = process[p].todo \ {k}
  BY BeatTypes DEF Proc
<1>2. PICK due \in 0..Interval : due = IF left = {} THEN Interval ELSE process[p].due
  BY BeatTypes, RunnerNumbers
<1>3. PICK new : new = [process[p] EXCEPT !.todo = left, !.due = due]
  OBVIOUS
<1>4. process[p] \in Proc
  BY BeatTypes
<1>5. new \in Proc /\ new.state = process[p].state /\ new.todo = left
      /\ new.due = due /\ new.late = process[p].late /\ new.stop = process[p].stop
  <2>. HIDE DEF RunnerInv
  <2>. QED
    BY <1>3, <1>4 DEF Proc
<1>6. process' = [process EXCEPT ![p] = new]
  BY <1>1, <1>2, <1>3 DEF Beaten, WaitForInterval
<1>7. /\ process' \in [Processes -> Proc]
      /\ \A o \in Processes : process'[o] = IF o = p THEN new ELSE process[o]
  BY <1>5, <1>6 DEF RunnerTypeOK, Proc
<1>8. RunnerTypeOK'
  BY <1>7 DEF RunnerTypeOK, Proc
<1>9. \A o \in Processes, j \in WorkerKinds : Stopping(o, j)'
  BY <1>5, <1>7 DEF Stopping, Up
<1>10. ASSUME NEW o \in Processes, NEW j \in WorkerKinds
       PROVE  Beating(o, j)'
  <2>1. /\ process[o].due \in Nat /\ process[o].due <= Interval
        /\ process[o].late \in Nat /\ process[o].late <= Late
        /\ key[j] \in Nat /\ key[j] <= Ttl /\ missed[o][j] \in Nat
    BY BeatTypes
  <2>2. CASE o # p
    <3>1. /\ process'[o] = process[o] /\ missed'[o][j] = missed[o][j]
          /\ Beating(o, j)
      BY <1>7, <2>2
    <3>2. key'[j] \in Nat /\ key'[j] >= key[j]
      BY <2>1, RunnerNumbers
    <3>3. SinceBeat(o, j)' = SinceBeat(o, j) /\ SinceBeat(o, j) \in Nat
      BY <2>1, <3>1, RunnerNumbers DEF SinceBeat
    <3>. QED
      BY <2>1, <3>1, <3>2, <3>3, RunnerNumbers DEF Beating, Up
  <2>3. CASE o = p
    <3>1. /\ process'[p].todo = left /\ process'[p].due = due
          /\ process'[p].late = process[p].late /\ process[p].todo # {}
          /\ left = {} => due = Interval
      BY <1>2, <1>5, <1>7
    <3>2. left = {} => due # 0
      BY <3>1, RunnerNumbers
    <3>3. CASE j = k /\ key'[k] = Ttl /\ missed'[p][k] = 0
      <4>1. SinceBeat(p, k)' \in Nat
        BY <1>2, <2>1, <2>3, <3>1, <3>3, RunnerNumbers DEF SinceBeat
      <4>. QED
        BY <2>3, <3>1, <3>2, <3>3, <4>1, RunnerNumbers DEF Beating, Up
    <3>4. CASE j = k /\ key'[k] = key[k] /\ ~(missed'[p][k] <= 1)
      BY <2>3, <3>1, <3>2, <3>4 DEF Beating, Up
    <3>5. CASE j = k /\ key'[k] = key[k] /\ missed'[p][k] = 1 /\ missed[p][k] = 0
      <4>1. SinceBeat(p, k) = Interval + Late + process[p].late
        BY <2>1, <2>3, <3>1, <3>5, RunnerNumbers DEF SinceBeat
      <4>2. k \notin left
        BY <1>1
      <4>3. SinceBeat(p, k)' >= Interval + Late + process[p].late
            /\ SinceBeat(p, k)' \in Nat
        BY <1>2, <2>1, <2>3, <3>1, <3>5, <4>2, RunnerNumbers DEF SinceBeat
      <4>4. key[k] + SinceBeat(p, k) >= Ttl
        BY <2>1, <3>5 DEF Beating
      <4>5. key'[k] + SinceBeat(p, k)' >= Ttl
        BY <2>1, <2>3, <3>5, <4>1, <4>3, <4>4, RunnerNumbers
      <4>. QED
        BY <2>3, <3>1, <3>2, <3>5, <4>5 DEF Beating, Up
    <3>6. CASE j # k
      <4>1. key'[j] = key[j] /\ missed'[p][j] = missed[p][j]
            /\ (j \in left <=> j \in process[p].todo)
        BY <1>1, <3>6
      <4>2. /\ SinceBeat(p, j) \in Nat /\ SinceBeat(p, j)' \in Nat
            /\ SinceBeat(p, j)' >= SinceBeat(p, j)
        BY <1>2, <2>1, <2>3, <3>1, <4>1, RunnerNumbers DEF SinceBeat
      <4>3. Up(p)' /\ missed'[p][j] <= 1 => key'[j] + SinceBeat(p, j)' >= Ttl
        BY <2>1, <2>3, <4>1, <4>2, RunnerNumbers DEF Beating
      <4>. QED
        BY <2>3, <3>1, <3>2, <4>3 DEF Beating
    <3>. QED
      BY <3>3, <3>4, <3>5, <3>6
  <2>. QED
    BY <2>2, <2>3
<1>. QED
  BY <1>8, <1>9, <1>10

LEMMA BeatSteps ==
    ASSUME RunnerInv, NEW p \in Processes, NEW k \in WorkerKinds,
           Beat(p, k) \/ MissBeat(p, k)
    PROVE  RunnerInv'
<1>1. RunnerTypeOK /\ missed[p][k] \in Nat
  BY BeatTypes DEF RunnerInv
<1>2. CASE Beat(p, k)
  <2>1. /\ Up(p) /\ k \in process[p].todo /\ Beaten(p, k)
        /\ UNCHANGED <<loop, extra, misses, lives>>
        /\ key' = [key EXCEPT ![k] = Ttl] /\ missed' = [missed EXCEPT ![p][k] = 0]
    BY <1>2 DEF Beat
  <2>2. /\ key' \in [WorkerKinds -> 0..Ttl]
        /\ missed' \in [Processes -> [WorkerKinds -> Nat]]
        /\ key'[k] = Ttl /\ missed'[p][k] = 0
        /\ \A j \in WorkerKinds : j # k => key'[j] = key[j]
        /\ \A o \in Processes, j \in WorkerKinds :
                ~(o = p /\ j = k) => missed'[o][j] = missed[o][j]
    BY <1>1, <2>1, RunnerNumbers DEF RunnerTypeOK
  <2>3. misses' \in 0..MaxMisses
    BY <1>1, <2>1 DEF RunnerTypeOK
  <2>. QED
    BY <2>1, <2>2, <2>3, BeatenStep
<1>3. CASE MissBeat(p, k)
  <2>1. PICK times \in Nat :
            times = IF missed[p][k] = NotYet THEN NotYet ELSE missed[p][k] + 1
    BY <1>1, RunnerNumbers DEF NotYet
  <2>2. /\ Up(p) /\ k \in process[p].todo /\ Beaten(p, k)
        /\ UNCHANGED <<loop, key, extra, lives>>
        /\ missed' = [missed EXCEPT ![p][k] = times]
    BY <1>1, <1>3, <2>1 DEF MissBeat, RunnerTypeOK
  <2>3. misses' \in 0..MaxMisses
    BY <1>1, <1>3, RunnerNumbers DEF MissBeat, RunnerTypeOK
  <2>4. /\ missed' \in [Processes -> [WorkerKinds -> Nat]]
        /\ missed'[p][k] = times
        /\ \A o \in Processes, j \in WorkerKinds :
                ~(o = p /\ j = k) => missed'[o][j] = missed[o][j]
    BY <1>1, <2>2 DEF RunnerTypeOK
  <2>5. times <= 1 => times = 1 /\ missed[p][k] = 0
    BY <1>1, <2>1, RunnerNumbers DEF NotYet
  <2>6. key' \in [WorkerKinds -> 0..Ttl] /\ key' = key
    BY <1>1, <2>2 DEF RunnerTypeOK
  <2>. QED
    BY <2>2, <2>3, <2>4, <2>5, <2>6, BeatenStep
<1>. QED
  BY <1>2, <1>3

LEMMA AgedIs ==
    ASSUME RunnerInv, TimeGoesOn, NEW p \in Processes
    PROVE  /\ Aged(p) \in Proc /\ Aged(p).state = process[p].state
           /\ Aged(p).stop = process[p].stop
           /\ \/ ~Up(p) /\ Aged(p) = process[p]
              \/ /\ process[p].todo # {} /\ Aged(p).todo = process[p].todo
                 /\ Aged(p).due = process[p].due /\ Aged(p).late = process[p].late + 1
              \/ /\ process[p].todo = {} /\ Aged(p).todo = {} /\ process[p].due > 1
                 /\ Aged(p).due = process[p].due - 1 /\ Aged(p).late = process[p].late
              \/ /\ process[p].todo = {} /\ process[p].due <= 1
                 /\ Aged(p).todo = WorkerKinds /\ Aged(p).late = 0
<1>1. PICK old \in Proc : old = process[p]
  BY DEF RunnerInv, RunnerTypeOK, Proc
<1>2. old.due \in 0..Interval /\ old.late \in 0..Late /\ (Up(p) /\ old.todo # {} => old.late < Late)
  BY <1>1 DEF Proc, TimeGoesOn
<1>3. CASE ~Up(p)
  BY <1>1, <1>3 DEF Aged
<1>4. CASE Up(p) /\ old.todo # {}
  <2>1. Aged(p) = [old EXCEPT !.late = @ + 1]
    BY <1>1, <1>4 DEF Aged
  <2>2. PICK new : new = [old EXCEPT !.late = @ + 1]
    OBVIOUS
  <2>3. /\ new \in Proc /\ new.state = old.state /\ new.todo = old.todo /\ new.due = old.due
        /\ new.stop = old.stop /\ new.late = old.late + 1
    BY <1>2, <1>4, <2>2, RunnerNumbers DEF Proc
  <2>4. Aged(p) = new
    BY <2>1, <2>2
  <2>. QED
    BY <1>1, <1>4, <2>3, <2>4
<1>5. CASE Up(p) /\ old.todo = {} /\ old.due > 1
  <2>1. Aged(p) = [old EXCEPT !.due = @ - 1]
    BY <1>1, <1>5 DEF Aged
  <2>2. PICK new : new = [old EXCEPT !.due = @ - 1]
    OBVIOUS
  <2>3. /\ new \in Proc /\ new.state = old.state /\ new.todo = old.todo
        /\ new.due = old.due - 1 /\ new.stop = old.stop /\ new.late = old.late
    BY <1>2, <1>5, <2>2, RunnerNumbers DEF Proc
  <2>4. Aged(p) = new
    BY <2>1, <2>2
  <2>. QED
    BY <1>1, <1>5, <2>3, <2>4
<1>6. CASE Up(p) /\ old.todo = {} /\ ~(old.due > 1)
  <2>1. Aged(p) = [old EXCEPT !.due = 0, !.todo = WorkerKinds, !.late = 0]
    BY <1>1, <1>6 DEF Aged
  <2>2. PICK new : new = [old EXCEPT !.due = 0, !.todo = WorkerKinds, !.late = 0]
    OBVIOUS
  <2>3. /\ new \in Proc /\ new.state = old.state /\ new.todo = WorkerKinds
        /\ new.stop = old.stop /\ new.late = 0
    <3>1. 0 \in 0..Interval /\ 0 \in 0..Late /\ WorkerKinds \in SUBSET WorkerKinds
      BY RunnerNumbers
    <3>. QED
      BY <2>2, <3>1 DEF Proc
  <2>4. Aged(p) = new /\ old.due <= 1
    BY <1>2, <1>6, <2>1, <2>2, RunnerNumbers
  <2>. QED
    BY <1>1, <1>6, <2>3, <2>4
<1>. QED
  BY <1>3, <1>4, <1>5, <1>6

\* The key ages with the beat.
LEMMA TimeStep ==
    ASSUME RunnerInv, TimeGoesOn
    PROVE  RunnerInv'
<1>. USE DEF RunnerInv
<1>1. /\ process' = [p \in Processes |-> Aged(p)]
      /\ key' = [k \in WorkerKinds |-> IF key[k] > 0 THEN key[k] - 1 ELSE 0]
      /\ UNCHANGED <<loop, extra, missed, misses, lives>>
  BY DEF TimeGoesOn
<1>2. process' \in [Processes -> Proc] /\ \A p \in Processes : process'[p] = Aged(p)
  BY <1>1, AgedIs
<1>3. /\ key' \in [WorkerKinds -> 0..Ttl]
      /\ \A k \in WorkerKinds : key'[k] \in Nat /\ key'[k] >= key[k] - 1
  BY <1>1, RunnerNumbers DEF RunnerTypeOK
<1>4. RunnerTypeOK'
  BY <1>1, <1>2, <1>3 DEF RunnerTypeOK, Proc
<1>5. \A p \in Processes, k \in WorkerKinds : Stopping(p, k)'
  BY <1>1, <1>2, AgedIs DEF Stopping, Up
<1>6. ASSUME NEW p \in Processes, NEW k \in WorkerKinds
      PROVE  Beating(p, k)'
  <2>1. /\ process[p].due \in Nat /\ process[p].due <= Interval
        /\ process[p].late \in Nat /\ process[p].late <= Late
        /\ key[k] \in Nat /\ key[k] <= Ttl /\ missed[p][k] \in Nat
    BY BeatTypes
  <2>2. missed'[p][k] = missed[p][k] /\ process'[p].state = process[p].state /\ Beating(p, k)
    BY <1>1, <1>2, AgedIs
  <2>3. SinceBeat(p, k) \in Nat
    BY <2>1, RunnerNumbers DEF SinceBeat
  <2>4. CASE ~Up(p)
    BY <2>2, <2>4 DEF Beating, Up
  <2>5. CASE process[p].todo # {} /\ process'[p].todo = process[p].todo
             /\ process'[p].due = process[p].due /\ process'[p].late = process[p].late + 1
    <3>1. SinceBeat(p, k)' = SinceBeat(p, k) + 1
      BY <2>1, <2>2, <2>5, RunnerNumbers DEF SinceBeat
    <3>. QED
      BY <1>3, <2>1, <2>2, <2>3, <2>5, <3>1, RunnerNumbers DEF Beating, Up
  <2>6. CASE process[p].todo = {} /\ process'[p].todo = {} /\ process[p].due > 1
             /\ process'[p].due = process[p].due - 1
    <3>1. SinceBeat(p, k)' = SinceBeat(p, k) + 1 /\ process'[p].due # 0
      BY <2>1, <2>2, <2>6, RunnerNumbers DEF SinceBeat
    <3>. QED
      BY <1>3, <2>1, <2>2, <2>3, <2>6, <3>1, RunnerNumbers DEF Beating, Up
  <2>7. CASE Up(p) /\ process[p].todo = {} /\ process[p].due <= 1
             /\ process'[p].todo = WorkerKinds /\ process'[p].late = 0
    <3>1. process[p].due = 1
      BY <2>1, <2>2, <2>7 DEF Beating
    <3>2. SinceBeat(p, k)' = SinceBeat(p, k) + 1
      BY <2>1, <2>2, <2>7, <3>1, RunnerNumbers DEF SinceBeat
    <3>. QED
      BY <1>3, <2>1, <2>2, <2>3, <2>7, <3>2, RunnerNumbers DEF Beating, Up
  <2>. QED
    BY <1>2, <2>4, <2>5, <2>6, <2>7, AgedIs
<1>. QED
  BY <1>4, <1>5, <1>6

LEMMA RunnerInvariant == RunnerSpec => []RunnerInv
<1>1. RunnerInit => RunnerInv
  <2>. SUFFICES ASSUME RunnerInit PROVE RunnerInv
    OBVIOUS
  <2>1. \A p \in Processes : process[p] = Down /\ ~Up(p)
    BY DownIsProc DEF RunnerInit, Up
  <2>2. RunnerTypeOK
    BY DownIsProc, RunnerNumbers DEF RunnerInit, RunnerTypeOK, Proc, NotYet
  <2>3. \A p \in Processes, k \in WorkerKinds : Beating(p, k) /\ Stopping(p, k)
    BY <2>1 DEF RunnerInit, Beating, Stopping
  <2>. QED
    BY <2>2, <2>3 DEF RunnerInv
<1>2. RunnerInv /\ [RunnerNext]_runnerVars => RunnerInv'
  <2>1. ASSUME RunnerInv, UNCHANGED runnerVars
        PROVE  RunnerInv'
    BY <2>1 DEF runnerVars, RunnerInv, RunnerTypeOK, Beating, Stopping, Up, SinceBeat
  <2>2. ASSUME RunnerInv, NEW p \in Processes,
               StartProcess(p) \/ DieOrHang(p) \/ RequestStop(p) \/ Exit(p)
        PROVE  RunnerInv'
    BY <2>2, StartStep, EndStep, StopStep
  <2>3. ASSUME RunnerInv, NEW p \in Processes, NEW k \in WorkerKinds,
               \/ ReserveJob(p, k) \/ NoJob(p, k) \/ FinishJob(p, k)
               \/ NextSweep(p, k) \/ Beat(p, k) \/ MissBeat(p, k)
        PROVE  RunnerInv'
    BY <2>3, LoopSteps, BeatSteps
  <2>. QED
    BY <2>1, <2>2, <2>3, TimeStep DEF RunnerNext
<1>. QED
  BY <1>1, <1>2, PTL DEF RunnerSpec

\* For any interval, and any lateness below a third of it, one missed beat is not a
\* death; and a loop that is asked to stop begins at most the job it was waiting for
\* (Heartbeat.beat, run_forever).
THEOREM WorkersSound == RunnerSpec => []WorkersAreSound
<1>1. ASSUME RunnerInv, NEW p \in Processes, NEW k \in WorkerKinds
      PROVE  /\ Up(p) /\ missed[p][k] <= 1 => key[k] > 0
             /\ extra[p][k] <= IF k \in Queued THEN 1 ELSE 0
  <2>1. /\ process[p].due \in Nat /\ process[p].due <= Interval
        /\ process[p].late \in Nat /\ process[p].late <= Late
        /\ key[k] \in Nat /\ missed[p][k] \in Nat
    BY <1>1, BeatTypes DEF RunnerInv
  <2>2. ASSUME Up(p), missed[p][k] <= 1
        PROVE  key[k] > 0
    <3>1. key[k] + SinceBeat(p, k) >= Ttl /\ (process[p].todo = {} => process[p].due # 0)
      BY <1>1, <2>2 DEF RunnerInv, Beating
    <3>2. SinceBeat(p, k) \in Nat /\ SinceBeat(p, k) < Ttl
      BY <2>1, <3>1, RunnerNumbers DEF SinceBeat
    <3>. QED
      BY <2>1, <3>1, <3>2, RunnerNumbers
  <2>. QED
    BY <1>1, <2>2 DEF RunnerInv, Stopping
<1>2. RunnerInv => WorkersAreSound
  BY <1>1 DEF WorkersAreSound
<1>. QED
  BY <1>2, RunnerInvariant, PTL

-----------------------------------------------------------------------------
(* The office                                                              *)

\* The parts share nothing, so a behaviour of the office is one of each.
LEMMA OfficeIsItsParts ==
    OfficeSpec => /\ DeliverySpec /\ KnowledgeSpec /\ LeadsSpec /\ AgentsSpec
                  /\ RoundsSpec /\ EntitlementsSpec /\ SessionsSpec
                  /\ InvitationsSpec /\ RateLimitSpec /\ TemplatesSpec
                  /\ RunnerSpec
<1>1. OfficeInit => /\ DeliveryInit /\ KnowledgeInit /\ LeadsInit /\ AgentsInit
                    /\ RoundsInit /\ EntitlementsInit /\ SessionsInit
                    /\ InvitationsInit /\ RateLimitInit /\ TemplatesInit
                    /\ RunnerInit
  BY DEF OfficeInit
<1>2. [OfficeNext]_officeVars =>
        /\ [DeliveryNext]_deliveryVars /\ [KnowledgeNext]_knowledgeVars
        /\ [LeadsNext]_leadsVars /\ [AgentsNext]_agentsVars
        /\ [RoundsNext]_roundsVars /\ [EntitlementsNext]_planVars
        /\ [SessionsNext]_sessionVars /\ [InvitationsNext]_inviteVars
        /\ [RateLimitNext]_rateVars /\ [TemplatesNext]_templateVars
        /\ [RunnerNext]_runnerVars
  BY DEF OfficeNext, officeVars
<1>. QED
  BY <1>1, <1>2, PTL
     DEF OfficeSpec, DeliverySpec, KnowledgeSpec, LeadsSpec, AgentsSpec,
         RoundsSpec, EntitlementsSpec, SessionsSpec, InvitationsSpec,
         RateLimitSpec, TemplatesSpec, RunnerSpec

\* Every variable of every part has its type.
THEOREM OfficeTypesCorrect == OfficeSpec => []OfficeTypeOK
<1>1. /\ KnowledgeInv => KnowledgeTypeOK
      /\ LeadsInv => LeadsTypeOK
      /\ AgentsInv => AgentsTypeOK
      /\ RoundsInv => RoundsTypeOK
      /\ SessionsInv => SessionsTypeOK
      /\ InvitationsInv => InvitationsTypeOK
      /\ RateLimitInv => RateLimitTypeOK
      /\ TemplatesInv => TemplatesTypeOK
      /\ RunnerInv => RunnerTypeOK
  BY DEF KnowledgeInv, LeadsInv, AgentsInv, RoundsInv, SessionsInv,
         InvitationsInv, RateLimitInv, TemplatesInv, RunnerInv
<1>2. /\ DeliveryTypeOK /\ KnowledgeTypeOK /\ LeadsTypeOK /\ AgentsTypeOK
      /\ RoundsTypeOK /\ AllowancesTypeOK /\ SlotsTypeOK /\ SessionsTypeOK
      /\ InvitationsTypeOK /\ RateLimitTypeOK /\ TemplatesTypeOK /\ RunnerTypeOK
      => OfficeTypeOK
  BY DEF OfficeTypeOK
<1>. QED
  BY <1>1, <1>2, OfficeIsItsParts, DeliveryTypesCorrect, PlanTypesCorrect,
     KnowledgeInvariant, LeadsInvariant, AgentsInvariant, RoundsInvariant,
     SessionsInvariant, InvitationsInvariant, RateLimitInvariant,
     TemplatesInvariant, RunnerInvariant, PTL

\* A workspace has one default agent unless two administrators promoted one at
\* once, and the registry says of a template what Meta said last
\* (AgentService.promote, TemplateService.sync).
THEOREM SettingsAreOne == OfficeSpec => []SettingsHold
<1>1. SingleDefault /\ RegistryIsLatest => SettingsHold
  BY DEF SettingsHold
<1>. QED
  BY <1>1, OfficeIsItsParts, DefaultIsSingle, RegistryIsTrue, PTL

\* However requests cross, a token that is spent buys no other, and whoever is in
\* came by an invitation to them that stood (AuthService.refresh,
\* InvitationService.accept).
THEOREM AccessIsKept == OfficeSpec => []AccessHolds
<1>1. SpentStaysSpent /\ DoorIsKept => AccessHolds
  BY DEF AccessHolds
<1>. QED
  BY <1>1, OfficeIsItsParts, SpentIsSpent, DoorStaysKept, PTL
=============================================================================
