---------------------------- MODULE TurnsProofs -----------------------------
(***************************************************************************)
(* Theorems about Turns, for every set of messages, agent workers and      *)
(* media workers, every number of deliveries and faults, and every kind of *)
(* fault.                                                                  *)
(***************************************************************************)
EXTENDS Turns, FiniteSetTheorems, TLAPS

(***************************************************************************)
(* Counting workers                                                        *)
(***************************************************************************)

LEMMA AgentsCounted ==
    ASSUME NEW some \in SUBSET Agents
    PROVE  /\ IsFiniteSet(some)
           /\ Cardinality(some) \in Nat
           /\ Cardinality(some) <= Cardinality(Agents)
           /\ Cardinality(Agents) \in Nat
BY FS_Subset, FS_CardinalityType, TurnsAssumption

LEMMA OneMore ==
    ASSUME NEW some \in SUBSET Agents, NEW a \in Agents, a \notin some
    PROVE  Cardinality(some \cup {a}) = Cardinality(some) + 1
BY AgentsCounted, FS_AddElement

LEMMA OneLess ==
    ASSUME NEW some \in SUBSET Agents, NEW a \in some
    PROVE  Cardinality(some \ {a}) = Cardinality(some) - 1
BY AgentsCounted, FS_RemoveElement

(***************************************************************************)
(* What the helpers return                                                 *)
(***************************************************************************)

LEMMA StatesType ==
    /\ Idle \in TurnState
    /\ Done \in TurnState
    /\ NotReading \in ReaderState
BY DEF Idle, Done, NotReading, TurnState, ReaderState, TurnStage, ReaderStage, Mood,
       Keep, Resolved

LEMMA RaisedType ==
    ASSUME NEW current \in {Keep} \cup 0..MaxRank, NEW implied \in 0..MaxRank
    PROVE  RaisedPriority(current, implied) \in {Keep} \cup 0..MaxRank
BY DEF RaisedPriority

(***************************************************************************)
(* Types, and what the counters and the newest message rest on: a delivery *)
(* in progress is not owed an answer yet; every agent at a job holds one   *)
(* that is in flight.                                                      *)
(***************************************************************************)

OwedBound ==
    /\ owed <= delivered
    /\ hook.stage # "idle" => owed < delivered

LatestKnown == stored # {} => latest \in Messages

Counted == Cardinality(AtWork) <= agentJobs.inflight

TypeInv == TypeOK /\ OwedBound /\ LatestKnown /\ Counted

LEMMA InitTypeInv == Init => TypeInv
<1>. SUFFICES ASSUME Init PROVE TypeInv
  OBVIOUS
<1>1. AtWork = {}
  BY DEF Init, AtWork, Idle
<1>2. Cardinality(AtWork) = 0
  BY <1>1, FS_EmptySet
<1>3. turn \in [Agents -> TurnState] /\ reader \in [Readers -> ReaderState]
  BY StatesType DEF Init
<1>4. overruled \in 0..(Cardinality(Agents) + 1)
  BY AgentsCounted DEF Init
<1>5. TypeOK
  BY <1>3, <1>4, TurnsAssumption
     DEF Init, TypeOK, FileRow, Mood, Answerer, NoDelivery, MediaList, Messages
<1>. QED
  BY <1>2, <1>5 DEF TypeInv, OwedBound, LatestKnown, Counted, Init, NoDelivery

LEMMA HookType ==
    TypeInv => /\ hook.stage \in {"idle", "flushed", "queued"}
               /\ hook.fresh \in SUBSET Messages
               /\ owed \in Int /\ delivered \in Int
BY TurnsAssumption DEF TypeInv, TypeOK

LEMMA TypeWebhook == TypeInv /\ Webhook => TypeInv'
<1>. SUFFICES ASSUME TypeInv, Webhook PROVE TypeInv'
  OBVIOUS
<1>. USE TurnsAssumption DEF TypeInv, OwedBound, LatestKnown, Counted
<1>1. ASSUME NEW payload \in SUBSET Messages, Ingest(payload) PROVE TypeInv'
  <2>1. hook.stage = "idle" /\ delivered < MaxDeliveries
    BY <1>1 DEF Ingest, RowFree
  <2>2. TypeOK'
    BY <1>1, <2>1 DEF Ingest, TypeOK, rows, queues, workers, history
  <2>3. AtWork' = AtWork
    BY <1>1 DEF Ingest, workers, AtWork
  <2>. QED
    BY <1>1, <2>1, <2>2, <2>3, HookType DEF Ingest, rows, queues, history
<1>2. ASSUME NEW messages \in SUBSET Messages, Queue(messages), missed' \subseteq Messages,
             mishaps' \in 0..MaxMishaps
      PROVE  TypeInv'
  <2>1. agentJobs' \in [pending : Nat, inflight : Nat, failed : Nat]
        /\ agentJobs'.inflight = agentJobs.inflight
    BY <1>2 DEF Queue, TypeOK
  <2>2. mediaJobs' \in [MediaJob -> MediaList]
    BY <1>2 DEF Queue, TypeOK, MediaList
  <2>3. TypeOK'
    BY <1>2, <2>1, <2>2 DEF Queue, TypeOK, rows, workers
  <2>4. AtWork' = AtWork
    BY <1>2 DEF Queue, workers, AtWork
  <2>5. hook'.stage = "queued" /\ hook.stage = "flushed" /\ owed' = owed
        /\ delivered' = delivered
    BY <1>2 DEF Queue, TypeOK
  <2>. QED
    BY <1>2, <2>1, <2>3, <2>4, <2>5 DEF Queue, rows
<1>3. CASE Enqueue
  BY <1>2, <1>3, HookType DEF Enqueue, TypeOK
<1>4. CASE EnqueueLost
  <2>1. PICK kept \in SUBSET hook.fresh :
           /\ Queue(kept)
           /\ Mishap("redis")
           /\ missed' = missed \cup (hook.fresh \ kept)
    BY <1>4 DEF EnqueueLost
  <2>2. mishaps' \in 0..MaxMishaps /\ missed' \subseteq Messages
    BY <2>1, HookType DEF Mishap, TypeOK
  <2>. QED
    BY <1>2, <2>1, <2>2, HookType
<1>5. CASE CommitDelivery
  <2>1. file' \in [Files -> FileRow]
    BY <1>5 DEF CommitDelivery, TypeOK, FileRow
  <2>2. owed' \in -1..MaxDeliveries /\ owed' <= delivered /\ delivered' = delivered
    BY <1>5, HookType DEF CommitDelivery, TypeOK, bounds
  <2>3. NoDelivery \in [stage : {"idle", "flushed", "queued"}, fresh : SUBSET Messages]
        /\ NoDelivery.stage = "idle"
    BY DEF NoDelivery
  <2>4. TypeOK'
    BY <1>5, <2>1, <2>2, <2>3 DEF CommitDelivery, TypeOK, queues, workers, bounds
  <2>5. AtWork' = AtWork
    BY <1>5 DEF CommitDelivery, workers, AtWork
  <2>. QED
    BY <1>5, <2>2, <2>3, <2>4, <2>5, HookType DEF CommitDelivery, queues
<1>6. CASE RollBack
  <2>1. NoDelivery \in [stage : {"idle", "flushed", "queued"}, fresh : SUBSET Messages]
        /\ NoDelivery.stage = "idle"
    BY DEF NoDelivery
  <2>2. TypeOK'
    BY <1>6, <2>1 DEF RollBack, Mishap, TypeOK, rows, queues, workers
  <2>3. AtWork' = AtWork
    BY <1>6 DEF RollBack, workers, AtWork
  <2>. QED
    BY <1>6, <2>1, <2>2, <2>3 DEF RollBack, Mishap, rows, queues
<1>. QED
  BY <1>1, <1>3, <1>4, <1>5, <1>6 DEF Webhook

(* The agent workers.  One worker's step moves it in or out of AtWork. *)

Working(t) == t.stage \notin {"idle", "failing"}

LEMMA OneTurn ==
    ASSUME TypeOK, NEW a \in Agents, NEW new \in TurnState,
           turn' = [turn EXCEPT ![a] = new]
    PROVE  /\ turn' \in [Agents -> TurnState]
           /\ Cardinality(AtWork) \in Nat
           /\ Working(new) /\ Working(turn[a]) => AtWork' = AtWork
           /\ Working(new) /\ ~Working(turn[a]) =>
                Cardinality(AtWork') = Cardinality(AtWork) + 1
           /\ ~Working(new) /\ Working(turn[a]) =>
                Cardinality(AtWork') = Cardinality(AtWork) - 1
           /\ ~Working(new) /\ ~Working(turn[a]) => AtWork' = AtWork
<1>1. turn \in [Agents -> TurnState]
  BY DEF TypeOK
<1>2. turn' \in [Agents -> TurnState]
  BY <1>1
<1>3. AtWork \in SUBSET Agents
  BY DEF AtWork
<1>4. a \in AtWork <=> Working(turn[a])
  BY DEF AtWork, Working
<1>5. AtWork' = IF Working(new) THEN AtWork \cup {a} ELSE AtWork \ {a}
  BY <1>1, <1>2 DEF AtWork, Working
<1>6. Cardinality(AtWork) \in Nat
  BY <1>3, AgentsCounted
<1>7. Working(new) /\ ~Working(turn[a]) => Cardinality(AtWork') = Cardinality(AtWork) + 1
  BY <1>3, <1>4, <1>5, OneMore
<1>8. ~Working(new) /\ Working(turn[a]) => Cardinality(AtWork') = Cardinality(AtWork) - 1
  BY <1>3, <1>4, <1>5, OneLess
<1>9. Working(new) = Working(turn[a]) => AtWork' = AtWork
  BY <1>4, <1>5 DEF Working
<1>. QED
  BY <1>2, <1>6, <1>7, <1>8, <1>9 DEF Working

\* A step of a turn that leaves the worker at work.
LEMMA TypeUnderway ==
    ASSUME TypeInv, NEW a \in Agents, NEW new \in TurnState,
           Working(turn[a]), Working(new), turn' = [turn EXCEPT ![a] = new],
           UNCHANGED <<stored, latest, file, answerer, hook, queues, reader, bounds, owed>>,
           conv' \in [mode : {"ai", "human"}, rank : 0..MaxRank],
           reading' \in [Messages -> Mood],
           lock' \in Agents \cup Readers \cup {None},
           heard' \subseteq Messages,
           missed' \subseteq Messages,
           overruled' \in 0..(Cardinality(Agents) + 1)
    PROVE  TypeInv'
<1>1. TypeOK
  BY DEF TypeInv
<1>2. turn' \in [Agents -> TurnState] /\ AtWork' = AtWork
  BY <1>1, OneTurn
<1>3. TypeOK'
  BY <1>1, <1>2 DEF TypeOK, queues, bounds
<1>. QED
  BY <1>2, <1>3 DEF TypeInv, OwedBound, LatestKnown, Counted, queues, bounds

\* A step that ends a turn, one way or another.
LEMMA TypeEnd ==
    ASSUME TypeInv, NEW a \in Agents, NEW new \in TurnState,
           ~Working(new), turn' = [turn EXCEPT ![a] = new],
           UNCHANGED <<rows, answerer, hook, mediaJobs, reader, heard, owed,
                       overruled, delivered>>,
           mishaps' \in 0..MaxMishaps,
           agentJobs' \in [pending : Nat, inflight : Int, failed : Nat],
           agentJobs'.inflight >= agentJobs.inflight - 1,
           ~Working(turn[a]) => agentJobs'.inflight >= agentJobs.inflight,
           lock' \in Agents \cup Readers \cup {None},
           missed' \subseteq Messages
    PROVE  TypeInv'
<1>1. TypeOK /\ Cardinality(AtWork) <= agentJobs.inflight /\ agentJobs.inflight \in Nat
  BY DEF TypeInv, TypeOK, Counted
<1>2. turn' \in [Agents -> TurnState]
  BY <1>1, OneTurn
<1>3. AtWork' \in SUBSET Agents /\ Cardinality(AtWork) \in Nat
  BY <1>1, AgentsCounted DEF AtWork
<1>4. Cardinality(AtWork') \in Nat
  BY <1>3, AgentsCounted
<1>5. Cardinality(AtWork') = IF Working(turn[a]) THEN Cardinality(AtWork) - 1
                             ELSE Cardinality(AtWork)
  BY <1>1, OneTurn
<1>6. agentJobs'.inflight \in Int /\ Cardinality(AtWork') <= agentJobs'.inflight
  BY <1>1, <1>3, <1>5
<1>7. agentJobs' \in [pending : Nat, inflight : Nat, failed : Nat]
  BY <1>4, <1>6
<1>8. TypeOK'
  BY <1>1, <1>2, <1>7 DEF TypeOK, rows
<1>. QED
  BY <1>6, <1>8 DEF TypeInv, OwedBound, LatestKnown, Counted, rows

LEMMA TypeRaise ==
    ASSUME TypeInv, NEW a \in Agents, Raise(a), Working(turn[a]),
           mishaps' \in 0..MaxMishaps, UNCHANGED delivered
    PROVE  TypeInv'
<1>. DEFINE new == [Idle EXCEPT !.stage = "failing"]
<1>1. agentJobs \in [pending : Nat, inflight : Nat, failed : Nat]
      /\ lock \in Agents \cup Readers \cup {None} /\ missed \subseteq Messages
  BY DEF TypeInv, TypeOK
<1>2. new \in TurnState /\ ~Working(new)
  BY StatesType DEF Idle, TurnState, TurnStage, Working
<1>3. agentJobs' \in [pending : Nat, inflight : Int, failed : Nat]
      /\ agentJobs'.inflight >= agentJobs.inflight - 1
      /\ lock' \in Agents \cup Readers \cup {None}
  BY <1>1 DEF Raise
<1>. QED
  BY <1>1, <1>2, <1>3, TypeEnd DEF Raise, rows, history

LEMMA TypeTurn == ASSUME NEW a \in Agents, TypeInv, AgentStep(a) PROVE TypeInv'
<1>. DEFINE t == turn[a]
<1>1. /\ turn \in [Agents -> TurnState] /\ t \in TurnState
      /\ stored \subseteq Messages /\ heard \subseteq Messages /\ missed \subseteq Messages
      /\ hook.fresh \subseteq Messages
      /\ conv \in [mode : {"ai", "human"}, rank : 0..MaxRank]
      /\ reading \in [Messages -> Mood]
      /\ lock \in Agents \cup Readers \cup {None}
      /\ overruled \in 0..(Cardinality(Agents) + 1)
      /\ agentJobs \in [pending : Nat, inflight : Nat, failed : Nat]
      /\ mishaps \in 0..MaxMishaps
      /\ stored # {} => latest \in Messages
  BY DEF TypeInv, TypeOK, LatestKnown
<1>2. CASE Take(a)
  <2>. DEFINE new == [t EXCEPT !.stage = "begin"]
  <2>1. new \in TurnState /\ Working(new) /\ ~Working(t)
        /\ turn' = [turn EXCEPT ![a] = new]
    BY <1>1, <1>2 DEF Take, Goes, Working, TurnState, TurnStage
  <2>2. agentJobs' \in [pending : Nat, inflight : Nat, failed : Nat]
        /\ agentJobs'.inflight = agentJobs.inflight + 1
    <3>1. agentJobs.pending - 1 \in Nat /\ agentJobs.inflight + 1 \in Nat
      BY <1>1, <1>2 DEF Take
    <3>. QED
      BY <1>1, <1>2, <3>1 DEF Take
  <2>3. turn' \in [Agents -> TurnState]
        /\ Cardinality(AtWork') = Cardinality(AtWork) + 1
        /\ Cardinality(AtWork) \in Nat
    BY <2>1, OneTurn DEF TypeInv
  <2>4. TypeOK'
    BY <1>1, <1>2, <2>2, <2>3 DEF Take, TypeInv, TypeOK, rows, bounds
  <2>. QED
    BY <1>1, <1>2, <2>2, <2>3, <2>4
       DEF Take, TypeInv, OwedBound, LatestKnown, Counted, rows, bounds
<1>3. CASE StaySilent(a)
  <2>1. Working(t) /\ Working(Done)
    BY <1>3 DEF StaySilent, Working, Done, Idle
  <2>. QED
    BY <1>1, <1>3, <2>1, StatesType, TypeUnderway
       DEF StaySilent, Ends, rows
<1>4. CASE BeginTurn(a)
  <2>. DEFINE new == CASE reading[latest] = "none" ->
                            [Idle EXCEPT !.stage = "mood", !.about = latest,
                                         !.rank = conv.rank]
                       [] reading[latest] = "calm" -> [Idle EXCEPT !.stage = "read"]
                       [] reading[latest] = "angry" -> Done
  <2>1. latest \in Messages /\ reading[latest] \in {"none", "calm", "angry"}
    BY <1>1, <1>4 DEF BeginTurn, Mood
  <2>2. new \in TurnState /\ Working(new)
    <3>1. CASE reading[latest] = "none"
      <4>1. new = [Idle EXCEPT !.stage = "mood", !.about = latest, !.rank = conv.rank]
        BY <3>1
      <4>. HIDE DEF new
      <4>. QED
        BY <1>1, <2>1, <4>1, StatesType DEF Idle, TurnState, TurnStage, Working
    <3>2. CASE reading[latest] = "calm"
      <4>1. new = [Idle EXCEPT !.stage = "read"]
        BY <3>2
      <4>. HIDE DEF new
      <4>. QED
        BY <4>1, StatesType DEF Idle, TurnState, TurnStage, Working
    <3>3. CASE reading[latest] = "angry"
      <4>1. new = Done
        BY <3>3
      <4>. HIDE DEF new
      <4>. QED
        BY <4>1, StatesType DEF Done, Idle, Working
    <3>. QED
      BY <2>1, <3>1, <3>2, <3>3
  <2>3. turn' = [turn EXCEPT ![a] = new] /\ heard' \subseteq Messages /\ Working(t)
    BY <1>1, <1>4 DEF BeginTurn, Working
  <2>. HIDE DEF new
  <2>. QED
    BY <1>1, <1>4, <2>2, <2>3, TypeUnderway DEF BeginTurn, rows
<1>5. CASE NoReading(a)
  <2>1. [Idle EXCEPT !.stage = "read"] \in TurnState /\ Working([Idle EXCEPT !.stage = "read"])
        /\ Working(t)
    BY <1>5, StatesType DEF NoReading, Working, Idle, TurnState, TurnStage
  <2>. QED
    BY <1>1, <1>5, <2>1, TypeUnderway DEF NoReading, rows, history
<1>6. CASE Read(a)
  <2>1. PICK mood \in {"calm", "angry"}, implied \in 0..MaxRank :
          turn' = [turn EXCEPT
                    ![a].stage = IF mood = "angry" THEN "leave" ELSE "read",
                    ![a].mood = mood,
                    ![a].inserts = reading[turn[a].about] = "none",
                    ![a].rank = RaisedPriority(turn[a].rank, implied),
                    ![a].handoff = mood = "angry",
                    ![a].saw = IF mood = "angry" THEN stored ELSE {}]
    BY <1>6 DEF Read
  <2>. DEFINE new == [t EXCEPT !.stage = IF mood = "angry" THEN "leave" ELSE "read",
                               !.mood = mood,
                               !.inserts = reading[turn[a].about] = "none",
                               !.rank = RaisedPriority(turn[a].rank, implied),
                               !.handoff = mood = "angry",
                               !.saw = IF mood = "angry" THEN stored ELSE {}]
  <2>2. turn' = [turn EXCEPT ![a] = new]
    BY <1>1, <2>1
  <2>3. t.rank \in {Keep} \cup 0..MaxRank
    BY <1>1 DEF TurnState
  <2>4. RaisedPriority(turn[a].rank, implied) \in {Keep} \cup 0..MaxRank
    BY <2>3, RaisedType
  <2>5. new \in TurnState /\ Working(new) /\ Working(t)
    BY <1>1, <1>6, <2>4, ZenonT(60) DEF Read, Working, TurnState, TurnStage, Mood
  <2>. HIDE DEF new
  <2>. QED
    BY <1>1, <1>6, <2>2, <2>5, TypeUnderway DEF Read, rows, history
<1>7. CASE ReadHistory(a)
  <2>. DEFINE new == [t EXCEPT !.stage = "compose", !.saw = stored]
  <2>1. new \in TurnState /\ Working(new) /\ Working(t)
        /\ turn' = [turn EXCEPT ![a] = new]
    BY <1>1, <1>7 DEF ReadHistory, Working, TurnState, TurnStage
  <2>. QED
    BY <1>1, <1>7, <2>1, TypeUnderway DEF ReadHistory, rows, history
<1>8. CASE SayNothing(a)
  <2>1. PICK asked \in BOOLEAN :
          turn' = [turn EXCEPT ![a].stage = "leave", ![a].handoff = asked]
    BY <1>8 DEF SayNothing
  <2>. DEFINE new == [t EXCEPT !.stage = "leave", !.handoff = asked]
  <2>2. new \in TurnState /\ Working(new) /\ Working(t)
        /\ turn' = [turn EXCEPT ![a] = new]
    BY <1>1, <1>8, <2>1 DEF SayNothing, Working, TurnState, TurnStage
  <2>. QED
    BY <1>1, <1>8, <2>2, TypeUnderway DEF SayNothing, rows, history
<1>9. CASE Stage(a)
  <2>. DEFINE new == [t EXCEPT !.stage = "send"]
  <2>1. new \in TurnState /\ Working(new) /\ Working(t)
        /\ turn' = [turn EXCEPT ![a] = new]
    BY <1>1, <1>9 DEF Stage, Goes, Working, TurnState, TurnStage
  <2>2. lock' \in Agents \cup Readers \cup {None}
    BY <1>1, <1>9 DEF Stage
  <2>. QED
    BY <1>1, <1>9, <2>1, <2>2, TypeUnderway DEF Stage, rows, history
<1>10. CASE Send(a)
  <2>. DEFINE new == [t EXCEPT !.stage = "leave", !.sent = TRUE]
  <2>1. new \in TurnState /\ Working(new) /\ Working(t)
        /\ turn' = [turn EXCEPT ![a] = new]
    BY <1>1, <1>10 DEF Send, Working, TurnState, TurnStage
  <2>2. overruled' \in 0..(Cardinality(Agents) + 1)
    BY <1>1, <1>10, AgentsCounted DEF Send
  <2>. QED
    BY <1>1, <1>10, <2>1, <2>2, TypeUnderway DEF Send, rows
<1>11. CASE Leave(a)
  <2>1. Working(t) /\ Working(Done)
    BY <1>11 DEF Leave, Working, Done, Idle
  <2>2. conv' \in [mode : {"ai", "human"}, rank : 0..MaxRank]
    BY <1>1, <1>11 DEF Leave, TurnState
  <2>3. reading' \in [Messages -> Mood]
    BY <1>1, <1>11 DEF Leave, TurnState
  <2>4. heard' \subseteq Messages /\ lock' \in Agents \cup Readers \cup {None}
    BY <1>1, <1>11 DEF Leave, TurnState
  <2>5. turn' = [turn EXCEPT ![a] = Done]
    BY <1>11 DEF Leave, Ends
  <2>. QED
    BY <1>1, <1>11, <2>1, <2>2, <2>3, <2>4, <2>5, StatesType, TypeUnderway DEF Leave
<1>12. CASE Release(a)
  <2>1. ~Working(Idle) /\ Working(t)
    BY <1>12 DEF Release, Working, Idle
  <2>2. agentJobs' \in [pending : Nat, inflight : Int, failed : Nat]
        /\ agentJobs'.inflight >= agentJobs.inflight - 1
    BY <1>1, <1>12 DEF Release
  <2>. QED
    BY <1>1, <1>12, <2>1, <2>2, StatesType, TypeEnd DEF Release, rows, bounds, history
<1>13. CASE CannotAnswer(a)
  BY <1>13, TypeRaise DEF CannotAnswer, TypeInv, TypeOK, bounds, Working
<1>14. CASE DeadLetter(a)
  <2>1. ~Working(Idle) /\ ~Working(t)
    BY <1>14 DEF DeadLetter, Working, Idle
  <2>2. agentJobs' \in [pending : Nat, inflight : Int, failed : Nat]
        /\ agentJobs'.inflight >= agentJobs.inflight
        /\ agentJobs'.inflight >= agentJobs.inflight - 1
    BY <1>1, <1>14 DEF DeadLetter
  <2>. QED
    BY <1>1, <1>14, <2>1, <2>2, StatesType, TypeEnd DEF DeadLetter, rows, bounds, history
<1>. QED
  BY <1>2, <1>3, <1>4, <1>5, <1>6, <1>7, <1>8, <1>9, <1>10, <1>11, <1>12, <1>13, <1>14
     DEF AgentStep

LEMMA TypeTurnFault ==
    ASSUME NEW a \in Agents, TypeInv, TurnFails(a) \/ AgentDies(a)
    PROVE  TypeInv'
<1>1. CASE TurnFails(a)
  <2>1. mishaps' \in 0..MaxMishaps /\ UNCHANGED delivered /\ Working(turn[a])
    BY <1>1, TurnsAssumption DEF TurnFails, Mishap, TypeInv, TypeOK, Working
  <2>. QED
    BY <1>1, <2>1, TypeRaise DEF TurnFails
<1>2. CASE AgentDies(a)
  <2>1. ~Working(Idle)
    BY DEF Working, Idle
  <2>2. agentJobs' \in [pending : Nat, inflight : Int, failed : Nat]
        /\ agentJobs'.inflight >= agentJobs.inflight - 1
        /\ agentJobs'.inflight >= agentJobs.inflight
    BY <1>2 DEF AgentDies, queues, TypeInv, TypeOK
  <2>3. lock' \in Agents \cup Readers \cup {None} /\ missed' \subseteq Messages
        /\ mishaps' \in 0..MaxMishaps /\ UNCHANGED delivered
    BY <1>2, TurnsAssumption DEF AgentDies, Mishap, TypeInv, TypeOK
  <2>. QED
    BY <1>2, <2>1, <2>2, <2>3, StatesType, TypeEnd DEF AgentDies, rows, queues
<1>. QED
  BY <1>1, <1>2

(* A media worker that is not idle holds a job. *)

ReaderInv ==
    /\ reader \in [Readers -> ReaderState]
    /\ \A r \in Readers : reader[r].stage # "idle" => reader[r].job \in MediaJob

LEMMA InitReaderInv == Init => ReaderInv
BY StatesType DEF Init, ReaderInv, NotReading

LEMMA NextReaderInv == ReaderInv /\ [Next]_vars => ReaderInv'
<1>. SUFFICES ASSUME ReaderInv, [Next]_vars PROVE ReaderInv'
  OBVIOUS
<1>. DEFINE Sound(w) == w \in ReaderState /\ (w.stage # "idle" => w.job \in MediaJob)
<1>1. ASSUME NEW r \in Readers, NEW new, Sound(new), reader' = [reader EXCEPT ![r] = new]
      PROVE  ReaderInv'
  BY <1>1 DEF ReaderInv
<1>2. CASE UNCHANGED reader
  BY <1>2 DEF ReaderInv
<1>3. ASSUME NEW r \in Readers, NEW stage \in ReaderStage, reader[r].stage # "idle",
             Reads(r, stage)
      PROVE  ReaderInv'
  <2>1. Sound([reader[r] EXCEPT !.stage = stage])
    BY <1>3 DEF ReaderInv, ReaderState
  <2>2. reader' = [reader EXCEPT ![r] = [reader[r] EXCEPT !.stage = stage]]
    BY <1>3 DEF Reads, ReaderInv
  <2>. QED
    BY <1>1, <2>1, <2>2
<1>4. ASSUME NEW r \in Readers, ReaderStep(r) \/ AskLost(r) \/ ReadFails(r) \/ ReaderDies(r)
      PROVE  ReaderInv'
  <2>1. ASSUME NEW j \in MediaJob, TakeFile(r, j) PROVE ReaderInv'
    <3>1. Sound([NotReading EXCEPT !.stage = "open", !.job = j])
      BY StatesType DEF NotReading, ReaderState, ReaderStage
    <3>. QED
      BY <1>1, <2>1, <3>1 DEF TakeFile
  <2>2. CASE RowMissing(r) \/ OpenFile(r) \/ ReadFails(r)
    BY <1>3, <2>2 DEF RowMissing, OpenFile, ReadFails, ReaderStage
  <2>3. ASSUME Process(r) PROVE ReaderInv'
    <3>1. PICK result \in Resolved :
            reader' = [reader EXCEPT ![r].stage = "commit", ![r].result = result]
      BY <2>3 DEF Process, Outcomes, Resolved
    <3>2. Sound([reader[r] EXCEPT !.stage = "commit", !.result = result])
      BY <2>3, <3>1 DEF Process, ReaderInv, ReaderState, ReaderStage
    <3>3. reader' = [reader EXCEPT ![r] =
                       [reader[r] EXCEPT !.stage = "commit", !.result = result]]
      BY <3>1 DEF ReaderInv
    <3>. QED
      BY <1>1, <3>2, <3>3
  <2>4. CASE CommitFile(r)
    <3>1. Sound([reader[r] EXCEPT !.stage = "done", !.result = "absent"])
      BY <2>4 DEF CommitFile, ReaderInv, ReaderState, ReaderStage
    <3>2. reader' = [reader EXCEPT ![r] =
                       [reader[r] EXCEPT !.stage = "done", !.result = "absent"]]
      BY <2>4 DEF CommitFile, ReaderInv
    <3>. QED
      BY <1>1, <3>1, <3>2
  <2>5. CASE ReleaseFile(r) \/ DeadLetterFile(r) \/ ReaderDies(r)
    <3>1. Sound(NotReading)
      BY StatesType DEF NotReading
    <3>. QED
      BY <1>1, <2>5, <3>1 DEF ReleaseFile, DeadLetterFile, ReaderDies
  <2>. QED
    BY <1>4, <2>1, <2>2, <2>3, <2>4, <2>5 DEF ReaderStep, KeepWaiting, AskTurn, AskLost
<1>5. CASE Webhook
  BY <1>2, <1>5
     DEF Webhook, Ingest, Enqueue, EnqueueLost, Queue, CommitDelivery, RollBack, workers
<1>6. ASSUME NEW a \in Agents, AgentStep(a) \/ TurnFails(a) \/ AgentDies(a)
      PROVE  ReaderInv'
  BY <1>2, <1>6
     DEF AgentStep, Take, StaySilent, BeginTurn, NoReading, Read, ReadHistory,
         SayNothing, Stage, Send, Leave, Release, CannotAnswer, Raise, DeadLetter,
         TurnFails, AgentDies
<1>7. CASE People
  BY <1>2, <1>7 DEF People, SetMode, SetPriority, ChangeAnswerer, Requeue, workers
<1>8. CASE UNCHANGED vars
  BY <1>2, <1>8 DEF vars
<1>. QED
  BY <1>4, <1>5, <1>6, <1>7, <1>8 DEF Next

(* The media workers, and people: the turns underway do not change. *)

LEMMA TypeBesides ==
    ASSUME TypeInv, TypeOK', UNCHANGED <<stored, latest, turn, delivered, hook>>,
           owed' <= owed, agentJobs'.inflight = agentJobs.inflight
    PROVE  TypeInv'
<1>1. AtWork' = AtWork
  BY DEF AtWork
<1>2. owed \in Int /\ owed' \in Int /\ delivered \in Int
  BY TurnsAssumption DEF TypeInv, TypeOK
<1>. QED
  BY <1>1, <1>2 DEF TypeInv, OwedBound, LatestKnown, Counted

LEMMA TypeReader ==
    ASSUME NEW r \in Readers, TypeInv, ReaderInv,
           ReaderStep(r) \/ AskLost(r) \/ ReadFails(r) \/ ReaderDies(r)
    PROVE  TypeInv'
<1>. DEFINE w == reader[r]
<1>1. /\ TypeOK
      /\ reader \in [Readers -> ReaderState] /\ w \in ReaderState
      /\ mediaJobs \in [MediaJob -> MediaList]
      /\ file \in [Files -> FileRow]
      /\ agentJobs \in [pending : Nat, inflight : Nat, failed : Nat]
      /\ lock \in Agents \cup Readers \cup {None}
      /\ hook.fresh \subseteq Messages /\ stored \subseteq Messages
      /\ owed \in Int /\ owed \in -1..MaxDeliveries /\ missed \subseteq Messages
  BY TurnsAssumption DEF TypeInv, TypeOK
<1>2. ASSUME NEW stage \in ReaderStage
      PROVE  [w EXCEPT !.stage = stage] \in ReaderState
  BY <1>1 DEF ReaderState
<1>3. ASSUME NEW list \in MediaList
      PROVE  [mediaJobs EXCEPT ![Holds(r)] = list] \in [MediaJob -> MediaList]
  BY <1>1
<1>4. ASSUME NEW stage \in ReaderStage, Reads(r, stage)
      PROVE  reader' \in [Readers -> ReaderState]
  BY <1>1, <1>2, <1>4 DEF Reads
<1>5. ASSUME NEW j \in MediaJob, TakeFile(r, j) PROVE TypeInv'
  <2>1. [NotReading EXCEPT !.stage = "open", !.job = j] \in ReaderState
    BY StatesType DEF NotReading, ReaderState, ReaderStage
  <2>2. reader' \in [Readers -> ReaderState] /\ mediaJobs' \in [MediaJob -> MediaList]
    BY <1>1, <1>5, <2>1 DEF TakeFile, MediaList
  <2>3. TypeOK'
    BY <1>1, <1>5, <2>2 DEF TakeFile, TypeOK, rows, bounds, history
  <2>. QED
    BY <1>1, <1>5, <2>3, TypeBesides DEF TakeFile, rows, bounds, history
<1>6. CASE RowMissing(r)
  <2>1. reader' \in [Readers -> ReaderState]
    BY <1>4, <1>6 DEF RowMissing, ReaderStage
  <2>2. missed' \subseteq Messages
    <3>1. Holds(r)[1] \in Messages
      BY <1>6 DEF RowMissing, ReaderInv, Holds, MediaJob, Messages
    <3>. QED
      BY <1>1, <1>6, <3>1 DEF RowMissing
  <2>3. TypeOK'
    BY <1>1, <1>6, <2>1, <2>2 DEF RowMissing, TypeOK, rows, queues, bounds
  <2>. QED
    BY <1>1, <1>6, <2>3, TypeBesides DEF RowMissing, rows, queues, bounds
<1>7. CASE OpenFile(r)
  <2>1. reader' \in [Readers -> ReaderState]
    BY <1>4, <1>7 DEF OpenFile, ReaderStage
  <2>2. TypeOK'
    BY <1>1, <1>7, <2>1 DEF OpenFile, TypeOK, rows, queues, bounds, history
  <2>. QED
    BY <1>1, <1>7, <2>2, TypeBesides DEF OpenFile, rows, queues, bounds, history
<1>8. ASSUME Process(r)
      PROVE  reader' \in [Readers -> ReaderState]
  <2>1. PICK result \in Outcomes(r) :
          reader' = [reader EXCEPT ![r].stage = "commit", ![r].result = result]
    BY <1>8 DEF Process
  <2>2. result \in Resolved
    BY <2>1 DEF Outcomes, Resolved
  <2>3. [w EXCEPT !.stage = "commit", !.result = result] \in ReaderState
    BY <1>1, <2>2 DEF ReaderState, ReaderStage
  <2>. QED
    BY <1>1, <2>1, <2>3
<1>9. CASE KeepWaiting(r)
  <2>1. TypeOK'
    BY <1>1, <1>8, <1>9 DEF KeepWaiting, Process, TypeOK, rows
  <2>. QED
    BY <1>1, <1>9, <2>1, TypeBesides DEF KeepWaiting, Process, rows
<1>10. CASE AskTurn(r)
  <2>1. agentJobs' \in [pending : Nat, inflight : Nat, failed : Nat]
        /\ agentJobs'.inflight = agentJobs.inflight
    BY <1>1, <1>10 DEF AskTurn
  <2>2. owed' \in -1..MaxDeliveries /\ owed' <= owed
    BY <1>1, <1>10, TurnsAssumption DEF AskTurn
  <2>3. TypeOK'
    BY <1>1, <1>8, <1>10, <2>1, <2>2 DEF AskTurn, Process, TypeOK, rows
  <2>. QED
    BY <1>10, <2>1, <2>2, <2>3, TypeBesides DEF AskTurn, Process, rows
<1>11. CASE AskLost(r)
  <2>1. mishaps' \in 0..MaxMishaps /\ missed' \subseteq Messages
    BY <1>1, <1>11, TurnsAssumption DEF AskLost, Mishap, TypeOK
  <2>2. TypeOK'
    BY <1>1, <1>8, <1>11, <2>1 DEF AskLost, Process, TypeOK, rows
  <2>. QED
    <3>1. /\ UNCHANGED <<stored, latest, turn, delivered, hook>>
          /\ owed' = owed /\ agentJobs' = agentJobs
      BY <1>11 DEF AskLost, Process, rows
    <3>. QED
      BY <1>1, <2>2, <3>1, TypeBesides
<1>12. CASE CommitFile(r)
  <2>1. [w EXCEPT !.stage = "done", !.result = "absent"] \in ReaderState
    BY <1>1 DEF ReaderState, ReaderStage
  <2>2. reader' \in [Readers -> ReaderState]
    BY <1>1, <1>12, <2>1 DEF CommitFile
  <2>3. w.result \in Resolved \cup {"absent"}
    BY <1>1 DEF ReaderState
  <2>4. file' \in [Files -> FileRow]
    BY <1>1, <1>12, <2>3 DEF CommitFile, FileRow
  <2>5. TypeOK'
    BY <1>1, <1>12, <2>2, <2>4 DEF CommitFile, TypeOK, queues, bounds, history
  <2>. QED
    BY <1>1, <1>12, <2>5, TypeBesides DEF CommitFile, queues, bounds, history
<1>13. CASE ReleaseFile(r)
  <2>1. reader' \in [Readers -> ReaderState] /\ mediaJobs' \in [MediaJob -> MediaList]
    BY <1>1, <1>13, StatesType DEF ReleaseFile, Lists, MediaList
  <2>2. TypeOK'
    BY <1>1, <1>13, <2>1 DEF ReleaseFile, TypeOK, rows, bounds, history
  <2>. QED
    BY <1>1, <1>13, <2>2, TypeBesides DEF ReleaseFile, rows, bounds, history
<1>14. CASE DeadLetterFile(r)
  <2>1. reader' \in [Readers -> ReaderState] /\ mediaJobs' \in [MediaJob -> MediaList]
    BY <1>1, <1>14, StatesType DEF DeadLetterFile, Lists, MediaList
  <2>2. TypeOK'
    BY <1>1, <1>14, <2>1 DEF DeadLetterFile, TypeOK, rows, bounds, history
  <2>. QED
    BY <1>1, <1>14, <2>2, TypeBesides DEF DeadLetterFile, rows, bounds, history
<1>15. CASE ReadFails(r)
  <2>1. mediaJobs' \in [MediaJob -> MediaList]
    BY <1>1, <1>15 DEF ReadFails, Lists, MediaList
  <2>2. reader' \in [Readers -> ReaderState]
    BY <1>4, <1>15 DEF ReadFails, ReaderStage
  <2>3. mishaps' \in 0..MaxMishaps /\ UNCHANGED delivered
    BY <1>1, <1>15, TurnsAssumption DEF ReadFails, Mishap, TypeOK
  <2>4. TypeOK'
    BY <1>1, <1>15, <2>1, <2>2, <2>3 DEF ReadFails, TypeOK, rows, history
  <2>. QED
    BY <1>1, <1>15, <2>3, <2>4, TypeBesides DEF ReadFails, rows, history
<1>16. CASE ReaderDies(r)
  <2>1. reader' \in [Readers -> ReaderState]
    BY <1>1, <1>16, StatesType DEF ReaderDies
  <2>2. mishaps' \in 0..MaxMishaps /\ UNCHANGED delivered
    BY <1>1, <1>16, TurnsAssumption DEF ReaderDies, Mishap, TypeOK
  <2>3. TypeOK'
    BY <1>1, <1>16, <2>1, <2>2 DEF ReaderDies, TypeOK, rows, queues, history
  <2>. QED
    BY <1>1, <1>16, <2>2, <2>3, TypeBesides DEF ReaderDies, rows, queues, history
<1>. QED
  BY <1>5, <1>6, <1>7, <1>9, <1>10, <1>11, <1>12, <1>13, <1>14, <1>15, <1>16
     DEF ReaderStep

LEMMA TypePeople == TypeInv /\ People => TypeInv'
<1>. SUFFICES ASSUME TypeInv, People PROVE TypeInv'
  OBVIOUS
<1>1. /\ TypeOK
      /\ agentJobs \in [pending : Nat, inflight : Nat, failed : Nat]
      /\ conv \in [mode : {"ai", "human"}, rank : 0..MaxRank]
      /\ mediaJobs \in [MediaJob -> MediaList]
      /\ owed \in Int
  BY TurnsAssumption DEF TypeInv, TypeOK
<1>2. ASSUME NEW mode \in {"ai", "human"}, SetMode(mode) PROVE TypeInv'
  <2>1. conv' \in [mode : {"ai", "human"}, rank : 0..MaxRank]
        /\ overruled' \in 0..(Cardinality(Agents) + 1)
    BY <1>1, <1>2, AgentsCounted DEF SetMode
  <2>2. TypeOK'
    BY <1>1, <1>2, <2>1 DEF SetMode, TypeOK, queues, workers, bounds
  <2>. QED
    BY <1>1, <1>2, <2>2, TypeBesides DEF SetMode, queues, workers, bounds
<1>3. ASSUME NEW rank \in 0..MaxRank, SetPriority(rank) PROVE TypeInv'
  <2>1. conv' \in [mode : {"ai", "human"}, rank : 0..MaxRank]
    BY <1>1, <1>3 DEF SetPriority
  <2>2. TypeOK'
    BY <1>1, <1>3, <2>1 DEF SetPriority, TypeOK, queues, workers, bounds, history
  <2>. QED
    BY <1>1, <1>3, <2>2, TypeBesides DEF SetPriority, queues, workers, bounds, history
<1>4. CASE ChangeAnswerer
  <2>1. TypeOK'
    BY <1>1, <1>4 DEF ChangeAnswerer, TypeOK, rows, queues, workers, bounds, history
  <2>. QED
    BY <1>1, <1>4, <2>1, TypeBesides
       DEF ChangeAnswerer, rows, queues, workers, bounds, history
<1>5. CASE Requeue
  <2>1. /\ UNCHANGED <<rows, answerer, hook, lock, workers, bounds, history>>
        /\ AtWork' = AtWork
    BY <1>5 DEF Requeue, AtWork, workers
  <2>2. Cardinality(AtWork) \in Nat /\ Cardinality(AtWork) <= agentJobs.inflight
    BY AgentsCounted DEF AtWork, TypeInv, Counted
  <2>3. /\ agentJobs' \in [pending : Nat, inflight : Nat, failed : Nat]
        /\ mediaJobs' \in [MediaJob -> MediaList]
        /\ Cardinality(AtWork) <= agentJobs'.inflight
    <3>1. CASE /\ Stranded
               /\ agentJobs' = [agentJobs EXCEPT !.inflight = agentJobs.inflight - 1,
                                                 !.pending = agentJobs.pending + 1]
               /\ UNCHANGED mediaJobs
      <4>1. agentJobs.inflight - 1 \in Nat /\ agentJobs.pending + 1 \in Nat
            /\ Cardinality(AtWork) <= agentJobs.inflight - 1
        BY <1>1, <2>2, <3>1 DEF Stranded
      <4>. QED
        BY <1>1, <3>1, <4>1
    <3>2. CASE /\ agentJobs.failed > 0
               /\ agentJobs' = [agentJobs EXCEPT !.failed = agentJobs.failed - 1,
                                                 !.pending = agentJobs.pending + 1]
               /\ UNCHANGED mediaJobs
      <4>1. agentJobs.failed - 1 \in Nat /\ agentJobs.pending + 1 \in Nat
        BY <1>1, <3>2
      <4>. QED
        BY <1>1, <2>2, <3>2, <4>1
    <3>3. CASE /\ \E j \in MediaJob :
                    /\ mediaJobs[j] = "failed" \/ StrandedFile(j)
                    /\ mediaJobs' = [mediaJobs EXCEPT ![j] = "pending"]
               /\ UNCHANGED agentJobs
      BY <1>1, <2>2, <3>3 DEF MediaList
    <3>. QED
      BY <1>5, <3>1, <3>2, <3>3 DEF Requeue
  <2>4. TypeOK'
    BY <1>1, <2>1, <2>3 DEF TypeOK, rows, workers, bounds, history
  <2>. QED
    BY <2>1, <2>3, <2>4
       DEF TypeInv, OwedBound, LatestKnown, Counted, rows, bounds, history
<1>. QED
  BY <1>2, <1>3, <1>4, <1>5 DEF People

LEMMA NextTypeInv == TypeInv /\ ReaderInv /\ [Next]_vars => TypeInv'
<1>. SUFFICES ASSUME TypeInv, ReaderInv, [Next]_vars PROVE TypeInv'
  OBVIOUS
<1>1. CASE UNCHANGED vars
  <2>1. AtWork' = AtWork
    BY <1>1 DEF vars, AtWork
  <2>. QED
    BY <1>1, <2>1 DEF vars, TypeInv, TypeOK, OwedBound, LatestKnown, Counted
<1>2. CASE Next
  BY <1>2, TypeWebhook, TypeTurn, TypeTurnFault, TypeReader, TypePeople DEF Next
<1>. QED
  BY <1>1, <1>2

\* Every variable of Turns keeps its type, whatever fails.
THEOREM TurnsTypeCorrect == Spec => []TypeOK
<1>1. Spec => [](TypeInv /\ ReaderInv)
  BY InitTypeInv, NextTypeInv, InitReaderInv, NextReaderInv, PTL DEF Spec
<1>2. TypeInv => TypeOK
  BY DEF TypeInv
<1>. QED
  BY <1>1, <1>2, PTL

(***************************************************************************)
(* JudgedOnce.  A turn that is about to insert a reading has checked the   *)
(* message when it took the lock of the conversation row, or checks it     *)
(* when it commits; nobody else commits a reading while it has the lock.   *)
(***************************************************************************)

JudgeInv ==
    \A a \in Agents : turn[a].inserts =>
        /\ turn[a].mood # "none"
        /\ lock = a => reading[turn[a].about] = "none"

LEMMA InitJudgeInv == Init => JudgeInv
BY DEF Init, JudgeInv, Idle

LEMMA JudgeTurn ==
    ASSUME TypeInv, JudgeInv, NEW a \in Agents, AgentStep(a) \/ TurnFails(a) \/ AgentDies(a)
    PROVE  JudgeInv'
<1>1. /\ turn \in [Agents -> TurnState] /\ turn[a] \in TurnState
      /\ stored # {} => reading[latest] \in Mood
      /\ None \notin Agents
  BY TurnsAssumption DEF TypeInv, LatestKnown, TypeOK
<1>2. ASSUME NEW new, turn' = [turn EXCEPT ![a] = new], ~new.inserts,
             \A b \in Agents \ {a} : lock' = b => lock = b, UNCHANGED reading
      PROVE  JudgeInv'
  BY <1>1, <1>2 DEF JudgeInv
<1>3. ASSUME NEW new, turn' = [turn EXCEPT ![a] = new], UNCHANGED <<lock, reading>>,
             new.inserts => turn[a].inserts,
             new.about = turn[a].about, new.mood = turn[a].mood
      PROVE  JudgeInv'
  BY <1>1, <1>3 DEF JudgeInv
<1>4. CASE Take(a)
  <2>1. turn' = [turn EXCEPT ![a] = [turn[a] EXCEPT !.stage = "begin"]]
    BY <1>1, <1>4 DEF Take, Goes
  <2>. QED
    BY <1>1, <1>3, <1>4, <2>1 DEF Take, rows, TurnState
<1>5. CASE StaySilent(a) \/ NoReading(a) \/ Release(a) \/ DeadLetter(a) \/ AgentDies(a)
  <2>1. /\ \/ turn' = [turn EXCEPT ![a] = Done]
           \/ turn' = [turn EXCEPT ![a] = [Idle EXCEPT !.stage = "read"]]
           \/ turn' = [turn EXCEPT ![a] = Idle]
        /\ \A b \in Agents \ {a} : lock' = b => lock = b
        /\ UNCHANGED reading
    BY <1>1, <1>5
       DEF StaySilent, Ends, NoReading, Release, DeadLetter, AgentDies, rows
  <2>. QED
    BY <1>2, <2>1 DEF Done, Idle
<1>6. CASE CannotAnswer(a) \/ TurnFails(a)
  <2>1. /\ turn' = [turn EXCEPT ![a] = [Idle EXCEPT !.stage = "failing"]]
        /\ \A b \in Agents \ {a} : lock' = b => lock = b
        /\ UNCHANGED reading
    BY <1>1, <1>6 DEF CannotAnswer, TurnFails, Raise, rows
  <2>2. ~[Idle EXCEPT !.stage = "failing"].inserts
    BY DEF Idle
  <2>. QED
    BY <1>2, <2>1, <2>2
<1>7. CASE BeginTurn(a)
  <2>. DEFINE new == CASE reading[latest] = "none" ->
                            [Idle EXCEPT !.stage = "mood", !.about = latest,
                                         !.rank = conv.rank]
                       [] reading[latest] = "calm" -> [Idle EXCEPT !.stage = "read"]
                       [] reading[latest] = "angry" -> Done
  <2>1. turn' = [turn EXCEPT ![a] = new] /\ UNCHANGED <<lock, reading>>
    BY <1>7 DEF BeginTurn, rows
  <2>2. reading[latest] \in {"none", "calm", "angry"} => ~new.inserts
    BY DEF Idle, Done
  <2>3. reading[latest] \in {"none", "calm", "angry"}
    BY <1>1, <1>7 DEF BeginTurn, Mood
  <2>. HIDE DEF new
  <2>. QED
    BY <1>2, <2>1, <2>2, <2>3
<1>8. CASE Read(a)
  <2>1. PICK mood \in {"calm", "angry"}, implied \in 0..MaxRank :
          turn' = [turn EXCEPT
                    ![a].stage = IF mood = "angry" THEN "leave" ELSE "read",
                    ![a].mood = mood,
                    ![a].inserts = reading[turn[a].about] = "none",
                    ![a].rank = RaisedPriority(turn[a].rank, implied),
                    ![a].handoff = mood = "angry",
                    ![a].saw = IF mood = "angry" THEN stored ELSE {}]
    BY <1>8 DEF Read
  <2>2. /\ turn'[a].mood # "none" /\ turn'[a].about = turn[a].about
        /\ turn'[a].inserts = (reading[turn[a].about] = "none")
        /\ \A b \in Agents \ {a} : turn'[b] = turn[b]
    BY <1>1, <2>1 DEF TurnState
  <2>. QED
    BY <1>8, <2>2, ZenonT(60) DEF Read, JudgeInv, rows
<1>9. CASE ReadHistory(a)
  <2>1. turn' = [turn EXCEPT ![a] = [turn[a] EXCEPT !.stage = "compose", !.saw = stored]]
    BY <1>1, <1>9 DEF ReadHistory
  <2>. QED
    BY <1>1, <1>3, <1>9, <2>1 DEF ReadHistory, rows, TurnState
<1>10. CASE SayNothing(a)
  <2>1. PICK asked \in BOOLEAN :
          turn' = [turn EXCEPT ![a].stage = "leave", ![a].handoff = asked]
    BY <1>10 DEF SayNothing
  <2>2. turn' = [turn EXCEPT ![a] = [turn[a] EXCEPT !.stage = "leave", !.handoff = asked]]
    BY <1>1, <2>1
  <2>. QED
    BY <1>1, <1>3, <1>10, <2>2 DEF SayNothing, rows, TurnState
<1>11. CASE Stage(a)
  <2>1. /\ turn'[a].mood = turn[a].mood /\ turn'[a].about = turn[a].about
        /\ turn'[a].inserts = turn[a].inserts
        /\ \A b \in Agents \ {a} : turn'[b] = turn[b]
        /\ \A b \in Agents \ {a} : lock' = b => lock = b
        /\ UNCHANGED reading
        /\ turn[a].inserts => reading[turn[a].about] = "none"
    BY <1>1, <1>11 DEF Stage, Goes, Rejudged, rows, TurnState
  <2>. QED
    BY <2>1 DEF JudgeInv
<1>12. CASE Send(a)
  <2>1. turn' = [turn EXCEPT ![a] = [turn[a] EXCEPT !.stage = "leave", !.sent = TRUE]]
    BY <1>1, <1>12 DEF Send
  <2>. QED
    BY <1>1, <1>3, <1>12, <2>1 DEF Send, rows, TurnState
<1>13. CASE Leave(a)
  <2>1. turn' = [turn EXCEPT ![a] = Done] /\ ~Done.inserts
    BY <1>13 DEF Leave, Ends, Done, Idle
  <2>2. \A b \in Agents \ {a} : lock' = b => lock = b /\ lock # None
    BY <1>1, <1>13 DEF Leave
  <2>3. CASE turn[a].inserts
    <3>1. lock = a \/ lock = None
      BY <1>13, <2>3 DEF Leave, JudgeInv, RowFree
    <3>2. \A b \in Agents : b # a => lock' # b
      BY <2>2, <3>1
    <3>. QED
      BY <1>1, <2>1, <3>2 DEF JudgeInv
  <2>4. CASE ~turn[a].inserts
    <3>1. UNCHANGED reading
      BY <1>13, <2>4 DEF Leave
    <3>. QED
      BY <1>2, <2>1, <2>2, <3>1
  <2>. QED
    BY <2>3, <2>4
<1>. QED
  BY <1>4, <1>5, <1>6, <1>7, <1>8, <1>9, <1>10, <1>11, <1>12, <1>13 DEF AgentStep

LEMMA NextJudgeInv == TypeInv /\ JudgeInv /\ [Next]_vars => JudgeInv'
<1>. SUFFICES ASSUME TypeInv, JudgeInv, [Next]_vars PROVE JudgeInv'
  OBVIOUS
<1>1. ASSUME UNCHANGED <<turn, reading>>, \A a \in Agents : lock' = a => lock = a
      PROVE  JudgeInv'
  BY <1>1 DEF JudgeInv
<1>2. CASE Webhook
  BY <1>1, <1>2
     DEF Webhook, Ingest, Enqueue, EnqueueLost, Queue, CommitDelivery, RollBack, workers,
         rows
<1>3. ASSUME NEW r \in Readers, ReaderStep(r) \/ AskLost(r) \/ ReadFails(r) \/ ReaderDies(r)
      PROVE  JudgeInv'
  <2>1. r \notin Agents /\ None \notin Agents
    BY TurnsAssumption
  <2>. QED
    BY <1>1, <1>3, <2>1
       DEF ReaderStep, TakeFile, RowMissing, OpenFile, KeepWaiting, AskTurn, CommitFile,
           ReleaseFile, DeadLetterFile, Process, AskLost, ReadFails, ReaderDies, rows
<1>4. CASE People
  BY <1>1, <1>4 DEF People, SetMode, SetPriority, ChangeAnswerer, Requeue, workers, rows
<1>5. CASE UNCHANGED vars
  BY <1>1, <1>5 DEF vars
<1>. QED
  BY <1>2, <1>3, <1>4, <1>5, JudgeTurn DEF Next, TypeInv

LEMMA StepJudgedOnce ==
    ASSUME TypeInv, JudgeInv, [Next]_vars
    PROVE  \A m \in Messages : reading[m] # "none" => reading'[m] = reading[m]
<1>1. ASSUME NEW a \in Agents, Leave(a)
      PROVE  \A m \in Messages : reading[m] # "none" => reading'[m] = reading[m]
  <2>1. turn[a].inserts => reading[turn[a].about] = "none"
    BY <1>1 DEF Leave, Rejudged, JudgeInv
  <2>2. reading \in [Messages -> Mood]
    BY DEF TypeInv, TypeOK
  <2>. QED
    BY <1>1, <2>1, <2>2 DEF Leave
<1>2. ASSUME NEW a \in Agents, AgentStep(a) \/ TurnFails(a) \/ AgentDies(a), ~Leave(a)
      PROVE  UNCHANGED reading
  BY <1>2
     DEF AgentStep, Take, StaySilent, BeginTurn, NoReading, Read, ReadHistory,
         SayNothing, Stage, Send, Release, CannotAnswer, Raise, DeadLetter, TurnFails,
         AgentDies, rows
<1>3. ASSUME NEW r \in Readers, ReaderStep(r) \/ AskLost(r) \/ ReadFails(r) \/ ReaderDies(r)
      PROVE  UNCHANGED reading
  BY <1>3
     DEF ReaderStep, TakeFile, RowMissing, OpenFile, KeepWaiting, AskTurn, CommitFile,
         ReleaseFile, DeadLetterFile, Process, AskLost, ReadFails, ReaderDies, rows
<1>4. CASE Webhook
  BY <1>4
     DEF Webhook, Ingest, Enqueue, EnqueueLost, Queue, CommitDelivery, RollBack, rows
<1>5. CASE People
  BY <1>5 DEF People, SetMode, SetPriority, ChangeAnswerer, Requeue, rows
<1>6. CASE UNCHANGED vars
  BY <1>6 DEF vars
<1>. QED
  BY <1>1, <1>2, <1>3, <1>4, <1>5, <1>6 DEF Next

\* What was concluded about a message is never concluded again, whatever number
\* of workers judge it at once and whatever fails.
THEOREM NeverRejudged == Spec => JudgedOnce
<1>1. Spec => [](TypeInv /\ ReaderInv /\ JudgeInv)
  BY InitTypeInv, NextTypeInv, InitReaderInv, NextReaderInv, InitJudgeInv, NextJudgeInv,
     PTL DEF Spec
<1>2. TypeInv /\ JudgeInv /\ [Next]_vars =>
        [\A m \in Messages : reading[m] # "none" => reading'[m] = reading[m]]_vars
  BY StepJudgedOnce
<1>. QED
  BY <1>1, <1>2, PTL DEF Spec, JudgedOnce

(***************************************************************************)
(* SpeaksOverAtMostOnce.  While a person has the conversation no turn      *)
(* begins, so every reply sent over them is one of a turn underway.        *)
(***************************************************************************)

Underway == {a \in Agents : turn[a].stage \in {"mood", "read", "compose", "send"}}

SpeakInv ==
    /\ conv.mode = "ai" => overruled = 0
    /\ overruled + Cardinality(Underway) <= Cardinality(Agents)

LEMMA UnderwayCounted ==
    /\ Cardinality(Underway) \in Nat /\ Cardinality(Underway') \in Nat
    /\ Cardinality(Underway') <= Cardinality(Agents)
    /\ Cardinality(Agents) \in Nat
<1>1. Underway \in SUBSET Agents /\ Underway' \in SUBSET Agents
  BY DEF Underway
<1>. QED
  BY <1>1, AgentsCounted

LEMMA InitSpeakInv == Init => SpeakInv
<1>. SUFFICES ASSUME Init PROVE SpeakInv
  OBVIOUS
<1>1. Underway = {}
  BY DEF Init, Underway, Idle
<1>. QED
  BY <1>1, FS_EmptySet, AgentsCounted DEF Init, SpeakInv

LEMMA SpeakKept ==
    ASSUME TypeOK, SpeakInv, UNCHANGED overruled,
           conv'.mode = conv.mode \/ conv'.mode = "human", Underway' \subseteq Underway
    PROVE  SpeakInv'
<1>1. overruled \in Nat
  BY AgentsCounted DEF TypeOK
<1>2. Cardinality(Underway') <= Cardinality(Underway)
  <2>1. Underway \in SUBSET Agents
    BY DEF Underway
  <2>. QED
    BY <2>1, AgentsCounted, FS_Subset
<1>. QED
  BY <1>1, <1>2, UnderwayCounted DEF SpeakInv

LEMMA SpeakTurn ==
    ASSUME TypeOK, SpeakInv, NEW a \in Agents, AgentStep(a) \/ TurnFails(a) \/ AgentDies(a)
    PROVE  SpeakInv'
<1>1. turn \in [Agents -> TurnState] /\ turn[a] \in TurnState /\ overruled \in Nat
      /\ conv \in [mode : {"ai", "human"}, rank : 0..MaxRank]
  BY AgentsCounted DEF TypeOK
<1>2. CASE BeginTurn(a)
  <2>1. overruled' = 0
    BY <1>2 DEF BeginTurn, SpeakInv
  <2>. QED
    BY <2>1, UnderwayCounted DEF SpeakInv
<1>3. CASE Send(a)
  <2>1. a \in Underway /\ Underway' = Underway \ {a} /\ Underway \in SUBSET Agents
    BY <1>1, <1>3 DEF Send, Underway
  <2>2. Cardinality(Underway') = Cardinality(Underway) - 1
    BY <2>1, OneLess
  <2>3. conv' = conv
    BY <1>3 DEF Send, rows
  <2>4. overruled' \in Nat /\ overruled' <= overruled + 1
        /\ (conv.mode = "ai" => overruled' = overruled)
    BY <1>1, <1>3 DEF Send
  <2>. QED
    BY <1>1, <2>2, <2>3, <2>4, UnderwayCounted DEF SpeakInv
<1>4. ASSUME ~BeginTurn(a), ~Send(a)
      PROVE  /\ UNCHANGED overruled
             /\ conv'.mode = conv.mode \/ conv'.mode = "human"
             /\ Underway' \subseteq Underway
  <2>1. CASE NoReading(a) \/ Read(a) \/ ReadHistory(a) \/ Stage(a)
    <3>1. /\ turn[a].stage \in {"mood", "read", "compose", "send"}
          /\ \A b \in Agents : b # a => turn'[b] = turn[b]
      BY <1>1, <2>1, ZenonT(60) DEF NoReading, Read, ReadHistory, Stage, Goes
    <3>. QED
      BY <2>1, <3>1 DEF Underway, NoReading, Read, ReadHistory, Stage, rows, history
  <2>2. CASE Take(a) \/ SayNothing(a) \/ Leave(a) \/ StaySilent(a)
    <3>1. /\ turn'[a].stage \notin {"mood", "read", "compose", "send"}
          /\ \A b \in Agents : b # a => turn'[b] = turn[b]
      <4>1. CASE Take(a) \/ SayNothing(a)
        BY <1>1, <4>1 DEF Take, Goes, SayNothing, TurnState
      <4>2. CASE Leave(a) \/ StaySilent(a)
        <5>1. turn' = [turn EXCEPT ![a] = Done]
          BY <4>2 DEF Leave, StaySilent, Ends
        <5>2. Done.stage = "done"
          BY DEF Done, Idle
        <5>. QED
          BY <1>1, <5>1, <5>2
      <4>. QED
        BY <2>2, <4>1, <4>2
    <3>2. UNCHANGED overruled /\ (conv'.mode = conv.mode \/ conv'.mode = "human")
      BY <1>1, <2>2 DEF Take, SayNothing, Leave, StaySilent, rows, history
    <3>. QED
      BY <3>1, <3>2 DEF Underway
  <2>3. CASE \/ Release(a) \/ CannotAnswer(a) \/ DeadLetter(a)
             \/ TurnFails(a) \/ AgentDies(a)
    <3>1. /\ turn'[a].stage \notin {"mood", "read", "compose", "send"}
          /\ \A b \in Agents : b # a => turn'[b] = turn[b]
      <4>1. \/ turn' = [turn EXCEPT ![a] = Idle]
            \/ turn' = [turn EXCEPT ![a] = [Idle EXCEPT !.stage = "failing"]]
        BY <2>3 DEF Release, CannotAnswer, DeadLetter, TurnFails, AgentDies, Raise
      <4>2. Idle.stage = "idle" /\ [Idle EXCEPT !.stage = "failing"].stage = "failing"
        BY DEF Idle
      <4>3. CASE turn' = [turn EXCEPT ![a] = Idle]
        BY <1>1, <4>2, <4>3
      <4>4. CASE turn' = [turn EXCEPT ![a] = [Idle EXCEPT !.stage = "failing"]]
        BY <1>1, <4>2, <4>4
      <4>. QED
        BY <4>1, <4>3, <4>4
    <3>2. UNCHANGED <<overruled, conv>>
      BY <2>3
         DEF Release, CannotAnswer, DeadLetter, TurnFails, AgentDies, Raise, rows, history
    <3>. QED
      BY <3>1, <3>2 DEF Underway
  <2>. QED
    BY <1>4, <2>1, <2>2, <2>3 DEF AgentStep
<1>. QED
  BY <1>2, <1>3, <1>4, SpeakKept

LEMMA NextSpeakInv == TypeInv /\ SpeakInv /\ [Next]_vars => SpeakInv'
<1>. SUFFICES ASSUME TypeInv, SpeakInv, [Next]_vars PROVE SpeakInv'
  OBVIOUS
<1>0. TypeOK
  BY DEF TypeInv
<1>1. ASSUME UNCHANGED <<turn, overruled, conv>> PROVE SpeakInv'
  <2>1. Underway' = Underway
    BY <1>1 DEF Underway
  <2>. QED
    BY <1>0, <1>1, <2>1, SpeakKept
<1>2. CASE Webhook
  BY <1>1, <1>2
     DEF Webhook, Ingest, Enqueue, EnqueueLost, Queue, CommitDelivery, RollBack, workers,
         rows, history
<1>3. ASSUME NEW r \in Readers, ReaderStep(r) \/ AskLost(r) \/ ReadFails(r) \/ ReaderDies(r)
      PROVE  SpeakInv'
  BY <1>1, <1>3
     DEF ReaderStep, TakeFile, RowMissing, OpenFile, KeepWaiting, AskTurn, CommitFile,
         ReleaseFile, DeadLetterFile, Process, AskLost, ReadFails, ReaderDies, rows, history
<1>4. ASSUME NEW mode \in {"ai", "human"}, SetMode(mode) PROVE SpeakInv'
  <2>1. overruled' = 0
    BY <1>4 DEF SetMode
  <2>. QED
    BY <2>1, UnderwayCounted DEF SpeakInv
<1>5. ASSUME NEW rank \in 0..MaxRank, SetPriority(rank) PROVE SpeakInv'
  <2>1. UNCHANGED <<turn, overruled>> /\ conv'.mode = conv.mode /\ Underway' = Underway
    BY <1>0, <1>5 DEF SetPriority, workers, history, Underway, TypeOK
  <2>. QED
    BY <1>0, <2>1, SpeakKept
<1>6. CASE ChangeAnswerer \/ Requeue
  BY <1>1, <1>6 DEF ChangeAnswerer, Requeue, workers, rows, history
<1>7. CASE UNCHANGED vars
  BY <1>1, <1>7 DEF vars
<1>. QED
  BY <1>0, <1>2, <1>3, <1>4, <1>5, <1>6, <1>7, SpeakTurn DEF Next, People

\* However many workers there are and whatever fails, a person who takes the
\* conversation is spoken over by the turns already underway and by no other.
THEOREM PersonIsHeeded == Spec => []SpeaksOverAtMostOnce
<1>1. Spec => [](TypeInv /\ ReaderInv /\ SpeakInv)
  BY InitTypeInv, NextTypeInv, InitReaderInv, NextReaderInv, InitSpeakInv, NextSpeakInv,
     PTL DEF Spec
<1>2. TypeInv /\ SpeakInv => SpeaksOverAtMostOnce
  <2>1. SUFFICES ASSUME TypeInv, SpeakInv PROVE SpeaksOverAtMostOnce
    OBVIOUS
  <2>2. overruled \in Nat
    BY <2>1, AgentsCounted DEF TypeInv, TypeOK
  <2>. QED
    BY <2>1, <2>2, UnderwayCounted DEF SpeakInv, SpeaksOverAtMostOnce
<1>. QED
  BY <1>1, <1>2, PTL

(***************************************************************************)
(* NobodyForgotten.  Between the turn a media worker asks for and its      *)
(* commit, the file it has read is still unread for everybody else, so the *)
(* invariant says that the others do not rest on that file.                *)
(***************************************************************************)

\* A job for the message waits, is at work, or lies where an operator finds it.
Waits(m) ==
    \/ agentJobs.pending > 0
    \/ agentJobs.failed > 0
    \/ Stranded
    \/ \E a \in Agents : Attends(a, m)

Unheard == stored \ (heard \cup missed)

\* Neither a webhook nor another media worker is between its steps while a
\* media worker has the row.
Gate ==
    /\ hook.fresh \cap stored = {}
    /\ \A r \in Readers : reader[r].stage \in {"process", "commit"} =>
         lock = r /\ hook.stage = "idle"
    /\ \A r \in Readers : reader[r].stage = "commit" => reader[r].result \in Resolved

Heeded ==
    /\ hook.stage = "queued" /\ (hook.fresh \cap Texts) \ missed # {} =>
         agentJobs.pending > 0
    /\ \A m \in Unheard :
         /\ Waits(m) \/ Unread # {}
         /\ \A r \in Readers : reader[r].stage = "commit" =>
              Waits(m) \/ OthersUnread(r) # {}

HeedInv == Gate /\ Heeded

LEMMA InitHeedInv == Init => HeedInv
  BY DEF Init, HeedInv, Gate, Heeded, NoDelivery, NotReading, Unheard

(* The agent workers *)

\* A step of an agent worker changes its turn and no other.
LEMMA OwnTurn ==
    ASSUME TypeInv, NEW a \in Agents, AgentStep(a) \/ TurnFails(a) \/ AgentDies(a)
    PROVE  /\ turn' = [turn EXCEPT ![a] = turn'[a]]
           /\ turn'[a] \in TurnState
           /\ turn[a] \in TurnState
           /\ UNCHANGED <<stored, latest, file, hook, reader, mediaJobs, owed>>
           /\ heard \subseteq heard' /\ missed \subseteq missed'
           /\ agentJobs' \in [pending : Nat, inflight : Nat, failed : Nat]
           /\ agentJobs \in [pending : Nat, inflight : Nat, failed : Nat]
           /\ \A r \in Readers : lock = r <=> lock' = r
<1>1. turn \in [Agents -> TurnState]
  BY DEF TypeInv, TypeOK
<1>2. turn' = [turn EXCEPT ![a] = turn'[a]]
  <2>1. CASE Read(a)
    <3>1. PICK mood, implied :
            turn' = [turn EXCEPT
                    ![a].stage = IF mood = "angry" THEN "leave" ELSE "read",
                    ![a].mood = mood,
                    ![a].inserts = reading[turn[a].about] = "none",
                    ![a].rank = RaisedPriority(turn[a].rank, implied),
                    ![a].handoff = mood = "angry",
                    ![a].saw = IF mood = "angry" THEN stored ELSE {}]
      BY <2>1 DEF Read
    <3>2. QED
      BY <1>1, <3>1
  <2>2. CASE Take(a) \/ ReadHistory(a) \/ SayNothing(a) \/ Stage(a) \/ Send(a)
    BY <1>1, <2>2 DEF Take, Goes, ReadHistory, SayNothing, Stage, Send
  <2>3. CASE \/ StaySilent(a) \/ NoReading(a) \/ Leave(a) \/ Release(a) \/ CannotAnswer(a)
             \/ DeadLetter(a) \/ TurnFails(a) \/ AgentDies(a)
    BY <1>1, <2>3
       DEF StaySilent, Ends, NoReading, Leave, Release, CannotAnswer, Raise, DeadLetter,
           TurnFails, AgentDies
  <2>4. CASE BeginTurn(a)
    <3>1. PICK new : turn' = [turn EXCEPT ![a] = new]
      BY <2>4 DEF BeginTurn
    <3>2. QED
      BY <1>1, <3>1
  <2>5. QED
    BY <2>1, <2>2, <2>3, <2>4 DEF AgentStep
<1>3. TypeInv'
  BY TypeTurn, TypeTurnFault
<1>4. UNCHANGED <<stored, latest, file, hook, reader, mediaJobs, owed>>
  BY DEF AgentStep, Take, StaySilent, BeginTurn, NoReading, Read, ReadHistory,
         SayNothing, Stage, Send, Leave, Release, CannotAnswer, Raise, DeadLetter,
         TurnFails, AgentDies, rows, queues, history
<1>5. heard \subseteq heard' /\ missed \subseteq missed'
  BY DEF AgentStep, Take, StaySilent, BeginTurn, NoReading, Read, ReadHistory,
         SayNothing, Stage, Send, Leave, Release, CannotAnswer, Raise, DeadLetter,
         TurnFails, AgentDies, history
<1>6. \A r \in Readers : lock = r <=> lock' = r
  BY TurnsAssumption
     DEF AgentStep, Take, StaySilent, BeginTurn, NoReading, Read, ReadHistory,
         SayNothing, Stage, Send, Leave, Release, CannotAnswer, Raise, DeadLetter,
         TurnFails, AgentDies
<1>7. QED
  BY <1>1, <1>2, <1>3, <1>4, <1>5, <1>6 DEF TypeInv, TypeOK

\* How many jobs are in flight, against how many agents are at one.
LEMMA StrandedStays ==
    ASSUME TypeInv, NEW a \in Agents, NEW new \in TurnState,
           turn' = [turn EXCEPT ![a] = new],
           agentJobs' \in [pending : Nat, inflight : Nat, failed : Nat],
           \/ (Working(new) <=> Working(turn[a])) /\ agentJobs'.inflight >= agentJobs.inflight
           \/ /\ Working(new) /\ ~Working(turn[a])
              /\ agentJobs'.inflight >= agentJobs.inflight + 1
           \/ /\ ~Working(new) /\ Working(turn[a])
              /\ agentJobs'.inflight >= agentJobs.inflight - 1
    PROVE  /\ Stranded => Stranded'
           /\ ~Working(new) /\ Working(turn[a])
              /\ agentJobs'.inflight >= agentJobs.inflight => Stranded'
<1>1. /\ Cardinality(AtWork) \in Nat /\ agentJobs.inflight \in Nat
      /\ agentJobs'.inflight \in Nat /\ Cardinality(AtWork) <= agentJobs.inflight
  <2>1. AtWork \in SUBSET Agents
    BY DEF AtWork
  <2>2. QED
    BY <2>1, AgentsCounted DEF TypeInv, TypeOK, Counted
<1>2. CASE (Working(new) <=> Working(turn[a]))
  <2>1. AtWork' = AtWork
    BY <1>2, OneTurn DEF TypeInv, Working
  <2>2. QED
    BY <1>1, <1>2, <2>1 DEF Stranded
<1>3. CASE Working(new) /\ ~Working(turn[a])
  <2>1. Cardinality(AtWork') = Cardinality(AtWork) + 1
    BY <1>3, OneTurn DEF TypeInv
  <2>2. QED
    BY <1>1, <1>3, <2>1 DEF Stranded
<1>4. CASE ~Working(new) /\ Working(turn[a])
  <2>1. Cardinality(AtWork') = Cardinality(AtWork) - 1
    BY <1>4, OneTurn DEF TypeInv
  <2>2. QED
    BY <1>1, <1>4, <2>1 DEF Stranded
<1>5. QED
  BY <1>2, <1>3, <1>4 DEF Working

LEMMA AgentHeeds ==
    ASSUME TypeInv, NEW a \in Agents, AgentStep(a) \/ TurnFails(a) \/ AgentDies(a),
           NEW m \in stored, Waits(m)
    PROVE  Waits(m)' \/ m \in heard' \cup missed'
<1>1. PICK new, old :
        /\ new = turn'[a] /\ new \in TurnState /\ old = turn[a] /\ old \in TurnState
        /\ turn' = [turn EXCEPT ![a] = new]
        /\ \A b \in Agents : b # a => turn'[b] = turn[b]
  BY OwnTurn DEF TypeInv, TypeOK
<1>2. /\ agentJobs' \in [pending : Nat, inflight : Nat, failed : Nat]
      /\ agentJobs \in [pending : Nat, inflight : Nat, failed : Nat]
      /\ stored' = stored
  BY OwnTurn
<1>3. ASSUME agentJobs'.failed >= agentJobs.failed,
             agentJobs.pending > 0 => agentJobs'.pending > 0 \/ Attends(a, m)',
             Stranded => Stranded',
             Attends(a, m) => \/ Attends(a, m)' \/ agentJobs'.failed > 0 \/ Stranded'
                              \/ m \in heard' \cup missed'
      PROVE  Waits(m)' \/ m \in heard' \cup missed'
  <2>1. \A b \in Agents : b # a => (Attends(b, m)' <=> Attends(b, m))
    BY <1>1 DEF Attends
  <2>2. QED
    BY <1>2, <1>3, <2>1 DEF Waits
<1>4. ASSUME UNCHANGED agentJobs, Working(old), Working(new),
             Attends(a, m) => Attends(a, m)' \/ m \in heard'
      PROVE  Waits(m)' \/ m \in heard' \cup missed'
  <2>1. Stranded => Stranded'
    BY <1>1, <1>2, <1>4, StrandedStays
  <2>2. QED
    BY <1>2, <1>3, <1>4, <2>1
<1>5. CASE Take(a)
  <2>1. /\ new.stage = "begin" /\ old.stage = "idle"
        /\ agentJobs'.inflight = agentJobs.inflight + 1
        /\ agentJobs'.failed = agentJobs.failed
    <3>1. turn' = [turn EXCEPT ![a].stage = "begin"] /\ turn[a].stage = "idle"
      BY <1>5 DEF Take, Goes
    <3>2. new.stage = "begin" /\ old.stage = "idle"
      BY <1>1, <3>1 DEF TypeInv, TypeOK, TurnState
    <3>3. QED
      BY <1>2, <1>5, <3>2 DEF Take
  <2>2. Attends(a, m)'
    BY <1>1, <2>1 DEF Attends
  <2>3. Working(new) /\ ~Working(old)
    BY <2>1 DEF Working
  <2>4. Stranded => Stranded'
    BY <1>1, <1>2, <2>1, <2>3, StrandedStays
  <2>5. QED
    BY <1>2, <1>3, <2>1, <2>2, <2>4
<1>6. CASE StaySilent(a) \/ BeginTurn(a)
  <2>1. UNCHANGED agentJobs /\ old.stage = "begin"
    BY <1>1, <1>6 DEF StaySilent, BeginTurn, queues
  <2>2. \/ new.stage = "done" /\ m \in heard'
        \/ new.stage \in {"mood", "read"}
    <3>1. CASE StaySilent(a)
      BY <1>1, <3>1 DEF StaySilent, Ends, Done, Idle, TypeInv, TypeOK
    <3>2. CASE BeginTurn(a)
      <4>1. PICK r : r = reading[latest] /\ r \in {"none", "calm", "angry"}
        BY <3>2 DEF BeginTurn, TypeInv, TypeOK, LatestKnown, Mood
      <4>2. new = CASE r = "none" -> [Idle EXCEPT !.stage = "mood", !.about = latest,
                                                  !.rank = conv.rank]
                    [] r = "calm" -> [Idle EXCEPT !.stage = "read"]
                    [] r = "angry" -> Done
        BY <1>1, <3>2, <4>1 DEF BeginTurn, TypeInv, TypeOK
      <4>3. r = "angry" => heard' = heard \cup stored
        BY <3>2, <4>1 DEF BeginTurn
      <4>4. QED
        BY <4>1, <4>2, <4>3 DEF Done, Idle
    <3>3. QED
      BY <1>6, <3>1, <3>2
  <2>3. Working(old) /\ Working(new)
    BY <2>1, <2>2 DEF Working
  <2>4. QED
    BY <1>1, <1>4, <2>1, <2>2, <2>3 DEF Attends
<1>7. CASE NoReading(a) \/ Read(a) \/ ReadHistory(a)
  <2>1. UNCHANGED agentJobs /\ old.stage \in {"mood", "read"}
    BY <1>1, <1>7 DEF NoReading, Read, ReadHistory, queues
  <2>2. \/ new.stage = "read"
        \/ new.stage \in {"compose", "leave"} /\ new.saw = stored
    <3>1. CASE NoReading(a)
      BY <1>1, <3>1 DEF NoReading, Idle, TypeInv, TypeOK
    <3>2. CASE ReadHistory(a)
      BY <1>1, <3>2 DEF ReadHistory, TypeInv, TypeOK, TurnState
    <3>3. CASE Read(a)
      BY <1>1, <3>3 DEF Read, TypeInv, TypeOK, TurnState
    <3>4. QED
      BY <1>7, <3>1, <3>2, <3>3
  <2>3. Working(old) /\ Working(new)
    BY <2>1, <2>2 DEF Working
  <2>4. QED
    BY <1>1, <1>4, <2>1, <2>2, <2>3 DEF Attends
<1>8. CASE SayNothing(a) \/ Stage(a) \/ Send(a)
  <2>1. UNCHANGED agentJobs /\ old.stage \in {"compose", "send"}
    BY <1>1, <1>8 DEF SayNothing, Stage, Send, queues
  <2>2. new.stage \in {"send", "leave"} /\ new.saw = old.saw
    <3>1. CASE SayNothing(a)
      BY <1>1, <3>1 DEF SayNothing, TypeInv, TypeOK, TurnState
    <3>2. CASE Stage(a) \/ Send(a)
      BY <1>1, <3>2 DEF Stage, Goes, Send, TypeInv, TypeOK, TurnState
    <3>3. QED
      BY <1>8, <3>1, <3>2
  <2>3. Working(old) /\ Working(new)
    BY <2>1, <2>2 DEF Working
  <2>4. QED
    BY <1>1, <1>4, <2>1, <2>2, <2>3 DEF Attends
<1>9. CASE Leave(a)
  <2>1. UNCHANGED agentJobs /\ old.stage = "leave" /\ new.stage = "done"
        /\ heard' = heard \cup old.saw
    BY <1>1, <1>9 DEF Leave, Ends, Done, Idle, queues, TypeInv, TypeOK
  <2>2. Working(old) /\ Working(new)
    BY <2>1 DEF Working
  <2>3. QED
    BY <1>1, <1>4, <2>1, <2>2 DEF Attends
<1>10. CASE Release(a) \/ DeadLetter(a)
  <2>1. /\ new.stage = "idle" /\ old.stage \in {"done", "failing"}
        /\ agentJobs'.pending = agentJobs.pending
        /\ old.stage = "done" => /\ agentJobs'.inflight = agentJobs.inflight - 1
                                 /\ agentJobs'.failed = agentJobs.failed
        /\ old.stage = "failing" => /\ agentJobs'.inflight = agentJobs.inflight
                                    /\ agentJobs'.failed = agentJobs.failed + 1
    BY <1>1, <1>2, <1>10 DEF Release, DeadLetter, Idle, TypeInv, TypeOK
  <2>2. ~Working(new) /\ (Working(old) <=> old.stage = "done")
    BY <2>1 DEF Working
  <2>3. Stranded => Stranded'
    BY <1>1, <1>2, <2>1, <2>2, StrandedStays
  <2>4. Attends(a, m) => old.stage = "failing"
    BY <1>1, <2>1 DEF Attends
  <2>5. QED
    BY <1>2, <1>3, <2>1, <2>3, <2>4
<1>11. CASE CannotAnswer(a) \/ TurnFails(a)
  <2>1. /\ new.stage = "failing" /\ old.stage \in {"begin", "mood", "compose", "leave"}
        /\ agentJobs'.pending = agentJobs.pending
        /\ agentJobs'.inflight = agentJobs.inflight - 1
        /\ agentJobs'.failed = agentJobs.failed
    BY <1>1, <1>2, <1>11 DEF CannotAnswer, TurnFails, Raise, Idle, TypeInv, TypeOK
  <2>2. ~Working(new) /\ Working(old)
    BY <2>1 DEF Working
  <2>3. Stranded => Stranded'
    BY <1>1, <1>2, <2>1, <2>2, StrandedStays
  <2>4. Attends(a, m)'
    BY <1>1, <2>1 DEF Attends
  <2>5. QED
    BY <1>2, <1>3, <2>1, <2>3, <2>4
<1>12. CASE AgentDies(a)
  <2>1. /\ new.stage = "idle" /\ old.stage # "idle" /\ agentJobs' = agentJobs
        /\ old.stage = "failing" => missed' = missed \cup stored
    BY <1>1, <1>12 DEF AgentDies, Idle, queues, TypeInv, TypeOK
  <2>2. ~Working(new) /\ (Working(old) <=> old.stage # "failing")
    BY <2>1 DEF Working
  <2>3. (Stranded => Stranded') /\ (old.stage # "failing" => Stranded')
    BY <1>1, <1>2, <2>1, <2>2, StrandedStays
  <2>4. QED
    BY <1>2, <1>3, <2>1, <2>3
<1>13. QED
  BY <1>5, <1>6, <1>7, <1>8, <1>9, <1>10, <1>11, <1>12 DEF AgentStep

LEMMA HeedAgent ==
    ASSUME TypeInv, HeedInv, NEW a \in Agents, AgentStep(a) \/ TurnFails(a) \/ AgentDies(a)
    PROVE  HeedInv'
<1>1. /\ UNCHANGED <<stored, latest, file, hook, reader, mediaJobs, owed>>
      /\ heard \subseteq heard' /\ missed \subseteq missed'
      /\ \A r \in Readers : lock = r <=> lock' = r
      /\ agentJobs' \in [pending : Nat, inflight : Nat, failed : Nat]
  BY OwnTurn
<1>2. Gate'
  BY <1>1 DEF HeedInv, Gate
<1>3. hook.stage = "queued" /\ (hook.fresh \cap Texts) \ missed' # {} => agentJobs'.pending > 0
  <2>1. CASE Take(a)
    BY <2>1 DEF Take
  <2>2. CASE ~Take(a)
    <3>1. agentJobs'.pending = agentJobs.pending
      BY <2>2 DEF AgentStep, StaySilent, BeginTurn, NoReading, Read, ReadHistory,
         SayNothing, Stage, Send, Leave, Release, CannotAnswer, Raise, DeadLetter,
         TurnFails, AgentDies, queues, TypeInv, TypeOK
    <3>2. QED
      BY <1>1, <3>1 DEF HeedInv, Heeded
  <2>3. QED
    BY <2>1, <2>2
<1>4. ASSUME NEW m \in Unheard' PROVE m \in Unheard /\ (Waits(m) => Waits(m)')
  BY <1>1, <1>4, AgentHeeds DEF Unheard
<1>5. /\ Unread' = Unread
      /\ \A r \in Readers : OthersUnread(r)' = OthersUnread(r)
  BY <1>1 DEF Unread, OthersUnread, Holds
<1>6. QED
  BY <1>1, <1>2, <1>3, <1>4, <1>5 DEF HeedInv, Heeded

(* The webhook *)

\* Nothing an agent worker or an operator looks at has changed.
LEMMA WaitsStill ==
    ASSUME UNCHANGED turn, agentJobs'.inflight = agentJobs.inflight,
           agentJobs'.failed = agentJobs.failed,
           agentJobs.pending > 0 => agentJobs'.pending > 0, NEW m
    PROVE  Waits(m) => Waits(m)'
<1>1. AtWork' = AtWork
  BY DEF AtWork
<1>2. QED
  BY <1>1 DEF Waits, Stranded, Attends

LEMMA HeedWebhook == ASSUME TypeInv, HeedInv, Webhook PROVE HeedInv'
<1>1. /\ UNCHANGED <<turn, reader, lock, heard>>
      /\ agentJobs \in [pending : Nat, inflight : Nat, failed : Nat]
      /\ \A r \in Readers : reader[r].stage \notin {"process", "commit"} \/ hook.stage = "idle"
      /\ None \notin Readers
  BY TurnsAssumption DEF Webhook, Ingest, Enqueue, EnqueueLost, Queue, CommitDelivery,
     RollBack, workers, history, TypeInv, TypeOK, HeedInv, Gate
<1>2. ASSUME UNCHANGED <<stored, file>>, hook'.fresh \cap stored = {},
             \A r \in Readers : reader[r].stage \in {"process", "commit"} => hook'.stage = "idle",
             agentJobs'.inflight = agentJobs.inflight, agentJobs'.failed = agentJobs.failed,
             agentJobs.pending > 0 => agentJobs'.pending > 0,
             missed \cap stored \subseteq missed',
             hook'.stage = "queued" /\ (hook'.fresh \cap Texts) \ missed' # {}
                => agentJobs'.pending > 0
      PROVE  HeedInv'
  <2>1. \A m \in Unheard' : m \in Unheard /\ (Waits(m) => Waits(m)')
    BY <1>1, <1>2, WaitsStill DEF Unheard
  <2>2. Unread' = Unread /\ \A r \in Readers : OthersUnread(r)' = OthersUnread(r)
    BY <1>1, <1>2 DEF Unread, OthersUnread, Holds
  <2>3. QED
    BY <1>1, <1>2, <2>1, <2>2 DEF HeedInv, Gate, Heeded
<1>3. ASSUME NEW payload \in SUBSET Messages, Ingest(payload) PROVE HeedInv'
  <2>1. /\ UNCHANGED <<stored, file, agentJobs, missed>>
        /\ hook' = [stage |-> "flushed", fresh |-> payload \ stored] /\ lock = None
    BY <1>3 DEF Ingest, RowFree, rows, queues, history
  <2>2. \A r \in Readers : reader[r].stage \notin {"process", "commit"}
    BY <1>1, <2>1 DEF HeedInv, Gate
  <2>3. QED
    BY <1>2, <2>1, <2>2
<1>4. ASSUME NEW messages \in SUBSET Messages, Queue(messages), missed \subseteq missed',
             (hook.fresh \cap Texts) \ missed' # {} => messages \cap Texts # {}
      PROVE  HeedInv'
  <2>1. /\ UNCHANGED <<stored, file>> /\ hook.stage = "flushed"
        /\ hook' = [hook EXCEPT !.stage = "queued"]
        /\ agentJobs' = IF messages \cap Texts = {} THEN agentJobs
                        ELSE [agentJobs EXCEPT !.pending = agentJobs.pending + 1]
    BY <1>4 DEF Queue, rows
  <2>2. hook'.fresh = hook.fresh /\ hook.fresh \cap stored = {}
    BY <2>1 DEF HeedInv, Gate, TypeInv, TypeOK
  <2>3. /\ agentJobs'.inflight = agentJobs.inflight /\ agentJobs'.failed = agentJobs.failed
        /\ agentJobs.pending > 0 => agentJobs'.pending > 0
        /\ messages \cap Texts # {} => agentJobs'.pending > 0
    BY <1>1, <2>1
  <2>4. \A r \in Readers : reader[r].stage \notin {"process", "commit"}
    BY <1>1, <2>1
  <2>5. QED
    BY <1>2, <1>4, <2>1, <2>2, <2>3, <2>4
<1>5. CASE Enqueue
  BY <1>4, <1>5 DEF Enqueue, TypeInv, TypeOK
<1>6. CASE EnqueueLost
  <2>1. PICK kept \in SUBSET hook.fresh :
           /\ kept \cap Texts \in {{}, hook.fresh \cap Texts}
           /\ Queue(kept) /\ missed' = missed \cup (hook.fresh \ kept)
    BY <1>6 DEF EnqueueLost
  <2>2. kept \in SUBSET Messages
    BY <2>1 DEF TypeInv, TypeOK
  <2>3. kept \cap Texts = {} => hook.fresh \cap Texts \subseteq missed'
    BY <2>1
  <2>4. QED
    BY <1>4, <2>1, <2>2, <2>3
<1>7. CASE CommitDelivery
  <2>1. /\ hook.stage = "queued" /\ stored' = stored \cup hook.fresh
        /\ file' = [f \in Files |-> IF f \in hook.fresh
                                   THEN [status |-> "pending", delivery |-> delivered]
                                   ELSE file[f]]
        /\ hook' = NoDelivery /\ UNCHANGED <<agentJobs, missed>>
    BY <1>7 DEF CommitDelivery, queues
  <2>2. \A r \in Readers : reader[r].stage \notin {"process", "commit"}
    BY <1>1, <2>1
  <2>3. Unread \subseteq Unread' /\ hook.fresh \cap Files \subseteq Unread'
    BY <2>1 DEF Unread
  <2>4. Gate'
    BY <1>1, <2>1, <2>2 DEF Gate, NoDelivery
  <2>5. ASSUME NEW m \in Unheard' PROVE Waits(m)' \/ Unread' # {}
    <3>1. CASE m \in stored
      <4>1. m \in Unheard /\ (Waits(m) => Waits(m)')
        BY <1>1, <2>1, <2>5, <3>1, WaitsStill DEF Unheard
      <4>2. QED
        BY <2>3, <4>1 DEF HeedInv, Heeded
    <3>2. CASE m \in hook.fresh \cap Files
      BY <2>3, <3>2
    <3>3. CASE m \in hook.fresh \cap Texts
      <4>1. agentJobs.pending > 0
        BY <2>1, <2>5, <3>3 DEF HeedInv, Heeded, Unheard
      <4>2. QED
        BY <2>1, <4>1 DEF Waits
    <3>4. QED
      BY <2>1, <2>5, <3>1, <3>2, <3>3 DEF Unheard, Messages, TypeInv, TypeOK
  <2>6. QED
    BY <1>1, <2>1, <2>2, <2>4, <2>5 DEF HeedInv, Heeded, NoDelivery
<1>8. CASE RollBack
  BY <1>2, <1>8 DEF RollBack, NoDelivery, rows, queues, HeedInv, Gate
<1>9. QED
  BY <1>3, <1>5, <1>6, <1>7, <1>8 DEF Webhook

(* The media workers *)

LEMMA HeedReader ==
    ASSUME TypeInv, ReaderInv, HeedInv, NEW r \in Readers,
           ReaderStep(r) \/ AskLost(r) \/ ReadFails(r) \/ ReaderDies(r)
    PROVE  HeedInv'
<1>1. /\ UNCHANGED <<turn, stored, heard, hook>>
      /\ missed \subseteq missed'
      /\ agentJobs \in [pending : Nat, inflight : Nat, failed : Nat]
      /\ reader \in [Readers -> ReaderState]
  BY DEF ReaderStep, TakeFile, RowMissing, OpenFile, KeepWaiting, AskTurn, CommitFile,
         ReleaseFile, DeadLetterFile, Process, AskLost, ReadFails, ReaderDies, rows,
         history, TypeInv, TypeOK
<1>2. /\ agentJobs'.inflight = agentJobs.inflight /\ agentJobs'.failed = agentJobs.failed
      /\ agentJobs'.pending >= agentJobs.pending /\ agentJobs'.pending \in Nat
  <2>1. \/ agentJobs' = agentJobs
        \/ agentJobs' = [agentJobs EXCEPT !.pending = agentJobs.pending + 1]
    BY DEF ReaderStep, TakeFile, RowMissing, OpenFile, KeepWaiting, AskTurn, CommitFile,
         ReleaseFile, DeadLetterFile, Process, AskLost, ReadFails, ReaderDies, queues
  <2>2. QED
    BY <1>1, <2>1
<1>3. PICK new, old :
        /\ old = reader[r] /\ new = reader'[r]
        /\ \A q \in Readers : q # r => reader'[q] = reader[q]
  BY DEF ReaderStep, TakeFile, RowMissing, OpenFile, KeepWaiting, AskTurn, CommitFile,
         ReleaseFile, DeadLetterFile, Process, AskLost, ReadFails, ReaderDies, Reads, ReaderInv
<1>4. \A m \in Unheard' : m \in Unheard /\ (Waits(m) => Waits(m)')
  BY <1>1, <1>2, WaitsStill DEF Unheard
<1>5. ASSUME UNCHANGED file, lock' = lock \/ (lock' = None /\ lock = r) \/ lock = None,
             new.stage # "commit",
             new.stage = "process" => lock' = r /\ hook.stage = "idle",
             old.stage = "process" \/ UNCHANGED agentJobs
      PROVE  HeedInv'
  <2>1. /\ Unread' = Unread
        /\ \A q \in Readers : q # r => OthersUnread(q)' = OthersUnread(q)
    BY <1>3, <1>5 DEF Unread, OthersUnread, Holds
  <2>2. \A q \in Readers : q # r /\ reader[q].stage \in {"process", "commit"} => lock' = q
    BY <1>5, TurnsAssumption DEF HeedInv, Gate
  <2>3. Gate'
    BY <1>1, <1>3, <1>5, <2>2 DEF HeedInv, Gate
  <2>4. QED
    BY <1>1, <1>2, <1>3, <1>4, <1>5, <2>1, <2>3 DEF HeedInv, Heeded
<1>6. CASE (\E j \in MediaJob : TakeFile(r, j)) \/ RowMissing(r)
  <2>1. UNCHANGED <<file, lock, agentJobs>>
    BY <1>6 DEF TakeFile, RowMissing, rows, queues
  <2>2. new.stage \in {"open", "done"}
    <3>1. CASE \E j \in MediaJob : TakeFile(r, j)
      BY <1>1, <1>3, <3>1 DEF TakeFile, NotReading
    <3>2. CASE RowMissing(r)
      BY <1>1, <1>3, <3>2 DEF RowMissing, Reads, ReaderState
    <3>3. QED
      BY <1>6, <3>1, <3>2
  <2>3. new.stage # "commit" /\ new.stage # "process"
    BY <2>2
  <2>4. QED
    BY <1>5, <2>1, <2>3
<1>7. CASE OpenFile(r)
  <2>1. new.stage = "process" /\ lock' = r /\ lock = None /\ hook.stage = "idle"
        /\ UNCHANGED <<file, agentJobs>>
    BY <1>1, <1>3, <1>7 DEF OpenFile, RowFree, Reads, rows, queues, ReaderState
  <2>2. QED
    BY <1>5, <2>1
<1>8. ASSUME Process(r) PROVE
        /\ old.stage = "process" /\ new.stage = "commit" /\ new.job = old.job
        /\ new.result \in Resolved /\ UNCHANGED <<file, lock>>
  <2>1. PICK result \in Resolved :
          reader' = [reader EXCEPT ![r].stage = "commit", ![r].result = result]
    BY <1>8 DEF Process, Outcomes, Resolved
  <2>2. QED
    BY <1>1, <1>3, <1>8, <2>1 DEF Process, rows, ReaderState
<1>9. CASE KeepWaiting(r) \/ AskTurn(r) \/ AskLost(r)
  <2>1. Process(r)
    BY <1>9 DEF KeepWaiting, AskTurn, AskLost
  <2>2. /\ Unread' = Unread /\ \A q \in Readers : OthersUnread(q)' = OthersUnread(q)
    BY <1>3, <1>8, <2>1 DEF Unread, OthersUnread, Holds
  <2>3. Gate'
    BY <1>1, <1>3, <1>8, <2>1 DEF HeedInv, Gate
  <2>4. \/ OthersUnread(r) # {} \/ agentJobs'.pending > 0 \/ stored \subseteq missed'
    BY <1>1, <1>9 DEF KeepWaiting, AskTurn, AskLost
  <2>5. ASSUME NEW m \in Unheard' PROVE Waits(m)' \/ OthersUnread(r)' # {}
    BY <1>1, <2>2, <2>4, <2>5 DEF Waits, Unheard
  <2>6. QED
    BY <1>1, <1>2, <1>3, <1>4, <1>8, <2>1, <2>2, <2>3, <2>5 DEF HeedInv, Heeded
<1>10. CASE CommitFile(r)
  <2>1. /\ old.stage = "commit" /\ new.stage = "done" /\ old.result \in Resolved
        /\ file' = [file EXCEPT ![Holds(r)[1]].status = old.result] /\ lock' = None
        /\ lock = r /\ UNCHANGED agentJobs
    BY <1>1, <1>3, <1>10 DEF CommitFile, queues, ReaderState, HeedInv, Gate
  <2>2. Unread' = OthersUnread(r)
    <3>1. Holds(r)[1] \in Files
      BY <1>3, <2>1 DEF ReaderInv, Holds, MediaJob
    <3>2. file \in [Files -> FileRow]
      BY DEF TypeInv, TypeOK
    <3>3. /\ file'[Holds(r)[1]].status # "pending"
          /\ \A f \in Files : f # Holds(r)[1] => file'[f] = file[f]
      BY <2>1, <3>1, <3>2 DEF FileRow, Resolved
    <3>4. QED
      BY <3>1, <3>3 DEF Unread, OthersUnread
  <2>3. \A q \in Readers : reader'[q].stage \notin {"process", "commit"}
    BY <1>3, <2>1 DEF HeedInv, Gate
  <2>4. \A m \in Unheard' : Waits(m)' \/ Unread' # {}
    BY <1>3, <1>4, <2>1, <2>2 DEF HeedInv, Heeded
  <2>5. QED
    BY <1>1, <1>2, <2>1, <2>3, <2>4 DEF HeedInv, Gate, Heeded
<1>11. CASE ReleaseFile(r) \/ DeadLetterFile(r) \/ ReaderDies(r) \/ ReadFails(r)
  <2>1. /\ UNCHANGED <<file, agentJobs>>
        /\ lock' = lock \/ (lock' = None /\ (lock = r \/ old.stage = "process"))
    BY <1>3, <1>11 DEF ReleaseFile, DeadLetterFile, ReaderDies, ReadFails, rows, queues
  <2>2. new.stage \in {"idle", "failing"}
    <3>1. CASE ReleaseFile(r) \/ DeadLetterFile(r) \/ ReaderDies(r)
      BY <1>1, <1>3, <3>1 DEF ReleaseFile, DeadLetterFile, ReaderDies, NotReading
    <3>2. CASE ReadFails(r)
      BY <1>1, <1>3, <3>2 DEF ReadFails, Reads, ReaderState
    <3>3. QED
      BY <1>11, <3>1, <3>2
  <2>3. old.stage = "process" => lock = r
    BY <1>3 DEF HeedInv, Gate
  <2>4. new.stage # "commit" /\ new.stage # "process"
    BY <2>2
  <2>5. QED
    BY <1>5, <2>1, <2>3, <2>4
<1>12. QED
  BY <1>6, <1>7, <1>9, <1>10, <1>11 DEF ReaderStep

LEMMA HeedPeople == ASSUME TypeInv, HeedInv, People \/ UNCHANGED vars PROVE HeedInv'
<1>1. UNCHANGED <<turn, stored, heard, missed, hook, file, reader, lock>>
  BY DEF People, SetMode, SetPriority, ChangeAnswerer, Requeue, workers, rows, history, vars
<1>2. agentJobs \in [pending : Nat, inflight : Nat, failed : Nat] /\ AtWork' = AtWork
  BY <1>1 DEF TypeInv, TypeOK, AtWork
<1>3. agentJobs' = agentJobs \/ agentJobs'.pending = agentJobs.pending + 1
  BY <1>2 DEF People, SetMode, SetPriority, ChangeAnswerer, Requeue, queues, vars
<1>4. agentJobs.pending > 0 => agentJobs'.pending > 0
  BY <1>2, <1>3
<1>5. \A m \in Unheard' : m \in Unheard /\ (Waits(m) => Waits(m)')
  BY <1>1, <1>2, <1>3 DEF Unheard, Waits, Stranded, Attends
<1>6. Unread' = Unread /\ \A r \in Readers : OthersUnread(r)' = OthersUnread(r)
  BY <1>1 DEF Unread, OthersUnread, Holds
<1>7. QED
  BY <1>1, <1>4, <1>5, <1>6 DEF HeedInv, Gate, Heeded

LEMMA NextHeedInv == TypeInv /\ ReaderInv /\ HeedInv /\ [Next]_vars => HeedInv'
  BY HeedWebhook, HeedAgent, HeedReader, HeedPeople DEF Next

\* Whatever crashes, fails or is lost on the way, and however many messages and
\* workers there are, a stored message that no turn has taken into account has a
\* job somewhere or a file of its conversation is unread, unless its job ran
\* before it was committed (the webhook enqueues first, the media gate asks).
THEOREM NobodyIsForgotten == Spec => []NobodyForgotten
<1>1. Spec => [](TypeInv /\ ReaderInv /\ HeedInv)
  BY InitTypeInv, NextTypeInv, InitReaderInv, NextReaderInv, InitHeedInv, NextHeedInv,
     PTL DEF Spec
<1>2. HeedInv => NobodyForgotten
  BY DEF HeedInv, Heeded, Waits, Unheard, NobodyForgotten
<1>3. QED
  BY <1>1, <1>2, PTL

(***************************************************************************)
(* OneAnswerPerDelivery.  A file is live while a job for its row may still *)
(* be processed.  A turn is asked for when no other file is unread, so     *)
(* when no other file is live, and the file just read is live no more:     *)
(* the next turn asked for needs another delivery.                         *)
(***************************************************************************)

\* The delivery of the job has been queued.
Issued(j) == j[2] < delivered \/ (j[2] = delivered /\ hook.stage # "flushed")

\* A job is in one list or in one worker's hands.
JobInv ==
    /\ \A j \in MediaJob : mediaJobs[j] # "none" => Issued(j)
    /\ \A r \in Readers : reader[r].stage # "idle" =>
         /\ Issued(Holds(r))
         /\ mediaJobs[Holds(r)] # "pending"
         /\ \A s \in Readers : reader[s].stage # "idle" /\ Holds(r) = Holds(s) => r = s

LEMMA InitJobInv == Init => JobInv
  BY DEF Init, JobInv, NotReading

LEMMA JobWebhook == ASSUME TypeInv, ReaderInv, JobInv, Webhook PROVE JobInv'
<1>1. /\ UNCHANGED reader /\ delivered \in Nat
      /\ \A j \in MediaJob : j[1] \in Files /\ j[2] \in Nat
      /\ mediaJobs \in [MediaJob -> MediaList]
  BY TurnsAssumption
     DEF Webhook, Ingest, Enqueue, EnqueueLost, Queue, CommitDelivery, RollBack, workers,
         MediaJob, TypeInv, TypeOK
<1>2. \A r \in Readers : reader[r].stage # "idle" => Holds(r) \in MediaJob
  BY DEF ReaderInv, Holds
<1>3. ASSUME UNCHANGED mediaJobs, \A j \in MediaJob : Issued(j) => Issued(j)'
      PROVE  JobInv'
  BY <1>1, <1>2, <1>3 DEF JobInv, Holds
<1>4. ASSUME NEW payload \in SUBSET Messages, Ingest(payload) PROVE JobInv'
  <2>1. UNCHANGED mediaJobs /\ delivered' = delivered + 1
    BY <1>4 DEF Ingest, queues
  <2>2. QED
    BY <1>1, <1>3, <2>1 DEF Issued
<1>5. ASSUME NEW messages, Queue(messages) PROVE JobInv'
  <2>1. /\ hook.stage = "flushed" /\ hook'.stage = "queued" /\ delivered' = delivered
        /\ mediaJobs' = [j \in MediaJob |-> IF j[1] \in messages /\ j[2] = delivered
                                           THEN "pending" ELSE mediaJobs[j]]
    BY <1>5 DEF Queue, TypeInv, TypeOK
  <2>2. \A j \in MediaJob : mediaJobs'[j] = mediaJobs[j] \/ j[2] = delivered
    BY <2>1
  <2>3. \A j \in MediaJob : (Issued(j) => Issued(j)' /\ j[2] # delivered)
                            /\ (j[2] = delivered => Issued(j)')
    BY <1>1, <2>1 DEF Issued
  <2>4. QED
    BY <1>1, <1>2, <2>2, <2>3 DEF JobInv, Holds
<1>6. CASE CommitDelivery \/ RollBack
  <2>1. UNCHANGED <<mediaJobs, delivered>> /\ hook'.stage = "idle"
    BY <1>6 DEF CommitDelivery, RollBack, Mishap, NoDelivery, queues, bounds
  <2>2. QED
    BY <1>3, <2>1 DEF Issued
<1>7. QED
  BY <1>4, <1>5, <1>6 DEF Webhook, Enqueue, EnqueueLost

LEMMA JobReader ==
    ASSUME TypeInv, ReaderInv, JobInv, NEW r \in Readers,
           ReaderStep(r) \/ AskLost(r) \/ ReadFails(r) \/ ReaderDies(r)
    PROVE  JobInv'
<1>1. /\ UNCHANGED <<hook, delivered>> /\ mediaJobs \in [MediaJob -> MediaList]
      /\ reader \in [Readers -> ReaderState]
  BY DEF ReaderStep, TakeFile, RowMissing, OpenFile, KeepWaiting, AskTurn, CommitFile,
         ReleaseFile, DeadLetterFile, Process, AskLost, ReadFails, ReaderDies, Mishap,
         bounds, TypeInv, TypeOK
<1>2. PICK new, old :
        /\ old = reader[r] /\ new = reader'[r]
        /\ \A q \in Readers : q # r => reader'[q] = reader[q]
  BY <1>1
     DEF ReaderStep, TakeFile, RowMissing, OpenFile, KeepWaiting, AskTurn, CommitFile,
         ReleaseFile, DeadLetterFile, Process, AskLost, ReadFails, ReaderDies, Reads
<1>3. /\ \A q \in Readers : reader[q].stage # "idle" => Holds(q) \in MediaJob
      /\ \A j \in MediaJob : Issued(j)' <=> Issued(j)
      /\ \A q \in Readers : q # r => Holds(q)' = Holds(q)
      /\ Holds(r) = old.job /\ Holds(r)' = new.job
  BY <1>1, <1>2 DEF ReaderInv, Holds, Issued
<1>4. CASE \E j \in MediaJob : TakeFile(r, j)
  <2>1. PICK j \in MediaJob :
          /\ mediaJobs[j] = "pending" /\ mediaJobs' = [mediaJobs EXCEPT ![j] = "inflight"]
          /\ reader' = [reader EXCEPT ![r] = [NotReading EXCEPT !.stage = "open", !.job = j]]
    BY <1>4 DEF TakeFile
  <2>2. new.job = j
    BY <1>1, <1>2, <2>1 DEF NotReading
  <2>3. mediaJobs'[j] = "inflight" /\ \A i \in MediaJob : i # j => mediaJobs'[i] = mediaJobs[i]
    BY <1>1, <2>1
  <2>4. Issued(j) /\ \A q \in Readers : reader[q].stage # "idle" => Holds(q) # j
    BY <2>1 DEF JobInv
  <2>5. QED
    BY <1>2, <1>3, <2>2, <2>3, <2>4 DEF JobInv
<1>5. ASSUME old.stage # "idle", new.stage = "idle" \/ new.job = old.job,
             \A j \in MediaJob : mediaJobs'[j] = mediaJobs[j]
                                 \/ (j = old.job /\ mediaJobs'[j] # "pending")
      PROVE  JobInv'
  <2>1. Issued(old.job) /\ old.job \in MediaJob
        /\ \A q \in Readers : q # r /\ reader[q].stage # "idle" => Holds(q) # old.job
    BY <1>2, <1>3, <1>5 DEF JobInv
  <2>2. \A j \in MediaJob : mediaJobs'[j] # "none" => Issued(j)
    BY <1>5, <2>1 DEF JobInv
  <2>3. \A q \in Readers : q # r => Holds(q)' = Holds(q) /\ reader'[q].stage = reader[q].stage
    BY <1>2, <1>3
  <2>4. ASSUME NEW q \in Readers, reader'[q].stage # "idle"
        PROVE  /\ reader[q].stage # "idle" /\ Holds(q)' = Holds(q)
               /\ mediaJobs'[Holds(q)] # "pending"
    BY <1>2, <1>3, <1>5, <2>1, <2>3, <2>4 DEF JobInv
  <2>5. QED
    BY <1>3, <2>2, <2>4 DEF JobInv
<1>6. CASE RowMissing(r) \/ OpenFile(r)
  BY <1>1, <1>2, <1>5, <1>6 DEF RowMissing, OpenFile, Reads, ReaderState, queues
<1>7. CASE KeepWaiting(r) \/ AskTurn(r) \/ AskLost(r)
  <2>1. Process(r) /\ UNCHANGED mediaJobs
    BY <1>7 DEF KeepWaiting, AskTurn, AskLost, Process
  <2>2. PICK result :
          reader' = [reader EXCEPT ![r].stage = "commit", ![r].result = result]
    BY <2>1 DEF Process
  <2>3. QED
    BY <1>1, <1>2, <1>5, <2>1, <2>2 DEF Process, ReaderState
<1>8. CASE CommitFile(r)
  BY <1>1, <1>2, <1>5, <1>8 DEF CommitFile, ReaderState, queues
<1>9. CASE ReadFails(r)
  <2>1. new.job = old.job /\ old.stage # "idle"
    BY <1>1, <1>2, <1>9 DEF ReadFails, Reads, ReaderState
  <2>2. mediaJobs' = [mediaJobs EXCEPT ![old.job] = "none"]
    BY <1>3, <1>9 DEF ReadFails, Lists
  <2>3. QED
    BY <1>1, <1>5, <2>1, <2>2
<1>10. CASE ReleaseFile(r) \/ DeadLetterFile(r)
  <2>1. new.stage = "idle" /\ old.stage # "idle"
    BY <1>1, <1>2, <1>10 DEF ReleaseFile, DeadLetterFile, NotReading
  <2>2. PICK list \in {"none", "failed"} : mediaJobs' = [mediaJobs EXCEPT ![old.job] = list]
    BY <1>3, <1>10 DEF ReleaseFile, DeadLetterFile, Lists
  <2>3. QED
    BY <1>1, <1>5, <2>1, <2>2
<1>11. CASE ReaderDies(r)
  BY <1>1, <1>2, <1>5, <1>11 DEF ReaderDies, NotReading, queues
<1>12. QED
  BY <1>4, <1>6, <1>7, <1>8, <1>9, <1>10, <1>11 DEF ReaderStep

(* The agent workers and people leave the files and their jobs alone. *)

LEMMA FilesAlone ==
    ASSUME TypeInv, "requeue" \notin Faults,
           \/ \E a \in Agents : AgentStep(a) \/ TurnFails(a) \/ AgentDies(a)
           \/ People \/ UNCHANGED vars
    PROVE  UNCHANGED <<stored, file, hook, reader, mediaJobs, owed, delivered>>
<1>1. ASSUME NEW a \in Agents, AgentStep(a) \/ TurnFails(a) \/ AgentDies(a)
      PROVE  UNCHANGED <<stored, file, hook, reader, mediaJobs, owed, delivered>>
  <2>1. UNCHANGED delivered
    BY <1>1 DEF AgentStep, Take, StaySilent, BeginTurn, NoReading, Read, ReadHistory,
         SayNothing, Stage, Send, Leave, Release, CannotAnswer, Raise, DeadLetter,
         TurnFails, AgentDies, Mishap, bounds
  <2>2. QED
    BY <1>1, <2>1, OwnTurn
<1>2. QED
  BY <1>1 DEF People, SetMode, SetPriority, ChangeAnswerer, Requeue, workers, queues, rows,
     history, bounds, vars

LEMMA NextJobInv ==
    ASSUME TypeInv, ReaderInv, JobInv, "requeue" \notin Faults, [Next]_vars PROVE JobInv'
<1>1. ASSUME UNCHANGED <<hook, reader, mediaJobs, delivered>> PROVE JobInv'
  BY <1>1 DEF JobInv, Issued, Holds
<1>2. QED
  BY <1>1, FilesAlone, JobWebhook, JobReader DEF Next

Job(f) == <<f, file[f].delivery>>

Live(f) ==
    /\ file[f].delivery > 0
    /\ \/ mediaJobs[Job(f)] = "pending"
       \/ \E r \in Readers : reader[r].stage \in {"open", "process"} /\ Holds(r) = Job(f)

AskInv ==
    /\ \A f \in Files : f \in stored <=> file[f].delivery > 0
    /\ \A f \in Files : Live(f) => file[f].status = "pending" /\ owed >= 1
    /\ \A r \in Readers : reader[r].stage \in {"process", "commit"} => RowThere(r)
    /\ owed >= 0

LEMMA InitAskInv == Init => AskInv
  BY DEF Init, AskInv, NotReading, Live

\* The job of a committed file, seen from the worker that holds it.
LEMMA HeldJob ==
    ASSUME TypeInv, ReaderInv, NEW r \in Readers, reader[r].stage # "idle"
    PROVE  /\ Holds(r)[1] \in Files /\ Holds(r) \in MediaJob
           /\ RowThere(r) => Holds(r) = Job(Holds(r)[1]) /\ file[Holds(r)[1]].delivery > 0
           /\ \A f \in Files : Holds(r) = Job(f) => f = Holds(r)[1] /\ RowThere(r)
<1>1. Holds(r) \in Files \X (1..MaxDeliveries)
  BY DEF ReaderInv, Holds, MediaJob
<1>2. PICK f \in Files, d \in 1..MaxDeliveries : Holds(r) = <<f, d>>
  BY <1>1
<1>3. QED
  BY <1>1, <1>2, TurnsAssumption DEF RowThere, Job, MediaJob

LEMMA AskSame ==
    ASSUME AskInv, UNCHANGED <<stored, file, owed>>,
           \A f \in Files : Live(f)' => Live(f),
           \A r \in Readers : reader'[r].stage \in {"process", "commit"} => RowThere(r)'
    PROVE  AskInv'
  BY DEF AskInv

LEMMA AskWebhook ==
    ASSUME TypeInv, ReaderInv, HeedInv, JobInv, AskInv, Webhook PROVE AskInv'
<1>1. UNCHANGED reader /\ file \in [Files -> FileRow] /\ owed \in Int /\ delivered \in Nat
  BY TurnsAssumption
     DEF Webhook, Ingest, Enqueue, EnqueueLost, Queue, CommitDelivery, RollBack, workers,
         TypeInv, TypeOK
<1>2. CASE UNCHANGED <<stored, file, owed, mediaJobs>>
  BY <1>1, <1>2, AskSame DEF Live, Job, Holds, RowThere, AskInv
<1>3. ASSUME NEW messages, Queue(messages), messages \subseteq hook.fresh PROVE AskInv'
  <2>1. /\ UNCHANGED <<stored, file, owed>> /\ hook.fresh \cap stored = {}
        /\ mediaJobs' = [j \in MediaJob |-> IF j[1] \in messages /\ j[2] = delivered
                                           THEN "pending" ELSE mediaJobs[j]]
    BY <1>3 DEF Queue, rows, HeedInv, Gate
  <2>2. ASSUME NEW f \in Files, Live(f)' PROVE Live(f)
    <3>1. f \in stored
      BY <2>1, <2>2 DEF Live, AskInv
    <3>2. Job(f)' = Job(f) /\ Job(f)[1] = f /\ f \notin messages
      BY <1>3, <2>1, <3>1 DEF Job
    <3>3. Job(f) \in MediaJob
      BY <1>1, <2>1, <2>2 DEF Live, Job, MediaJob, FileRow
    <3>4. mediaJobs'[Job(f)] = mediaJobs[Job(f)]
      BY <2>1, <3>2, <3>3
    <3>5. QED
      BY <1>1, <2>1, <2>2, <3>2, <3>4 DEF Live, Holds
  <2>3. QED
    BY <1>1, <2>1, <2>2, AskSame DEF AskInv, RowThere, Holds
<1>4. CASE CommitDelivery
  <2>1. /\ stored' = stored \cup hook.fresh /\ UNCHANGED mediaJobs
        /\ file' = [f \in Files |-> IF f \in hook.fresh
                                   THEN [status |-> "pending", delivery |-> delivered]
                                   ELSE file[f]]
        /\ owed' = IF hook.fresh \cap Files = {} THEN owed ELSE owed + 1
        /\ hook.fresh \cap stored = {} /\ delivered > 0
    BY <1>1, <1>4 DEF CommitDelivery, queues, HeedInv, Gate, TypeInv, OwedBound, AskInv
  <2>2. owed >= 0 /\ owed' >= owed /\ owed' >= 0 /\ (hook.fresh \cap Files # {} => owed' >= 1)
        /\ owed' \in Int
    BY <1>1, <2>1 DEF AskInv
  <2>3. ASSUME NEW f \in Files
        PROVE  /\ f \in stored' <=> file'[f].delivery > 0
               /\ Live(f)' => file'[f].status = "pending" /\ owed' >= 1
    <3>1. CASE f \in hook.fresh
      BY <2>1, <2>2, <3>1
    <3>2. CASE f \notin hook.fresh
      <4>1. file'[f] = file[f]
        BY <2>1, <3>2
      <4>2. Live(f)' <=> Live(f)
        BY <1>1, <2>1, <4>1 DEF Live, Job, Holds
      <4>3. QED
        BY <1>1, <2>1, <2>2, <3>2, <4>1, <4>2 DEF AskInv
    <3>3. QED
      BY <3>1, <3>2
  <2>4. ASSUME NEW r \in Readers, reader'[r].stage \in {"process", "commit"}
        PROVE  RowThere(r)'
    <3>1. reader[r].stage \in {"process", "commit"} /\ RowThere(r)
      BY <1>1, <2>4 DEF AskInv
    <3>2. Holds(r)[1] \in Files /\ file[Holds(r)[1]].delivery > 0
      BY <3>1, HeldJob
    <3>3. Holds(r)[1] \notin hook.fresh
      BY <2>1, <3>2 DEF AskInv
    <3>4. file'[Holds(r)[1]] = file[Holds(r)[1]] /\ Holds(r)' = Holds(r)
      BY <1>1, <2>1, <3>2, <3>3 DEF Holds
    <3>5. QED
      BY <3>1, <3>4 DEF RowThere
  <2>5. QED
    BY <2>2, <2>3, <2>4 DEF AskInv
<1>5. QED
  BY <1>2, <1>3, <1>4 DEF Webhook, Ingest, Enqueue, EnqueueLost, RollBack, Queue, rows, queues, history

LEMMA AskReader ==
    ASSUME TypeInv, ReaderInv, JobInv, AskInv, NEW r \in Readers,
           ReaderStep(r) \/ AskLost(r) \/ ReadFails(r) \/ ReaderDies(r)
    PROVE  AskInv'
<1>1. /\ UNCHANGED stored /\ mediaJobs \in [MediaJob -> MediaList]
      /\ reader \in [Readers -> ReaderState] /\ file \in [Files -> FileRow] /\ owed \in Int
  <2>1. UNCHANGED stored
    BY DEF ReaderStep, TakeFile, RowMissing, OpenFile, KeepWaiting, AskTurn, CommitFile,
         ReleaseFile, DeadLetterFile, Process, AskLost, ReadFails, ReaderDies, rows
  <2>2. QED
    BY <2>1, TurnsAssumption DEF TypeInv, TypeOK
<1>2. PICK new, old :
        /\ old = reader[r] /\ new = reader'[r]
        /\ \A q \in Readers : q # r => reader'[q] = reader[q]
  BY <1>1
     DEF ReaderStep, TakeFile, RowMissing, OpenFile, KeepWaiting, AskTurn, CommitFile,
         ReleaseFile, DeadLetterFile, Process, AskLost, ReadFails, ReaderDies, Reads
<1>3. /\ \A q \in Readers : q # r => Holds(q)' = Holds(q) /\ reader'[q].stage = reader[q].stage
      /\ Holds(r) = old.job /\ Holds(r)' = new.job
  BY <1>2 DEF Holds
<1>4. ASSUME UNCHANGED <<file, owed>>,
             new.stage \in {"open", "process", "commit"} => new.job = old.job,
             new.stage \in {"open", "process"} => old.stage \in {"open", "process"},
             new.stage \in {"process", "commit"} => RowThere(r),
             \A j \in MediaJob : mediaJobs'[j] = "pending" => mediaJobs[j] = "pending"
      PROVE  AskInv'
  <2>1. ASSUME NEW f \in Files, Live(f)' PROVE Live(f)
    <3>1. Job(f)' = Job(f) /\ Job(f) \in MediaJob /\ file[f].delivery > 0
      BY <1>1, <1>4, <2>1 DEF Live, Job, MediaJob, FileRow
    <3>2. \A q \in Readers : reader'[q].stage \in {"open", "process"} =>
            reader[q].stage \in {"open", "process"} /\ Holds(q)' = Holds(q)
      BY <1>2, <1>3, <1>4
    <3>3. QED
      BY <1>4, <2>1, <3>1, <3>2 DEF Live
  <2>2. ASSUME NEW q \in Readers, reader'[q].stage \in {"process", "commit"}
        PROVE  RowThere(q)'
    <3>1. RowThere(q) /\ Holds(q)' = Holds(q)
      BY <1>2, <1>3, <1>4, <2>2 DEF AskInv
    <3>2. QED
      BY <1>4, <3>1 DEF RowThere
  <2>3. QED
    BY <1>1, <1>4, <2>1, <2>2, AskSame
<1>5. CASE \E j \in MediaJob : TakeFile(r, j)
  <2>1. PICK j \in MediaJob :
          /\ mediaJobs[j] = "pending" /\ mediaJobs' = [mediaJobs EXCEPT ![j] = "inflight"]
          /\ reader' = [reader EXCEPT ![r] = [NotReading EXCEPT !.stage = "open", !.job = j]]
          /\ UNCHANGED <<file, owed>>
    BY <1>5 DEF TakeFile, rows, history
  <2>2. new.job = j /\ new.stage = "open"
    BY <1>1, <1>2, <2>1 DEF NotReading
  <2>3. \A i \in MediaJob : mediaJobs'[i] = "pending" => mediaJobs[i] = "pending"
    BY <1>1, <2>1
  <2>4. ASSUME NEW f \in Files, Live(f)' PROVE Live(f)
    <3>1. Job(f)' = Job(f) /\ Job(f) \in MediaJob /\ file[f].delivery > 0
      BY <1>1, <2>1, <2>4 DEF Live, Job, MediaJob, FileRow
    <3>2. CASE Job(f) = j
      BY <2>1, <3>1, <3>2 DEF Live
    <3>3. CASE Job(f) # j
      BY <1>2, <1>3, <2>2, <2>3, <2>4, <3>1, <3>3 DEF Live
    <3>4. QED
      BY <3>2, <3>3
  <2>5. ASSUME NEW q \in Readers, reader'[q].stage \in {"process", "commit"}
        PROVE  RowThere(q)'
    <3>1. q # r
      BY <1>2, <2>2, <2>5
    <3>2. RowThere(q) /\ Holds(q)' = Holds(q)
      BY <1>3, <2>5, <3>1 DEF AskInv
    <3>3. QED
      BY <2>1, <3>2 DEF RowThere
  <2>6. QED
    BY <1>1, <2>1, <2>4, <2>5, AskSame
<1>6. CASE RowMissing(r)
  BY <1>1, <1>2, <1>4, <1>6 DEF RowMissing, Reads, ReaderState, rows, queues
<1>7. CASE OpenFile(r)
  BY <1>1, <1>2, <1>4, <1>7 DEF OpenFile, Reads, ReaderState, rows, queues, history
<1>8. CASE ReleaseFile(r) \/ DeadLetterFile(r) \/ ReadFails(r)
  <2>1. PICK list \in {"none", "failed"} : mediaJobs' = [mediaJobs EXCEPT ![old.job] = list]
    BY <1>3, <1>8 DEF ReleaseFile, DeadLetterFile, ReadFails, Lists
  <2>2. new.stage \in {"idle", "failing"}
    BY <1>1, <1>2, <1>8 DEF ReleaseFile, DeadLetterFile, NotReading, ReadFails, Reads, ReaderState
  <2>3. UNCHANGED <<file, owed>>
    BY <1>8 DEF ReleaseFile, DeadLetterFile, ReadFails, rows, history
  <2>4. new.stage \notin {"open", "process", "commit"}
    BY <2>2
  <2>5. \A j \in MediaJob : mediaJobs'[j] = "pending" => mediaJobs[j] = "pending"
    BY <1>1, <2>1
  <2>6. QED
    BY <1>4, <2>3, <2>4, <2>5
<1>9. CASE ReaderDies(r)
  BY <1>1, <1>2, <1>4, <1>9 DEF ReaderDies, NotReading, rows, queues, history
<1>10. ASSUME Process(r)
       PROVE  /\ old.stage = "process" /\ new.stage = "commit" /\ new.job = old.job
              /\ UNCHANGED <<file, mediaJobs>> /\ RowThere(r)
  <2>1. PICK result :
          reader' = [reader EXCEPT ![r].stage = "commit", ![r].result = result]
    BY <1>10 DEF Process
  <2>2. QED
    BY <1>1, <1>2, <1>10, <2>1 DEF Process, ReaderState, rows, AskInv
<1>11. CASE KeepWaiting(r) \/ AskLost(r)
  BY <1>1, <1>4, <1>10, <1>11 DEF KeepWaiting, AskLost
<1>12. CASE AskTurn(r)
  <2>1. Process(r) /\ OthersUnread(r) = {} /\ owed' = IF owed >= 0 THEN owed - 1 ELSE owed
    BY <1>12 DEF AskTurn
  <2>2. PICK g \in Files : g = Holds(r)[1] /\ Holds(r) = Job(g) /\ file[g].delivery > 0
    BY <1>2, <1>10, <2>1, HeldJob
  <2>3. Live(g) /\ owed >= 1
    <3>1. Live(g)
      BY <1>2, <1>10, <2>1, <2>2 DEF Live
    <3>2. QED
      BY <3>1 DEF AskInv
  <2>4. ASSUME NEW f \in Files PROVE ~Live(f)'
    <3>1. SUFFICES ASSUME Live(f)' PROVE FALSE
      OBVIOUS
    <3>2. Job(f)' = Job(f) /\ file[f].delivery > 0
      BY <1>10, <2>1, <3>1 DEF Live, Job
    <3>3. \/ mediaJobs[Job(f)] = "pending"
          \/ \E q \in Readers : /\ q # r /\ reader[q].stage \in {"open", "process"}
                                /\ Holds(q) = Job(f)
      BY <1>2, <1>3, <1>10, <2>1, <3>1, <3>2 DEF Live
    <3>4. Live(f)
      BY <3>2, <3>3 DEF Live
    <3>5. f = g
      BY <2>1, <2>2, <3>4 DEF AskInv, Unread, OthersUnread
    <3>6. QED
      BY <1>2, <1>10, <2>1, <2>2, <3>3, <3>5 DEF JobInv
  <2>5. \A q \in Readers : reader'[q].stage \in {"process", "commit"} => RowThere(q)'
    BY <1>2, <1>3, <1>10, <2>1 DEF AskInv, RowThere
  <2>6. owed' >= 0
    BY <1>1, <2>1, <2>3
  <2>7. QED
    BY <1>1, <1>10, <2>1, <2>4, <2>5, <2>6 DEF AskInv
<1>13. CASE CommitFile(r)
  <2>1. /\ old.stage = "commit" /\ new.stage = "done" /\ UNCHANGED <<mediaJobs, owed>>
        /\ file' = [file EXCEPT ![Holds(r)[1]].status = old.result]
    BY <1>1, <1>2, <1>13 DEF CommitFile, queues, ReaderState, history
  <2>2. PICK g \in Files : g = Holds(r)[1] /\ Holds(r) = Job(g)
    BY <1>2, <2>1, HeldJob DEF AskInv
  <2>3. /\ \A f \in Files : file'[f].delivery = file[f].delivery
        /\ \A f \in Files : f # g => file'[f] = file[f]
    BY <1>1, <2>1, <2>2 DEF FileRow
  <2>4. ASSUME NEW f \in Files, Live(f)' PROVE Live(f) /\ f # g
    <3>1. Job(f)' = Job(f) /\ file[f].delivery > 0
      BY <2>3, <2>4 DEF Live, Job
    <3>2. \/ mediaJobs[Job(f)] = "pending"
          \/ \E q \in Readers : /\ q # r /\ reader[q].stage \in {"open", "process"}
                                /\ Holds(q) = Job(f)
      BY <1>2, <1>3, <2>1, <2>4, <3>1 DEF Live
    <3>3. QED
      BY <1>2, <2>1, <2>2, <3>1, <3>2 DEF JobInv, Live
  <2>5. ASSUME NEW q \in Readers, reader'[q].stage \in {"process", "commit"}
        PROVE  RowThere(q)'
    <3>1. q # r /\ RowThere(q) /\ reader[q].stage # "idle" /\ Holds(q)' = Holds(q)
      BY <1>2, <1>3, <2>1, <2>5 DEF AskInv
    <3>2. Holds(q)[1] \in Files
      BY <3>1, HeldJob
    <3>3. QED
      BY <2>3, <3>1, <3>2 DEF RowThere
  <2>6. QED
    BY <1>1, <2>1, <2>3, <2>4, <2>5 DEF AskInv
<1>14. QED
  BY <1>5, <1>6, <1>7, <1>8, <1>9, <1>11, <1>12, <1>13 DEF ReaderStep

LEMMA NextAskInv ==
    ASSUME TypeInv, ReaderInv, HeedInv, JobInv, AskInv, "requeue" \notin Faults, [Next]_vars
    PROVE  AskInv'
<1>1. ASSUME UNCHANGED <<stored, file, reader, mediaJobs, owed>> PROVE AskInv'
  BY <1>1, AskSame DEF AskInv, Live, Job, Holds, RowThere
<1>2. QED
  BY <1>1, FilesAlone, AskWebhook, AskReader DEF Next

\* As long as nobody puts a job back by hand, reading the files of one delivery
\* asks for at most one turn, however many files and media workers there are and
\* whatever fails (ConversationMediaGate counts under the conversation's lock).
THEOREM OneAnswerForEach == ASSUME "requeue" \notin Faults PROVE Spec => []OneAnswerPerDelivery
<1>1. Init => TypeInv /\ ReaderInv /\ HeedInv /\ JobInv /\ AskInv
  BY InitTypeInv, InitReaderInv, InitHeedInv, InitJobInv, InitAskInv
<1>2. TypeInv /\ ReaderInv /\ HeedInv /\ JobInv /\ AskInv /\ [Next]_vars
        => (TypeInv /\ ReaderInv /\ HeedInv /\ JobInv /\ AskInv)'
  BY NextTypeInv, NextReaderInv, NextHeedInv, NextJobInv, NextAskInv
<1>3. AskInv => OneAnswerPerDelivery
  BY DEF AskInv, OneAnswerPerDelivery
<1>4. QED
  BY <1>1, <1>2, <1>3, PTL DEF Spec
=============================================================================
