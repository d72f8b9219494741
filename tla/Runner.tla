------------------------------- MODULE Runner --------------------------------
(***************************************************************************)
(* The worker processes: their loops, how they are asked to stop, and the  *)
(* keys in Redis by which they are known to be alive.                      *)
(*                                                                         *)
(* Source: app/workers/runner.py, app/workers/heartbeat.py and the         *)
(* run_forever of the workers under app/workers/.                          *)
(*                                                                         *)
(* A process is one event loop with a task per kind of worker and one that *)
(* beats.  A key belongs to a kind, not to a process: replicas share it.   *)
(***************************************************************************)
EXTENDS Integers

CONSTANTS
    Processes,      \* worker containers
    Queued,         \* kinds that wait for a job in Redis
    Swept,          \* kinds that sweep, then wait to be woken
    Interval,       \* DEFAULT_INTERVAL_SECONDS, in ticks
    Ttl,            \* DEFAULT_TTL_SECONDS, in ticks
    Late,           \* bound: ticks a round of beats may take
    MaxMisses,      \* bound: beats Redis fails
    MaxLives        \* bound: processes started

WorkerKinds == Queued \cup Swept

ASSUME RunnerAssumption ==
    /\ Queued \cap Swept = {}
    /\ Interval \in Nat \ {0} /\ Late \in Nat /\ Ttl = 3 * Interval
    /\ 3 * Late < Interval
    /\ MaxMisses \in Nat /\ MaxLives \in Nat

VARIABLES
    process,     \* each process: its beats and whether it is asked to stop
    loop,        \* each of its loops
    key,         \* the time to live of each kind's key
    extra,       \* history: jobs begun by each loop since the stop
    missed,      \* history: beats in a row each process has failed, per kind
    misses,      \* bound: beats failed so far
    lives        \* bound: processes started so far

runnerVars == <<process, loop, key, extra, missed, misses, lives>>

\* todo: kinds to beat in this round; due: ticks to the next; late: ticks since
\* this one began.
Down == [state |-> "down", todo |-> {}, due |-> 0, late |-> 0, stop |-> FALSE]

\* More than any blip: a process that has not beaten yet.
NotYet == MaxMisses + 3

RunnerInit ==
    /\ process = [p \in Processes |-> Down]
    /\ loop = [p \in Processes |-> [k \in WorkerKinds |-> "ended"]]
    /\ key = [k \in WorkerKinds |-> 0]
    /\ extra = [p \in Processes |-> [k \in WorkerKinds |-> 0]]
    /\ missed = [p \in Processes |-> [k \in WorkerKinds |-> NotYet]]
    /\ misses = 0
    /\ lives = 0

Up(p) == process[p].state = "up"

\* main: every loop has begun by the time a signal can be handled.
StartProcess(p) ==
    /\ process[p].state = "down"
    /\ lives < MaxLives
    /\ lives' = lives + 1
    /\ process' = [process EXCEPT ![p] =
            [Down EXCEPT !.state = "up", !.todo = WorkerKinds]]
    /\ loop' = [loop EXCEPT ![p] =
            [k \in WorkerKinds |-> IF k \in Queued THEN "reserve" ELSE "busy"]]
    /\ extra' = [extra EXCEPT ![p] = [k \in WorkerKinds |-> 0]]
    /\ missed' = [missed EXCEPT ![p] = [k \in WorkerKinds |-> NotYet]]
    /\ UNCHANGED <<key, misses>>

\* A crash, or a hang that stops everything.
DieOrHang(p) ==
    /\ Up(p)
    /\ \E state \in {"down", "hung"} :
        process' = [process EXCEPT ![p] = [Down EXCEPT !.state = state]]
    /\ loop' = [loop EXCEPT ![p] = [k \in WorkerKinds |-> "ended"]]
    /\ UNCHANGED <<key, extra, missed, misses, lives>>

-----------------------------------------------------------------------------
(* Loops: run_forever                                                      *)

\* SIGTERM: stop() of every worker; what waits for its next sweep is woken.
RequestStop(p) ==
    /\ Up(p) /\ ~process[p].stop
    /\ process' = [process EXCEPT ![p].stop = TRUE]
    /\ UNCHANGED <<loop, key, extra, missed, misses, lives>>

Looping(p, k, to) ==
    /\ loop' = [loop EXCEPT ![p][k] = to]
    /\ extra' = IF to = "busy" /\ process[p].stop
                THEN [extra EXCEPT ![p][k] = @ + 1] ELSE extra
    /\ UNCHANGED <<process, key, missed, misses, lives>>

\* Mutant: the next job is asked for whatever has been asked.
GoOn(p, k) == IF k \in Queued THEN "reserve" ELSE "busy"

\* while self._running
Again(p, k) == IF process[p].stop THEN "ended"
               ELSE IF k \in Queued THEN "reserve" ELSE "busy"

\* A job is reserved: one that comes after the stop is handled all the same.
ReserveJob(p, k) ==
    /\ Up(p)
    /\ loop[p][k] = "reserve"
    /\ Looping(p, k, "busy")

\* No job in time, or Redis is down.
NoJob(p, k) ==
    /\ Up(p)
    /\ loop[p][k] = "reserve"
    /\ Looping(p, k, Again(p, k))

\* run_once is over, well or not.
FinishJob(p, k) ==
    /\ Up(p)
    /\ loop[p][k] = "busy"
    /\ Looping(p, k, IF k \in Swept THEN "pause" ELSE Again(p, k))

NextSweep(p, k) ==
    /\ Up(p)
    /\ loop[p][k] = "pause"
    /\ Looping(p, k, Again(p, k))

\* gather returns once every loop has; the beat is cancelled.
Exit(p) ==
    /\ Up(p)
    /\ \A k \in WorkerKinds : loop[p][k] = "ended"
    /\ process' = [process EXCEPT ![p] = Down]
    /\ UNCHANGED <<loop, key, extra, missed, misses, lives>>

-----------------------------------------------------------------------------
(* Heartbeats: beat_while_running and Heartbeat.beat                       *)

\* Mutant: the next round is due when the keys are.
WaitForTtl(left, due) == IF left = {} THEN Ttl ELSE due

\* wait_for(stopping.wait(), timeout=interval_seconds)
WaitForInterval(left, due) == IF left = {} THEN Interval ELSE due

Beaten(p, k) ==
    LET left == process[p].todo \ {k} IN
    process' = [process EXCEPT
            ![p].todo = left,
            ![p].due = WaitForInterval(left, @)]

Beat(p, k) ==
    /\ Up(p) /\ k \in process[p].todo
    /\ Beaten(p, k)
    /\ key' = [key EXCEPT ![k] = Ttl]
    /\ missed' = [missed EXCEPT ![p][k] = 0]
    /\ UNCHANGED <<loop, extra, misses, lives>>

\* A failure of Redis is swallowed.
MissBeat(p, k) ==
    /\ Up(p) /\ k \in process[p].todo
    /\ misses < MaxMisses
    /\ misses' = misses + 1
    /\ Beaten(p, k)
    /\ missed' = [missed EXCEPT ![p][k] = IF @ = NotYet THEN @ ELSE @ + 1]
    /\ UNCHANGED <<loop, key, extra, lives>>

Aged(p) ==
    IF ~Up(p) THEN process[p]
    ELSE IF process[p].todo # {} THEN [process[p] EXCEPT !.late = @ + 1]
    ELSE IF process[p].due > 1 THEN [process[p] EXCEPT !.due = @ - 1]
    ELSE [process[p] EXCEPT !.due = 0, !.todo = WorkerKinds, !.late = 0]

\* Redis drops a key at the end of its time.
TimeGoesOn ==
    /\ \A p \in Processes : Up(p) /\ process[p].todo # {} => process[p].late < Late
    /\ process' = [p \in Processes |-> Aged(p)]
    /\ key' = [k \in WorkerKinds |-> IF key[k] > 0 THEN key[k] - 1 ELSE 0]
    /\ UNCHANGED <<loop, extra, missed, misses, lives>>

RunnerNext ==
    \/ \E p \in Processes :
        \/ StartProcess(p) \/ DieOrHang(p) \/ RequestStop(p) \/ Exit(p)
        \/ \E k \in WorkerKinds :
            \/ ReserveJob(p, k) \/ NoJob(p, k) \/ FinishJob(p, k)
            \/ NextSweep(p, k) \/ Beat(p, k) \/ MissBeat(p, k)
    \/ TimeGoesOn

RunnerSpec == RunnerInit /\ [][RunnerNext]_runnerVars

\* all_alive: what the container's health check answers.
Healthy == WorkerKinds # {} /\ \A k \in WorkerKinds : key[k] > 0

-----------------------------------------------------------------------------
(* Properties                                                              *)

\* Every variable has its type.
RunnerTypeOK ==
    /\ process \in [Processes -> [state : {"down", "up", "hung"},
                                  todo : SUBSET WorkerKinds, due : 0..Interval,
                                  late : 0..Late, stop : BOOLEAN]]
    /\ loop \in [Processes -> [WorkerKinds -> {"reserve", "busy", "pause", "ended"}]]
    /\ key \in [WorkerKinds -> 0..Ttl]
    /\ extra \in [Processes -> [WorkerKinds -> Nat]]
    /\ missed \in [Processes -> [WorkerKinds -> Nat]]
    /\ misses \in 0..MaxMisses /\ lives \in 0..MaxLives

\* A process that is up is not reported dead for a beat that Redis failed, however
\* late its rounds are.  A loop that is asked to stop begins at most the job it was
\* already waiting for, and a sweep that waits begins none.
WorkersAreSound ==
    /\ \A p \in Processes, k \in WorkerKinds :
        Up(p) /\ missed[p][k] <= 1 => key[k] > 0
    /\ \A p \in Processes, k \in WorkerKinds :
        extra[p][k] <= IF k \in Queued THEN 1 ELSE 0

\* Violated: "three intervals, so two missed beats are a blip and three are a
\* death" (heartbeat.py).  The third beat is due when the key is.
TwoMissesAreABlip ==
    \A p \in Processes, k \in WorkerKinds :
        Up(p) /\ missed[p][k] <= 2 => key[k] > 0

=============================================================================
