--------------------------- MODULE FollowUpsProofs ----------------------------
(***************************************************************************)
(* What holds of nudges for any number of nudges, conversations, workers,  *)
(* webhooks and requests, and whatever crashes, deadlocks or gets lost.    *)
(*                                                                         *)
(* The argument is about what a sweep has in hand.  The rows it has        *)
(* claimed are committed as pending and nobody else writes them, so its    *)
(* image of a row may be compared with the row: whether the message went   *)
(* out, and which attempts are still to be counted or taken back.          *)
(***************************************************************************)
EXTENDS FollowUps, TLAPS, FiniteSetTheorems

RowFields == {"status", "on", "wait", "attempts", "text", "template", "sent"}
SweepFields == {"stage", "todo", "cur", "image", "tried", "touched"}
RequestFields == {"op", "about", "read", "write"}

\* A sweep handles rows it has claimed, and at rest has claimed none.
Shaped(s) ==
    /\ DOMAIN s = SweepFields
    /\ s.stage \in {"idle", "next", "send"}
    /\ DOMAIN s.image \subseteq Nudges
    /\ s.todo \subseteq DOMAIN s.image
    /\ s.stage = "send" => s.cur \in s.todo
    /\ s.stage = "idle" => DOMAIN s.image = {}

Shapes ==
    /\ DOMAIN nudge = Nudges /\ DOMAIN sweep = Sweepers
    /\ DOMAIN accepted = Nudges /\ DOMAIN spare = Nudges
    /\ DOMAIN request = Requests /\ DOMAIN hook = Hooks
    /\ DOMAIN afterClose = Conversations
    /\ silenced \subseteq Nudges
    /\ lost \in Nat
    /\ \A w \in Sweepers : Shaped(sweep[w])

\* A row, what WhatsApp has of it, and the attempts it is entitled to.
RowFits(row, n) ==
    /\ DOMAIN row = RowFields
    /\ row.status \in FollowUpStatus
    /\ row.status # "absent" => row.on \in Conversations
    /\ row.attempts \in Nat
    /\ accepted[n] \in Nat /\ spare[n] \in Nat
    /\ accepted[n] <= 1 + lost
    /\ row.status = "absent" => accepted[n] = 0
    /\ row.status \in {"absent", "pending"} => ~row.sent /\ n \notin silenced
    /\ row.status = "sent" => row.sent
    /\ row.sent => accepted[n] > 0
    /\ row.status = "pending" => row.attempts < MaxAttempts

\* A row that waits is not out but for what was lost, and has its attempts.
Untouched(n) ==
    IsPending(n) /\ NudgeFree(n) =>
        /\ accepted[n] <= lost
        /\ spare[n] >= MaxAttempts - nudge[n].attempts

Rows == \A n \in Nudges : RowFits(nudge[n], n) /\ Untouched(n)

\* What a sweep makes of a row it has claimed.
ImageFits(row, n, waiting, tried) ==
    /\ IsPending(n)
    /\ DOMAIN row = RowFields
    /\ row.status \in {"pending", "sent", "failed", "skipped"}
    /\ row.on = nudge[n].on
    /\ row.attempts \in Nat
    /\ row.status = "sent" => row.sent
    /\ row.sent => accepted[n] > 0
    /\ waiting => row.status = "pending" /\ ~tried
    /\ row.status = "pending" => /\ accepted[n] <= lost /\ ~row.sent
                                 /\ row.attempts < MaxAttempts
                                 /\ spare[n] >= MaxAttempts - row.attempts
    /\ spare[n] >= MaxAttempts - nudge[n].attempts - (IF tried THEN 1 ELSE 0)

HeldBy(w) == DOMAIN sweep[w].image

Held ==
    \A w \in Sweepers : \A n \in HeldBy(w) :
        ImageFits(sweep[w].image[n], n, n \in sweep[w].todo, n \in sweep[w].tried)

\* No row is in two hands, and no conversation has two nudges waiting.
Apart == \A v, w \in Sweepers : v # w => HeldBy(v) \cap HeldBy(w) = {}

Alone == \A m, n \in Nudges :
            IsPending(m) /\ IsPending(n) /\ nudge[m].on = nudge[n].on => m = n

\* While a closed conversation is being written to, it has not been before.
Heard ==
    /\ \A c \in Conversations :
        /\ afterClose[c] \in {0, 1}
        /\ c \notin closed => afterClose[c] = 0
    /\ \A w \in Sweepers :
        sweep[w].stage = "send" => afterClose[nudge[sweep[w].cur].on] = 0

\* The row a request inserts is its own; a row that was read is there.
Asked ==
    \A r \in Requests :
        /\ DOMAIN request[r] = RequestFields
        /\ request[r].op \in {"idle", "create", "reschedule", "cancel"}
        /\ request[r].op # "idle" => request[r].about \in Nudges
        /\ request[r].op \in {"reschedule", "cancel"} =>
                nudge[request[r].about].status # "absent"
        /\ request[r].op = "create" =>
            /\ nudge[request[r].about].status = "absent"
            /\ request[r].write.status = "pending"
            /\ ~request[r].write.sent
            /\ request[r].write.attempts = 0
            /\ request[r].write.on \in Conversations
            /\ DOMAIN request[r].write = RowFields
            /\ \A o \in Requests \ {r} :
                    request[o].op # "idle" => request[o].about # request[r].about

Seen ==
    \A h \in Hooks :
        /\ DOMAIN hook[h] = {"stage", "on", "seen"}
        /\ hook[h].seen \subseteq Nudges
        /\ hook[h].stage # "idle" => hook[h].on \in Conversations
        /\ \A n \in hook[h].seen : nudge[n].status # "absent"

RowInv == Shapes /\ Rows /\ Held /\ Apart /\ Alone
NudgeInv == RowInv /\ Heard /\ Asked /\ Seen

-----------------------------------------------------------------------------
(* The beginning                                                           *)

LEMMA Empty == DOMAIN <<>> = {}
  OBVIOUS

LEMMA RestingShape == Shaped(Resting) /\ DOMAIN Resting.image = {} /\ Resting.stage = "idle"
  BY Empty DEF Resting, Shaped, SweepFields

LEMMA NudgeInit == Init => NudgeInv
<1> SUFFICES ASSUME Init PROVE NudgeInv
  OBVIOUS
<1>1. Shapes
  BY RestingShape DEF Init, Shapes
<1>2. Rows /\ Alone
  BY DEF Init, Rows, Alone, RowFits, RowFields, Untouched, IsPending,
         Unscheduled, FollowUpStatus
<1>3. Held /\ Apart
  BY RestingShape DEF Init, Held, Apart, HeldBy
<1>4. Heard
  BY RestingShape DEF Init, Heard
<1>5. Asked /\ Seen
  BY DEF Init, Asked, Seen, NoRequest, RequestFields, NoReply
<1>6. QED
  BY <1>1, <1>2, <1>3, <1>4, <1>5 DEF NudgeInv, RowInv

-----------------------------------------------------------------------------
(* Steps that leave rows and sweeps alone                                  *)

LEMMA RowsStay ==
    ASSUME RowInv,
           UNCHANGED <<nudge, sweep, accepted, spare, silenced, lost>>,
           DOMAIN request' = Requests, DOMAIN hook' = Hooks,
           DOMAIN afterClose' = Conversations
    PROVE  RowInv'
<1>1. Shapes'
  BY DEF RowInv, Shapes
<1>2. Rows' /\ Alone'
  BY DEF RowInv, Rows, Alone, RowFits, Untouched, IsPending, NudgeFree
<1>3. Held' /\ Apart'
  BY DEF RowInv, Held, Apart, HeldBy, ImageFits, IsPending
<1>4. QED
  BY <1>1, <1>2, <1>3 DEF RowInv

LEMMA HeardStays ==
    ASSUME Heard, UNCHANGED <<nudge, sweep, closed, afterClose>>
    PROVE  Heard'
  BY DEF Heard

LEMMA AskedStays == ASSUME Asked, UNCHANGED <<nudge, request>> PROVE Asked'
  BY DEF Asked

LEMMA SeenStays == ASSUME Seen, UNCHANGED <<nudge, hook>> PROVE Seen'
  BY DEF Seen

\* A request reads: what it has read is not absent, and what it is to insert is
\* nobody else's.
LEMMA BeginKeeps ==
    ASSUME NudgeInv, NEW r \in Requests, NEW op, NEW n \in Nudges, NEW write,
           Begin(r, op, n, write),
           op \in {"create", "reschedule", "cancel"},
           op # "create" => nudge[n].status # "absent",
           op = "create" =>
              /\ nudge[n].status = "absent"
              /\ write.status = "pending" /\ ~write.sent
              /\ write.attempts = 0 /\ write.on \in Conversations
              /\ DOMAIN write = RowFields
              /\ \A o \in Requests : request[o].about # n
    PROVE  NudgeInv'
<1>1. RowInv'
  BY RowsStay DEF Begin, NudgeInv, RowInv, Shapes, history
<1>2. Heard' /\ Seen'
  BY HeardStays, SeenStays DEF Begin, NudgeInv, history
<1>3. /\ \A o \in Requests \ {r} : request'[o] = request[o]
      /\ request'[r].op = op /\ request'[r].about = n /\ request'[r].write = write
      /\ DOMAIN request'[r] = RequestFields
      /\ nudge' = nudge
      /\ request[r].op = "idle"
  BY DEF Begin, NudgeInv, RowInv, Shapes, RequestFields, NoRequest
<1>4. Asked'
  <2> SUFFICES ASSUME NEW q \in Requests
               PROVE  (/\ DOMAIN request[q] = RequestFields
                       /\ request[q].op \in {"idle", "create", "reschedule", "cancel"}
                       /\ request[q].op # "idle" => request[q].about \in Nudges
                       /\ request[q].op \in {"reschedule", "cancel"} =>
                            nudge[request[q].about].status # "absent"
                       /\ request[q].op = "create" =>
                            /\ nudge[request[q].about].status = "absent"
                            /\ request[q].write.status = "pending"
                            /\ ~request[q].write.sent
                            /\ request[q].write.attempts = 0
                            /\ request[q].write.on \in Conversations
                            /\ DOMAIN request[q].write = RowFields
                            /\ \A o \in Requests \ {q} :
                                 request[o].op # "idle" =>
                                    request[o].about # request[q].about)'
    BY DEF Asked
  <2>1. CASE q = r
    BY <1>3, <2>1 DEF NudgeInv, Asked
  <2>2. CASE q # r
    BY <1>3, <2>2 DEF NudgeInv, Asked
  <2>3. QED
    BY <2>1, <2>2
<1>5. QED
  BY <1>1, <1>2, <1>4 DEF NudgeInv

LEMMA ReadScheduleKeeps ==
    ASSUME NudgeInv, NEW r \in Requests, ReadSchedule(r) PROVE NudgeInv'
<1>1. PICK c \in Conversations \ closed, delay \in 1..MaxDelay, means \in Means :
        \/ \E n \in PendingOn(c) :
                Begin(r, "reschedule", n, Scheduled(c, delay, means))
        \/ /\ PendingOn(c) = {}
           /\ \E n \in Nudges :
                /\ nudge[n].status = "absent"
                /\ \A o \in Requests : request[o].about # n
                /\ Begin(r, "create", n, Scheduled(c, delay, means))
  BY DEF ReadSchedule
<1>2. CASE \E n \in PendingOn(c) :
                Begin(r, "reschedule", n, Scheduled(c, delay, means))
  BY <1>2, BeginKeeps DEF PendingOn, IsPending
<1>3. CASE \E n \in Nudges :
                /\ nudge[n].status = "absent"
                /\ \A o \in Requests : request[o].about # n
                /\ Begin(r, "create", n, Scheduled(c, delay, means))
  <2>1. PICK n \in Nudges :
                /\ nudge[n].status = "absent"
                /\ \A o \in Requests : request[o].about # n
                /\ Begin(r, "create", n, Scheduled(c, delay, means))
    BY <1>3
  <2> DEFINE row == Scheduled(c, delay, means)
  <2>2. /\ row.status = "pending" /\ ~row.sent /\ row.attempts = 0
        /\ row.on \in Conversations /\ DOMAIN row = RowFields
    BY DEF Scheduled, RowFields
  <2> HIDE DEF row
  <2>3. Begin(r, "create", n, row)
    BY <2>1 DEF row
  <2>4. QED
    BY <2>1, <2>2, <2>3, BeginKeeps
<1>4. QED
  BY <1>1, <1>2, <1>3

LEMMA ReadCancelKeeps ==
    ASSUME NudgeInv, NEW r \in Requests, ReadCancel(r) PROVE NudgeInv'
  BY BeginKeeps DEF ReadCancel, IsPending

\* A webhook reads and locks.
LEMMA HookKeeps ==
    ASSUME NudgeInv, NEW h \in Hooks,
           ReadPending(h) \/ TouchConversation(h) \/ Queue(h) \/ AbortHook(h)
    PROVE  NudgeInv'
<1>1. /\ UNCHANGED <<nudge, sweep, request, closed, accepted, spare, silenced,
                     afterClose, lost>>
      /\ DOMAIN hook' = Hooks
  BY DEF ReadPending, TouchConversation, Queue, AbortHook, NudgeInv, RowInv,
         Shapes, history, bounds
<1>2. RowInv'
  BY <1>1, RowsStay DEF NudgeInv, RowInv, Shapes
<1>3. Heard' /\ Asked'
  BY <1>1, HeardStays, AskedStays DEF NudgeInv
<1>4. Seen'
  <2>1. CASE ReadPending(h)
    BY <2>1, <1>1 DEF ReadPending, PendingOn, IsPending, NudgeInv, Seen, RowInv, Shapes
  <2>2. CASE TouchConversation(h) \/ Queue(h)
    BY <2>2, <1>1 DEF TouchConversation, Queue, NudgeInv, Seen, RowInv, Shapes
  <2>3. CASE AbortHook(h)
    BY <2>3, <1>1 DEF AbortHook, NoReply, NudgeInv, Seen, RowInv, Shapes
  <2>4. QED
    BY <2>1, <2>2, <2>3
<1>5. QED
  BY <1>2, <1>3, <1>4 DEF NudgeInv

\* Nothing has been sent to an open conversation since it was closed.
LEMMA DoorKeeps ==
    ASSUME NudgeInv, NEW c \in Conversations, Close(c) \/ Reopen(c)
    PROVE  NudgeInv'
<1>1. /\ UNCHANGED <<nudge, sweep, request, hook, accepted, spare, silenced, lost>>
      /\ DOMAIN afterClose' = Conversations
  BY DEF Close, Reopen, NudgeInv, RowInv, Shapes, history, bounds
<1>2. RowInv'
  BY <1>1, RowsStay DEF NudgeInv, RowInv, Shapes
<1>3. Asked' /\ Seen'
  BY <1>1, AskedStays, SeenStays DEF NudgeInv
<1>4. Heard'
  <2>1. CASE Close(c)
    BY <2>1, <1>1 DEF Close, history, NudgeInv, Heard
  <2>2. CASE Reopen(c)
    <3>1. \A d \in Conversations : afterClose'[d] \in {0, afterClose[d]}
                                   /\ (d = c => afterClose'[d] = 0)
      BY <2>2 DEF Reopen, NudgeInv, RowInv, Shapes
    <3>2. \A w \in Sweepers : sweep[w].stage = "send" =>
                nudge[sweep[w].cur].on \in Conversations
      BY DEF NudgeInv, RowInv, Shapes, Shaped, Rows, RowFits, Held, HeldBy,
             ImageFits, IsPending
    <3>3. QED
      BY <2>2, <1>1, <3>1, <3>2 DEF Reopen, NudgeInv, Heard
  <2>3. QED
    BY <2>1, <2>2
<1>5. QED
  BY <1>2, <1>3, <1>4 DEF NudgeInv

-----------------------------------------------------------------------------
(* Steps that write rows no sweep holds                                    *)

\* What a reschedule or a cancellation may do to a row.
Rewritten(n) ==
    /\ NudgeFree(n)
    /\ nudge[n].status # "absent"
    /\ DOMAIN nudge'[n] = RowFields
    /\ nudge'[n].on = nudge[n].on /\ nudge'[n].sent = nudge[n].sent
    /\ nudge'[n].status \in {nudge[n].status, "cancelled"}
    /\ \/ nudge'[n].attempts = nudge[n].attempts
          /\ spare'[n] \in {spare[n], spare[n] + MaxAttempts}
       \/ nudge'[n].attempts = 0 /\ spare'[n] = spare[n] + MaxAttempts
    /\ n \in silenced' => n \in silenced \/ nudge'[n].status = "cancelled"

Left(n) ==
    /\ nudge'[n] = nudge[n] /\ spare'[n] = spare[n]
    /\ n \in silenced' => n \in silenced

\* One write at the end of a request, or one cancellation per reply.
Writing ==
    /\ UNCHANGED <<sweep, accepted, lost>>
    /\ DOMAIN nudge' = Nudges /\ DOMAIN spare' = Nudges
    /\ DOMAIN request' = Requests /\ DOMAIN hook' = Hooks
    /\ DOMAIN afterClose' = Conversations
    /\ silenced' \subseteq Nudges
    /\ \A n \in Nudges : Left(n) \/ Rewritten(n)

LEMMA WritingKeeps == ASSUME RowInv, Writing PROVE RowInv'
<1>1. Shapes'
  BY DEF RowInv, Shapes, Writing
<1>2. Rows'
  <2> SUFFICES ASSUME NEW n \in Nudges PROVE RowFits(nudge[n], n)' /\ Untouched(n)'
    BY DEF Rows
  <2>1. RowFits(nudge[n], n) /\ Untouched(n)
    BY DEF RowInv, Rows
  <2>2. CASE Left(n)
    BY <2>1, <2>2 DEF Left, Writing, RowFits, Untouched, IsPending, NudgeFree
  <2>3. CASE Rewritten(n)
    <3>1. /\ accepted' = accepted /\ lost' = lost
          /\ nudge'[n].attempts \in Nat /\ spare'[n] \in Nat
          /\ nudge'[n].attempts <= nudge[n].attempts
          /\ nudge'[n].status \in FollowUpStatus
          /\ \/ spare'[n] + nudge'[n].attempts >= spare[n] + nudge[n].attempts
             \/ nudge'[n].attempts = 0 /\ spare'[n] >= MaxAttempts
      <4>1. /\ nudge[n].attempts \in Nat /\ spare[n] \in Nat
            /\ MaxAttempts \in Nat
            /\ \/ nudge'[n].attempts = nudge[n].attempts
                  /\ (spare'[n] = spare[n] \/ spare'[n] = spare[n] + MaxAttempts)
               \/ nudge'[n].attempts = 0 /\ spare'[n] = spare[n] + MaxAttempts
        BY <2>1, <2>3, FollowUpsAssumption DEF Rewritten, RowFits
      <4>2. /\ nudge'[n].attempts \in Nat /\ spare'[n] \in Nat
            /\ nudge'[n].attempts <= nudge[n].attempts
            /\ \/ spare'[n] + nudge'[n].attempts >= spare[n] + nudge[n].attempts
               \/ nudge'[n].attempts = 0 /\ spare'[n] >= MaxAttempts
        BY <4>1
      <4>3. nudge'[n].status \in FollowUpStatus
        BY <2>1, <2>3 DEF Rewritten, RowFits, FollowUpStatus
      <4>4. QED
        BY <4>2, <4>3 DEF Writing
    <3>2. RowFits(nudge[n], n)'
      BY <2>1, <2>3, <3>1, FollowUpsAssumption DEF Rewritten, RowFits
    <3>3. Untouched(n)'
      BY <2>1, <2>3, <3>1, FollowUpsAssumption
      DEF Rewritten, RowFits, Untouched, IsPending
    <3>4. QED
      BY <3>2, <3>3
  <2>4. QED
    BY <2>2, <2>3 DEF Writing
<1>3. Held'
  <2> SUFFICES ASSUME NEW w \in Sweepers, NEW n \in HeldBy(w)
               PROVE  ImageFits(sweep[w].image[n], n, n \in sweep[w].todo,
                                n \in sweep[w].tried)'
    BY DEF Held, HeldBy, Writing
  <2>1. Left(n)
    BY DEF Writing, Rewritten, NudgeFree, HeldBy, RowInv, Shapes, Shaped
  <2>2. ImageFits(sweep[w].image[n], n, n \in sweep[w].todo, n \in sweep[w].tried)
    BY DEF RowInv, Held
  <2>3. QED
    BY <2>1, <2>2 DEF Left, Writing, ImageFits, IsPending
<1>4. Apart'
  BY DEF RowInv, Apart, HeldBy, Writing
<1>5. Alone'
  BY DEF RowInv, Alone, IsPending, Writing, Left, Rewritten
<1>6. QED
  BY <1>1, <1>2, <1>3, <1>4, <1>5 DEF RowInv

\* Nobody's nudge becomes absent, or another conversation's.
LEMMA WritingIsSeen ==
    ASSUME NudgeInv, Writing, UNCHANGED <<closed, afterClose>> PROVE Heard'
<1>1. \A n \in Nudges : nudge'[n].on = nudge[n].on
  BY DEF Writing, Left, Rewritten
<1>2. QED
  BY <1>1 DEF Writing, NudgeInv, Heard, RowInv, Shapes, Shaped

LEMMA RescheduleKeeps ==
    ASSUME NudgeInv, NEW r \in Requests, Reschedule(r) PROVE NudgeInv'
<1> DEFINE n == request[r].about
<1>1. n \in Nudges /\ nudge[n].status # "absent" /\ NudgeFree(n)
  BY DEF Reschedule, NudgeInv, Asked
<1>2. DOMAIN nudge[n] = RowFields
  BY <1>1 DEF NudgeInv, RowInv, Rows, RowFits
<1>3. nudge'[n] = Rescheduled(nudge[n], request[r].read, request[r].write)
  BY <1>1 DEF Reschedule, NudgeInv, RowInv, Shapes
<1>4. /\ DOMAIN nudge'[n] = RowFields
      /\ nudge'[n].on = nudge[n].on /\ nudge'[n].sent = nudge[n].sent
      /\ nudge'[n].status = nudge[n].status
      /\ nudge'[n].attempts \in {nudge[n].attempts, 0}
  BY <1>2, <1>3 DEF Rescheduled, Written, RowFields
<1>5. spare'[n] = spare[n] + MaxAttempts
  BY <1>1 DEF Reschedule, NudgeInv, RowInv, Shapes
<1>6. Rewritten(n)
  BY <1>1, <1>4, <1>5 DEF Rewritten, Reschedule
<1>7. \A m \in Nudges : m # n => Left(m)
  BY <1>1 DEF Left, Reschedule, NudgeInv, RowInv, Shapes
<1>8. Writing
  BY <1>6, <1>7 DEF Writing, Reschedule, NudgeInv, RowInv, Shapes, bounds
<1>9. RowInv' /\ Heard'
  BY <1>8, WritingKeeps, WritingIsSeen DEF NudgeInv, Reschedule
<1>10. \A m \in Nudges : nudge'[m].status = nudge[m].status
  BY <1>4, <1>7 DEF Left
<1>11. Seen'
  BY <1>10 DEF Reschedule, NudgeInv, Seen
<1>12. Asked'
  BY <1>10 DEF Reschedule, NudgeInv, Asked, RowInv, Shapes, NoRequest, RequestFields
<1>13. QED
  BY <1>9, <1>11, <1>12 DEF NudgeInv

LEMMA CancelKeeps ==
    ASSUME NudgeInv, NEW r \in Requests, Cancel(r) PROVE NudgeInv'
<1> DEFINE n == request[r].about
<1>1. n \in Nudges /\ nudge[n].status # "absent" /\ NudgeFree(n)
  BY DEF Cancel, NudgeInv, Asked
<1>2. DOMAIN nudge[n] = RowFields
  BY <1>1 DEF NudgeInv, RowInv, Rows, RowFits
<1>3. nudge'[n] = [nudge[n] EXCEPT !.status = "cancelled"]
  BY <1>1 DEF Cancel, NudgeInv, RowInv, Shapes
<1>4. /\ DOMAIN nudge'[n] = RowFields
      /\ nudge'[n].on = nudge[n].on /\ nudge'[n].sent = nudge[n].sent
      /\ nudge'[n].status = "cancelled"
      /\ nudge'[n].attempts = nudge[n].attempts
  BY <1>2, <1>3 DEF RowFields
<1>5. Rewritten(n)
  BY <1>1, <1>4 DEF Rewritten, Cancel
<1>6. \A m \in Nudges : m # n => Left(m)
  BY <1>1 DEF Left, Cancel, NudgeInv, RowInv, Shapes
<1>7. Writing
  BY <1>1, <1>5, <1>6 DEF Writing, Cancel, NudgeInv, RowInv, Shapes, bounds
<1>8. RowInv' /\ Heard'
  BY <1>7, WritingKeeps, WritingIsSeen DEF NudgeInv, Cancel
<1>9. \A m \in Nudges : nudge'[m].status = nudge[m].status
                        \/ (m = n /\ nudge'[m].status = "cancelled")
  <2> TAKE m \in Nudges
  <2>1. CASE m = n
    BY <1>4, <2>1
  <2>2. CASE m # n
    BY <1>6, <2>2 DEF Left
  <2>3. QED
    BY <2>1, <2>2
<1>10. Seen'
  BY <1>9 DEF Cancel, NudgeInv, Seen
<1>11. Asked'
  BY <1>1, <1>9 DEF Cancel, NudgeInv, Asked, RowInv, Shapes, NoRequest, RequestFields
<1>12. QED
  BY <1>8, <1>10, <1>11 DEF NudgeInv

LEMMA CancelOnReplyKeeps ==
    ASSUME NudgeInv, NEW h \in Hooks, CancelOnReply(h) PROVE NudgeInv'
<1> DEFINE c == hook[h].on
           seen == hook[h].seen
<1>1. /\ seen \subseteq Nudges /\ c \in Conversations
      /\ \A n \in seen : nudge[n].status # "absent" /\ NudgeFree(n)
  BY DEF CancelOnReply, NudgeInv, Seen
<1>2. \A n \in Nudges : DOMAIN nudge[n] = RowFields
  BY DEF NudgeInv, RowInv, Rows, RowFits
<1>3. \A n \in Nudges : nudge'[n] = IF n \in seen
                                    THEN [nudge[n] EXCEPT !.status = "cancelled"]
                                    ELSE nudge[n]
  BY DEF CancelOnReply
<1>4. \A n \in seen : /\ DOMAIN nudge'[n] = RowFields
                      /\ nudge'[n].on = nudge[n].on /\ nudge'[n].sent = nudge[n].sent
                      /\ nudge'[n].status = "cancelled"
                      /\ nudge'[n].attempts = nudge[n].attempts
  BY <1>1, <1>2, <1>3 DEF RowFields
<1>5. \A n \in seen : Rewritten(n)
  BY <1>1, <1>4 DEF Rewritten, CancelOnReply
<1>6. \A n \in Nudges : n \notin seen => Left(n)
  BY <1>3 DEF Left, CancelOnReply
<1>7. Writing
  BY <1>1, <1>5, <1>6 DEF Writing, CancelOnReply, NudgeInv, RowInv, Shapes, bounds
<1>8. RowInv'
  BY <1>7, WritingKeeps DEF NudgeInv
<1>9. \A n \in Nudges : nudge'[n].status = nudge[n].status
                        \/ (n \in seen /\ nudge'[n].status = "cancelled")
  <2> TAKE n \in Nudges
  <2>1. CASE n \in seen
    BY <1>4, <2>1
  <2>2. CASE n \notin seen
    BY <1>6, <2>2 DEF Left
  <2>3. QED
    BY <2>1, <2>2
<1>10. Seen'
  BY <1>1, <1>9 DEF CancelOnReply, NudgeInv, Seen, RowInv, Shapes, NoReply
<1>11. Asked'
  BY <1>1, <1>9 DEF CancelOnReply, NudgeInv, Asked
<1>12. Heard'
  <2>1. \A d \in Conversations : afterClose'[d] \in {0, afterClose[d]}
                                 /\ (d = c => afterClose'[d] = 0)
    BY DEF CancelOnReply, NudgeInv, RowInv, Shapes
  <2>2. \A w \in Sweepers : sweep[w].stage = "send" =>
            /\ nudge[sweep[w].cur].on \in Conversations
            /\ nudge'[sweep[w].cur].on = nudge[sweep[w].cur].on
    <3>1. \A w \in Sweepers : sweep[w].stage = "send" =>
            sweep[w].cur \in Nudges /\ IsPending(sweep[w].cur)
      BY DEF NudgeInv, RowInv, Shapes, Shaped, Held, HeldBy, ImageFits
    <3>2. QED
      BY <3>1, <1>4, <1>6 DEF Left, NudgeInv, RowInv, Rows, RowFits, IsPending
  <2>3. QED
    BY <1>1, <2>1, <2>2 DEF CancelOnReply, NudgeInv, Heard
<1>13. QED
  BY <1>8, <1>10, <1>11, <1>12 DEF NudgeInv

\* The index lets a conversation have one nudge waiting.
LEMMA CreateKeeps ==
    ASSUME NudgeInv, NEW r \in Requests, Create(r) PROVE NudgeInv'
<1> DEFINE n == request[r].about
           new == request[r].write
<1>1. /\ n \in Nudges /\ nudge[n].status = "absent"
      /\ new.status = "pending" /\ ~new.sent /\ new.attempts = 0
      /\ new.on \in Conversations /\ DOMAIN new = RowFields
      /\ \A o \in Requests \ {r} : request[o].op # "idle" => request[o].about # n
  BY DEF Create, NudgeInv, Asked
<1>2. /\ UNCHANGED <<sweep, accepted, silenced, lost, closed, afterClose, hook>>
      /\ request' = [request EXCEPT ![r] = NoRequest]
  BY DEF Create, bounds
<1>3. CASE PendingOn(new.on) = {}
  <2>1. /\ DOMAIN nudge' = Nudges /\ DOMAIN spare' = Nudges
        /\ nudge'[n] = new /\ spare'[n] = MaxAttempts
        /\ \A m \in Nudges \ {n} : nudge'[m] = nudge[m] /\ spare'[m] = spare[m]
    BY <1>1, <1>3 DEF Create, NudgeInv, RowInv, Shapes
  <2> HIDE DEF n, new
  <2>2. Shapes'
    BY <1>2, <2>1 DEF NudgeInv, RowInv, Shapes
  <2>3. \A w \in Sweepers : n \notin HeldBy(w)
    BY <1>1 DEF NudgeInv, RowInv, Held, ImageFits, IsPending
  <2>4. Rows'
    <3> SUFFICES ASSUME NEW m \in Nudges PROVE RowFits(nudge[m], m)' /\ Untouched(m)'
      BY DEF Rows
    <3>1. RowFits(nudge[m], m) /\ Untouched(m)
      BY DEF NudgeInv, RowInv, Rows
    <3>2. CASE m = n
      BY <1>1, <1>2, <2>1, <3>1, <3>2, FollowUpsAssumption
      DEF RowFits, Untouched, FollowUpStatus, NudgeInv, RowInv, Shapes
    <3>3. CASE m # n
      BY <1>2, <2>1, <3>1, <3>3 DEF RowFits, Untouched, IsPending, NudgeFree
    <3>4. QED
      BY <3>2, <3>3
  <2>5. Held' /\ Apart'
    <3>1. \A w \in Sweepers : \A m \in HeldBy(w) :
              nudge'[m] = nudge[m] /\ spare'[m] = spare[m]
      BY <2>1, <2>3 DEF NudgeInv, RowInv, Shapes, Shaped, HeldBy
    <3>2. QED
      BY <1>2, <3>1 DEF NudgeInv, RowInv, Held, Apart, HeldBy, ImageFits, IsPending
  <2>6. Alone'
    BY <1>1, <1>3, <2>1 DEF NudgeInv, RowInv, Alone, IsPending, PendingOn, n, new
  <2>7. Heard'
    <3>1. \A w \in Sweepers : sweep[w].stage = "send" =>
                nudge'[sweep[w].cur] = nudge[sweep[w].cur]
      BY <2>1, <2>3 DEF NudgeInv, RowInv, Shapes, Shaped, HeldBy
    <3>2. QED
      BY <1>2, <3>1 DEF NudgeInv, Heard
  <2>8. \A m \in Nudges : nudge[m].status # "absent" => nudge'[m].status # "absent"
    BY <1>1, <2>1
  <2>9. Seen'
    BY <1>2, <2>8 DEF NudgeInv, Seen
  <2>10. Asked'
    <3>1. \A o \in Requests \ {r} : request'[o] = request[o]
      BY <1>2 DEF NudgeInv, RowInv, Shapes
    <3>2. request'[r] = NoRequest
      BY <1>2 DEF NudgeInv, RowInv, Shapes
    <3>3. \A o \in Requests \ {r} : request[o].op # "idle" =>
                nudge'[request[o].about] = nudge[request[o].about]
      BY <1>1, <2>1 DEF NudgeInv, Asked
    <3>4. QED
      BY <3>1, <3>2, <3>3 DEF NudgeInv, Asked, NoRequest, RequestFields
  <2>11. QED
    BY <2>2, <2>4, <2>5, <2>6, <2>7, <2>9, <2>10 DEF NudgeInv, RowInv
<1>4. CASE PendingOn(new.on) # {}
  <2>1. UNCHANGED <<nudge, spare>>
    BY <1>4 DEF Create
  <2>2. RowInv'
    BY <1>2, <2>1, RowsStay DEF NudgeInv, RowInv, Shapes
  <2>3. Heard' /\ Seen'
    BY <1>2, <2>1, HeardStays, SeenStays DEF NudgeInv
  <2>4. Asked'
    BY <1>2, <2>1 DEF NudgeInv, Asked, RowInv, Shapes, NoRequest, RequestFields
  <2>5. QED
    BY <2>2, <2>3, <2>4 DEF NudgeInv
<1>5. QED
  BY <1>3, <1>4

-----------------------------------------------------------------------------
(* Steps of a sweep                                                        *)

\* The sweep deals with one row it holds; nobody else's row is concerned.
Handled(w, n) ==
    /\ n \in HeldBy(w)
    /\ UNCHANGED <<nudge, silenced>>
    /\ DOMAIN sweep' = Sweepers /\ DOMAIN accepted' = Nudges
    /\ DOMAIN spare' = Nudges /\ DOMAIN request' = Requests
    /\ DOMAIN hook' = Hooks /\ DOMAIN afterClose' = Conversations
    /\ lost' \in Nat /\ lost' >= lost
    /\ \A v \in Sweepers \ {w} : sweep'[v] = sweep[v]
    /\ Shaped(sweep'[w])
    /\ DOMAIN sweep'[w].image = HeldBy(w)
    /\ \A m \in HeldBy(w) \ {n} :
        /\ sweep'[w].image[m] = sweep[w].image[m]
        /\ m \in sweep'[w].todo => m \in sweep[w].todo
        /\ m \in sweep'[w].tried <=> m \in sweep[w].tried
    /\ \A m \in Nudges \ {n} : accepted'[m] = accepted[m] /\ spare'[m] = spare[m]
    /\ accepted'[n] \in Nat /\ accepted'[n] <= 1 + lost'
    /\ spare'[n] \in Nat
    /\ ImageFits(sweep[w].image[n], n, n \in sweep[w].todo, n \in sweep[w].tried)'

LEMMA HandledKeeps ==
    ASSUME RowInv, NEW w \in Sweepers, NEW n, Handled(w, n) PROVE RowInv'
<1>1. n \in Nudges /\ IsPending(n) /\ ~NudgeFree(n)
  BY DEF Handled, RowInv, Shapes, Shaped, Held, HeldBy, ImageFits, NudgeFree
<1>2. \A v \in Sweepers : DOMAIN sweep'[v].image = HeldBy(v)
  BY DEF Handled, HeldBy
<1>3. Shapes'
  BY DEF Handled, RowInv, Shapes
<1>4. Rows'
  <2> SUFFICES ASSUME NEW m \in Nudges PROVE RowFits(nudge[m], m)' /\ Untouched(m)'
    BY DEF Rows
  <2>1. RowFits(nudge[m], m) /\ Untouched(m) /\ lost \in Nat
    BY DEF RowInv, Rows, Shapes
  <2>2. NudgeFree(m)' <=> NudgeFree(m)
    BY <1>2 DEF NudgeFree, HeldBy
  <2>3. CASE m = n
    BY <1>1, <2>1, <2>2, <2>3 DEF Handled, RowFits, Untouched, IsPending
  <2>4. CASE m # n
    <3>1. /\ accepted'[m] = accepted[m] /\ spare'[m] = spare[m]
          /\ nudge' = nudge /\ silenced' = silenced
          /\ lost' \in Nat /\ lost' >= lost
      BY <2>4 DEF Handled
    <3>2. RowFits(nudge[m], m)'
      BY <2>1, <3>1 DEF RowFits
    <3>3. Untouched(m)'
      BY <2>1, <2>2, <3>1 DEF Untouched, RowFits, IsPending
    <3>4. QED
      BY <3>2, <3>3
  <2>5. QED
    BY <2>3, <2>4
<1>5. Held'
  <2> SUFFICES ASSUME NEW v \in Sweepers, NEW m \in HeldBy(v)
               PROVE  ImageFits(sweep[v].image[m], m, m \in sweep[v].todo,
                                m \in sweep[v].tried)'
    BY <1>2 DEF Held, HeldBy
  <2>1. ImageFits(sweep[v].image[m], m, m \in sweep[v].todo, m \in sweep[v].tried)
    BY DEF RowInv, Held
  <2>2. CASE m = n
    <3>1. v = w
      BY <2>2 DEF Handled, RowInv, Apart
    <3>2. QED
      BY <2>2, <3>1 DEF Handled
  <2>3. CASE m # n
    <3>1. /\ sweep'[v].image[m] = sweep[v].image[m]
          /\ m \in sweep'[v].todo => m \in sweep[v].todo
          /\ m \in sweep'[v].tried <=> m \in sweep[v].tried
      BY <2>3 DEF Handled
    <3>2. /\ accepted'[m] = accepted[m] /\ spare'[m] = spare[m]
          /\ nudge' = nudge /\ lost' >= lost /\ lost \in Nat /\ lost' \in Nat
          /\ accepted[m] \in Nat
      BY <2>3 DEF Handled, RowInv, Shapes, Shaped, HeldBy, Rows, RowFits
    <3>3. QED
      BY <2>1, <3>1, <3>2 DEF ImageFits, IsPending
  <2>4. QED
    BY <2>2, <2>3
<1>6. Apart' /\ Alone'
  BY <1>2 DEF Handled, RowInv, Apart, Alone, HeldBy, IsPending
<1>7. QED
  BY <1>3, <1>4, <1>5, <1>6 DEF RowInv

\* The row at hand waits and has not been tried by this sweep.
AtHand(w, n) ==
    LET row == sweep[w].image[n] IN
    /\ n \in HeldBy(w) /\ n \in Nudges /\ IsPending(n)
    /\ n \in sweep[w].todo
    /\ row.status = "pending" /\ ~row.sent /\ DOMAIN row = RowFields
    /\ row.on = nudge[n].on /\ row.on \in Conversations
    /\ n \notin sweep[w].tried
    /\ row.attempts \in Nat /\ row.attempts < MaxAttempts
    /\ accepted[n] \in Nat /\ spare[n] \in Nat /\ lost \in Nat
    /\ MaxAttempts \in Nat
    /\ accepted[n] <= lost
    /\ spare[n] >= MaxAttempts - row.attempts
    /\ spare[n] >= MaxAttempts - nudge[n].attempts
    /\ nudge[n].attempts \in Nat

LEMMA InTodo ==
    ASSUME RowInv, NEW w \in Sweepers, NEW n \in sweep[w].todo PROVE AtHand(w, n)
<1>1. n \in HeldBy(w) /\ n \in Nudges /\ lost \in Nat
  BY DEF RowInv, Shapes, Shaped, HeldBy
<1>2. ImageFits(sweep[w].image[n], n, TRUE, n \in sweep[w].tried)
  BY <1>1 DEF RowInv, Held
<1>3. RowFits(nudge[n], n)
  BY <1>1 DEF RowInv, Rows
<1>4. n \notin sweep[w].tried
  BY <1>2 DEF ImageFits
<1>5. spare[n] >= MaxAttempts - nudge[n].attempts
  <2>1. spare[n] >= MaxAttempts - nudge[n].attempts - 0
    BY <1>2, <1>4 DEF ImageFits
  <2>2. QED
    BY <2>1, <1>3, FollowUpsAssumption DEF RowFits
<1>6. QED
  BY <1>1, <1>2, <1>3, <1>4, <1>5, FollowUpsAssumption
  DEF ImageFits, RowFits, AtHand, IsPending

LEMMA AtSend ==
    ASSUME RowInv, NEW w \in Sweepers, sweep[w].stage = "send"
    PROVE  sweep[w].cur \in sweep[w].todo
  BY DEF RowInv, Shapes, Shaped

\* Nobody else is writing to the conversation of the row at hand.
LEMMA OneWriter ==
    ASSUME RowInv, NEW w \in Sweepers, NEW v \in Sweepers \ {w},
           sweep[w].stage = "send", sweep[v].stage = "send"
    PROVE  nudge[sweep[v].cur].on # nudge[sweep[w].cur].on
<1>1. AtHand(v, sweep[v].cur) /\ AtHand(w, sweep[w].cur)
  BY AtSend, InTodo
<1>2. sweep[v].cur # sweep[w].cur
  BY <1>1 DEF AtHand, RowInv, Apart
<1>3. QED
  BY <1>1, <1>2 DEF AtHand, RowInv, Alone

LEMMA SettledShape ==
    ASSUME RowInv, NEW w \in Sweepers, NEW n \in sweep[w].todo, NEW row
    PROVE  LET s == Settle(w, n, row) IN
           /\ Shaped(s)
           /\ s.stage = "next"
           /\ DOMAIN s.image = HeldBy(w)
           /\ s.image[n] = row
           /\ \A m \in HeldBy(w) \ {n} : s.image[m] = sweep[w].image[m]
           /\ s.todo = sweep[w].todo \ {n}
           /\ s.tried = sweep[w].tried
           /\ s.touched = sweep[w].touched
           /\ DOMAIN s = SweepFields
<1>1. Shaped(sweep[w])
  BY DEF RowInv, Shapes
<1>2. QED
  BY <1>1 DEF Shaped, Settle, SweepFields, HeldBy

\* A row is finished with: what a sweep makes of it is all there is to show.
LEMMA SettleKeeps ==
    ASSUME RowInv, NEW w \in Sweepers, NEW n \in sweep[w].todo,
           DOMAIN sweep' = Sweepers,
           \A v \in Sweepers \ {w} : sweep'[v] = sweep[v],
           Shaped(sweep'[w]),
           DOMAIN sweep'[w].image = HeldBy(w),
           \A m \in HeldBy(w) \ {n} : sweep'[w].image[m] = sweep[w].image[m],
           sweep'[w].todo \subseteq sweep[w].todo \ {n},
           sweep'[w].tried = sweep[w].tried
             \/ sweep'[w].tried = sweep[w].tried \cup {n},
           UNCHANGED <<nudge, silenced>>,
           DOMAIN accepted' = Nudges, DOMAIN spare' = Nudges,
           DOMAIN request' = Requests, DOMAIN hook' = Hooks,
           DOMAIN afterClose' = Conversations,
           lost' \in Nat, lost' >= lost,
           \A m \in Nudges \ {n} : accepted'[m] = accepted[m] /\ spare'[m] = spare[m],
           accepted'[n] \in Nat, accepted'[n] <= 1 + lost', spare'[n] \in Nat,
           ImageFits(sweep[w].image[n], n, FALSE, n \in sweep[w].tried)'
    PROVE  RowInv'
<1>1. n \in HeldBy(w) /\ n \notin sweep'[w].todo
  BY InTodo DEF AtHand
<1>2. ImageFits(sweep[w].image[n], n, n \in sweep[w].todo, n \in sweep[w].tried)'
  BY <1>1 DEF ImageFits
<1>3. Handled(w, n)
  BY <1>1, <1>2 DEF Handled
<1>4. QED
  BY <1>3, HandledKeeps

\* The other variables: a nudge that was claimed stays as it was read.
LEMMA OthersKeep ==
    ASSUME NudgeInv, RowInv', UNCHANGED <<nudge, request, hook>>, Heard'
    PROVE  NudgeInv'
  BY AskedStays, SeenStays DEF NudgeInv

\* A sweep that is not sending afterwards, and has reached nobody.
LEMMA QuietHeard ==
    ASSUME NudgeInv, NEW w \in Sweepers, UNCHANGED <<nudge, closed, afterClose>>,
           \A v \in Sweepers \ {w} : sweep'[v] = sweep[v],
           sweep'[w].stage # "send"
    PROVE  Heard'
  BY DEF NudgeInv, Heard

LEMMA SkipKeeps == ASSUME NudgeInv, NEW w \in Sweepers, Skip(w) PROVE NudgeInv'
<1>1. PICK n \in sweep[w].todo :
        sweep' = [sweep EXCEPT ![w] =
            Settle(w, n, [sweep[w].image[n] EXCEPT !.status = "skipped"])]
  BY DEF Skip
<1> DEFINE row == [sweep[w].image[n] EXCEPT !.status = "skipped"]
<1>2. AtHand(w, n) /\ RowInv
  BY InTodo DEF NudgeInv
<1>3. /\ row.status = "skipped" /\ DOMAIN row = RowFields
      /\ row.on = nudge[n].on /\ row.sent = sweep[w].image[n].sent
      /\ row.attempts = sweep[w].image[n].attempts
  BY <1>2 DEF AtHand, RowFields
<1> HIDE DEF row
<1>4. /\ sweep'[w] = Settle(w, n, row) /\ DOMAIN sweep' = Sweepers
      /\ \A v \in Sweepers \ {w} : sweep'[v] = sweep[v]
  BY <1>1 DEF row, NudgeInv, RowInv, Shapes
<1>5. /\ UNCHANGED <<nudge, closed, request, hook, accepted, silenced, afterClose,
                     spare, lost>>
  BY DEF Skip, history, bounds
<1>6. /\ Shaped(sweep'[w]) /\ sweep'[w].stage = "next"
      /\ DOMAIN sweep'[w].image = HeldBy(w)
      /\ sweep'[w].image[n] = row
      /\ \A m \in HeldBy(w) \ {n} : sweep'[w].image[m] = sweep[w].image[m]
      /\ sweep'[w].todo = sweep[w].todo \ {n}
      /\ sweep'[w].tried = sweep[w].tried
  BY <1>2, <1>4, SettledShape
<1>7. ImageFits(sweep[w].image[n], n, FALSE, n \in sweep[w].tried)'
  BY <1>2, <1>3, <1>5, <1>6 DEF AtHand, ImageFits, IsPending
<1>8. RowInv'
  <2>1. /\ accepted'[n] \in Nat /\ accepted'[n] <= 1 + lost' /\ spare'[n] \in Nat
        /\ lost' \in Nat /\ lost' >= lost
    BY <1>2, <1>5 DEF AtHand
  <2>2. QED
    BY <1>2, <1>4, <1>5, <1>6, <1>7, <2>1, SettleKeeps DEF RowInv, Shapes
<1>9. Heard'
  BY <1>4, <1>5, <1>6, QuietHeard
<1>10. QED
  BY <1>5, <1>8, <1>9, OthersKeep

LEMMA EscapesKeeps == ASSUME NudgeInv, NEW w \in Sweepers, Escapes(w) PROVE NudgeInv'
<1>1. PICK n \in sweep[w].todo : n = sweep[w].cur /\ AtHand(w, n) /\ RowInv
  BY AtSend, InTodo DEF NudgeInv, Escapes
<1> DEFINE row == sweep[w].image[n]
<1>2. /\ sweep'[w] = Settle(w, n, row) /\ DOMAIN sweep' = Sweepers
      /\ \A v \in Sweepers \ {w} : sweep'[v] = sweep[v]
  BY <1>1 DEF Escapes, Image, NudgeInv, RowInv, Shapes
<1>3. /\ UNCHANGED <<nudge, closed, request, hook, accepted, silenced, afterClose,
                     spare>>
      /\ lost' = lost + 1
  BY DEF Escapes, Mishap, history
<1> HIDE DEF row
<1>4. /\ Shaped(sweep'[w]) /\ sweep'[w].stage = "next"
      /\ DOMAIN sweep'[w].image = HeldBy(w)
      /\ sweep'[w].image[n] = row
      /\ \A m \in HeldBy(w) \ {n} : sweep'[w].image[m] = sweep[w].image[m]
      /\ sweep'[w].todo = sweep[w].todo \ {n}
      /\ sweep'[w].tried = sweep[w].tried
  <2> DEFINE s == Settle(w, n, row)
  <2>1. sweep'[w] = s
    BY <1>2
  <2>2. /\ Shaped(s) /\ s.stage = "next" /\ DOMAIN s.image = HeldBy(w)
        /\ s.image[n] = row
        /\ \A m \in HeldBy(w) \ {n} : s.image[m] = sweep[w].image[m]
        /\ s.todo = sweep[w].todo \ {n} /\ s.tried = sweep[w].tried
    BY <1>1, SettledShape
  <2> HIDE DEF s
  <2>3. QED
    BY <2>1, <2>2
<1>5. ImageFits(sweep[w].image[n], n, FALSE, n \in sweep[w].tried)'
  BY <1>1, <1>3, <1>4 DEF AtHand, ImageFits, IsPending, row
<1>6. RowInv'
  <2>1. /\ accepted'[n] \in Nat /\ accepted'[n] <= 1 + lost' /\ spare'[n] \in Nat
        /\ lost' \in Nat /\ lost' >= lost
    BY <1>1, <1>3 DEF AtHand
  <2>2. QED
    BY <1>1, <1>2, <1>3, <1>4, <1>5, <2>1, SettleKeeps DEF RowInv, Shapes
<1>7. Heard'
  BY <1>2, <1>3, <1>4, QuietHeard
<1>8. QED
  BY <1>3, <1>6, <1>7, OthersKeep

\* The same, with the attempt noted and the conversation written to.
LEMMA TriedShape ==
    ASSUME RowInv, NEW w \in Sweepers, NEW n \in sweep[w].todo, NEW row,
           NEW s, DOMAIN s = SweepFields,
           s.tried = Settle(w, n, row).tried \cup {n},
           s.stage = Settle(w, n, row).stage, s.todo = Settle(w, n, row).todo,
           s.cur = Settle(w, n, row).cur, s.image = Settle(w, n, row).image
    PROVE  /\ Shaped(s)
           /\ s.stage = "next"
           /\ DOMAIN s.image = HeldBy(w)
           /\ s.image[n] = row
           /\ \A m \in HeldBy(w) \ {n} : s.image[m] = sweep[w].image[m]
           /\ s.todo = sweep[w].todo \ {n}
           /\ s.tried = sweep[w].tried \cup {n}
<1> DEFINE old == Settle(w, n, row)
<1>1. /\ Shaped(old)
      /\ old.stage = "next"
      /\ DOMAIN old.image = HeldBy(w)
      /\ old.image[n] = row
      /\ \A m \in HeldBy(w) \ {n} : old.image[m] = sweep[w].image[m]
      /\ old.todo = sweep[w].todo \ {n}
      /\ old.tried = sweep[w].tried
  BY SettledShape
<1>2. /\ s.stage = old.stage /\ s.todo = old.todo /\ s.cur = old.cur
      /\ s.image = old.image /\ s.tried = old.tried \cup {n}
  OBVIOUS
<1> HIDE DEF old
<1>3. QED
  BY <1>1, <1>2 DEF Shaped

\* A message that reached a closed conversation is the first.
LEMMA ReachedHeard ==
    ASSUME NudgeInv, NEW w \in Sweepers, sweep[w].stage = "send",
           Reached(sweep[w].cur), UNCHANGED <<nudge, closed>>,
           \A v \in Sweepers \ {w} : sweep'[v] = sweep[v],
           sweep'[w].stage = "next"
    PROVE  Heard'
<1> DEFINE c == nudge[sweep[w].cur].on
<1>1. /\ afterClose' = [afterClose EXCEPT ![c] =
                          IF c \in closed /\ @ < 2 THEN @ + 1 ELSE @]
      /\ DOMAIN afterClose = Conversations
  BY DEF Reached, NudgeInv, RowInv, Shapes
<1>2. c \in Conversations /\ afterClose[c] = 0
  <2>1. AtHand(w, sweep[w].cur)
    BY AtSend, InTodo DEF NudgeInv
  <2>2. QED
    BY <2>1 DEF AtHand, NudgeInv, Heard
<1>3. \A v \in Sweepers \ {w} : sweep[v].stage = "send" =>
            nudge[sweep[v].cur].on # c
  BY OneWriter DEF NudgeInv
<1> HIDE DEF c
<1>4. \A d \in Conversations :
        /\ d # c => afterClose'[d] = afterClose[d]
        /\ d = c => /\ c \in closed => afterClose'[d] = 1
                    /\ c \notin closed => afterClose'[d] = 0
  BY <1>1, <1>2
<1>5. \A d \in Conversations : /\ afterClose'[d] \in {0, 1}
                               /\ d \notin closed' => afterClose'[d] = 0
  BY <1>2, <1>4 DEF NudgeInv, Heard
<1>6. \A v \in Sweepers : sweep'[v].stage = "send" =>
            afterClose'[nudge'[sweep'[v].cur].on] = 0
  <2> SUFFICES ASSUME NEW v \in Sweepers, sweep'[v].stage = "send"
               PROVE  afterClose'[nudge'[sweep'[v].cur].on] = 0
    OBVIOUS
  <2>1. v # w /\ sweep'[v] = sweep[v] /\ sweep[v].stage = "send"
    BY DEF Heard
  <2>2. nudge[sweep[v].cur].on # c /\ nudge[sweep[v].cur].on \in Conversations
    <3>1. AtHand(v, sweep[v].cur)
      BY <2>1, AtSend, InTodo DEF NudgeInv
    <3>2. QED
      BY <1>3, <2>1, <3>1 DEF AtHand
  <2>3. afterClose[nudge[sweep[v].cur].on] = 0
    BY <2>1 DEF NudgeInv, Heard
  <2>4. QED
    BY <1>4, <2>1, <2>2, <2>3
<1>7. QED
  BY <1>5, <1>6 DEF Heard

LEMMA ReachedCounts ==
    ASSUME NudgeInv, NEW n \in Nudges, Reached(n)
    PROVE  /\ DOMAIN accepted' = Nudges /\ DOMAIN afterClose' = Conversations
           /\ \A m \in Nudges \ {n} : accepted'[m] = accepted[m]
           /\ accepted'[n] \in Nat /\ accepted'[n] > 0
           /\ accepted'[n] <= accepted[n] + 1 /\ accepted'[n] >= accepted[n]
<1>1. accepted[n] \in Nat /\ 2 + MaxLost + MaxReplies \in Nat
      /\ 2 + MaxLost + MaxReplies > 0
  BY FollowUpsAssumption DEF NudgeInv, RowInv, Rows, RowFits
<1>2. accepted'[n] = IF accepted[n] < 2 + MaxLost + MaxReplies
                     THEN accepted[n] + 1 ELSE accepted[n]
  BY DEF Reached, NudgeInv, RowInv, Shapes
<1>3. QED
  BY <1>1, <1>2 DEF Reached, NudgeInv, RowInv, Shapes

LEMMA TriedCounts ==
    ASSUME NudgeInv, NEW n \in Nudges, Tried(n), spare[n] \in Nat
    PROVE  /\ DOMAIN spare' = Nudges
           /\ \A m \in Nudges \ {n} : spare'[m] = spare[m]
           /\ spare'[n] = spare[n] - 1
  BY DEF Tried, NudgeInv, RowInv, Shapes

LEMMA SentKeeps == ASSUME NudgeInv, NEW w \in Sweepers, Sent(w) PROVE NudgeInv'
<1>1. PICK n \in sweep[w].todo : n = sweep[w].cur /\ AtHand(w, n) /\ RowInv
  BY AtSend, InTodo DEF NudgeInv, Sent
<1> DEFINE row == [sweep[w].image[n] EXCEPT !.status = "sent", !.sent = TRUE]
<1>2. /\ row.status = "sent" /\ DOMAIN row = RowFields
      /\ row.on = nudge[n].on /\ row.sent
      /\ row.attempts = sweep[w].image[n].attempts
  BY <1>1 DEF AtHand, RowFields
<1>3. /\ sweep'[w] = [Settle(w, n, row) EXCEPT
                        !.tried = @ \cup {n}, !.touched = @ \cup {nudge[n].on}]
      /\ DOMAIN sweep' = Sweepers
      /\ \A v \in Sweepers \ {w} : sweep'[v] = sweep[v]
  BY <1>1 DEF Sent, Image, NudgeInv, RowInv, Shapes
<1> HIDE DEF row
<1>4. /\ DOMAIN sweep'[w] = SweepFields
      /\ sweep'[w].tried = Settle(w, n, row).tried \cup {n}
      /\ sweep'[w].stage = Settle(w, n, row).stage
      /\ sweep'[w].todo = Settle(w, n, row).todo
      /\ sweep'[w].cur = Settle(w, n, row).cur
      /\ sweep'[w].image = Settle(w, n, row).image
  <2>1. DOMAIN Settle(w, n, row) = SweepFields
    BY <1>1, SettledShape
  <2>2. QED
    BY <1>3, <2>1 DEF SweepFields
<1>5. /\ Shaped(sweep'[w]) /\ sweep'[w].stage = "next"
      /\ DOMAIN sweep'[w].image = HeldBy(w)
      /\ sweep'[w].image[n] = row
      /\ \A m \in HeldBy(w) \ {n} : sweep'[w].image[m] = sweep[w].image[m]
      /\ sweep'[w].todo = sweep[w].todo \ {n}
      /\ sweep'[w].tried = sweep[w].tried \cup {n}
  BY <1>1, <1>4, TriedShape
<1>6. /\ UNCHANGED <<nudge, closed, request, hook, silenced, lost>>
      /\ Reached(n) /\ Tried(n)
  BY <1>1 DEF Sent, bounds
<1>7. /\ DOMAIN accepted' = Nudges /\ DOMAIN spare' = Nudges
      /\ DOMAIN afterClose' = Conversations
      /\ \A m \in Nudges \ {n} : accepted'[m] = accepted[m] /\ spare'[m] = spare[m]
      /\ accepted'[n] \in Nat /\ accepted'[n] > 0
      /\ accepted'[n] <= accepted[n] + 1
      /\ spare'[n] = spare[n] - 1
  BY <1>1, <1>6, ReachedCounts, TriedCounts DEF AtHand
<1>8. /\ accepted'[n] <= 1 + lost' /\ spare'[n] \in Nat
      /\ lost' \in Nat /\ lost' >= lost
  BY <1>1, <1>6, <1>7 DEF AtHand
<1>9. ImageFits(sweep[w].image[n], n, FALSE, n \in sweep[w].tried)'
  <2>1. n \in sweep'[w].tried
    BY <1>5
  <2>2. spare'[n] >= MaxAttempts - nudge[n].attempts - 1
    BY <1>1, <1>7 DEF AtHand
  <2>3. QED
    BY <1>1, <1>2, <1>5, <1>6, <1>7, <2>1, <2>2 DEF AtHand, ImageFits, IsPending
<1>10. RowInv'
  BY <1>1, <1>3, <1>5, <1>6, <1>7, <1>8, <1>9, SettleKeeps DEF RowInv, Shapes
<1>11. Heard'
  BY <1>1, <1>3, <1>5, <1>6, ReachedHeard DEF Sent
<1>12. QED
  BY <1>6, <1>10, <1>11, OthersKeep

LEMMA FailedRow ==
    ASSUME NEW row, DOMAIN row = RowFields, row.attempts \in Nat,
           row.status = "pending"
    PROVE  /\ DOMAIN Failed(row) = RowFields
           /\ Failed(row).on = row.on /\ Failed(row).sent = row.sent
           /\ Failed(row).attempts = row.attempts + 1
           /\ Failed(row).status = "pending" \/ Failed(row).status = "failed"
           /\ Failed(row).status = "pending" => ~(row.attempts + 1 >= MaxAttempts)
<1> DEFINE counted == [row EXCEPT !.attempts = @ + 1]
<1>1. /\ DOMAIN counted = RowFields /\ counted.attempts = row.attempts + 1
      /\ counted.on = row.on /\ counted.sent = row.sent
      /\ counted.status = "pending"
  BY DEF RowFields
<1>2. Failed(row) = IF counted.attempts >= MaxAttempts
                    THEN [counted EXCEPT !.status = "failed"]
                    ELSE [counted EXCEPT !.wait = Backoff(counted.attempts)]
  BY DEF Failed, IsExhausted
<1> HIDE DEF counted
<1>3. CASE counted.attempts >= MaxAttempts
  BY <1>1, <1>2, <1>3 DEF RowFields
<1>4. CASE ~(counted.attempts >= MaxAttempts)
  BY <1>1, <1>2, <1>4 DEF RowFields
<1>5. QED
  BY <1>3, <1>4

\* What went wrong is counted, whether or not WhatsApp has the message.
LEMMA RefuseKeeps ==
    ASSUME NudgeInv, NEW w \in Sweepers, NEW n \in sweep[w].todo,
           sweep[w].cur = n, AtHand(w, n), Refuse(w),
           lost' \in Nat, lost' >= lost,
           DOMAIN accepted' = Nudges, DOMAIN afterClose' = Conversations,
           \A m \in Nudges \ {n} : accepted'[m] = accepted[m],
           accepted'[n] \in Nat, accepted'[n] <= lost'
    PROVE  RowInv' /\ sweep'[w].stage = "next"
<1> DEFINE row == Failed(sweep[w].image[n])
<1>1. /\ DOMAIN row = RowFields
      /\ row.on = nudge[n].on /\ ~row.sent
      /\ row.attempts = sweep[w].image[n].attempts + 1
      /\ row.status = "pending" \/ row.status = "failed"
      /\ row.status = "pending" => ~(row.attempts >= MaxAttempts)
  BY FailedRow DEF AtHand
<1>2. /\ sweep'[w] = [Settle(w, n, row) EXCEPT !.tried = @ \cup {n}]
      /\ DOMAIN sweep' = Sweepers
      /\ \A v \in Sweepers \ {w} : sweep'[v] = sweep[v]
  BY DEF Refuse, Image, NudgeInv, RowInv, Shapes
<1> HIDE DEF row
<1>3. /\ DOMAIN sweep'[w] = SweepFields
      /\ sweep'[w].tried = Settle(w, n, row).tried \cup {n}
      /\ sweep'[w].stage = Settle(w, n, row).stage
      /\ sweep'[w].todo = Settle(w, n, row).todo
      /\ sweep'[w].cur = Settle(w, n, row).cur
      /\ sweep'[w].image = Settle(w, n, row).image
  <2>1. DOMAIN Settle(w, n, row) = SweepFields
    BY SettledShape DEF NudgeInv
  <2>2. QED
    BY <1>2, <2>1 DEF SweepFields
<1>4. /\ Shaped(sweep'[w]) /\ sweep'[w].stage = "next"
      /\ DOMAIN sweep'[w].image = HeldBy(w)
      /\ sweep'[w].image[n] = row
      /\ \A m \in HeldBy(w) \ {n} : sweep'[w].image[m] = sweep[w].image[m]
      /\ sweep'[w].todo = sweep[w].todo \ {n}
      /\ sweep'[w].tried = sweep[w].tried \cup {n}
  <2>1. RowInv
    BY DEF NudgeInv
  <2> DEFINE s == sweep'[w]
  <2>2. /\ DOMAIN s = SweepFields
        /\ s.tried = Settle(w, n, row).tried \cup {n}
        /\ s.stage = Settle(w, n, row).stage /\ s.todo = Settle(w, n, row).todo
        /\ s.cur = Settle(w, n, row).cur /\ s.image = Settle(w, n, row).image
    BY <1>3
  <2> HIDE DEF s
  <2>3. /\ Shaped(s) /\ s.stage = "next" /\ DOMAIN s.image = HeldBy(w)
        /\ s.image[n] = row
        /\ \A m \in HeldBy(w) \ {n} : s.image[m] = sweep[w].image[m]
        /\ s.todo = sweep[w].todo \ {n}
        /\ s.tried = sweep[w].tried \cup {n}
    BY <2>1, <2>2, TriedShape
  <2>4. QED
    BY <2>3 DEF s
<1>5. UNCHANGED <<nudge, request, hook, silenced>> /\ Tried(n)
  BY DEF Refuse
<1>6. /\ DOMAIN spare' = Nudges
      /\ \A m \in Nudges \ {n} : spare'[m] = spare[m]
      /\ spare'[n] = spare[n] - 1
  BY <1>5, TriedCounts DEF AtHand
<1>7. accepted'[n] <= 1 + lost' /\ spare'[n] \in Nat
  BY <1>6 DEF AtHand
<1>8. ImageFits(sweep[w].image[n], n, FALSE, n \in sweep[w].tried)'
  <2>1. n \in sweep'[w].tried
    BY <1>4
  <2>2. /\ spare'[n] >= MaxAttempts - nudge[n].attempts - 1
        /\ spare'[n] >= MaxAttempts - row.attempts
        /\ row.attempts \in Nat
        /\ row.status = "pending" => row.attempts < MaxAttempts
    BY <1>1, <1>6 DEF AtHand
  <2>3. QED
    BY <1>1, <1>4, <1>5, <2>1, <2>2 DEF AtHand, ImageFits, IsPending
<1>9. RowInv /\ DOMAIN request' = Requests /\ DOMAIN hook' = Hooks
  BY <1>5 DEF NudgeInv, RowInv, Shapes
<1>10. RowInv'
  <2>1. /\ \A m \in Nudges \ {n} : accepted'[m] = accepted[m] /\ spare'[m] = spare[m]
        /\ UNCHANGED <<nudge, silenced>>
        /\ DOMAIN request' = Requests /\ DOMAIN hook' = Hooks
    BY <1>5, <1>6, <1>9
  <2>2. /\ sweep'[w].todo \subseteq sweep[w].todo \ {n}
        /\ sweep'[w].tried = sweep[w].tried \cup {n}
    BY <1>4
  <2>3. QED
    BY <1>2, <1>4, <1>6, <1>7, <1>8, <1>9, <2>1, <2>2, SettleKeeps
<1>11. QED
  BY <1>4, <1>10

LEMMA RefusedKeeps == ASSUME NudgeInv, NEW w \in Sweepers, Refused(w) PROVE NudgeInv'
<1>1. PICK n \in sweep[w].todo : n = sweep[w].cur /\ AtHand(w, n)
  BY AtSend, InTodo DEF NudgeInv, Refused
<1>2. Refuse(w) /\ UNCHANGED <<accepted, afterClose, lost>>
  BY DEF Refused, bounds
<1>3. accepted'[n] \in Nat /\ accepted'[n] <= lost' /\ lost' \in Nat /\ lost' >= lost
  BY <1>1, <1>2 DEF AtHand
<1>4. RowInv' /\ sweep'[w].stage = "next"
  BY <1>1, <1>2, <1>3, RefuseKeeps DEF NudgeInv, RowInv, Shapes
<1>5. /\ UNCHANGED <<nudge, closed, request, hook>>
      /\ \A v \in Sweepers \ {w} : sweep'[v] = sweep[v]
  BY <1>2 DEF Refuse, NudgeInv, RowInv, Shapes
<1>6. Heard'
  BY <1>2, <1>4, <1>5, QuietHeard
<1>7. QED
  BY <1>4, <1>5, <1>6, OthersKeep

LEMMA UnansweredKeeps ==
    ASSUME NudgeInv, NEW w \in Sweepers, Unanswered(w) PROVE NudgeInv'
<1>1. PICK n \in sweep[w].todo : n = sweep[w].cur /\ AtHand(w, n)
  BY AtSend, InTodo DEF NudgeInv, Unanswered
<1>2. Refuse(w) /\ Reached(n) /\ lost' = lost + 1 /\ sweep[w].stage = "send"
  BY <1>1 DEF Unanswered, Mishap
<1>3. /\ DOMAIN accepted' = Nudges /\ DOMAIN afterClose' = Conversations
      /\ \A m \in Nudges \ {n} : accepted'[m] = accepted[m]
      /\ accepted'[n] \in Nat /\ accepted'[n] <= accepted[n] + 1
  BY <1>1, <1>2, ReachedCounts DEF AtHand
<1>4. accepted'[n] <= lost' /\ lost' \in Nat /\ lost' >= lost
  BY <1>1, <1>2, <1>3 DEF AtHand
<1>5. RowInv' /\ sweep'[w].stage = "next"
  BY <1>1, <1>2, <1>3, <1>4, RefuseKeeps
<1>6. /\ UNCHANGED <<nudge, closed, request, hook>>
      /\ \A v \in Sweepers \ {w} : sweep'[v] = sweep[v]
  BY <1>2 DEF Refuse, NudgeInv, RowInv, Shapes
<1>7. Heard'
  BY <1>1, <1>2, <1>5, <1>6, ReachedHeard
<1>8. QED
  BY <1>5, <1>6, <1>7, OthersKeep

\* A worker takes rows that wait and that nobody holds.
LEMMA ClaimKeeps == ASSUME NudgeInv, NEW w \in Sweepers, Claim(w) PROVE NudgeInv'
<1>1. PICK claimed \in SUBSET {n \in Due : NudgeFree(n) /\ ~QueuedFor(n)} :
        sweep' = [sweep EXCEPT ![w] =
                    [Resting EXCEPT !.stage = "next", !.todo = claimed,
                                    !.image = [n \in claimed |-> nudge[n]]]]
  BY DEF Claim
<1>2. \A n \in claimed : n \in Nudges /\ IsPending(n) /\ NudgeFree(n)
  BY DEF Due
<1>3. /\ UNCHANGED <<nudge, closed, request, hook, accepted, silenced, afterClose,
                     spare, lost>>
      /\ sweep[w].stage = "idle"
  BY DEF Claim, history, bounds
<1>4. /\ DOMAIN sweep' = Sweepers
      /\ \A v \in Sweepers \ {w} : sweep'[v] = sweep[v]
      /\ DOMAIN sweep'[w] = SweepFields
      /\ sweep'[w].stage = "next" /\ sweep'[w].todo = claimed
      /\ sweep'[w].tried = {}
      /\ DOMAIN sweep'[w].image = claimed
      /\ \A n \in claimed : sweep'[w].image[n] = nudge[n]
  BY <1>1 DEF NudgeInv, RowInv, Shapes, Resting, SweepFields
<1>5. HeldBy(w) = {}
  BY <1>3 DEF NudgeInv, RowInv, Shapes, Shaped, HeldBy
<1>6. \A v \in Sweepers : v # w => DOMAIN sweep'[v].image = HeldBy(v)
  BY <1>4 DEF HeldBy
<1>7. \A v \in Sweepers : HeldBy(v) \cap claimed = {}
  BY <1>2 DEF NudgeFree, HeldBy
<1>8. Shapes'
  <2>1. Shaped(sweep'[w])
    BY <1>2, <1>4 DEF Shaped
  <2>2. QED
    BY <1>3, <1>4, <2>1 DEF NudgeInv, RowInv, Shapes
<1>9. Rows'
  <2>1. \A n \in Nudges : NudgeFree(n)' => NudgeFree(n)
    BY <1>5, <1>6 DEF NudgeFree, HeldBy
  <2>2. QED
    BY <1>3, <2>1 DEF NudgeInv, RowInv, Rows, RowFits, Untouched, IsPending
<1>10. Held'
  <2> SUFFICES ASSUME NEW v \in Sweepers, NEW n \in DOMAIN sweep'[v].image
               PROVE  ImageFits(sweep[v].image[n], n, n \in sweep[v].todo,
                                n \in sweep[v].tried)'
    BY DEF Held, HeldBy
  <2>1. CASE v = w
    <3>1. n \in claimed /\ sweep'[w].image[n] = nudge[n] /\ n \notin sweep'[w].tried
      BY <1>4, <2>1
    <3>2. /\ RowFits(nudge[n], n) /\ IsPending(n)
          /\ accepted[n] <= lost /\ spare[n] >= MaxAttempts - nudge[n].attempts
      BY <1>2, <3>1 DEF NudgeInv, RowInv, Rows, Untouched
    <3>3. /\ nudge[n].attempts \in Nat /\ MaxAttempts \in Nat /\ spare[n] \in Nat
          /\ spare[n] >= MaxAttempts - nudge[n].attempts - 0
      BY <3>2, FollowUpsAssumption DEF RowFits
    <3>4. QED
      BY <1>3, <2>1, <3>1, <3>2, <3>3 DEF ImageFits, RowFits, IsPending
  <2>2. CASE v # w
    BY <1>3, <1>4, <2>2 DEF NudgeInv, RowInv, Held, HeldBy, ImageFits, IsPending
  <2>3. QED
    BY <2>1, <2>2
<1>11. Apart'
  BY <1>4, <1>6, <1>7 DEF NudgeInv, RowInv, Apart, HeldBy
<1>12. Alone'
  BY <1>3 DEF NudgeInv, RowInv, Alone, IsPending
<1>13. Heard'
  BY <1>3, <1>4, QuietHeard
<1>14. QED
  BY <1>3, <1>8, <1>9, <1>10, <1>11, <1>12, <1>13, OthersKeep DEF RowInv

\* Staging a message looks at the conversation: it is open.
LEMMA StageKeeps == ASSUME NudgeInv, NEW w \in Sweepers, Stage(w) PROVE NudgeInv'
<1>1. PICK n \in sweep[w].todo :
        /\ MayBe("send", w, n)
        /\ sweep' = [sweep EXCEPT ![w].stage = "send", ![w].cur = n]
  BY DEF Stage
<1>2. AtHand(w, n) /\ RowInv
  BY InTodo DEF NudgeInv
<1>3. nudge[n].on \in Conversations \ closed
  <2>1. PICK open \in BOOLEAN, refused \in BOOLEAN :
            Decision(w, n, open, refused) = "send"
    BY <1>1 DEF MayBe
  <2>2. sweep[w].image[n].on \notin closed
    BY <2>1 DEF Decision
  <2>3. QED
    BY <1>2, <2>2 DEF AtHand
<1>4. UNCHANGED <<nudge, closed, request, hook, accepted, silenced, afterClose,
                  spare, lost>>
  BY DEF Stage, history, bounds
<1>5. /\ DOMAIN sweep' = Sweepers
      /\ \A v \in Sweepers \ {w} : sweep'[v] = sweep[v]
      /\ DOMAIN sweep'[w] = SweepFields
      /\ sweep'[w].stage = "send" /\ sweep'[w].cur = n
      /\ sweep'[w].todo = sweep[w].todo /\ sweep'[w].image = sweep[w].image
      /\ sweep'[w].tried = sweep[w].tried
  BY <1>1 DEF NudgeInv, RowInv, Shapes, Shaped, SweepFields
<1>6. \A v \in Sweepers : /\ sweep'[v].image = sweep[v].image
                          /\ sweep'[v].todo = sweep[v].todo
                          /\ sweep'[v].tried = sweep[v].tried
  BY <1>5
<1>7. Shapes'
  <2>1. Shaped(sweep'[w])
    BY <1>5 DEF Shaped, NudgeInv, RowInv, Shapes
  <2>2. QED
    BY <1>4, <1>5, <2>1 DEF NudgeInv, RowInv, Shapes
<1>8. Rows' /\ Alone'
  BY <1>4, <1>6 DEF NudgeInv, RowInv, Rows, Alone, RowFits, Untouched, IsPending, NudgeFree
<1>9. Held' /\ Apart'
  BY <1>4, <1>6 DEF NudgeInv, RowInv, Held, Apart, HeldBy, ImageFits, IsPending
<1>10. Heard'
  BY <1>3, <1>4, <1>5 DEF NudgeInv, Heard
<1>11. QED
  BY <1>4, <1>7, <1>8, <1>9, <1>10, OthersKeep DEF RowInv

\* The commit makes the images the rows.
LEMMA CommitKeeps == ASSUME NudgeInv, NEW w \in Sweepers, Commit(w) PROVE NudgeInv'
<1>1. /\ UNCHANGED <<closed, request, hook, accepted, silenced, afterClose, spare, lost>>
      /\ DOMAIN sweep' = Sweepers
      /\ \A v \in Sweepers \ {w} : sweep'[v] = sweep[v]
      /\ sweep'[w] = Resting
      /\ DOMAIN nudge' = Nudges
      /\ sweep[w].todo = {}
  BY DEF Commit, history, bounds, NudgeInv, RowInv, Shapes
<1>2. \A n \in Nudges : /\ n \in HeldBy(w) => nudge'[n] = sweep[w].image[n]
                        /\ n \notin HeldBy(w) => nudge'[n] = nudge[n]
  BY DEF Commit, HeldBy
<1>3. /\ HeldBy(w)' = {} /\ Shaped(sweep'[w])
      /\ \A v \in Sweepers \ {w} : HeldBy(v)' = HeldBy(v)
  BY <1>1, RestingShape DEF HeldBy
<1>4. \A v \in Sweepers \ {w} : \A n \in HeldBy(v) : nudge'[n] = nudge[n] /\ n \in Nudges
  BY <1>2 DEF NudgeInv, RowInv, Apart, Shapes, Shaped, HeldBy
<1>5. \A n \in HeldBy(w) : /\ n \in Nudges /\ IsPending(n)
                           /\ nudge'[n].status # "absent"
                           /\ nudge'[n].on = nudge[n].on
  BY <1>2 DEF NudgeInv, RowInv, Shapes, Shaped, Held, HeldBy, ImageFits
<1>6. Shapes'
  BY <1>1, <1>3 DEF NudgeInv, RowInv, Shapes
<1>7. Rows'
  <2> SUFFICES ASSUME NEW n \in Nudges PROVE RowFits(nudge[n], n)' /\ Untouched(n)'
    BY DEF Rows
  <2>1. RowFits(nudge[n], n) /\ Untouched(n)
    BY DEF NudgeInv, RowInv, Rows
  <2>2. CASE n \in HeldBy(w)
    <3>1. ImageFits(nudge'[n], n, n \in sweep[w].todo, n \in sweep[w].tried)
      BY <1>2, <2>2 DEF NudgeInv, RowInv, Held
    <3>2. RowFits(nudge[n], n)'
      BY <1>1, <2>1, <3>1 DEF ImageFits, RowFits, FollowUpStatus, IsPending
    <3>3. Untouched(n)'
      BY <1>1, <2>1, <3>1 DEF ImageFits, Untouched, IsPending
    <3>4. QED
      BY <3>2, <3>3
  <2>3. CASE n \notin HeldBy(w)
    <3>1. NudgeFree(n)' => NudgeFree(n)
      BY <1>3, <2>3 DEF NudgeFree, HeldBy
    <3>2. QED
      BY <1>1, <1>2, <2>1, <2>3, <3>1 DEF RowFits, Untouched, IsPending
  <2>4. QED
    BY <2>2, <2>3
<1>8. Held'
  <2> SUFFICES ASSUME NEW v \in Sweepers, NEW n \in HeldBy(v)'
               PROVE  ImageFits(sweep[v].image[n], n, n \in sweep[v].todo,
                                n \in sweep[v].tried)'
    BY DEF Held
  <2>1. v # w /\ n \in HeldBy(v)
    BY <1>3
  <2>2. QED
    BY <1>1, <1>4, <2>1 DEF NudgeInv, RowInv, Held, ImageFits, IsPending
<1>9. Apart'
  BY <1>3 DEF NudgeInv, RowInv, Apart
<1>10. Alone'
  BY <1>2, <1>5 DEF NudgeInv, RowInv, Alone, IsPending
<1>11. Heard'
  <2>1. \A v \in Sweepers \ {w} : sweep[v].stage = "send" =>
            nudge'[sweep[v].cur] = nudge[sweep[v].cur]
    BY <1>4, AtSend, InTodo DEF AtHand, NudgeInv
  <2>2. QED
    BY <1>1, <2>1, RestingShape DEF NudgeInv, Heard
<1>12. \A n \in Nudges : /\ nudge[n].status = "absent" => nudge'[n] = nudge[n]
                         /\ nudge[n].status # "absent" => nudge'[n].status # "absent"
  BY <1>2, <1>5 DEF IsPending
<1>13. Asked'
  BY <1>1, <1>12 DEF NudgeInv, Asked
<1>14. Seen'
  BY <1>1, <1>12 DEF NudgeInv, Seen
<1>15. QED
  BY <1>6, <1>7, <1>8, <1>9, <1>10, <1>11, <1>13, <1>14 DEF NudgeInv, RowInv

\* A transaction that is gone takes its attempts back and costs one loss.
LEMMA RollBackKeeps ==
    ASSUME NudgeInv, NEW w \in Sweepers, RollBack(w), lost + 1 = lost'
    PROVE  NudgeInv'
<1>1. /\ UNCHANGED <<nudge, closed, request, hook, accepted, silenced, afterClose>>
      /\ DOMAIN sweep' = Sweepers /\ DOMAIN spare' = Nudges
      /\ \A v \in Sweepers \ {w} : sweep'[v] = sweep[v]
      /\ sweep'[w] = Resting
      /\ \A n \in Nudges : spare'[n] = IF n \in sweep[w].tried
                                       THEN spare[n] + 1 ELSE spare[n]
  BY DEF RollBack, NudgeInv, RowInv, Shapes
<1>2. /\ HeldBy(w)' = {} /\ Shaped(sweep'[w])
      /\ \A v \in Sweepers \ {w} : HeldBy(v)' = HeldBy(v)
  BY <1>1, RestingShape DEF HeldBy
<1>3. lost \in Nat /\ lost' \in Nat /\ lost' >= lost
  BY DEF NudgeInv, RowInv, Shapes
<1>4. Shapes'
  BY <1>1, <1>2, <1>3 DEF NudgeInv, RowInv, Shapes
<1>5. \A n \in Nudges : spare[n] \in Nat /\ spare'[n] \in Nat /\ spare'[n] >= spare[n]
  BY <1>1 DEF NudgeInv, RowInv, Rows, RowFits
<1>6. Rows'
  <2> SUFFICES ASSUME NEW n \in Nudges PROVE RowFits(nudge[n], n)' /\ Untouched(n)'
    BY DEF Rows
  <2>1. RowFits(nudge[n], n) /\ Untouched(n) /\ accepted[n] \in Nat
        /\ nudge[n].attempts \in Nat /\ MaxAttempts \in Nat
    BY FollowUpsAssumption DEF NudgeInv, RowInv, Rows, RowFits
  <2>2. RowFits(nudge[n], n)'
    BY <1>1, <1>3, <1>5, <2>1 DEF RowFits
  <2>3. CASE n \in HeldBy(w)
    <3>1. spare[n] >= MaxAttempts - nudge[n].attempts -
                        (IF n \in sweep[w].tried THEN 1 ELSE 0)
      BY <2>3 DEF NudgeInv, RowInv, Held, ImageFits
    <3>2. spare'[n] >= MaxAttempts - nudge[n].attempts
      <4>1. CASE n \in sweep[w].tried
        <5>1. spare'[n] = spare[n] + 1
          BY <1>1, <4>1
        <5>2. spare[n] >= MaxAttempts - nudge[n].attempts - 1
          BY <3>1, <4>1
        <5>3. QED
          BY <1>5, <2>1, <5>1, <5>2
      <4>2. CASE n \notin sweep[w].tried
        <5>1. spare'[n] = spare[n]
          BY <1>1, <4>2
        <5>2. spare[n] >= MaxAttempts - nudge[n].attempts - 0
          BY <3>1, <4>2
        <5>3. QED
          BY <1>5, <2>1, <5>1, <5>2
      <4>3. QED
        BY <4>1, <4>2
    <3>3. accepted'[n] <= lost'
      BY <1>1, <1>3, <2>1 DEF RowFits
    <3>4. nudge' = nudge
      BY <1>1
    <3>5. QED
      BY <2>2, <3>2, <3>3, <3>4 DEF Untouched
  <2>4. CASE n \notin HeldBy(w)
    <3>1. NudgeFree(n)' => NudgeFree(n)
      BY <1>2, <2>4 DEF NudgeFree, HeldBy
    <3>2. /\ nudge' = nudge /\ accepted' = accepted
          /\ lost' >= lost /\ lost \in Nat /\ lost' \in Nat
          /\ spare'[n] >= spare[n] /\ spare[n] \in Nat /\ spare'[n] \in Nat
      BY <1>1, <1>3, <1>5
    <3>3. IsPending(n)' <=> IsPending(n)
      BY <3>2 DEF IsPending
    <3>4. IsPending(n) /\ NudgeFree(n) =>
            accepted'[n] <= lost' /\ spare'[n] >= MaxAttempts - nudge'[n].attempts
      BY <2>1, <3>2 DEF Untouched
    <3>5. QED
      BY <2>2, <3>1, <3>3, <3>4 DEF Untouched
  <2>5. QED
    BY <2>3, <2>4
<1>7. Held'
  <2> SUFFICES ASSUME NEW v \in Sweepers, NEW n \in HeldBy(v)'
               PROVE  ImageFits(sweep[v].image[n], n, n \in sweep[v].todo,
                                n \in sweep[v].tried)'
    BY DEF Held
  <2>1. v # w /\ n \in HeldBy(v) /\ n \in Nudges
    BY <1>2 DEF NudgeInv, RowInv, Shapes, Shaped, HeldBy
  <2>2. ImageFits(sweep[v].image[n], n, n \in sweep[v].todo, n \in sweep[v].tried)
    BY <2>1 DEF NudgeInv, RowInv, Held
  <2>3. /\ spare[n] \in Nat /\ spare'[n] \in Nat /\ spare'[n] >= spare[n]
        /\ accepted[n] \in Nat /\ nudge[n].attempts \in Nat /\ MaxAttempts \in Nat
    BY <1>5, <2>1, FollowUpsAssumption DEF NudgeInv, RowInv, Rows, RowFits
  <2>4. QED
    BY <1>1, <1>3, <2>1, <2>2, <2>3 DEF ImageFits, IsPending
<1>8. Apart'
  BY <1>2 DEF NudgeInv, RowInv, Apart
<1>9. Alone'
  BY <1>1 DEF NudgeInv, RowInv, Alone, IsPending
<1>10. Heard'
  BY <1>1, RestingShape, QuietHeard
<1>11. QED
  BY <1>1, <1>4, <1>6, <1>7, <1>8, <1>9, <1>10, OthersKeep DEF RowInv

\* Time changes no row but in when it is due.
LEMMA SoonerRow ==
    ASSUME NEW row, DOMAIN row = RowFields
    PROVE  /\ DOMAIN Sooner(row) = RowFields
           /\ Sooner(row).status = row.status /\ Sooner(row).on = row.on
           /\ Sooner(row).attempts = row.attempts /\ Sooner(row).sent = row.sent
  BY DEF Sooner, RowFields


LEMMA TickKeeps == ASSUME NudgeInv, Tick PROVE NudgeInv'
<1>1. /\ UNCHANGED <<closed, hook, accepted, silenced, afterClose, spare, lost>>
      /\ DOMAIN nudge' = Nudges /\ DOMAIN sweep' = Sweepers
      /\ DOMAIN request' = Requests
  BY DEF Tick, history, bounds, NudgeInv, RowInv, Shapes
<1>2. \A n \in Nudges : /\ DOMAIN nudge'[n] = RowFields
                        /\ nudge'[n].status = nudge[n].status
                        /\ nudge'[n].on = nudge[n].on
                        /\ nudge'[n].attempts = nudge[n].attempts
                        /\ nudge'[n].sent = nudge[n].sent
  <2> SUFFICES ASSUME NEW n \in Nudges
               PROVE  /\ DOMAIN nudge'[n] = RowFields
                      /\ nudge'[n].status = nudge[n].status
                      /\ nudge'[n].on = nudge[n].on
                      /\ nudge'[n].attempts = nudge[n].attempts
                      /\ nudge'[n].sent = nudge[n].sent
    OBVIOUS
  <2>1. nudge'[n] = Sooner(nudge[n]) /\ DOMAIN nudge[n] = RowFields
    BY DEF Tick, NudgeInv, RowInv, Rows, RowFits
  <2>2. QED
    BY <2>1, SoonerRow
<1>3. \A w \in Sweepers :
        /\ DOMAIN sweep'[w] = SweepFields
        /\ sweep'[w].stage = sweep[w].stage /\ sweep'[w].todo = sweep[w].todo
        /\ sweep'[w].cur = sweep[w].cur /\ sweep'[w].tried = sweep[w].tried
        /\ DOMAIN sweep'[w].image = HeldBy(w)
        /\ \A n \in HeldBy(w) : sweep'[w].image[n] = Sooner(sweep[w].image[n])
  <2> TAKE w \in Sweepers
  <2>1. DOMAIN sweep[w] = SweepFields
    BY DEF NudgeInv, RowInv, Shapes, Shaped
  <2>2. sweep'[w] = [sweep[w] EXCEPT !.image =
            [n \in DOMAIN sweep[w].image |-> Sooner(sweep[w].image[n])]]
    BY DEF Tick
  <2>3. QED
    BY <2>1, <2>2 DEF SweepFields, HeldBy
<1>4. \A r \in Requests :
        /\ DOMAIN request[r] = RequestFields
        /\ request'[r] = [request[r] EXCEPT !.write = Sooner(request[r].write)]
  BY DEF Tick, NudgeInv, Asked
<1>5. Shapes'
  <2>1. \A w \in Sweepers : Shaped(sweep'[w])
    BY <1>3 DEF NudgeInv, RowInv, Shapes, Shaped, HeldBy
  <2>2. QED
    BY <1>1, <2>1 DEF NudgeInv, RowInv, Shapes
<1>6. \A n \in Nudges : IsPending(n)' <=> IsPending(n)
  BY <1>2 DEF IsPending
<1>7. Rows'
  <2>1. \A n \in Nudges : NudgeFree(n)' <=> NudgeFree(n)
    BY <1>3 DEF NudgeFree, HeldBy
  <2>2. QED
    BY <1>1, <1>2, <1>6, <2>1 DEF NudgeInv, RowInv, Rows, RowFits, Untouched
<1>8. Held'
  <2> SUFFICES ASSUME NEW w \in Sweepers, NEW n \in HeldBy(w)
               PROVE  ImageFits(sweep[w].image[n], n, n \in sweep[w].todo,
                                n \in sweep[w].tried)'
    BY <1>3 DEF Held, HeldBy
  <2>1. /\ ImageFits(sweep[w].image[n], n, n \in sweep[w].todo, n \in sweep[w].tried)
        /\ n \in Nudges
    BY DEF NudgeInv, RowInv, Held, Shapes, Shaped, HeldBy
  <2> DEFINE old == sweep[w].image[n]
             row == Sooner(old)
  <2>2. /\ DOMAIN row = RowFields /\ row.status = old.status /\ row.on = old.on
        /\ row.attempts = old.attempts /\ row.sent = old.sent
    BY <2>1, SoonerRow DEF ImageFits
  <2>3. /\ sweep'[w].image[n] = row /\ sweep'[w].todo = sweep[w].todo
        /\ sweep'[w].tried = sweep[w].tried
    BY <1>3
  <2> HIDE DEF row
  <2>4. QED
    BY <1>1, <1>2, <1>6, <2>1, <2>2, <2>3 DEF ImageFits
<1>9. Apart'
  BY <1>3 DEF NudgeInv, RowInv, Apart, HeldBy
<1>10. Alone'
  BY <1>2, <1>6 DEF NudgeInv, RowInv, Alone
<1>11. Heard'
  <2>1. \A w \in Sweepers : sweep[w].stage = "send" => sweep[w].cur \in Nudges
    BY AtSend, InTodo DEF AtHand, NudgeInv
  <2>2. QED
    BY <1>1, <1>2, <1>3, <2>1 DEF NudgeInv, Heard
<1>12. \A r \in Requests :
        /\ DOMAIN request'[r] = RequestFields
        /\ request'[r].op = request[r].op /\ request'[r].about = request[r].about
        /\ request'[r].write = Sooner(request[r].write)
  BY <1>4 DEF RequestFields
<1>13. \A r \in Requests : request[r].op = "create" =>
        /\ DOMAIN request'[r].write = RowFields
        /\ request'[r].write.status = request[r].write.status
        /\ request'[r].write.on = request[r].write.on
        /\ request'[r].write.attempts = request[r].write.attempts
        /\ request'[r].write.sent = request[r].write.sent
  BY <1>12, SoonerRow DEF NudgeInv, Asked
<1>14. Asked'
  BY <1>1, <1>2, <1>12, <1>13 DEF NudgeInv, Asked
<1>15. Seen'
  BY <1>1, <1>2 DEF NudgeInv, Seen
<1>16. QED
  BY <1>5, <1>7, <1>8, <1>9, <1>10, <1>11, <1>14, <1>15 DEF NudgeInv, RowInv

-----------------------------------------------------------------------------
(* The invariant, and what follows from it                                 *)

LEMMA NudgeStays == ASSUME NudgeInv, UNCHANGED vars PROVE NudgeInv'
<1>1. UNCHANGED <<nudge, closed, sweep, hook, request, accepted, silenced,
                  afterClose, spare, lost>>
  BY DEF vars
<1>2. RowInv'
  BY <1>1, RowsStay DEF NudgeInv, RowInv, Shapes
<1>3. QED
  BY <1>1, <1>2, HeardStays, AskedStays, SeenStays DEF NudgeInv

LEMMA NudgeStep == ASSUME NudgeInv, [Next]_vars PROVE NudgeInv'
<1>1. ASSUME NEW w \in Sweepers, SweepStep(w) \/ Unanswered(w) \/ Escapes(w) \/ Crash(w)
      PROVE  NudgeInv'
  <2>1. CASE Crash(w) \/ AbortSweep(w)
    BY <2>1, RollBackKeeps DEF Crash, AbortSweep, Mishap
  <2>2. CASE Claim(w)
    BY <2>2, ClaimKeeps
  <2>3. CASE Skip(w)
    BY <2>3, SkipKeeps
  <2>4. CASE Stage(w)
    BY <2>4, StageKeeps
  <2>5. CASE Sent(w)
    BY <2>5, SentKeeps
  <2>6. CASE Refused(w)
    BY <2>6, RefusedKeeps
  <2>7. CASE Commit(w)
    BY <2>7, CommitKeeps
  <2>8. CASE Unanswered(w)
    BY <2>8, UnansweredKeeps
  <2>9. CASE Escapes(w)
    BY <2>9, EscapesKeeps
  <2>10. QED
    BY <1>1, <2>1, <2>2, <2>3, <2>4, <2>5, <2>6, <2>7, <2>8, <2>9 DEF SweepStep
<1>2. ASSUME NEW r \in Requests, ReadSchedule(r) \/ ReadCancel(r) \/ RequestStep(r)
      PROVE  NudgeInv'
  BY <1>2, ReadScheduleKeeps, ReadCancelKeeps, CreateKeeps, RescheduleKeeps,
     CancelKeeps DEF RequestStep
<1>3. ASSUME NEW h \in Hooks, ReadPending(h) \/ HookStep(h) PROVE NudgeInv'
  BY <1>3, HookKeeps, CancelOnReplyKeeps DEF HookStep
<1>4. ASSUME NEW c \in Conversations, Close(c) \/ Reopen(c) PROVE NudgeInv'
  BY <1>4, DoorKeeps
<1>5. CASE Tick
  BY <1>5, TickKeeps
<1>6. CASE UNCHANGED vars
  BY <1>6, NudgeStays
<1>7. QED
  BY <1>1, <1>2, <1>3, <1>4, <1>5, <1>6 DEF Next

\* The invariant holds in every reachable state.
THEOREM NudgesAreKept == Spec => []NudgeInv
<1>1. QED
  BY NudgeInit, NudgeStep, PTL DEF Spec

LEMMA InvImpliesNudgesHold == NudgeInv => NudgesHold
<1> SUFFICES ASSUME NudgeInv PROVE NudgesHold
  OBVIOUS
<1>1. OnlyLossRepeats /\ SentWasAccepted /\ TriesBounded
  BY DEF NudgeInv, RowInv, Rows, RowFits, OnlyLossRepeats, SentWasAccepted, TriesBounded
<1>2. ClosingIsHeard
  BY DEF NudgeInv, Heard, ClosingIsHeard
<1>3. QED
  BY <1>1, <1>2 DEF NudgesHold

\* Whatever crashes, crosses or is cancelled: only a loss repeats a nudge, what the
\* rows say is what happened, the attempts are bounded, and closing is heard.
THEOREM NudgesHoldAlways == Spec => []NudgesHold
<1>1. QED
  BY NudgesAreKept, InvImpliesNudgesHold, PTL

-----------------------------------------------------------------------------
(* What a step may never do                                                *)

\* The steps that write no row.
LEMMA NoRowWritten ==
    ASSUME NEW w \in Sweepers,
           \/ Claim(w) \/ Skip(w) \/ Stage(w) \/ Sent(w) \/ Refused(w)
           \/ AbortSweep(w) \/ Unanswered(w) \/ Escapes(w) \/ Crash(w)
    PROVE  nudge' = nudge
<1>1. CASE Claim(w) \/ Skip(w) \/ Stage(w) \/ Sent(w) \/ Escapes(w)
  BY <1>1 DEF Claim, Skip, Stage, Sent, Escapes
<1>2. CASE Refused(w) \/ Unanswered(w)
  BY <1>2 DEF Refused, Unanswered, Refuse
<1>3. CASE AbortSweep(w) \/ Crash(w)
  BY <1>3 DEF AbortSweep, Crash, RollBack
<1>4. QED
  BY <1>1, <1>2, <1>3

LEMMA FinishedStep ==
    ASSUME NudgeInv, [Next]_vars, NEW n \in Nudges,
           nudge[n].status \notin {"absent", "pending"}
    PROVE  nudge'[n].status \notin {"absent", "pending"}
<1>1. ASSUME NEW w \in Sweepers, SweepStep(w) \/ Unanswered(w) \/ Escapes(w) \/ Crash(w)
      PROVE  nudge'[n].status \notin {"absent", "pending"}
  <2>1. CASE Commit(w)
    <3>1. n \notin HeldBy(w)
      BY DEF NudgeInv, RowInv, Held, ImageFits, IsPending
    <3>2. QED
      BY <2>1, <3>1 DEF Commit, HeldBy
  <2>2. CASE ~Commit(w)
    BY <1>1, <2>2, NoRowWritten DEF SweepStep
  <2>3. QED
    BY <2>1, <2>2
<1>2. ASSUME NEW r \in Requests, ReadSchedule(r) \/ ReadCancel(r) \/ RequestStep(r)
      PROVE  nudge'[n].status \notin {"absent", "pending"}
  <2>1. CASE ReadSchedule(r) \/ ReadCancel(r)
    BY <2>1 DEF ReadSchedule, ReadCancel, Begin
  <2>2. CASE Create(r)
    <3>1. request[r].about # n
      BY <2>2 DEF Create, NudgeInv, Asked
    <3>2. QED
      BY <2>2, <3>1 DEF Create, NudgeInv, RowInv, Shapes
  <2>3. ASSUME Reschedule(r) \/ Cancel(r)
        PROVE  nudge'[n].status = nudge[n].status \/ nudge'[n].status = "cancelled"
    <3>1. DOMAIN nudge[n] = RowFields /\ DOMAIN nudge = Nudges
      BY DEF NudgeInv, RowInv, Shapes, Rows, RowFits
    <3>2. CASE request[r].about # n
      BY <2>3, <3>1, <3>2 DEF Reschedule, Cancel
    <3>3. CASE request[r].about = n /\ Reschedule(r)
      <4>1. nudge'[n] = Rescheduled(nudge[n], request[r].read, request[r].write)
        BY <3>1, <3>3 DEF Reschedule
      <4>2. QED
        BY <3>1, <4>1 DEF Rescheduled, RowFields
    <3>4. CASE request[r].about = n /\ Cancel(r)
      <4>1. nudge'[n] = [nudge[n] EXCEPT !.status = "cancelled"]
        BY <3>1, <3>4 DEF Cancel
      <4>2. QED
        BY <3>1, <4>1 DEF RowFields
    <3>5. QED
      BY <2>3, <3>2, <3>3, <3>4
  <2>4. QED
    BY <1>2, <2>1, <2>2, <2>3 DEF RequestStep
<1>3. ASSUME NEW h \in Hooks, ReadPending(h) \/ HookStep(h)
      PROVE  nudge'[n].status \notin {"absent", "pending"}
  <2>1. CASE CancelOnReply(h)
    <3>1. DOMAIN nudge[n] = RowFields
      BY DEF NudgeInv, RowInv, Rows, RowFits
    <3>2. nudge'[n] = nudge[n] \/ nudge'[n] = [nudge[n] EXCEPT !.status = "cancelled"]
      BY <2>1 DEF CancelOnReply
    <3>3. QED
      BY <3>1, <3>2 DEF RowFields
  <2>2. CASE ReadPending(h) \/ TouchConversation(h) \/ Queue(h) \/ AbortHook(h)
    BY <2>2 DEF ReadPending, TouchConversation, Queue, AbortHook
  <2>3. QED
    BY <1>3, <2>1, <2>2 DEF HookStep
<1>4. ASSUME NEW c \in Conversations, Close(c) \/ Reopen(c)
      PROVE  nudge'[n].status \notin {"absent", "pending"}
  BY <1>4 DEF Close, Reopen
<1>5. CASE Tick
  <2>1. nudge'[n] = Sooner(nudge[n]) /\ DOMAIN nudge[n] = RowFields
    BY <1>5 DEF Tick, NudgeInv, RowInv, Rows, RowFits
  <2>2. QED
    BY <2>1, SoonerRow
<1>6. CASE UNCHANGED vars
  BY <1>6 DEF vars
<1>7. QED
  BY <1>1, <1>2, <1>3, <1>4, <1>5, <1>6 DEF Next

\* A nudge that is finished is never pending again, whatever was read before it
\* was finished and is written afterwards.
THEOREM FinishedForGood == Spec => FinishedIsFinal
<1>1. NudgeInv /\ [Next]_vars =>
        [\A n \in Nudges : nudge[n].status \notin {"absent", "pending"}
            => nudge'[n].status \notin {"absent", "pending"}]_vars
  BY FinishedStep
<1>2. QED
  BY NudgesAreKept, <1>1, PTL DEF Spec, FinishedIsFinal

\* WhatsApp hears only from a sweep, about a row that waits.
LEMMA SilentStep ==
    ASSUME NudgeInv, [Next]_vars, NEW n \in silenced
    PROVE  accepted'[n] = accepted[n]
<1>1. n \in Nudges /\ ~IsPending(n)
  BY DEF NudgeInv, RowInv, Shapes, Rows, RowFits, IsPending
<1>2. ASSUME NEW w \in Sweepers, Sent(w) \/ Unanswered(w)
      PROVE  accepted'[n] = accepted[n]
  <2>1. AtHand(w, sweep[w].cur) /\ Reached(sweep[w].cur)
    BY <1>2, AtSend, InTodo DEF Sent, Unanswered, NudgeInv
  <2>2. sweep[w].cur # n /\ sweep[w].cur \in Nudges
    BY <1>1, <2>1 DEF AtHand
  <2>3. QED
    BY <1>1, <2>1, <2>2, ReachedCounts
<1>3. ASSUME NEW w \in Sweepers,
             \/ Claim(w) \/ Skip(w) \/ Stage(w) \/ Refused(w) \/ Commit(w)
             \/ AbortSweep(w) \/ Escapes(w) \/ Crash(w)
      PROVE  accepted' = accepted
  <2>1. CASE Claim(w) \/ Skip(w) \/ Stage(w) \/ Commit(w) \/ Escapes(w)
    BY <2>1 DEF Claim, Skip, Stage, Commit, Escapes, history
  <2>2. CASE Refused(w)
    BY <2>2 DEF Refused
  <2>3. CASE AbortSweep(w) \/ Crash(w)
    BY <2>3 DEF AbortSweep, Crash, RollBack
  <2>4. QED
    BY <1>3, <2>1, <2>2, <2>3
<1>4. ASSUME NEW r \in Requests, ReadSchedule(r) \/ ReadCancel(r) \/ RequestStep(r)
      PROVE  accepted' = accepted
  BY <1>4 DEF ReadSchedule, ReadCancel, Begin, RequestStep, Create, Reschedule,
              Cancel, history
<1>5. ASSUME NEW h \in Hooks, ReadPending(h) \/ HookStep(h)
      PROVE  accepted' = accepted
  BY <1>5 DEF ReadPending, HookStep, TouchConversation, Queue, AbortHook,
              CancelOnReply, history
<1>6. ASSUME NEW c \in Conversations, Close(c) \/ Reopen(c) PROVE accepted' = accepted
  BY <1>6 DEF Close, Reopen, history
<1>7. CASE Tick \/ UNCHANGED vars
  BY <1>7 DEF Tick, vars, history
<1>8. QED
  BY <1>2, <1>3, <1>4, <1>5, <1>6, <1>7 DEF Next, SweepStep

\* Once a reply or a cancellation is committed WhatsApp takes no further message
\* of that nudge: whoever writes the row has waited for the sweep that holds it.
THEOREM SilencedForGood == Spec => SilencedStaysSilent
<1>1. NudgeInv /\ [Next]_vars =>
        [\A n \in silenced : accepted'[n] = accepted[n]]_vars
  BY SilentStep
<1>2. QED
  BY NudgesAreKept, <1>1, PTL DEF Spec, SilencedStaysSilent

-----------------------------------------------------------------------------
(* Types.  Attempts stay below their limit because only a row that has     *)
(* attempts left is sent, which the invariant above says.                  *)

RowTypes ==
    /\ nudge \in [Nudges -> FollowUp]
    /\ \A w \in Sweepers : sweep[w].image \in [HeldBy(w) -> FollowUp]
    /\ \A r \in Requests : request[r].write \in FollowUp

OtherTypes ==
    /\ closed \subseteq Conversations
    /\ lock \in [Conversations -> Sweepers \cup Hooks \cup {Nobody}]
    /\ \A h \in Hooks : hook[h].stage \in {"idle", "read", "touched", "queued"}
    /\ accepted \in [Nudges -> Nat]
    /\ afterClose \in [Conversations -> 0..2]
    /\ asked \in Nat /\ replies \in Nat

\* The back-off doubles: as many ticks as the attempts before have subsets.
LEMMA BackoffIsNatural == \A k \in Nat \ {0} : Backoff(k) \in Nat
<1> SUFFICES ASSUME NEW k \in Nat \ {0} PROVE Backoff(k) \in Nat
  OBVIOUS
<1>1. IsFiniteSet(1..(k - 1)) /\ Cardinality(1..(k - 1)) = k - 1
  <2>1. 1 \in Int /\ k - 1 \in Int
    OBVIOUS
  <2>2. /\ IsFiniteSet(1..(k - 1))
        /\ Cardinality(1..(k - 1)) = IF 1 > k - 1 THEN 0 ELSE (k - 1) - 1 + 1
    BY <2>1, FS_Interval
  <2>3. (IF 1 > k - 1 THEN 0 ELSE (k - 1) - 1 + 1) = k - 1
    OBVIOUS
  <2>4. QED
    BY <2>2, <2>3
<1>2. /\ IsFiniteSet(SUBSET (1..(k - 1)))
      /\ Cardinality(SUBSET (1..(k - 1))) = 2 ^ Cardinality(1..(k - 1))
  BY <1>1, FS_SUBSET, Zenon
<1>3. Cardinality(SUBSET (1..(k - 1))) \in Nat
  BY <1>2, FS_CardinalityType, Zenon
<1>4. Cardinality(SUBSET (1..(k - 1))) = Backoff(k)
  BY <1>1, <1>2, Zenon DEF Backoff
<1>5. QED
  BY <1>3, <1>4, Zenon

LEMMA FailedType ==
    ASSUME NEW row \in FollowUp, row.attempts < MaxAttempts PROVE Failed(row) \in FollowUp
<1> DEFINE counted == [row EXCEPT !.attempts = @ + 1]
<1>1. row.attempts \in Nat /\ row.attempts + 1 \in 0..MaxAttempts /\ MaxAttempts \in Nat
  BY FollowUpsAssumption DEF FollowUp
<1>2. counted \in FollowUp /\ counted.attempts \in Nat \ {0}
  BY <1>1 DEF FollowUp
<1>3. Failed(row) = IF counted.attempts >= MaxAttempts
                    THEN [counted EXCEPT !.status = "failed"]
                    ELSE [counted EXCEPT !.wait = Backoff(counted.attempts)]
  BY DEF Failed, IsExhausted
<1>4. Backoff(counted.attempts) \in Nat
  BY <1>2, BackoffIsNatural
<1> HIDE DEF counted
<1>5. [counted EXCEPT !.status = "failed"] \in FollowUp
  BY <1>2 DEF FollowUp, FollowUpStatus
<1>6. [counted EXCEPT !.wait = Backoff(counted.attempts)] \in FollowUp
  BY <1>2, <1>4 DEF FollowUp
<1>7. QED
  BY <1>3, <1>5, <1>6, Zenon

LEMMA RewrittenTypes ==
    /\ \A row \in FollowUp, s \in FollowUpStatus : [row EXCEPT !.status = s] \in FollowUp
    /\ \A row \in FollowUp : [row EXCEPT !.status = "sent", !.sent = TRUE] \in FollowUp
    /\ \A row \in FollowUp : Sooner(row) \in FollowUp
    /\ \A read : \A now, new \in FollowUp :
            Rescheduled(now, read, new) \in FollowUp
<1>1. \A row \in FollowUp, s \in FollowUpStatus : [row EXCEPT !.status = s] \in FollowUp
  BY DEF FollowUp
<1>2. \A row \in FollowUp : [row EXCEPT !.status = "sent", !.sent = TRUE] \in FollowUp
  BY DEF FollowUp, FollowUpStatus
<1>3. \A row \in FollowUp : Sooner(row) \in FollowUp
  <2> SUFFICES ASSUME NEW row \in FollowUp PROVE Sooner(row) \in FollowUp
    OBVIOUS
  <2>1. (IF row.wait > 0 THEN row.wait - 1 ELSE 0) \in Nat
    BY DEF FollowUp
  <2>2. QED
    BY <2>1 DEF FollowUp, Sooner
<1>4. \A read : \A now, new \in FollowUp :
            Rescheduled(now, read, new) \in FollowUp
  <2> SUFFICES ASSUME NEW now \in FollowUp, NEW new \in FollowUp, NEW read
               PROVE  Rescheduled(now, read, new) \in FollowUp
    OBVIOUS
  <2>1. /\ Written(read.text, new.text, now.text) \in BOOLEAN
        /\ Written(read.template, new.template, now.template) \in BOOLEAN
        /\ Written(read.attempts, 0, now.attempts) \in 0..MaxAttempts
        /\ new.wait \in Nat
    BY FollowUpsAssumption DEF FollowUp, Written
  <2>2. QED
    BY <2>1 DEF FollowUp, Rescheduled
<1>5. QED
  BY <1>1, <1>2, <1>3, <1>4

LEMMA EmptyImage == \A S : <<>> \in [{} -> S]
  OBVIOUS

LEMMA TypesBegin == Init => RowTypes /\ OtherTypes
<1> SUFFICES ASSUME Init PROVE RowTypes /\ OtherTypes
  OBVIOUS
<1>1. Unscheduled \in FollowUp
  BY FollowUpsAssumption DEF Unscheduled, FollowUp, FollowUpStatus
<1>2. \A w \in Sweepers : sweep[w].image = <<>> /\ HeldBy(w) = {}
  BY Empty DEF Init, Resting, HeldBy
<1>3. RowTypes
  BY <1>1, <1>2, EmptyImage DEF Init, RowTypes, NoRequest
<1>4. QED
  BY <1>3 DEF Init, OtherTypes, NoReply

\* What requests write has the columns of a row.
LEMMA RequestsKeepTypes ==
    ASSUME NudgeInv, RowTypes, NEW r \in Requests,
           ReadSchedule(r) \/ ReadCancel(r) \/ RequestStep(r)
    PROVE  RowTypes'
<1>1. /\ DOMAIN request = Requests
      /\ \A o \in Requests : DOMAIN request[o] = RequestFields
  BY DEF NudgeInv, RowInv, Shapes, Asked
<1>2. ASSUME NEW op, NEW n, NEW write \in FollowUp, Begin(r, op, n, write)
      PROVE  RowTypes'
  BY <1>1, <1>2 DEF Begin, RowTypes, HeldBy
<1>3. CASE ReadSchedule(r)
  <2>1. PICK c \in Conversations, delay \in 1..MaxDelay, means \in Means :
            \E n, op : Begin(r, op, n, Scheduled(c, delay, means))
    BY <1>3 DEF ReadSchedule
  <2>2. Scheduled(c, delay, means) \in FollowUp
    BY <2>1, FollowUpsAssumption DEF Scheduled, FollowUp, FollowUpStatus
  <2>3. QED
    BY <2>1, <2>2, <1>2
<1>4. CASE ReadCancel(r)
  <2>1. Unscheduled \in FollowUp
    BY FollowUpsAssumption DEF Unscheduled, FollowUp, FollowUpStatus
  <2>2. QED
    BY <1>4, <2>1, <1>2 DEF ReadCancel
<1>5. CASE RequestStep(r)
  <2>1. sweep' = sweep /\ request' = [request EXCEPT ![r] = NoRequest]
    BY <1>5 DEF RequestStep, Create, Reschedule, Cancel
  <2>2. NoRequest.write \in FollowUp
    BY FollowUpsAssumption DEF NoRequest, Unscheduled, FollowUp, FollowUpStatus
  <2>3. nudge' \in [Nudges -> FollowUp]
    <3>1. CASE Create(r)
      <4>1. CASE PendingOn(request[r].write.on) = {}
        BY <3>1, <4>1 DEF Create, RowTypes
      <4>2. CASE PendingOn(request[r].write.on) # {}
        BY <3>1, <4>2 DEF Create, RowTypes
      <4>3. QED
        BY <4>1, <4>2
    <3>2. CASE Reschedule(r)
      <4>1. request[r].about \in Nudges
        BY <3>2 DEF Reschedule, NudgeInv, Asked
      <4>2. Rescheduled(nudge[request[r].about], request[r].read, request[r].write) \in FollowUp
        BY <4>1, RewrittenTypes DEF RowTypes
      <4>3. QED
        BY <3>2, <4>1, <4>2 DEF Reschedule, RowTypes
    <3>3. CASE Cancel(r)
      <4>1. request[r].about \in Nudges /\ "cancelled" \in FollowUpStatus
        BY <3>3 DEF Cancel, NudgeInv, Asked, FollowUpStatus
      <4>2. [nudge[request[r].about] EXCEPT !.status = "cancelled"] \in FollowUp
        BY <4>1, RewrittenTypes DEF RowTypes
      <4>3. QED
        BY <3>3, <4>1, <4>2 DEF Cancel, RowTypes
    <3>4. QED
      BY <1>5, <3>1, <3>2, <3>3 DEF RequestStep
  <2>4. QED
    BY <1>1, <2>1, <2>2, <2>3 DEF RowTypes, HeldBy
<1>6. QED
  BY <1>3, <1>4, <1>5

\* A sweep at work: its image of the row at hand has the columns of a row.
LEMMA SettledTypes ==
    ASSUME NudgeInv, RowTypes, NEW w \in Sweepers, NEW n \in sweep[w].todo,
           NEW row \in FollowUp,
           UNCHANGED <<nudge, request>>,
           sweep' = [sweep EXCEPT ![w] = sweep'[w]],
           sweep'[w].image = Settle(w, n, row).image
    PROVE  RowTypes'
<1>1. /\ DOMAIN sweep = Sweepers /\ DOMAIN sweep[w] = SweepFields
      /\ n \in HeldBy(w)
  BY DEF NudgeInv, RowInv, Shapes, Shaped, HeldBy
<1>2. Settle(w, n, row).image = [sweep[w].image EXCEPT ![n] = row]
  BY <1>1 DEF Settle, SweepFields
<1>3. sweep'[w].image \in [HeldBy(w) -> FollowUp] /\ HeldBy(w)' = HeldBy(w)
  BY <1>1, <1>2 DEF RowTypes, HeldBy
<1>4. \A v \in Sweepers \ {w} : sweep'[v] = sweep[v]
  BY <1>1
<1>5. QED
  BY <1>3, <1>4 DEF RowTypes, HeldBy

LEMMA SweepsKeepTypes ==
    ASSUME NudgeInv, RowTypes, NEW w \in Sweepers,
           SweepStep(w) \/ Unanswered(w) \/ Escapes(w) \/ Crash(w)
    PROVE  RowTypes'
<1>1. /\ DOMAIN sweep = Sweepers /\ DOMAIN sweep[w] = SweepFields
      /\ HeldBy(w) \subseteq Nudges
      /\ sweep[w].todo \subseteq HeldBy(w)
      /\ \A n \in sweep[w].todo : AtHand(w, n)
  BY InTodo DEF NudgeInv, RowInv, Shapes, Shaped, HeldBy
<1>2. \A n \in sweep[w].todo : sweep[w].image[n] \in FollowUp
  BY <1>1 DEF RowTypes
<1>3. ASSUME UNCHANGED <<nudge, request>>, sweep' = [sweep EXCEPT ![w] = Resting]
      PROVE  RowTypes'
  <2>1. sweep'[w].image = <<>> /\ DOMAIN sweep'[w].image = {}
    BY <1>1, <1>3, Empty DEF Resting
  <2>2. QED
    BY <1>1, <1>3, <2>1, EmptyImage DEF RowTypes, HeldBy
<1>4. CASE Crash(w) \/ AbortSweep(w)
  BY <1>3, <1>4 DEF Crash, AbortSweep, RollBack
<1>5. CASE Claim(w)
  <2>1. PICK claimed \in SUBSET Nudges :
            sweep' = [sweep EXCEPT ![w] =
                        [Resting EXCEPT !.stage = "next", !.todo = claimed,
                                        !.image = [n \in claimed |-> nudge[n]]]]
    BY <1>5 DEF Claim, Due
  <2>2. sweep'[w].image = [n \in claimed |-> nudge[n]]
    BY <1>1, <2>1 DEF Resting
  <2>3. UNCHANGED <<nudge, request>>
    BY <1>5 DEF Claim
  <2>4. QED
    BY <1>1, <2>1, <2>2, <2>3 DEF RowTypes, HeldBy
<1>6. CASE Skip(w)
  <2>1. PICK n \in sweep[w].todo :
            sweep' = [sweep EXCEPT ![w] =
                Settle(w, n, [sweep[w].image[n] EXCEPT !.status = "skipped"])]
    BY <1>6 DEF Skip
  <2>2. [sweep[w].image[n] EXCEPT !.status = "skipped"] \in FollowUp
    BY <1>2, RewrittenTypes DEF FollowUpStatus
  <2>3. QED
    BY <1>1, <1>6, <2>1, <2>2, SettledTypes DEF Skip
<1>7. CASE Stage(w)
  <2>1. sweep'[w].image = sweep[w].image /\ UNCHANGED <<nudge, request>>
    BY <1>1, <1>7 DEF Stage, SweepFields
  <2>2. \A v \in Sweepers \ {w} : sweep'[v] = sweep[v]
    BY <1>1, <1>7 DEF Stage
  <2>3. QED
    BY <2>1, <2>2 DEF RowTypes, HeldBy
<1>8. ASSUME sweep[w].stage = "send" PROVE sweep[w].cur \in sweep[w].todo
  BY <1>8, AtSend DEF NudgeInv
<1>10. \A n \in sweep[w].todo : \A row :
            DOMAIN Settle(w, n, row) = SweepFields
  BY <1>1 DEF Settle, SweepFields
<1>11. CASE Sent(w)
  <2> DEFINE n == sweep[w].cur
             row == [sweep[w].image[n] EXCEPT !.status = "sent", !.sent = TRUE]
  <2>1. n \in sweep[w].todo
    BY <1>8, <1>11 DEF Sent
  <2>2. row \in FollowUp
    BY <2>1, <1>2, RewrittenTypes
  <2>3. sweep' = [sweep EXCEPT ![w] = [Settle(w, n, row)
                EXCEPT !.tried = @ \cup {n}, !.touched = @ \cup {nudge[n].on}]]
    BY <1>11 DEF Sent, Image
  <2>4. DOMAIN Settle(w, n, row) = SweepFields
    BY <2>1, <1>10
  <2> HIDE DEF row
  <2>5. sweep'[w].image = Settle(w, n, row).image
    BY <1>1, <2>3, <2>4 DEF SweepFields
  <2>6. QED
    <3>1. UNCHANGED <<nudge, request>>
      BY <1>11 DEF Sent
    <3>2. sweep' = [sweep EXCEPT ![w] = sweep'[w]]
      BY <1>1, <2>3
    <3>3. QED
      BY <2>1, <2>2, <2>5, <3>1, <3>2, SettledTypes
<1>12. CASE Refused(w) \/ Unanswered(w)
  <2> DEFINE n == sweep[w].cur
             row == Failed(sweep[w].image[n])
  <2>1. n \in sweep[w].todo
    BY <1>8, <1>12 DEF Refused, Unanswered
  <2>2. row \in FollowUp
    BY <2>1, <1>1, <1>2, FailedType DEF AtHand
  <2>3. sweep' = [sweep EXCEPT ![w] = [Settle(w, n, row) EXCEPT !.tried = @ \cup {n}]]
    BY <1>12 DEF Refused, Unanswered, Refuse, Image
  <2>4. DOMAIN Settle(w, n, row) = SweepFields
    BY <2>1, <1>10
  <2> HIDE DEF row
  <2>5. sweep'[w].image = Settle(w, n, row).image
    BY <1>1, <2>3, <2>4 DEF SweepFields
  <2>6. UNCHANGED <<nudge, request>>
    BY <1>12 DEF Refused, Unanswered, Refuse
  <2>7. QED
    BY <1>1, <2>1, <2>2, <2>3, <2>5, <2>6, SettledTypes
<1>13. CASE Escapes(w)
  <2>1. sweep[w].cur \in sweep[w].todo
    BY <1>8, <1>13 DEF Escapes
  <2>2. sweep' = [sweep EXCEPT ![w] = Settle(w, sweep[w].cur, sweep[w].image[sweep[w].cur])]
    BY <1>13 DEF Escapes, Image
  <2>3. QED
    <3>1. UNCHANGED <<nudge, request>>
      BY <1>13 DEF Escapes
    <3>2. /\ sweep' = [sweep EXCEPT ![w] = sweep'[w]]
          /\ sweep'[w] = Settle(w, sweep[w].cur, sweep[w].image[sweep[w].cur])
      BY <1>1, <2>2
    <3>3. sweep[w].image[sweep[w].cur] \in FollowUp
      BY <1>2, <2>1
    <3>4. QED
      BY <2>1, <3>1, <3>2, <3>3, SettledTypes
<1>14. CASE Commit(w)
  <2>1. nudge' \in [Nudges -> FollowUp]
    BY <1>1, <1>14 DEF Commit, RowTypes, HeldBy
  <2>2. sweep'[w].image = <<>> /\ \A v \in Sweepers \ {w} : sweep'[v] = sweep[v]
    BY <1>1, <1>14 DEF Commit, Resting
  <2>3. request' = request
    BY <1>14 DEF Commit
  <2>5. DOMAIN sweep'[w].image = {}
    BY <2>2, Empty
  <2>4. QED
    BY <2>1, <2>2, <2>3, <2>5, EmptyImage DEF RowTypes, HeldBy
<1>15. QED
  BY <1>4, <1>5, <1>6, <1>7, <1>11, <1>12, <1>13, <1>14 DEF SweepStep

LEMMA RowTypesStep == ASSUME NudgeInv, RowTypes, [Next]_vars PROVE RowTypes'
<1>1. ASSUME NEW h \in Hooks, ReadPending(h) \/ HookStep(h) PROVE RowTypes'
  <2>1. UNCHANGED <<sweep, request>>
    BY <1>1 DEF ReadPending, HookStep, TouchConversation, Queue, CancelOnReply, AbortHook
  <2>2. nudge' \in [Nudges -> FollowUp]
    <3>1. CASE CancelOnReply(h)
      <4>1. \A n \in Nudges : [nudge[n] EXCEPT !.status = "cancelled"] \in FollowUp
        BY RewrittenTypes DEF RowTypes, FollowUpStatus
      <4>2. QED
        BY <3>1, <4>1 DEF CancelOnReply, RowTypes
    <3>2. CASE ~CancelOnReply(h)
      BY <1>1, <3>2 DEF ReadPending, HookStep, TouchConversation, Queue, AbortHook, RowTypes
    <3>3. QED
      BY <3>1, <3>2
  <2>3. QED
    BY <2>1, <2>2 DEF RowTypes, HeldBy
<1>2. ASSUME NEW c \in Conversations, Close(c) \/ Reopen(c) PROVE RowTypes'
  BY <1>2 DEF Close, Reopen, RowTypes, HeldBy
<1>3. CASE Tick
  <2>1. nudge' \in [Nudges -> FollowUp]
    BY <1>3, RewrittenTypes DEF Tick, RowTypes
  <2>2. \A w \in Sweepers :
            sweep'[w].image = [n \in HeldBy(w) |-> Sooner(sweep[w].image[n])]
    <3> TAKE w \in Sweepers
    <3>1. DOMAIN sweep[w] = SweepFields
      BY DEF NudgeInv, RowInv, Shapes, Shaped
    <3>2. sweep'[w] = [sweep[w] EXCEPT !.image =
              [n \in DOMAIN sweep[w].image |-> Sooner(sweep[w].image[n])]]
      BY <1>3 DEF Tick
    <3>3. QED
      BY <3>1, <3>2 DEF SweepFields, HeldBy
  <2>3. \A w \in Sweepers : sweep'[w].image \in [HeldBy(w)' -> FollowUp]
    <3> SUFFICES ASSUME NEW w \in Sweepers
                 PROVE  sweep'[w].image \in [DOMAIN sweep'[w].image -> FollowUp]
      BY DEF HeldBy
    <3>1. \A n \in HeldBy(w) : Sooner(sweep[w].image[n]) \in FollowUp
      BY RewrittenTypes DEF RowTypes
    <3>2. QED
      BY <2>2, <3>1
  <2>4. \A r \in Requests : request'[r].write = Sooner(request[r].write)
    <3> TAKE r \in Requests
    <3>1. DOMAIN request[r] = RequestFields
      BY DEF NudgeInv, Asked
    <3>2. request'[r] = [request[r] EXCEPT !.write = Sooner(@)]
      BY <1>3 DEF Tick
    <3>3. QED
      BY <3>1, <3>2 DEF RequestFields
  <2>5. QED
    BY <2>1, <2>3, <2>4, RewrittenTypes DEF RowTypes
<1>4. CASE UNCHANGED vars
  BY <1>4 DEF vars, RowTypes, HeldBy
<1>5. QED
  BY <1>1, <1>2, <1>3, <1>4, RequestsKeepTypes, SweepsKeepTypes DEF Next

LEMMA OthersStep == ASSUME NudgeInv, OtherTypes, [Next]_vars PROVE OtherTypes'
<1>0. /\ DOMAIN hook = Hooks
      /\ \A h \in Hooks : DOMAIN hook[h] = {"stage", "on", "seen"}
  BY DEF NudgeInv, RowInv, Shapes, Seen
<1>1. ASSUME NEW w \in Sweepers, SweepStep(w) \/ Unanswered(w) \/ Escapes(w) \/ Crash(w)
      PROVE  OtherTypes'
  <2>1. UNCHANGED <<closed, hook, asked, replies>>
    BY <1>1 DEF SweepStep, Unanswered, Escapes, Crash, Claim, Skip, Stage, Sent, Refused,
                Commit, AbortSweep, RollBack, Refuse, Mishap, history, bounds
  <2>2. lock' \in [Conversations -> Sweepers \cup Hooks \cup {Nobody}]
    <3>1. CASE Stage(w)
      BY <3>1 DEF Stage, OtherTypes
    <3>2. CASE Commit(w) \/ AbortSweep(w) \/ Crash(w)
      BY <3>2 DEF Commit, AbortSweep, Crash, RollBack, Unlocked, OtherTypes
    <3>3. CASE lock' = lock
      BY <3>3 DEF OtherTypes
    <3>4. QED
      BY <1>1, <3>1, <3>2, <3>3 DEF SweepStep, Unanswered, Escapes, Claim, Skip, Sent,
                Refused, Refuse
  <2>3. accepted' \in [Nudges -> Nat] /\ afterClose' \in [Conversations -> 0..2]
    <3>1. ASSUME NEW n, Reached(n)
          PROVE  accepted' \in [Nudges -> Nat] /\ afterClose' \in [Conversations -> 0..2]
      <4>1. accepted' \in [Nudges -> Nat]
        <5>1. CASE n \in Nudges
          BY <3>1, <5>1, FollowUpsAssumption DEF Reached, OtherTypes
        <5>2. CASE n \notin Nudges
          BY <3>1, <5>2 DEF Reached, OtherTypes
        <5>3. QED
          BY <5>1, <5>2
      <4>2. afterClose' \in [Conversations -> 0..2]
        <5> DEFINE c == nudge[n].on
        <5>1. afterClose' = [afterClose EXCEPT ![c] =
                                IF c \in closed /\ @ < 2 THEN @ + 1 ELSE @]
          BY <3>1 DEF Reached
        <5> HIDE DEF c
        <5>2. CASE c \in Conversations
          BY <5>1, <5>2 DEF OtherTypes
        <5>3. CASE c \notin Conversations
          BY <5>1, <5>3 DEF OtherTypes
        <5>4. QED
          BY <5>2, <5>3
      <4>3. QED
        BY <4>1, <4>2
    <3>2. CASE UNCHANGED <<accepted, afterClose>>
      BY <3>2 DEF OtherTypes
    <3>3. QED
      BY <1>1, <3>1, <3>2 DEF SweepStep, Unanswered, Escapes, Crash, Claim, Skip, Stage,
                Sent, Refused, Commit, AbortSweep, RollBack, Mishap, history
  <2>4. QED
    BY <2>1, <2>2, <2>3 DEF OtherTypes
<1>2. ASSUME NEW r \in Requests, ReadSchedule(r) \/ ReadCancel(r) \/ RequestStep(r)
      PROVE  OtherTypes'
  <2>1. UNCHANGED <<closed, lock, hook, accepted, afterClose, replies>>
    BY <1>2 DEF ReadSchedule, ReadCancel, Begin, RequestStep, Create, Reschedule, Cancel,
                history, bounds
  <2>2. asked' \in Nat
    BY <1>2 DEF ReadSchedule, ReadCancel, Begin, RequestStep, Create, Reschedule, Cancel,
                bounds, OtherTypes
  <2>3. QED
    BY <2>1, <2>2 DEF OtherTypes
<1>3. ASSUME NEW h \in Hooks, ReadPending(h) \/ HookStep(h) PROVE OtherTypes'
  <2>1. UNCHANGED <<accepted, asked>> /\ closed' \subseteq closed /\ replies' \in Nat
    BY <1>3 DEF ReadPending, HookStep, TouchConversation, Queue, CancelOnReply, AbortHook,
                history, bounds, OtherTypes
  <2>2. lock' \in [Conversations -> Sweepers \cup Hooks \cup {Nobody}]
    BY <1>3 DEF ReadPending, HookStep, TouchConversation, Queue, CancelOnReply, AbortHook,
                Unlocked, OtherTypes
  <2>3. afterClose' \in [Conversations -> 0..2]
    BY <1>3 DEF ReadPending, HookStep, TouchConversation, Queue, CancelOnReply, AbortHook,
                history, OtherTypes
  <2>4. hook'[h].stage \in {"idle", "read", "touched", "queued"}
    BY <1>0, <1>3 DEF ReadPending, HookStep, TouchConversation, Queue, CancelOnReply,
                AbortHook, NoReply
  <2>5. \A o \in Hooks \ {h} : hook'[o] = hook[o]
    BY <1>0, <1>3 DEF ReadPending, HookStep, TouchConversation, Queue, CancelOnReply,
                AbortHook
  <2>6. QED
    BY <2>1, <2>2, <2>3, <2>4, <2>5 DEF OtherTypes
<1>4. ASSUME NEW c \in Conversations, Close(c) \/ Reopen(c) PROVE OtherTypes'
  BY <1>4 DEF Close, Reopen, OtherTypes, history, bounds
<1>5. CASE Tick
  BY <1>5 DEF Tick, OtherTypes, history, bounds
<1>6. CASE UNCHANGED vars
  BY <1>6 DEF vars, OtherTypes
<1>7. QED
  BY <1>1, <1>2, <1>3, <1>4, <1>5, <1>6 DEF Next

\* Every variable keeps its type: attempts stay within their limit, and the wait that
\* doubles with each failure is a natural number (FollowUpService._fail).
THEOREM FollowUpsTypesCorrect == Spec => []TypeOK
<1>1. Init => NudgeInv /\ RowTypes /\ OtherTypes
  BY NudgeInit, TypesBegin
<1>2. NudgeInv /\ RowTypes /\ OtherTypes /\ [Next]_vars
        => (NudgeInv /\ RowTypes /\ OtherTypes)'
  BY NudgeStep, RowTypesStep, OthersStep
<1>3. NudgeInv /\ RowTypes /\ OtherTypes => TypeOK
  <2> SUFFICES ASSUME NudgeInv, RowTypes, OtherTypes PROVE TypeOK
    OBVIOUS
  <2>1. silenced \subseteq Nudges /\ lost \in Nat
    BY DEF NudgeInv, RowInv, Shapes
  <2>2. \A w \in Sweepers :
            /\ sweep[w].stage \in {"idle", "next", "send"}
            /\ sweep[w].todo \subseteq DOMAIN sweep[w].image
    BY DEF NudgeInv, RowInv, Shapes, Shaped
  <2>3. \A r \in Requests : request[r].op \in {"idle", "create", "reschedule", "cancel"}
    BY DEF NudgeInv, Asked
  <2>4. QED
    BY <2>1, <2>2, <2>3 DEF RowTypes, OtherTypes, HeldBy, TypeOK
<1>4. QED
  BY <1>1, <1>2, <1>3, PTL DEF Spec
=============================================================================
