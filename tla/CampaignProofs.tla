--------------------------- MODULE CampaignProofs ---------------------------
(***************************************************************************)
(* Theorems about Campaign, for every set of campaigns, contacts, replicas *)
(* and concurrent requests, and every allowance and number of attempts.    *)
(***************************************************************************)
EXTENDS Campaign, FiniteSetTheorems, TLAPS

(***************************************************************************)
(* What the helpers return                                                 *)
(***************************************************************************)

LEMMA LeastInRange ==
    ASSUME NEW n \in Nat, NEW m \in Nat
    PROVE  Least(n, m) \in 0..n
BY DEF Least

LEMMA BatchSize ==
    ASSUME NEW people \in SUBSET Contacts, NEW batch \in SUBSET people,
           Cardinality(batch) = Least(BatchLimit, Cardinality(people))
    PROVE  Cardinality(batch) \in 0..BatchLimit
<1>1. IsFiniteSet(people)
  BY FS_Subset, CampaignAssumption
<1>2. Cardinality(people) \in Nat
  BY <1>1, FS_CardinalityType
<1>. QED
  BY <1>2, LeastInRange, CampaignAssumption

LEMMA OlderType ==
    ASSUME NEW row \in CampaignRow
    PROVE  Older(row) \in CampaignRow
<1>1. Elapse(row.due) \in 0..MaxDelay
  BY CampaignAssumption DEF Elapse, CampaignRow
<1>2. Elapse(row.next) \in {Unset} \cup 0..BatchLimit
  <2>1. CASE row.next = Unset
    BY <2>1 DEF Elapse, Unset
  <2>2. CASE row.next \in 0..BatchLimit
    BY <2>2, CampaignAssumption DEF Elapse
  <2>. QED
    BY <2>1, <2>2 DEF CampaignRow
<1>. QED
  BY <1>1, <1>2 DEF Older, CampaignRow

LEMMA FailRecipientType ==
    ASSUME NEW row \in RecipientRow
    PROVE  FailRecipient(row) \in RecipientRow
BY CampaignAssumption DEF FailRecipient, RecipientRow, RecipientStatus, Least

LEMMA NoRowsType ==
    /\ NoCampaign \in CampaignRow
    /\ NoRecipients \in [Contacts -> RecipientRow]
    /\ NoRequest \in RequestState
BY CampaignAssumption
   DEF NoCampaign, CampaignRow, CampaignStatus, Unset, NoRecipients, NoRecipient,
       RecipientRow, RecipientStatus, NoRequest, RequestState

LEMMA IdleType == Idle \in SweepState
BY CampaignAssumption DEF Idle, SweepState, Stage

(* Writing one cell of a table keeps its type. *)

LEMMA SetRow ==
    ASSUME NEW c \in Campaigns, NEW p \in Contacts, NEW row \in RecipientRow,
           NEW list \in [Campaigns -> [Contacts -> RecipientRow]]
    PROVE  [list EXCEPT ![c][p] = row] \in [Campaigns -> [Contacts -> RecipientRow]]
OBVIOUS

LEMMA SetRowStatus ==
    ASSUME NEW c \in Campaigns, NEW p \in Contacts, NEW status \in RecipientStatus,
           NEW list \in [Campaigns -> [Contacts -> RecipientRow]]
    PROVE  [list EXCEPT ![c][p].status = status]
             \in [Campaigns -> [Contacts -> RecipientRow]]
BY DEF RecipientRow

LEMMA SetCampaignStatus ==
    ASSUME NEW c \in Campaigns, NEW status \in CampaignStatus,
           NEW table \in [Campaigns -> CampaignRow]
    PROVE  /\ [table EXCEPT ![c].status = status] \in [Campaigns -> CampaignRow]
           /\ [table EXCEPT ![c].status = status, ![c].next = Unset]
                \in [Campaigns -> CampaignRow]
BY DEF CampaignRow

LEMMA SetCampaignNext ==
    ASSUME NEW c \in Campaigns, NEW wait \in 0..BatchLimit,
           NEW table \in [Campaigns -> CampaignRow]
    PROVE  [table EXCEPT ![c].next = wait] \in [Campaigns -> CampaignRow]
BY DEF CampaignRow

LEMMA LateCapType == LateCap \in Nat
  BY FS_CardinalityType, CampaignAssumption DEF LateCap

LEMMA AcceptsType ==
    ASSUME NEW c \in Campaigns, NEW p \in Contacts, TypeOK, WhatsAppAccepts(c, p)
    PROVE  /\ accepted' \in [Campaigns -> [Contacts -> 0..2]]
           /\ pace' \in [Campaigns -> 0..(2 * BatchLimit + 1)]
           /\ late' \in [Contacts -> 0..LateCap]
<1>1. /\ accepted \in [Campaigns -> [Contacts -> 0..2]]
      /\ pace \in [Campaigns -> 0..(2 * BatchLimit + 1)]
      /\ late \in [Contacts -> 0..LateCap]
  BY DEF TypeOK
<1>2. accepted' \in [Campaigns -> [Contacts -> 0..2]]
  BY <1>1 DEF WhatsAppAccepts, Least
<1>3. pace' \in [Campaigns -> 0..(2 * BatchLimit + 1)]
  BY <1>1, CampaignAssumption DEF WhatsAppAccepts, Least
<1>4. late' \in [Contacts -> 0..LateCap]
  BY <1>1, LateCapType DEF WhatsAppAccepts, Least
<1>. QED
  BY <1>2, <1>3, <1>4

(***************************************************************************)
(* Where a sweep or a request stands tells what it refers to: a sweep holds *)
(* the lock of every campaign it still has to handle, and of the one it is *)
(* handling.                                                               *)
(***************************************************************************)

Shape(s, w, lock) ==
    /\ \A c \in s.todo : lock[c] = w
    /\ s.stage \in {"deliver", "send"} => s.cur \in Campaigns /\ lock[s.cur] = w
    /\ s.stage = "send" => s.target \in s.batch

SweepShape == \A w \in Workers : Shape(sweep[w], w, holder)
RequestShape == \A r \in Requests : req[r].op # "none" => req[r].cmp \in Campaigns

TypeInv == TypeOK /\ SweepShape /\ RequestShape

LEMMA OneSweep ==
    ASSUME NEW w \in Workers, NEW new \in SweepState, TypeOK, SweepShape,
           sweep' = [sweep EXCEPT ![w] = new], Shape(new, w, holder),
           UNCHANGED holder
    PROVE  sweep' \in [Workers -> SweepState] /\ SweepShape'
<1>1. sweep \in [Workers -> SweepState]
  BY DEF TypeOK
<1>2. sweep' \in [Workers -> SweepState]
  BY <1>1
<1>3. ASSUME NEW v \in Workers PROVE Shape(sweep'[v], v, holder')
  <2>1. CASE v = w
    BY <1>1, <2>1
  <2>2. CASE v # w
    BY <1>1, <2>2 DEF SweepShape
  <2>. QED
    BY <2>1, <2>2
<1>. QED
  BY <1>2, <1>3 DEF SweepShape

LEMMA NextCampaignShape ==
    ASSUME NEW w \in Workers, NEW c \in Campaigns, TypeOK, SweepShape,
           NextCampaign(w, c), UNCHANGED holder
    PROVE  sweep' \in [Workers -> SweepState] /\ SweepShape'
<1> DEFINE new == [Idle EXCEPT !.stage = "choose", !.todo = sweep[w].todo \ {c},
                               !.age = sweep[w].age]
<1>1. sweep[w] \in SweepState
  BY DEF TypeOK
<1>2. new \in SweepState
  BY <1>1, IdleType DEF SweepState, Stage
<1>3. Shape(new, w, holder)
  BY DEF SweepShape, Shape, Idle
<1>4. sweep' = [sweep EXCEPT ![w] = new]
  BY DEF NextCampaign
<1>. HIDE DEF new
<1>. QED
  BY <1>2, <1>3, <1>4, OneSweep

LEMMA NextRecipientShape ==
    ASSUME NEW w \in Workers, TypeOK, SweepShape, sweep[w].stage = "send",
           NextRecipient(w), UNCHANGED holder
    PROVE  sweep' \in [Workers -> SweepState] /\ SweepShape'
<1> DEFINE new == [sweep[w] EXCEPT !.stage = "deliver", !.target = None,
                                   !.batch = sweep[w].batch \ {sweep[w].target}]
<1>1. sweep[w] \in SweepState
  BY DEF TypeOK
<1>2. new \in SweepState
  BY <1>1 DEF SweepState, Stage
<1>3. Shape(new, w, holder)
  BY <1>1 DEF SweepShape, Shape, SweepState
<1>4. sweep' = [sweep EXCEPT ![w] = new]
  BY DEF NextRecipient, TypeOK
<1>. HIDE DEF new
<1>. QED
  BY <1>2, <1>3, <1>4, OneSweep

LEMMA AtRecipient ==
    ASSUME NEW w \in Workers, TypeInv, sweep[w].stage \in {"deliver", "send"}
    PROVE  /\ sweep[w].cur \in Campaigns
           /\ holder[sweep[w].cur] = w
           /\ sweep[w].batch \subseteq Contacts
           /\ sweep[w].stage = "send" => sweep[w].target \in Contacts
BY DEF TypeInv, TypeOK, SweepShape, Shape, SweepState

(***************************************************************************)
(* Type correctness                                                        *)
(***************************************************************************)

LEMMA InitTypeInv == Init => TypeInv
<1> SUFFICES ASSUME Init PROVE TypeInv
  OBVIOUS
<1>1. /\ camp \in [Campaigns -> CampaignRow] /\ wcamp \in [Campaigns -> CampaignRow]
      /\ rcpt \in [Campaigns -> [Contacts -> RecipientRow]]
      /\ wrcpt \in [Campaigns -> [Contacts -> RecipientRow]]
      /\ sweep \in [Workers -> SweepState]
      /\ req \in [Requests -> RequestState]
  BY NoRowsType, IdleType DEF Init
<1>2. SweepShape /\ RequestShape
  BY DEF Init, SweepShape, Shape, RequestShape, Idle, NoRequest
<1>. QED
  BY <1>1, <1>2, CampaignAssumption, LateCapType DEF Init, TypeInv, TypeOK

LEMMA TypeCreate ==
    ASSUME TypeInv, NEW c \in Campaigns, Create(c)
    PROVE  TypeInv'
<1>1. camp \in [Campaigns -> CampaignRow]
  BY DEF TypeInv, TypeOK
<1>2. camp' \in [Campaigns -> CampaignRow]
  BY <1>1, SetCampaignStatus DEF Create, CampaignStatus
<1>. QED
  BY <1>2 DEF Create, TypeInv, TypeOK, SweepShape, RequestShape, world, images, history

LEMMA TypeRead ==
    ASSUME TypeInv, NEW r \in Requests, NEW c \in Campaigns,
           \/ ReadAudience(r, c)
           \/ ReadSchedule(r, c)
           \/ ReadPause(r, c)
           \/ ReadCancel(r, c)
    PROVE  TypeInv'
<1>1. PICK operation \in {"audience", "schedule", "pause", "cancel"},
           adds \in SUBSET Contacts : Remember(r, operation, c, adds)
  BY DEF ReadAudience, ReadSchedule, ReadPause, ReadCancel
<1>2. req \in [Requests -> RequestState] /\ RequestShape
  BY DEF TypeInv, TypeOK
<1>3. req' \in [Requests -> RequestState]
  BY <1>1, <1>2 DEF Remember, RequestState
<1>4. RequestShape'
  BY <1>1, <1>2 DEF Remember, RequestShape
<1>. QED
  BY <1>1, <1>3, <1>4
  DEF Remember, TypeInv, TypeOK, SweepShape, rows, world, images, history

LEMMA FinishType ==
    ASSUME TypeInv, NEW r \in Requests, NEW operation, Finish(r, operation),
           camp' \in [Campaigns -> CampaignRow],
           rcpt' \in [Campaigns -> [Contacts -> RecipientRow]],
           pace' \in [Campaigns -> 0..(2 * BatchLimit + 1)],
           UNCHANGED <<accepted, late>>
    PROVE  TypeInv'
<1>1. req \in [Requests -> RequestState] /\ RequestShape
  BY DEF TypeInv, TypeOK
<1>2. req' \in [Requests -> RequestState]
  BY <1>1, NoRowsType DEF Finish
<1>3. RequestShape'
  BY <1>1 DEF Finish, RequestShape, NoRequest
<1>. QED
  BY <1>2, <1>3 DEF Finish, TypeInv, TypeOK, SweepShape, world, images

LEMMA TypeWrite ==
    ASSUME TypeInv, NEW r \in Requests,
           \/ WriteAudience(r)
           \/ WriteSchedule(r)
           \/ WritePause(r)
           \/ WriteCancel(r)
    PROVE  TypeInv'
<1>1. /\ camp \in [Campaigns -> CampaignRow]
      /\ rcpt \in [Campaigns -> [Contacts -> RecipientRow]]
      /\ pace \in [Campaigns -> 0..(2 * BatchLimit + 1)]
      /\ req[r] \in RequestState
      /\ req[r].op # "none" => req[r].cmp \in Campaigns
  BY DEF TypeInv, TypeOK, RequestShape
<1>2. CASE WriteAudience(r)
  <2>1. Finish(r, "audience") /\ UNCHANGED <<camp, accepted, pace, late>>
    BY <1>2 DEF WriteAudience, history
  <2>2. rcpt' \in [Campaigns -> [Contacts -> RecipientRow]]
    <3>1. req[r].cmp \in Campaigns
      BY <1>1, <2>1 DEF Finish
    <3>2. [status |-> "pending", attempts |-> 0] \in RecipientRow
      BY CampaignAssumption DEF RecipientRow, RecipientStatus
    <3>. QED
      BY <1>1, <1>2, <3>1, <3>2 DEF WriteAudience
  <2>. QED
    BY <1>1, <2>1, <2>2, FinishType
<1>3. CASE WriteSchedule(r)
  <2>1. Finish(r, "schedule") /\ UNCHANGED <<rcpt, accepted, late>>
    BY <1>3 DEF WriteSchedule
  <2>2. camp' \in [Campaigns -> CampaignRow]
    <3>1. req[r].cmp \in Campaigns
      BY <1>1, <2>1 DEF Finish
    <3>2. camp[req[r].cmp].next \in {Unset} \cup 0..BatchLimit
      BY <1>1, <3>1 DEF CampaignRow
    <3>3. PICK delay \in 0..MaxDelay :
            camp' = [camp EXCEPT ![req[r].cmp] =
                       [status |-> "scheduled", due |-> delay,
                        next |-> IF req[r].hadNext THEN Unset
                                 ELSE camp[req[r].cmp].next]]
      BY <1>3 DEF WriteSchedule
    <3>. QED
      BY <1>1, <3>1, <3>2, <3>3 DEF CampaignRow, CampaignStatus
  <2>3. pace' \in [Campaigns -> 0..(2 * BatchLimit + 1)]
    <3>1. pace' = [pace EXCEPT ![req[r].cmp] = 0]
      BY <1>3 DEF WriteSchedule
    <3>2. 0 \in 0..(2 * BatchLimit + 1)
      BY CampaignAssumption
    <3>. QED
      BY <1>1, <3>1, <3>2
  <2>. QED
    BY <1>1, <2>1, <2>2, <2>3, FinishType
<1>4. CASE WritePause(r)
  <2>1. Finish(r, "pause") /\ UNCHANGED <<rcpt, accepted, pace, late>>
    BY <1>4 DEF WritePause, history
  <2>2. camp' \in [Campaigns -> CampaignRow]
    BY <1>1, <1>4, <2>1, SetCampaignStatus, ZenonT(60)
       DEF WritePause, CampaignStatus, Finish
  <2>. QED
    BY <1>1, <2>1, <2>2, FinishType
<1>5. CASE WriteCancel(r)
  <2>1. Finish(r, "cancel") /\ UNCHANGED <<rcpt, accepted, pace, late>>
    BY <1>5 DEF WriteCancel, history
  <2>2. camp' \in [Campaigns -> CampaignRow]
    BY <1>1, <1>5, <2>1, SetCampaignStatus, ZenonT(60)
       DEF WriteCancel, CampaignStatus, Finish
  <2>. QED
    BY <1>1, <2>1, <2>2, FinishType
<1>. QED
  BY <1>2, <1>3, <1>4, <1>5

LEMMA TypeEnvironment ==
    ASSUME TypeInv, Environment
    PROVE  TypeInv'
<1>1. ASSUME NEW p \in Contacts, SetOptOut(p) PROVE TypeInv'
  BY <1>1 DEF SetOptOut, TypeInv, TypeOK, SweepShape, RequestShape, rows, images, history
<1>2. ASSUME NEW p \in Contacts, ClearOptOut(p) PROVE TypeInv'
  <2>1. late' \in [Contacts -> 0..LateCap]
    BY <1>2, LateCapType DEF ClearOptOut, TypeInv, TypeOK
  <2>. QED
    BY <1>2, <2>1
    DEF ClearOptOut, TypeInv, TypeOK, SweepShape, RequestShape, rows, images
<1>3. CASE ChangeSendable
  BY <1>3
  DEF ChangeSendable, TypeInv, TypeOK, SweepShape, RequestShape, rows, images, history
<1>4. CASE Tick
  <2>1. /\ camp \in [Campaigns -> CampaignRow] /\ wcamp \in [Campaigns -> CampaignRow]
        /\ pace \in [Campaigns -> 0..(2 * BatchLimit + 1)]
        /\ sweep \in [Workers -> SweepState] /\ SweepShape
    BY DEF TypeInv, TypeOK
  <2>2. camp' \in [Campaigns -> CampaignRow] /\ wcamp' \in [Campaigns -> CampaignRow]
    BY <1>4, <2>1, OlderType DEF Tick
  <2>3. pace' \in [Campaigns -> 0..(2 * BatchLimit + 1)]
    <3>1. ASSUME NEW n \in 0..(2 * BatchLimit + 1)
          PROVE  Elapse(n) \in 0..(2 * BatchLimit + 1)
      BY CampaignAssumption DEF Elapse
    <3>. QED
      BY <1>4, <2>1, <3>1 DEF Tick
  <2>4. ASSUME NEW w \in Workers
        PROVE  sweep'[w] \in SweepState /\ Shape(sweep'[w], w, holder)
    <3>1. sweep[w] \in SweepState /\ Shape(sweep[w], w, holder)
      BY <2>1 DEF SweepShape
    <3>2. Least(BatchLimit, sweep[w].age + 1) \in 0..BatchLimit
      <4>1. BatchLimit \in Nat /\ sweep[w].age + 1 \in Nat
        BY <3>1, CampaignAssumption DEF SweepState
      <4>. QED
        BY <4>1, LeastInRange
    <3>3. CASE sweep[w].stage = "idle"
      BY <1>4, <3>1, <3>3 DEF Tick
    <3>4. CASE sweep[w].stage # "idle"
      <4>1. sweep'[w] = [sweep[w] EXCEPT !.age = Least(BatchLimit, sweep[w].age + 1)]
        BY <1>4, <3>4 DEF Tick
      <4>2. sweep'[w] \in SweepState
        BY <3>1, <3>2, <4>1 DEF SweepState
      <4>3. Shape(sweep'[w], w, holder)
        BY <3>1, <4>1 DEF SweepState, Shape
      <4>. QED
        BY <4>2, <4>3
    <3>. QED
      BY <3>3, <3>4
  <2>5. sweep' \in [Workers -> SweepState]
    BY <1>4, <2>4 DEF Tick
  <2>6. SweepShape'
    BY <1>4, <2>4 DEF Tick, SweepShape
  <2>. QED
    BY <1>4, <2>2, <2>3, <2>5, <2>6 DEF Tick, TypeInv, TypeOK, RequestShape, world
<1>. QED
  BY <1>1, <1>2, <1>3, <1>4 DEF Environment

LEMMA TypeClaim ==
    ASSUME TypeInv, NEW w \in Workers, Claim(w)
    PROVE  TypeInv'
<1>1. PICK due \in SUBSET DueUnlocked :
         /\ holder' = [c \in Campaigns |-> IF c \in due THEN w ELSE holder[c]]
         /\ wcamp' = [c \in Campaigns |-> IF c \in due THEN camp[c] ELSE wcamp[c]]
         /\ wrcpt' = [c \in Campaigns |-> IF c \in due THEN rcpt[c] ELSE wrcpt[c]]
         /\ sweep' = [sweep EXCEPT ![w] = [Idle EXCEPT !.stage = "choose", !.todo = due]]
  BY DEF Claim
<1>2. due \subseteq Campaigns /\ \A c \in due : holder[c] = None
  BY DEF DueUnlocked
<1>3. /\ holder' \in [Campaigns -> Workers \cup {None}]
      /\ wcamp' \in [Campaigns -> CampaignRow]
      /\ wrcpt' \in [Campaigns -> [Contacts -> RecipientRow]]
  BY <1>1 DEF TypeInv, TypeOK
<1> DEFINE new == [Idle EXCEPT !.stage = "choose", !.todo = due]
<1>4. new \in SweepState
  BY <1>2, IdleType DEF SweepState, Stage
<1>5. sweep \in [Workers -> SweepState] /\ SweepShape
  BY DEF TypeInv, TypeOK
<1>6. sweep' \in [Workers -> SweepState]
  BY <1>1, <1>4, <1>5
<1>7. ASSUME NEW v \in Workers PROVE Shape(sweep'[v], v, holder')
  <2>1. CASE v = w
    <3>1. sweep'[v] = new
      BY <1>1, <1>5, <2>1
    <3>2. Shape(new, w, holder')
      BY <1>1, <1>2 DEF Shape, Idle
    <3>. QED
      BY <2>1, <3>1, <3>2
  <2>2. CASE v # w
    <3>1. sweep'[v] = sweep[v] /\ sweep[v] \in SweepState /\ Shape(sweep[v], v, holder)
      BY <1>1, <1>5, <2>2 DEF SweepShape
    <3>2. ASSUME NEW c \in Campaigns, holder[c] = v PROVE holder'[c] = v
      BY <1>1, <1>2, <3>2, CampaignAssumption
    <3>. QED
      BY <3>1, <3>2 DEF Shape, SweepState
  <2>. QED
    BY <2>1, <2>2
<1>. QED
  BY <1>3, <1>6, <1>7 DEF Claim, TypeInv, TypeOK, SweepShape, RequestShape, rows, world, history

LEMMA TypeRelease ==
    ASSUME TypeInv, NEW w \in Workers, Release(w),
           camp' \in [Campaigns -> CampaignRow],
           rcpt' \in [Campaigns -> [Contacts -> RecipientRow]]
    PROVE  TypeInv'
<1>1. sweep \in [Workers -> SweepState] /\ SweepShape
  BY DEF TypeInv, TypeOK
<1>2. sweep' \in [Workers -> SweepState]
  BY <1>1, IdleType DEF Release
<1>3. /\ holder' \in [Campaigns -> Workers \cup {None}]
      /\ wcamp' \in [Campaigns -> CampaignRow]
      /\ wrcpt' \in [Campaigns -> [Contacts -> RecipientRow]]
  BY NoRowsType DEF Release, TypeInv, TypeOK
<1>4. ASSUME NEW v \in Workers PROVE Shape(sweep'[v], v, holder')
  <2>1. CASE v = w
    <3>1. sweep'[v] = Idle
      BY <1>1, <2>1 DEF Release
    <3>. QED
      BY <3>1 DEF Shape, Idle
  <2>2. CASE v # w
    <3>1. sweep'[v] = sweep[v] /\ sweep[v] \in SweepState /\ Shape(sweep[v], v, holder)
      BY <1>1, <2>2 DEF SweepShape, Release
    <3>2. ASSUME NEW c \in Campaigns, holder[c] = v PROVE holder'[c] = v
      BY <2>2, <3>2 DEF Release
    <3>. QED
      BY <3>1, <3>2 DEF Shape, SweepState
  <2>. QED
    BY <2>1, <2>2
<1>. QED
  BY <1>2, <1>3, <1>4
  DEF Release, TypeInv, TypeOK, SweepShape, RequestShape, world, history

LEMMA TypeStart ==
    ASSUME TypeInv, NEW w \in Workers, NEW c \in Campaigns,
           BlockedBatch(w, c) \/ EmptyBatch(w, c) \/ StartBatch(w, c)
    PROVE  TypeInv'
<1>1. /\ wcamp \in [Campaigns -> CampaignRow] /\ sweep \in [Workers -> SweepState]
      /\ sweep[w] \in SweepState /\ TypeOK /\ SweepShape
  BY DEF TypeInv, TypeOK
<1>2. CASE BlockedBatch(w, c) \/ EmptyBatch(w, c)
  <2>1. wcamp' \in [Campaigns -> CampaignRow]
    <3>1. "failed" \in CampaignStatus /\ "completed" \in CampaignStatus
      BY DEF CampaignStatus
    <3>2. CASE BlockedBatch(w, c)
      BY <1>1, <3>1, <3>2, SetCampaignStatus DEF BlockedBatch
    <3>3. CASE EmptyBatch(w, c)
      BY <1>1, <3>1, <3>3, SetCampaignStatus DEF EmptyBatch
    <3>. QED
      BY <1>2, <3>2, <3>3
  <2>2. sweep' \in [Workers -> SweepState] /\ SweepShape'
    BY <1>1, <1>2, NextCampaignShape DEF BlockedBatch, EmptyBatch
  <2>. QED
    BY <1>2, <2>1, <2>2
    DEF BlockedBatch, EmptyBatch, TypeInv, TypeOK, RequestShape, rows, world, history
<1>3. CASE StartBatch(w, c)
  <2>1. PICK batch \in SUBSET PendingIn(wrcpt[c]) :
          /\ Cardinality(batch) = Least(BatchLimit, Cardinality(PendingIn(wrcpt[c])))
          /\ sweep' = [sweep EXCEPT ![w].stage = "deliver", ![w].cur = c,
                                    ![w].batch = batch,
                                    ![w].size = Cardinality(batch)]
    BY <1>3 DEF StartBatch
  <2>2. PendingIn(wrcpt[c]) \subseteq Contacts /\ batch \subseteq Contacts
    BY DEF PendingIn
  <2>3. Cardinality(batch) \in 0..BatchLimit
    BY <2>1, <2>2, BatchSize
  <2> DEFINE new == [sweep[w] EXCEPT !.stage = "deliver", !.cur = c,
                                     !.batch = batch, !.size = Cardinality(batch)]
  <2>4. new \in SweepState
    BY <1>1, <2>2, <2>3 DEF SweepState, Stage
  <2>5. Shape(new, w, holder)
    BY <1>1, <1>3 DEF StartBatch, Chosen, SweepShape, Shape, SweepState
  <2>6. sweep' = [sweep EXCEPT ![w] = new]
    BY <1>1, <2>1
  <2>7. wcamp' \in [Campaigns -> CampaignRow]
    BY <1>1, <1>3, SetCampaignStatus DEF StartBatch, CampaignStatus
  <2>. HIDE DEF new
  <2>8. sweep' \in [Workers -> SweepState] /\ SweepShape'
    BY <1>1, <1>3, <2>4, <2>5, <2>6, OneSweep DEF StartBatch
  <2>. QED
    BY <1>3, <2>7, <2>8
    DEF StartBatch, TypeInv, TypeOK, RequestShape, rows, world, history
<1>. QED
  BY <1>2, <1>3

LEMMA TypeDeliver ==
    ASSUME TypeInv, NEW w \in Workers, NEW p \in Contacts,
           SkipOptedOut(w, p) \/ Address(w, p)
    PROVE  TypeInv'
<1>1. /\ wrcpt \in [Campaigns -> [Contacts -> RecipientRow]]
      /\ sweep \in [Workers -> SweepState]
      /\ sweep[w] \in SweepState /\ TypeOK /\ SweepShape
      /\ sweep[w].stage = "deliver" /\ sweep[w].cur \in Campaigns
  BY AtRecipient DEF TypeInv, TypeOK, SkipOptedOut, Address
<1>2. CASE SkipOptedOut(w, p)
  <2> DEFINE new == [sweep[w] EXCEPT !.batch = sweep[w].batch \ {p}]
  <2>1. wrcpt' \in [Campaigns -> [Contacts -> RecipientRow]]
    BY <1>1, <1>2, SetRowStatus DEF SkipOptedOut, RecipientStatus
  <2>2. new \in SweepState
    BY <1>1 DEF SweepState
  <2>3. Shape(new, w, holder)
    BY <1>1 DEF SweepShape, Shape, SweepState
  <2>4. sweep' = [sweep EXCEPT ![w] = new]
    BY <1>1, <1>2 DEF SkipOptedOut
  <2>. HIDE DEF new
  <2>5. sweep' \in [Workers -> SweepState] /\ SweepShape'
    BY <1>1, <1>2, <2>2, <2>3, <2>4, OneSweep DEF SkipOptedOut
  <2>. QED
    BY <1>2, <2>1, <2>5
    DEF SkipOptedOut, TypeInv, TypeOK, RequestShape, rows, world, history
<1>3. CASE Address(w, p)
  <2> DEFINE new == [sweep[w] EXCEPT !.stage = "send", !.target = p]
  <2>1. new \in SweepState
    BY <1>1 DEF SweepState, Stage
  <2>2. Shape(new, w, holder)
    BY <1>1, <1>3 DEF Address, SweepShape, Shape, SweepState
  <2>3. sweep' = [sweep EXCEPT ![w] = new]
    BY <1>1, <1>3 DEF Address
  <2>. HIDE DEF new
  <2>4. sweep' \in [Workers -> SweepState] /\ SweepShape'
    BY <1>1, <1>3, <2>1, <2>2, <2>3, OneSweep DEF Address, images
  <2>. QED
    BY <1>3, <2>4
    DEF Address, TypeInv, TypeOK, RequestShape, rows, world, images, history
<1>. QED
  BY <1>2, <1>3

LEMMA TypeOutcome ==
    ASSUME TypeInv, NEW w \in Workers,
           Sent(w) \/ Refused(w) \/ Unanswered(w)
    PROVE  TypeInv'
<1>1. /\ wrcpt \in [Campaigns -> [Contacts -> RecipientRow]]
      /\ TypeOK /\ SweepShape
      /\ sweep[w].stage = "send"
      /\ sweep[w].cur \in Campaigns /\ sweep[w].target \in Contacts
  BY AtRecipient DEF TypeInv, TypeOK, Sent, Refused, Unanswered
<1>2. wrcpt' \in [Campaigns -> [Contacts -> RecipientRow]]
  <2>1. wrcpt[sweep[w].cur][sweep[w].target] \in RecipientRow
    BY <1>1
  <2>2. CASE Sent(w)
    BY <1>1, <2>2, SetRowStatus DEF Sent, RecipientStatus
  <2>3. CASE Refused(w)
    BY <1>1, <2>1, <2>3, SetRow, FailRecipientType DEF Refused
  <2>4. CASE Unanswered(w)
    BY <1>1, <2>1, <2>4, SetRow, FailRecipientType DEF Unanswered
  <2>. QED
    BY <2>2, <2>3, <2>4
<1>3. sweep' \in [Workers -> SweepState] /\ SweepShape'
  BY <1>1, NextRecipientShape DEF Sent, Refused, Unanswered
<1>4. /\ accepted' \in [Campaigns -> [Contacts -> 0..2]]
      /\ pace' \in [Campaigns -> 0..(2 * BatchLimit + 1)]
      /\ late' \in [Contacts -> 0..LateCap]
  <2>1. CASE Sent(w) \/ Unanswered(w)
    BY <1>1, <2>1, AcceptsType DEF Sent, Unanswered
  <2>2. CASE Refused(w)
    BY <1>1, <2>2 DEF Refused, history, TypeOK
  <2>. QED
    BY <2>1, <2>2
<1>5. UNCHANGED <<camp, rcpt, optOut, sendable, holder, wcamp, req>>
  BY DEF Sent, Refused, Unanswered, rows, world
<1>. QED
  BY <1>2, <1>3, <1>4, <1>5 DEF TypeInv, TypeOK, RequestShape

LEMMA TypeLeave ==
    ASSUME TypeInv, NEW w \in Workers,
           NoCredential(w) \/ BatchRaises(w) \/ EndBatch(w)
    PROVE  TypeInv'
<1>1. /\ wcamp \in [Campaigns -> CampaignRow]
      /\ TypeOK /\ SweepShape /\ sweep[w] \in SweepState
      /\ sweep[w].cur \in Campaigns
  BY AtRecipient DEF TypeInv, TypeOK, NoCredential, BatchRaises, EndBatch
<1>2. wcamp' \in [Campaigns -> CampaignRow]
  <2>1. CASE NoCredential(w)
    BY <1>1, <2>1, SetCampaignStatus, ZenonT(60) DEF NoCredential, CampaignStatus
  <2>2. CASE BatchRaises(w)
    BY <1>1, <2>2 DEF BatchRaises, images
  <2>3. CASE EndBatch(w)
    <3> DEFINE wait == sweep[w].size - sweep[w].age
               rest == IF wait > 0 THEN wait ELSE 0
    <3>1. rest \in 0..BatchLimit
      BY <1>1, CampaignAssumption DEF SweepState
    <3>2. wcamp' = [wcamp EXCEPT ![sweep[w].cur].next = rest]
      BY <2>3 DEF EndBatch
    <3>. HIDE DEF rest
    <3>. QED
      BY <1>1, <3>1, <3>2, SetCampaignNext
  <2>. QED
    BY <2>1, <2>2, <2>3
<1>3. UNCHANGED <<camp, rcpt, optOut, sendable, holder, wrcpt, req, accepted, pace, late>>
  BY DEF NoCredential, BatchRaises, EndBatch, rows, world, images, history
<1>4. sweep' \in [Workers -> SweepState] /\ SweepShape'
  BY <1>1, <1>3, NextCampaignShape DEF NoCredential, BatchRaises, EndBatch
<1>. QED
  BY <1>2, <1>3, <1>4 DEF TypeInv, TypeOK, RequestShape

LEMMA TypeFinishSweep ==
    ASSUME TypeInv, NEW w \in Workers, Commit(w) \/ Crash(w)
    PROVE  TypeInv'
<1>1. /\ camp' \in [Campaigns -> CampaignRow]
      /\ rcpt' \in [Campaigns -> [Contacts -> RecipientRow]]
  BY DEF Commit, Crash, rows, TypeInv, TypeOK
<1>. QED
  BY <1>1, TypeRelease DEF Commit, Crash

LEMMA NextTypeInv == TypeInv /\ [Next]_vars => TypeInv'
<1> SUFFICES ASSUME TypeInv, [Next]_vars PROVE TypeInv'
  OBVIOUS
<1>1. CASE Api
  BY <1>1, TypeCreate, TypeRead, TypeWrite DEF Api
<1>2. CASE Environment
  BY <1>2, TypeEnvironment
<1>3. ASSUME NEW w \in Workers, SweepStep(w) \/ Failure(w) PROVE TypeInv'
  BY <1>3, TypeClaim, TypeStart, TypeDeliver, TypeOutcome, TypeLeave, TypeFinishSweep
  DEF SweepStep, Failure
<1>4. CASE UNCHANGED vars
  BY <1>4 DEF vars, TypeInv, TypeOK, SweepShape, RequestShape
<1>. QED
  BY <1>1, <1>2, <1>3, <1>4 DEF Next

\* Every reachable state is well typed, and every sweep holds the locks of what
\* it works on.
THEOREM SweepsHoldTheirLocks == Spec => []TypeInv
<1>. QED
  BY InitTypeInv, NextTypeInv, PTL DEF Spec

\* Every variable of the campaign rows, the sweeps and the requests keeps its
\* type in every reachable state.
THEOREM TypeCorrect == Spec => []TypeOK
<1>1. TypeInv => TypeOK
  BY DEF TypeInv
<1>. QED
  BY <1>1, SweepsHoldTheirLocks, PTL

(***************************************************************************)
(* Nothing is sent for a campaign that is stopped                          *)
(***************************************************************************)

\* The row a sweep locks is due, and no request can write it until the sweep is
\* over: for as long as it is locked the committed status is a sending one.
LockInv == \A c \in Campaigns : holder[c] # None => camp[c].status \in Sending

LEMMA LockRequest ==
    ASSUME TypeInv, LockInv, NEW r \in Requests, NEW operation, NEW row,
           Finish(r, operation), camp' = [camp EXCEPT ![req[r].cmp] = row]
    PROVE  LockInv'
BY DEF LockInv, Finish, images, TypeInv, TypeOK

LEMMA LockTick ==
    ASSUME TypeInv, LockInv, Tick
    PROVE  LockInv'
<1>1. ASSUME NEW c \in Campaigns PROVE camp'[c].status = camp[c].status
  <2>1. camp[c] \in CampaignRow
    BY DEF TypeInv, TypeOK
  <2>. QED
    BY <2>1 DEF Tick, Older, CampaignRow
<1>. QED
  BY <1>1 DEF LockInv, Tick

LEMMA LockSweep ==
    ASSUME TypeInv, LockInv, NEW w \in Workers, SweepStep(w) \/ Failure(w)
    PROVE  LockInv'
<1>1. CASE Claim(w)
  BY <1>1 DEF Claim, LockInv, DueUnlocked, IsDue, Sending, rows
<1>2. CASE Commit(w) \/ Crash(w)
  BY <1>2 DEF Commit, Crash, Release, LockInv, rows
<1>3. CASE UNCHANGED <<camp, holder>>
  BY <1>3 DEF LockInv
<1>. QED
  BY <1>1, <1>2, <1>3
  DEF SweepStep, Failure, BlockedBatch, EmptyBatch, StartBatch, SkipOptedOut, Address,
      Sent, Refused, Unanswered, NoCredential, BatchRaises, EndBatch, rows, images

LEMMA NextLockInv == TypeInv /\ LockInv /\ [Next]_vars => LockInv'
<1> SUFFICES ASSUME TypeInv, LockInv, [Next]_vars PROVE LockInv'
  OBVIOUS
<1>1. CASE \E c \in Campaigns : Create(c)
  BY <1>1 DEF Create, LockInv, Sending, images, TypeInv, TypeOK
<1>2. ASSUME NEW r \in Requests,
             WriteSchedule(r) \/ WritePause(r) \/ WriteCancel(r)
      PROVE  LockInv'
  <2>1. PICK operation, row :
          Finish(r, operation) /\ camp' = [camp EXCEPT ![req[r].cmp] = row]
    BY <1>2 DEF WriteSchedule, WritePause, WriteCancel
  <2>. QED
    BY <2>1, LockRequest
<1>3. ASSUME NEW w \in Workers, SweepStep(w) \/ Failure(w) PROVE LockInv'
  BY <1>3, LockSweep
<1>4. CASE Tick
  BY <1>4, LockTick
<1>5. CASE UNCHANGED <<camp, holder>>
  BY <1>5 DEF LockInv
<1>. QED
  BY <1>1, <1>2, <1>3, <1>4, <1>5
  DEF Next, Api, Environment, ReadAudience, ReadSchedule, ReadPause, ReadCancel,
      Remember, WriteAudience, Finish, SetOptOut, ClearOptOut, ChangeSendable, vars,
      rows, images

LEMMA AcceptanceHoldsTheLock ==
    ASSUME TypeInv, [Next]_vars, NEW c \in Campaigns, accepted'[c] # accepted[c]
    PROVE  holder[c] # None
<1>1. PICK w \in Workers : Sent(w) \/ Unanswered(w)
  <2>1. ASSUME Api PROVE UNCHANGED accepted
    BY <2>1 DEF Api, Create, ReadAudience, ReadSchedule, ReadPause, ReadCancel,
                Remember, WriteAudience, WriteSchedule, WritePause, WriteCancel, history
  <2>2. ASSUME Environment PROVE UNCHANGED accepted
    BY <2>2 DEF Environment, SetOptOut, ClearOptOut, ChangeSendable, Tick, history
  <2>3. ASSUME NEW w \in Workers, SweepStep(w) \/ Failure(w),
               ~Sent(w), ~Unanswered(w)
        PROVE  UNCHANGED accepted
    BY <2>3 DEF SweepStep, Failure, Claim, BlockedBatch, EmptyBatch, StartBatch,
                SkipOptedOut, Address, Refused, NoCredential, BatchRaises, EndBatch,
                Commit, Crash, Release, history
  <2>. QED
    BY <2>1, <2>2, <2>3 DEF Next, vars
<1>2. /\ sweep[w].stage = "send"
      /\ accepted' = [accepted EXCEPT ![sweep[w].cur][sweep[w].target] =
                        Least(2, accepted[sweep[w].cur][sweep[w].target] + 1)]
  BY <1>1 DEF Sent, Unanswered, WhatsAppAccepts
<1>3. holder[sweep[w].cur] = w /\ c = sweep[w].cur
  BY <1>2, AtRecipient DEF TypeInv, TypeOK
<1>. QED
  BY <1>3, CampaignAssumption

\* Pausing, cancelling or failing a campaign is heard before the next message:
\* once the change is committed WhatsApp accepts nothing more of the campaign,
\* for any number of replicas and requests and whatever fails.
THEOREM StoppedMeansSilent == Spec => NothingSentOnceStopped
<1>1. Init => LockInv
  BY DEF Init, LockInv
<1>2. TypeInv /\ LockInv /\ [Next]_vars =>
        [\A c \in Campaigns : accepted'[c] # accepted[c] => camp[c].status \in Sending]_vars
  BY AcceptanceHoldsTheLock DEF LockInv
<1>. QED
  BY <1>1, <1>2, NextLockInv, InitTypeInv, NextTypeInv, PTL
  DEF Spec, NothingSentOnceStopped

(***************************************************************************)
(* The ledger of sent messages                                             *)
(***************************************************************************)

\* While a sweep delivers a batch, everybody left in it is still pending.
BatchPending ==
    \A w \in Workers : sweep[w].stage \in {"deliver", "send"} =>
        \A p \in sweep[w].batch : wrcpt[sweep[w].cur][p].status = "pending"

LedgerInv == LedgerExact /\ AtMostOnce /\ BatchPending

LEMMA LedgerUnchanged ==
    ASSUME LedgerInv, UNCHANGED <<rcpt, wrcpt, holder, accepted>>,
           \A w \in Workers : sweep'[w].stage \in {"deliver", "send"} =>
               /\ sweep[w].stage \in {"deliver", "send"}
               /\ sweep'[w].cur = sweep[w].cur
               /\ sweep'[w].batch \subseteq sweep[w].batch
    PROVE  LedgerInv'
BY DEF LedgerInv, LedgerExact, AtMostOnce, BatchPending, Current

LEMMA LedgerApi ==
    ASSUME TypeInv, LedgerInv, Api
    PROVE  LedgerInv'
<1>1. UNCHANGED <<wrcpt, holder, accepted, sweep>>
  BY DEF Api, Create, ReadAudience, ReadSchedule, ReadPause, ReadCancel, Remember,
         WriteAudience, WriteSchedule, WritePause, WriteCancel, Finish, images, history
<1>2. CASE UNCHANGED rcpt
  BY <1>1, <1>2, LedgerUnchanged
<1>3. ASSUME NEW r \in Requests, WriteAudience(r) PROVE LedgerInv'
  <2>1. /\ req[r].cmp \in Campaigns
        /\ rcpt \in [Campaigns -> [Contacts -> RecipientRow]]
    BY <1>3 DEF WriteAudience, Finish, TypeInv, TypeOK, RequestShape
  <2>2. ASSUME NEW c \in Campaigns, NEW p \in Contacts
        PROVE  rcpt'[c][p].status = "sent" <=> rcpt[c][p].status = "sent"
    BY <1>3, <2>1 DEF WriteAudience
  <2>3. LedgerExact'
    BY <1>1, <2>2 DEF LedgerInv, LedgerExact, Current
  <2>. QED
    BY <1>1, <2>3 DEF LedgerInv, AtMostOnce, BatchPending
<1>. QED
  BY <1>2, <1>3
  DEF Api, Create, ReadAudience, ReadSchedule, ReadPause, ReadCancel, Remember,
      WriteSchedule, WritePause, WriteCancel, rows

LEMMA LedgerEnvironment ==
    ASSUME TypeInv, LedgerInv, Environment
    PROVE  LedgerInv'
<1>1. UNCHANGED <<rcpt, wrcpt, holder, accepted>>
  BY DEF Environment, SetOptOut, ClearOptOut, ChangeSendable, Tick, rows, images, history
<1>2. ASSUME NEW w \in Workers
      PROVE  /\ sweep'[w].stage = sweep[w].stage
             /\ sweep'[w].cur = sweep[w].cur
             /\ sweep'[w].batch = sweep[w].batch
  <2>1. sweep[w] \in SweepState
    BY DEF TypeInv, TypeOK
  <2>. QED
    BY <2>1 DEF Environment, SetOptOut, ClearOptOut, ChangeSendable, Tick, SweepState
<1>. QED
  BY <1>1, <1>2, LedgerUnchanged

LEMMA LedgerClaim ==
    ASSUME TypeInv, LedgerInv, NEW w \in Workers, Claim(w)
    PROVE  LedgerInv'
<1>1. PICK due \in SUBSET DueUnlocked :
        /\ holder' = [c \in Campaigns |-> IF c \in due THEN w ELSE holder[c]]
        /\ wrcpt' = [c \in Campaigns |-> IF c \in due THEN rcpt[c] ELSE wrcpt[c]]
        /\ sweep' = [sweep EXCEPT ![w] = [Idle EXCEPT !.stage = "choose", !.todo = due]]
  BY DEF Claim
<1>2. UNCHANGED <<rcpt, accepted>> /\ None \notin Workers
  BY CampaignAssumption DEF Claim, rows, history
<1>3. ASSUME NEW c \in Campaigns PROVE Current(c)' = Current(c)
  BY <1>1, <1>2 DEF Current, DueUnlocked
<1>4. LedgerExact' /\ AtMostOnce'
  BY <1>2, <1>3 DEF LedgerInv, LedgerExact, AtMostOnce
<1>5. ASSUME NEW v \in Workers, sweep'[v].stage \in {"deliver", "send"}
      PROVE  \A p \in sweep'[v].batch : wrcpt'[sweep'[v].cur][p].status = "pending"
  <2>1. v # w /\ sweep'[v] = sweep[v]
    BY <1>1, <1>5 DEF TypeInv, TypeOK, Idle
  <2>2. sweep[v].cur \in Campaigns /\ holder[sweep[v].cur] = v
    BY <1>5, <2>1, AtRecipient
  <2>3. wrcpt'[sweep[v].cur] = wrcpt[sweep[v].cur]
    BY <1>1, <1>2, <2>2 DEF DueUnlocked
  <2>. QED
    BY <1>5, <2>1, <2>3 DEF LedgerInv, BatchPending
<1>. QED
  BY <1>4, <1>5 DEF LedgerInv, BatchPending

LEMMA LedgerBatch ==
    ASSUME TypeInv, LedgerInv, NEW w \in Workers, NEW c \in Campaigns,
           BlockedBatch(w, c) \/ EmptyBatch(w, c) \/ StartBatch(w, c)
    PROVE  LedgerInv'
<1>1. UNCHANGED <<rcpt, wrcpt, holder, accepted>>
  BY DEF BlockedBatch, EmptyBatch, StartBatch, rows, history
<1>2. CASE NextCampaign(w, c)
  BY <1>1, <1>2, LedgerUnchanged DEF NextCampaign, Idle, TypeInv, TypeOK
<1>3. CASE StartBatch(w, c)
  <2>1. PICK batch \in SUBSET PendingIn(wrcpt[c]) :
          sweep' = [sweep EXCEPT ![w].stage = "deliver", ![w].cur = c,
                                 ![w].batch = batch,
                                 ![w].size = Cardinality(batch)]
    BY <1>3 DEF StartBatch
  <2>2. sweep \in [Workers -> SweepState]
    BY DEF TypeInv, TypeOK
  <2>3. /\ sweep'[w].cur = c /\ sweep'[w].batch = batch
        /\ \A v \in Workers \ {w} : sweep'[v] = sweep[v]
    BY <2>1, <2>2 DEF SweepState
  <2>4. BatchPending'
    BY <1>1, <2>3 DEF LedgerInv, BatchPending, PendingIn
  <2>. QED
    BY <1>1, <2>4 DEF LedgerInv, LedgerExact, AtMostOnce, Current
<1>. QED
  BY <1>2, <1>3 DEF BlockedBatch, EmptyBatch

\* One recipient is settled: its row leaves "pending", its message may be
\* accepted, and nobody else is disturbed.
LEMMA LedgerSettled ==
    ASSUME TypeInv, LedgerInv, NEW w \in Workers,
           sweep[w].stage \in {"deliver", "send"}, NEW p \in sweep[w].batch,
           NEW row, NEW count,
           wrcpt' = [wrcpt EXCEPT ![sweep[w].cur][p] = row],
           accepted' = [accepted EXCEPT ![sweep[w].cur][p] = count],
           count \in 0..1, row.status = "sent" <=> count > 0,
           UNCHANGED <<rcpt, holder>>,
           \A v \in Workers \ {w} : sweep'[v] = sweep[v],
           sweep'[w].cur = sweep[w].cur,
           sweep'[w].batch = sweep[w].batch \ {p}
    PROVE  LedgerInv'
<1>1. /\ sweep[w].cur \in Campaigns /\ holder[sweep[w].cur] = w /\ p \in Contacts
      /\ wrcpt \in [Campaigns -> [Contacts -> RecipientRow]]
      /\ accepted \in [Campaigns -> [Contacts -> 0..2]]
      /\ None \notin Workers
  BY AtRecipient, CampaignAssumption DEF TypeInv, TypeOK
<1>2. /\ wrcpt'[sweep[w].cur][p] = row /\ accepted'[sweep[w].cur][p] = count
      /\ \A c \in Campaigns, q \in Contacts :
           <<c, q>> # <<sweep[w].cur, p>> =>
             wrcpt'[c][q] = wrcpt[c][q] /\ accepted'[c][q] = accepted[c][q]
  BY <1>1
<1>3. LedgerExact'
  BY <1>1, <1>2 DEF LedgerInv, LedgerExact, Current
<1>4. AtMostOnce'
  BY <1>1, <1>2 DEF LedgerInv, AtMostOnce
<1>5. ASSUME NEW v \in Workers, sweep'[v].stage \in {"deliver", "send"},
             NEW q \in sweep'[v].batch
      PROVE  wrcpt'[sweep'[v].cur][q].status = "pending"
  <2>1. CASE v = w
    BY <1>1, <1>2, <1>5, <2>1, AtRecipient DEF LedgerInv, BatchPending
  <2>2. CASE v # w
    <3>1. sweep'[v] = sweep[v]
      BY <2>2
    <3>2. /\ sweep[v].cur \in Campaigns /\ holder[sweep[v].cur] = v
          /\ q \in Contacts
      BY <1>5, <3>1, AtRecipient
    <3>. QED
      BY <1>1, <1>2, <1>5, <2>2, <3>1, <3>2 DEF LedgerInv, BatchPending
  <2>. QED
    BY <2>1, <2>2
<1>. QED
  BY <1>3, <1>4, <1>5 DEF LedgerInv, BatchPending

LEMMA BatchMember ==
    ASSUME TypeInv, LedgerInv, NEW w \in Workers,
           sweep[w].stage \in {"deliver", "send"}, NEW p \in sweep[w].batch
    PROVE  /\ wrcpt[sweep[w].cur][p].status = "pending"
           /\ accepted[sweep[w].cur][p] = 0
<1>1. /\ sweep[w].cur \in Campaigns /\ p \in Contacts
      /\ Current(sweep[w].cur) = wrcpt[sweep[w].cur]
      /\ accepted \in [Campaigns -> [Contacts -> 0..2]]
  BY AtRecipient, CampaignAssumption, SMTT(30) DEF Current, TypeInv, TypeOK
<1>2. wrcpt[sweep[w].cur][p].status = "pending"
  BY DEF LedgerInv, BatchPending
<1>3. ~(accepted[sweep[w].cur][p] > 0)
  BY <1>1, <1>2 DEF LedgerInv, LedgerExact
<1>4. accepted[sweep[w].cur][p] \in 0..2
  BY <1>1
<1>. QED
  BY <1>2, <1>3, <1>4

LEMMA LedgerDeliver ==
    ASSUME TypeInv, LedgerInv, NEW w \in Workers, NEW p \in Contacts,
           SkipOptedOut(w, p) \/ Address(w, p)
    PROVE  LedgerInv'
<1>1. sweep \in [Workers -> SweepState]
  BY DEF TypeInv, TypeOK
<1>2. CASE Address(w, p)
  BY <1>1, <1>2, LedgerUnchanged DEF Address, SweepState, rows, images, history
<1>3. CASE SkipOptedOut(w, p)
  <2>1. /\ sweep[w].cur \in Campaigns /\ holder[sweep[w].cur] = w
        /\ wrcpt \in [Campaigns -> [Contacts -> RecipientRow]]
        /\ accepted \in [Campaigns -> [Contacts -> 0..2]]
        /\ p \in sweep[w].batch
    BY <1>3, AtRecipient DEF SkipOptedOut, TypeInv, TypeOK
  <2> DEFINE row == [wrcpt[sweep[w].cur][p] EXCEPT !.status = "skipped"]
             count == accepted[sweep[w].cur][p]
  <2>2. row.status = "skipped"
    BY <2>1 DEF RecipientRow
  <2>3. count = 0
    BY <1>3, <2>1, BatchMember DEF SkipOptedOut
  <2>4. /\ wrcpt' = [wrcpt EXCEPT ![sweep[w].cur][p] = row]
        /\ accepted' = [accepted EXCEPT ![sweep[w].cur][p] = count]
    BY <1>3, <2>1 DEF SkipOptedOut, history
  <2>5. /\ \A v \in Workers \ {w} : sweep'[v] = sweep[v]
        /\ sweep'[w].cur = sweep[w].cur
        /\ sweep'[w].batch = sweep[w].batch \ {p}
        /\ UNCHANGED <<rcpt, holder>> /\ sweep[w].stage = "deliver"
    BY <1>1, <1>3 DEF SkipOptedOut, SweepState, rows
  <2>. HIDE DEF row, count
  <2>6. count \in 0..1 /\ (row.status = "sent" <=> count > 0)
    BY <2>2, <2>3
  <2>. QED
    BY <2>1, <2>4, <2>5, <2>6, LedgerSettled
<1>. QED
  BY <1>2, <1>3

LEMMA LedgerOutcome ==
    ASSUME TypeInv, LedgerInv, NEW w \in Workers, Sent(w) \/ Refused(w)
    PROVE  LedgerInv'
<1>1. /\ sweep \in [Workers -> SweepState]
      /\ wrcpt \in [Campaigns -> [Contacts -> RecipientRow]]
      /\ accepted \in [Campaigns -> [Contacts -> 0..2]]
  BY DEF TypeInv, TypeOK
<1>2. sweep[w].stage = "send" /\ UNCHANGED <<rcpt, holder>> /\ NextRecipient(w)
  BY DEF Sent, Refused, rows
<1>3. /\ sweep[w].cur \in Campaigns
      /\ sweep[w].target \in sweep[w].batch /\ sweep[w].target \in Contacts
  BY <1>2, AtRecipient DEF TypeInv, SweepShape, Shape
<1>4. /\ \A v \in Workers \ {w} : sweep'[v] = sweep[v]
      /\ sweep'[w].cur = sweep[w].cur
      /\ sweep'[w].batch = sweep[w].batch \ {sweep[w].target}
  BY <1>1, <1>2 DEF NextRecipient, SweepState
<1> DEFINE old == wrcpt[sweep[w].cur][sweep[w].target]
<1>5. old \in RecipientRow /\ old.status = "pending"
      /\ accepted[sweep[w].cur][sweep[w].target] = 0
  BY <1>1, <1>2, <1>3, BatchMember
<1>6. CASE Sent(w)
  <2> DEFINE row == [old EXCEPT !.status = "sent"]
             count == Least(2, accepted[sweep[w].cur][sweep[w].target] + 1)
  <2>1. row.status = "sent" /\ count = 1
    BY <1>5 DEF RecipientRow, Least
  <2>2. /\ wrcpt' = [wrcpt EXCEPT ![sweep[w].cur][sweep[w].target] = row]
        /\ accepted' = [accepted EXCEPT ![sweep[w].cur][sweep[w].target] = count]
    BY <1>6 DEF Sent, WhatsAppAccepts
  <2>. HIDE DEF row, count
  <2>3. count \in 0..1 /\ (row.status = "sent" <=> count > 0)
    BY <2>1
  <2>. QED
    BY <1>2, <1>3, <1>4, <2>2, <2>3, LedgerSettled
<1>7. CASE Refused(w)
  <2> DEFINE row == FailRecipient(old)
             count == accepted[sweep[w].cur][sweep[w].target]
  <2>1. row.status # "sent" /\ count = 0
    BY <1>5 DEF FailRecipient
  <2>2. /\ wrcpt' = [wrcpt EXCEPT ![sweep[w].cur][sweep[w].target] = row]
        /\ accepted' = [accepted EXCEPT ![sweep[w].cur][sweep[w].target] = count]
    BY <1>1, <1>3, <1>7 DEF Refused, history
  <2>. HIDE DEF row, count
  <2>3. count \in 0..1 /\ (row.status = "sent" <=> count > 0)
    BY <2>1
  <2>. QED
    BY <1>2, <1>3, <1>4, <2>2, <2>3, LedgerSettled
<1>. QED
  BY <1>6, <1>7

LEMMA LedgerLeave ==
    ASSUME TypeInv, LedgerInv, NEW w \in Workers,
           NoCredential(w) \/ BatchRaises(w) \/ EndBatch(w)
    PROVE  LedgerInv'
<1>1. UNCHANGED <<rcpt, wrcpt, holder, accepted>> /\ NextCampaign(w, sweep[w].cur)
  BY DEF NoCredential, BatchRaises, EndBatch, rows, images, history
<1>. QED
  BY <1>1, LedgerUnchanged DEF NextCampaign, Idle, TypeInv, TypeOK

LEMMA LedgerCommit ==
    ASSUME TypeInv, LedgerInv, NEW w \in Workers, Commit(w)
    PROVE  LedgerInv'
<1>1. /\ rcpt' = [c \in Campaigns |-> IF holder[c] = w THEN wrcpt[c] ELSE rcpt[c]]
      /\ holder' = [c \in Campaigns |-> IF holder[c] = w THEN None ELSE holder[c]]
      /\ wrcpt' = [c \in Campaigns |-> IF holder[c] = w THEN NoRecipients ELSE wrcpt[c]]
      /\ sweep' = [sweep EXCEPT ![w] = Idle]
      /\ UNCHANGED accepted /\ w # None
  BY CampaignAssumption DEF Commit, Release, history
<1>2. ASSUME NEW c \in Campaigns PROVE Current(c)' = Current(c)
  BY <1>1 DEF Current
<1>3. LedgerExact' /\ AtMostOnce'
  BY <1>1, <1>2 DEF LedgerInv, LedgerExact, AtMostOnce
<1>4. ASSUME NEW v \in Workers, sweep'[v].stage \in {"deliver", "send"}
      PROVE  \A p \in sweep'[v].batch : wrcpt'[sweep'[v].cur][p].status = "pending"
  <2>1. v # w /\ sweep'[v] = sweep[v]
    BY <1>1, <1>4 DEF TypeInv, TypeOK, Idle
  <2>2. sweep[v].cur \in Campaigns /\ holder[sweep[v].cur] = v
    BY <1>4, <2>1, AtRecipient
  <2>3. wrcpt'[sweep[v].cur] = wrcpt[sweep[v].cur]
    BY <1>1, <2>1, <2>2
  <2>. QED
    BY <1>4, <2>1, <2>3 DEF LedgerInv, BatchPending
<1>. QED
  BY <1>3, <1>4 DEF LedgerInv, BatchPending

\* Neither a death of the process nor a lost answer of WhatsApp.
NothingLost == Faults \cap {"crash", "ambiguous"} = {}

LEMMA NextLedgerInv ==
    NothingLost /\ TypeInv /\ LedgerInv /\ [Next]_vars => LedgerInv'
<1> SUFFICES ASSUME NothingLost, TypeInv, LedgerInv, [Next]_vars PROVE LedgerInv'
  OBVIOUS
<1>1. CASE Api
  BY <1>1, LedgerApi
<1>2. CASE Environment
  BY <1>2, LedgerEnvironment
<1>3. ASSUME NEW w \in Workers, SweepStep(w) \/ Failure(w) PROVE LedgerInv'
  <2>1. ~Crash(w) /\ ~Unanswered(w)
    BY DEF NothingLost, Crash, Unanswered
  <2>. QED
    BY <1>3, <2>1, LedgerClaim, LedgerBatch, LedgerDeliver, LedgerOutcome,
       LedgerLeave, LedgerCommit
    DEF SweepStep, Failure
<1>4. CASE UNCHANGED vars
  BY <1>4, LedgerUnchanged DEF vars
<1>. QED
  BY <1>1, <1>2, <1>3, <1>4 DEF Next

LEMMA InitLedgerInv == Init => LedgerInv
BY CampaignAssumption
   DEF Init, LedgerInv, LedgerExact, AtMostOnce, BatchPending, Current, NoRecipients,
       NoRecipient, Idle

LEMMA LedgerHolds == NothingLost => (Spec => []LedgerInv)
<1> SUFFICES ASSUME NothingLost PROVE Spec => []LedgerInv
  OBVIOUS
<1>1. TypeInv /\ LedgerInv /\ [Next]_vars => (TypeInv /\ LedgerInv)'
  BY NextTypeInv, NextLedgerInv
<1>. QED
  BY <1>1, InitTypeInv, InitLedgerInv, PTL DEF Spec

\* Any number of replicas, requests and concurrent sweeps: as long as no process
\* dies and no answer is lost, nobody gets one campaign's message twice.  An
\* unforeseen exception inside a batch does not break it.
THEOREM NobodyTwice == NothingLost => (Spec => []AtMostOnce)
<1>1. LedgerInv => AtMostOnce
  BY DEF LedgerInv
<1>. QED
  BY <1>1, LedgerHolds, PTL

\* Under the same condition the table is an account of what WhatsApp took: a
\* recipient row says "sent" exactly when the message was accepted.
THEOREM LedgerIsExact == NothingLost => (Spec => []LedgerExact)
<1>1. LedgerInv => LedgerExact
  BY DEF LedgerInv
<1>. QED
  BY <1>1, LedgerHolds, PTL

(***************************************************************************)
(* Rows that say "sent", whatever fails                                    *)
(***************************************************************************)

\* Of the committed rows and of the images of a sweep.
SentIn(list) ==
    \A c \in Campaigns, p \in Contacts :
        list[c][p].status = "sent" => accepted[c][p] > 0

GuessInv == SentIn(rcpt) /\ SentIn(wrcpt)

\* The counters only grow.
LEMMA Grows ==
    ASSUME TypeInv, NEW w \in Workers, Sent(w) \/ Unanswered(w)
    PROVE  /\ \A c \in Campaigns, p \in Contacts :
                accepted[c][p] > 0 => accepted'[c][p] > 0
           /\ accepted'[sweep[w].cur][sweep[w].target] > 0
<1>1. /\ accepted \in [Campaigns -> [Contacts -> 0..2]]
      /\ sweep[w].cur \in Campaigns /\ sweep[w].target \in Contacts
      /\ accepted' = [accepted EXCEPT ![sweep[w].cur][sweep[w].target] =
                        Least(2, accepted[sweep[w].cur][sweep[w].target] + 1)]
  BY AtRecipient DEF Sent, Unanswered, WhatsAppAccepts, TypeInv, TypeOK
<1>2. \A n \in 0..2 : Least(2, n + 1) > 0
  BY DEF Least
<1>. QED
  BY <1>1, <1>2

LEMMA NextGuessInv == TypeInv /\ GuessInv /\ [Next]_vars => GuessInv'
<1> SUFFICES ASSUME TypeInv, GuessInv, [Next]_vars PROVE GuessInv'
  OBVIOUS
<1>1. CASE UNCHANGED <<rcpt, wrcpt, accepted>>
  BY <1>1 DEF GuessInv, SentIn
<1>2. ASSUME NEW r \in Requests, WriteAudience(r) PROVE GuessInv'
  <2>1. /\ req[r].cmp \in Campaigns
        /\ rcpt \in [Campaigns -> [Contacts -> RecipientRow]]
        /\ UNCHANGED <<wrcpt, accepted>>
    BY <1>2 DEF WriteAudience, Finish, images, history, TypeInv, TypeOK, RequestShape
  <2>2. ASSUME NEW c \in Campaigns, NEW p \in Contacts, rcpt'[c][p].status = "sent"
        PROVE  rcpt[c][p].status = "sent"
    BY <1>2, <2>1, <2>2 DEF WriteAudience
  <2>. QED
    BY <2>1, <2>2 DEF GuessInv, SentIn
<1>3. ASSUME NEW w \in Workers, SweepStep(w) \/ Failure(w) PROVE GuessInv'
  <2>1. CASE Claim(w)
    BY <2>1 DEF Claim, rows, history, GuessInv, SentIn
  <2>2. CASE Commit(w)
    BY <2>2 DEF Commit, Release, history, GuessInv, SentIn, NoRecipients, NoRecipient
  <2>3. CASE Crash(w)
    BY <2>3
    DEF Crash, Release, rows, history, GuessInv, SentIn, NoRecipients, NoRecipient
  <2>4. ASSUME NEW p \in Contacts, SkipOptedOut(w, p) PROVE GuessInv'
    <3>1. /\ sweep[w].cur \in Campaigns
          /\ wrcpt \in [Campaigns -> [Contacts -> RecipientRow]]
          /\ UNCHANGED <<rcpt, accepted>>
      BY <2>4, AtRecipient DEF SkipOptedOut, rows, history, TypeInv, TypeOK
    <3>2. ASSUME NEW c \in Campaigns, NEW q \in Contacts, wrcpt'[c][q].status = "sent"
          PROVE  wrcpt[c][q].status = "sent"
      BY <2>4, <3>1, <3>2 DEF SkipOptedOut, RecipientRow
    <3>. QED
      BY <3>1, <3>2 DEF GuessInv, SentIn
  <2>5. ASSUME Sent(w) \/ Refused(w) \/ Unanswered(w) PROVE GuessInv'
    <3>1. /\ sweep[w].cur \in Campaigns /\ sweep[w].target \in Contacts
          /\ wrcpt \in [Campaigns -> [Contacts -> RecipientRow]]
          /\ UNCHANGED rcpt
      BY <2>5, AtRecipient DEF Sent, Refused, Unanswered, rows, TypeInv, TypeOK
    <3>2. \A c \in Campaigns, p \in Contacts : accepted[c][p] > 0 => accepted'[c][p] > 0
      BY <2>5, Grows DEF Refused, history
    <3>3. ASSUME NEW c \in Campaigns, NEW q \in Contacts, wrcpt'[c][q].status = "sent"
          PROVE  \/ wrcpt[c][q].status = "sent"
                 \/ Sent(w) /\ c = sweep[w].cur /\ q = sweep[w].target
      <4>1. CASE Sent(w)
        BY <3>1, <3>3, <4>1 DEF Sent
      <4>2. CASE Refused(w) \/ Unanswered(w)
        <5>1. wrcpt' = [wrcpt EXCEPT ![sweep[w].cur][sweep[w].target] =
                          FailRecipient(wrcpt[sweep[w].cur][sweep[w].target])]
          BY <4>2 DEF Refused, Unanswered
        <5>2. FailRecipient(wrcpt[sweep[w].cur][sweep[w].target]).status = "sent"
                => wrcpt[sweep[w].cur][sweep[w].target].status = "sent"
          BY DEF FailRecipient
        <5>. QED
          BY <3>1, <3>3, <5>1, <5>2
      <4>. QED
        BY <2>5, <4>1, <4>2
    <3>4. SentIn(rcpt)'
      BY <3>1, <3>2 DEF GuessInv, SentIn
    <3>5. SentIn(wrcpt)'
      BY <3>2, <3>3, Grows DEF GuessInv, SentIn
    <3>. QED
      BY <3>4, <3>5 DEF GuessInv
  <2>6. CASE \E c \in Campaigns :
                BlockedBatch(w, c) \/ EmptyBatch(w, c) \/ StartBatch(w, c)
    BY <1>1, <2>6 DEF BlockedBatch, EmptyBatch, StartBatch, rows, history
  <2>7. CASE NoCredential(w) \/ BatchRaises(w) \/ EndBatch(w)
    BY <1>1, <2>7 DEF NoCredential, BatchRaises, EndBatch, rows, images, history
  <2>8. CASE \E p \in Contacts : Address(w, p)
    BY <1>1, <2>8 DEF Address, rows, images, history
  <2>. QED
    BY <1>3, <2>1, <2>2, <2>3, <2>4, <2>5, <2>6, <2>7, <2>8 DEF SweepStep, Failure
<1>4. ASSUME Api, \A r \in Requests : ~WriteAudience(r)
      PROVE  UNCHANGED <<rcpt, wrcpt, accepted>>
  BY <1>4 DEF Api, Create, ReadAudience, ReadSchedule, ReadPause, ReadCancel,
              Remember, WriteSchedule, WritePause, WriteCancel, Finish, rows, images,
              history
<1>5. ASSUME Environment PROVE UNCHANGED <<rcpt, wrcpt, accepted>>
  BY <1>5 DEF Environment, SetOptOut, ClearOptOut, ChangeSendable, Tick, rows, images,
              history
<1>. QED
  BY <1>1, <1>2, <1>3, <1>4, <1>5 DEF Next, vars

\* Even when processes die and answers are lost, a row never guesses: whoever is
\* marked as sent has had the message accepted.
THEOREM SentIsNoGuess == Spec => []SentWasAccepted
<1>1. Init => GuessInv
  BY DEF Init, GuessInv, SentIn, NoRecipients, NoRecipient
<1>2. TypeInv /\ GuessInv /\ [Next]_vars => (TypeInv /\ GuessInv)'
  BY NextTypeInv, NextGuessInv
<1>3. GuessInv => SentWasAccepted
  BY DEF GuessInv, SentIn, SentWasAccepted, Current
<1>. QED
  BY <1>1, <1>2, <1>3, InitTypeInv, PTL DEF Spec

(***************************************************************************)
(* Messages after an opt-out                                               *)
(***************************************************************************)

\* The workers that are past the check of p, and those that are not.
Facing(p) == {w \in Workers : sweep[w].stage = "send" /\ sweep[w].target = p}
Aware(p) == Workers \ Facing(p)

\* Each late message is of a worker that has become aware since.
HeardInv ==
    \A p \in Contacts : /\ p \notin optOut => late[p] = 0
                        /\ late[p] <= Cardinality(Aware(p))

LEMMA AwareCounts ==
    ASSUME NEW p \in Contacts
    PROVE  /\ IsFiniteSet(Aware(p)) /\ Cardinality(Aware(p)) \in Nat
           /\ Cardinality(Aware(p)) <= Cardinality(Workers)
<1>1. Aware(p) \subseteq Workers
  BY DEF Aware
<1>. QED
  BY <1>1, FS_Subset, FS_CardinalityType, CampaignAssumption

\* Who was aware still is, or nobody has opted out.
LEMMA HeardStays ==
    ASSUME TypeInv, HeardInv, UNCHANGED <<optOut, late>>,
           \A p \in optOut : Facing(p)' \subseteq Facing(p)
    PROVE  HeardInv'
<1> SUFFICES ASSUME NEW p \in Contacts
             PROVE  /\ p \notin optOut => late[p] = 0
                    /\ late[p] <= Cardinality(Aware(p)')
  BY DEF HeardInv
<1>1. /\ p \notin optOut => late[p] = 0
      /\ late[p] <= Cardinality(Aware(p)) /\ late[p] \in Nat
  BY LateCapType DEF HeardInv, TypeInv, TypeOK
<1>2. Aware(p)' \subseteq Workers
  BY DEF Aware
<1>3. IsFiniteSet(Aware(p)') /\ Cardinality(Aware(p)') \in Nat
  BY <1>2, FS_Subset, FS_CardinalityType, CampaignAssumption
<1>4. CASE p \in optOut
  <2>1. Aware(p) \subseteq Aware(p)'
    BY <1>4 DEF Aware
  <2>2. Cardinality(Aware(p)) <= Cardinality(Aware(p)')
    BY <1>3, <2>1, FS_Subset
  <2>. QED
    BY <1>1, <1>3, <2>2, AwareCounts
<1>5. CASE p \notin optOut
  BY <1>1, <1>3, <1>5
<1>. QED
  BY <1>4, <1>5

\* The message of a worker that was past the check.
LEMMA HeardSent ==
    ASSUME TypeInv, HeardInv, NEW w \in Workers, Sent(w) \/ Unanswered(w)
    PROVE  HeardInv'
<1>1. PICK p \in Contacts : sweep[w].target = p
  BY AtRecipient DEF Sent, Unanswered
<1>2. /\ sweep[w].stage = "send" /\ optOut' = optOut
      /\ late \in [Contacts -> 0..LateCap]
      /\ late' = IF p \in optOut
                 THEN [late EXCEPT ![p] = Least(LateCap, late[p] + 1)]
                 ELSE late
  BY <1>1 DEF Sent, Unanswered, WhatsAppAccepts, world, TypeInv, TypeOK
<1>3. /\ \A v \in Workers \ {w} : sweep'[v] = sweep[v]
      /\ sweep'[w].stage = "deliver"
  <2>1. sweep \in [Workers -> SweepState] /\ NextRecipient(w)
    BY DEF TypeInv, TypeOK, Sent, Unanswered
  <2>. QED
    BY <2>1 DEF NextRecipient, SweepState
<1>4. \A q \in Contacts : /\ Facing(q)' \subseteq Facing(q)
                          /\ w \notin Facing(q)'
  BY <1>3 DEF Facing
<1>5. ASSUME NEW q \in Contacts
      PROVE  /\ IsFiniteSet(Aware(q)') /\ Cardinality(Aware(q)') \in Nat
             /\ Cardinality(Aware(q)) <= Cardinality(Aware(q)')
             /\ q = p => Cardinality(Aware(q)) + 1 <= Cardinality(Aware(q)')
  <2>1. Aware(q)' \subseteq Workers /\ Aware(q) \subseteq Aware(q)'
    BY <1>4 DEF Aware
  <2>2. IsFiniteSet(Aware(q)') /\ Cardinality(Aware(q)') \in Nat
    BY <2>1, FS_Subset, FS_CardinalityType, CampaignAssumption
  <2>3. Cardinality(Aware(q)) <= Cardinality(Aware(q)')
    BY <2>1, <2>2, FS_Subset
  <2>4. CASE q = p
    <3>1. w \in Aware(q)' /\ w \notin Aware(q)
      BY <1>1, <1>2, <1>4, <2>4 DEF Aware, Facing
    <3>2. Aware(q) \cup {w} \subseteq Aware(q)'
      BY <2>1, <3>1
    <3>3. Cardinality(Aware(q) \cup {w}) = Cardinality(Aware(q)) + 1
      BY <3>1, AwareCounts, FS_AddElement
    <3>. QED
      BY <2>2, <2>3, <3>2, <3>3, FS_Subset
  <2>. QED
    BY <2>2, <2>3, <2>4
<1>6. ASSUME NEW q \in Contacts
      PROVE  /\ q \notin optOut' => late'[q] = 0
             /\ late'[q] <= Cardinality(Aware(q)')
  <2>1. /\ q \notin optOut => late[q] = 0
        /\ late[q] <= Cardinality(Aware(q)) /\ late[q] \in Nat
        /\ Cardinality(Aware(q)) \in Nat
    BY <1>2, AwareCounts, LateCapType DEF HeardInv
  <2>2. CASE q = p /\ p \in optOut
    <3>1. late'[q] <= late[q] + 1 /\ late'[q] \in Nat
      BY <1>2, <2>1, <2>2, LateCapType DEF Least
    <3>. QED
      BY <1>2, <1>5, <2>1, <2>2, <3>1
  <2>3. CASE ~(q = p /\ p \in optOut)
    <3>1. late'[q] = late[q]
      BY <1>2, <2>3
    <3>. QED
      BY <1>2, <1>5, <2>1, <3>1
  <2>. QED
    BY <2>2, <2>3
<1>. QED
  BY <1>6 DEF HeardInv

\* Whatever else a sweep does, it comes to face only somebody who is not opted out.
LEMMA HeardSweep ==
    ASSUME TypeInv, HeardInv, NEW w \in Workers, SweepStep(w) \/ Failure(w),
           ~Sent(w), ~Unanswered(w)
    PROVE  HeardInv'
<1>1. UNCHANGED <<optOut, late>> /\ sweep \in [Workers -> SweepState]
  BY DEF SweepStep, Failure, Claim, BlockedBatch, EmptyBatch, StartBatch, SkipOptedOut,
         Address, Refused, NoCredential, BatchRaises, EndBatch, Commit, Crash, Release,
         world, history, TypeInv, TypeOK
<1>2. \A v \in Workers \ {w} : sweep'[v] = sweep[v]
  BY <1>1
  DEF SweepStep, Failure, Claim, BlockedBatch, EmptyBatch, StartBatch, SkipOptedOut,
      Address, Refused, NoCredential, BatchRaises, EndBatch, Commit, Crash, Release,
      NextCampaign, NextRecipient
<1>3. sweep'[w].stage = "send" => sweep'[w].target \notin optOut
  <2>1. CASE Claim(w)
    BY <1>1, <2>1 DEF Claim, Idle
  <2>2. CASE \E c \in Campaigns : BlockedBatch(w, c) \/ EmptyBatch(w, c)
    BY <1>1, <2>2 DEF BlockedBatch, EmptyBatch, NextCampaign, Idle
  <2>3. CASE \E c \in Campaigns : StartBatch(w, c)
    BY <1>1, <2>3 DEF StartBatch, SweepState
  <2>4. CASE \E p \in Contacts : SkipOptedOut(w, p)
    BY <1>1, <2>4 DEF SkipOptedOut, SweepState
  <2>5. CASE \E p \in Contacts : Address(w, p)
    BY <1>1, <2>5 DEF Address, SweepState
  <2>6. CASE Refused(w)
    BY <1>1, <2>6 DEF Refused, NextRecipient, SweepState
  <2>7. CASE NoCredential(w) \/ BatchRaises(w) \/ EndBatch(w)
    BY <1>1, <2>7 DEF NoCredential, BatchRaises, EndBatch, NextCampaign, Idle
  <2>8. CASE Commit(w) \/ Crash(w)
    BY <1>1, <2>8 DEF Commit, Crash, Release, Idle
  <2>. QED
    BY <2>1, <2>2, <2>3, <2>4, <2>5, <2>6, <2>7, <2>8 DEF SweepStep, Failure
<1>4. \A p \in optOut : Facing(p)' \subseteq Facing(p)
  BY <1>2, <1>3 DEF Facing
<1>. QED
  BY <1>1, <1>4, HeardStays

LEMMA NextHeardInv == TypeInv /\ HeardInv /\ [Next]_vars => HeardInv'
<1> SUFFICES ASSUME TypeInv, HeardInv, [Next]_vars PROVE HeardInv'
  OBVIOUS
<1>1. CASE UNCHANGED <<sweep, optOut, late>>
  BY <1>1 DEF HeardInv, Aware, Facing
<1>2. CASE Api
  BY <1>1, <1>2
  DEF Api, Create, ReadAudience, ReadSchedule, ReadPause, ReadCancel, Remember,
      WriteAudience, WriteSchedule, WritePause, WriteCancel, Finish, world, history
<1>3. ASSUME NEW p \in Contacts, SetOptOut(p) \/ ClearOptOut(p) PROVE HeardInv'
  <2>1. /\ UNCHANGED sweep /\ late \in [Contacts -> 0..LateCap]
        /\ \A q \in Contacts : Cardinality(Aware(q)) \in Nat
    BY <1>3, AwareCounts DEF SetOptOut, ClearOptOut, TypeInv, TypeOK
  <2>2. \A q \in Contacts : Aware(q)' = Aware(q)
    BY <2>1 DEF Aware, Facing
  <2>3. \A q \in Contacts : /\ q \notin optOut' => late'[q] = 0
                            /\ late'[q] = late[q] \/ late'[q] = 0
    BY <1>3, <2>1 DEF SetOptOut, ClearOptOut, history, HeardInv
  <2>. QED
    BY <2>1, <2>2, <2>3 DEF HeardInv
<1>4. CASE Tick
  <2>1. \A v \in Workers : /\ sweep'[v].stage = sweep[v].stage
                           /\ sweep'[v].target = sweep[v].target
    BY <1>4 DEF Tick, TypeInv, TypeOK, SweepState
  <2>2. \A q \in Contacts : Facing(q)' \subseteq Facing(q)
    BY <2>1 DEF Facing
  <2>. QED
    BY <1>4, <2>2, HeardStays DEF Tick, world, TypeInv, TypeOK
<1>5. CASE ChangeSendable
  BY <1>1, <1>5 DEF ChangeSendable, history
<1>6. ASSUME NEW w \in Workers, SweepStep(w) \/ Failure(w) PROVE HeardInv'
  BY <1>6, HeardSent, HeardSweep
<1>. QED
  BY <1>1, <1>2, <1>3, <1>4, <1>5, <1>6 DEF Next, Environment, vars

\* After somebody says stop, each worker can be past the check with at most one
\* message to them, for any number of workers and campaigns.
THEOREM StopIsHeardSoon == Spec => []StopIsHeard
<1>1. Init => HeardInv
  <2> SUFFICES ASSUME Init, NEW p \in Contacts PROVE 0 <= Cardinality(Aware(p))
    BY DEF Init, HeardInv
  <2>. QED
    BY AwareCounts
<1>2. TypeInv /\ HeardInv /\ [Next]_vars => (TypeInv /\ HeardInv)'
  BY NextTypeInv, NextHeardInv
<1>3. TypeInv /\ HeardInv => StopIsHeard
  <2> SUFFICES ASSUME TypeInv, HeardInv, NEW p \in Contacts
               PROVE  late[p] <= Cardinality(Workers)
    BY DEF StopIsHeard
  <2>1. late[p] \in Nat /\ late[p] <= Cardinality(Aware(p))
    BY LateCapType DEF HeardInv, TypeInv, TypeOK
  <2>. QED
    BY <2>1, AwareCounts, FS_CardinalityType, CampaignAssumption
<1>. QED
  BY <1>1, <1>2, <1>3, InitTypeInv, PTL DEF Spec

(***************************************************************************)
(* Completed campaigns                                                     *)
(***************************************************************************)

\* Of the committed rows and of the images of a sweep.
NobodyOwed(table, list) ==
    \A c \in Campaigns : table[c].status = "completed" => PendingIn(list[c]) = {}

\* One request at a time: an audience is read and written on a draft.
DoneInv ==
    /\ NobodyOwed(camp, rcpt)
    /\ NobodyOwed(wcamp, wrcpt)
    /\ \A r \in Requests : req[r].op = "audience" => camp[req[r].cmp].status = "draft"

LEMMA DoneApi ==
    ASSUME \A r, s \in Requests : r = s, TypeInv, DoneInv, Api
    PROVE  DoneInv'
<1>1. /\ UNCHANGED <<wcamp, wrcpt>> /\ req \in [Requests -> RequestState]
      /\ camp \in [Campaigns -> CampaignRow] /\ RequestShape
  BY DEF Api, Create, ReadAudience, ReadSchedule, ReadPause, ReadCancel, Remember,
         WriteAudience, WriteSchedule, WritePause, WriteCancel, Finish, images, TypeInv,
         TypeOK
<1>2. ASSUME NEW c \in Campaigns, Create(c) PROVE DoneInv'
  <2>1. camp' = [camp EXCEPT ![c].status = "draft"] /\ UNCHANGED <<rcpt, req>>
    BY <1>2 DEF Create
  <2>2. camp'[c].status = "draft" /\ \A d \in Campaigns : d # c => camp'[d] = camp[d]
    BY <1>1, <2>1 DEF CampaignRow
  <2>3. \A r \in Requests : req[r].op = "audience" => req[r].cmp \in Campaigns
    BY <1>1 DEF RequestShape
  <2>. QED
    BY <1>1, <2>1, <2>2, <2>3 DEF DoneInv, NobodyOwed
<1>3. ASSUME NEW r \in Requests, NEW c \in Campaigns,
             ReadAudience(r, c) \/ ReadSchedule(r, c) \/ ReadPause(r, c) \/ ReadCancel(r, c)
      PROVE  DoneInv'
  <2>1. UNCHANGED <<camp, rcpt>>
    BY <1>3 DEF ReadAudience, ReadSchedule, ReadPause, ReadCancel, Remember, rows
  <2>2. PICK operation, adds :
          /\ req' = [req EXCEPT ![r] = [op |-> operation, cmp |-> c, adds |-> adds,
                                        hadNext |-> camp[c].next # Unset]]
          /\ operation = "audience" => camp[c].status = "draft"
    BY <1>3 DEF ReadAudience, ReadSchedule, ReadPause, ReadCancel, Remember
  <2>. QED
    BY <1>1, <2>1, <2>2 DEF DoneInv, NobodyOwed
<1>4. ASSUME NEW r \in Requests, NEW operation, Finish(r, operation)
      PROVE  \A s \in Requests : req'[s].op # "audience"
  BY <1>1, <1>4 DEF Finish, NoRequest
<1>5. ASSUME NEW r \in Requests, WriteAudience(r) PROVE DoneInv'
  <2>1. Finish(r, "audience") /\ UNCHANGED camp /\ req[r].cmp \in Campaigns
        /\ camp[req[r].cmp].status = "draft"
    BY <1>1, <1>5 DEF WriteAudience, Finish, RequestShape, DoneInv
  <2>2. \A c \in Campaigns : c # req[r].cmp => rcpt'[c] = rcpt[c]
    BY <1>5, <2>1 DEF WriteAudience, TypeInv, TypeOK
  <2>. QED
    BY <1>1, <1>4, <2>1, <2>2 DEF DoneInv, NobodyOwed
<1>6. ASSUME NEW r \in Requests, WriteSchedule(r) \/ WritePause(r) \/ WriteCancel(r)
      PROVE  DoneInv'
  <2>1. PICK operation : Finish(r, operation) /\ operation # "none"
    BY <1>6 DEF WriteSchedule, WritePause, WriteCancel
  <2>2. UNCHANGED rcpt /\ req[r].cmp \in Campaigns
    BY <1>1, <1>6, <2>1 DEF WriteSchedule, WritePause, WriteCancel, Finish, RequestShape
  <2>3. /\ camp'[req[r].cmp].status # "completed"
        /\ \A c \in Campaigns : c # req[r].cmp => camp'[c] = camp[c]
    <3>1. CASE WriteSchedule(r)
      BY <1>1, <2>2, <3>1 DEF WriteSchedule
    <3>2. CASE WritePause(r) \/ WriteCancel(r)
      BY <1>1, <2>2, <3>2 DEF WritePause, WriteCancel, CampaignRow
    <3>. QED
      BY <1>6, <3>1, <3>2
  <2>. QED
    BY <1>1, <1>4, <2>1, <2>2, <2>3 DEF DoneInv, NobodyOwed
<1>. QED
  BY <1>2, <1>3, <1>5, <1>6 DEF Api

\* A sweep completes a campaign whose list it sees empty, and no list it has
\* in hand grows.
LEMMA DoneSweep ==
    ASSUME TypeInv, LockInv, DoneInv, NEW w \in Workers, SweepStep(w) \/ Failure(w)
    PROVE  DoneInv'
<1>1. /\ UNCHANGED req /\ RequestShape
      /\ wcamp \in [Campaigns -> CampaignRow]
      /\ wrcpt \in [Campaigns -> [Contacts -> RecipientRow]]
  BY CampaignAssumption
     DEF SweepStep, Failure, Claim, BlockedBatch, EmptyBatch, StartBatch, SkipOptedOut,
         Address, Sent, Refused, Unanswered, NoCredential, BatchRaises, EndBatch, Commit,
         Crash, Release, TypeInv, TypeOK
<1>2. CASE Claim(w)
  BY <1>1, <1>2 DEF Claim, rows, DoneInv, NobodyOwed
<1>3. CASE Crash(w)
  BY <1>1, <1>3 DEF Crash, Release, rows, DoneInv, NobodyOwed, NoCampaign
<1>4. CASE Commit(w)
  <2>1. NobodyOwed(camp, rcpt)' /\ NobodyOwed(wcamp, wrcpt)'
    BY <1>4 DEF Commit, Release, DoneInv, NobodyOwed, NoCampaign
  <2>2. ASSUME NEW r \in Requests, req[r].op = "audience"
        PROVE  camp'[req[r].cmp].status = "draft"
    <3>1. req[r].cmp \in Campaigns /\ camp[req[r].cmp].status = "draft"
      BY <1>1, <2>2 DEF RequestShape, DoneInv
    <3>2. holder[req[r].cmp] # w
      BY <3>1, CampaignAssumption DEF LockInv, Sending
    <3>. QED
      BY <1>4, <3>1, <3>2 DEF Commit
  <2>. QED
    BY <1>1, <2>1, <2>2 DEF DoneInv
<1>5. ASSUME UNCHANGED <<camp, rcpt>>,
             \A c \in Campaigns : wcamp'[c].status = "completed" =>
               \/ PendingIn(wrcpt'[c]) = {}
               \/ wcamp[c].status = "completed" /\ PendingIn(wrcpt'[c]) \subseteq PendingIn(wrcpt[c])
      PROVE  DoneInv'
  BY <1>1, <1>5 DEF DoneInv, NobodyOwed
<1>6. ASSUME NEW c \in Campaigns, BlockedBatch(w, c) \/ EmptyBatch(w, c) \/ StartBatch(w, c)
      PROVE  DoneInv'
  <2>1. UNCHANGED <<camp, rcpt, wrcpt>>
    BY <1>6 DEF BlockedBatch, EmptyBatch, StartBatch, rows
  <2>2. /\ \A d \in Campaigns : d # c => wcamp'[d] = wcamp[d]
        /\ wcamp'[c].status = "completed" => PendingIn(wrcpt[c]) = {}
    BY <1>1, <1>6 DEF BlockedBatch, EmptyBatch, StartBatch, CampaignRow
  <2>. QED
    BY <1>5, <2>1, <2>2
<1>7. ASSUME NEW c \in Campaigns, NEW p \in Contacts, NEW row,
             UNCHANGED <<camp, rcpt, wcamp>>,
             wrcpt' = [wrcpt EXCEPT ![c][p] = row],
             row.status = "pending" => wrcpt[c][p].status = "pending"
      PROVE  DoneInv'
  <2>1. \A d \in Campaigns : PendingIn(wrcpt'[d]) \subseteq PendingIn(wrcpt[d])
    BY <1>1, <1>7 DEF PendingIn
  <2>. QED
    BY <1>5, <1>7, <2>1
<1>8. ASSUME NEW p \in Contacts, SkipOptedOut(w, p) PROVE DoneInv'
  <2>1. sweep[w].cur \in Campaigns /\ UNCHANGED <<camp, rcpt, wcamp>>
    BY <1>8, AtRecipient DEF SkipOptedOut, rows
  <2> DEFINE row == [wrcpt[sweep[w].cur][p] EXCEPT !.status = "skipped"]
  <2>2. row.status = "skipped"
    BY <1>1, <2>1 DEF RecipientRow
  <2>3. wrcpt' = [wrcpt EXCEPT ![sweep[w].cur][p] = row]
    BY <1>8, <2>1 DEF SkipOptedOut
  <2>. HIDE DEF row
  <2>. QED
    BY <1>7, <2>1, <2>2, <2>3
<1>9. CASE Sent(w) \/ Refused(w) \/ Unanswered(w)
  <2>1. /\ sweep[w].cur \in Campaigns /\ sweep[w].target \in Contacts
        /\ UNCHANGED <<camp, rcpt, wcamp>>
    BY <1>9, AtRecipient DEF Sent, Refused, Unanswered, rows
  <2> DEFINE old == wrcpt[sweep[w].cur][sweep[w].target]
  <2>2. CASE Sent(w)
    <3> DEFINE row == [old EXCEPT !.status = "sent"]
    <3>1. row.status = "sent"
      BY <1>1, <2>1 DEF RecipientRow
    <3>2. wrcpt' = [wrcpt EXCEPT ![sweep[w].cur][sweep[w].target] = row]
      BY <2>2 DEF Sent
    <3>. HIDE DEF row
    <3>. QED
      BY <1>7, <2>1, <3>1, <3>2
  <2>3. CASE Refused(w) \/ Unanswered(w)
    <3> DEFINE row == FailRecipient(old)
    <3>1. row.status = "pending" => old.status = "pending"
      BY DEF FailRecipient
    <3>2. wrcpt' = [wrcpt EXCEPT ![sweep[w].cur][sweep[w].target] = row]
      BY <2>3 DEF Refused, Unanswered
    <3>. HIDE DEF row
    <3>. QED
      BY <1>7, <2>1, <3>1, <3>2
  <2>. QED
    BY <1>9, <2>2, <2>3
<1>10. CASE NoCredential(w) \/ EndBatch(w)
  <2>1. sweep[w].cur \in Campaigns /\ UNCHANGED <<camp, rcpt, wrcpt>>
    BY <1>10, AtRecipient DEF NoCredential, EndBatch, rows
  <2>2. \A c \in Campaigns : wcamp'[c].status = "completed" => wcamp[c].status = "completed"
    <3>1. CASE NoCredential(w)
      BY <1>1, <2>1, <3>1 DEF NoCredential, CampaignRow
    <3>2. CASE EndBatch(w)
      BY <1>1, <2>1, <3>2 DEF EndBatch, CampaignRow
    <3>. QED
      BY <1>10, <3>1, <3>2
  <2>. QED
    BY <1>5, <2>1, <2>2
<1>11. CASE BatchRaises(w) \/ \E p \in Contacts : Address(w, p)
  BY <1>5, <1>11 DEF BatchRaises, Address, rows, images
<1>. QED
  BY <1>2, <1>3, <1>4, <1>6, <1>8, <1>9, <1>10, <1>11 DEF SweepStep, Failure

LEMMA DoneEnvironment ==
    ASSUME TypeInv, DoneInv, Environment \/ UNCHANGED vars PROVE DoneInv'
<1>1. CASE Tick
  <2>1. \A c \in Campaigns : /\ camp'[c].status = camp[c].status
                             /\ wcamp'[c].status = wcamp[c].status
    <3> SUFFICES ASSUME NEW c \in Campaigns
                 PROVE  camp'[c].status = camp[c].status /\ wcamp'[c].status = wcamp[c].status
      OBVIOUS
    <3>1. camp[c] \in CampaignRow /\ wcamp[c] \in CampaignRow
      BY DEF TypeInv, TypeOK
    <3>2. camp'[c] = Older(camp[c]) /\ wcamp'[c] = Older(wcamp[c])
      BY <1>1 DEF Tick
    <3>. QED
      BY <3>1, <3>2 DEF Older, CampaignRow
  <2>2. UNCHANGED <<rcpt, wrcpt, req>>
        /\ \A r \in Requests : req[r].op = "audience" => req[r].cmp \in Campaigns
    BY <1>1 DEF Tick, TypeInv, RequestShape
  <2>. QED
    BY <2>1, <2>2 DEF DoneInv, NobodyOwed
<1>2. CASE UNCHANGED <<rows, images, req>>
  BY <1>2 DEF DoneInv, NobodyOwed, rows, images
<1>. QED
  BY <1>1, <1>2 DEF Environment, SetOptOut, ClearOptOut, ChangeSendable, vars, rows, images

\* As long as one request is handled at a time, a completed campaign owes nobody
\* a message, for any number of replicas and contacts and whatever fails.
THEOREM CompletedIsDone ==
    ASSUME \A r, s \in Requests : r = s PROVE Spec => []CompletedMeansDone
<1>1. Init => LockInv /\ DoneInv
  BY DEF Init, LockInv, DoneInv, NobodyOwed, NoCampaign, NoRequest
<1>2. TypeInv /\ LockInv /\ DoneInv /\ [Next]_vars => (TypeInv /\ LockInv /\ DoneInv)'
  BY NextTypeInv, NextLockInv, DoneApi, DoneSweep, DoneEnvironment DEF Next
<1>3. DoneInv => CompletedMeansDone
  BY DEF DoneInv, NobodyOwed, CompletedMeansDone
<1>. QED
  BY <1>1, <1>2, <1>3, InitTypeInv, PTL DEF Spec

(***************************************************************************)
(* The rate limit.  The row bounds the slots that are booked when a sweep  *)
(* may claim it; from then on the sweep's age pays for what was booked     *)
(* before it, and its batch for what it adds.                              *)
(***************************************************************************)

Wait(row) == IF row.next = Unset THEN 0 ELSE row.next

Within(row, booked) ==
    /\ row.status = "scheduled" => booked = 0
    /\ row.status = "running" => booked <= BatchLimit + Wait(row)
    /\ booked <= 2 * BatchLimit

Handling(s, c) == s.stage \in {"deliver", "send"} /\ s.cur = c

\* What sweep s, which holds c, has left of c's pace.
Fits(s, c, row, booked) ==
    /\ s.stage # "idle"
    /\ Handling(s, c) =>
         /\ row.status = "running"
         /\ Cardinality(s.batch) <= s.size
         /\ booked <= (BatchLimit - s.age) + (s.size - Cardinality(s.batch))
    /\ ~Handling(s, c) /\ c \in s.todo => booked <= BatchLimit - s.age
    /\ ~Handling(s, c) /\ c \notin s.todo => Within(row, booked)

PaceInv ==
    \A c \in Campaigns :
        /\ holder[c] = None => Within(camp[c], pace[c])
        /\ \A w \in Workers : holder[c] = w => Fits(sweep[w], c, wcamp[c], pace[c])

LEMMA PaceNumbers ==
    ASSUME TypeInv
    PROVE  /\ BatchLimit \in Nat /\ BatchLimit > 0 /\ None \notin Workers
           /\ \A c \in Campaigns : /\ pace[c] \in Nat /\ camp[c] \in CampaignRow
                                   /\ wcamp[c] \in CampaignRow
           /\ \A w \in Workers :
                /\ sweep[w] \in SweepState /\ sweep[w].age \in 0..BatchLimit
                /\ sweep[w].size \in 0..BatchLimit
                /\ IsFiniteSet(sweep[w].batch) /\ Cardinality(sweep[w].batch) \in Nat
           /\ \A row \in CampaignRow : Wait(row) \in 0..BatchLimit
<1>1. /\ BatchLimit \in Nat /\ BatchLimit > 0 /\ None \notin Workers
      /\ \A c \in Campaigns : /\ pace[c] \in Nat /\ camp[c] \in CampaignRow
                              /\ wcamp[c] \in CampaignRow
      /\ \A w \in Workers : sweep[w] \in SweepState
  BY CampaignAssumption DEF TypeInv, TypeOK
<1>2. ASSUME NEW w \in Workers
      PROVE  /\ sweep[w].age \in 0..BatchLimit /\ sweep[w].size \in 0..BatchLimit
             /\ sweep[w].batch \subseteq Contacts
  BY <1>1 DEF SweepState
<1>3. ASSUME NEW w \in Workers
      PROVE  IsFiniteSet(sweep[w].batch) /\ Cardinality(sweep[w].batch) \in Nat
  BY <1>2, FS_Subset, FS_CardinalityType, CampaignAssumption
<1>4. ASSUME NEW row \in CampaignRow PROVE Wait(row) \in 0..BatchLimit
  BY <1>1 DEF Wait, CampaignRow
<1>. QED
  BY <1>1, <1>2, <1>3, <1>4

\* A step of one sweep, which writes neither the rows nor what others hold.
LEMMA PaceOwn ==
    ASSUME TypeInv, PaceInv, NEW w \in Workers, UNCHANGED <<camp, holder>>,
           \A v \in Workers : v # w => sweep'[v] = sweep[v],
           \A c \in Campaigns : holder[c] # w => wcamp'[c] = wcamp[c] /\ pace'[c] = pace[c],
           \A c \in Campaigns : holder[c] = w => Fits(sweep'[w], c, wcamp'[c], pace'[c])
    PROVE  PaceInv'
  BY PaceNumbers DEF PaceInv

\* The sweep is done with campaign c, whose row lets no more than two allowances
\* be booked.
LEMMA PaceNext ==
    ASSUME TypeInv, PaceInv, NEW w \in Workers, NEW c \in Campaigns,
           UNCHANGED <<camp, holder, pace>>, NextCampaign(w, c),
           sweep[w].stage \in {"deliver", "send"} => c = sweep[w].cur,
           \A d \in Campaigns : d # c => wcamp'[d] = wcamp[d],
           holder[c] = w, Within(wcamp'[c], pace[c])
    PROVE  PaceInv'
<1>1. /\ \A v \in Workers : v # w => sweep'[v] = sweep[v]
      /\ sweep'[w].stage = "choose" /\ sweep'[w].todo = sweep[w].todo \ {c}
      /\ sweep'[w].age = sweep[w].age
  BY DEF NextCampaign, Idle, TypeInv, TypeOK
<1>2. ASSUME NEW d \in Campaigns, holder[d] = w
      PROVE  Fits(sweep'[w], d, wcamp'[d], pace'[d])
  <2>1. CASE d = c
    BY <1>1, <2>1 DEF Fits, Handling
  <2>2. CASE d # c
    <3>1. ~Handling(sweep[w], d) /\ ~Handling(sweep'[w], d)
      BY <1>1, <2>2 DEF Handling
    <3>2. d \in sweep'[w].todo <=> d \in sweep[w].todo
      BY <1>1, <2>2
    <3>. QED
      BY <1>1, <1>2, <2>2, <3>1, <3>2 DEF PaceInv, Fits
  <2>. QED
    BY <2>1, <2>2
<1>. QED
  BY <1>1, <1>2, PaceOwn

LEMMA PaceClaim == ASSUME TypeInv, PaceInv, NEW w \in Workers, Claim(w) PROVE PaceInv'
<1>1. PICK due \in SUBSET DueUnlocked :
         /\ holder' = [c \in Campaigns |-> IF c \in due THEN w ELSE holder[c]]
         /\ wcamp' = [c \in Campaigns |-> IF c \in due THEN camp[c] ELSE wcamp[c]]
         /\ sweep' = [sweep EXCEPT ![w] = [Idle EXCEPT !.stage = "choose", !.todo = due]]
  BY DEF Claim
<1>2. /\ sweep'[w].stage = "choose" /\ sweep'[w].todo = due /\ sweep'[w].age = 0
      /\ \A v \in Workers : v # w => sweep'[v] = sweep[v]
      /\ UNCHANGED <<camp, pace>>
  BY <1>1 DEF Claim, Idle, rows, history, TypeInv, TypeOK
<1>3. ASSUME NEW c \in due PROVE pace[c] <= BatchLimit
  <2>1. c \in Campaigns /\ holder[c] = None /\ IsDue(camp[c])
    BY DEF DueUnlocked
  <2>2. Within(camp[c], pace[c])
    BY <2>1 DEF PaceInv
  <2>. QED
    BY <2>1, <2>2, PaceNumbers DEF Within, IsDue, Wait, Unset
<1>4. ASSUME NEW c \in Campaigns, NEW v \in Workers, holder'[c] = v
      PROVE  Fits(sweep'[v], c, wcamp'[c], pace'[c])
  <2>1. CASE c \in due
    <3>1. v = w /\ ~Handling(sweep'[v], c) /\ c \in sweep'[v].todo
      BY <1>1, <1>2, <1>4, <2>1 DEF Handling
    <3>. QED
      BY <1>2, <1>3, <2>1, <3>1, PaceNumbers DEF Fits
  <2>2. CASE c \notin due
    <3>1. holder[c] = v /\ wcamp'[c] = wcamp[c] /\ Fits(sweep[v], c, wcamp[c], pace[c])
      BY <1>1, <1>4, <2>2 DEF PaceInv
    <3>2. v # w
      BY <3>1 DEF Claim, Fits
    <3>. QED
      BY <1>2, <3>1, <3>2
  <2>. QED
    BY <2>1, <2>2
<1>5. ASSUME NEW c \in Campaigns, holder'[c] = None PROVE Within(camp'[c], pace'[c])
  BY <1>1, <1>2, <1>5, PaceNumbers DEF PaceInv
<1>. QED
  BY <1>4, <1>5 DEF PaceInv

LEMMA PaceRelease ==
    ASSUME TypeInv, PaceInv, NEW w \in Workers, Commit(w)
    PROVE  PaceInv'
<1>1. /\ sweep[w].stage = "choose" /\ sweep[w].todo = {} /\ UNCHANGED pace
      /\ camp' = [c \in Campaigns |-> IF holder[c] = w THEN wcamp[c] ELSE camp[c]]
      /\ holder' = [c \in Campaigns |-> IF holder[c] = w THEN None ELSE holder[c]]
      /\ wcamp' = [c \in Campaigns |-> IF holder[c] = w THEN NoCampaign ELSE wcamp[c]]
      /\ \A v \in Workers : v # w => sweep'[v] = sweep[v]
  BY DEF Commit, Release, history, TypeInv, TypeOK
<1>2. ASSUME NEW c \in Campaigns, holder[c] = w PROVE Within(wcamp[c], pace[c])
  BY <1>1, <1>2 DEF PaceInv, Fits, Handling
<1>. QED
  BY <1>1, <1>2, PaceNumbers DEF PaceInv

LEMMA PaceBatch ==
    ASSUME TypeInv, PaceInv, NEW w \in Workers, NEW c \in Campaigns,
           BlockedBatch(w, c) \/ EmptyBatch(w, c) \/ StartBatch(w, c)
    PROVE  PaceInv'
<1>1. /\ UNCHANGED <<camp, holder, pace>> /\ holder[c] = w
      /\ sweep[w].stage = "choose" /\ c \in sweep[w].todo
      /\ sweep \in [Workers -> SweepState] /\ wcamp \in [Campaigns -> CampaignRow]
  BY DEF BlockedBatch, EmptyBatch, StartBatch, Chosen, rows, history, TypeInv, TypeOK,
         SweepShape, Shape
<1>2. pace[c] <= BatchLimit - sweep[w].age
  BY <1>1 DEF PaceInv, Fits, Handling
<1>3. CASE BlockedBatch(w, c) \/ EmptyBatch(w, c)
  <2>1. /\ NextCampaign(w, c) /\ wcamp'[c].status \notin Sending
        /\ \A d \in Campaigns : d # c => wcamp'[d] = wcamp[d]
    BY <1>1, <1>3 DEF BlockedBatch, EmptyBatch, CampaignRow, Sending
  <2>2. Within(wcamp'[c], pace[c])
    BY <1>2, <2>1, PaceNumbers DEF Within, Sending
  <2>. QED
    BY <1>1, <2>1, <2>2, PaceNext
<1>4. CASE StartBatch(w, c)
  <2>1. PICK batch \in SUBSET PendingIn(wrcpt[c]) :
          sweep' = [sweep EXCEPT ![w].stage = "deliver", ![w].cur = c,
                                 ![w].batch = batch,
                                 ![w].size = Cardinality(batch)]
    BY <1>4 DEF StartBatch
  <2>2. /\ sweep'[w].stage = "deliver" /\ sweep'[w].cur = c /\ sweep'[w].batch = batch
        /\ sweep'[w].size = Cardinality(batch) /\ sweep'[w].age = sweep[w].age
        /\ sweep'[w].todo = sweep[w].todo
        /\ \A v \in Workers : v # w => sweep'[v] = sweep[v]
    BY <1>1, <2>1 DEF SweepState
  <2>3. Cardinality(batch) \in Nat
    <3>1. batch \subseteq Contacts
      BY DEF PendingIn
    <3>. QED
      BY <3>1, FS_Subset, FS_CardinalityType, CampaignAssumption
  <2>4. /\ wcamp'[c].status = "running"
        /\ \A d \in Campaigns : d # c => wcamp'[d] = wcamp[d]
    <3>1. wcamp' = [wcamp EXCEPT ![c].status = "running"]
      BY <1>4 DEF StartBatch
    <3>. QED
      BY <1>1, <3>1 DEF CampaignRow
  <2>5. ASSUME NEW d \in Campaigns, holder[d] = w
        PROVE  Fits(sweep'[w], d, wcamp'[d], pace'[d])
    <3>1. CASE d = c
      BY <1>1, <1>2, <2>2, <2>3, <2>4, <3>1, PaceNumbers DEF Fits, Handling
    <3>2. CASE d # c
      <4>1. ~Handling(sweep[w], d) /\ ~Handling(sweep'[w], d)
        BY <1>1, <2>2, <3>2 DEF Handling
      <4>. QED
        BY <1>1, <2>2, <2>4, <2>5, <3>2, <4>1 DEF PaceInv, Fits
    <3>. QED
      BY <3>1, <3>2
  <2>. QED
    BY <1>1, <2>2, <2>4, <2>5, PaceOwn
<1>. QED
  BY <1>3, <1>4

\* One recipient leaves the batch, and takes a slot at most.
LEMMA PaceSettled ==
    ASSUME TypeInv, PaceInv, NEW w \in Workers, sweep[w].stage \in {"deliver", "send"},
           NEW p \in sweep[w].batch, UNCHANGED <<camp, holder, wcamp>>,
           sweep'[w].stage = "deliver", sweep'[w].cur = sweep[w].cur,
           sweep'[w].batch = sweep[w].batch \ {p}, sweep'[w].size = sweep[w].size,
           sweep'[w].age = sweep[w].age, sweep'[w].todo = sweep[w].todo,
           \A v \in Workers : v # w => sweep'[v] = sweep[v],
           \A c \in Campaigns : c # sweep[w].cur => pace'[c] = pace[c],
           pace'[sweep[w].cur] \in Nat, pace'[sweep[w].cur] <= pace[sweep[w].cur] + 1
    PROVE  PaceInv'
<1>1. sweep[w].cur \in Campaigns /\ holder[sweep[w].cur] = w
  BY AtRecipient
<1>2. Cardinality(sweep'[w].batch) = Cardinality(sweep[w].batch) - 1
      /\ Cardinality(sweep'[w].batch) \in Nat
  BY PaceNumbers, FS_RemoveElement, FS_CardinalityType
<1>3. ASSUME NEW d \in Campaigns, holder[d] = w
      PROVE  Fits(sweep'[w], d, wcamp'[d], pace'[d])
  <2>1. Fits(sweep[w], d, wcamp[d], pace[d])
    BY <1>3 DEF PaceInv
  <2>2. Handling(sweep'[w], d) <=> Handling(sweep[w], d)
    BY DEF Handling
  <2>3. CASE d = sweep[w].cur
    <3>1. Handling(sweep[w], d)
      BY <2>3 DEF Handling
    <3>2. /\ wcamp[d].status = "running"
          /\ Cardinality(sweep[w].batch) <= sweep[w].size
          /\ pace[d] <= (BatchLimit - sweep[w].age)
                          + (sweep[w].size - Cardinality(sweep[w].batch))
      BY <2>1, <3>1 DEF Fits
    <3>3. /\ wcamp'[d].status = "running"
          /\ Cardinality(sweep'[w].batch) <= sweep'[w].size
          /\ pace'[d] <= (BatchLimit - sweep'[w].age)
                          + (sweep'[w].size - Cardinality(sweep'[w].batch))
      BY <1>2, <2>3, <3>2, PaceNumbers
    <3>. QED
      BY <2>2, <3>1, <3>3 DEF Fits
  <2>4. CASE d # sweep[w].cur
    BY <2>1, <2>2, <2>4 DEF Fits, Handling
  <2>. QED
    BY <2>3, <2>4
<1>. QED
  BY <1>1, <1>3, PaceOwn

LEMMA PaceDeliver ==
    ASSUME TypeInv, PaceInv, NEW w \in Workers, NEW p \in Contacts,
           SkipOptedOut(w, p) \/ Address(w, p)
    PROVE  PaceInv'
<1>1. /\ UNCHANGED <<camp, holder, wcamp, pace>> /\ sweep \in [Workers -> SweepState]
      /\ sweep[w].stage = "deliver" /\ p \in sweep[w].batch
  BY DEF SkipOptedOut, Address, rows, images, history, TypeInv, TypeOK
<1>2. CASE SkipOptedOut(w, p)
  <2>1. /\ sweep'[w].stage = "deliver" /\ sweep'[w].cur = sweep[w].cur
        /\ sweep'[w].batch = sweep[w].batch \ {p} /\ sweep'[w].size = sweep[w].size
        /\ sweep'[w].age = sweep[w].age /\ sweep'[w].todo = sweep[w].todo
        /\ \A v \in Workers : v # w => sweep'[v] = sweep[v]
    BY <1>1, <1>2 DEF SkipOptedOut, SweepState
  <2>2. pace[sweep[w].cur] \in Nat
    BY <1>1, AtRecipient, PaceNumbers
  <2>. QED
    BY <1>1, <2>1, <2>2, PaceSettled
<1>3. CASE Address(w, p)
  <2>1. /\ sweep'[w].stage = "send" /\ sweep'[w].cur = sweep[w].cur
        /\ sweep'[w].batch = sweep[w].batch /\ sweep'[w].size = sweep[w].size
        /\ sweep'[w].age = sweep[w].age /\ sweep'[w].todo = sweep[w].todo
        /\ \A v \in Workers : v # w => sweep'[v] = sweep[v]
    BY <1>1, <1>3 DEF Address, SweepState
  <2>2. ASSUME NEW d \in Campaigns, holder[d] = w
        PROVE  Fits(sweep'[w], d, wcamp'[d], pace'[d])
    BY <1>1, <2>1, <2>2 DEF PaceInv, Fits, Handling
  <2>. QED
    BY <1>1, <2>1, <2>2, PaceOwn
<1>. QED
  BY <1>2, <1>3

LEMMA PaceOutcome ==
    ASSUME TypeInv, PaceInv, NEW w \in Workers, Sent(w) \/ Refused(w) \/ Unanswered(w)
    PROVE  PaceInv'
<1>1. /\ UNCHANGED <<camp, holder, wcamp>> /\ sweep \in [Workers -> SweepState]
      /\ sweep[w].stage = "send" /\ NextRecipient(w)
      /\ pace \in [Campaigns -> 0..(2 * BatchLimit + 1)]
  BY DEF Sent, Refused, Unanswered, rows, TypeInv, TypeOK
<1>2. sweep[w].target \in sweep[w].batch /\ sweep[w].cur \in Campaigns
  BY <1>1, AtRecipient DEF TypeInv, SweepShape, Shape
<1>3. /\ sweep'[w].stage = "deliver" /\ sweep'[w].cur = sweep[w].cur
      /\ sweep'[w].batch = sweep[w].batch \ {sweep[w].target}
      /\ sweep'[w].size = sweep[w].size
      /\ sweep'[w].age = sweep[w].age /\ sweep'[w].todo = sweep[w].todo
      /\ \A v \in Workers : v # w => sweep'[v] = sweep[v]
  BY <1>1 DEF NextRecipient, SweepState
<1>4. /\ \A c \in Campaigns : c # sweep[w].cur => pace'[c] = pace[c]
      /\ pace'[sweep[w].cur] \in Nat /\ pace'[sweep[w].cur] <= pace[sweep[w].cur] + 1
  <2>1. CASE Refused(w)
    BY <1>1, <1>2, <2>1 DEF Refused, history
  <2>2. CASE Sent(w) \/ Unanswered(w)
    <3>1. pace' = [pace EXCEPT ![sweep[w].cur] =
                                  Least(2 * BatchLimit + 1, pace[sweep[w].cur] + 1)]
      BY <2>2 DEF Sent, Unanswered, WhatsAppAccepts
    <3>2. pace'[sweep[w].cur] = Least(2 * BatchLimit + 1, pace[sweep[w].cur] + 1)
      BY <1>1, <1>2, <3>1
    <3>3. pace[sweep[w].cur] \in Nat /\ 2 * BatchLimit + 1 \in Nat
      BY <1>1, <1>2, CampaignAssumption
    <3>4. pace'[sweep[w].cur] \in Nat /\ pace'[sweep[w].cur] <= pace[sweep[w].cur] + 1
      BY <3>2, <3>3 DEF Least
    <3>. QED
      BY <1>1, <3>1, <3>4
  <2>. QED
    BY <2>1, <2>2
<1>. QED
  BY <1>1, <1>2, <1>3, <1>4, PaceSettled

LEMMA PaceLeave ==
    ASSUME TypeInv, PaceInv, NEW w \in Workers, NoCredential(w) \/ EndBatch(w)
    PROVE  PaceInv'
<1> DEFINE c == sweep[w].cur
<1>1. /\ UNCHANGED <<camp, holder, pace>> /\ NextCampaign(w, c)
      /\ sweep[w].stage \in {"deliver", "send"} /\ wcamp \in [Campaigns -> CampaignRow]
  BY DEF NoCredential, EndBatch, rows, history, TypeInv, TypeOK
<1>2. c \in Campaigns /\ holder[c] = w
  BY <1>1, AtRecipient
<1>3. /\ wcamp[c].status = "running" /\ Cardinality(sweep[w].batch) <= sweep[w].size
      /\ pace[c] <= (BatchLimit - sweep[w].age) + (sweep[w].size - Cardinality(sweep[w].batch))
  <2>1. Handling(sweep[w], c)
    BY <1>1 DEF Handling
  <2>. QED
    BY <1>2, <2>1 DEF PaceInv, Fits
<1>4. pace[c] <= 2 * BatchLimit
  BY <1>2, <1>3, PaceNumbers
<1>5. /\ \A d \in Campaigns : d # c => wcamp'[d] = wcamp[d]
      /\ Within(wcamp'[c], pace[c])
  <2>1. CASE NoCredential(w)
    <3>1. wcamp' = [wcamp EXCEPT ![c].status = "failed", ![c].next = Unset]
      BY <2>1 DEF NoCredential
    <3>2. wcamp'[c].status = "failed" /\ \A d \in Campaigns : d # c => wcamp'[d] = wcamp[d]
      BY <1>1, <1>2, <3>1 DEF CampaignRow
    <3>. QED
      BY <1>4, <3>2 DEF Within
  <2>2. CASE EndBatch(w)
    <3> DEFINE rest == IF sweep[w].size - sweep[w].age > 0
                       THEN sweep[w].size - sweep[w].age ELSE 0
    <3>1. wcamp' = [wcamp EXCEPT ![c].next = rest] /\ sweep[w].batch = {}
      BY <2>2 DEF EndBatch
    <3>2. Cardinality(sweep[w].batch) = 0
      BY <3>1, FS_EmptySet
    <3>3. rest \in Nat /\ pace[c] <= BatchLimit + rest /\ rest # Unset
      BY <1>2, <1>3, <3>2, PaceNumbers DEF Unset
    <3>. HIDE DEF rest
    <3>4. /\ wcamp'[c].next = rest /\ wcamp'[c].status = wcamp[c].status
          /\ \A d \in Campaigns : d # c => wcamp'[d] = wcamp[d]
      BY <1>1, <1>2, <3>1 DEF CampaignRow
    <3>. QED
      BY <1>3, <1>4, <3>3, <3>4 DEF Within, Wait
  <2>. QED
    BY <2>1, <2>2
<1>. HIDE DEF c
<1>. QED
  BY <1>1, <1>2, <1>5, PaceNext DEF c

LEMMA PaceApi == ASSUME TypeInv, PaceInv, Api PROVE PaceInv'
<1>1. UNCHANGED <<holder, wcamp, sweep>> /\ RequestShape
      /\ camp \in [Campaigns -> CampaignRow]
      /\ pace \in [Campaigns -> 0..(2 * BatchLimit + 1)]
  BY DEF Api, Create, ReadAudience, ReadSchedule, ReadPause, ReadCancel, Remember,
         WriteAudience, WriteSchedule, WritePause, WriteCancel, Finish, images, TypeInv,
         TypeOK
<1>2. ASSUME UNCHANGED pace, NEW c \in Campaigns, NEW status, status \notin Sending,
             camp' = [camp EXCEPT ![c].status = status]
      PROVE  PaceInv'
  <2>1. camp'[c].status = status /\ \A d \in Campaigns : d # c => camp'[d] = camp[d]
    BY <1>1, <1>2 DEF CampaignRow
  <2>2. holder[c] = None => Within(camp'[c], pace[c])
    BY <1>2, <2>1 DEF PaceInv, Within, Sending
  <2>. QED
    BY <1>1, <1>2, <2>1, <2>2 DEF PaceInv
<1>3. ASSUME NEW c \in Campaigns, Create(c) PROVE PaceInv'
  <2>1. camp' = [camp EXCEPT ![c].status = "draft"] /\ UNCHANGED pace
    BY <1>3 DEF Create, history
  <2>2. "draft" \notin Sending
    BY DEF Sending
  <2>. QED
    BY <1>2, <2>1, <2>2
<1>4. ASSUME NEW r \in Requests, WritePause(r) \/ WriteCancel(r) PROVE PaceInv'
  <2>1. req[r].cmp \in Campaigns /\ UNCHANGED pace
    BY <1>1, <1>4 DEF WritePause, WriteCancel, Finish, RequestShape, history
  <2>. QED
    BY <1>2, <1>4, <2>1 DEF WritePause, WriteCancel, Sending
<1>5. ASSUME NEW r \in Requests, WriteSchedule(r) PROVE PaceInv'
  <2>1. req[r].cmp \in Campaigns /\ holder[req[r].cmp] = None
    BY <1>1, <1>5 DEF WriteSchedule, Finish, RequestShape
  <2>2. pace' = [pace EXCEPT ![req[r].cmp] = 0]
    BY <1>5 DEF WriteSchedule
  <2>3. PICK row : camp' = [camp EXCEPT ![req[r].cmp] = row]
    BY <1>5 DEF WriteSchedule
  <2>4. \A c \in Campaigns : c # req[r].cmp => camp'[c] = camp[c] /\ pace'[c] = pace[c]
    BY <1>1, <2>1, <2>2, <2>3
  <2>5. Within(camp'[req[r].cmp], pace'[req[r].cmp])
    <3>1. pace'[req[r].cmp] = 0
      BY <1>1, <2>1, <2>2
    <3>2. camp'[req[r].cmp].status = "scheduled"
      BY <1>1, <1>5, <2>1 DEF WriteSchedule
    <3>. QED
      BY <3>1, <3>2, PaceNumbers DEF Within
  <2>. QED
    BY <1>1, <2>1, <2>4, <2>5, PaceNumbers DEF PaceInv
<1>6. CASE UNCHANGED <<camp, pace>>
  BY <1>1, <1>6 DEF PaceInv
<1>. QED
  BY <1>3, <1>4, <1>5, <1>6
     DEF Api, ReadAudience, ReadSchedule, ReadPause, ReadCancel, Remember, WriteAudience,
         Finish, rows, history

LEMMA PaceTick == ASSUME TypeInv, PaceInv, Tick PROVE PaceInv'
<1>1. /\ UNCHANGED holder
      /\ \A c \in Campaigns : /\ camp'[c] = Older(camp[c]) /\ wcamp'[c] = Older(wcamp[c])
                              /\ pace'[c] = Elapse(pace[c])
      /\ \A w \in Workers : sweep[w].stage # "idle" =>
           sweep'[w] = [sweep[w] EXCEPT !.age = Least(BatchLimit, sweep[w].age + 1)]
  BY DEF Tick
<1>2. ASSUME NEW row \in CampaignRow, NEW n \in Nat, Within(row, n)
      PROVE  Within(Older(row), Elapse(n))
  <2>1. Older(row).status = row.status /\ Older(row).next = Elapse(row.next)
    BY DEF Older, CampaignRow
  <2>2. row.next \in {Unset} \cup 0..BatchLimit
    BY DEF CampaignRow
  <2>3. Wait(Older(row)) = Elapse(Wait(row)) /\ Wait(row) \in Nat
    BY <2>1, <2>2, PaceNumbers DEF Wait, Elapse, Unset
  <2>4. /\ Elapse(n) <= n
        /\ n <= BatchLimit + Wait(row) => Elapse(n) <= BatchLimit + Elapse(Wait(row))
    BY <2>3, PaceNumbers DEF Elapse
  <2>5. Elapse(n) <= 2 * BatchLimit /\ (n = 0 => Elapse(n) = 0)
    BY <1>2, PaceNumbers DEF Elapse, Within
  <2>. QED
    BY <1>2, <2>1, <2>3, <2>4, <2>5 DEF Within
<1>3. ASSUME NEW c \in Campaigns, holder'[c] = None PROVE Within(camp'[c], pace'[c])
  BY <1>1, <1>2, <1>3, PaceNumbers DEF PaceInv
<1>4. ASSUME NEW c \in Campaigns, NEW w \in Workers, holder'[c] = w
      PROVE  Fits(sweep'[w], c, wcamp'[c], pace'[c])
  <2>1. Fits(sweep[w], c, wcamp[c], pace[c])
    BY <1>1, <1>4 DEF PaceInv
  <2>2. /\ sweep'[w].stage = sweep[w].stage /\ sweep'[w].cur = sweep[w].cur
        /\ sweep'[w].todo = sweep[w].todo /\ sweep'[w].size = sweep[w].size
        /\ sweep'[w].batch = sweep[w].batch
        /\ sweep'[w].age = Least(BatchLimit, sweep[w].age + 1)
    BY <1>1, <2>1, PaceNumbers DEF Fits, SweepState
  <2>3. BatchLimit - sweep'[w].age = Elapse(BatchLimit - sweep[w].age)
    BY <2>2, PaceNumbers DEF Least, Elapse
  <2>4. wcamp'[c].status = wcamp[c].status
    BY <1>1, PaceNumbers DEF Older, CampaignRow
  <2>5. Handling(sweep'[w], c) <=> Handling(sweep[w], c)
    BY <2>2 DEF Handling
  <2>6. CASE Handling(sweep[w], c)
    <3> DEFINE rest == sweep[w].size - Cardinality(sweep[w].batch)
    <3>1. rest \in Nat /\ pace[c] <= (BatchLimit - sweep[w].age) + rest
      BY <2>1, <2>6, PaceNumbers DEF Fits
    <3>. HIDE DEF rest
    <3>2. Elapse(pace[c]) <= Elapse(BatchLimit - sweep[w].age) + rest
      BY <3>1, PaceNumbers DEF Elapse
    <3>. USE DEF rest
    <3>. QED
      BY <1>1, <2>1, <2>2, <2>3, <2>4, <2>5, <2>6, <3>2 DEF Fits
  <2>7. CASE ~Handling(sweep[w], c) /\ c \in sweep[w].todo
    <3>1. pace[c] <= BatchLimit - sweep[w].age
      BY <2>1, <2>7 DEF Fits
    <3>2. Elapse(pace[c]) <= Elapse(BatchLimit - sweep[w].age)
      BY <3>1, PaceNumbers DEF Elapse
    <3>. QED
      BY <1>1, <2>1, <2>2, <2>3, <2>5, <2>7, <3>2 DEF Fits
  <2>8. CASE ~Handling(sweep[w], c) /\ c \notin sweep[w].todo
    BY <1>1, <1>2, <2>1, <2>2, <2>5, <2>8, PaceNumbers DEF Fits
  <2>. QED
    BY <2>6, <2>7, <2>8
<1>. QED
  BY <1>3, <1>4 DEF PaceInv

\* No batch ends before the campaign's next moment is written.
NothingCutShort == Faults \cap {"crash", "exception"} = {}

LEMMA NextPaceInv ==
    NothingCutShort /\ TypeInv /\ PaceInv /\ [Next]_vars => PaceInv'
<1> SUFFICES ASSUME NothingCutShort, TypeInv, PaceInv, [Next]_vars PROVE PaceInv'
  OBVIOUS
<1>1. CASE Api
  BY <1>1, PaceApi
<1>2. CASE Environment
  <2>1. CASE UNCHANGED <<camp, holder, wcamp, sweep, pace>>
    BY <2>1 DEF PaceInv
  <2>. QED
    BY <1>2, <2>1, PaceTick
       DEF Environment, SetOptOut, ClearOptOut, ChangeSendable, rows, images, history
<1>3. ASSUME NEW w \in Workers, SweepStep(w) \/ Failure(w) PROVE PaceInv'
  <2>1. ~Crash(w) /\ ~BatchRaises(w)
    BY DEF NothingCutShort, Crash, BatchRaises
  <2>. QED
    BY <1>3, <2>1, PaceClaim, PaceBatch, PaceDeliver, PaceOutcome, PaceLeave, PaceRelease
       DEF SweepStep, Failure
<1>4. CASE UNCHANGED vars
  BY <1>4 DEF vars, PaceInv
<1>. QED
  BY <1>1, <1>2, <1>3, <1>4 DEF Next

\* A slow sweep may put two allowances next to each other and never three, for
\* every allowance and any number of replicas, campaigns and requests, answers
\* that are lost included, as long as every batch that began reaches its end.
THEOREM PaceIsKept == NothingCutShort => (Spec => []NoBurst)
<1> SUFFICES ASSUME NothingCutShort PROVE Spec => []NoBurst
  OBVIOUS
<1>1. Init => PaceInv
  BY CampaignAssumption DEF Init, PaceInv, Within, NoCampaign
<1>2. TypeInv /\ PaceInv /\ [Next]_vars => (TypeInv /\ PaceInv)'
  BY NextTypeInv, NextPaceInv
<1>3. TypeInv /\ PaceInv => NoBurst
  <2> SUFFICES ASSUME TypeInv, PaceInv, NEW c \in Campaigns PROVE pace[c] <= 2 * BatchLimit
    BY DEF NoBurst
  <2>1. CASE holder[c] = None
    BY <2>1 DEF PaceInv, Within
  <2>2. ASSUME NEW w \in Workers, holder[c] = w PROVE pace[c] <= 2 * BatchLimit
    <3>1. Fits(sweep[w], c, wcamp[c], pace[c])
      BY <2>2 DEF PaceInv
    <3>. QED
      BY <3>1, PaceNumbers DEF Fits, Within
  <2>. QED
    BY <2>1, <2>2 DEF TypeInv, TypeOK
<1>. QED
  BY <1>1, <1>2, <1>3, InitTypeInv, PTL DEF Spec

(***************************************************************************)
(* Cancelled campaigns                                                     *)
(***************************************************************************)

\* No sweep has a cancelled campaign in hand, and while a request is being
\* handled nobody else cancels what it has read, nor claims what it schedules.
FinalInv ==
    /\ \A c \in Campaigns : wcamp[c].status # "cancelled"
    /\ \A r \in Requests :
         /\ req[r].op # "none" => camp[req[r].cmp].status # "cancelled"
         /\ req[r].op = "schedule" => camp[req[r].cmp].status \in SchedulableFrom

\* The rows that are neither locked nor written by a request keep their status.
LEMMA FinalSweep ==
    ASSUME TypeInv, LockInv, FinalInv, NEW w \in Workers, SweepStep(w) \/ Failure(w)
    PROVE  /\ FinalInv'
           /\ \A c \in Campaigns : camp[c].status = "cancelled" => camp'[c] = camp[c]
<1>1. /\ UNCHANGED req /\ RequestShape /\ wcamp \in [Campaigns -> CampaignRow]
      /\ None \notin Workers
  BY CampaignAssumption
     DEF SweepStep, Failure, Claim, BlockedBatch, EmptyBatch, StartBatch, SkipOptedOut,
         Address, Sent, Refused, Unanswered, NoCredential, BatchRaises, EndBatch, Commit,
         Crash, Release, TypeInv, TypeOK
<1>2. \A c \in Campaigns : \/ camp'[c] = camp[c]
                           \/ holder[c] = w /\ camp'[c] = wcamp[c]
  BY DEF SweepStep, Failure, Claim, BlockedBatch, EmptyBatch, StartBatch, SkipOptedOut,
         Address, Sent, Refused, Unanswered, NoCredential, BatchRaises, EndBatch, Commit,
         Crash, rows
<1>3. \A c \in Campaigns : wcamp'[c].status # "cancelled"
  <2>1. CASE Claim(w)
    BY <1>1, <2>1 DEF Claim, DueUnlocked, IsDue, FinalInv
  <2>2. CASE Commit(w) \/ Crash(w)
    BY <1>1, <2>2 DEF Commit, Crash, Release, NoCampaign, FinalInv
  <2>3. ASSUME NEW c \in Campaigns, BlockedBatch(w, c) \/ EmptyBatch(w, c) \/ StartBatch(w, c)
        PROVE  \A d \in Campaigns : wcamp'[d].status # "cancelled"
    <3>1. PICK status \in {"failed", "completed", "running"} :
            /\ \A d \in Campaigns : d # c => wcamp'[d] = wcamp[d]
            /\ wcamp'[c].status = status
      BY <1>1, <2>3 DEF BlockedBatch, EmptyBatch, StartBatch, CampaignRow
    <3>. QED
      BY <3>1 DEF FinalInv
  <2>4. CASE NoCredential(w)
    BY <1>1, <2>4, AtRecipient DEF NoCredential, CampaignRow, FinalInv
  <2>5. CASE EndBatch(w)
    BY <1>1, <2>5, AtRecipient DEF EndBatch, CampaignRow, FinalInv
  <2>6. CASE UNCHANGED wcamp
    BY <2>6 DEF FinalInv
  <2>. QED
    BY <2>1, <2>2, <2>3, <2>4, <2>5, <2>6
       DEF SweepStep, Failure, SkipOptedOut, Address, Sent, Refused, Unanswered, BatchRaises,
           images
<1>4. \A c \in Campaigns : /\ camp[c].status = "cancelled" => camp'[c] = camp[c]
                           /\ camp[c].status # "cancelled" => camp'[c].status # "cancelled"
                           /\ camp[c].status \in SchedulableFrom => camp'[c] = camp[c]
  BY <1>1, <1>2 DEF LockInv, Sending, SchedulableFrom, FinalInv
<1>5. \A r \in Requests : req[r].op # "none" => req[r].cmp \in Campaigns
  BY <1>1 DEF RequestShape
<1>. QED
  BY <1>1, <1>3, <1>4, <1>5 DEF FinalInv

LEMMA FinalApi ==
    ASSUME \A r, s \in Requests : r = s, TypeInv, FinalInv, Api
    PROVE  FinalInv' /\ \A c \in Campaigns : camp[c].status = "cancelled" =>
                                               camp'[c].status = "cancelled"
<1>1. /\ UNCHANGED wcamp /\ req \in [Requests -> RequestState]
      /\ camp \in [Campaigns -> CampaignRow]
      /\ \A r \in Requests : req[r].op # "none" => req[r].cmp \in Campaigns
  BY DEF Api, Create, ReadAudience, ReadSchedule, ReadPause, ReadCancel, Remember,
         WriteAudience, WriteSchedule, WritePause, WriteCancel, Finish, images, TypeInv,
         TypeOK, RequestShape
<1>2. ASSUME NEW c \in Campaigns, Create(c)
      PROVE  FinalInv' /\ \A d \in Campaigns : camp[d].status = "cancelled" =>
                                                 camp'[d].status = "cancelled"
  <2>1. /\ camp[c].status = "absent" /\ camp'[c].status = "draft" /\ UNCHANGED req
        /\ \A d \in Campaigns : d # c => camp'[d] = camp[d]
    BY <1>1, <1>2 DEF Create, CampaignRow
  <2>. QED
    BY <1>1, <2>1 DEF FinalInv, SchedulableFrom
<1>3. ASSUME NEW r \in Requests, NEW c \in Campaigns,
             ReadAudience(r, c) \/ ReadSchedule(r, c) \/ ReadPause(r, c) \/ ReadCancel(r, c)
      PROVE  FinalInv' /\ UNCHANGED camp
  <2>1. PICK operation, adds :
          /\ req' = [req EXCEPT ![r] = [op |-> operation, cmp |-> c, adds |-> adds,
                                        hadNext |-> camp[c].next # Unset]]
          /\ UNCHANGED camp /\ camp[c].status # "cancelled"
          /\ operation = "schedule" => camp[c].status \in SchedulableFrom
    BY <1>3
       DEF ReadAudience, ReadSchedule, ReadPause, ReadCancel, Remember, rows, SchedulableFrom,
           TerminalStatus, AlreadyOver
  <2>. QED
    BY <1>1, <2>1 DEF FinalInv
<1>4. ASSUME NEW r \in Requests, NEW operation, Finish(r, operation), operation # "none",
             \A c \in Campaigns : c # req[r].cmp => camp'[c] = camp[c]
      PROVE  FinalInv' /\ \A d \in Campaigns : camp[d].status = "cancelled" =>
                                                 camp'[d].status = "cancelled"
  <2>1. \A s \in Requests : req'[s].op = "none"
    BY <1>1, <1>4 DEF Finish, NoRequest
  <2>2. req[r].op # "none"
    BY <1>4 DEF Finish
  <2>. QED
    BY <1>1, <1>4, <2>1, <2>2 DEF FinalInv
<1>5. ASSUME NEW r \in Requests,
             WriteAudience(r) \/ WriteSchedule(r) \/ WritePause(r) \/ WriteCancel(r)
      PROVE  FinalInv' /\ \A d \in Campaigns : camp[d].status = "cancelled" =>
                                                 camp'[d].status = "cancelled"
  <2>1. \A c \in Campaigns : c # req[r].cmp => camp'[c] = camp[c]
    BY <1>1, <1>5 DEF WriteAudience, WriteSchedule, WritePause, WriteCancel
  <2>2. PICK operation : Finish(r, operation) /\ operation # "none"
    BY <1>5 DEF WriteAudience, WriteSchedule, WritePause, WriteCancel
  <2>. QED
    BY <1>4, <2>1, <2>2
<1>. QED
  BY <1>2, <1>3, <1>5 DEF Api

LEMMA FinalEnvironment ==
    ASSUME TypeInv, FinalInv, Environment \/ UNCHANGED vars
    PROVE  FinalInv' /\ \A c \in Campaigns : camp'[c].status = camp[c].status
<1>1. ASSUME NEW c \in Campaigns
      PROVE  camp'[c].status = camp[c].status /\ wcamp'[c].status = wcamp[c].status
  <2>1. CASE Tick
    <3>1. camp[c] \in CampaignRow /\ wcamp[c] \in CampaignRow
      BY DEF TypeInv, TypeOK
    <3>2. camp'[c] = Older(camp[c]) /\ wcamp'[c] = Older(wcamp[c])
      BY <2>1 DEF Tick
    <3>. QED
      BY <3>1, <3>2 DEF Older, CampaignRow
  <2>. QED
    BY <2>1 DEF Environment, SetOptOut, ClearOptOut, ChangeSendable, vars, rows, images
<1>2. UNCHANGED req /\ \A r \in Requests : req[r].op # "none" => req[r].cmp \in Campaigns
  BY DEF Environment, SetOptOut, ClearOptOut, ChangeSendable, Tick, vars, TypeInv, RequestShape
<1>. QED
  BY <1>1, <1>2 DEF FinalInv

\* As long as one request is handled at a time, neither a sweep that was under way
\* nor a later request brings a cancelled campaign back.
THEOREM CancelledForGood ==
    ASSUME \A r, s \in Requests : r = s PROVE Spec => CancelledIsFinal
<1>1. Init => LockInv /\ FinalInv
  BY DEF Init, LockInv, FinalInv, NoCampaign, NoRequest
<1>2. TypeInv /\ LockInv /\ FinalInv /\ [Next]_vars =>
        /\ (TypeInv /\ LockInv /\ FinalInv)'
        /\ [\A c \in Campaigns :
              camp[c].status = "cancelled" => camp'[c].status = "cancelled"]_vars
  BY NextTypeInv, NextLockInv, FinalApi, FinalSweep, FinalEnvironment DEF Next
<1>. QED
  BY <1>1, <1>2, InitTypeInv, PTL DEF Spec, CancelledIsFinal

=============================================================================
