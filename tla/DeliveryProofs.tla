---------------------------- MODULE DeliveryProofs ----------------------------
(***************************************************************************)
(* What holds of messages and the reports on them, for any number of       *)
(* messages, senders and webhooks, and whatever crashes or is repeated.    *)
(*                                                                         *)
(* A row is in the hands of one sender until it is known by WhatsApp's     *)
(* identifier, and in those of the webhooks from then on.  A webhook may   *)
(* have read a row that is out of date by the time it commits; what it     *)
(* adds is then still added, because it writes only the columns it         *)
(* changed, and a timestamp only changes one way.                          *)
(***************************************************************************)
EXTENDS Delivery, TLAPS

SendState == [stage : {"idle", "upload", "post", "keep", "done"},
              on : Messages \cup {NoMessage}, media : BOOLEAN, posts : Nat,
              row : Message]

CourierState == [stage : {"idle", "read"},
                 event : {<<>>} \cup (Messages \X Reports), image : Message]

Shapes ==
    /\ message \in [Messages -> Message]
    /\ sending \in [Senders -> SendState]
    /\ courier \in [Couriers -> CourierState]
    /\ held \in [Messages -> Nat]
    /\ files \subseteq Messages /\ crossed \subseteq Messages
    /\ recorded \cup owed \cup ignored \subseteq Messages \X Reports
    /\ \A c \in Couriers :
        courier[c].stage = "read" => courier[c].event \in Messages \X Reports

\* What a sender has in hand agrees with what WhatsApp and the store have.
Fits(z) ==
    z.stage # "idle" =>
        /\ z.on \in Messages
        /\ ~message[z.on].known
        /\ z.stage \in {"upload", "post"} => held[z.on] = 0
        /\ z.stage = "keep" => held[z.on] > 0
        /\ z.row.status \notin {"absent", "failed"} => held[z.on] > 0
        /\ z.row.copy => z.on \in files /\ held[z.on] > 0

\* No two senders have the same row in hand.
Apart ==
    \A s, o \in Senders :
        s # o /\ sending[s].stage # "idle" => sending[o].on # sending[s].on

Resting == \A s \in Senders : sending[s].stage = "idle" => sending[s].on = NoMessage

SendInv ==
    /\ Shapes /\ Apart /\ Resting
    /\ \A s \in Senders : Fits(sending[s])
    /\ OneSendPerRow

\* Whatever is reported of a message, WhatsApp has it.
Reading(c, m) == courier[c].stage = "read" /\ courier[c].event[1] = m
Grounded ==
    /\ \A e \in recorded \cup owed : held[e[1]] > 0
    /\ \A c \in Couriers : courier[c].stage = "read" => held[courier[c].event[1]] > 0

\* A report that was not ignored is on its row.
Shown(row, report, orderly) ==
    /\ row.known
    /\ report = "delivered" => row.delivered
    /\ report = "read" => row.read
    /\ orderly => Order(row.status) >= Order(report)

\* What a webhook has read of a known row is still there, and is all there is
\* unless another webhook has the row in hand too.
Recent(c) ==
    LET m == courier[c].event[1]  image == courier[c].image IN
    courier[c].stage = "read" /\ image.known =>
        /\ message[m].known
        /\ image.delivered => message[m].delivered
        /\ image.read => message[m].read
        /\ m \notin crossed => image = message[m]

EvidenceInv ==
    /\ \A e \in recorded \ ignored : Shown(message[e[1]], e[2], e[1] \notin crossed)
    /\ \A c \in Couriers : Recent(c)
    /\ \A c, d \in Couriers, m \in Messages \ crossed :
        Reading(c, m) /\ Reading(d, m) => c = d

DeliveryInv == SendInv /\ Grounded /\ RowsTellTheTruth /\ EvidenceInv

-----------------------------------------------------------------------------
(* The beginning                                                           *)

LEMMA UnsentType ==
    /\ Unsent \in Message /\ Unsent.status = "absent" /\ ~Unsent.known /\ ~Unsent.copy
    /\ [Unsent EXCEPT !.status = "failed"] \in Message
    /\ [Unsent EXCEPT !.status = "sent", !.known = TRUE] \in Message
  BY DEF Unsent, Message, MessageStatus

LEMMA NoSendType == NoSend \in SendState /\ NoSend.stage = "idle" /\ NoSend.on = NoMessage
  BY UnsentType DEF NoSend, SendState

LEMMA NoCourierType == NoCourier \in CourierState /\ NoCourier.stage = "idle"
  BY UnsentType DEF NoCourier, CourierState

LEMMA DeliveryStarts == DeliveryInit => DeliveryInv
<1> SUFFICES ASSUME DeliveryInit PROVE DeliveryInv
  OBVIOUS
<1>1. Shapes
  BY UnsentType, NoSendType, NoCourierType DEF DeliveryInit, Shapes
<1>2. /\ \A s \in Senders : sending[s] = NoSend
      /\ \A c \in Couriers : courier[c] = NoCourier
      /\ \A m \in Messages : message[m] = Unsent /\ held[m] = 0
      /\ recorded = {} /\ owed = {}
  BY DEF DeliveryInit
<1>3. SendInv
  BY <1>1, <1>2, NoSendType DEF SendInv, Apart, Resting, Fits, OneSendPerRow
<1>4. Grounded /\ EvidenceInv
  BY <1>2, NoCourierType DEF Grounded, EvidenceInv, Recent, Reading
<1>5. RowsTellTheTruth
  BY <1>2, UnsentType DEF RowsTellTheTruth
<1>6. QED
  BY <1>3, <1>4, <1>5 DEF DeliveryInv

-----------------------------------------------------------------------------
(* Senders                                                                 *)

\* A sender moves on with a row it has, or takes one nobody has.
LEMMA SenderMoves ==
    ASSUME DeliveryInv, NEW s \in Senders, NEW z \in SendState,
           sending' = [sending EXCEPT ![s] = z],
           UNCHANGED <<message, courier, recorded, owed, ignored, crossed>>,
           files \subseteq files', files' \subseteq Messages,
           held' \in [Messages -> Nat],
           \A m \in Messages : held'[m] >= held[m] /\ held'[m] <= 1,
           \A m \in Messages : held'[m] = held[m] \/ m = sending[s].on,
           Fits(z)', z.stage = "idle" => z.on = NoMessage,
           \/ z.stage = "idle"
           \/ z.on = sending[s].on
           \/ \A o \in Senders : sending[o].on # z.on
    PROVE  DeliveryInv'
<1>1. Shapes'
  BY DEF Shapes, DeliveryInv, SendInv
<1>2. /\ sending'[s] = z
      /\ \A o \in Senders \ {s} : sending'[o] = sending[o]
  BY DEF DeliveryInv, SendInv, Shapes
<1>3. Resting'
  BY <1>2 DEF DeliveryInv, SendInv, Resting
<1>4. Apart'
  <2>1. ASSUME NEW p \in Senders, NEW o \in Senders, p # o, sending'[p].stage # "idle"
        PROVE  sending'[o].on # sending'[p].on
    <3>1. CASE p = s
      <4>1. sending'[p] = z /\ sending'[o] = sending[o]
        BY <1>2, <2>1, <3>1
      <4>2. z.on \in Messages
        BY <4>1, <2>1 DEF Fits
      <4>3. CASE sending[s].stage = "idle" /\ z.on = sending[s].on
        BY <4>2, <4>3, DeliveryAssumption DEF DeliveryInv, SendInv, Resting
      <4>4. QED
        BY <2>1, <3>1, <4>1, <4>3 DEF DeliveryInv, SendInv, Apart
    <3>2. CASE o = s
      <4>1. sending'[o] = z /\ sending'[p] = sending[p]
        BY <1>2, <2>1, <3>2
      <4>2. sending[p].on \in Messages /\ sending[s].on # sending[p].on
        BY <2>1, <3>2, <4>1 DEF DeliveryInv, SendInv, Apart, Fits
      <4>3. QED
        BY <4>1, <4>2, DeliveryAssumption
    <3>3. CASE p # s /\ o # s
      BY <1>2, <2>1, <3>3 DEF DeliveryInv, SendInv, Apart
    <3>4. QED
      BY <3>1, <3>2, <3>3
  <2>2. QED
    BY <2>1 DEF Apart
<1>5. ASSUME NEW o \in Senders PROVE Fits(sending[o])'
  <2>1. CASE o = s
    BY <1>2, <2>1
  <2>2. CASE o # s
    <3>1. sending'[o] = sending[o]
      BY <1>2, <2>2
    <3>2. CASE sending[o].stage # "idle"
      <4>1. /\ sending[o].on \in Messages /\ sending[o].on # sending[s].on
            /\ Fits(sending[o])
        BY <2>2, <3>2 DEF DeliveryInv, SendInv, Apart, Fits
      <4>2. held'[sending[o].on] = held[sending[o].on]
        BY <4>1
      <4>3. QED
        BY <3>1, <3>2, <4>1, <4>2 DEF Fits
    <3>3. CASE sending[o].stage = "idle"
      BY <3>1, <3>3 DEF Fits
    <3>4. QED
      BY <3>2, <3>3
  <2>3. QED
    BY <2>1, <2>2
<1>6. SendInv'
  BY <1>1, <1>3, <1>4, <1>5 DEF SendInv, OneSendPerRow
<1>7. \A m \in Messages : held[m] \in Nat /\ held'[m] \in Nat /\ held'[m] >= held[m]
  BY DEF DeliveryInv, SendInv, Shapes
<1>8. Grounded'
  <2>1. \A e \in recorded \cup owed : e[1] \in Messages
    BY DEF DeliveryInv, SendInv, Shapes
  <2>2. \A c \in Couriers : courier[c].stage = "read" => courier[c].event[1] \in Messages
    BY DEF DeliveryInv, SendInv, Shapes
  <2>3. QED
    BY <1>7, <2>1, <2>2 DEF DeliveryInv, Grounded
<1>9. RowsTellTheTruth'
  BY <1>7 DEF DeliveryInv, RowsTellTheTruth
<1>10. EvidenceInv'
  BY DEF DeliveryInv, EvidenceInv, Recent, Reading
<1>11. QED
  BY <1>6, <1>8, <1>9, <1>10 DEF DeliveryInv

\* What a sender with something in hand is known to satisfy.
LEMMA InHand ==
    ASSUME DeliveryInv, NEW s \in Senders
    PROVE  /\ sending[s] \in SendState /\ Fits(sending[s])
           /\ files \subseteq Messages
           /\ \A m \in Messages : held[m] \in Nat /\ held[m] <= 1
  BY DEF DeliveryInv, SendInv, Shapes, OneSendPerRow

\* A row WhatsApp has not seen can be taken up.
LEMMA StagePreserves ==
    ASSUME DeliveryInv, NEW s \in Senders, StageOutbound(s) PROVE DeliveryInv'
<1>1. PICK m \in Messages, media \in BOOLEAN :
        /\ sending[s] = NoSend /\ message[m] = Unsent /\ held[m] = 0
        /\ \A o \in Senders : sending[o].on # m
        /\ sending' = [sending EXCEPT ![s] =
                [NoSend EXCEPT !.stage = IF media THEN "upload" ELSE "post",
                               !.on = m, !.media = media]]
        /\ UNCHANGED <<message, files, courier, recorded, owed, held, ignored, crossed>>
  BY DEF StageOutbound
<1>2. PICK z \in SendState :
        z = [NoSend EXCEPT !.stage = IF media THEN "upload" ELSE "post",
                           !.on = m, !.media = media]
  BY NoSendType, UnsentType DEF NoSend, SendState
<1>3. z.stage \in {"upload", "post"} /\ z.on = m /\ z.row = Unsent
  BY <1>2 DEF NoSend
<1>4. Fits(z)'
  BY <1>1, <1>3, UnsentType DEF Fits
<1>5. held \in [Messages -> Nat] /\ \A n \in Messages : held[n] >= held[n] /\ held[n] <= 1
  BY InHand DEF DeliveryInv, SendInv, Shapes
<1>6. QED
  BY <1>1, <1>2, <1>3, <1>4, <1>5, InHand, SenderMoves

\* A sender that goes on with its row while WhatsApp's books stay as they are.
LEMMA GoesOn ==
    ASSUME DeliveryInv, NEW s \in Senders, NEW z \in SendState,
           sending[s].stage # "idle", z.on = sending[s].on,
           sending' = [sending EXCEPT ![s] = z],
           UNCHANGED <<message, courier, recorded, owed, ignored, crossed, held>>,
           files \subseteq files', files' \subseteq Messages,
           z.stage \in {"upload", "post"} => sending[s].stage \in {"upload", "post"},
           z.stage \notin {"idle", "keep"},
           z.row.status \notin {"absent", "failed"} => held[z.on] > 0,
           z.row.copy => z.on \in files' /\ held[z.on] > 0
    PROVE  DeliveryInv'
<1>1. Fits(z)'
  BY InHand DEF Fits
<1>2. held \in [Messages -> Nat] /\ \A n \in Messages : held[n] >= held[n] /\ held[n] <= 1
  BY InHand DEF DeliveryInv, SendInv, Shapes
<1>3. QED
  BY <1>1, <1>2, SenderMoves

\* A row that has failed, or whose file is uploaded, has nothing to be held to.
LEMMA InSessionPreserves ==
    ASSUME DeliveryInv, NEW s \in Senders, NEW stage \in {"post", "done"},
           NEW row \in Message, sending[s].stage \in {"upload", "post"},
           InSession(s, stage, row), row.status \in {"absent", "failed"}, ~row.copy,
           held' = held
    PROVE  DeliveryInv'
<1>1. sending[s] \in SendState
  BY InHand
<1>2. PICK z \in SendState : z = [sending[s] EXCEPT !.stage = stage, !.row = row]
  BY <1>1 DEF SendState
<1>3. z.on = sending[s].on /\ z.stage = stage /\ z.row = row
  BY <1>1, <1>2 DEF SendState
<1>4. sending' = [sending EXCEPT ![s] = z]
  BY <1>1, <1>2 DEF InSession, SendState, DeliveryInv, SendInv, Shapes
<1>5. /\ UNCHANGED <<message, courier, recorded, owed, ignored, crossed, held, files>>
      /\ files \subseteq Messages
  BY InHand DEF InSession
<1>6. QED
  BY <1>3, <1>4, <1>5, GoesOn

LEMMA MarkFailedPreserves ==
    ASSUME DeliveryInv, NEW s \in Senders, sending[s].stage \in {"upload", "post"},
           MarkFailed(s), held' = held
    PROVE  DeliveryInv'
<1>1. /\ [Unsent EXCEPT !.status = "failed"].status = "failed"
      /\ ~[Unsent EXCEPT !.status = "failed"].copy
  BY DEF Unsent
<1>2. QED
  BY <1>1, UnsentType, InSessionPreserves DEF MarkFailed

LEMMA UploadPreserves ==
    ASSUME DeliveryInv, NEW s \in Senders, Upload(s) \/ UploadFails(s) \/ Rejected(s)
    PROVE  DeliveryInv'
<1>1. CASE Upload(s)
  BY <1>1, UnsentType, InSessionPreserves DEF Upload
<1>2. CASE UploadFails(s) \/ Rejected(s)
  BY <1>2, MarkFailedPreserves DEF UploadFails, Rejected
<1>3. QED
  BY <1>1, <1>2

LEMMA UnreachablePreserves ==
    ASSUME DeliveryInv, NEW s \in Senders, Unreachable(s) PROVE DeliveryInv'
<1>1. CASE MarkFailed(s)
  BY <1>1, MarkFailedPreserves DEF Unreachable
<1>2. CASE ~MarkFailed(s)
  <2>1. sending[s] \in SendState
    BY InHand
  <2>2. PICK z \in SendState : z = [sending[s] EXCEPT !.posts = @ + 1]
    <3>1. PICK posts \in Nat : posts = sending[s].posts + 1
      BY <2>1 DEF SendState
    <3>2. [sending[s] EXCEPT !.posts = posts] \in SendState
      BY <2>1 DEF SendState
    <3>3. QED
      BY <3>1, <3>2
  <2>3. z.on = sending[s].on /\ z.stage = "post" /\ z.row = sending[s].row
    BY <2>1, <2>2 DEF SendState, Unreachable
  <2>4. /\ sending' = [sending EXCEPT ![s].posts = @ + 1]
        /\ UNCHANGED <<message, courier, recorded, owed, ignored, crossed, held, files>>
    BY <1>2 DEF Unreachable
  <2>5. sending' = [sending EXCEPT ![s] = z]
    BY <2>1, <2>2, <2>4 DEF SendState, DeliveryInv, SendInv, Shapes
  <2>6. Fits(sending[s]) /\ sending[s].stage = "post" /\ files \subseteq Messages
    BY InHand DEF Unreachable
  <2>7. QED
    BY <2>3, <2>4, <2>5, <2>6, GoesOn DEF Fits
<1>3. QED
  BY <1>1, <1>2

\* WhatsApp takes a message it did not have: the sender has it posted once.
LEMMA TakenPreserves ==
    ASSUME DeliveryInv, NEW s \in Senders, NEW z \in SendState,
           sending[s].stage = "post", Taken(sending[s].on),
           sending' = [sending EXCEPT ![s] = z],
           UNCHANGED <<message, courier, recorded, owed, ignored, crossed, files>>,
           \/ z.stage \in {"keep", "done"} /\ z.on = sending[s].on /\ ~z.row.copy
           \/ z.stage = "idle" /\ z.on = NoMessage
    PROVE  DeliveryInv'
<1>1. PICK m \in Messages : m = sending[s].on /\ held[m] = 0 /\ ~message[m].known
  BY InHand DEF Fits
<1>2. held \in [Messages -> Nat] /\ held' = [held EXCEPT ![m] = @ + 1]
  BY <1>1 DEF DeliveryInv, SendInv, Shapes, Taken
<1>3. /\ held' \in [Messages -> Nat] /\ held'[m] = 1
      /\ \A n \in Messages : n # m => held'[n] = held[n]
  BY <1>1, <1>2
<1>4. \A n \in Messages : held'[n] >= held[n] /\ held'[n] <= 1
  BY <1>1, <1>3, InHand
<1>5. Fits(z)'
  BY <1>1, <1>3 DEF Fits
<1>6. files \subseteq Messages
  BY InHand
<1>7. QED
  BY <1>1, <1>3, <1>4, <1>5, <1>6, SenderMoves

LEMMA AcceptedPreserves ==
    ASSUME DeliveryInv, NEW s \in Senders, Accepted(s) \/ Ambiguous(s)
    PROVE  DeliveryInv'
<1>1. PICK stage \in {"keep", "done"}, row \in Message :
        /\ ~row.copy /\ InSession(s, stage, row)
        /\ sending[s].stage = "post" /\ Taken(sending[s].on)
  <2>1. /\ ~[Unsent EXCEPT !.status = "failed"].copy
        /\ ~[Unsent EXCEPT !.status = "sent", !.known = TRUE].copy
    BY DEF Unsent
  <2>2. CASE Accepted(s)
    <3>1. PICK stage \in {"keep", "done"} :
            stage = IF sending[s].media THEN "keep" ELSE "done"
      OBVIOUS
    <3>2. QED
      BY <2>1, <2>2, <3>1, UnsentType DEF Accepted, MarkSent
  <2>3. CASE Ambiguous(s)
    BY <2>1, <2>3, UnsentType DEF Ambiguous, GiveUpAmbiguous, MarkFailed
  <2>4. QED
    BY <2>2, <2>3
<1>2. sending[s] \in SendState
  BY InHand
<1>3. PICK z \in SendState : z = [sending[s] EXCEPT !.stage = stage, !.row = row]
  BY <1>2 DEF SendState
<1>4. z.on = sending[s].on /\ z.stage = stage /\ z.row = row
  BY <1>2, <1>3 DEF SendState
<1>5. sending' = [sending EXCEPT ![s] = z]
  BY <1>1, <1>2, <1>3 DEF InSession, SendState, DeliveryInv, SendInv, Shapes
<1>6. UNCHANGED <<message, courier, recorded, owed, ignored, crossed, files>>
  BY <1>1 DEF InSession
<1>7. QED
  BY <1>1, <1>4, <1>5, <1>6, TakenPreserves

\* The file is in the store before the row says so.
LEMMA KeepPreserves ==
    ASSUME DeliveryInv, NEW s \in Senders, KeepCopy(s) PROVE DeliveryInv'
<1>1. PICK stored \in BOOLEAN :
        /\ sending' = [sending EXCEPT ![s].stage = "done", ![s].row.copy = stored]
        /\ files' = IF stored THEN files \cup {sending[s].on} ELSE files
  BY DEF KeepCopy
<1>2. /\ sending[s] \in SendState /\ sending[s].row \in Message
      /\ sending[s].stage = "keep" /\ Fits(sending[s])
      /\ UNCHANGED <<message, courier, recorded, owed, ignored, crossed, held>>
  BY InHand DEF KeepCopy, SendState
<1>3. PICK row \in Message : row = [sending[s].row EXCEPT !.copy = stored]
  BY <1>2 DEF Message
<1>4. PICK z \in SendState : z = [sending[s] EXCEPT !.stage = "done", !.row = row]
  BY <1>2 DEF SendState
<1>5. /\ z.on = sending[s].on /\ z.stage = "done" /\ z.row = row
      /\ row.copy = stored /\ row.status = sending[s].row.status
  BY <1>2, <1>3, <1>4 DEF SendState, Message
<1>6. sending' = [sending EXCEPT ![s] = z]
  BY <1>1, <1>2, <1>3, <1>4 DEF SendState, DeliveryInv, SendInv, Shapes
<1>7. z.on \in Messages /\ files \subseteq files' /\ files' \subseteq Messages
  BY <1>1, <1>2, <1>5, InHand DEF Fits
<1>8. Fits(z)'
  BY <1>1, <1>2, <1>5 DEF Fits
<1>9. held \in [Messages -> Nat] /\ \A n \in Messages : held[n] >= held[n] /\ held[n] <= 1
  BY InHand DEF DeliveryInv, SendInv, Shapes
<1>10. QED
  BY <1>2, <1>5, <1>6, <1>7, <1>8, <1>9, SenderMoves

LEMMA VanishPreserves ==
    ASSUME DeliveryInv, NEW s \in Senders, Vanish(s) PROVE DeliveryInv'
<1>1. PICK z \in SendState : z = NoSend /\ z.stage = "idle" /\ z.on = NoMessage
  BY NoSendType
<1>2. /\ sending' = [sending EXCEPT ![s] = z]
      /\ UNCHANGED <<message, courier, recorded, owed, ignored, crossed, files>>
  BY <1>1 DEF Vanish
<1>3. CASE held' = held
  <2>1. Fits(z)'
    BY <1>1 DEF Fits
  <2>2. /\ held' \in [Messages -> Nat] /\ files \subseteq files' /\ files' \subseteq Messages
        /\ \A n \in Messages : held'[n] = held[n] /\ held'[n] >= held[n] /\ held'[n] <= 1
    BY <1>2, <1>3, InHand DEF DeliveryInv, SendInv, Shapes
  <2>3. QED
    BY <1>1, <1>2, <2>1, <2>2, SenderMoves
<1>4. CASE sending[s].stage = "post" /\ Taken(sending[s].on)
  BY <1>1, <1>2, <1>4, TakenPreserves
<1>5. QED
  BY <1>3, <1>4 DEF Vanish

\* The row becomes visible, and nobody had read it as known before.
LEMMA CommitPreserves ==
    ASSUME DeliveryInv, NEW s \in Senders, CommitSend(s) PROVE DeliveryInv'
<1>1. PICK m \in Messages : m = sending[s].on /\ ~message[m].known
  BY InHand DEF CommitSend, Fits
<1>2. PICK row \in Message :
        /\ row = sending[s].row
        /\ row.status \notin {"absent", "failed"} => held[m] > 0
        /\ row.copy => m \in files /\ held[m] > 0
  BY <1>1, InHand DEF CommitSend, Fits, SendState
<1>3. /\ message' = [message EXCEPT ![m] = row]
      /\ sending' = [sending EXCEPT ![s] = NoSend]
      /\ UNCHANGED <<files, courier, recorded, owed, held, ignored, crossed>>
      /\ sending[s].stage = "done"
  BY <1>1, <1>2 DEF CommitSend
<1>4. Shapes'
  BY <1>3, NoSendType DEF Shapes, DeliveryInv, SendInv
<1>5. /\ message'[m] = row /\ \A n \in Messages : n # m => message'[n] = message[n]
      /\ sending'[s] = NoSend /\ \A o \in Senders : o # s => sending'[o] = sending[o]
  BY <1>3 DEF DeliveryInv, SendInv, Shapes
<1>6. Resting' /\ Apart'
  <2>1. Resting'
    BY <1>5, NoSendType DEF DeliveryInv, SendInv, Resting
  <2>2. ASSUME NEW p \in Senders, NEW o \in Senders, p # o, sending'[p].stage # "idle"
        PROVE  sending'[o].on # sending'[p].on
    <3>1. p # s /\ sending'[p] = sending[p] /\ sending[p].on \in Messages
      BY <1>5, <2>2, NoSendType, InHand DEF Fits
    <3>2. CASE o = s
      BY <1>5, <3>1, <3>2, NoSendType, DeliveryAssumption
    <3>3. CASE o # s
      BY <1>5, <2>2, <3>1, <3>3 DEF DeliveryInv, SendInv, Apart
    <3>4. QED
      BY <3>2, <3>3
  <2>3. QED
    BY <2>1, <2>2 DEF Apart
<1>7. ASSUME NEW o \in Senders PROVE Fits(sending[o])'
  <2>1. CASE o = s
    BY <1>5, <2>1, NoSendType DEF Fits
  <2>2. CASE o # s /\ sending[o].stage # "idle"
    <3>1. sending'[o] = sending[o] /\ Fits(sending[o]) /\ sending[o].on # m
      BY <1>1, <1>3, <1>5, <2>2, InHand DEF DeliveryInv, SendInv, Apart
    <3>2. message'[sending[o].on] = message[sending[o].on]
      BY <1>5, <2>2, <3>1 DEF Fits
    <3>3. QED
      BY <1>3, <3>1, <3>2 DEF Fits
  <2>3. CASE o # s /\ sending[o].stage = "idle"
    BY <1>5, <2>3 DEF Fits
  <2>4. QED
    BY <2>1, <2>2, <2>3
<1>8. SendInv'
  BY <1>3, <1>4, <1>6, <1>7 DEF SendInv, OneSendPerRow, DeliveryInv
<1>9. Grounded'
  BY <1>3 DEF Grounded, DeliveryInv
<1>10. RowsTellTheTruth'
  BY <1>2, <1>3, <1>5 DEF RowsTellTheTruth, DeliveryInv
<1>11. EvidenceInv'
  <2>1. ASSUME NEW e \in recorded \ ignored
        PROVE  Shown(message'[e[1]], e[2], e[1] \notin crossed)
    <3>1. e[1] \in Messages /\ Shown(message[e[1]], e[2], e[1] \notin crossed)
      BY <2>1 DEF DeliveryInv, EvidenceInv, SendInv, Shapes
    <3>2. QED
      BY <1>1, <1>5, <3>1 DEF Shown
  <2>2. ASSUME NEW c \in Couriers PROVE Recent(c)'
    <3>1. Recent(c) /\ courier'[c] = courier[c]
      BY <1>3 DEF DeliveryInv, EvidenceInv
    <3>2. CASE courier[c].stage = "read" /\ courier[c].image.known
      <4>1. courier[c].event[1] \in Messages /\ courier[c].event[1] # m
        BY <1>1, <3>1, <3>2 DEF Recent, DeliveryInv, SendInv, Shapes
      <4>2. message'[courier[c].event[1]] = message[courier[c].event[1]]
        BY <1>5, <4>1
      <4>3. QED
        BY <1>3, <3>1, <4>2 DEF Recent
    <3>3. CASE ~(courier[c].stage = "read" /\ courier[c].image.known)
      BY <3>1, <3>3 DEF Recent
    <3>4. QED
      BY <3>2, <3>3
  <2>3. QED
    BY <1>3, <2>1, <2>2 DEF DeliveryInv, EvidenceInv, Reading
<1>12. QED
  BY <1>8, <1>9, <1>10, <1>11 DEF DeliveryInv

LEMMA SendPreserves ==
    ASSUME DeliveryInv, NEW s \in Senders, SendStep(s) PROVE DeliveryInv'
  BY StagePreserves, UploadPreserves, UnreachablePreserves, AcceptedPreserves,
     KeepPreserves, CommitPreserves, VanishPreserves DEF SendStep

-----------------------------------------------------------------------------
(* Webhooks                                                                *)

\* While nobody sends and no row is written, there is less to keep.
LEMMA SendersRest ==
    ASSUME DeliveryInv, UNCHANGED <<message, files, sending, held>>, Shapes'
    PROVE  SendInv' /\ RowsTellTheTruth'
  BY DEF DeliveryInv, SendInv, Resting, Apart, Fits, OneSendPerRow, RowsTellTheTruth

LEMMA ReportPreserves ==
    ASSUME DeliveryInv, NEW m \in Messages, NEW report \in Reports, Report(m, report)
    PROVE  DeliveryInv'
<1>1. /\ held[m] > 0 /\ owed' = owed \cup {<<m, report>>}
      /\ UNCHANGED <<message, files, sending, courier, recorded, held, ignored, crossed>>
  BY DEF Report
<1>2. Shapes'
  BY <1>1 DEF Shapes, DeliveryInv, SendInv
<1>3. SendInv' /\ RowsTellTheTruth'
  BY <1>1, <1>2, SendersRest
<1>4. Grounded'
  BY <1>1 DEF DeliveryInv, Grounded
<1>5. EvidenceInv'
  BY <1>1 DEF DeliveryInv, EvidenceInv, Recent, Reading
<1>6. QED
  BY <1>3, <1>4, <1>5 DEF DeliveryInv

LEMMA AcknowledgePreserves == ASSUME DeliveryInv, Acknowledge PROVE DeliveryInv'
<1>1. PICK e \in owed :
        /\ owed' = owed \ {e}
        /\ ignored' = IF e \in recorded THEN ignored ELSE ignored \cup {e}
        /\ UNCHANGED <<message, files, sending, courier, recorded, held, crossed>>
  BY DEF Acknowledge
<1>2. Shapes' /\ ignored \subseteq ignored'
  BY <1>1 DEF Shapes, DeliveryInv, SendInv
<1>3. SendInv' /\ RowsTellTheTruth'
  BY <1>1, <1>2, SendersRest
<1>4. Grounded'
  BY <1>1 DEF DeliveryInv, Grounded
<1>5. EvidenceInv'
  BY <1>1, <1>2 DEF DeliveryInv, EvidenceInv, Recent, Reading
<1>6. QED
  BY <1>3, <1>4, <1>5 DEF DeliveryInv

\* A webhook that finds the row in another's hands marks it as crossed.
LEMMA ReadPreserves ==
    ASSUME DeliveryInv, NEW c \in Couriers, ReadEvent(c) PROVE DeliveryInv'
<1>1. PICK e \in owed, z \in CourierState, m \in Messages :
        /\ m = e[1] /\ z.stage = "read" /\ z.event = e /\ z.image = message[m]
        /\ courier' = [courier EXCEPT ![c] = z]
        /\ crossed' = IF InProgress(m) = {} THEN crossed ELSE crossed \cup {m}
        /\ UNCHANGED <<message, files, sending, recorded, owed, held, ignored>>
  <2>1. PICK e \in owed :
          /\ courier' = [courier EXCEPT ![c] = [stage |-> "read", event |-> e,
                                                image |-> message[e[1]]]]
          /\ crossed' = IF InProgress(e[1]) = {} THEN crossed
                        ELSE crossed \cup {e[1]}
          /\ UNCHANGED <<message, files, sending, recorded, owed, held, ignored>>
    BY DEF ReadEvent
  <2>2. e \in Messages \X Reports /\ e[1] \in Messages /\ message[e[1]] \in Message
    BY DEF DeliveryInv, SendInv, Shapes
  <2>3. PICK z \in CourierState :
          z = [stage |-> "read", event |-> e, image |-> message[e[1]]]
    BY <2>2 DEF CourierState
  <2>4. QED
    BY <2>1, <2>2, <2>3
<1>2. /\ courier'[c] = z
      /\ \A d \in Couriers \ {c} : courier'[d] = courier[d]
      /\ crossed \subseteq crossed'
  BY <1>1 DEF DeliveryInv, SendInv, Shapes
<1>3. e \in Messages \X Reports /\ held[m] > 0
  BY <1>1 DEF DeliveryInv, SendInv, Shapes, Grounded
<1>4. Shapes'
  <2>1. \A d \in Couriers :
          courier'[d].stage = "read" => courier'[d].event \in Messages \X Reports
    BY <1>1, <1>2, <1>3 DEF DeliveryInv, SendInv, Shapes
  <2>2. courier' \in [Couriers -> CourierState] /\ crossed' \subseteq Messages
    BY <1>1 DEF DeliveryInv, SendInv, Shapes
  <2>3. QED
    BY <1>1, <2>1, <2>2 DEF DeliveryInv, SendInv, Shapes
<1>5. SendInv' /\ RowsTellTheTruth'
  BY <1>1, <1>4, SendersRest
<1>6. Grounded'
  BY <1>1, <1>2, <1>3 DEF DeliveryInv, Grounded
<1>7. EvidenceInv'
  <2>1. \A x \in recorded' \ ignored' : Shown(message'[x[1]], x[2], x[1] \notin crossed')
    BY <1>1, <1>2 DEF DeliveryInv, EvidenceInv, Shown
  <2>2. ASSUME NEW d \in Couriers PROVE Recent(d)'
    <3>1. CASE d = c
      BY <1>1, <1>2, <3>1 DEF Recent
    <3>2. CASE d # c
      <4>1. Recent(d) /\ courier'[d] = courier[d]
        BY <1>2, <3>2 DEF DeliveryInv, EvidenceInv
      <4>2. QED
        BY <1>1, <1>2, <4>1 DEF Recent
    <3>3. QED
      BY <3>1, <3>2
  <2>3. ASSUME NEW d \in Couriers, NEW x \in Couriers, NEW n \in Messages \ crossed',
               Reading(d, n)', Reading(x, n)', d # x
        PROVE  FALSE
    <3>1. n \notin crossed /\ (n = m => InProgress(m) = {})
      BY <1>1, <1>2, <2>3
    <3>2. \A y \in Couriers : y # c /\ Reading(y, n)' => Reading(y, n)
      BY <1>2 DEF Reading
    <3>3. Reading(c, n)' => n = m
      BY <1>1, <1>2 DEF Reading
    <3>4. \A y \in Couriers : Reading(y, n) => n # m
      BY <3>1 DEF InProgress, Reading
    <3>5. d # c /\ x # c
      BY <2>3, <3>2, <3>3, <3>4
    <3>6. QED
      BY <2>3, <3>1, <3>2, <3>5 DEF DeliveryInv, EvidenceInv
  <2>4. QED
    BY <2>1, <2>2, <2>3 DEF EvidenceInv
<1>8. QED
  BY <1>5, <1>6, <1>7 DEF DeliveryInv

\* A webhook that is done has nothing in hand.
LEMMA CourierLeaves ==
    ASSUME DeliveryInv, NEW c \in Couriers,
           courier' = [courier EXCEPT ![c] = NoCourier],
           UNCHANGED <<message, files, sending, recorded, owed, held, ignored, crossed>>
    PROVE  DeliveryInv'
<1>1. /\ courier'[c].stage = "idle"
      /\ \A d \in Couriers \ {c} : courier'[d] = courier[d]
  BY NoCourierType DEF DeliveryInv, SendInv, Shapes
<1>2. Shapes'
  BY <1>1, NoCourierType DEF DeliveryInv, SendInv, Shapes
<1>3. SendInv' /\ RowsTellTheTruth'
  BY <1>2, SendersRest
<1>4. Grounded'
  BY <1>1 DEF DeliveryInv, Grounded
<1>5. \A d \in Couriers : Recent(d)'
  BY <1>1 DEF DeliveryInv, EvidenceInv, Recent
<1>6. \A d \in Couriers, n \in Messages : Reading(d, n)' => Reading(d, n)
  BY <1>1 DEF Reading
<1>7. EvidenceInv'
  BY <1>5, <1>6 DEF DeliveryInv, EvidenceInv
<1>8. QED
  BY <1>3, <1>4, <1>7 DEF DeliveryInv

LEMMA OrderIsNat == \A status \in MessageStatus : Order(status) \in 0..4
  BY DEF MessageStatus, Order

\* What a report makes of a row, and what its session then makes of the row
\* that is there.
AddsTo(new, image, report) ==
    /\ new.known = image.known /\ new.copy = image.copy
    /\ new.delivered = (image.delivered \/ report = "delivered")
    /\ new.read = (image.read \/ report = "read")
    /\ Order(new.status) >= Order(report)
    /\ Order(new.status) >= Order(image.status)

Merges(row, image, now, report) ==
    /\ row.known /\ row.copy = now.copy
    /\ now.delivered \/ report = "delivered" => row.delivered
    /\ now.read \/ report = "read" => row.read
    /\ image = now => /\ Order(row.status) >= Order(report)
                      /\ Order(row.status) >= Order(now.status)

\* apply_status never takes anything back, and says what the report says.
LEMMA AppliedAdds ==
    ASSUME NEW image \in Message, NEW report \in Reports
    PROVE  /\ Applied(image, report) \in Message
           /\ AddsTo(Applied(image, report), image, report)
<1>1. PICK status \in MessageStatus :
        status = IF report = "failed" \/ Order(report) > Order(image.status)
                 THEN report ELSE image.status
  BY DEF Message, MessageStatus, Reports
<1>2. PICK new : /\ new = Applied(image, report)
                 /\ new = [image EXCEPT !.delivered = @ \/ report = "delivered",
                                        !.read = @ \/ report = "read",
                                        !.status = status]
  BY <1>1 DEF Applied
<1>3. image.delivered \in BOOLEAN /\ image.read \in BOOLEAN /\ image.status \in MessageStatus
  BY DEF Message
<1>4. /\ new \in Message /\ new.known = image.known /\ new.copy = image.copy
      /\ new.delivered = (image.delivered \/ report = "delivered")
      /\ new.read = (image.read \/ report = "read")
      /\ new.status = status
  BY <1>1, <1>2, <1>3 DEF Message
<1>5. /\ Order(report) \in 0..4 /\ Order(image.status) \in 0..4
      /\ report = "failed" => Order(report) = 4
  BY <1>3, OrderIsNat DEF Reports, MessageStatus, Order
<1>6. Order(new.status) >= Order(report) /\ Order(new.status) >= Order(image.status)
  BY <1>1, <1>4, <1>5
<1>7. new \in Message /\ AddsTo(new, image, report)
  BY <1>4, <1>6 DEF AddsTo
<1>8. QED
  BY <1>2, <1>7

\* A session that read an older row adds its report to what is there now.
LEMMA WrittenAdds ==
    ASSUME NEW image \in Message, NEW now \in Message, NEW report \in Reports,
           image.known, now.known,
           image.delivered => now.delivered, image.read => now.read
    PROVE  LET row == ColumnsWritten(image, Applied(image, report), now)
           IN  row \in Message /\ Merges(row, image, now, report)
<1>1. PICK new \in Message : new = Applied(image, report) /\ AddsTo(new, image, report)
  BY AppliedAdds
<1>2. PICK row :
        /\ row = ColumnsWritten(image, Applied(image, report), now)
        /\ row = [column \in {"status", "known", "delivered", "read", "copy"} |->
                  IF new[column] = image[column] THEN now[column] ELSE new[column]]
  BY <1>1 DEF ColumnsWritten, Message
<1>3. /\ row.status = IF new.status = image.status THEN now.status ELSE new.status
      /\ row.known = IF new.known = image.known THEN now.known ELSE new.known
      /\ row.delivered = IF new.delivered = image.delivered THEN now.delivered
                         ELSE new.delivered
      /\ row.read = IF new.read = image.read THEN now.read ELSE new.read
      /\ row.copy = IF new.copy = image.copy THEN now.copy ELSE new.copy
  BY <1>2
<1>4. row \in Message
  BY <1>1, <1>2 DEF Message
<1>5. image = now => row.status = new.status
  BY <1>3
<1>6. image.delivered \in BOOLEAN /\ image.read \in BOOLEAN
  BY DEF Message
<1>7. /\ row.known /\ row.copy = now.copy
      /\ now.delivered \/ report = "delivered" => row.delivered
      /\ now.read \/ report = "read" => row.read
  BY <1>1, <1>3, <1>6 DEF AddsTo
<1>8. image = now => /\ Order(row.status) >= Order(report)
                     /\ Order(row.status) >= Order(now.status)
  BY <1>1, <1>5 DEF AddsTo
<1>9. Merges(row, image, now, report)
  BY <1>7, <1>8 DEF Merges
<1>10. QED
  BY <1>2, <1>4, <1>9

\* The commit of a report.
LEMMA ProjectPreserves ==
    ASSUME DeliveryInv, NEW c \in Couriers, ProjectStatus(c) PROVE DeliveryInv'
<1>1. PICK e \in Messages \X Reports, image \in Message, m \in Messages :
        /\ e = courier[c].event /\ m = e[1] /\ image = courier[c].image
        /\ e[2] \in Reports
        /\ courier[c].stage = "read" /\ courier' = [courier EXCEPT ![c] = NoCourier]
        /\ UNCHANGED <<files, sending, held, crossed>>
  BY DEF ProjectStatus, DeliveryInv, SendInv, Shapes, CourierState
<1>2. CASE e \in recorded
  BY <1>1, <1>2, CourierLeaves DEF ProjectStatus
<1>3. CASE e \notin recorded /\ ~image.known
  <2>1. /\ recorded' = recorded \cup {e} /\ owed' = owed \ {e}
        /\ ignored' = ignored \cup {e} /\ message' = message
    BY <1>1, <1>3 DEF ProjectStatus
  <2>2. /\ courier'[c].stage = "idle"
        /\ \A d \in Couriers \ {c} : courier'[d] = courier[d]
    BY <1>1, NoCourierType DEF DeliveryInv, SendInv, Shapes
  <2>3. Shapes'
    BY <1>1, <2>1, <2>2, NoCourierType DEF DeliveryInv, SendInv, Shapes
  <2>4. SendInv' /\ RowsTellTheTruth'
    BY <1>1, <2>1, <2>3, SendersRest
  <2>5. Grounded'
    BY <1>1, <2>1, <2>2 DEF DeliveryInv, Grounded
  <2>6. \A d \in Couriers : Recent(d)'
    BY <1>1, <2>1, <2>2 DEF DeliveryInv, EvidenceInv, Recent
  <2>7. \A d \in Couriers, n \in Messages : Reading(d, n)' => Reading(d, n)
    BY <2>2 DEF Reading
  <2>8. EvidenceInv'
    BY <1>1, <2>1, <2>6, <2>7 DEF DeliveryInv, EvidenceInv
  <2>9. QED
    BY <2>4, <2>5, <2>8 DEF DeliveryInv
<1>4. CASE e \notin recorded /\ image.known
  <2>1. /\ recorded' = recorded \cup {e} /\ owed' = owed \ {e} /\ ignored' = ignored
        /\ message' = [message EXCEPT ![m] =
                         ColumnsWritten(image, Applied(image, e[2]), message[m])]
    BY <1>1, <1>4 DEF ProjectStatus
  <2>2. /\ courier'[c].stage = "idle"
        /\ \A d \in Couriers \ {c} : courier'[d] = courier[d]
    BY <1>1, NoCourierType DEF DeliveryInv, SendInv, Shapes
  <2>3. PICK now \in Message :
          /\ now = message[m] /\ now.known
          /\ image.delivered => now.delivered
          /\ image.read => now.read
          /\ m \notin crossed => image = now
    BY <1>1, <1>4 DEF DeliveryInv, EvidenceInv, Recent, SendInv, Shapes
  <2>4. PICK row \in Message :
          /\ row = ColumnsWritten(image, Applied(image, e[2]), now)
          /\ row.known /\ row.copy = now.copy
          /\ now.delivered \/ e[2] = "delivered" => row.delivered
          /\ now.read \/ e[2] = "read" => row.read
          /\ m \notin crossed => /\ Order(row.status) >= Order(e[2])
                                 /\ Order(row.status) >= Order(now.status)
    <3>1. PICK report \in Reports : report = e[2]
      BY <1>1
    <3>2. PICK row \in Message :
            /\ row = ColumnsWritten(image, Applied(image, report), now)
            /\ Merges(row, image, now, report)
      BY <1>4, <2>3, WrittenAdds
    <3>3. QED
      BY <2>3, <3>1, <3>2 DEF Merges
  <2>5. /\ message'[m] = row /\ \A n \in Messages : n # m => message'[n] = message[n]
        /\ message' \in [Messages -> Message]
    BY <2>1, <2>3, <2>4 DEF DeliveryInv, SendInv, Shapes
  <2>6. held[m] > 0
    BY <1>1 DEF DeliveryInv, Grounded
  <2>7. Shapes'
    BY <1>1, <2>1, <2>2, <2>5, NoCourierType DEF DeliveryInv, SendInv, Shapes
  <2>8. SendInv'
    <3>1. \A n \in Messages : message'[n].known = message[n].known \/ n = m
      BY <2>5
    <3>2. ASSUME NEW s \in Senders PROVE Fits(sending[s])'
      <4>1. Fits(sending[s]) /\ sending'[s] = sending[s]
        BY <1>1, InHand
      <4>2. sending[s].stage # "idle" => sending[s].on # m
        BY <2>3, <4>1 DEF Fits
      <4>3. QED
        BY <1>1, <2>5, <4>1, <4>2 DEF Fits
    <3>3. QED
      BY <1>1, <2>7, <3>2 DEF DeliveryInv, SendInv, Apart, Resting, OneSendPerRow
  <2>9. RowsTellTheTruth'
    <3>1. ASSUME NEW n \in Messages
          PROVE  /\ message'[n].status \notin {"absent", "failed"} => held[n] > 0
                 /\ message'[n].copy => n \in files /\ held[n] > 0
      BY <2>3, <2>4, <2>5, <2>6 DEF DeliveryInv, RowsTellTheTruth
    <3>2. QED
      BY <1>1, <3>1 DEF RowsTellTheTruth
  <2>10. Grounded'
    BY <1>1, <2>1, <2>2, <2>6 DEF DeliveryInv, Grounded
  <2>11. ASSUME NEW x \in recorded' \ ignored'
         PROVE  Shown(message'[x[1]], x[2], x[1] \notin crossed)
    <3>1. CASE x = e
      BY <1>1, <2>4, <2>5, <3>1 DEF Shown
    <3>2. CASE x # e
      <4>1. /\ x[1] \in Messages /\ x[2] \in Reports
            /\ Shown(message[x[1]], x[2], x[1] \notin crossed)
        BY <2>1, <2>11, <3>2 DEF DeliveryInv, EvidenceInv, SendInv, Shapes
      <4>2. CASE x[1] = m
        <5>1. Order(row.status) \in 0..4 /\ Order(now.status) \in 0..4 /\ Order(x[2]) \in 0..4
          BY <4>1, OrderIsNat DEF Message, Reports, MessageStatus
        <5>2. QED
          BY <2>3, <2>4, <2>5, <4>1, <4>2, <5>1 DEF Shown
      <4>3. CASE x[1] # m
        BY <2>5, <4>1, <4>3
      <4>4. QED
        BY <4>2, <4>3
    <3>3. QED
      BY <3>1, <3>2
  <2>12. ASSUME NEW d \in Couriers PROVE Recent(d)'
    <3>1. CASE d = c \/ courier[d].stage # "read" \/ ~courier[d].image.known
      BY <2>2, <3>1 DEF Recent
    <3>2. CASE d # c /\ courier[d].stage = "read" /\ courier[d].image.known
      <4>1. /\ Recent(d) /\ courier'[d] = courier[d]
            /\ courier[d].event[1] \in Messages
        BY <2>2, <3>2 DEF DeliveryInv, EvidenceInv, SendInv, Shapes
      <4>2. CASE courier[d].event[1] = m
        <5>1. m \in crossed
          BY <1>1, <3>2, <4>2 DEF DeliveryInv, EvidenceInv, Reading
        <5>2. PICK read \in Message :
                /\ read = courier[d].image
                /\ read.delivered => now.delivered
                /\ read.read => now.read
          BY <2>3, <3>2, <4>1, <4>2 DEF Recent, DeliveryInv, SendInv, Shapes, CourierState
        <5>3. (read.delivered => row.delivered) /\ (read.read => row.read)
          BY <2>4, <5>2
        <5>4. QED
          BY <1>1, <2>4, <2>5, <4>1, <4>2, <5>1, <5>2, <5>3 DEF Recent
      <4>3. CASE courier[d].event[1] # m
        BY <1>1, <2>5, <4>1, <4>3 DEF Recent
      <4>4. QED
        BY <4>2, <4>3
    <3>3. QED
      BY <3>1, <3>2
  <2>13. \A d \in Couriers, n \in Messages : Reading(d, n)' => Reading(d, n)
    BY <2>2 DEF Reading
  <2>14. EvidenceInv'
    BY <1>1, <2>11, <2>12, <2>13 DEF DeliveryInv, EvidenceInv
  <2>15. QED
    BY <2>8, <2>9, <2>10, <2>14 DEF DeliveryInv
<1>5. QED
  BY <1>2, <1>3, <1>4

-----------------------------------------------------------------------------

LEMMA DeliveryStepKeeps == DeliveryInv /\ [DeliveryNext]_deliveryVars => DeliveryInv'
<1> SUFFICES ASSUME DeliveryInv, [DeliveryNext]_deliveryVars PROVE DeliveryInv'
  OBVIOUS
<1>1. ASSUME UNCHANGED <<message, files, sending, courier, recorded, owed, held,
                         ignored, crossed>>
      PROVE  DeliveryInv'
  <2>1. Shapes'
    BY <1>1 DEF DeliveryInv, SendInv, Shapes
  <2>2. SendInv' /\ RowsTellTheTruth'
    BY <1>1, <2>1, SendersRest
  <2>3. Grounded' /\ EvidenceInv'
    BY <1>1 DEF DeliveryInv, Grounded, EvidenceInv, Recent, Reading
  <2>4. QED
    BY <2>2, <2>3 DEF DeliveryInv
<1>2. CASE Connect \/ Disable \/ Enable
  BY <1>1, <1>2 DEF Connect, Disable, Enable, Switch
<1>3. CASE \E s \in Senders : SendStep(s)
  BY <1>3, SendPreserves
<1>4. CASE \E m \in Messages, report \in Reports : Report(m, report)
  BY <1>4, ReportPreserves
<1>5. CASE \E c \in Couriers : ReadEvent(c) \/ ProjectStatus(c) \/ LoseWebhook(c)
  <2>1. ASSUME NEW c \in Couriers, LoseWebhook(c) PROVE DeliveryInv'
    BY <2>1, CourierLeaves DEF LoseWebhook
  <2>2. QED
    BY <1>5, <2>1, ReadPreserves, ProjectPreserves
<1>6. CASE Acknowledge
  BY <1>6, AcknowledgePreserves
<1>7. CASE UNCHANGED deliveryVars
  BY <1>1, <1>7 DEF deliveryVars
<1>8. QED
  BY <1>2, <1>3, <1>4, <1>5, <1>6, <1>7 DEF DeliveryNext

LEMMA DeliveryHolds == DeliverySpec => []DeliveryInv
  BY DeliveryStarts, DeliveryStepKeeps, PTL DEF DeliverySpec

\* WhatsApp never gets a message twice, however many posts the client makes,
\* whatever answers are lost and whichever senders die (WhatsAppClient._post).
THEOREM OneSend == DeliverySpec => []OneSendPerRow
<1>1. DeliveryInv => OneSendPerRow
  BY DEF DeliveryInv, SendInv
<1>2. QED
  BY <1>1, DeliveryHolds, PTL

\* What WhatsApp has reported of a known message is on its row for good, and a
\* row says nothing of its message, or of its file, that is not so, with any
\* number of webhooks that read and commit in any order (apply_status).
THEOREM RowsAreTrue == DeliverySpec => []RowsHold
<1>1. DeliveryInv => RowsHold
  BY DEF DeliveryInv, RowsHold, EvidenceInv, EvidenceKept, Shown
<1>2. QED
  BY <1>1, DeliveryHolds, PTL

-----------------------------------------------------------------------------
(* Types                                                                   *)

PostsLeft == \A s \in Senders : sending[s].posts < MaxPosts

Bounds ==
    /\ number \in {"absent", "active", "disabled"}
    /\ mishaps \in Nat /\ switches \in Nat /\ repeats \in Nat

\* A sender's new state is as far from its last post as the old one, or begins.
LEMMA PostsKept ==
    ASSUME Shapes, PostsLeft, NEW s \in Senders, NEW z,
           sending' = [sending EXCEPT ![s] = z], z.posts < MaxPosts
    PROVE  PostsLeft'
BY DEF Shapes, PostsLeft

LEMMA SessionKeepsPosts ==
    ASSUME Shapes, PostsLeft, NEW s \in Senders, NEW stage, NEW row,
           InSession(s, stage, row)
    PROVE  PostsLeft'
<1>1. PICK z : z = [sending[s] EXCEPT !.stage = stage, !.row = row]
  OBVIOUS
<1>2. sending[s] \in SendState
  BY DEF Shapes
<1>3. z.posts = sending[s].posts
  BY <1>1, <1>2 DEF SendState
<1>4. sending' = [sending EXCEPT ![s] = z]
  BY <1>1 DEF InSession
<1>. QED
  BY <1>3, <1>4, PostsKept DEF PostsLeft

LEMMA SendKeepsPosts ==
    ASSUME Shapes, PostsLeft, NEW s \in Senders, SendStep(s)
    PROVE  PostsLeft'
<1>1. NoSend.posts < MaxPosts
  BY DeliveryAssumption DEF NoSend
<1>2. sending[s] \in SendState
  BY DEF Shapes
<1>3. CASE StageOutbound(s)
  <2>1. PICK m \in Messages, media \in BOOLEAN :
            sending' = [sending EXCEPT ![s] =
                [NoSend EXCEPT !.stage = IF media THEN "upload" ELSE "post",
                               !.on = m, !.media = media]]
    BY <1>3 DEF StageOutbound
  <2>2. PICK z : z = [NoSend EXCEPT !.stage = IF media THEN "upload" ELSE "post",
                                    !.on = m, !.media = media]
    OBVIOUS
  <2>3. z.posts = NoSend.posts
    BY <2>2 DEF NoSend
  <2>4. sending' = [sending EXCEPT ![s] = z]
    BY <2>1, <2>2
  <2>. QED
    BY <1>1, <2>3, <2>4, PostsKept
<1>4. CASE Upload(s) \/ UploadFails(s) \/ Accepted(s) \/ Rejected(s) \/ Ambiguous(s)
  BY <1>4, SessionKeepsPosts
     DEF Upload, UploadFails, Accepted, Rejected, Ambiguous, GiveUpAmbiguous, MarkSent,
         MarkFailed
<1>5. CASE Unreachable(s)
  <2>1. CASE sending[s].posts + 1 >= MaxPosts
    BY <1>5, <2>1, SessionKeepsPosts DEF Unreachable, MarkFailed
  <2>2. CASE ~(sending[s].posts + 1 >= MaxPosts)
    <3>1. PICK z : z = [sending[s] EXCEPT !.posts = @ + 1]
      OBVIOUS
    <3>2. z.posts = sending[s].posts + 1 /\ sending[s].posts \in Nat
      BY <1>2, <3>1 DEF SendState
    <3>3. sending' = [sending EXCEPT ![s] = z]
      BY <1>5, <2>2, <3>1 DEF Unreachable
    <3>4. z.posts < MaxPosts
      BY <2>2, <3>2, DeliveryAssumption
    <3>. QED
      BY <3>3, <3>4, PostsKept
  <2>. QED
    BY <2>1, <2>2
<1>6. CASE KeepCopy(s)
  <2>1. PICK stored \in BOOLEAN :
            sending' = [sending EXCEPT ![s].stage = "done", ![s].row.copy = stored]
    BY <1>6 DEF KeepCopy
  <2>2. PICK row : row = [sending[s].row EXCEPT !.copy = stored]
    OBVIOUS
  <2>3. PICK z : z = [sending[s] EXCEPT !.stage = "done", !.row = row]
    OBVIOUS
  <2>4. z.posts = sending[s].posts
    BY <1>2, <2>3 DEF SendState
  <2>5. sending' = [sending EXCEPT ![s] = z]
    BY <1>2, <2>1, <2>2, <2>3 DEF SendState
  <2>. QED
    BY <2>4, <2>5, PostsKept DEF PostsLeft
<1>7. CASE CommitSend(s) \/ Vanish(s)
  BY <1>1, <1>7, PostsKept DEF CommitSend, Vanish
<1>. QED
  BY <1>3, <1>4, <1>5, <1>6, <1>7 DEF SendStep

LEMMA BoundsKept ==
    ASSUME Shapes, PostsLeft, Bounds, [DeliveryNext]_deliveryVars
    PROVE  PostsLeft' /\ Bounds'
<1>1. CASE Connect \/ Disable \/ Enable
  BY <1>1 DEF Connect, Disable, Enable, Switch, PostsLeft, Bounds
<1>2. ASSUME NEW s \in Senders, SendStep(s)
      PROVE  PostsLeft' /\ Bounds'
  <2>1. UNCHANGED <<number, switches, repeats>> /\ (mishaps' = mishaps \/ Mishaps)
    BY <1>2 DEF SendStep, StageOutbound, Upload, UploadFails, Accepted, Rejected, Unreachable,
         Ambiguous, GiveUpAmbiguous, KeepCopy, CommitSend, Vanish, InSession, MarkFailed,
         MarkSent
  <2>2. Bounds'
    BY <2>1 DEF Bounds, Mishaps
  <2>. QED
    BY <1>2, <2>2, SendKeepsPosts
<1>3. CASE \E m \in Messages, report \in Reports : Report(m, report)
  BY <1>3 DEF Report, PostsLeft, Bounds
<1>4. ASSUME NEW c \in Couriers, ReadEvent(c) \/ ProjectStatus(c) \/ LoseWebhook(c)
      PROVE  PostsLeft' /\ Bounds'
  <2>1. UNCHANGED <<number, sending, switches>> /\ (mishaps' = mishaps \/ Mishaps)
        /\ (repeats' = repeats \/ repeats' = repeats + 1)
    BY <1>4 DEF ReadEvent, ProjectStatus, LoseWebhook
  <2>. QED
    BY <2>1 DEF PostsLeft, Bounds, Mishaps
<1>5. CASE Acknowledge
  BY <1>5 DEF Acknowledge, PostsLeft, Bounds
<1>6. CASE UNCHANGED deliveryVars
  BY <1>6 DEF deliveryVars, PostsLeft, Bounds
<1>. QED
  BY <1>1, <1>2, <1>3, <1>4, <1>5, <1>6 DEF DeliveryNext

\* Every variable has its type, and no sender makes more posts than MAX_ATTEMPTS.
THEOREM DeliveryTypesCorrect == DeliverySpec => []DeliveryTypeOK
<1>1. DeliveryInit => PostsLeft /\ Bounds
  BY DeliveryAssumption DEF DeliveryInit, PostsLeft, Bounds, NoSend
<1>2. DeliveryInv /\ PostsLeft /\ Bounds /\ [DeliveryNext]_deliveryVars
        => PostsLeft' /\ Bounds'
  BY BoundsKept DEF DeliveryInv, SendInv
<1>3. DeliveryInv /\ PostsLeft /\ Bounds => DeliveryTypeOK
  <2>. SUFFICES ASSUME Shapes, PostsLeft, Bounds PROVE DeliveryTypeOK
    BY DEF DeliveryInv, SendInv
  <2>1. ASSUME NEW s \in Senders
        PROVE  /\ sending[s].stage \in {"idle", "upload", "post", "keep", "done"}
               /\ sending[s].on \in Messages \cup {NoMessage}
               /\ sending[s].posts \in 0..(MaxPosts - 1)
               /\ sending[s].row \in Message
    <3>1. sending[s] \in SendState /\ sending[s].posts < MaxPosts
      BY DEF Shapes, PostsLeft
    <3>2. sending[s].posts \in 0..(MaxPosts - 1)
      BY <3>1, DeliveryAssumption DEF SendState
    <3>. QED
      BY <3>1, <3>2 DEF SendState
  <2>2. \A c \in Couriers : courier[c].stage \in {"idle", "read"}
                            /\ courier[c].image \in Message
    BY DEF Shapes, CourierState
  <2>. QED
    BY <2>1, <2>2 DEF DeliveryTypeOK, Shapes, Bounds
<1>. QED
  BY <1>1, <1>2, <1>3, DeliveryHolds, PTL DEF DeliverySpec
=============================================================================
