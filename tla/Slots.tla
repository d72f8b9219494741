-------------------------------- MODULE Slots --------------------------------
(***************************************************************************)
(* How many agents, documents, numbers and colleagues a workspace may have.*)
(*                                                                         *)
(* Source: EntitlementService (resource limits) of                         *)
(* app/services/entitlement_service.py, require_entitlement of             *)
(* app/api/dependencies.py and the routes that depend on it.               *)
(*                                                                         *)
(* A check counts committed rows, and nobody locks anything between it and *)
(* the commit of what it allowed.  The four kinds share no rows: a         *)
(* behaviour is about one of them.                                         *)
(***************************************************************************)
EXTENDS Integers, FiniteSets

CONSTANTS
    Ceiling,        \* what the plan allows
    Requests        \* requests that create something with a slot

ASSUME SlotsAssumption ==
    /\ Ceiling \in Nat
    /\ IsFiniteSet(Requests)

VARIABLES
    slotKind,         \* what the slots are for
    slots,        \* rows that count
    spare,        \* numbers that are disabled, and do not
    asking        \* requests that have been let through

slotVars == <<slotKind, slots, spare, asking>>

Kinds == {"agents", "documents", "numbers", "members"}

\* A workspace begins with its owner.
SlotsInit ==
    /\ slotKind \in Kinds
    /\ slots = IF slotKind = "members" THEN 1 ELSE 0
    /\ spare = 0
    /\ asking = {}

\* Mutant: whoever has seen room is let through with one more.
RoomForTwo(count) == count <= Ceiling

\* used + 1 <= limit
Room(count) == count + 1 <= Ceiling

\* The dependency of the route: require_entitlement.
Require(r) ==
    /\ r \notin asking
    /\ Room(slots)
    /\ asking' = asking \cup {r}
    /\ UNCHANGED <<slotKind, slots, spare>>

\* The commit.  An invitation that has been issued takes no seat yet.
TakeSlot(r) ==
    /\ r \in asking
    /\ slots' = IF slotKind = "members" THEN slots ELSE slots + 1
    /\ asking' = asking \ {r}
    /\ UNCHANGED <<slotKind, spare>>

RequestFails(r) ==
    /\ r \in asking
    /\ asking' = asking \ {r}
    /\ UNCHANGED <<slotKind, slots, spare>>

\* delete_document; no other row is ever deleted.
FreeSlot ==
    /\ slotKind = "documents"
    /\ slots > 0
    /\ slots' = slots - 1
    /\ UNCHANGED <<slotKind, spare, asking>>

DisableNumber ==
    /\ slotKind = "numbers"
    /\ slots > 0 /\ spare = 0
    /\ slots' = slots - 1
    /\ spare' = spare + 1
    /\ UNCHANGED <<slotKind, asking>>

\* Nothing is asked when a number is enabled again, or an invitation accepted:
\* the model stops each when it has exceeded the plan twice.
EnableNumber ==
    /\ slotKind = "numbers"
    /\ spare > 0 /\ slots <= Ceiling + 1
    /\ slots' = slots + 1
    /\ spare' = spare - 1
    /\ UNCHANGED <<slotKind, asking>>

Join ==
    /\ slotKind = "members"
    /\ slots <= Ceiling + 1
    /\ slots' = slots + 1
    /\ UNCHANGED <<slotKind, spare, asking>>

SlotsNext ==
    \/ \E r \in Requests : Require(r) \/ TakeSlot(r) \/ RequestFails(r)
    \/ FreeSlot \/ DisableNumber \/ EnableNumber \/ Join

SlotsSpec == SlotsInit /\ [][SlotsNext]_slotVars

-----------------------------------------------------------------------------
(* Properties                                                              *)

\* Every variable has its type.
SlotsTypeOK ==
    /\ slotKind \in Kinds
    /\ slots \in Nat
    /\ spare \in 0..1
    /\ asking \subseteq Requests

\* Requests that overlap have all seen the same room: a workspace has at most as
\* many agents and documents too many as requests were let through at once, less
\* one.  (Of numbers and colleagues it may have any number too many: neither
\* enabling a number nor accepting an invitation is checked.)
CrowdingBounded ==
    slotKind \in {"agents", "documents"} =>
        slots = 0 \/ slots <= Ceiling - 1 + Cardinality(Requests)

=============================================================================
