------------------------------- MODULE Sessions -------------------------------
(***************************************************************************)
(* One user's refresh tokens: issued, exchanged for new ones, and revoked. *)
(*                                                                         *)
(* Source: app/services/auth_service.py, app/core/token_store.py,          *)
(* app/core/security.py, app/api/v1/auth.py.                               *)
(*                                                                         *)
(* A token is a signed statement nobody keeps; what is kept, in Redis, is  *)
(* that a token has been spent, under a key that expires with the token.   *)
(* A token ends on a whole second and a key lives for whole seconds, so    *)
(* time is counted in halves.                                              *)
(***************************************************************************)
EXTENDS Integers

CONSTANTS
    Tokens,         \* refresh tokens that may be issued
    Browsers,       \* requests that present a token
    NoToken,
    Lifetime,       \* refresh_token_ttl_seconds
    LastSecond      \* bound: seconds the model looks at

ASSUME SessionsAssumption ==
    /\ NoToken \notin Tokens
    /\ Lifetime \in Nat \ {0} /\ LastSecond \in Nat \ {0}

VARIABLES
    clock,        \* half seconds
    ends,         \* when each token ends; 0 if it has not been issued
    denied,       \* when each token's entry in the denylist lapses; 0: none
    presenting,   \* where each request is
    heirs,        \* history: tokens issued in exchange for each token
    spent,        \* history: tokens that have been refreshed or logged out
    late          \* history: tokens exchanged by a request that began when they
                  \* were spent, and not in their last half second

sessionVars == <<clock, ends, denied, presenting, heirs, spent, late>>

NotPresenting == [stage |-> "idle", token |-> NoToken, known |-> FALSE]

SessionsInit ==
    /\ clock = 1
    /\ ends = [t \in Tokens |-> 0]
    /\ denied = [t \in Tokens |-> 0]
    /\ presenting = [b \in Browsers |-> NotPresenting]
    /\ heirs = [t \in Tokens |-> 0]
    /\ spent = {}
    /\ late = {}

\* exp is the issue time, less its fraction, and the lifetime.
EndOf(now) == 2 * (now \div 2 + Lifetime)

\* decode_token: a token is good until its end.
Good(t) == clock < ends[t]

\* Redis drops a key at the end of its time.
IsRevoked(t) == clock < denied[t]

\* Mutant: the remaining time is counted in minutes where seconds are meant.
RemainingShort(t) == ((ends[t] - clock) \div 2) \div 2

\* seconds_until_expiry: floored.
Remaining(t) == (ends[t] - clock) \div 2

\* revoke: nothing is written for a token that has no whole second left.
Revoked(t) ==
    IF Remaining(t) <= 0 THEN denied
    ELSE [denied EXCEPT ![t] = clock + 2 * Remaining(t)]

Issue(t) ==
    /\ ends[t] = 0
    /\ \A b \in Browsers : presenting[b].token # t
    /\ ends' = [ends EXCEPT ![t] = EndOf(clock)]

AtStage(b, stage) == presenting' = [presenting EXCEPT ![b].stage = stage]
Finished(b) == presenting' = [presenting EXCEPT ![b] = NotPresenting]

\* register, login.
Login ==
    \E t \in Tokens :
        /\ Issue(t)
        /\ UNCHANGED <<clock, denied, presenting, heirs, spent, late>>

\* refresh: the token is decoded; the rest happens later.
Present(b) ==
    \E t \in Tokens :
        /\ presenting[b] = NotPresenting
        /\ Good(t)
        /\ presenting' = [presenting EXCEPT ![b] =
                [stage |-> "check", token |-> t, known |-> t \in spent]]
        /\ UNCHANGED <<clock, ends, denied, heirs, spent, late>>

\* A spent token is refused.
CheckRevoked(b) ==
    LET t == presenting[b].token IN
    /\ presenting[b].stage = "check"
    /\ IF IsRevoked(t) THEN Finished(b)
       ELSE presenting' = [presenting EXCEPT
                ![b].stage = "revoke",
                ![b].known = @ /\ clock < ends[t] - 1]
    /\ UNCHANGED <<clock, ends, denied, heirs, spent, late>>

\* The user, who may be gone, is read in between.
Revoke(b) ==
    LET t == presenting[b].token IN
    /\ presenting[b].stage = "revoke"
    /\ denied' = Revoked(t)
    /\ spent' = spent \cup {t}
    /\ AtStage(b, "issue")
    /\ UNCHANGED <<clock, ends, heirs, late>>

\* The workspace asked for is resolved last: if that is refused, the token has
\* been spent for nothing.
IssueHeir(b) ==
    LET t == presenting[b].token IN
    /\ presenting[b].stage = "issue"
    /\ \E h \in Tokens : Issue(h)
    /\ heirs' = [heirs EXCEPT ![t] = @ + 1]
    /\ late' = IF presenting[b].known THEN late \cup {t} ELSE late
    /\ Finished(b)
    /\ UNCHANGED <<clock, denied, spent>>

\* An unknown or inactive user, a workspace that is refused, an error or a crash.
RefreshFails(b) ==
    /\ presenting[b].stage \in {"revoke", "issue"}
    /\ Finished(b)
    /\ UNCHANGED <<clock, ends, denied, heirs, spent, late>>

\* logout: a token that is not good is not an error.
Logout ==
    \E t \in Tokens :
        /\ Good(t)
        /\ denied' = Revoked(t)
        /\ spent' = spent \cup {t}
        /\ UNCHANGED <<clock, ends, presenting, heirs, late>>

Elapse ==
    /\ clock < 2 * LastSecond
    /\ clock' = clock + 1
    /\ UNCHANGED <<ends, denied, presenting, heirs, spent, late>>

SessionsNext ==
    \/ Login \/ Logout \/ Elapse
    \/ \E b \in Browsers :
        \/ Present(b) \/ CheckRevoked(b) \/ Revoke(b) \/ IssueHeir(b)
        \/ RefreshFails(b)

SessionsSpec == SessionsInit /\ [][SessionsNext]_sessionVars

-----------------------------------------------------------------------------
(* Properties                                                              *)

\* Every variable has its type.
SessionsTypeOK ==
    /\ clock \in 1..(2 * LastSecond)
    /\ ends \in [Tokens -> Nat] /\ denied \in [Tokens -> Nat]
    /\ heirs \in [Tokens -> Nat]
    /\ presenting \in [Browsers -> [stage : {"idle", "check", "revoke", "issue"},
                                   token : Tokens \cup {NoToken}, known : BOOLEAN]]
    /\ spent \subseteq Tokens /\ late \subseteq Tokens

\* A token that was refreshed or logged out buys nothing any more for a request
\* that begins afterwards, unless it is in its last second, at the end of which
\* the entry no longer holds and the token still does.  (Requests that overlap may each be
\* given a new token for the same old one.)
SpentStaysSpent == late = {}

=============================================================================
