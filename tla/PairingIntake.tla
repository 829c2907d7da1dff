---------------------------- MODULE PairingIntake ----------------------------
(***************************************************************************)
(* How many pairing requests a server takes (rpc/pairing_service.go, Begin *)
(* and rpc/pairing.go, PairingBegin): no more than RateLimit of one peer   *)
(* in one window, and no more than MaxPending that wait for approval.      *)
(* What becomes of a request is in Pairing.                                *)
(***************************************************************************)
EXTENDS Integers, FiniteSets

CONSTANTS
    Peer,           \* the hosts requests come from
    MaxAttempts,    \* bound: calls of PairingBegin
    MaxPending,     \* maxPendingPairings
    RateLimit,      \* pairingRateLimit
    RateWindow,     \* pairingRateWindow
    Lifetime,       \* how long a request waits
    MaxTime         \* bound: how long all this is watched

VARIABLES
    now,
    rates,          \* pairingService.rates
    peer,           \* who each call is from
    at,             \* where each call is, and then its row
    allowedAt,      \* when it passed the rate limit
    expiresAt,
    peak            \* how many calls were between count and insert at once

vars == <<now, rates, peer, at, allowedAt, expiresAt, peak>>

Never == -1
Attempt == 1 .. MaxAttempts      \* numbered as they take the mutex

TypeOK ==
    /\ now \in 0 .. MaxTime
    /\ rates \in [Peer -> [started : {Never} \cup 0 .. MaxTime, count : 0 .. RateLimit]]
    /\ peer \in [Attempt -> Peer]
    /\ at \in [Attempt -> {"new", "allowed", "swept", "counted", "waiting", "over", "refused"}]
    /\ allowedAt \in [Attempt -> {Never} \cup 0 .. MaxTime]
    /\ expiresAt \in [Attempt -> {Never} \cup 0 .. MaxTime + Lifetime]
    /\ peak \in 0 .. MaxAttempts

Init ==
    /\ now = 0
    /\ rates = [p \in Peer |-> [started |-> Never, count |-> 0]]
    /\ peer \in [Attempt -> Peer]
    /\ at = [r \in Attempt |-> "new"]
    /\ allowedAt = [r \in Attempt |-> Never]
    /\ expiresAt = [r \in Attempt |-> Never]
    /\ peak = 0

In(place) == {r \in Attempt : at[r] = place}

-----------------------------------------------------------------------------

Tick == now < MaxTime /\ now' = now + 1 /\ UNCHANGED <<rates, peer, at, allowedAt, expiresAt, peak>>

\* Where the calls go, and with the rows that are over their expiry.
Move(to) ==
    /\ at' = to
    /\ expiresAt' = [r \in Attempt |-> IF to[r] \in {"over", "refused"} THEN Never ELSE expiresAt[r]]

\* Broken: the window begins again with every request.
SlidingStart(rate) ==
    IF rate.started = Never \/ now - rate.started >= RateWindow \/ rate.count > 0
    THEN [started |-> now, count |-> 0] ELSE rate

\* The window a request falls in, a new one when the last is over.
Current(rate) ==
    IF rate.started = Never \/ now - rate.started >= RateWindow
    THEN [started |-> now, count |-> 0] ELSE rate

\* allowPairing, under its mutex.
Allow(r) ==
    LET rate == Current(rates[peer[r]])
    IN  /\ at[r] = "new" /\ \A q \in 1 .. r - 1 : at[q] # "new"
        /\ IF rate.count >= RateLimit
           THEN /\ rates' = [rates EXCEPT ![peer[r]] = rate]
                /\ at' = [at EXCEPT ![r] = "refused"]
                /\ UNCHANGED allowedAt
           ELSE /\ rates' = [rates EXCEPT ![peer[r]] = [rate EXCEPT !.count = @ + 1]]
                /\ at' = [at EXCEPT ![r] = "allowed"]
                /\ allowedAt' = [allowedAt EXCEPT ![r] = now]
        /\ UNCHANGED <<now, peer, expiresAt, peak>>

\* PairingBegin marks the requests that have expired,
Sweep(r) ==
    /\ at[r] = "allowed"
    /\ LET due == {q \in Attempt : at[q] = "waiting" /\ expiresAt[q] <= now}
       IN  /\ at' = [q \in Attempt |-> CASE q = r -> "swept" [] q \in due -> "over" [] OTHER -> at[q]]
           /\ expiresAt' = [q \in Attempt |->
                 CASE q = r -> now + Lifetime [] q \in due -> Never [] OTHER -> expiresAt[q]]
    /\ UNCHANGED <<now, rates, peer, allowedAt, peak>>

\* Broken: one more is let in.
RoomForOneMore == Cardinality(In("waiting")) <= MaxPending

Room == Cardinality(In("waiting")) < MaxPending

\* counts those that wait,
Count(r) ==
    /\ at[r] = "swept"
    /\ Move([at EXCEPT ![r] = IF Room THEN "counted" ELSE "refused"])
    /\ peak' = LET n == Cardinality({q \in Attempt : at'[q] = "counted"})
               IN  IF n > peak THEN n ELSE peak
    /\ UNCHANGED <<now, rates, peer, allowedAt>>

\* and inserts its own, unless no code is free.
Insert(r) ==
    /\ at[r] = "counted"
    /\ Move([at EXCEPT ![r] = "waiting"]) \/ Move([at EXCEPT ![r] = "refused"])
    /\ UNCHANGED <<now, rates, peer, allowedAt, peak>>

\* It is approved, denied, or found to have expired.
Settle(r) ==
    /\ at[r] = "waiting"
    /\ Move([at EXCEPT ![r] = "over"])
    /\ UNCHANGED <<now, rates, peer, allowedAt, peak>>

Begin(r) == Allow(r) \/ Sweep(r) \/ Count(r) \/ Insert(r)

Next ==
    \/ Tick
    \/ \E r \in Attempt : Begin(r) \/ Settle(r)

Spec == Init /\ [][Next]_vars

-----------------------------------------------------------------------------
(* Properties *)

(***************************************************************************)
(* The count and the insert are two statements, so that requests can pass  *)
(* the limit together: but by no more than there were between the two at   *)
(* one time, and not at all when they come one by one.                     *)
(***************************************************************************)
PendingLimited ==
    peak > 0 => Cardinality(In("waiting") \cup In("counted")) <= MaxPending - 1 + peak

(***************************************************************************)
(* A window begins with a request, so that a peer which saves its requests *)
(* for the end of one gets less than twice the limit through in any time   *)
(* of a window's length.                                                   *)
(***************************************************************************)
RateLimited ==
    \A p \in Peer, t \in 0 .. MaxTime :
        Cardinality({r \in Attempt : peer[r] = p /\ allowedAt[r] \in t .. t + RateWindow - 1})
            < 2 * RateLimit

IntakeInv == TypeOK /\ PendingLimited /\ RateLimited

=============================================================================
