------------------------------- MODULE Login -------------------------------
(***************************************************************************)
(* Logging in under the two login limiters (rateLimiter,                   *)
(* internal/api/router.go, and handleLogin, auth.go): one counts the       *)
(* failures of a client address, the other those of all addresses, each    *)
(* within a window, and only failures count.                               *)
(*                                                                         *)
(* Abstracted: what is verified, and the session that a login creates      *)
(* (Accounts has both); how the address is found (clientIP).               *)
(***************************************************************************)
EXTENDS Loops, SequencesExt

CONSTANTS Callers,     \* clients that log in
          OwnLimit,    \* loginRateLimit
          AllLimit,    \* globalLoginRateLimit
          Window,      \* loginRateWindow, in ticks
          SweepEvery,  \* sweepInterval, in ticks
          SweepOver,   \* sweepThreshold, in keys
          MaxClock     \* ticks in a behaviour

ASSUME LoginAssumption ==
    /\ IsFiniteSet(Callers)
    /\ OwnLimit \in Nat /\ AllLimit \in Nat /\ Window \in Nat \ {0}
    /\ SweepEvery \in Nat /\ SweepOver \in Nat

VARIABLES
    address,   \* where each caller comes from, fixed in a behaviour
    beside,    \* whether requests run beside each other, the same
    clock,
    own,       \* the limiter of addresses: [attempts, swept]
    all,       \* the limiter with the one key "global"
    login,     \* each caller's request: idle, a step of handleLogin, or its answer
    failed     \* history: when logins failed within the window, by key

loginVars == <<address, beside, clock, own, all, login, failed>>

LoginInit(from, overlap) ==
    /\ address = from /\ beside = overlap
    /\ clock = 0
    /\ own = [attempts |-> <<>>, swept |-> 0] /\ all = own
    /\ login = [c \in Callers |-> "idle"]
    /\ failed = [k \in {from[c] : c \in Callers} \cup {"global"} |-> <<>>]

----------------------------------------------------------------------------
(* rateLimiter, whose calls hold its mutex.                                *)

\* The times after a cutoff.
After(times, cutoff) ==
    Loop([kept \in Seq(Nat) |-> [t \in Nat |-> IF t > cutoff THEN Append(kept, t) ELSE kept]], <<>>, times)

Seen(l) == DOMAIN l.attempts
InWindow(l, key) == IF key \in Seen(l) THEN After(l.attempts[key], clock - Window) ELSE <<>>

\* Nothing recorded within the window. Variant: something that is older.
Stale_Oldest(times) == times = <<>> \/ Head(times) < clock - Window

Stale(times) == times = <<>> \/ Last(times) < clock - Window

\* maybeSweep.
Swept(l) ==
    IF Cardinality(Seen(l)) <= SweepOver /\ clock - l.swept < SweepEvery THEN l
    ELSE [swept |-> clock,
          attempts |-> [k \in {key \in Seen(l) : ~Stale(l.attempts[key])} |-> l.attempts[k]]]

Blocked(l, key, limit) == Len(InWindow(Swept(l), key)) >= limit

\* Allow, which records nothing beyond the limit.
Counted(l, key, limit) ==
    LET kept == InWindow(Swept(l), key)
        now  == IF Len(kept) < limit THEN Append(kept, clock) ELSE kept
    IN  [Swept(l) EXCEPT !.attempts =
            [k \in Seen(Swept(l)) \cup {key} |-> IF k = key THEN now ELSE Swept(l).attempts[k]]]

----------------------------------------------------------------------------
(* handleLogin.                                                            *)

Goto(c, step) == login' = [login EXCEPT ![c] = step]
Fails(key) == failed' = [failed EXCEPT ![key] = Append(@, clock)]

Peek(c) ==
    /\ login[c] = "idle" /\ (beside \/ \A o \in Callers : login[o] \in {"idle", "refused"})
    /\ own' = Swept(own)
    /\ Goto(c, IF Blocked(own, address[c], OwnLimit) THEN "refused" ELSE "peek all")
    /\ UNCHANGED <<address, beside, clock, all, failed>>

PeekAll(c) ==
    /\ login[c] = "peek all"
    /\ all' = Swept(all)
    /\ Goto(c, IF Blocked(all, "global", AllLimit) THEN "refused" ELSE "verify")
    /\ UNCHANGED <<address, beside, clock, own, failed>>

\* A login that succeeds, and one of a disabled user, count nothing.
Verify(c) ==
    /\ login[c] = "verify"
    /\ \E right \in BOOLEAN : Goto(c, IF right THEN "idle" ELSE "count")
    /\ UNCHANGED <<address, beside, clock, own, all, failed>>

Count(c) ==
    /\ login[c] = "count"
    /\ own' = Counted(own, address[c], OwnLimit)
    /\ Fails(address[c])
    /\ Goto(c, "count all")
    /\ UNCHANGED <<address, beside, clock, all>>

CountAll(c) ==
    /\ login[c] = "count all"
    /\ all' = Counted(all, "global", AllLimit)
    /\ Fails("global")
    /\ Goto(c, "idle")
    /\ UNCHANGED <<address, beside, clock, own>>

\* Its next request.
Again(c) ==
    /\ login[c] = "refused"
    /\ Goto(c, "idle")
    /\ UNCHANGED <<address, beside, clock, own, all, failed>>

TimePasses ==
    /\ clock < MaxClock
    /\ clock' = clock + 1
    /\ failed' = [k \in DOMAIN failed |-> After(failed[k], clock' - Window)]
    /\ UNCHANGED <<address, beside, own, all, login>>

LoginNext(who) ==
    \/ \E c \in who : Peek(c) \/ PeekAll(c) \/ Verify(c) \/ Count(c) \/ CountAll(c) \/ Again(c)
    \/ who # {} /\ TimePasses

----------------------------------------------------------------------------
From(k) == IF k = "global" THEN Callers ELSE {c \in Callers : address[c] = k}
Limit(k) == IF k = "global" THEN AllLimit ELSE OwnLimit

\* Within a window the failures of an address, and of all, stay within their
\* limit, as long as their requests come one after the other (others may pass
\* the check together); and a request is refused only when that many failures
\* are within the window: a login that succeeds costs nothing (handleLogin).
LoginsLimited ==
    [][/\ \A k \in DOMAIN failed : ~beside \/ Cardinality(From(k)) = 1 => Len(failed'[k]) <= Limit(k)
       /\ \A c \in Callers : login[c] # "refused" /\ login'[c] = "refused" =>
             \E k \in {address[c], "global"} : Len(failed[k]) >= Limit(k)]_loginVars
=============================================================================
